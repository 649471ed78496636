--------------------------- MODULE MCObjectLookup ---------------------------
(***************************************************************************)
(* Small documents for ObjectLookup: three offsets, three object numbers.  *)
(* Objects 1 and 2 stand at offsets 1 and 2 if anywhere but offset 3; the  *)
(* order in a file matters only for a number that occurs twice, and offset *)
(* 3 may repeat one.                                                       *)
(***************************************************************************)
EXTENDS ObjectLookup

MCOffs == {1, 2, 3}
MCNums == {1, 2, 3}

Of(n, g, k, l, m) == [num |-> n, gen |-> g, kind |-> k, len |-> l, members |-> m]
Junk == Of(1, 0, "junk", Direct, <<>>)

InTable(o) == [XType |-> "table", at |-> o]
InStream(s) == [XType |-> "objstm", at |-> s]
Tables(entries) == UNION {[S -> entries] : S \in SUBSET MCNums \ {{}}}

Docs(bodies, tables) ==
    [body : {f \in [MCOffs -> bodies \cup {Junk}] :
                \A o \in {1, 2} : f[o] # Junk => f[o].num = o},
     xrefs : tables]

\* Objects without indirect lengths, at right and wrong offsets, in two
\* generations, some of them unreadable.
PlainDocs ==
    Docs({Of(n, 0, k, Direct, <<>>) : n \in MCNums, k \in {"int", "broken"}}
         \cup {Of(1, 1, "int", Direct, <<>>), Of(2, 1, "broken", Direct, <<>>)},
         Tables({InTable(o) : o \in MCOffs}))

\* Streams whose lengths are objects of their own.
LengthDocs ==
    Docs({Of(1, 0, "int", Direct, <<>>), Of(1, 0, "ref", Direct, <<>>)}
         \cup {Of(n, 0, "stream", l, <<>>) : n \in MCNums, l \in {1, 2}},
         Tables({InTable(o) : o \in MCOffs}))

\* Object streams with members 1 and 2, and objects outside them; an entry is
\* right, wrong, or names the wrong stream.  No object stream is compressed.
StreamDocs ==
    {d \in Docs({Of(n, 0, "int", Direct, <<>>) : n \in {1, 2}}
                \cup {Of(2, 0, "objstm", Direct, <<"other">>), Of(3, 0, "objstm", Direct, <<"int", "other">>)}
                \cup {Of(3, 0, "objstm", 1, <<"int", "other">>)},
                Tables({InTable(o) : o \in MCOffs} \cup {InStream(2), InStream(3)})) :
        3 \in DOMAIN d.xrefs => d.xrefs[3].XType = "table"}

StreamAndLengthDocs == LengthDocs \cup StreamDocs
=============================================================================

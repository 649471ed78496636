------------------------------ MODULE DocCrypt ------------------------------
(***************************************************************************)
(* An encrypted document, written by PdfWriter and read back by PdfReader: *)
(* PdfCrypt of core/crypt.go on both sides, with the lookups of            *)
(* core/crossrefs.go that decrypt an object when it is first loaded; and   *)
(* the standard security handlers of core/security: how the entries of the *)
(* encryption dictionary are made from two passwords, and how a password   *)
(* is tested against them and the file key recovered.                      *)
(*                                                                         *)
(* A string, or the data of a stream, is the sequence of the keys that it  *)
(* has been encrypted with: <<>> is the clear text.  The objects of the    *)
(* writer hold strings and other objects by pointer, and two of them may   *)
(* share a string; in the file that is read every object has its own, and  *)
(* references are not followed.                                            *)
(*                                                                         *)
(* The primitives are symbolic.  A hash is the term of what was hashed; a  *)
(* stream cipher (RC4) is a set of keystreams laid over a value, and the   *)
(* same keystream laid twice is gone, as it is for an exclusive or; a block*)
(* cipher (AES) wraps a value in a key and only that key unwraps it.       *)
(***************************************************************************)
EXTENDS Integers, Sequences, SequencesExt, FiniteSetsExt, TLC

CONSTANTS
    PadWidth,   \* bytes of a password that R <= 4 uses (32 in the code)
    PassWidth,  \* bytes of a password that R >= 5 uses (127 in the code)
    MaxRound,   \* the last of the passes of RC4 (19 in the code)
    PermOwner,  \* all permissions
    Setups,     \* documents to write (functions from object numbers to objects), passwords, and those to try
    Algorithms, \* among "V2", "AESV2" and "AESV3"
    Info,       \* number of the document information dictionary
    EncryptNum, \* number of the encryption dictionary
    MaxWrites   \* bound: files written from the same objects

-----------------------------------------------------------------------------
\* The standard security handlers.

Padding == [i \in 1 .. PadWidth |-> 8]

Cut(pass, n) == SubSeq(pass, 1, IF Len(pass) < n THEN Len(pass) ELSE n)

\* rc4.XORKeyStream: lays the keystreams of keys over value, or takes them off.
Xor(value, keys) ==
    [value EXCEPT !.streams = (value.streams \ keys) \cup (keys \ value.streams)]

Bytes(b) == [bytes |-> b, streams |-> {}]

-----------------------------------------------------------------------------
\* Revisions up to 4: RC4 and MD5.

paddedPass(pass) == SubSeq(pass \o Padding, 1, PadWidth)

\* A padded password, or the 32 bytes that alg7 has decrypted, which are not padded.
alg2(d, key) == <<"alg2", d.R >= 3, key, d.O, d.P, d.id0, d.R >= 4 /\ ~d.EncryptMetadata, d.Length>>

alg3Key(R, Length, pass) == <<"alg3", R >= 3, paddedPass(pass), IF R = 2 THEN 40 ELSE Length>>

\* The keys of the passes: the counter is mixed into every byte of the key.
Rounds(R, key) == {<<key, i>> : i \in IF R >= 3 THEN 0 .. MaxRound ELSE {0}}

alg3(R, Length, upass, opass) ==
    LET encKey == alg3Key(R, Length, IF opass # <<>> THEN opass ELSE upass)
    IN  Xor(Bytes(paddedPass(upass)), Rounds(R, encKey))

\* The first 16 bytes of U, which are those that alg6 compares.
alg5(id0, ekey) == Xor(Bytes(<<"md5", id0>>), Rounds(3, ekey))
alg4(ekey) == Xor(Bytes(<<"padding", "">>), Rounds(2, ekey))

NoKey == <<>>

alg6(d, key) ==
    LET ekey == alg2(d, key)
        U == IF d.R = 2 THEN alg4(ekey) ELSE alg5(d.id0, ekey)
    IN  IF U = d.U THEN ekey ELSE NoKey

alg7(d, opass) ==
    LET decrypted == Xor(d.O, Rounds(d.R, alg3Key(d.R, d.Length, opass)))
    IN  alg6(d, decrypted)

\* stdHandlerR4.GenerateParams.
GenerateParamsR4(d, opass, upass) ==
    LET d1 == [d EXCEPT !.O = alg3(d.R, d.Length, upass, opass)]
        ekey == alg2(d1, Bytes(paddedPass(upass)))
    IN  [d |-> [d1 EXCEPT !.U = alg5(d.id0, ekey)], key |-> ekey]

\* stdHandlerR4.Authenticate: the owner password first, then the user password.
AuthenticateR4(d, pass) ==
    LET okey == alg7(d, pass)
        ukey == alg6(d, Bytes(paddedPass(pass)))
    IN  IF okey # NoKey THEN [key |-> okey, perm |-> PermOwner, err |-> FALSE]
        ELSE IF ukey # NoKey THEN [key |-> ukey, perm |-> d.P, err |-> FALSE]
        ELSE [key |-> NoKey, perm |-> 0, err |-> FALSE]

-----------------------------------------------------------------------------
\* Revisions 5 and 6: AES and SHA.  The salts are drawn at random, each once.

alg2b(R, data, pwd, userKey) ==
    IF R = 5 THEN <<"sha256", data>> ELSE <<"alg2b", data, pwd, userKey>>

NoUser == <<>>

Wrap(key, value) == <<"aes", key, value>>
Unwrap(key, c) == IF c[2] = key THEN c[3] ELSE <<"garbage", key, c>>

alg8(d, ekey, upass) ==
    LET h(salt) == alg2b(d.R, <<upass, salt, NoUser>>, upass, NoUser)
    IN  [d EXCEPT !.U = <<h("uval"), "uval", "ukey">>, !.UE = Wrap(h("ukey"), ekey)]

alg9(d, ekey, opass) ==
    LET h(salt) == alg2b(d.R, <<opass, salt, d.U>>, opass, d.U)
    IN  [d EXCEPT !.O = <<h("oval"), "oval", "okey">>, !.OE = Wrap(h("okey"), ekey)]

alg10(d, ekey) == [d EXCEPT !.Perms = Wrap(ekey, <<"adb", d.P, d.EncryptMetadata>>)]

\* stdHandlerR6.GenerateParams: a random file key, wrapped for each of the passwords.
GenerateParamsR6(d, opass, upass) ==
    LET ekey == <<"file key">>
        d1 == alg8(d, ekey, Cut(upass, PassWidth))
        d2 == alg9(d1, ekey, Cut(opass, PassWidth))
    IN  [d |-> IF d.R = 5 THEN d2 ELSE alg10(d2, ekey), key |-> ekey]

alg11(d, upass) == alg2b(d.R, <<upass, d.U[2], NoUser>>, upass, NoUser) = d.U[1]
alg12(d, opass) == alg2b(d.R, <<opass, d.O[2], d.U>>, opass, d.U) = d.O[1]

alg13(d, fkey) == Unwrap(fkey, d.Perms) = <<"adb", d.P, d.EncryptMetadata>>

\* Variant: the permissions are not checked against the key.
AuthenticateR6_NoPerms(d, password) ==
    LET pass == Cut(password, PassWidth)
        owner == alg12(d, pass)
        user == alg11(d, pass) \/ alg11(d, <<>>)
        ikey == IF owner THEN alg2b(d.R, <<pass, d.O[3], d.U>>, pass, d.U)
                ELSE alg2b(d.R, <<pass, d.U[3], NoUser>>, pass, NoUser)
    IN  [key |-> IF owner \/ user THEN Unwrap(ikey, IF owner THEN d.OE ELSE d.UE) ELSE NoKey,
         perm |-> IF owner THEN PermOwner ELSE d.P, err |-> FALSE]

\* stdHandlerR6.alg2a.  The key for the default password is computed from the given
\* password all the same.
AuthenticateR6(d, password) ==
    LET pass == Cut(password, PassWidth)
        owner == alg12(d, pass)
        user == alg11(d, pass) \/ alg11(d, <<>>)
        ikey == IF owner THEN alg2b(d.R, <<pass, d.O[3], d.U>>, pass, d.U)
                ELSE alg2b(d.R, <<pass, d.U[3], NoUser>>, pass, NoUser)
        fkey == Unwrap(ikey, IF owner THEN d.OE ELSE d.UE)
    IN  IF ~owner /\ ~user THEN [key |-> NoKey, perm |-> 0, err |-> FALSE]
        ELSE IF d.R # 5 /\ ~alg13(d, fkey) THEN [key |-> NoKey, perm |-> 0, err |-> TRUE]
        ELSE [key |-> fkey, perm |-> IF owner THEN PermOwner ELSE d.P, err |-> FALSE]

-----------------------------------------------------------------------------
\* PdfCrypt.securityHandler picks the handler by the revision.
GenerateParams(d, opass, upass) ==
    IF d.R >= 5 THEN GenerateParamsR6(d, opass, upass) ELSE GenerateParamsR4(d, opass, upass)
Authenticate(d, pass) ==
    IF d.R >= 5 THEN AuthenticateR6(d, pass) ELSE AuthenticateR4(d, pass)

-----------------------------------------------------------------------------
VARIABLES
    phase,      \* "new", "writing" or "file"
    doc,        \* the document: per number its kind, strings, pointers, Crypt filter, object stream
    alg,        \* the crypt filter
    pass,       \* the user and owner passwords given to Encrypt, and those tried later
    params,     \* the entries of the encryption dictionary, and the file key
    source,     \* the data of the caller's streams
    text,       \* writer: the strings, by identity
    data,       \* writer: the data of its copies of the streams
    encrypted,  \* writer: encryptedObjects
    file,       \* what has been written, by number
    writes,     \* files written before this one
    detects,    \* whether AES notices that what it decrypts was not encrypted with the key
    key,        \* reader: encryptionKey
    authenticated, \* reader: the last attempt to authenticate has succeeded
    opened,     \* what the last Decrypt has returned, and for which password
    ObjCache,   \* reader: the objects that have been parsed
    decrypted,  \* reader: decryptedObjects
    answer,     \* number and outcome of the last lookup
    firstKey    \* history: the key that there was when an object was first looked up

wvars == <<doc, alg, pass, params, source, text, data, encrypted, file, writes, detects>>
rvars == <<key, authenticated, opened, ObjCache, decrypted, answer, firstKey>>
vars == <<phase, wvars, rvars>>

IsStream(n) == doc[n].kind \in {"stream", "xref", "objstm"}
Strings(d) == UNION {{s.id : s \in Range(d[n].strs)} : n \in DOMAIN d}
Nothing == [n \in {} |-> <<>>]
Outcomes == {"none", "ok", "refused", "error"}

TypeOK ==
    /\ phase \in {"new", "writing", "file"} /\ alg \in Algorithms
    /\ encrypted \subseteq DOMAIN doc /\ decrypted \subseteq DOMAIN doc
    /\ DOMAIN file \subseteq DOMAIN doc /\ DOMAIN ObjCache = DOMAIN firstKey
    /\ authenticated \in BOOLEAN
    /\ opened.outcome \in Outcomes /\ answer.outcome \in Outcomes
    /\ answer.outcome = "ok" => answer.num \in DOMAIN ObjCache

-----------------------------------------------------------------------------
\* The crypt filters of core/security/crypt.

\* HandlerVersion and KeyLength.
HandlerR == [V2 |-> 3, AESV2 |-> 4, AESV3 |-> 6]
KeyBits == [V2 |-> 128, AESV2 |-> 128, AESV3 |-> 256]

\* makeKeyV2; the third filter uses the file key itself.
MakeKey(n, fkey) == IF alg = "AESV3" THEN fkey ELSE <<alg, n, fkey>>

\* EncryptBytes: RC4 laid twice is the clear text again, AES adds a layer.
EncryptBytes(x, k) == IF alg = "V2" /\ Contains(x, k) THEN Remove(x, k) ELSE Append(x, k)

\* DecryptBytes: no AES cipher can be made from a missing file key; RC4 takes any key.
DecryptBytes(x, k, fkey) ==
    CASE alg = "V2" -> [val |-> EncryptBytes(x, k), err |-> FALSE]
      [] alg # "V2" /\ fkey = NoKey -> [val |-> x, err |-> TRUE]
      [] alg # "V2" /\ fkey # NoKey /\ x # <<>> /\ Last(x) = k -> [val |-> Front(x), err |-> FALSE]
      [] OTHER -> [val |-> IF detects THEN x ELSE Append(x, <<"bad">>), err |-> detects]

\* A stream whose first filter is Crypt names its crypt filter; from V = 4 on that
\* one is used, or the identity when there is none of the name.
InClear(n) == IsStream(n) /\ (doc[n].kind = "xref" \/ (alg # "V2" /\ doc[n].crypt = "unknown"))

\* The entries of a dictionary that are passed over.
Skipped(n, at) == at \in {"Parent", "Prev", "Last"} \/ (doc[n].kind = "sig" /\ at = "Contents")

-----------------------------------------------------------------------------
\* The writer.

NoDict == [R |-> 0, Length |-> 0, P |-> 0, id0 |-> "id0", EncryptMetadata |-> TRUE,
           O |-> <<>>, U |-> <<>>, OE |-> <<>>, UE |-> <<>>, Perms |-> <<>>]

NewWriter ==
    /\ params' = [d |-> NoDict, key |-> NoKey]
    /\ text' = [s \in Strings(doc') |-> <<>>]
    /\ encrypted' = {} /\ file' = Nothing

NewReader ==
    /\ key' = NoKey /\ authenticated' = FALSE /\ opened' = [pw |-> <<>>, outcome |-> "none"]
    /\ ObjCache' = Nothing /\ decrypted' = {} /\ firstKey' = Nothing
    /\ answer' = [num |-> 0, outcome |-> "none"]

Init ==
    /\ phase = "new" /\ writes = 0
    /\ \E s \in Setups : doc = s.doc /\ pass = s.pass
    /\ alg \in Algorithms
    /\ params = [d |-> NoDict, key |-> NoKey]
    /\ source = [n \in {m \in DOMAIN doc : doc[m].kind = "stream"} |-> <<>>] /\ data = source
    /\ text = [s \in Strings(doc) |-> <<>>]
    /\ encrypted = {} /\ file = Nothing /\ detects \in BOOLEAN
    /\ key = NoKey /\ authenticated = FALSE /\ opened = [pw |-> <<>>, outcome |-> "none"]
    /\ ObjCache = Nothing /\ decrypted = {} /\ firstKey = Nothing
    /\ answer = [num |-> 0, outcome |-> "none"]

\* PdfWriter.Encrypt and PdfCryptNewEncrypt, then copyObjects, whose copies of streams
\* keep the data of the caller's.
Encrypt ==
    /\ phase = "new" /\ phase' = "writing"
    /\ params' = GenerateParams([NoDict EXCEPT !.R = HandlerR[alg], !.Length = KeyBits[alg], !.P = 1],
                                pass.owner, pass.user)
    /\ data' = source
    /\ UNCHANGED <<doc, alg, pass, source, text, encrypted, file, writes, detects, rvars>>

\* What Encrypt goes down to from the objects todo: objects that are not marked, through
\* the pointers of dictionaries.  It does not know object streams.
RECURSIVE Reached(_, _)
Reached(todo, done) ==
    LET new == {n \in todo \ done : doc[n].kind # "objstm"}
        next == UNION {{r.to : r \in {x \in doc[n].refs : ~Skipped(n, x.at)}} : n \in {m \in new : ~InClear(m)}}
    IN  IF new = {} THEN done ELSE Reached(next, done \cup new)

\* Encrypt of one object: each of its strings where it occurs, and its data.
EncryptOne(n, st) ==
    LET k == MakeKey(n, params.key)
    IN  IF InClear(n) THEN st
        ELSE [text |-> FoldLeft(LAMBDA t, s : IF Skipped(n, s.at) THEN t ELSE [t EXCEPT ![s.id] = EncryptBytes(@, k)],
                                st.text, doc[n].strs),
              data |-> IF n \in DOMAIN st.data THEN [st.data EXCEPT ![n] = EncryptBytes(@, k)] ELSE st.data]

Members(n) == {m \in DOMAIN doc : doc[m].within = n}

Written(n, st) ==
    [strs |-> [i \in DOMAIN doc[n].strs |-> st.text[doc[n].strs[i].id]],
     data |-> IF n \in DOMAIN st.data THEN st.data[n] ELSE <<>>]

\* The loop of Write: an object is encrypted, with all that it reaches, and written.
\* RC4 encrypts in place, and the bytes of a stream are still the caller's.
WriteObject(n) ==
    /\ LET new == IF n = EncryptNum THEN {} ELSE Reached({n}, encrypted) \ encrypted
           st == FoldSet(EncryptOne, [text |-> text, data |-> data], new)
       IN  /\ text' = st.text /\ data' = st.data
           /\ encrypted' = encrypted \cup new
           /\ source' = IF alg = "V2" THEN [m \in DOMAIN source |-> IF m \in new THEN st.data[m] ELSE source[m]] ELSE source
           /\ file' = [m \in {n} \cup Members(n) |-> Written(m, st)] @@ file

\* Objects in the order of their numbers; those of an object stream are written within
\* it, as they are at that moment.
WriteNext ==
    /\ phase = "writing"
    /\ LET left == {n \in DOMAIN doc \ DOMAIN file : doc[n].within = 0}
       IN  IF left # {}
           THEN WriteObject(Min(left)) /\ UNCHANGED <<phase, doc, alg, pass, params, writes, detects, rvars>>
           ELSE /\ phase' = "file"
                /\ UNCHANGED <<wvars, rvars>>

\* Another writer is given the same pages.
WriteAgain ==
    /\ phase = "file" /\ writes < MaxWrites - 1
    /\ phase' = "new" /\ writes' = writes + 1
    /\ UNCHANGED <<doc, alg, pass, source, data, detects>>
    /\ NewWriter /\ NewReader

-----------------------------------------------------------------------------
\* The reader.  Its constructor has called IsEncrypted, which lists the objects that
\* are never decrypted.

isDecrypted(n, marked) ==
    \/ n \in marked
    \/ doc[n].kind = "xref"
    \/ ~IsStream(n) /\ n \in {Info, EncryptNum}

\* Decrypt of one object: its strings up to the first error, then its data.  A string
\* that cannot be decrypted stays as it is, the data of a stream does not.
DecryptOne(n, o) ==
    LET k == MakeKey(n, key)
        step(r, i) ==
            LET d == DecryptBytes(r.o.strs[i], k, key)
            IN  IF r.err \/ Skipped(n, doc[n].strs[i].at) THEN r
                ELSE [o |-> [r.o EXCEPT !.strs[i] = d.val], err |-> d.err]
        dict == FoldLeft(step, [o |-> o, err |-> FALSE], [i \in DOMAIN o.strs |-> i])
        d == DecryptBytes(o.data, k, key)
    IN  IF InClear(n) THEN [o |-> o, err |-> FALSE]
        ELSE IF dict.err \/ ~IsStream(n) THEN dict
        ELSE [o |-> [dict.o EXCEPT !.data = IF d.err THEN Append(@, <<"bad">>) ELSE d.val], err |-> d.err]

\* Variant: the object is never marked.
Fetch_MarkLast(n, st) ==
    LET o == IF n \in DOMAIN st.cache THEN st.cache[n] ELSE file[n]
        r == IF isDecrypted(n, st.marks) THEN [o |-> o, err |-> FALSE] ELSE DecryptOne(n, o)
    IN  [cache |-> (n :> r.o) @@ st.cache, err |-> r.err, marks |-> st.marks]

\* lookupByNumberWrapper for an object of its own: it is parsed and cached, marked, and
\* decrypted in place.
Fetch(n, st) ==
    LET o == IF n \in DOMAIN st.cache THEN st.cache[n] ELSE file[n]
        r == IF isDecrypted(n, st.marks) THEN [o |-> o, err |-> FALSE] ELSE DecryptOne(n, o)
    IN  [cache |-> (n :> r.o) @@ st.cache, err |-> r.err, marks |-> st.marks \cup {n}]

\* lookupObjectViaOS: the object stream is fetched, and decoded, first; what it holds
\* counts as decrypted.
FetchCompressed(n, st) ==
    LET os == Fetch(doc[n].within, st)
    IN  IF n \in DOMAIN st.cache THEN [st EXCEPT !.err = FALSE]
        ELSE IF os.err \/ os.cache[doc[n].within].data # <<>> THEN [os EXCEPT !.err = TRUE]
        ELSE [cache |-> (n :> file[n]) @@ os.cache, err |-> FALSE, marks |-> os.marks \cup {n}]

Lookup(n) ==
    /\ phase = "file"
    /\ LET st == [cache |-> ObjCache, marks |-> decrypted, err |-> FALSE]
           r == IF doc[n].within = 0 THEN Fetch(n, st) ELSE FetchCompressed(n, st)
       IN  /\ ObjCache' = r.cache /\ decrypted' = r.marks
           /\ answer' = [num |-> n, outcome |-> IF r.err THEN "error" ELSE "ok"]
           /\ firstKey' = firstKey @@ [m \in DOMAIN r.cache |-> key]
    /\ UNCHANGED <<phase, wvars, key, authenticated, opened>>

\* authenticate: the flag is cleared first, the key is replaced only on success.
Try(pw) == Authenticate(params.d, pw)

\* PdfParser.Decrypt: the password, and when it is refused the empty one.
Decrypt(pw) ==
    /\ phase = "file"
    /\ LET first == Try(pw)
           r == IF first.err \/ first.key # NoKey THEN first ELSE Try(<<>>)
       IN  /\ authenticated' = (r.key # NoKey)
           /\ key' = IF r.key # NoKey THEN r.key ELSE key
           /\ opened' = [pw |-> pw, outcome |-> IF r.err THEN "error" ELSE IF r.key = NoKey THEN "refused" ELSE "ok"]
    /\ UNCHANGED <<phase, wvars, ObjCache, decrypted, answer, firstKey>>

Next ==
    \/ Encrypt \/ WriteNext \/ WriteAgain
    \/ \E n \in DOMAIN doc : Lookup(n)
    \/ \E pw \in pass.tried : Decrypt(pw)

Spec == Init /\ [][Next]_vars

-----------------------------------------------------------------------------
\* The occurrences of a string, over all objects.
Occurrences(id) == {<<n, i>> \in (DOMAIN doc) \X (1 .. 2) : i \in DOMAIN doc[n].strs /\ doc[n].strs[i].id = id}

\* An object that is written on its own, with strings of its own, and data that no
\* earlier writer has encrypted in place.
Ordinary(n) ==
    /\ doc[n].within = 0 /\ doc[n].kind # "objstm" /\ n # EncryptNum
    /\ \A s \in Range(doc[n].strs) : Cardinality(Occurrences(s.id)) = 1
    /\ doc[n].kind = "stream" /\ alg = "V2" => writes = 0

\* PdfCrypt.Encrypt reaches objects from several others and is called for each of them
\* again, and still every string and stream of the file is encrypted exactly once, with
\* the key of the object that it is in, unless its place is one that is left in clear.
EncryptedOnce ==
    \A n \in DOMAIN file : Ordinary(n) =>
        /\ \A i \in DOMAIN doc[n].strs :
             file[n].strs[i] = IF InClear(n) \/ Skipped(n, doc[n].strs[i].at) THEN <<>>
                               ELSE <<MakeKey(n, params.key)>>
        /\ doc[n].kind = "stream" =>
             file[n].data = IF InClear(n) THEN <<>> ELSE <<MakeKey(n, params.key)>>

\* Whatever was looked up before, in whatever order, and whatever attempts to decrypt
\* have failed since: an object that a lookup returns has the strings and the data that
\* the writer was given, provided that the first lookup of it came when the file key
\* was there.  The document information is the exception: IsEncrypted lists it as never
\* encrypted, and the writer encrypts it.
ReadBack ==
    LET n == answer.num
    IN  answer.outcome = "ok" /\ Ordinary(n) /\ n # Info /\ firstKey[n] = params.key
        => /\ \A i \in DOMAIN ObjCache[n].strs : ObjCache[n].strs[i] = <<>>
           /\ ObjCache[n].data = <<>>

\* A reader that counts as authenticated has the key that the writer has encrypted
\* with, by whichever of the passwords.
KeyRecovered == authenticated => key = params.key

\* What the handlers take for the same password.
Same(p, q) == IF alg = "AESV3" THEN Cut(p, PassWidth) = Cut(q, PassWidth) ELSE paddedPass(p) = paddedPass(q)
Opens(pw) == \/ Same(pw, pass.user)
             \/ Same(pw, pass.owner) /\ (pass.owner # <<>> \/ alg = "AESV3")

\* Decrypt returns true for the user and the owner password, and for any when the empty
\* one is a password of the document, and for no others.  With AES-256 and an empty
\* user password alg2a returns an error for other passwords.
PasswordsOpen ==
    LET defaulted == alg = "AESV3" /\ Same(<<>>, pass.user) /\ ~Opens(opened.pw)
    IN  opened.outcome # "none" /\ ~defaulted
        => (opened.outcome = "ok" <=> Opens(opened.pw) \/ Opens(<<>>))
=============================================================================

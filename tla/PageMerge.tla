------------------------------ MODULE PageMerge ------------------------------
(***************************************************************************)
(* MergePageWith of model/appender.go: the content of a page is appended   *)
(* to that of another, whose resource dictionaries get the page's entries. *)
(* Names that both use are renamed, in the dictionaries by mergeResources, *)
(* and in the content by replacing text.                                   *)
(*                                                                         *)
(* A name is a sequence of characters, so that one can be the beginning of *)
(* another.  A content is the set of its uses of names: which category the *)
(* operator takes the name from, the name in the text, and the resource    *)
(* that was meant.  Pages come one after another.                          *)
(***************************************************************************)
EXTENDS Integers, Sequences, SequencesExt, FiniteSets, FiniteSetsExt, FiniteSetTheorems,
    SequenceTheorems, WellFoundedInduction, TLAPS

CONSTANTS
    NameSets,   \* sets of names, one of which the pages of a document use
    Categories, \* the categories that are merged: Font, XObject, Properties, ...
    Itoa,       \* strconv.Itoa: the characters of each number that may be tried as a suffix
    MaxMerges   \* bound: calls of MergePageWith

VARIABLES
    Names,          \* the names that the pages use for resources
    mayLack,        \* whether a page may be without a dictionary of some category
    srcResources,   \* the resource dictionaries of srcPage
    srcContent,     \* its content
    page,           \* the resources of the page that is merged
    content,        \* its content
    renames,        \* what is left of resourcesRenameMap for the content
    merged,         \* calls of MergePageWith
    pc              \* "idle" or "replace"

document == <<Names, mayLack>>
vars == <<Names, mayLack, srcResources, srcContent, page, content, renames, merged, pc>>

\* The resources of page number p: for some categories, a dictionary.  The
\* resource itself is known by its page, category and first name.
Lists == UNION {[C -> SUBSET Names] : C \in IF mayLack THEN SUBSET Categories ELSE {Categories}}
Resources(p, list) == [c \in DOMAIN list |-> [n \in list[c] |-> <<p, c, n>>]]
Uses(res) == UNION {{[cat |-> c, name |-> n, means |-> res[c][n]] : n \in DOMAIN res[c]} : c \in DOMAIN res}

Flat(res) == UNION {DOMAIN res[c] : c \in DOMAIN res}

TypeOK ==
    /\ Names \in NameSets /\ mayLack \in BOOLEAN
    /\ DOMAIN srcResources \subseteq Categories
    /\ \A n \in Flat(srcResources) : n # << >>
    /\ DOMAIN page \subseteq Categories
    /\ DOMAIN renames \subseteq Flat(page) \cap Flat(srcResources)
    /\ merged \in 0 .. MaxMerges
    /\ pc \in {"idle", "replace"}

-----------------------------------------------------------------------------
Init ==
    /\ Names \in NameSets /\ mayLack \in BOOLEAN
    /\ \E list \in Lists : srcResources = Resources(0, list)
    /\ srcContent = Uses(srcResources)
    /\ page = << >> /\ content = {} /\ renames = << >>
    /\ merged = 0 /\ pc = "idle"

\* resourcesRenameMap: the first number that gives a name the source does not use.
RenameMap(src, new) ==
    [n \in Flat(new) \cap Flat(src) |-> n \o Itoa[Min({i \in DOMAIN Itoa : n \o Itoa[i] \notin Flat(src)})]]

\* MergePageWith is called: the names of both pages are compared.
MergePageWith ==
    /\ pc = "idle" /\ merged < MaxMerges
    /\ merged' = merged + 1
    /\ \E list \in Lists : page' = Resources(merged', list)
    /\ content' = Uses(page')
    /\ renames' = RenameMap(srcResources, page')
    /\ pc' = "replace"
    /\ UNCHANGED <<document, srcResources, srcContent>>

\* As Replaced, but the content keeps its names.
Replaced_Not(n, old, new) == n

\* strings.Replace with a name as the old text: every name that begins with it.
Replaced(n, old, new) == IF IsPrefix(old, n) THEN new \o SubSeq(n, Len(old) + 1, Len(n)) ELSE n

\* One entry of the map is applied to the content; a map has no order.
Replace ==
    /\ pc = "replace"
    /\ \E old \in DOMAIN renames :
         /\ content' = {[u EXCEPT !.name = Replaced(@, old, renames[old])] : u \in content}
         /\ renames' = [n \in DOMAIN renames \ {old} |-> renames[n]]
    /\ UNCHANGED <<document, srcResources, srcContent, page, merged, pc>>

\* The orders in which a dictionary can hold its keys.
Orders == {f \in [Names -> 1 .. Cardinality(Names)] : IsInjective(f)}

\* mergeResources for one category that both pages have: the entries are set in the
\* order of the keys, renamed where the map says so.
mergeResources(dest, src, renamed, order) ==
    LET key(n) == IF n \in DOMAIN renamed THEN renamed[n] ELSE n
        sets(k) == {n \in DOMAIN src : key(n) = k}
        last(k) == CHOOSE n \in sets(k) : \A m \in sets(k) : order[m] <= order[n]
        keys == {key(n) : n \in DOMAIN src}
    IN  [k \in DOMAIN dest \cup keys |-> IF k \in keys THEN src[last(k)] ELSE dest[k]]

\* The content is appended, and the resources are merged by category; where the
\* source page has no dictionary, it gets the one of the page as it is.
Merge ==
    /\ pc = "replace" /\ renames = << >>
    /\ srcContent' = srcContent \cup content
    /\ \E order \in [Categories -> Orders] :
         srcResources' = [c \in DOMAIN srcResources \cup DOMAIN page |->
            CASE c \notin DOMAIN page -> srcResources[c]
              [] c \notin DOMAIN srcResources -> page[c]
              [] OTHER -> mergeResources(srcResources[c], page[c], RenameMap(srcResources, page), order[c])]
    /\ page' = << >> /\ content' = {} /\ pc' = "idle"
    /\ UNCHANGED <<document, renames, merged>>

Next == MergePageWith \/ Replace \/ Merge

Spec == Init /\ [][Next]_vars

-----------------------------------------------------------------------------
Resolves(u) == /\ u.cat \in DOMAIN srcResources
               /\ u.name \in DOMAIN srcResources[u.cat]
               /\ srcResources[u.cat][u.name] = u.means

\* Merging leaves the source page as it looked: each name in its own content still
\* stands for its own resource.
SourceKept == \A u \in srcContent : u.means[1] = 0 => Resolves(u)

\* Merged content looks as it did: each name in the content of every page merged so
\* far, renamed or not, stands for the resource it stood for in its own page.  This
\* needs that no name begins another, since names are replaced in the text one after
\* another and new ones are not compared with those of the merged page, and that
\* no page lacks a dictionary, since one taken over whole is not renamed.
MergedKept ==
    (/\ ~mayLack
     /\ \A m, n \in Names : IsPrefix(m, n) => m = n)
    => \A u \in srcContent : Resolves(u)

-----------------------------------------------------------------------------
\* Proofs: merging any pages with any names of resources.

\* A set of natural numbers that is not empty has a least element.
LEMMA LeastNumber ==
    ASSUME NEW S \in SUBSET Nat, S # {}
    PROVE  \E x \in S : \A y \in S : x <= y
  <1> DEFINE R == OpToRel(<, Nat)
  <1>1. \A x, y \in Nat : (<<y, x>> \in R) <=> y < x  BY Zenon DEF OpToRel
  <1>2. IsWellFoundedOn(R, Nat)  BY NatLessThanWellFounded
  <1> HIDE DEF R
  <1>3. PICK x \in S : \A y \in S : ~(<<y, x>> \in R)  BY Zenon, <1>2, WFMin
  <1>4. \A y \in S : ~(y < x)  BY Zenon, <1>1, <1>3
  <1> QED  BY <1>4

\* What is assumed of names and numbers: names are sequences of characters, a document
\* has finitely many, and no two numbers are written alike.
Naming ==
    /\ \A S \in NameSets : IsFiniteSet(S) /\ S \subseteq Seq(STRING)
    /\ Itoa \in [Nat \ {0} -> Seq(STRING) \ {<<>>}] /\ IsInjective(Itoa)

\* The name that mergeResources files the entry n under.
Key(R, n) == IF n \in DOMAIN R THEN R[n] ELSE n

\* A prefix, element by element.
LEMMA PrefixElements ==
    ASSUME NEW a \in Seq(STRING), NEW b \in Seq(STRING)
    PROVE  IsPrefix(a, b) <=> Len(a) <= Len(b) /\ \A i \in 1 .. Len(a) : a[i] = b[i]
  <1>1. CASE ~(Len(a) <= Len(b))  BY <1>1 DEF IsPrefix
  <1>2. CASE Len(a) <= Len(b)
    <2> DEFINE c == SubSeq(a, 1, Len(a))  d == SubSeq(b, 1, Len(a))
    <2>0. /\ \A i \in 1 .. Len(a) : a[i] \in STRING
          /\ \A i \in 1 .. Len(a) : b[i] \in STRING
          /\ Len(a) \in Nat
      BY <1>2, ElementOfSeq
    <2>1. /\ c \in Seq(STRING) /\ Len(c) = Len(a) /\ \A i \in 1 .. Len(a) : c[i] = a[i]
      BY <2>0, SubSeqProperties
    <2>2. /\ d \in Seq(STRING) /\ Len(d) = Len(a) /\ \A i \in 1 .. Len(a) : d[i] = b[i]
      BY <2>0, SubSeqProperties
    <2>3. (c = d) <=> \A i \in 1 .. Len(a) : a[i] = b[i]
      <3>1. ASSUME \A i \in 1 .. Len(a) : a[i] = b[i] PROVE c = d
        <4>1. \A i \in 1 .. Len(c) : c[i] = d[i]  BY <2>1, <2>2, <3>1
        <4> HIDE DEF c, d
        <4> QED  BY <2>1, <2>2, <4>1, SeqEqual
      <3>2. ASSUME c = d PROVE \A i \in 1 .. Len(a) : a[i] = b[i]
        <4> HIDE DEF c, d
        <4> QED  BY <2>1, <2>2, <3>2
      <3> QED  BY <3>1, <3>2
    <2> QED  BY <1>2, <2>3 DEF IsPrefix
  <1> QED  BY <1>1, <1>2

\* Of two sequences with which a third begins, one begins with the other.
LEMMA PrefixesCompare ==
    ASSUME NEW a \in Seq(STRING), NEW b \in Seq(STRING), NEW c \in Seq(STRING),
           IsPrefix(a, c), IsPrefix(b, c)
    PROVE  IsPrefix(a, b) \/ IsPrefix(b, a)
  <1>1. /\ Len(a) <= Len(c) /\ \A i \in 1 .. Len(a) : a[i] = c[i]
        /\ Len(b) <= Len(c) /\ \A i \in 1 .. Len(b) : b[i] = c[i]
    BY ZenonT(30), PrefixElements
  <1>2. /\ IsPrefix(a, b) <=> Len(a) <= Len(b) /\ \A i \in 1 .. Len(a) : a[i] = b[i]
        /\ IsPrefix(b, a) <=> Len(b) <= Len(a) /\ \A i \in 1 .. Len(b) : b[i] = a[i]
    BY PrefixElements
  <1>3. Len(a) \in Nat /\ Len(b) \in Nat  BY LenProperties
  <1> QED  BY <1>1, <1>2, <1>3

\* A name with a suffix begins with the name, and what is left of it is the suffix.
LEMMA Suffixed ==
    ASSUME NEW n \in Seq(STRING), NEW s \in Seq(STRING)
    PROVE  /\ n \o s \in Seq(STRING) /\ IsPrefix(n, n \o s) /\ IsPrefix(n, n)
           /\ s # <<>> => n \o s # n
           /\ SubSeq(n, Len(n) + 1, Len(n)) = <<>> /\ n \o s = (n \o s) \o <<>>
  <1>1. /\ n \o s \in Seq(STRING) /\ Len(n \o s) = Len(n) + Len(s)
        /\ \A i \in 1 .. Len(n) + Len(s) : (n \o s)[i] = IF i <= Len(n) THEN n[i] ELSE s[i - Len(n)]
    BY ConcatProperties
  <1>2. Len(n) \in Nat /\ Len(s) \in Nat /\ (s # <<>> => Len(s) > 0)  BY LenProperties, EmptySeq
  <1>3. Len(n) <= Len(n \o s) /\ \A i \in 1 .. Len(n) : n[i] = (n \o s)[i]  BY <1>1, <1>2
  <1>4. IsPrefix(n, n \o s)  BY Zenon, <1>1, <1>3, PrefixElements
  <1>5. IsPrefix(n, n)  BY <1>2, PrefixElements
  <1>6. s # <<>> => n \o s # n  BY ConcatEqualIffEmpty
  <1>7. SubSeq(n, Len(n) + 1, Len(n)) = <<>>  BY <1>2, SubSeqEmpty
  <1>8. n \o s = (n \o s) \o <<>>  BY <1>1, ConcatEmptySeq
  <1> QED  BY <1>1, <1>4, <1>5, <1>6, <1>7, <1>8

\* The loop over the numbers ends: there is always one that gives a new name.
LEMMA FreeSuffix ==
    ASSUME Naming, NEW S, IsFiniteSet(S), NEW n \in Seq(STRING)
    PROVE  \E i \in DOMAIN Itoa : n \o Itoa[i] \notin S
  <1> SUFFICES ASSUME \A i \in DOMAIN Itoa : n \o Itoa[i] \in S PROVE FALSE  OBVIOUS
  <1>1. DOMAIN Itoa = Nat \ {0} /\ \A i \in DOMAIN Itoa : Itoa[i] \in Seq(STRING)  BY DEF Naming
  <1>2. Cardinality(S) \in Nat  BY FS_CardinalityType
  <1>3. PICK I : I = 1 .. Cardinality(S) + 1  OBVIOUS
  <1>4. IsFiniteSet(I) /\ Cardinality(I) = Cardinality(S) + 1  BY <1>2, <1>3, FS_Interval
  <1>5. I \subseteq DOMAIN Itoa  BY <1>1, <1>2, <1>3
  <1>6. PICK f : f = [i \in I |-> n \o Itoa[i]]  BY Zenon
  <1>7. f \in [I -> S]  BY <1>5, <1>6
  <1>8. Cardinality(S) < Cardinality(I)  BY <1>2, <1>4
  <1>9. PICK x \in I, y \in I : x # y /\ f[x] = f[y]  BY <1>4, <1>7, <1>8, FS_PigeonHole, Zenon
  <1>10. n \o Itoa[x] = n \o Itoa[y]  BY <1>6, <1>9
  <1>11. Itoa[x] = Itoa[y]
    <2>1. Itoa[x] \in Seq(STRING) /\ Itoa[y] \in Seq(STRING)  BY <1>1, <1>5
    <2> QED  BY <1>10, <2>1, ConcatSimplifications, Zenon
  <1> QED  BY <1>5, <1>9, <1>11 DEF Naming, IsInjective

\* Every name that both pages use gets a new one: the old one with something after it.
Renaming(src, new, R) ==
    /\ DOMAIN R = Flat(new) \cap Flat(src)
    /\ \A n \in DOMAIN R : R[n] \notin Flat(src) /\ \E s \in Seq(STRING) \ {<<>>} : R[n] = n \o s

\* That is what the rename map holds.
LEMMA NewNames ==
    ASSUME Naming, NEW src, NEW new, IsFiniteSet(Flat(src)), Flat(src) \subseteq Seq(STRING),
           NEW R, R = RenameMap(src, new)
    PROVE  Renaming(src, new, R)
  <1>1. DOMAIN R = Flat(new) \cap Flat(src)  BY DEF RenameMap
  <1>2. ASSUME NEW n \in DOMAIN R
        PROVE  R[n] \notin Flat(src) /\ \E s \in Seq(STRING) \ {<<>>} : R[n] = n \o s
    <2> DEFINE I == {i \in DOMAIN Itoa : n \o Itoa[i] \notin Flat(src)}
    <2>1. n \in Seq(STRING)  BY <1>1
    <2>2. I # {}  BY <2>1, FreeSuffix
    <2>3. I \in SUBSET Nat  BY DEF Naming
    <2>4. \E x \in I : \A y \in I : x <= y  BY Zenon, <2>2, <2>3, LeastNumber
    <2>5. Min(I) \in I
      <3> HIDE DEF I
      <3> QED  BY <2>4, Zenon DEF Min
    <2>6. R[n] = n \o Itoa[Min(I)]  BY <1>1 DEF RenameMap
    <2> QED  BY Zenon, <2>5, <2>6 DEF Naming
  <1> QED  BY ZenonT(30), <1>1, <1>2 DEF Renaming

\* Entries that have different names, of which none begins another, get different names.
LEMMA KeysApart ==
    ASSUME NEW S, S \subseteq Seq(STRING), \A m, n \in S : IsPrefix(m, n) => m = n,
           NEW R, \A n \in DOMAIN R : \E s \in Seq(STRING) \ {<<>>} : R[n] = n \o s,
           NEW m \in S, NEW n \in S, Key(R, m) = Key(R, n)
    PROVE  m = n
  <1>1. /\ Key(R, m) \in Seq(STRING) /\ IsPrefix(m, Key(R, m))
        /\ Key(R, n) \in Seq(STRING) /\ IsPrefix(n, Key(R, n))
    <2>1. ASSUME NEW x \in S PROVE Key(R, x) \in Seq(STRING) /\ IsPrefix(x, Key(R, x))
      <3>1. CASE x \in DOMAIN R
        <4>1. PICK s \in Seq(STRING) : R[x] = x \o s  BY <3>1
        <4>2. x \o s \in Seq(STRING) /\ IsPrefix(x, x \o s)  BY Suffixed
        <4> QED  BY <3>1, <4>1, <4>2 DEF Key
      <3>2. CASE x \notin DOMAIN R
        <4>1. IsPrefix(x, x)
          <5>1. <<>> \in Seq(STRING) /\ x \in Seq(STRING)  BY EmptySeq
          <5> QED  BY <5>1, Suffixed
        <4> QED  BY <3>2, <4>1 DEF Key
      <3> QED  BY <3>1, <3>2
    <2> QED  BY <2>1
  <1>2. IsPrefix(m, n) \/ IsPrefix(n, m)
    <2>1. m \in Seq(STRING) /\ n \in Seq(STRING) /\ IsPrefix(n, Key(R, m))  BY <1>1
    <2> HIDE DEF Key
    <2> QED  BY <1>1, <2>1, PrefixesCompare
  <1> QED  BY <1>2

\* res has the entries of dest, where none of src took their names, and those of src.
Merged(dest, src, R, order, res) ==
    /\ DOMAIN res = DOMAIN dest \cup {Key(R, n) : n \in DOMAIN src}
    /\ \A k \in DOMAIN dest : (\A n \in DOMAIN src : Key(R, n) # k) => res[k] = dest[k]
    /\ (/\ \A n \in DOMAIN src : order[n] \in Nat
        /\ \A m, n \in DOMAIN src : Key(R, m) = Key(R, n) => m = n)
       => \A n \in DOMAIN src : res[Key(R, n)] = src[n]

\* That is what mergeResources does.
LEMMA MergedDictionary ==
    ASSUME NEW dest, NEW src, NEW R, NEW order
    PROVE  Merged(dest, src, R, order, mergeResources(dest, src, R, order))
  <1>0. PICK res : res = mergeResources(dest, src, R, order)  OBVIOUS
  <1> DEFINE sets(k) == {n \in DOMAIN src : Key(R, n) = k}
             last(k) == CHOOSE n \in sets(k) : \A m \in sets(k) : order[m] <= order[n]
             keys == {Key(R, n) : n \in DOMAIN src}
  <1>1. res = [k \in DOMAIN dest \cup keys |-> IF k \in keys THEN src[last(k)] ELSE dest[k]]
    BY <1>0, Zenon DEF mergeResources, Key
  <1>2. DOMAIN res = DOMAIN dest \cup keys  BY <1>1
  <1>3. \A k \in DOMAIN dest : k \notin keys => res[k] = dest[k]  BY <1>1
  <1>4. ASSUME \A n \in DOMAIN src : order[n] \in Nat,
               \A m, n \in DOMAIN src : Key(R, m) = Key(R, n) => m = n,
               NEW n \in DOMAIN src
        PROVE  res[Key(R, n)] = src[n]
    <2>1. sets(Key(R, n)) = {n}  BY <1>4
    <2>2. order[n] <= order[n]  BY <1>4
    <2>3. last(Key(R, n)) = n
      <3> HIDE DEF sets
      <3> QED  BY <2>1, <2>2, Zenon
    <2>4. Key(R, n) \in keys  OBVIOUS
    <2> HIDE DEF keys, last
    <2> QED  BY <1>1, <2>3, <2>4
  <1>5. Merged(dest, src, R, order, res)  BY <1>2, <1>3, <1>4 DEF Merged
  <1> QED  BY <1>0, <1>5

\* Every page uses names of the document, and a dictionary is for a category.
LEMMA PageNames ==
    ASSUME NEW p, NEW list \in Lists, NEW res, res = Resources(p, list)
    PROVE  /\ Flat(res) \subseteq Names /\ DOMAIN res \subseteq Categories
           /\ ~mayLack => DOMAIN res = Categories
           /\ \A c \in DOMAIN res : /\ DOMAIN res[c] \subseteq Names
                                    /\ \A n \in DOMAIN res[c] : res[c][n] = <<p, c, n>>
  <1>1. PICK C \in SUBSET Categories : list \in [C -> SUBSET Names] /\ (~mayLack => C = Categories)
    BY DEF Lists
  <1>2. DOMAIN res = C  BY <1>1 DEF Resources
  <1>3. \A c \in C : res[c] = [n \in list[c] |-> <<p, c, n>>]  BY <1>1 DEF Resources
  <1>4. \A c \in C : DOMAIN res[c] = list[c] /\ list[c] \subseteq Names  BY Zenon, <1>1, <1>3
  <1>5. \A c \in C : \A n \in DOMAIN res[c] : res[c][n] = <<p, c, n>>  BY ZenonT(30), <1>3, <1>4
  <1>6. Flat(res) \subseteq Names  BY <1>2, <1>4 DEF Flat
  <1> QED  BY <1>1, <1>2, <1>4, <1>5, <1>6

\* A use of a name, taken from a dictionary of the page.
LEMMA UsesOfPage ==
    ASSUME NEW res, NEW u \in Uses(res)
    PROVE  /\ u = [cat |-> u.cat, name |-> u.name, means |-> u.means]
           /\ u.cat \in DOMAIN res /\ u.name \in DOMAIN res[u.cat] /\ u.means = res[u.cat][u.name]
  <1>1. PICK c \in DOMAIN res : \E n \in DOMAIN res[c] : u = [cat |-> c, name |-> n, means |-> res[c][n]]
    BY Zenon DEF Uses
  <1>2. PICK n \in DOMAIN res[c] : u = [cat |-> c, name |-> n, means |-> res[c][n]]  BY <1>1
  <1> QED  BY <1>2

\* What Merge does to the dictionaries: nothing is lost of those that the source page
\* had, and its names stay finitely many.
LEMMA MergeKeeps ==
    ASSUME Naming, Merge, Names \in NameSets, NEW p, NEW list \in Lists, page = Resources(p, list),
           IsFiniteSet(Flat(srcResources)), Flat(srcResources) \subseteq Seq(STRING),
           NEW R, R = RenameMap(srcResources, page)
    PROVE  /\ DOMAIN srcResources' = DOMAIN srcResources \cup DOMAIN page
           /\ IsFiniteSet(Flat(srcResources)') /\ Flat(srcResources)' \subseteq Seq(STRING)
           /\ \A c \in DOMAIN srcResources : \A k \in DOMAIN srcResources[c] :
                 k \in DOMAIN srcResources'[c] /\ srcResources'[c][k] = srcResources[c][k]
           /\ \A c \in DOMAIN srcResources \cap DOMAIN page : \E order \in Orders :
                 srcResources'[c] = mergeResources(srcResources[c], page[c], R, order)
  <1>1. PICK orders \in [Categories -> Orders] :
           srcResources' = [c \in DOMAIN srcResources \cup DOMAIN page |->
              CASE c \notin DOMAIN page -> srcResources[c]
                [] c \notin DOMAIN srcResources -> page[c]
                [] OTHER -> mergeResources(srcResources[c], page[c], R, orders[c])]
    BY Zenon DEF Merge
  <1>2. DOMAIN srcResources' = DOMAIN srcResources \cup DOMAIN page  BY <1>1
  <1>3. \A c \in DOMAIN srcResources : c \notin DOMAIN page => srcResources'[c] = srcResources[c]
    BY <1>1
  <1>4. \A c \in DOMAIN page : c \notin DOMAIN srcResources => srcResources'[c] = page[c]
    BY <1>1
  <1>5. \A c \in DOMAIN srcResources \cap DOMAIN page :
           srcResources'[c] = mergeResources(srcResources[c], page[c], R, orders[c])
    BY <1>1
  <1>6. /\ DOMAIN R = Flat(page) \cap Flat(srcResources)
        /\ \A n \in DOMAIN R : R[n] \notin Flat(srcResources) /\ \E s \in Seq(STRING) \ {<<>>} : R[n] = n \o s
    <2>1. Renaming(srcResources, page, R)  BY NewNames, Zenon
    <2> QED  BY <2>1, Zenon DEF Renaming
  <1>7. /\ Flat(page) \subseteq Names /\ DOMAIN page \subseteq Categories
        /\ \A c \in DOMAIN page : DOMAIN page[c] \subseteq Names
    BY PageNames, Zenon
  <1>8. IsFiniteSet(Names) /\ Names \subseteq Seq(STRING)  BY DEF Naming
  <1>9. \A c \in DOMAIN srcResources \cap DOMAIN page : \E order \in Orders :
           srcResources'[c] = mergeResources(srcResources[c], page[c], R, order)
    <2> TAKE c \in DOMAIN srcResources \cap DOMAIN page
    <2>1. orders[c] \in Orders  BY <1>1, <1>7
    <2> QED  BY <1>5, <2>1
  <1>10. ASSUME NEW c \in DOMAIN srcResources, NEW k \in DOMAIN srcResources[c]
         PROVE  k \in DOMAIN srcResources'[c] /\ srcResources'[c][k] = srcResources[c][k]
    <2>1. CASE c \notin DOMAIN page  BY <1>3, <2>1
    <2>2. CASE c \in DOMAIN page
      <3>1. k \in Flat(srcResources)  BY DEF Flat
      <3>2. \A n \in DOMAIN page[c] : Key(R, n) # k
        <4> TAKE n \in DOMAIN page[c]
        <4>1. n \in Flat(page)  BY <2>2 DEF Flat
        <4> QED  BY <1>6, <3>1, <4>1 DEF Key
      <3>3. srcResources'[c] = mergeResources(srcResources[c], page[c], R, orders[c])  BY <1>5, <2>2
      <3>4. /\ DOMAIN srcResources'[c] = DOMAIN srcResources[c] \cup {Key(R, n) : n \in DOMAIN page[c]}
            /\ \A x \in DOMAIN srcResources[c] :
                  (\A n \in DOMAIN page[c] : Key(R, n) # x) => srcResources'[c][x] = srcResources[c][x]
        <4>1. Merged(srcResources[c], page[c], R, orders[c], srcResources'[c])
          BY <3>3, MergedDictionary, Zenon
        <4> QED  BY <4>1, Zenon DEF Merged
      <3> QED  BY <3>2, <3>4
    <2> QED  BY <2>1, <2>2
  <1>11. PICK f : f = [n \in Names |-> Key(R, n)]  BY Zenon
  <1>12. PICK T : T = {Key(R, n) : n \in Names}  BY Zenon
  <1>13. IsFiniteSet(T)
    <2>1. f \in Surjection(Names, T)  BY <1>11, <1>12, Zenon DEF Surjection
    <2> QED  BY <1>8, <2>1, FS_Surjection, Zenon
  <1>14. T \subseteq Seq(STRING)
    <2> SUFFICES ASSUME NEW n \in Names PROVE Key(R, n) \in Seq(STRING)  BY <1>12
    <2>1. CASE n \in DOMAIN R
      <3>1. PICK s \in Seq(STRING) : R[n] = n \o s  BY <1>6, <2>1
      <3>2. n \in Seq(STRING)  BY <1>8
      <3> QED  BY <2>1, <3>1, <3>2, Suffixed DEF Key
    <2>2. CASE n \notin DOMAIN R  BY <1>8, <2>2 DEF Key
    <2> QED  BY <2>1, <2>2
  <1>15. Flat(srcResources)' \subseteq Flat(srcResources) \cup Names \cup T
    <2> SUFFICES ASSUME NEW c \in DOMAIN srcResources', NEW n \in DOMAIN srcResources'[c]
                 PROVE  n \in Flat(srcResources) \cup Names \cup T
      BY DEF Flat
    <2>1. CASE c \notin DOMAIN page  BY <1>2, <1>3, <2>1 DEF Flat
    <2>2. CASE c \notin DOMAIN srcResources  BY <1>2, <1>4, <1>7, <2>2
    <2>3. CASE c \in DOMAIN srcResources \cap DOMAIN page
      <3>1. srcResources'[c] = mergeResources(srcResources[c], page[c], R, orders[c])  BY <1>5, <2>3
      <3>2. DOMAIN srcResources'[c] = DOMAIN srcResources[c] \cup {Key(R, m) : m \in DOMAIN page[c]}
        <4>1. Merged(srcResources[c], page[c], R, orders[c], srcResources'[c])
          BY <3>1, MergedDictionary, Zenon
        <4> QED  BY <4>1, Zenon DEF Merged
      <3>3. {Key(R, m) : m \in DOMAIN page[c]} \subseteq T
        <4>1. DOMAIN page[c] \subseteq Names  BY <1>7, <2>3
        <4> QED  BY <1>12, <4>1
      <3>4. DOMAIN srcResources[c] \subseteq Flat(srcResources)  BY <2>3 DEF Flat
      <3> QED  BY <3>2, <3>3, <3>4
    <2> QED  BY <1>2, <2>1, <2>2, <2>3
  <1>16. IsFiniteSet(Flat(srcResources)')
    <2>1. IsFiniteSet(Flat(srcResources) \cup Names)  BY <1>8, FS_Union, Zenon
    <2>2. IsFiniteSet(Flat(srcResources) \cup Names \cup T)  BY <1>13, <2>1, FS_Union, Zenon
    <2> QED  BY <1>15, <2>2, FS_Subset, Zenon
  <1> QED  BY ZenonT(30), <1>2, <1>8, <1>9, <1>10, <1>14, <1>15, <1>16

\* What holds between two steps of MergePageWith, whatever the pages have: the names are
\* finitely many, and the content in hand is that of the page in hand.
MergeInv ==
    /\ Names \in NameSets
    /\ IsFiniteSet(Flat(srcResources)) /\ Flat(srcResources) \subseteq Seq(STRING)
    /\ merged \in Nat
    /\ pc = "replace" =>
         /\ merged > 0 /\ \E list \in Lists : page = Resources(merged, list)
         /\ \A u \in content : /\ u = [cat |-> u.cat, name |-> u.name, means |-> u.means]
                               /\ u.means[1] = merged
    /\ SourceKept

\* No name that Lists offers begins another one, and no page lacks a dictionary.
Plain == ~mayLack /\ \A m, n \in Names : IsPrefix(m, n) => m = n

\* What holds then: every use in the content in hand has the name that its entry will be
\* merged under, or still has the old one where the map has yet to be applied.
RenameInv ==
    Plain =>
      /\ DOMAIN srcResources = Categories
      /\ \A u \in srcContent : Resolves(u)
      /\ pc = "replace" =>
           LET R == RenameMap(srcResources, page)
           IN  /\ DOMAIN renames \subseteq DOMAIN R
               /\ \A n \in DOMAIN renames : renames[n] = R[n]
               /\ \A u \in content : \E n \in DOMAIN page[u.cat] :
                     /\ u.cat \in Categories /\ u.means = page[u.cat][n]
                     /\ u.name = IF n \in DOMAIN R \ DOMAIN renames THEN R[n] ELSE n

\* At first the source page is as it was.
LEMMA MergeInit == Naming /\ Init => MergeInv /\ RenameInv
  <1> SUFFICES ASSUME Naming, Init PROVE MergeInv /\ RenameInv  OBVIOUS
  <1>1. PICK list \in Lists : srcResources = Resources(0, list)  BY DEF Init
  <1>2. /\ Flat(srcResources) \subseteq Names
        /\ ~mayLack => DOMAIN srcResources = Categories
    BY <1>1, PageNames, Zenon
  <1>3. IsFiniteSet(Names) /\ Names \subseteq Seq(STRING) /\ Names \in NameSets  BY DEF Naming, Init
  <1>4. IsFiniteSet(Flat(srcResources)) /\ Flat(srcResources) \subseteq Seq(STRING)
    BY <1>2, <1>3, FS_Subset
  <1>5. \A u \in srcContent : Resolves(u)
    <2> TAKE u \in srcContent
    <2>1. u \in Uses(srcResources)  BY DEF Init
    <2>2. u.cat \in DOMAIN srcResources /\ u.name \in DOMAIN srcResources[u.cat]
            /\ u.means = srcResources[u.cat][u.name]
      BY <2>1, UsesOfPage, Zenon
    <2> QED  BY <2>2 DEF Resolves
  <1>6. pc # "replace" /\ merged \in Nat  BY DEF Init
  <1>7. SourceKept  BY <1>5 DEF SourceKept
  <1> QED  BY <1>2, <1>3, <1>4, <1>5, <1>6, <1>7 DEF MergeInv, RenameInv, Plain

\* A page is taken: its content uses its own names.
LEMMA MergePageWithKeeps ==
    ASSUME Naming, MergeInv, RenameInv, MergePageWith
    PROVE  MergeInv' /\ RenameInv'
  <1>1. PICK list \in Lists : page' = Resources(merged', list)  BY DEF MergePageWith
  <1>2. /\ merged' = merged + 1 /\ merged' \in Nat /\ merged' > 0 /\ pc' = "replace"
        /\ Names' = Names /\ mayLack' = mayLack
        /\ srcResources' = srcResources /\ srcContent' = srcContent
        /\ content' = Uses(page') /\ renames' = RenameMap(srcResources, page')
    BY DEF MergePageWith, MergeInv, document
  <1>3. Lists' = Lists  BY <1>2 DEF Lists
  <1>4. /\ DOMAIN page' \subseteq Categories
        /\ \A c \in DOMAIN page' : \A n \in DOMAIN page'[c] : page'[c][n] = <<merged', c, n>>
    <2>1. PICK p : p = merged'  OBVIOUS
    <2>2. page' = Resources(p, list)  BY <1>1, <2>1
    <2>3. /\ DOMAIN page' \subseteq Categories
          /\ \A c \in DOMAIN page' : \A n \in DOMAIN page'[c] : page'[c][n] = <<p, c, n>>
      <3>1. PICK res : res = page'  OBVIOUS
      <3>2. res = Resources(p, list)  BY <2>2, <3>1
      <3>3. /\ DOMAIN res \subseteq Categories
            /\ \A c \in DOMAIN res : \A n \in DOMAIN res[c] : res[c][n] = <<p, c, n>>
        BY <3>2, PageNames
      <3> QED  BY <3>1, <3>3
    <2> QED  BY <2>1, <2>3
  <1>5. ASSUME NEW u \in content'
        PROVE  /\ u = [cat |-> u.cat, name |-> u.name, means |-> u.means]
               /\ u.cat \in DOMAIN page' /\ u.name \in DOMAIN page'[u.cat]
               /\ u.means = page'[u.cat][u.name]
    BY <1>2, <1>5, UsesOfPage, Zenon
  <1>6. MergeInv'
    <2>1. \A u \in content' : u.means[1] = merged'  BY <1>4, <1>5
    <2>2. SourceKept'  BY <1>2 DEF MergeInv, SourceKept, Resolves
    <2>3. Flat(srcResources)' = Flat(srcResources)  BY <1>2
    <2>4. \E l \in Lists' : page' = Resources(merged, l)'
      <3>1. Resources(merged, list)' = Resources(merged', list)  BY Zenon
      <3> QED  BY <1>1, <1>3, <3>1
    <2>5. \A u \in content' : u = [cat |-> u.cat, name |-> u.name, means |-> u.means]  BY <1>5
    <2>6. Names' \in NameSets  BY <1>2 DEF MergeInv
    <2>7. IsFiniteSet(Flat(srcResources)') /\ Flat(srcResources)' \subseteq Seq(STRING)
      BY <2>3 DEF MergeInv
    <2> QED  BY ZenonT(30), <1>2, <2>1, <2>2, <2>4, <2>5, <2>6, <2>7 DEF MergeInv
  <1>7. RenameInv'
    <2> SUFFICES ASSUME Plain'
                 PROVE  /\ DOMAIN srcResources' = Categories
                        /\ \A u \in srcContent' : Resolves(u)'
                        /\ DOMAIN renames' \subseteq DOMAIN RenameMap(srcResources, page)'
                        /\ \A n \in DOMAIN renames' : renames'[n] = RenameMap(srcResources, page)'[n]
                        /\ \A u \in content' : \E n \in DOMAIN page'[u.cat] :
                              /\ u.cat \in Categories /\ u.means = page'[u.cat][n]
                              /\ u.name = IF n \in DOMAIN RenameMap(srcResources, page)' \ DOMAIN renames'
                                          THEN RenameMap(srcResources, page)'[n] ELSE n
      BY Zenon DEF RenameInv
    <2>1. Plain  BY <1>2 DEF Plain
    <2>2. DOMAIN srcResources' = Categories /\ \A u \in srcContent' : Resolves(u)'
      BY <1>2, <2>1 DEF RenameInv, Resolves
    <2>3. RenameMap(srcResources, page)' = renames'  BY <1>2
    <2>4. \A u \in content' : u.cat \in Categories /\ u.name \in DOMAIN page'[u.cat]
                             /\ u.means = page'[u.cat][u.name]
      BY <1>4, <1>5
    <2> QED  BY <2>2, <2>3, <2>4
  <1> QED  BY <1>6, <1>7

\* An entry of the map is applied: it changes the uses of its own name, and no others.
LEMMA ReplaceKeeps ==
    ASSUME Naming, MergeInv, RenameInv, Replace
    PROVE  MergeInv' /\ RenameInv'
  <1>1. PICK old \in DOMAIN renames :
           /\ content' = {[u EXCEPT !.name = Replaced(@, old, renames[old])] : u \in content}
           /\ renames' = [n \in DOMAIN renames \ {old} |-> renames[n]]
    BY Zenon DEF Replace
  <1>2. /\ pc = "replace" /\ pc' = pc /\ page' = page /\ merged' = merged
        /\ Names' = Names /\ mayLack' = mayLack
        /\ srcResources' = srcResources /\ srcContent' = srcContent
    BY DEF Replace, document
  <1>3. \A u \in content : /\ u = [cat |-> u.cat, name |-> u.name, means |-> u.means]
                           /\ u.means[1] = merged
    BY <1>2 DEF MergeInv
  <1>4. ASSUME NEW v \in content'
        PROVE  \E u \in content : v = [cat |-> u.cat, means |-> u.means,
                                       name |-> Replaced(u.name, old, renames[old])]
    <2>1. PICK u \in content : v = [u EXCEPT !.name = Replaced(u.name, old, renames[old])]  BY <1>1
    <2>2. u = [cat |-> u.cat, name |-> u.name, means |-> u.means]  BY <1>3
    <2>3. PICK x : x = Replaced(u.name, old, renames[old])  OBVIOUS
    <2>4. v = [cat |-> u.cat, means |-> u.means, name |-> x]  BY <2>1, <2>2, <2>3
    <2> QED  BY <2>3, <2>4
  <1>5. MergeInv'
    <2>1. \A v \in content' : /\ v = [cat |-> v.cat, name |-> v.name, means |-> v.means]
                              /\ v.means[1] = merged'
      BY <1>2, <1>3, <1>4
    <2>2. SourceKept'  BY <1>2 DEF MergeInv, SourceKept, Resolves
    <2>3. Lists' = Lists /\ Flat(srcResources)' = Flat(srcResources)  BY <1>2 DEF Lists
    <2>4. \E l \in Lists' : page' = Resources(merged, l)'  BY <1>2, <2>3 DEF MergeInv
    <2>5. IsFiniteSet(Flat(srcResources)') /\ Flat(srcResources)' \subseteq Seq(STRING)
      BY <2>3 DEF MergeInv
    <2> QED  BY ZenonT(30), <1>2, <2>1, <2>2, <2>4, <2>5 DEF MergeInv
  <1>6. RenameInv'
    <2>1. PICK R : R = RenameMap(srcResources, page)  OBVIOUS
    <2>2. RenameMap(srcResources, page)' = R  BY <1>2, <2>1
    <2> SUFFICES ASSUME Plain
                 PROVE  /\ DOMAIN srcResources' = Categories
                        /\ \A u \in srcContent' : Resolves(u)'
                        /\ DOMAIN renames' \subseteq DOMAIN R
                        /\ \A n \in DOMAIN renames' : renames'[n] = R[n]
                        /\ \A u \in content' : \E n \in DOMAIN page'[u.cat] :
                              /\ u.cat \in Categories /\ u.means = page'[u.cat][n]
                              /\ u.name = IF n \in DOMAIN R \ DOMAIN renames' THEN R[n] ELSE n
      <3>1. Plain' => Plain  BY <1>2 DEF Plain
      <3> QED  BY Zenon, <2>2, <3>1 DEF RenameInv
    <2>3. DOMAIN srcResources = Categories /\ \A u \in srcContent : Resolves(u)  BY DEF RenameInv
    <2>4. /\ DOMAIN renames \subseteq DOMAIN R
          /\ \A n \in DOMAIN renames : renames[n] = R[n]
          /\ \A u \in content : \E n \in DOMAIN page[u.cat] :
                /\ u.cat \in Categories /\ u.means = page[u.cat][n]
                /\ u.name = IF n \in DOMAIN R \ DOMAIN renames THEN R[n] ELSE n
      BY Zenon, <1>2, <2>1 DEF RenameInv
    <2>5. /\ DOMAIN renames' = DOMAIN renames \ {old}
          /\ \A n \in DOMAIN renames' : renames'[n] = R[n]
      BY <1>1, <2>4
    <2>6. PICK list \in Lists : page = Resources(merged, list)  BY <1>2 DEF MergeInv
    <2>7. /\ Flat(page) \subseteq Names /\ DOMAIN page = Categories
      BY <2>6, PageNames, Zenon DEF Plain
    <2>8. Names \subseteq Seq(STRING)  BY DEF Naming, MergeInv
    <2>9. /\ DOMAIN R = Flat(page) \cap Flat(srcResources)
          /\ \A n \in DOMAIN R : \E s \in Seq(STRING) \ {<<>>} : R[n] = n \o s
      <3>1. Renaming(srcResources, page, R)  BY <2>1, NewNames, Zenon DEF MergeInv
      <3> QED  BY <3>1, Zenon DEF Renaming
    <2>10. ASSUME NEW n \in Names, NEW x,
                  x = IF n \in DOMAIN R \ DOMAIN renames THEN R[n] ELSE n
           PROVE  Replaced(x, old, renames[old])
                    = IF n \in DOMAIN R \ DOMAIN renames' THEN R[n] ELSE n
      <3>1. old \in Names /\ old \in Seq(STRING) /\ n \in Seq(STRING) /\ renames[old] = R[old]
        BY ZenonT(30), <2>4, <2>7, <2>8, <2>9
      <3>2. \A m \in Names : IsPrefix(old, m) => old = m  BY <3>1 DEF Plain
      <3>3. CASE n = old
        <4>1. x = n /\ IsPrefix(n, n)
          <5>1. <<>> \in Seq(STRING)  BY EmptySeq
          <5> QED  BY <2>10, <3>1, <3>3, <5>1, Suffixed
        <4>2. PICK s \in Seq(STRING) : R[n] = n \o s  BY Zenon, <2>4, <2>9, <3>3
        <4>3. SubSeq(n, Len(n) + 1, Len(n)) = <<>> /\ R[n] = R[n] \o <<>>  BY <3>1, <4>2, Suffixed
        <4>4. Replaced(x, old, renames[old]) = R[n]  BY <3>1, <3>3, <4>1, <4>3, Zenon DEF Replaced
        <4> QED  BY <2>4, <2>5, <3>3, <4>4
      <3>4. CASE n # old /\ n \in DOMAIN R \ DOMAIN renames
        <4>1. PICK s \in Seq(STRING) : R[n] = n \o s  BY <2>9, <3>4
        <4>2. x = R[n] /\ R[n] \in Seq(STRING) /\ IsPrefix(n, R[n])  BY <2>10, <3>1, <3>4, <4>1, Suffixed
        <4>3. ~IsPrefix(old, R[n])
          <5> SUFFICES ASSUME IsPrefix(old, R[n]) PROVE FALSE  OBVIOUS
          <5>1. IsPrefix(old, n) \/ IsPrefix(n, old)  BY <3>1, <4>2, PrefixesCompare
          <5> QED  BY <3>1, <3>4, <5>1, Zenon DEF Plain
        <4>4. Replaced(x, old, renames[old]) = R[n]  BY <4>2, <4>3 DEF Replaced
        <4> QED  BY <2>5, <3>4, <4>4
      <3>5. CASE n # old /\ n \notin DOMAIN R \ DOMAIN renames
        <4>1. x = n /\ ~IsPrefix(old, n)  BY <2>10, <3>2, <3>5
        <4>2. Replaced(x, old, renames[old]) = n  BY <4>1 DEF Replaced
        <4> QED  BY <2>5, <3>5, <4>2
      <3> QED  BY <3>3, <3>4, <3>5
    <2>11. ASSUME NEW v \in content'
           PROVE  \E n \in DOMAIN page'[v.cat] :
                     /\ v.cat \in Categories /\ v.means = page'[v.cat][n]
                     /\ v.name = IF n \in DOMAIN R \ DOMAIN renames' THEN R[n] ELSE n
      <3>1. PICK u \in content : v = [cat |-> u.cat, means |-> u.means,
                                      name |-> Replaced(u.name, old, renames[old])]
        BY <1>4
      <3>2. PICK n \in DOMAIN page[u.cat] :
               /\ u.cat \in Categories /\ u.means = page[u.cat][n]
               /\ u.name = IF n \in DOMAIN R \ DOMAIN renames THEN R[n] ELSE n
        BY <2>4
      <3>3. n \in Names  BY <2>7, <3>2 DEF Flat
      <3>4. v.cat = u.cat /\ v.means = u.means /\ v.name = Replaced(u.name, old, renames[old])  BY <3>1
      <3>5. v.name = IF n \in DOMAIN R \ DOMAIN renames' THEN R[n] ELSE n  BY <2>10, <3>2, <3>3, <3>4
      <3> QED  BY ZenonT(30), <1>2, <3>2, <3>4, <3>5
    <2>12. \A u \in srcContent' : Resolves(u)'  BY <1>2, <2>3 DEF Resolves
    <2> QED  BY ZenonT(30), <1>2, <2>3, <2>4, <2>5, <2>11, <2>12
  <1> QED  BY <1>5, <1>6

\* The dictionaries are merged: every use has the name that its entry is filed under.
LEMMA MergeStepKeeps ==
    ASSUME Naming, MergeInv, RenameInv, Merge
    PROVE  MergeInv' /\ RenameInv'
  <1>1. /\ pc = "replace" /\ pc' = "idle" /\ renames = <<>> /\ merged' = merged
        /\ Names' = Names /\ mayLack' = mayLack /\ srcContent' = srcContent \cup content
    BY DEF Merge, document
  <1>2. PICK list \in Lists : page = Resources(merged, list)  BY <1>1 DEF MergeInv
  <1>3. PICK p : p = merged  OBVIOUS
  <1>4. page = Resources(p, list)  BY <1>2, <1>3
  <1>5. PICK R : R = RenameMap(srcResources, page)  OBVIOUS
  <1>6. /\ DOMAIN srcResources' = DOMAIN srcResources \cup DOMAIN page
        /\ IsFiniteSet(Flat(srcResources)') /\ Flat(srcResources)' \subseteq Seq(STRING)
        /\ \A c \in DOMAIN srcResources : \A k \in DOMAIN srcResources[c] :
              k \in DOMAIN srcResources'[c] /\ srcResources'[c][k] = srcResources[c][k]
        /\ \A c \in DOMAIN srcResources \cap DOMAIN page : \E order \in Orders :
              srcResources'[c] = mergeResources(srcResources[c], page[c], R, order)
    BY ZenonT(30), <1>4, <1>5, MergeKeeps DEF MergeInv
  <1>7. ASSUME NEW u, Resolves(u) PROVE Resolves(u)'  BY <1>6, <1>7 DEF Resolves
  <1>8. MergeInv'
    <2>1. \A u \in content : u.means[1] # 0
      <3>1. merged \in Nat /\ merged > 0 /\ \A u \in content : u.means[1] = merged  BY <1>1 DEF MergeInv
      <3> QED  BY <3>1
    <2>2. \A u \in srcContent : u.means[1] = 0 => Resolves(u)  BY DEF MergeInv, SourceKept
    <2>3. \A u \in srcContent' : u.means[1] = 0 => Resolves(u)'  BY <1>1, <1>7, <2>1, <2>2
    <2>4. SourceKept'  BY <2>3 DEF SourceKept
    <2>5. Names' \in NameSets /\ merged' \in Nat /\ pc' # "replace"  BY <1>1 DEF MergeInv
    <2> QED  BY <1>6, <2>4, <2>5 DEF MergeInv
  <1>9. RenameInv'
    <2> SUFFICES ASSUME Plain
                 PROVE  DOMAIN srcResources' = Categories /\ \A u \in srcContent' : Resolves(u)'
      <3>1. (Plain' => Plain) /\ pc' # "replace"  BY <1>1 DEF Plain
      <3> QED  BY <3>1, Zenon DEF RenameInv
    <2>1. DOMAIN srcResources = Categories /\ \A u \in srcContent : Resolves(u)  BY DEF RenameInv
    <2>2. DOMAIN renames = {}  BY <1>1
    <2>3. \A u \in content : \E n \in DOMAIN page[u.cat] :
             /\ u.cat \in Categories /\ u.means = page[u.cat][n]
             /\ u.name = IF n \in DOMAIN R \ DOMAIN renames THEN R[n] ELSE n
      BY Zenon, <1>1, <1>5 DEF RenameInv
    <2>4. Flat(page) \subseteq Names /\ DOMAIN page = Categories
      BY <1>4, PageNames, Zenon DEF Plain
    <2>5. Names \subseteq Seq(STRING) /\ IsFiniteSet(Names)  BY DEF Naming, MergeInv
    <2>6. \A n \in DOMAIN R : \E s \in Seq(STRING) \ {<<>>} : R[n] = n \o s
      <3>1. Renaming(srcResources, page, R)  BY <1>5, NewNames, Zenon DEF MergeInv
      <3> QED  BY <3>1, Zenon DEF Renaming
    <2>7. ASSUME NEW u \in content PROVE Resolves(u)'
      <3>1. PICK n \in DOMAIN page[u.cat] :
               u.cat \in Categories /\ u.means = page[u.cat][n] /\ u.name = Key(R, n)
        BY <2>2, <2>3 DEF Key
      <3>2. PICK c : c = u.cat  OBVIOUS
      <3>3. PICK order \in Orders : srcResources'[c] = mergeResources(srcResources[c], page[c], R, order)
        BY ZenonT(30), <1>6, <2>1, <2>4, <3>1, <3>2
      <3>4. Merged(srcResources[c], page[c], R, order, srcResources'[c])
        BY <3>3, MergedDictionary, Zenon
      <3>5. DOMAIN page[c] \subseteq Names  BY <2>4, <3>1, <3>2 DEF Flat
      <3>6. \A m \in DOMAIN page[c] : order[m] \in Nat
        <4>1. Cardinality(Names) \in Nat  BY <2>5, FS_CardinalityType
        <4>2. order \in [Names -> 1 .. Cardinality(Names)]  BY DEF Orders
        <4> QED  BY <3>5, <4>1, <4>2
      <3>7. \A k, m \in DOMAIN page[c] : Key(R, k) = Key(R, m) => k = m
        <4> TAKE k \in DOMAIN page[c], m \in DOMAIN page[c]
        <4> HAVE Key(R, k) = Key(R, m)
        <4>1. PICK S : S = Names  OBVIOUS
        <4>2. S \subseteq Seq(STRING) /\ \A x, y \in S : IsPrefix(x, y) => x = y  BY <2>5, <4>1 DEF Plain
        <4>3. k \in S /\ m \in S  BY <3>5, <4>1
        <4> QED  BY <2>6, <4>2, <4>3, KeysApart, Zenon
      <3>8. srcResources'[c][Key(R, n)] = page[c][n] /\ Key(R, n) \in DOMAIN srcResources'[c]
        BY <3>1, <3>2, <3>4, <3>6, <3>7, Zenon DEF Merged
      <3>9. u.cat \in DOMAIN srcResources'  BY <1>6, <2>4, <3>1
      <3> QED  BY ZenonT(30), <3>1, <3>2, <3>8, <3>9 DEF Resolves
    <2>8. \A u \in srcContent' : Resolves(u)'  BY <1>1, <1>7, <2>1, <2>7
    <2> QED  BY <1>6, <2>1, <2>4, <2>8
  <1> QED  BY <1>8, <1>9

\* Both invariants stay, whatever MergePageWith does next.
LEMMA MergeInvariant == ASSUME Naming PROVE Spec => [](MergeInv /\ RenameInv)
  <1>1. Init => MergeInv /\ RenameInv  BY MergeInit
  <1>2. MergeInv /\ RenameInv /\ [Next]_vars => (MergeInv /\ RenameInv)'
    <2> SUFFICES ASSUME MergeInv, RenameInv, [Next]_vars PROVE MergeInv' /\ RenameInv'  OBVIOUS
    <2>1. CASE MergePageWith  BY <2>1, MergePageWithKeeps
    <2>2. CASE Replace  BY <2>2, ReplaceKeeps
    <2>3. CASE Merge  BY <2>3, MergeStepKeeps
    <2>4. CASE UNCHANGED vars
      <3>1. /\ Names' = Names /\ mayLack' = mayLack /\ srcResources' = srcResources
            /\ srcContent' = srcContent /\ page' = page /\ content' = content
            /\ renames' = renames /\ merged' = merged /\ pc' = pc
        BY <2>4 DEF vars
      <3>2. MergeInv'
        <4>1. Lists' = Lists /\ Flat(srcResources)' = Flat(srcResources)  BY <3>1 DEF Lists
        <4>2. SourceKept'  BY <3>1 DEF MergeInv, SourceKept, Resolves
        <4> QED  BY <3>1, <4>1, <4>2 DEF MergeInv
      <3>3. RenameInv'
        <4>1. RenameMap(srcResources, page)' = RenameMap(srcResources, page)  BY <3>1
        <4>2. Plain' = Plain  BY <3>1 DEF Plain
        <4>3. ASSUME NEW u PROVE Resolves(u)' = Resolves(u)  BY <3>1 DEF Resolves
        <4> QED  BY Zenon, <3>1, <4>1, <4>2, <4>3 DEF RenameInv
      <3> QED  BY <3>2, <3>3
    <2> QED  BY <2>1, <2>2, <2>3, <2>4 DEF Next
  <1> QED  BY <1>1, <1>2, PTL DEF Spec

\* However many pages MergePageWith appends, with whatever names and dictionaries, and in
\* whatever order a map is gone through, the content of the source page keeps its resources.
THEOREM SourceContentStays == ASSUME Naming PROVE Spec => []SourceKept
  <1>1. MergeInv => SourceKept  BY DEF MergeInv
  <1> QED  BY <1>1, MergeInvariant, PTL

\* Where no name begins another one and no page lacks a dictionary, every name in the content
\* that MergePageWith has put on the page stands for what it stood for on its own page.
THEOREM MergedContentStays == ASSUME Naming PROVE Spec => []MergedKept
  <1>1. RenameInv => MergedKept  BY DEF RenameInv, MergedKept, Plain
  <1> QED  BY <1>1, MergeInvariant, PTL
=============================================================================

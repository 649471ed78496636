---------------------------- MODULE DocumentStore ----------------------------
(***************************************************************************)
(* What PdfAppender promises: a document is a sequence of versions.  Each  *)
(* version gives every object number that is in use the revision that its  *)
(* content comes from.  An appended revision adds a version, in which the  *)
(* objects it writes are its own and all others stay what they were; it    *)
(* takes away neither an object nor an earlier version.                    *)
(***************************************************************************)
EXTENDS Naturals, Sequences

VARIABLE versions

\* A document has one version, all of it from its first revision.
Init ==
    /\ Len(versions) = 1
    /\ \A n \in DOMAIN versions[1] : versions[1][n] = 1

\* A revision is committed: every object of the new version is the revision's own or
\* what it was.
Commit ==
    LET r == Len(versions) + 1
        old == versions[r - 1]
        new == versions'[r]
    IN  /\ Len(versions') = r
        /\ \A i \in 1 .. r - 1 : versions'[i] = versions[i]
        /\ DOMAIN old \subseteq DOMAIN new
        /\ \A n \in DOMAIN new : new[n] = r \/ (n \in DOMAIN old /\ new[n] = old[n])

Spec == Init /\ [][Commit]_versions
=============================================================================

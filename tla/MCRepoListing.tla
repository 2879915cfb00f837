--------------------------- MODULE MCRepoListing ----------------------------
(* An instance of RepoListing for TLC: lists of up to four entries on      *)
(* pages of two.  The filters reject one entry; one of the others has no   *)
(* docs.zip, and one is gh-pages where branches are listed.  The listing   *)
(* begins at time 2: one entry, and what is pushed, may be dated later.    *)
EXTENDS RepoListing

CONSTANTS v1, v2, v3, other

FourEntries == {v1, v2, v3, other}
Versions == {v1, v2, v3}
FirstDates == [e \in FourEntries |-> CASE e = v2 -> 1 [] e = v3 -> 3 [] OTHER -> 0]
=============================================================================

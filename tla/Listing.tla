------------------------------ MODULE Listing ------------------------------
(***************************************************************************)
(* Paged listings: ListObjects and ListMultipartUploads.  A client asks    *)
(* for one page after the other and sends back the marker of the last one, *)
(* while other requests store and delete.  A page is one RocksDB iterator, *)
(* hence one snapshot.  A key is a sequence of letters (numbers, compared  *)
(* as bytes); Delimiter is one of the letters, NUL is below all of them.   *)
(***************************************************************************)
EXTENDS Naturals, Sequences, SequencesExt, FiniteSets

CONSTANTS ObjectKeys,   \* the keys objects may have
          Delimiter,    \* the letter the client groups by
          QueryPrefixes,     \* the prefixes a client asks for
          UploadIds,    \* upload identifiers: numbers, compared as bytes
          MaxKeys,      \* the largest page a client asks for
          MaxChanges    \* bound: objects or uploads that come or go while a client pages

\* A key has at least one letter and at most 1024, so there are finitely many.
ASSUME ListingConstants == /\ ObjectKeys \subseteq Seq(Nat) \ {<<>>} /\ IsFiniteSet(ObjectKeys)
                           /\ UploadIds \subseteq Nat /\ IsFiniteSet(UploadIds)
                           /\ QueryPrefixes \subseteq Seq(Nat) /\ Delimiter \in Nat
                           /\ MaxKeys \in Nat \ {0} /\ MaxChanges \in Nat

VARIABLES rows,      \* what the table holds: objects <<key, 0>>, or uploads <<key, id>>
          query,     \* the listing a client pages through
          marker,    \* nextStartAfter / the marker pair; <<>> before the first page
          listed,    \* the entries received, in order
          steady,    \* rows that have been there since the first page was asked for
          paging,    \* "paging" or "done"
          changes

listingVars == <<rows, query, marker, listed, steady, paging, changes>>

Below(a, b) == \E n \in 0 .. Len(b) - 1 :
                  /\ n <= Len(a)
                  /\ SubSeq(a, 1, n) = SubSeq(b, 1, n)
                  /\ n = Len(a) \/ a[n + 1] < b[n + 1]

EndsWithDelimiter(key) == key # <<>> /\ Last(key) = Delimiter

-----------------------------------------------------------------------------
(* ListObjects *)

\* Mutant of resumePoint: a group already reported is entered again.
resumePointInside(key, startAfter) ==
    startAfter = <<>> \/ Below(startAfter, query.prefix) \/ Below(startAfter, key)

\* Whether a key lies at or beyond the point where the scan resumes.
resumePoint(key, startAfter) ==
    \/ startAfter = <<>>
    \/ Below(startAfter, query.prefix)
    \/ /\ Below(startAfter, key)
       /\ query.delimited /\ EndsWithDelimiter(startAfter) => ~IsPrefix(startAfter, key)

\* Where the delimiter splits a key beyond the prefix asked for.
Splits(key) == {i \in Len(query.prefix) + 1 .. Len(key) : query.delimited /\ key[i] = Delimiter}

\* The entry a key is reported as: itself, or the group the delimiter rolls it into.
EntryOf(key) ==
    IF Splits(key) = {} THEN key
    ELSE SubSeq(key, 1, CHOOSE i \in Splits(key) : \A j \in Splits(key) : i <= j)

-----------------------------------------------------------------------------
(* Pages. Rows are in the order of key, then upload id. *)

RowBelow(a, b) == Below(a[1], b[1]) \/ (a[1] = b[1] /\ a[2] < b[2])

\* The entry a row is reported as: an upload is never rolled into a group.
ListedAs(row) == IF query.kind = "objects" THEN EntryOf(row[1]) ELSE row

FirstRow(set) == CHOOSE row \in set : \A other \in set : row = other \/ RowBelow(row, other)

\* One entry per round until the page is full; a group is left in one jump.
Walk(matching) ==
    LET walk[n \in 0 .. query.maxKeys] ==
            IF n = 0 THEN [out |-> <<>>, rest |-> matching]
            ELSE LET before == walk[n - 1]
                     row == FirstRow(before.rest)
                 IN  IF before.rest = {} THEN before
                     ELSE [out  |-> Append(before.out, ListedAs(row)),
                           rest |-> {other \in before.rest \ {row} :
                                       Splits(row[1]) # {} => ~IsPrefix(EntryOf(row[1]), other[1])}]
        end == walk[query.maxKeys]
    IN  [entries |-> end.out, truncated |-> end.rest # {}]

\* listObjects: from the resume point on, while keys have the prefix.
ObjectPage(startAfter) ==
    Walk({row \in rows : IsPrefix(query.prefix, row[1]) /\ resumePoint(row[1], startAfter)})

\* listUploads: both markers are exclusive.
UploadPage(after) ==
    Walk({row \in rows : /\ IsPrefix(query.prefix, row[1])
                         /\ after = <<>> \/ RowBelow(after, row)})

-----------------------------------------------------------------------------
RowsOf(kind) == IF kind = "objects" THEN ObjectKeys \X {0} ELSE ObjectKeys \X UploadIds

ListingInit ==
    /\ query \in [kind : {"objects"}, prefix : QueryPrefixes, delimited : BOOLEAN,
                  maxKeys : 1 .. MaxKeys]
                 \cup [kind : {"uploads"}, prefix : QueryPrefixes, delimited : {FALSE},
                       maxKeys : 1 .. MaxKeys]
    /\ rows \in SUBSET RowsOf(query.kind)
    /\ marker = <<>> /\ listed = <<>> /\ steady = rows
    /\ paging = "paging" /\ changes = 0

\* A client follows the marker of the last page until one is not truncated.
NextPage ==
    /\ paging = "paging"
    /\ LET page == IF query.kind = "objects" THEN ObjectPage(marker) ELSE UploadPage(marker)
       IN /\ listed' = listed \o page.entries
          /\ paging' = IF page.truncated THEN "paging" ELSE "done"
          /\ marker' = IF page.truncated THEN Last(page.entries) ELSE <<>>
    /\ UNCHANGED <<rows, query, steady, changes>>

\* Another request stores or removes a row between two pages.
ChangeRow(row) ==
    /\ paging = "paging" /\ marker # <<>> /\ changes < MaxChanges
    /\ rows' = IF row \in rows THEN rows \ {row} ELSE rows \cup {row}
    /\ steady' = steady \ {row}
    /\ changes' = changes + 1
    /\ UNCHANGED <<query, marker, listed, paging>>

ListingNext == NextPage \/ \E row \in RowsOf(query.kind) : ChangeRow(row)

ListingSpec == ListingInit /\ [][ListingNext]_listingVars

-----------------------------------------------------------------------------
InOrder(a, b) == IF query.kind = "objects" THEN Below(a, b) ELSE RowBelow(a, b)

\* No entry comes twice, neither in one page nor in two, and entries ascend.
ListedOnce == \A i, j \in 1 .. Len(listed) : i < j => InOrder(listed[i], listed[j])

\* A row with the prefix that was there all along is in the listing, as itself
\* or in its group, once the client has seen the last page.
ListedAll == paging = "done" =>
    \A row \in steady : IsPrefix(query.prefix, row[1]) =>
        \E i \in 1 .. Len(listed) : listed[i] = ListedAs(row)

\* Paging visits every row exactly once, whatever is stored or deleted between
\* two pages and wherever a page ends: inside a group, after a group, or
\* between two uploads of one key.
ListingExact == ListedOnce /\ ListedAll
=============================================================================

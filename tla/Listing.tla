------------------------------- MODULE Listing -------------------------------
(***************************************************************************)
(* Reading the documents of a store while others write it: the listing and *)
(* its pages (crates/skb-core/src/crud.rs, the cursor emulation of         *)
(* crates/skb-server/src/handlers/documents.rs), the snapshot of           *)
(* crates/skb-core/src/lib.rs, one document with its chunks, and the       *)
(* counts.  Every query sees one state of the store; nothing holds it      *)
(* still between two queries.                                              *)
(*                                                                         *)
(* Documents are numbered in the order of their ids.                       *)
(***************************************************************************)
EXTENDS Integers, Sequences, FiniteSets, SequencesExt, Ordering

CONSTANTS
    Docs,           \* a finite set of numbers
    Size,           \* Size[d]: the chunks of document d
    Title,          \* Title[d]: a number
    Limits,         \* page sizes that are asked for
    ScanLimit,      \* CURSOR_SCAN_LIMIT
    Page,           \* documents per query of a snapshot
    MaxDocs,        \* documents in a snapshot
    MaxDay          \* bound of the model: distinct created_at

ASSUME ListAssumption ==
    /\ Docs \subseteq Nat /\ IsFiniteSet(Docs) /\ Limits \subseteq Nat
    /\ Size \in [Docs -> Nat] /\ Title \in [Docs -> Int]
    /\ ScanLimit \in Nat /\ Page \in Nat \ {0} /\ MaxDocs \in Nat /\ MaxDay \in Nat

VARIABLES
    day,            \* the database's clock
    library,        \* d |-> created_at, for the documents stored
    reader,         \* the read under way
    added, deleted, \* history: documents stored and deleted since it began
    crowded         \* history: it met more documents than a cursor can scan

listVars == <<day, library, reader, added, deleted, crowded>>

Here == DOMAIN library
Idle == [kind |-> "none"]
NoCursor == [at |-> -1, id |-> -1]
Lesser(a, b) == IF a < b THEN a ELSE b

-----------------------------------------------------------------------------
(* The queries *)

Orders == {"created_desc", "created_asc", "title_asc", "title_desc"}

\* ORDER BY with the id as tie-breaker, ascending in every order.
Before(order, d, e) ==
    LET a == IF order \in {"created_asc", "created_desc"} THEN library[d] ELSE Title[d]
        b == IF order \in {"created_asc", "created_desc"} THEN library[e] ELSE Title[e]
    IN  \/ order \in {"created_asc", "title_asc"} /\ a < b
        \/ order \in {"created_desc", "title_desc"} /\ a > b
        \/ a = b /\ d < e

Ordered(order) == InOrder(Here, LAMBDA d, e : Before(order, d, e))

List(order, limit, offset) ==
    SubSeq(Ordered(order), offset + 1, Lesser(offset + limit, Cardinality(Here)))

\* No page of size 0, no cursor in an order by title.
Accepted(order, limit, cursor) ==
    /\ limit > 0
    /\ cursor # NoCursor => order \in {"created_asc", "created_desc"}

\* The rest of the scan from the cursor's document on.
FromCursor(all, i, limit) == SubSeq(all, i, Lesser(i + limit - 1, Len(all)))

\* The page after the document at position i.
AfterCursor(all, i, limit) == SubSeq(all, i + 1, Lesser(i + limit, Len(all)))

\* list_with_cursor: the page, or none when the cursor is not in the scan.
PageOf(order, limit, cursor) ==
    IF ~Accepted(order, limit, cursor) THEN {}
    ELSE IF cursor = NoCursor THEN {List(order, limit, 0)}
    ELSE LET all == List(order, ScanLimit, 0)
         IN  {AfterCursor(all, i, limit) :
                i \in {j \in 1 .. Len(all) :
                         all[j] = cursor.id /\ library[all[j]] = cursor.at}}

-----------------------------------------------------------------------------
(* The store's writers *)

Store(d) ==
    /\ d \notin Here /\ d \notin deleted
    /\ library' = [x \in Here \cup {d} |-> IF x = d THEN day ELSE library[x]]
    /\ added' = added \cup {d}
    /\ crowded' = (crowded \/ Cardinality(Here) >= ScanLimit)
    /\ UNCHANGED <<day, reader, deleted>>

Discard(d) ==
    /\ d \in Here
    /\ library' = [x \in Here \ {d} |-> library[x]]
    /\ deleted' = deleted \cup {d}
    /\ UNCHANGED <<day, reader, added, crowded>>

Sunrise ==
    /\ day < MaxDay /\ day' = day + 1
    /\ UNCHANGED <<library, reader, added, deleted, crowded>>

-----------------------------------------------------------------------------
(* The readers *)

StartRead(r) ==
    /\ reader = Idle
    /\ reader' = r
    /\ added' = {} /\ deleted' = {} /\ crowded' = (Cardinality(Here) > ScanLimit)
    /\ UNCHANGED <<day, library>>

ReadOn(r) == reader' = r /\ UNCHANGED <<day, library, added, deleted, crowded>>

(* A client pages with the cursor of the last document it was given. *)

BeginPages ==
    \E order \in Orders, limit \in Limits \cup {0} :
        StartRead([kind |-> "pages", at |-> "rows", order |-> order, limit |-> limit,
                   cursor |-> NoCursor, listed |-> <<>>, start |-> Here,
                   page |-> <<>>, counts |-> <<>>])

ReadRows ==
    /\ reader.kind = "pages" /\ reader.at = "rows"
    /\ LET pages == PageOf(reader.order, reader.limit, reader.cursor)
       IN  IF pages = {} THEN ReadOn([reader EXCEPT !.at = "refused"])
           ELSE \E p \in pages :
                  ReadOn([reader EXCEPT !.at = IF p = <<>> THEN "end" ELSE "counts",
                                        !.page = p, !.listed = @ \o p,
                                        !.cursor = IF p = <<>> THEN @
                                                   ELSE [at |-> library[Last(p)],
                                                         id |-> Last(p)]])

\* Then the chunks of the page's documents are counted; the client goes on
\* unless the page was short.
ReadCounts ==
    /\ reader.kind = "pages" /\ reader.at = "counts"
    /\ ReadOn([reader EXCEPT
                !.counts = [i \in 1 .. Len(reader.page) |->
                              IF reader.page[i] \in Here THEN Size[reader.page[i]] ELSE 0],
                !.at = IF Len(reader.page) < reader.limit THEN "end" ELSE "rows"])

(* document_snapshot *)

BeginSnapshot ==
    StartRead([kind |-> "snapshot", at |-> "page", offset |-> 0, listed |-> <<>>,
               more |-> FALSE, start |-> Here])

\* Only the remaining allowance, and one more to see whether there is more.
Want(n) == Lesser(Page, MaxDocs + 1 - n)

\* The document that only shows that there are more is handed out as well.
CutAfter(docs) == SubSeq(docs, 1, Lesser(Len(docs), MaxDocs + 1))

Cut(docs) == SubSeq(docs, 1, Lesser(Len(docs), MaxDocs))

ReadPage ==
    /\ reader.kind = "snapshot" /\ reader.at = "page"
    /\ LET want == Want(Len(reader.listed))
           docs == reader.listed \o List("created_desc", want, reader.offset)
           last == Len(docs) - Len(reader.listed) < want \/ Len(docs) > MaxDocs
       IN  IF last
           THEN ReadOn([reader EXCEPT !.at = "end", !.more = Len(docs) > MaxDocs,
                          !.listed = Cut(docs)])
           ELSE ReadOn([reader EXCEPT !.listed = docs, !.offset = @ + want])

(* get_document: the row, then its chunks. *)

BeginGet ==
    \E d \in Docs :
        IF d \in Here
        THEN StartRead([kind |-> "get", at |-> "chunks", doc |-> d, chunks |-> 0])
        ELSE UNCHANGED listVars

ReadChunkRows ==
    /\ reader.kind = "get" /\ reader.at = "chunks"
    /\ ReadOn([reader EXCEPT !.at = "end",
                 !.chunks = IF reader.doc \in Here THEN Size[reader.doc] ELSE 0])

(* stats: two counts (the sum of tokens and the model are left out). *)

AllChunks == Cardinality(UNION {{<<d, i>> : i \in 1 .. Size[d]} : d \in Here})

BeginStats ==
    StartRead([kind |-> "stats", at |-> "chunks", docs |-> Cardinality(Here), chunks |-> 0])

CountChunks ==
    /\ reader.kind = "stats" /\ reader.at = "chunks"
    /\ ReadOn([reader EXCEPT !.at = "end", !.chunks = AllChunks])

EndRead ==
    /\ reader # Idle /\ reader.at \in {"end", "refused"}
    /\ reader' = Idle /\ added' = {} /\ deleted' = {} /\ crowded' = FALSE
    /\ UNCHANGED <<day, library>>

ListInit ==
    /\ day = 0 /\ reader = Idle /\ added = {} /\ deleted = {} /\ crowded = FALSE
    /\ \E docs \in SUBSET Docs : library = [d \in docs |-> 0]

ListNext ==
    \/ \E d \in Docs : Store(d) \/ Discard(d)
    \/ Sunrise
    \/ BeginPages \/ ReadRows \/ ReadCounts
    \/ BeginSnapshot \/ ReadPage
    \/ BeginGet \/ ReadChunkRows
    \/ BeginStats \/ CountChunks \/ EndRead

ListSpec == ListInit /\ [][ListNext]_listVars

-----------------------------------------------------------------------------
(* Properties *)

\* There from the first query on, through to now.
Lasting == reader.start \ deleted

\* A client that pages by cursor to the end is given every document that was
\* there all along, and no document twice, however many are stored and deleted
\* between its pages and however many share a created_at; when the document of
\* its cursor is deleted it is refused (documents.rs:105-149).  This needs a
\* store that never outgrows the scan: in a larger one the page at its bound
\* is empty, which looks like the end.  Without a cursor (title orders) only
\* the first page is given out.
PagesAreExact ==
    reader.kind = "pages" =>
        /\ IsInjective(reader.listed)
        /\ reader.at = "end" /\ ~crowded => Lasting \subseteq ToSet(reader.listed)
        /\ reader.at = "refused" =>
             \/ ~Accepted(reader.order, reader.limit, reader.cursor)
             \/ reader.cursor.id \in deleted \/ crowded

\* A snapshot that pages by offset repeats a document only when another was
\* stored meanwhile, misses one only when another was deleted or its bound cut
\* it off, and never exceeds the bound (lib.rs:307-339); the parts of an
\* answer that are read one after the other agree unless the documents they
\* are about changed in between (crud.rs:291-336, 339-397, 459-497).
ReadsAgree ==
    /\ reader.kind = "snapshot" =>
         /\ Len(reader.listed) <= MaxDocs
         /\ added = {} => IsInjective(reader.listed)
         /\ reader.at = "end" /\ deleted = {} /\ ~reader.more =>
              Lasting \subseteq ToSet(reader.listed)
         /\ reader.more /\ added = {} => Cardinality(reader.start) > MaxDocs
    /\ reader.kind = "pages" /\ reader.at \in {"rows", "end"} =>
         \A i \in 1 .. Len(reader.counts) :
            i <= Len(reader.page) /\ reader.page[i] \notin deleted =>
                reader.counts[i] = Size[reader.page[i]]
    /\ reader.kind = "get" /\ reader.at = "end" /\ reader.doc \notin deleted =>
         reader.chunks = Size[reader.doc]
    /\ reader.kind = "stats" /\ reader.at = "end" /\ added = {} /\ deleted = {} =>
         reader.docs = Cardinality(Here) /\ reader.chunks = AllChunks

=============================================================================

--------------------------- MODULE ReadingProofs ----------------------------
(***************************************************************************)
(* Theorems about the readers of the library: Listing, for any documents,  *)
(* sizes, titles, limits and page sizes; Retrieval, for any documents,     *)
(* versions, scores, links and limits.                                     *)
(*                                                                         *)
(* Both order rows with ORDER BY and sort_by, and cut them off: the lemmas *)
(* about Ordering carry them.                                              *)
(***************************************************************************)
EXTENDS Listing, Retrieval, DataLemmas

-----------------------------------------------------------------------------
(***************************************************************************)
(* Listing                                                                 *)
(*                                                                         *)
(* A page is where its cursor points in the rows of one moment, and what is *)
(* behind the cursor stays there whatever is written in front of it.       *)
(***************************************************************************)

-----------------------------------------------------------------------------
(* The readers *)

Dated == {"created_desc", "created_asc"}

Pages ==
    [kind : {"pages"}, at : {"rows", "counts", "end", "refused"}, order : Orders, limit : Nat,
     cursor : [at : Int, id : Int], listed : Seq(Docs), start : SUBSET Docs,
     page : Seq(Docs), counts : Seq(Nat)]

Snapshots ==
    [kind : {"snapshot"}, at : {"page", "end"}, offset : Nat, listed : Seq(Docs),
     more : BOOLEAN, start : SUBSET Docs]

Gets == [kind : {"get"}, at : {"chunks", "end"}, doc : Docs, chunks : Nat]

Counts == [kind : {"stats"}, at : {"chunks", "end"}, docs : Nat, chunks : Nat]

LibraryTyped == Here \in SUBSET Docs /\ library \in [Here -> 0 .. MaxDay]

\* A document that is deleted does not come back.
ListTyped ==
    /\ LibraryTyped /\ day \in 0 .. MaxDay
    /\ added \in SUBSET Docs /\ deleted \in SUBSET Docs /\ Here \cap deleted = {}
    /\ crowded \in BOOLEAN
    /\ reader \in {Idle} \cup Pages \cup Snapshots \cup Gets \cup Counts

\* The order of the keys (a, d) and (b, e) in an order by created_at.
Ahead(order, a, d, b, e) ==
    \/ order = "created_asc" /\ a < b
    \/ order = "created_desc" /\ b < a
    \/ a = b /\ d < e

\* A document that is here is not behind the cursor's.
Reached(r, d) ==
    d = r.cursor.id \/ Ahead(r.order, library[d], d, r.cursor.at, r.cursor.id)

Listed(r, d) == \E i \in 1 .. Len(r.listed) : r.listed[i] = d

\* What a client that pages was given is what lies before its cursor.
PagesStand(r) ==
    /\ r.start \subseteq Here \cup deleted
    /\ OnceEach(r.listed)
    /\ \A i \in 1 .. Len(r.listed) : r.listed[i] \in Here \cup deleted
    /\ r.cursor = NoCursor => r.listed = <<>>
    /\ r.cursor # NoCursor =>
         /\ Listed(r, r.cursor.id)
         /\ r.cursor.id \in Here => library[r.cursor.id] = r.cursor.at
         /\ r.order \in Dated =>
              /\ \A i \in 1 .. Len(r.listed) : r.listed[i] \in Here => Reached(r, r.listed[i])
              /\ \A d \in r.start \ deleted : Reached(r, d) => Listed(r, d)
    /\ ~crowded /\ (r.at = "end" \/ (r.at = "counts" /\ Len(r.page) < r.limit)) =>
         \A d \in r.start \ deleted : Listed(r, d)
    /\ r.at = "refused" => \/ ~Accepted(r.order, r.limit, r.cursor)
                           \/ r.cursor.id \in deleted \/ crowded
    /\ r.at = "counts" => \A i \in 1 .. Len(r.page) : r.page[i] \in Here \cup deleted
    /\ r.at \in {"rows", "end"} =>
         \A i \in 1 .. Len(r.counts) :
            i <= Len(r.page) /\ r.page[i] \notin deleted => r.counts[i] = Size[r.page[i]]

\* How many documents a snapshot reads before d.
Rank(d) == Cardinality({e \in Here : Before("created_desc", e, d)})

\* What a snapshot has read are the first documents, as far as none was added
\* before them, and all of the first documents, as far as none was deleted.
SnapshotStands(r) ==
    /\ r.start \subseteq Here \cup deleted /\ Here \subseteq r.start \cup added
    /\ \A i \in 1 .. Len(r.listed) : r.listed[i] \in r.start \cup added
    /\ Len(r.listed) <= MaxDocs
    /\ added = {} => OnceEach(r.listed)
    /\ r.at = "page" => r.offset = Len(r.listed) /\ ~r.more
    /\ r.at = "page" /\ added = {} =>
         \A i \in 1 .. Len(r.listed) : r.listed[i] \in Here => Rank(r.listed[i]) < r.offset
    /\ r.at = "page" /\ deleted = {} =>
         \A d \in r.start : Rank(d) < r.offset => Listed(r, d)
    /\ r.at = "end" /\ deleted = {} /\ ~r.more => \A d \in r.start : Listed(r, d)
    /\ r.more /\ added = {} => Cardinality(r.start) > MaxDocs

GetStands(r) ==
    /\ r.doc \in Here \cup deleted
    /\ r.at = "end" /\ r.doc \notin deleted => r.chunks = Size[r.doc]

CountsStand(r) ==
    added = {} /\ deleted = {} =>
        /\ r.docs = Cardinality(Here)
        /\ r.at = "end" => r.chunks = AllChunks

\* Short of a crowd the scan holds all documents.
Uncrowded == reader # Idle /\ ~crowded => Cardinality(Here) <= ScanLimit

Stands(r) ==
    /\ r.kind = "pages" => PagesStand(r)
    /\ r.kind = "snapshot" => SnapshotStands(r)
    /\ r.kind = "get" => GetStands(r)
    /\ r.kind = "stats" => CountsStand(r)

ListInv == ListTyped /\ Uncrowded /\ Stands(reader)


-----------------------------------------------------------------------------
(* The queries *)

\* o lists the documents in an order.
Sorted(o, order) ==
    /\ Cardinality(Here) \in Nat /\ o \in Seq(Here) /\ Len(o) = Cardinality(Here)
    /\ OnceEach(o)
    /\ \A i, j \in 1 .. Len(o) : i < j <=> Before(order, o[i], o[j])
    /\ \A d \in Here : \E i \in 1 .. Len(o) : o[i] = d
    /\ \A k \in 1 .. Len(o) : Cardinality({e \in Here : Before(order, e, o[k])}) = k - 1

(* The documents that are stored are finitely many.                          *)
LEMMA HereIsFinite ==
  ASSUME LibraryTyped
  PROVE  /\ IsFiniteSet(Here) /\ Cardinality(Here) \in Nat
         /\ \A S \in SUBSET Docs : IsFiniteSet(S) /\ Cardinality(S) \in Nat
<1>1. \A S \in SUBSET Docs : IsFiniteSet(S)
  BY ListAssumption, FS_Subset
<1>2. \A S \in SUBSET Docs : Cardinality(S) \in Nat
  BY <1>1, FS_CardinalityType
<1>. QED  BY <1>1, <1>2 DEF LibraryTyped

(* Every order of the listing is strict and total.                           *)
LEMMA OrdersAreStrict ==
  ASSUME LibraryTyped, NEW order \in Orders, NEW R,
         R = {t \in Here \X Here : Before(order, t[1], t[2])}
  PROVE  /\ StrictOrder(R, Here)
         /\ \A d, e \in Here : <<d, e>> \in R <=> Before(order, d, e)
<1>1. \A d, e \in Here : <<d, e>> \in R <=> Before(order, d, e)
  OBVIOUS
<1>2. \A d \in Here : d \in Nat /\ library[d] \in Int /\ Title[d] \in Int
  BY ListAssumption DEF LibraryTyped
<1>3. PICK key : key = [d \in Here |-> IF order \in Dated THEN library[d] ELSE Title[d]]
  OBVIOUS
<1>4. \A d \in Here : key[d] \in Int
  BY <1>2, <1>3
<1>5. PICK up \in BOOLEAN : up <=> order \in {"created_asc", "title_asc"}
  <2>1. \E up \in BOOLEAN : up <=> order \in {"created_asc", "title_asc"}
    <3>1. CASE order \in {"created_asc", "title_asc"}
      BY <3>1, TRUE \in BOOLEAN
    <3>2. CASE order \notin {"created_asc", "title_asc"}
      BY <3>2, FALSE \in BOOLEAN
    <3>. QED  BY <3>1, <3>2
  <2>. QED  BY <2>1
<1>6. \A d, e \in Here : Before(order, d, e) <=>
         \/ up /\ key[d] < key[e]
         \/ ~up /\ key[d] > key[e]
         \/ key[d] = key[e] /\ d < e
  BY <1>3, <1>5 DEF Before, Dated, Orders
<1>7. \A d \in Here : <<d, d>> \notin R
  BY <1>1, <1>2, <1>4, <1>6
<1>8. \A d, e \in Here : d = e \/ <<d, e>> \in R \/ <<e, d>> \in R
  <2>1. ASSUME NEW d \in Here, NEW e \in Here, d # e
        PROVE  Before(order, d, e) \/ Before(order, e, d)
    <3>1. d < e \/ e < d
      BY <1>2, <2>1
    <3>. QED  BY <1>4, <1>6, <3>1
  <2>. QED  BY <1>1, <2>1
<1>9. \A d, e, f \in Here : <<d, e>> \in R /\ <<e, f>> \in R => <<d, f>> \in R
  <2>1. ASSUME NEW d \in Here, NEW e \in Here, NEW f \in Here,
               Before(order, d, e), Before(order, e, f)
        PROVE  Before(order, d, f)
    <3>1. d \in Int /\ e \in Int /\ f \in Int /\ key[d] \in Int /\ key[e] \in Int /\ key[f] \in Int
      BY <1>2, <1>4
    <3>2. /\ (up /\ key[d] < key[e]) \/ (~up /\ key[d] > key[e]) \/ (key[d] = key[e] /\ d < e)
          /\ (up /\ key[e] < key[f]) \/ (~up /\ key[e] > key[f]) \/ (key[e] = key[f] /\ e < f)
      BY <1>6, <2>1
    <3>3. (up /\ key[d] < key[f]) \/ (~up /\ key[d] > key[f]) \/ (key[d] = key[f] /\ d < f)
      BY <3>1, <3>2
    <3>. QED  BY <1>6, <3>3
  <2>. QED  BY <1>1, <2>1
<1>. QED  BY <1>1, <1>7, <1>8, <1>9 DEF StrictOrder

(* So the query has one result, and a document's place in it is the number   *)
(* of documents before it.                                                   *)
LEMMA OrderedIsSorted ==
  ASSUME LibraryTyped, NEW order \in Orders
  PROVE  Sorted(Ordered(order), order)
<1>1. PICK R : R = {t \in Here \X Here : Before(order, t[1], t[2])}
  OBVIOUS
<1>2. /\ StrictOrder(R, Here)
      /\ \A d, e \in Here : <<d, e>> \in R <=> Before(order, d, e)
  BY <1>1, OrdersAreStrict
<1>3. IsFiniteSet(Here)
  BY HereIsFinite
<1>4. \A d \in Here : {e \in Here : <<e, d>> \in R} = {e \in Here : Before(order, e, d)}
  BY <1>2
<1>5. \A d \in Here : Ranks(R, Here)[d] = Cardinality({e \in Here : Before(order, e, d)})
  BY <1>4 DEF Ranks
<1>6. PICK o : o = [k \in 1 .. Cardinality(Here) |->
                      CHOOSE d \in Here : Cardinality({e \in Here : Before(order, e, d)}) = k - 1]
  OBVIOUS
<1>7. \A k \in 1 .. Cardinality(Here) : \A d \in Here : Ranks(R, Here)[d] = k - 1 =>
         o[k] \in Here /\ Ranks(R, Here)[o[k]] = k - 1
  <2>1. ASSUME NEW k \in 1 .. Cardinality(Here), NEW x \in Here, Ranks(R, Here)[x] = k - 1
        PROVE  o[k] \in Here /\ Ranks(R, Here)[o[k]] = k - 1
    <3>1. Cardinality({e \in Here : Before(order, e, x)}) = k - 1
      BY <1>5, <2>1
    <3>2. o[k] = CHOOSE d \in Here : Cardinality({e \in Here : Before(order, e, d)}) = k - 1
      BY <1>6
    <3>3. o[k] \in Here /\ Cardinality({e \in Here : Before(order, e, o[k])}) = k - 1
      BY <3>1, <3>2
    <3>. QED  BY <1>5, <3>3
  <2>. QED  BY <2>1
<1>8. ByRank(o, R, Here)
  BY <1>7 DEF ByRank
<1>9. Lists(o, R, Here)
  BY <1>2, <1>3, <1>8, Enumeration
<1>10. PICK n \in Nat : n = Cardinality(Here)
  BY <1>9 DEF Lists
<1>11. o \in [1 .. n -> Here] /\ o \in Seq(Here) /\ Len(o) = n
  <2>1. o \in [1 .. n -> Here]
    BY <1>6, <1>9, <1>10 DEF Lists
  <2>. QED  BY <2>1, FunctionIsSeq
<1>12. \A k \in 1 .. n : Cardinality({e \in Here : Before(order, e, o[k])}) = k - 1
  <2>1. ASSUME NEW k \in 1 .. n
        PROVE  Cardinality({e \in Here : Before(order, e, o[k])}) = k - 1
    <3>1. k - 1 \in 0 .. n - 1 /\ k \in 1 .. Cardinality(Here)
      BY <1>10
    <3>2. \A i \in 0 .. Cardinality(Here) - 1 : \E x \in Here : Ranks(R, Here)[x] = i
      BY <1>2, <1>3, RanksEnumerate
    <3>3. \E x \in Here : Ranks(R, Here)[x] = k - 1
      BY <1>10, <3>1, <3>2
    <3>4. o[k] \in Here /\ Ranks(R, Here)[o[k]] = k - 1
      BY <1>7, <3>1, <3>3
    <3>. QED  BY <1>5, <3>4
  <2>. QED  BY <2>1
<1>13. \A i, j \in 1 .. n : i < j <=> Before(order, o[i], o[j])
  BY <1>2, <1>9, <1>10 DEF Lists
<1>14. OnceEach(o)
  BY <1>9, <1>10, <1>11 DEF Lists, OnceEach
<1>15. \A d \in Here : \E i \in 1 .. n : o[i] = d
  BY <1>9, <1>10 DEF Lists
<1>16. Sorted(o, order)
  BY <1>10, <1>11, <1>12, <1>13, <1>14, <1>15 DEF Sorted
<1>17. Ordered(order) = o
  BY <1>6 DEF Ordered, InOrder
<1>. QED  BY <1>16, <1>17

\* p is what o has behind position i.
Stretch(p, o, i) ==
    /\ p \in Seq(Here) /\ Len(p) \in Nat
    /\ \A k \in 1 .. Len(p) : i + k \in 1 .. Len(o) /\ p[k] = o[i + k]

(* A part of a sequence.                                                     *)
LEMMA Slices ==
  ASSUME NEW o \in Seq(Here), NEW i \in Nat, NEW j \in Int, j <= Len(o)
  PROVE  /\ Stretch(SubSeq(o, i + 1, j), o, i)
         /\ Len(SubSeq(o, i + 1, j)) = IF i < j THEN j - i ELSE 0
<1>1. Len(o) \in Nat /\ i + 1 \in Int
  OBVIOUS
<1>2. \A k \in i + 1 .. j : o[k] \in Here
  BY <1>1
<1>3. PICK p : p = SubSeq(o, i + 1, j)
  OBVIOUS
<1>4. /\ p \in Seq(Here) /\ Len(p) = IF i + 1 <= j THEN j - (i + 1) + 1 ELSE 0
      /\ \A k \in 1 .. j - (i + 1) + 1 : p[k] = o[(i + 1) + k - 1]
  BY <1>1, <1>2, <1>3, SubSeqProperties
<1>5. Len(p) = (IF i < j THEN j - i ELSE 0) /\ Len(p) \in Nat
  BY <1>4
<1>6. ASSUME NEW k \in 1 .. Len(p)
      PROVE  i + k \in 1 .. Len(o) /\ p[k] = o[i + k]
  <2>1. k \in 1 .. j - (i + 1) + 1 /\ (i + 1) + k - 1 = i + k /\ i + k \in 1 .. Len(o)
    BY <1>1, <1>5
  <2>. QED  BY <1>4, <2>1
<1>. QED  BY <1>3, <1>4, <1>5, <1>6 DEF Stretch

(* A query returns a stretch of the order.                                   *)
LEMMA ListIsStretch ==
  ASSUME LibraryTyped, NEW order \in Orders, NEW limit \in Nat, NEW offset \in Nat
  PROVE  /\ Stretch(List(order, limit, offset), Ordered(order), offset)
         /\ Len(List(order, limit, offset)) <= limit
         /\ \/ Len(List(order, limit, offset)) < limit \/ limit = 0
            \/ offset + limit <= Cardinality(Here)
         /\ Len(List(order, limit, offset)) < limit =>
              \/ offset + Len(List(order, limit, offset)) = Cardinality(Here)
              \/ offset >= Cardinality(Here)
<1>1. PICK o : o = Ordered(order) /\ Sorted(o, order)
  BY OrderedIsSorted
<1>2. PICK n \in Nat : n = Cardinality(Here) /\ Len(o) = n
  BY <1>1 DEF Sorted
<1>3. PICK j \in Int : j = Lesser(offset + limit, n) /\ j <= n
                       /\ (j = n \/ j = offset + limit) /\ j <= offset + limit
  BY DEF Lesser
<1>4. o \in Seq(Here)
  BY <1>1 DEF Sorted
<1>5. List(order, limit, offset) = SubSeq(o, offset + 1, j)
  BY <1>1, <1>2, <1>3 DEF List
<1>6. /\ Stretch(SubSeq(o, offset + 1, j), o, offset)
      /\ Len(SubSeq(o, offset + 1, j)) = IF offset < j THEN j - offset ELSE 0
  BY <1>2, <1>3, <1>4, Slices
<1>7. PICK p : p = List(order, limit, offset)
  OBVIOUS
<1>8. Len(p) = (IF offset < j THEN j - offset ELSE 0) /\ Stretch(p, o, offset)
  BY <1>5, <1>6, <1>7
<1>9. PICK l \in Nat : l = Len(p)
  BY <1>8 DEF Stretch
<1>10. l <= limit /\ (l < limit \/ limit = 0 \/ offset + limit <= n)
       /\ (l < limit => offset + l = n \/ offset >= n)
  BY <1>3, <1>8, <1>9
<1>. QED  BY <1>1, <1>2, <1>7, <1>8, <1>9, <1>10

\* A page p of the order o follows the cursor's place i.
Follows(p, o, i, limit, cursor) ==
    /\ i \in 0 .. Len(o) /\ Stretch(p, o, i)
    /\ cursor = NoCursor => i = 0
    /\ cursor # NoCursor => i # 0 /\ o[i] = cursor.id /\ library[cursor.id] = cursor.at
    /\ Cardinality(Here) <= ScanLimit /\ Len(p) < limit => i + Len(p) = Len(o)

(* The page that a cursor gives.                                             *)
LEMMA PageFollows ==
  ASSUME LibraryTyped, NEW order \in Orders, NEW limit \in Nat, NEW cursor,
         NEW p \in PageOf(order, limit, cursor)
  PROVE  Accepted(order, limit, cursor) /\ \E i \in Nat : Follows(p, Ordered(order), i, limit, cursor)
<1>1. PICK o : o = Ordered(order) /\ Sorted(o, order)
  BY OrderedIsSorted
<1>2. PICK n \in Nat : n = Cardinality(Here) /\ Len(o) = n
  BY <1>1 DEF Sorted
<1>3. Accepted(order, limit, cursor)
  BY DEF PageOf
<1>4. CASE cursor = NoCursor
  <2>1. p = List(order, limit, 0)
    BY <1>3, <1>4 DEF PageOf
  <2>2. /\ Stretch(p, o, 0)
        /\ Len(p) < limit => 0 + Len(p) = Cardinality(Here) \/ 0 >= Cardinality(Here)
    BY <1>1, <2>1, ListIsStretch
  <2>3. Len(p) \in Nat /\ \A k \in 1 .. Len(p) : 0 + k \in 1 .. Len(o)
    BY <2>2 DEF Stretch
  <2>4. Len(p) <= n
    <3>1. CASE Len(p) = 0
      BY <3>1
    <3>2. CASE Len(p) # 0
      BY <1>2, <2>3, <3>2, Len(p) \in 1 .. Len(p)
    <3>. QED  BY <3>1, <3>2
  <2>5. Len(p) < limit => 0 + Len(p) = Len(o)
    BY <1>2, <2>2, <2>3, <2>4
  <2>6. Follows(p, o, 0, limit, cursor)
    BY <1>2, <1>4, <2>2, <2>5 DEF Follows
  <2>. QED  BY <1>1, <1>3, <2>6
<1>5. CASE cursor # NoCursor
  <2>1. PICK all : all = List(order, ScanLimit, 0)
    OBVIOUS
  <2>2. PICK i \in 1 .. Len(all) : /\ all[i] = cursor.id /\ library[all[i]] = cursor.at
                                   /\ p = AfterCursor(all, i, limit)
    BY <1>3, <1>5, <2>1 DEF PageOf
  <2>3. /\ Stretch(all, o, 0)
        /\ Len(all) < ScanLimit \/ ScanLimit = 0 \/ 0 + ScanLimit <= Cardinality(Here)
        /\ Len(all) < ScanLimit => 0 + Len(all) = Cardinality(Here) \/ 0 >= Cardinality(Here)
        /\ Len(all) <= ScanLimit
    BY <1>1, <2>1, ListAssumption, ListIsStretch
  <2>4. PICK m \in Nat : m = Len(all) /\ i \in 1 .. m
    BY <2>3 DEF Stretch
  <2>5. all \in Seq(Here) /\ \A k \in 1 .. m : k \in 1 .. n /\ all[k] = o[k]
    <3>1. \A k \in 1 .. m : 0 + k = k
      OBVIOUS
    <3>. QED  BY <1>2, <2>3, <2>4, <3>1 DEF Stretch
  <2>6. m <= n /\ (n <= ScanLimit => m = n)
    <3>1. m \in 1 .. m
      BY <2>4
    <3>2. m \in 1 .. n
      BY <2>5, <3>1
    <3>. QED  BY <1>2, <2>3, <2>4, <3>2, ListAssumption
  <2>7. PICK j \in Int : j = Lesser(i + limit, m) /\ j <= m /\ i <= j
                         /\ (j = m \/ j = i + limit)
    BY <2>4 DEF Lesser
  <2>8. i \in Nat /\ i # 0 /\ i <= n
    BY <2>4, <2>6
  <2>9. Stretch(p, all, i) /\ Len(p) = j - i
    <3>1. p = SubSeq(all, i + 1, j)
      BY <2>2, <2>4, <2>7 DEF AfterCursor
    <3>2. /\ Stretch(SubSeq(all, i + 1, j), all, i)
          /\ Len(SubSeq(all, i + 1, j)) = IF i < j THEN j - i ELSE 0
      BY <2>4, <2>5, <2>7, <2>8, Slices
    <3>. QED  BY <2>7, <2>8, <3>1, <3>2
  <2>10. Stretch(p, o, i)
    <3>1. \A k \in 1 .. Len(p) : i + k \in 1 .. m /\ p[k] = all[i + k]
      BY <2>4, <2>9 DEF Stretch
    <3>2. \A k \in 1 .. Len(p) : i + k \in 1 .. n /\ p[k] = o[i + k]
      BY <2>5, <3>1
    <3>. QED  BY <1>2, <2>9, <3>2 DEF Stretch
  <2>11. Cardinality(Here) <= ScanLimit /\ Len(p) < limit => i + Len(p) = Len(o)
    BY <1>2, <2>6, <2>7, <2>8, <2>9
  <2>12. o[i] = cursor.id /\ library[cursor.id] = cursor.at
    BY <2>2, <2>4, <2>5
  <2>13. Follows(p, o, i, limit, cursor)
    BY <1>2, <1>5, <2>8, <2>10, <2>11, <2>12 DEF Follows
  <2>. QED  BY <1>1, <1>3, <2>8, <2>13
<1>. QED  BY <1>4, <1>5

(* A cursor is refused when its document is gone, or beyond the scan.        *)
LEMMA RefusedCursor ==
  ASSUME LibraryTyped, NEW order \in Orders, NEW limit \in Nat, NEW cursor,
         PageOf(order, limit, cursor) = {}
  PROVE  \/ ~Accepted(order, limit, cursor)
         \/ cursor # NoCursor /\ ~(cursor.id \in Here /\ library[cursor.id] = cursor.at)
         \/ Cardinality(Here) > ScanLimit
<1>1. SUFFICES ASSUME Accepted(order, limit, cursor), ~(Cardinality(Here) > ScanLimit),
                      cursor = NoCursor \/ (cursor.id \in Here /\ library[cursor.id] = cursor.at)
               PROVE  FALSE
  OBVIOUS
<1>2. cursor # NoCursor
  BY <1>1 DEF PageOf
<1>3. PICK all : all = List(order, ScanLimit, 0)
  OBVIOUS
<1>4. PICK o : o = Ordered(order) /\ Sorted(o, order)
  BY OrderedIsSorted
<1>5. PICK n \in Nat : n = Cardinality(Here) /\ Len(o) = n /\ n <= ScanLimit
  BY <1>1, <1>4, ListAssumption DEF Sorted
<1>6. /\ Stretch(all, o, 0)
      /\ Len(all) < ScanLimit \/ ScanLimit = 0 \/ 0 + ScanLimit <= Cardinality(Here)
      /\ Len(all) < ScanLimit => 0 + Len(all) = Cardinality(Here) \/ 0 >= Cardinality(Here)
  BY <1>3, <1>4, ListAssumption, ListIsStretch
<1>7. PICK i \in 1 .. n : o[i] = cursor.id
  BY <1>1, <1>2, <1>4, <1>5 DEF Sorted
<1>8. n <= Len(all)
  BY <1>5, <1>6, ListAssumption DEF Stretch
<1>9. i \in 1 .. Len(all) /\ all[i] = o[i]
  <2>1. i \in 1 .. Len(all) /\ 0 + i = i
    BY <1>6, <1>8 DEF Stretch
  <2>. QED  BY <1>6, <2>1 DEF Stretch
<1>10. i \in {j \in 1 .. Len(all) : all[j] = cursor.id /\ library[all[j]] = cursor.at}
  BY <1>1, <1>2, <1>7, <1>9
<1>11. PageOf(order, limit, cursor) =
         {AfterCursor(all, j, limit) :
            j \in {k \in 1 .. Len(all) : all[k] = cursor.id /\ library[all[k]] = cursor.at}}
  BY <1>1, <1>2, <1>3 DEF PageOf
<1>. QED  BY <1>10, <1>11

-----------------------------------------------------------------------------
(* Pages *)

(* The documents up to the cursor's are the ones that it has reached.        *)
LEMMA ReachedPlaces ==
  ASSUME LibraryTyped, NEW order \in Dated, NEW o, Sorted(o, order), NEW i \in 1 .. Len(o),
         NEW r, r.order = order, r.cursor.id = o[i], r.cursor.at = library[o[i]],
         NEW j \in 1 .. Len(o)
  PROVE  Reached(r, o[j]) <=> j <= i
<1>1. order \in Orders /\ Len(o) \in Nat /\ o[i] \in Here /\ o[j] \in Here
  BY DEF Dated, Orders, Sorted
<1>2. j < i <=> Before(order, o[j], o[i])
  BY DEF Sorted
<1>3. Before(order, o[j], o[i]) <=> Ahead(order, library[o[j]], o[j], library[o[i]], o[i])
  <2>1. library[o[j]] \in Int /\ library[o[i]] \in Int
    <3>1. \A d \in Here : library[d] \in 0 .. MaxDay
      BY DEF LibraryTyped
    <3>2. \A x \in 0 .. MaxDay : x \in Int
      OBVIOUS
    <3>. QED  BY <1>1, <3>1, <3>2
  <2>. QED  BY <2>1 DEF Before, Ahead, Dated
<1>4. o[j] = o[i] => j = i
  BY DEF Sorted, OnceEach
<1>5. Reached(r, o[j]) <=> o[j] = o[i] \/ j < i
  BY <1>2, <1>3 DEF Reached
<1>. QED  BY <1>1, <1>4, <1>5

\* A reader was given the first i documents, as far as they were there all
\* along, and no other one that is there.
GivenUpTo(r, o, i) ==
    /\ \A j \in 1 .. i : o[j] \in r.start \ deleted => Listed(r, o[j])
    /\ \A a \in 1 .. Len(r.listed) : r.listed[a] \in Here => \E j \in 1 .. i : r.listed[a] = o[j]

(* So it is at a cursor.                                                     *)
LEMMA CursorIsPlace ==
  ASSUME ListTyped, NEW r \in Pages, PagesStand(r), NEW p, NEW i \in Nat,
         Accepted(r.order, r.limit, r.cursor),
         Follows(p, Ordered(r.order), i, r.limit, r.cursor)
  PROVE  GivenUpTo(r, Ordered(r.order), i)
<1>1. r.order \in Orders /\ r.listed \in Seq(Docs) /\ LibraryTyped
  BY DEF Pages, ListTyped
<1>2. PICK o : o = Ordered(r.order) /\ Sorted(o, r.order)
  BY <1>1, OrderedIsSorted
<1>3. CASE r.cursor = NoCursor
  <2>1. i = 0 /\ r.listed = <<>>
    BY <1>3 DEF Follows, PagesStand
  <2>. QED  BY <1>2, <2>1 DEF GivenUpTo
<1>4. CASE r.cursor # NoCursor
  <2>1. r.order \in Dated
    BY <1>4 DEF Accepted, Dated
  <2>2. i \in 1 .. Len(o) /\ o[i] = r.cursor.id /\ library[o[i]] = r.cursor.at
    <3>1. Len(o) \in Nat
      BY <1>2 DEF Sorted
    <3>. QED  BY <1>2, <1>4, <3>1 DEF Follows
  <2>3. \A j \in 1 .. Len(o) : Reached(r, o[j]) <=> j <= i
    BY <1>1, <1>2, <2>1, <2>2, ReachedPlaces
  <2>4. Len(o) \in Nat /\ \A d \in Here : \E j \in 1 .. Len(o) : o[j] = d
    BY <1>2 DEF Sorted
  <2>5. \A j \in 1 .. i : j \in 1 .. Len(o) /\ j <= i
    BY <2>2, <2>4
  <2>6. \A j \in 1 .. i : o[j] \in r.start \ deleted => Listed(r, o[j])
    BY <1>4, <2>1, <2>3, <2>5 DEF PagesStand
  <2>7. \A a \in 1 .. Len(r.listed) : r.listed[a] \in Here => \E j \in 1 .. i : r.listed[a] = o[j]
    <3>1. ASSUME NEW a \in 1 .. Len(r.listed), r.listed[a] \in Here
          PROVE  \E j \in 1 .. i : r.listed[a] = o[j]
      <4>1. PICK j \in 1 .. Len(o) : o[j] = r.listed[a]
        BY <2>4, <3>1
      <4>2. Reached(r, o[j])
        BY <1>4, <2>1, <3>1, <4>1 DEF PagesStand
      <4>3. j \in 1 .. i
        BY <2>3, <4>2
      <4>. QED  BY <4>1, <4>3
    <3>. QED  BY <3>1
  <2>. QED  BY <1>2, <2>6, <2>7 DEF GivenUpTo
<1>. QED  BY <1>3, <1>4

\* q was given the page p after what r was given.
Longer(q, r, p) == q.start = r.start /\ q.listed = r.listed \o p

\* They all were new to it, and are the next ones of the order.
Added(q, p, o, i) ==
    /\ OnceEach(q.listed) /\ GivenUpTo(q, o, i + Len(p))
    /\ \A a \in 1 .. Len(q.listed) : q.listed[a] \in Here \cup deleted
    /\ \A k \in 1 .. Len(p) : Listed(q, p[k]) /\ p[k] \in Here

(* A page that follows adds to what was given.                               *)
LEMMA PageIsNew ==
  ASSUME ListTyped, NEW r \in Pages, PagesStand(r), NEW p, NEW i \in Nat,
         NEW o, Sorted(o, r.order), Stretch(p, o, i), GivenUpTo(r, o, i), i <= Len(o),
         NEW q \in Pages, Longer(q, r, p)
  PROVE  Added(q, p, o, i)
<1>0. q.start = r.start /\ q.listed = r.listed \o p
  BY DEF Longer
<1>1. Here \in SUBSET Docs /\ Here \cap deleted = {}
  BY DEF ListTyped, LibraryTyped
<1>2. p \in Seq(Docs) /\ Len(p) \in Nat
  BY <1>1, SeqWider DEF Stretch
<1>3. PICK s \in Seq(Docs), t \in Seq(Docs), st \in Seq(Docs), n \in Nat, m \in Nat :
         s = r.listed /\ t = p /\ st = q.listed /\ Joins(st, s, t) /\ n = Len(s) /\ m = Len(t)
  <2>1. r.listed \in Seq(Docs) /\ q.listed \in Seq(Docs)
    BY DEF Pages
  <2>2. Joins(r.listed \o p, r.listed, p)
    BY <1>2, <2>1, Joined
  <2>3. Joins(q.listed, r.listed, p) /\ Len(r.listed) \in Nat
    BY <1>0, <2>1, <2>2
  <2>. QED  BY <1>2, <2>1, <2>3
<1>4. /\ Len(st) = n + m /\ (\A a \in 1 .. n : st[a] = s[a]) /\ (\A k \in 1 .. m : st[n + k] = t[k])
  BY <1>3 DEF Joins
<1>5. PICK l \in Nat : l = Len(o) /\ i <= l
  BY DEF Sorted
<1>6. \A k \in 1 .. m : i + k \in 1 .. l /\ t[k] = o[i + k] /\ t[k] \in Here
  BY <1>3, <1>5 DEF Stretch, Sorted
<1>7. \A j, k \in 1 .. l : j # k => o[j] # o[k]
  BY <1>5 DEF Sorted, OnceEach
<1>8. \A a \in 1 .. n : s[a] \in Here => \E j \in 1 .. i : s[a] = o[j]
  BY <1>3 DEF GivenUpTo
<1>9. \A a \in 1 .. n, k \in 1 .. m : s[a] # t[k]
  <2>1. ASSUME NEW a \in 1 .. n, NEW k \in 1 .. m, s[a] = t[k]
        PROVE  FALSE
    <3>1. PICK j \in 1 .. i : t[k] = o[j]
      BY <1>6, <1>8, <2>1
    <3>2. i + k \in 1 .. l /\ t[k] = o[i + k]
      BY <1>6
    <3>3. j \in 1 .. l /\ j # i + k
      BY <1>5
    <3>. QED  BY <1>7, <3>1, <3>2, <3>3
  <2>. QED  BY <2>1
<1>10. \A j, k \in 1 .. m : j # k => t[j] # t[k]
  <2>1. ASSUME NEW j \in 1 .. m, NEW k \in 1 .. m, j # k
        PROVE  t[j] # t[k]
    <3>1. i + j # i + k
      BY <2>1
    <3>. QED  BY <1>6, <1>7, <3>1
  <2>. QED  BY <2>1
<1>11. \A a \in 1 .. n + m : a \in 1 .. n \/ \E k \in 1 .. m : a = n + k
  BY JoinedParts
<1>12. OnceEach(s) /\ OnceEach(t) /\ Apart(s, t)
  BY <1>3, <1>9, <1>10 DEF PagesStand, OnceEach, Apart
<1>13. OnceEach(q.listed)
  BY <1>3, <1>12, JoinedOnceEach
<1>14. \A d : Listed(r, d) => Listed(q, d)
  <2>1. ASSUME NEW a \in 1 .. n
        PROVE  a \in 1 .. n + m /\ st[a] = s[a]
    BY <1>4
  <2>2. ASSUME NEW d, NEW a \in 1 .. n, s[a] = d
        PROVE  \E b \in 1 .. Len(q.listed) : q.listed[b] = d
    BY <1>3, <1>4, <2>1, <2>2
  <2>. QED  BY <1>3, <2>2 DEF Listed
<1>15. \A k \in 1 .. m : Listed(q, t[k])
  <2>1. ASSUME NEW k \in 1 .. m
        PROVE  \E b \in 1 .. Len(q.listed) : q.listed[b] = t[k]
    <3>1. n + k \in 1 .. n + m
      OBVIOUS
    <3>. QED  BY <1>3, <1>4, <3>1
  <2>. QED  BY <2>1 DEF Listed
<1>17. \A j \in 1 .. i + m : o[j] \in q.start \ deleted => Listed(q, o[j])
  <2>1. ASSUME NEW j \in 1 .. i + m, o[j] \in q.start \ deleted
        PROVE  Listed(q, o[j])
    <3>1. CASE j \in 1 .. i
      BY <1>0, <1>14, <2>1, <3>1 DEF GivenUpTo
    <3>2. CASE \E k \in 1 .. m : j = i + k
      BY <1>6, <1>15, <3>2
    <3>. QED  BY <3>1, <3>2, JoinedParts
  <2>. QED  BY <2>1
<1>18. \A a \in 1 .. n + m : st[a] \in Here => \E j \in 1 .. i + m : st[a] = o[j]
  <2>1. ASSUME NEW a \in 1 .. n + m, st[a] \in Here
        PROVE  \E j \in 1 .. i + m : st[a] = o[j]
    <3>1. CASE a \in 1 .. n
      <4>1. PICK j \in 1 .. i : s[a] = o[j]
        BY <1>4, <1>8, <2>1, <3>1
      <4>2. j \in 1 .. i + m
        OBVIOUS
      <4>. QED  BY <1>4, <3>1, <4>1, <4>2
    <3>2. ASSUME NEW k \in 1 .. m, a = n + k
          PROVE  \E j \in 1 .. i + m : st[a] = o[j]
      <4>1. i + k \in 1 .. i + m
        OBVIOUS
      <4>. QED  BY <1>4, <1>6, <3>2, <4>1
    <3>. QED  BY <1>11, <3>1, <3>2
  <2>. QED  BY <2>1
<1>19. \A a \in 1 .. n + m : st[a] \in Here \cup deleted
  <2>1. \A a \in 1 .. n : s[a] \in Here \cup deleted
    BY <1>3 DEF PagesStand
  <2>. QED  BY <1>4, <1>6, <1>11, <2>1
<1>20. GivenUpTo(q, o, i + Len(p))
  BY <1>3, <1>4, <1>17, <1>18 DEF GivenUpTo
<1>. QED  BY <1>3, <1>4, <1>6, <1>13, <1>15, <1>19, <1>20 DEF Added

(* When all documents were given, none that was there all along is missing.  *)
LEMMA AllGiven ==
  ASSUME ListTyped, NEW r, NEW o, NEW order, Sorted(o, order), NEW i, GivenUpTo(r, o, i),
         i = Len(o), r.start \subseteq Here \cup deleted
  PROVE  \A d \in r.start \ deleted : Listed(r, d)
<1>1. ASSUME NEW d \in r.start \ deleted
      PROVE  Listed(r, d)
  <2>1. d \in Here
    BY <1>1
  <2>2. PICK j \in 1 .. Len(o) : o[j] = d
    BY <2>1 DEF Sorted
  <2>. QED  BY <2>2 DEF GivenUpTo
<1>. QED  BY <1>1

(* A query leaves the store as it is.                                        *)
LEMMA ReaderGoesOn ==
  ASSUME ListInv, reader # Idle, NEW q \in Pages \cup Snapshots \cup Gets \cup Counts,
         ReadOn(q), Stands(q)
  PROVE  ListInv'
<1>1. /\ reader' = q /\ day' = day /\ library' = library /\ added' = added
      /\ deleted' = deleted /\ crowded' = crowded
  BY DEF ReadOn
<1>0. Here' = Here
  BY <1>1 DEF Here
<1>2. ListTyped'
  BY <1>0, <1>1 DEF ListInv, ListTyped, LibraryTyped
<1>3. Uncrowded'
  BY <1>0, <1>1 DEF ListInv, Uncrowded
<1>4. q.kind = "pages" => PagesStand(q)'
  BY <1>0, <1>1 DEF Stands, PagesStand, Reached
<1>5. q.kind = "snapshot" => SnapshotStands(q)'
  BY <1>0, <1>1 DEF Stands, SnapshotStands, Rank, Before
<1>6. q.kind = "get" => GetStands(q)'
  BY <1>0, <1>1 DEF Stands, GetStands
<1>7. q.kind = "stats" => CountsStand(q)'
  BY <1>0, <1>1 DEF Stands, CountsStand, AllChunks
<1>. QED  BY <1>1, <1>2, <1>3, <1>4, <1>5, <1>6, <1>7 DEF ListInv, Stands

(* A reader's kind tells its fields.                                         *)
LEMMA PagesReader ==
  ASSUME ListTyped
  PROVE  /\ reader.kind = "pages" => reader \in Pages /\ reader # Idle
         /\ reader.kind = "snapshot" => reader \in Snapshots /\ reader # Idle
         /\ reader.kind = "get" => reader \in Gets /\ reader # Idle
         /\ reader.kind = "stats" => reader \in Counts /\ reader # Idle
<1>1. /\ Idle.kind = "none" /\ (\A r \in Pages : r.kind = "pages")
      /\ (\A r \in Snapshots : r.kind = "snapshot") /\ (\A r \in Gets : r.kind = "get")
      /\ (\A r \in Counts : r.kind = "stats")
  BY DEF Idle, Pages, Snapshots, Gets, Counts
<1>2. reader \in {Idle} \cup Pages \cup Snapshots \cup Gets \cup Counts
  BY DEF ListTyped
<1>. QED  BY <1>1, <1>2

(* The next page.                                                            *)
LEMMA RowsKeep ==
  ASSUME ListInv, ReadRows
  PROVE  ListInv'
<1>1. PICK r \in Pages : r = reader /\ r.at = "rows" /\ r # Idle
  <2>1. reader.kind = "pages" /\ reader.at = "rows"
    BY DEF ReadRows
  <2>. QED  BY <2>1, PagesReader DEF ListInv
<1>2. ListTyped /\ LibraryTyped /\ PagesStand(r)
  BY <1>1 DEF ListInv, ListTyped, Stands, Pages
<1>3. r.order \in Orders /\ r.limit \in Nat /\ r.listed \in Seq(Docs)
  BY DEF Pages
<1>4. ~crowded => Cardinality(Here) <= ScanLimit
  BY <1>1 DEF ListInv, Uncrowded
<1>5. CASE PageOf(r.order, r.limit, r.cursor) = {}
  <2>1. PICK q : q = [r EXCEPT !.at = "refused"]
    OBVIOUS
  <2>2. ReadOn(q)
    BY <1>1, <1>5, <2>1 DEF ReadRows
  <2>3. /\ q \in Pages /\ q.at = "refused" /\ q.kind = "pages" /\ q.order = r.order
        /\ q.limit = r.limit /\ q.cursor = r.cursor /\ q.listed = r.listed /\ q.start = r.start
        /\ q.page = r.page /\ q.counts = r.counts
    BY <2>1 DEF Pages
  <2>4. \/ ~Accepted(r.order, r.limit, r.cursor)
        \/ r.cursor # NoCursor /\ ~(r.cursor.id \in Here /\ library[r.cursor.id] = r.cursor.at)
        \/ Cardinality(Here) > ScanLimit
    BY <1>2, <1>3, <1>5, RefusedCursor
  <2>5. \/ ~Accepted(r.order, r.limit, r.cursor) \/ r.cursor.id \in deleted \/ crowded
    <3>1. CASE Cardinality(Here) > ScanLimit
      BY <1>2, <1>4, <3>1, ListAssumption, HereIsFinite
    <3>2. CASE r.cursor # NoCursor /\ ~(r.cursor.id \in Here /\ library[r.cursor.id] = r.cursor.at)
      BY <1>2, <3>2 DEF PagesStand, Listed
    <3>. QED  BY <2>4, <3>1, <3>2
  <2>6. PagesStand(q)
    BY <1>2, <2>3, <2>5 DEF PagesStand, Listed, Reached
  <2>. QED  BY <1>1, <2>2, <2>3, <2>6, ReaderGoesOn DEF Stands
<1>6. CASE PageOf(r.order, r.limit, r.cursor) # {}
  <2>1. PICK p \in PageOf(r.order, r.limit, r.cursor) :
           ReadOn([r EXCEPT !.at = IF p = <<>> THEN "end" ELSE "counts",
                            !.page = p, !.listed = @ \o p,
                            !.cursor = IF p = <<>> THEN @
                                       ELSE [at |-> library[Last(p)], id |-> Last(p)]])
    BY <1>1, <1>6 DEF ReadRows
  <2>2. PICK o : o = Ordered(r.order) /\ Sorted(o, r.order)
    BY <1>2, <1>3, OrderedIsSorted
  <2>3. Accepted(r.order, r.limit, r.cursor)
    BY <1>2, <1>3, PageFollows
  <2>4. PICK i \in Nat : Follows(p, o, i, r.limit, r.cursor)
    BY <1>2, <1>3, <2>2, PageFollows
  <2>5. GivenUpTo(r, o, i)
    BY <1>2, <2>2, <2>3, <2>4, CursorIsPlace
  <2>6. Stretch(p, o, i) /\ i <= Len(o) /\ Len(o) \in Nat
    BY <2>2, <2>4 DEF Follows, Sorted
  <2>7. p \in Seq(Here) /\ p \in Seq(Docs) /\ Len(p) \in Nat
    <3>1. \A d \in Here : d \in Docs
      BY <1>2 DEF LibraryTyped
    <3>. QED  BY <2>6, <3>1, SeqWider DEF Stretch
  <2>8. r.limit # 0 /\ (r.cursor # NoCursor => r.order \in Dated)
    BY <1>3, <2>3 DEF Accepted, Dated
  <2>9. CASE p = <<>>
    <3>1. PICK q : q = [r EXCEPT !.at = "end", !.page = <<>>]
      OBVIOUS
    <3>2. r.listed \o p = r.listed
      BY <1>3, <2>9
    <3>3. ReadOn(q)
      <4>1. [r EXCEPT !.at = "end", !.page = p, !.listed = r.listed, !.cursor = r.cursor] = q
        BY <2>9, <3>1 DEF Pages
      <4>. QED  BY <2>1, <2>9, <3>2, <4>1
    <3>4. /\ q \in Pages /\ q.at = "end" /\ q.kind = "pages" /\ q.order = r.order
          /\ q.limit = r.limit /\ q.cursor = r.cursor /\ q.listed = r.listed
          /\ q.start = r.start /\ q.page = <<>> /\ q.counts = r.counts
      BY <2>7, <2>9, <3>1 DEF Pages
    <3>5. ~crowded => \A d \in r.start \ deleted : Listed(r, d)
      <4>1. SUFFICES ASSUME ~crowded PROVE \A d \in r.start \ deleted : Listed(r, d)
        OBVIOUS
      <4>2. Len(p) = 0 /\ Len(p) < r.limit
        BY <1>3, <2>8, <2>9
      <4>3. i = Len(o)
        BY <1>4, <2>4, <2>6, <4>1, <4>2 DEF Follows
      <4>. QED  BY <1>2, <2>2, <2>5, <4>3, AllGiven DEF PagesStand
    <3>6. \A c \in 1 .. Len(q.counts) : ~(c <= Len(q.page))
      BY <3>4
    <3>7. PagesStand(q)
      BY <1>2, <3>4, <3>5, <3>6 DEF PagesStand, Listed, Reached
    <3>. QED  BY <1>1, <3>3, <3>4, <3>7, ReaderGoesOn DEF Stands
  <2>10. CASE p # <<>>
    <3>1. PICK m \in Nat : m = Len(p) /\ m # 0
      BY <2>7, <2>10
    <3>2. PICK last : last = p[m]
      OBVIOUS
    <3>3. /\ last \in Here /\ last \in Docs /\ last = o[i + m] /\ i + m \in 1 .. Len(o)
          /\ library[last] \in Nat
      <4>1. m \in 1 .. Len(p)
        BY <3>1
      <4>2. last \in Here /\ last = o[i + m] /\ i + m \in 1 .. Len(o)
        BY <2>6, <3>2, <4>1 DEF Stretch
      <4>3. library[last] \in 0 .. MaxDay /\ last \in Docs
        BY <1>2, <4>2 DEF LibraryTyped
      <4>. QED  BY <4>2, <4>3
    <3>4. PICK c \in [at : Int, id : Int] : c = [at |-> library[last], id |-> last]
      <4>1. library[last] \in Int /\ last \in Int
        BY <3>3, ListAssumption
      <4>. QED  BY <4>1
    <3>5. c # NoCursor
      BY <3>3, <3>4 DEF NoCursor
    <3>6. PICK longer \in Seq(Docs) : longer = r.listed \o p
      BY <1>3, <2>7, ConcatProperties
    <3>7. PICK q : q = [r EXCEPT !.at = "counts", !.page = p, !.listed = longer, !.cursor = c]
      OBVIOUS
    <3>8. ReadOn(q)
      <4>1. Last(p) = last
        BY <3>1, <3>2 DEF Last
      <4>. QED  BY <2>1, <2>10, <3>4, <3>6, <3>7, <4>1
    <3>9. /\ q \in Pages /\ q.at = "counts" /\ q.kind = "pages" /\ q.order = r.order
          /\ q.limit = r.limit /\ q.cursor = c /\ q.listed = longer
          /\ q.start = r.start /\ q.page = p /\ q.counts = r.counts
      BY <2>7, <3>7 DEF Pages
    <3>10. /\ OnceEach(q.listed) /\ GivenUpTo(q, o, i + m)
           /\ \A a \in 1 .. Len(q.listed) : q.listed[a] \in Here \cup deleted
           /\ \A k \in 1 .. m : Listed(q, p[k]) /\ p[k] \in Here
      <4>1. Longer(q, r, p)
        BY <3>6, <3>9 DEF Longer
      <4>2. Added(q, p, o, i)
        BY <1>2, <2>2, <2>5, <2>6, <3>9, <4>1, PageIsNew
      <4>. QED  BY <3>1, <4>2 DEF Added
    <3>11. Listed(q, c.id)
      BY <3>1, <3>2, <3>4, <3>10
    <3>12. c.id \in Here => library[c.id] = c.at
      BY <3>4
    <3>13. ASSUME r.order \in Dated
           PROVE  \A j \in 1 .. Len(o) : Reached(q, o[j]) <=> j <= i + m
      <4>1. q.order \in Dated /\ Sorted(o, q.order)
        BY <2>2, <3>9, <3>13
      <4>2. q.cursor.id = o[i + m] /\ q.cursor.at = library[o[i + m]]
        BY <3>3, <3>4, <3>9
      <4>3. PICK k \in 1 .. Len(o) : k = i + m
        BY <3>3
      <4>. QED  BY <1>2, <4>1, <4>2, <4>3, ReachedPlaces
    <3>14. ASSUME r.order \in Dated, NEW a \in 1 .. Len(q.listed), q.listed[a] \in Here
           PROVE  Reached(q, q.listed[a])
      <4>1. PICK j \in 1 .. i + m : q.listed[a] = o[j]
        BY <3>10, <3>14 DEF GivenUpTo
      <4>2. j \in 1 .. Len(o) /\ j <= i + m
        BY <2>6, <3>3
      <4>. QED  BY <3>13, <3>14, <4>1, <4>2
    <3>15. ASSUME r.order \in Dated, NEW d \in r.start \ deleted, Reached(q, d)
           PROVE  Listed(q, d)
      <4>1. d \in Here
        BY <1>2 DEF PagesStand
      <4>2. PICK j \in 1 .. Len(o) : o[j] = d
        BY <2>2, <4>1 DEF Sorted
      <4>3. j \in 1 .. i + m
        BY <3>13, <3>15, <4>2
      <4>. QED  BY <3>9, <3>10, <4>2, <4>3 DEF GivenUpTo
    <3>16. ~crowded /\ m < r.limit => \A d \in r.start \ deleted : Listed(q, d)
      <4>1. SUFFICES ASSUME ~crowded, m < r.limit PROVE \A d \in r.start \ deleted : Listed(q, d)
        OBVIOUS
      <4>2. i + m = Len(o)
        BY <1>4, <2>4, <3>1, <4>1 DEF Follows
      <4>3. q.start \subseteq Here \cup deleted
        BY <1>2, <3>9 DEF PagesStand
      <4>. QED  BY <1>2, <2>2, <3>9, <3>10, <4>2, <4>3, AllGiven
    <3>17. \A k \in 1 .. Len(q.page) : q.page[k] \in Here \cup deleted
      BY <3>1, <3>9, <3>10
    <3>18. PagesStand(q)
      <4>1. q.start \subseteq Here \cup deleted
        BY <1>2, <3>9 DEF PagesStand
      <4>2. q.cursor # NoCursor
        BY <3>5, <3>9
      <4>3. Listed(q, q.cursor.id) /\ (q.cursor.id \in Here => library[q.cursor.id] = q.cursor.at)
        BY <3>9, <3>11, <3>12
      <4>4. q.order \in Dated =>
              /\ \A a \in 1 .. Len(q.listed) : q.listed[a] \in Here => Reached(q, q.listed[a])
              /\ \A d \in q.start \ deleted : Reached(q, d) => Listed(q, d)
        BY <3>9, <3>14, <3>15
      <4>5. ~crowded /\ Len(q.page) < q.limit => \A d \in q.start \ deleted : Listed(q, d)
        BY <3>1, <3>9, <3>16
      <4>. QED  BY <3>9, <3>10, <3>17, <4>1, <4>2, <4>3, <4>4, <4>5 DEF PagesStand
    <3>. QED  BY <1>1, <3>8, <3>9, <3>18, ReaderGoesOn DEF Stands
  <2>. QED  BY <2>9, <2>10
<1>. QED  BY <1>5, <1>6

(* The counts of a page.                                                     *)
LEMMA CountsKeep ==
  ASSUME ListInv, ReadCounts
  PROVE  ListInv'
<1>1. PICK r \in Pages : r = reader /\ r.at = "counts" /\ r # Idle
  <2>1. reader.kind = "pages" /\ reader.at = "counts"
    BY DEF ReadCounts
  <2>. QED  BY <2>1, PagesReader DEF ListInv
<1>2. PagesStand(r) /\ r.page \in Seq(Docs) /\ r.limit \in Nat /\ Here \cap deleted = {}
  BY <1>1 DEF ListInv, ListTyped, Stands, Pages
<1>3. PICK n \in Nat : n = Len(r.page)
  BY <1>2
<1>4. PICK c : c = [i \in 1 .. n |-> IF r.page[i] \in Here THEN Size[r.page[i]] ELSE 0]
  OBVIOUS
<1>5. c \in Seq(Nat) /\ Len(c) = n
  <2>1. \A i \in 1 .. n : Size[r.page[i]] \in Nat
    <3>1. \A i \in 1 .. n : r.page[i] \in Docs
      BY <1>2, <1>3
    <3>. QED  BY <3>1, ListAssumption
  <2>2. c \in [1 .. n -> Nat]
    BY <1>4, <2>1
  <2>. QED  BY <2>2, FunctionIsSeq
<1>6. PICK at \in {"end", "rows"} : at = IF n < r.limit THEN "end" ELSE "rows"
  OBVIOUS
<1>7. PICK q : q = [r EXCEPT !.counts = c, !.at = at]
  OBVIOUS
<1>8. ReadOn(q)
  BY <1>1, <1>3, <1>4, <1>6, <1>7 DEF ReadCounts
<1>9. /\ q \in Pages /\ q.at = at /\ q.kind = "pages" /\ q.order = r.order
      /\ q.limit = r.limit /\ q.cursor = r.cursor /\ q.listed = r.listed
      /\ q.start = r.start /\ q.page = r.page /\ q.counts = c
  BY <1>5, <1>7 DEF Pages
<1>10. \A i \in 1 .. Len(q.counts) :
          i <= Len(q.page) /\ q.page[i] \notin deleted => q.counts[i] = Size[q.page[i]]
  <2>1. ASSUME NEW i \in 1 .. n, r.page[i] \notin deleted
        PROVE  c[i] = Size[r.page[i]]
    <3>1. r.page[i] \in Here
      BY <1>1, <1>2, <1>3, <2>1 DEF PagesStand
    <3>. QED  BY <1>4, <3>1
  <2>. QED  BY <1>3, <1>5, <1>9, <2>1
<1>11. q.at = "end" => Len(q.page) < q.limit
  BY <1>3, <1>6, <1>9
<1>12. PagesStand(q)
  BY <1>1, <1>2, <1>9, <1>10, <1>11 DEF PagesStand, Listed, Reached
<1>. QED  BY <1>1, <1>8, <1>9, <1>12, ReaderGoesOn DEF Stands

-----------------------------------------------------------------------------
(* Snapshots *)

(* A document's place is a number, and that of a document of the order is    *)
(* where it stands.                                                          *)
LEMMA RanksArePlaces ==
  ASSUME LibraryTyped
  PROVE  /\ \A d : Rank(d) \in Nat
         /\ \A o : Sorted(o, "created_desc") => \A k \in 1 .. Len(o) : Rank(o[k]) = k - 1
<1>1. ASSUME NEW d
      PROVE  Rank(d) \in Nat
  <2>1. IsFiniteSet({e \in Here : Before("created_desc", e, d)})
    <3>1. {e \in Here : Before("created_desc", e, d)} \in SUBSET Here
      OBVIOUS
    <3>. QED  BY <3>1, HereIsFinite, FS_Subset
  <2>. QED  BY <2>1, FS_CardinalityType DEF Rank
<1>2. ASSUME NEW o, Sorted(o, "created_desc"), NEW k \in 1 .. Len(o)
      PROVE  Rank(o[k]) = k - 1
  BY <1>2 DEF Sorted, Rank
<1>. QED  BY <1>1, <1>2

\* What was read are first documents, and all of the first b.
Extended(docs, r, b) ==
    /\ docs \in Seq(Docs) /\ Len(docs) = b
    /\ \A i \in 1 .. b : docs[i] \in r.start \cup added
    /\ added = {} => /\ OnceEach(docs)
                     /\ \A i \in 1 .. b : docs[i] \in Here => Rank(docs[i]) < b
    /\ deleted = {} => \A d \in r.start : Rank(d) < b => \E i \in 1 .. b : docs[i] = d

(* The next documents extend it.                                             *)
LEMMA RowsExtend ==
  ASSUME ListTyped, NEW r \in Snapshots, SnapshotStands(r), r.at = "page",
         NEW p, NEW o, Sorted(o, "created_desc"), Stretch(p, o, r.offset)
  PROVE  Extended(r.listed \o p, r, r.offset + Len(p))
<1>1. Here \in SUBSET Docs /\ LibraryTyped
  BY DEF ListTyped, LibraryTyped
<1>2. PICK n \in Nat : n = r.offset /\ n = Len(r.listed)
  BY DEF Snapshots, SnapshotStands
<1>3. p \in Seq(Docs) /\ Len(p) \in Nat /\ r.listed \in Seq(Docs)
  BY <1>1, SeqWider DEF Stretch, Snapshots
<1>4. PICK s \in Seq(Docs), t \in Seq(Docs), st \in Seq(Docs), m \in Nat :
         s = r.listed /\ t = p /\ st = r.listed \o p /\ Joins(st, s, t) /\ m = Len(t)
  BY <1>3, Joined
<1>5. /\ Len(st) = n + m /\ (\A a \in 1 .. n : st[a] = s[a]) /\ (\A k \in 1 .. m : st[n + k] = t[k])
  BY <1>2, <1>4 DEF Joins
<1>6. \A a \in 1 .. n + m : a \in 1 .. n \/ \E k \in 1 .. m : a = n + k
  BY JoinedParts
<1>7. \A d : Rank(d) \in Nat
  BY <1>1, RanksArePlaces
<1>8. \A k \in 1 .. m : t[k] \in Here /\ n + k \in 1 .. Len(o) /\ t[k] = o[n + k]
  BY <1>2, <1>4 DEF Stretch
<1>9. \A k \in 1 .. Len(o) : Rank(o[k]) = k - 1
  BY <1>1, RanksArePlaces
<1>10. \A k \in 1 .. m : Rank(t[k]) = n + k - 1
  BY <1>8, <1>9
<1>11. \A i \in 1 .. n + m : st[i] \in r.start \cup added
  <2>1. \A a \in 1 .. n : s[a] \in r.start \cup added
    BY <1>2, <1>4 DEF SnapshotStands
  <2>2. \A k \in 1 .. m : t[k] \in r.start \cup added
    BY <1>8 DEF SnapshotStands
  <2>. QED  BY <1>5, <1>6, <2>1, <2>2
<1>12. ASSUME added = {}
       PROVE  OnceEach(st) /\ \A i \in 1 .. n + m : st[i] \in Here => Rank(st[i]) < n + m
  <2>1. \A a \in 1 .. n : s[a] \in Here => Rank(s[a]) < n
    BY <1>2, <1>4, <1>12 DEF SnapshotStands
  <2>2. ASSUME NEW i \in 1 .. n + m, st[i] \in Here
        PROVE  Rank(st[i]) < n + m
    <3>1. PICK x \in Nat : x = Rank(st[i])
      BY <1>7
    <3>2. CASE i \in 1 .. n
      <4>1. x < n
        BY <1>5, <2>1, <2>2, <3>1, <3>2
      <4>. QED  BY <3>1, <4>1
    <3>3. ASSUME NEW k \in 1 .. m, i = n + k
          PROVE  Rank(st[i]) < n + m
      <4>1. x = n + k - 1
        BY <1>5, <1>10, <3>1, <3>3
      <4>. QED  BY <3>1, <4>1
    <3>. QED  BY <1>6, <3>2, <3>3
  <2>3. OnceEach(s)
    BY <1>4, <1>12 DEF SnapshotStands
  <2>4. OnceEach(t)
    <3>1. ASSUME NEW j \in 1 .. m, NEW k \in 1 .. m, j # k
          PROVE  t[j] # t[k]
      BY <1>10, <3>1
    <3>. QED  BY <1>4, <3>1 DEF OnceEach
  <2>5. Apart(s, t)
    <3>1. ASSUME NEW a \in 1 .. n, NEW k \in 1 .. m, s[a] = t[k]
          PROVE  FALSE
      <4>1. Rank(t[k]) < n
        BY <1>8, <2>1, <3>1
      <4>. QED  BY <1>10, <4>1
    <3>. QED  BY <1>2, <1>4, <3>1 DEF Apart
  <2>6. OnceEach(st)
    BY <1>4, <2>3, <2>4, <2>5, JoinedOnceEach
  <2>. QED  BY <2>2, <2>6
<1>13. ASSUME deleted = {}, NEW d \in r.start, Rank(d) < n + m
       PROVE  \E i \in 1 .. n + m : st[i] = d
  <2>1. d \in Here
    BY <1>13 DEF SnapshotStands
  <2>2. PICK j \in 1 .. Len(o) : o[j] = d
    BY <2>1 DEF Sorted
  <2>3. j \in Int /\ j >= 1 /\ j - 1 < n + m
    BY <1>9, <1>13, <2>2
  <2>4. CASE j <= n
    <3>1. Rank(d) < n
      BY <1>9, <2>2, <2>3, <2>4
    <3>2. Listed(r, d)
      BY <1>2, <1>13, <3>1 DEF SnapshotStands
    <3>3. PICK a \in 1 .. n : s[a] = d
      BY <1>2, <1>4, <3>2 DEF Listed
    <3>4. a \in 1 .. n + m /\ st[a] = d
      BY <1>5, <3>3
    <3>. QED  BY <3>4
  <2>5. CASE ~(j <= n)
    <3>1. PICK k \in 1 .. m : j = n + k
      <4>1. j - n \in 1 .. m /\ j = n + (j - n)
        BY <2>3, <2>5
      <4>. QED  BY <4>1
    <3>2. t[k] = d /\ n + k \in 1 .. n + m
      BY <1>8, <2>2, <3>1
    <3>3. st[n + k] = d
      BY <1>5, <3>2
    <3>. QED  BY <3>2, <3>3
  <2>. QED  BY <2>4, <2>5
<1>14. Extended(st, r, n + m)
  BY <1>5, <1>11, <1>12, <1>13 DEF Extended
<1>. QED  BY <1>2, <1>4, <1>14

(* The cut takes away what exceeds the bound.                                *)
LEMMA CutFits ==
  ASSUME NEW docs \in Seq(Docs)
  PROVE  /\ Cut(docs) \in Seq(Docs) /\ Len(Cut(docs)) <= MaxDocs
         /\ Len(docs) <= MaxDocs => Cut(docs) = docs
         /\ OnceEach(docs) => OnceEach(Cut(docs))
         /\ \A i \in 1 .. Len(Cut(docs)) : i \in 1 .. Len(docs) /\ Cut(docs)[i] = docs[i]
<1>1. PICK n \in Nat, m \in Nat : n = Len(docs) /\ m = MaxDocs
  BY ListAssumption
<1>2. PICK j \in Nat : j = Lesser(n, m) /\ j <= n /\ j <= m /\ (n <= m => j = n)
  BY DEF Lesser
<1>3. Cut(docs) = SubSeq(docs, 1, j)
  BY <1>1, <1>2 DEF Cut
<1>0. PICK c : c = SubSeq(docs, 1, j)
  OBVIOUS
<1>4. c \in Seq(Docs) /\ Len(c) = j /\ \A i \in 1 .. j : c[i] = docs[i]
  <2>1. \A i \in 1 .. j : docs[i] \in Docs
    BY <1>1, <1>2
  <2>2. /\ SubSeq(docs, 1, j) \in Seq(Docs)
        /\ Len(SubSeq(docs, 1, j)) = IF 1 <= j THEN j - 1 + 1 ELSE 0
        /\ \A i \in 1 .. j - 1 + 1 : SubSeq(docs, 1, j)[i] = docs[1 + i - 1]
    BY <2>1, 1 \in Int, SubSeqProperties
  <2>3. \A i \in 1 .. j : i \in 1 .. j - 1 + 1 /\ 1 + i - 1 = i
    OBVIOUS
  <2>. QED  BY <1>0, <2>2, <2>3
<1>5. \A i \in 1 .. j : i \in 1 .. n
  BY <1>2
<1>6. n <= m => c = docs
  BY <1>1, <1>2, <1>4, SeqEqual
<1>7. OnceEach(docs) => OnceEach(c)
  BY <1>1, <1>4, <1>5 DEF OnceEach
<1>. QED  BY <1>0, <1>1, <1>2, <1>3, <1>4, <1>5, <1>6, <1>7

(* The next query of a snapshot.                                             *)
LEMMA SnapshotKeeps ==
  ASSUME ListInv, ReadPage
  PROVE  ListInv'
<1>1. PICK r \in Snapshots : r = reader /\ r.at = "page" /\ r # Idle
  <2>1. reader.kind = "snapshot" /\ reader.at = "page"
    BY DEF ReadPage
  <2>. QED  BY <2>1, PagesReader DEF ListInv
<1>2. ListTyped /\ LibraryTyped /\ SnapshotStands(r)
  BY <1>1 DEF ListInv, ListTyped, Stands, Snapshots
<1>3. PICK n \in Nat : n = Len(r.listed) /\ n = r.offset /\ n <= MaxDocs
  BY <1>1, <1>2 DEF SnapshotStands, Snapshots
<1>4. PICK want \in Nat : want = Want(n) /\ want # 0
  <2>1. MaxDocs + 1 - n \in Nat /\ MaxDocs + 1 - n # 0
    BY <1>3, ListAssumption
  <2>. QED  BY <2>1, ListAssumption DEF Want, Lesser
<1>5. PICK p : p = List("created_desc", want, n)
  OBVIOUS
<1>6. PICK o : o = Ordered("created_desc") /\ Sorted(o, "created_desc")
  BY <1>2, OrderedIsSorted DEF Orders
<1>7. /\ Stretch(p, o, n) /\ Len(p) <= want
      /\ Len(p) < want => n + Len(p) = Cardinality(Here) \/ n >= Cardinality(Here)
  BY <1>2, <1>5, <1>6, ListIsStretch DEF Orders
<1>8. PICK m \in Nat : m = Len(p)
  BY <1>7 DEF Stretch
<1>9. PICK docs : docs = r.listed \o p
  OBVIOUS
<1>10. Extended(docs, r, n + m)
  BY <1>1, <1>2, <1>3, <1>6, <1>7, <1>8, <1>9, RowsExtend
<1>11. docs \in Seq(Docs) /\ Len(docs) = n + m
  BY <1>10 DEF Extended
<1>12. Here \in SUBSET Docs /\ r.start \in SUBSET Docs
  BY <1>2 DEF LibraryTyped, Snapshots
<1>13. CASE m < want \/ n + m > MaxDocs
  <2>1. PICK more \in BOOLEAN : more = (n + m > MaxDocs)
    <3>1. (n + m > MaxDocs) \in BOOLEAN
      OBVIOUS
    <3>. QED  BY <3>1, Zenon
  <2>2. PICK cut \in Seq(Docs) :
           /\ cut = Cut(docs) /\ Len(cut) <= MaxDocs
           /\ Len(docs) <= MaxDocs => cut = docs
           /\ OnceEach(docs) => OnceEach(cut)
           /\ \A i \in 1 .. Len(cut) : i \in 1 .. Len(docs) /\ cut[i] = docs[i]
    BY <1>11, CutFits
  <2>3. PICK q : q = [r EXCEPT !.at = "end", !.more = more, !.listed = cut]
    OBVIOUS
  <2>4. ReadOn(q)
    <3>1. Len(docs) - n = m
      BY <1>11
    <3>. QED  BY <1>1, <1>3, <1>4, <1>5, <1>8, <1>9, <1>11, <1>13, <2>1, <2>2, <2>3, <3>1 DEF ReadPage
  <2>5. /\ q \in Snapshots /\ q.kind = "snapshot" /\ q.at = "end" /\ (q.more <=> n + m > MaxDocs)
        /\ q.listed = cut /\ q.start = r.start
    BY <2>1, <2>3 DEF Snapshots
  <2>6. \A i \in 1 .. Len(cut) : cut[i] \in r.start \cup added
    BY <1>10, <1>11, <2>2 DEF Extended
  <2>7. added = {} => OnceEach(cut)
    BY <1>10, <2>2 DEF Extended
  <2>8. ASSUME deleted = {}, ~(n + m > MaxDocs)
        PROVE  \A d \in q.start : Listed(q, d)
    <3>1. m < want
      BY <1>13, <2>8
    <3>2. PICK l \in Nat : l = Cardinality(Here) /\ l = Len(o)
      BY <1>6 DEF Sorted
    <3>3. l <= n + m
      BY <1>7, <1>8, <3>1, <3>2
    <3>4. ASSUME NEW d \in r.start
          PROVE  Rank(d) < n + m
      <4>1. d \in Here
        BY <1>2, <2>8 DEF SnapshotStands
      <4>2. PICK j \in 1 .. l : o[j] = d
        BY <1>6, <3>2, <4>1 DEF Sorted
      <4>3. Rank(d) = j - 1
        BY <1>2, <1>6, <3>2, <4>2, RanksArePlaces
      <4>. QED  BY <3>3, <4>3
    <3>5. \A d \in r.start : \E i \in 1 .. n + m : docs[i] = d
      BY <1>10, <2>8, <3>4 DEF Extended
    <3>6. n + m <= MaxDocs
      BY <1>3, <2>8, ListAssumption
    <3>7. cut = docs
      BY <1>11, <2>2, <3>6
    <3>. QED  BY <1>11, <2>5, <3>5, <3>7 DEF Listed
  <2>9. ASSUME n + m > MaxDocs, added = {}
        PROVE  Cardinality(r.start) > MaxDocs
    <3>1. OnceEach(docs) /\ \A i \in 1 .. n + m : docs[i] \in r.start
      BY <1>10, <2>9 DEF Extended
    <3>2. IsFiniteSet(ToSet(docs)) /\ Cardinality(ToSet(docs)) = n + m
      BY <1>11, <3>1, OnceEachCounts
    <3>3. ToSet(docs) \in SUBSET r.start
      BY <1>11, <3>1, Elements, SMTT(30)
    <3>4. IsFiniteSet(r.start) /\ Cardinality(r.start) \in Nat
      BY <1>2, <1>12, HereIsFinite
    <3>5. Cardinality(ToSet(docs)) <= Cardinality(r.start)
      BY <3>3, <3>4, FS_Subset
    <3>. QED  BY <2>9, <3>2, <3>4, <3>5, ListAssumption
  <2>10. SnapshotStands(q)
    BY <1>2, <2>2, <2>5, <2>6, <2>7, <2>8, <2>9 DEF SnapshotStands
  <2>. QED  BY <1>1, <2>4, <2>5, <2>10, ReaderGoesOn DEF Stands
<1>14. CASE ~(m < want \/ n + m > MaxDocs)
  <2>1. m = want /\ n + m <= MaxDocs
    BY <1>3, <1>7, <1>8, <1>14, ListAssumption
  <2>0. PICK next \in Nat : next = n + want /\ next = n + m
    BY <2>1
  <2>2. PICK q : q = [r EXCEPT !.listed = docs, !.offset = next]
    OBVIOUS
  <2>3. ReadOn(q)
    <3>1. Len(docs) - n = m
      BY <1>11
    <3>. QED  BY <1>1, <1>3, <1>4, <1>5, <1>8, <1>9, <1>11, <1>14, <2>0, <2>2, <3>1 DEF ReadPage
  <2>4. /\ q \in Snapshots /\ q.kind = "snapshot" /\ q.at = "page"
        /\ q.listed = docs /\ q.start = r.start /\ q.offset = n + m
    BY <1>1, <1>11, <2>0, <2>2 DEF Snapshots
  <2>5. ~q.more
    BY <1>1, <1>2, <2>2 DEF SnapshotStands, Snapshots
  <2>6. deleted = {} => \A d \in q.start : Rank(d) < q.offset => Listed(q, d)
    BY <1>10, <1>11, <2>4 DEF Extended, Listed
  <2>7. added = {} => OnceEach(docs) /\ \A i \in 1 .. Len(docs) : docs[i] \in Here => Rank(docs[i]) < n + m
    BY <1>10, <1>11 DEF Extended
  <2>8. \A i \in 1 .. Len(docs) : docs[i] \in r.start \cup added
    BY <1>10, <1>11 DEF Extended
  <2>9. SnapshotStands(q)
    BY <1>2, <1>11, <2>1, <2>4, <2>5, <2>6, <2>7, <2>8 DEF SnapshotStands
  <2>. QED  BY <1>1, <2>3, <2>4, <2>9, ReaderGoesOn DEF Stands
<1>. QED  BY <1>13, <1>14

-----------------------------------------------------------------------------
(* The other reads *)

(* All chunks are finitely many.                                             *)
LEMMA ChunksAreCounted ==
  ASSUME LibraryTyped
  PROVE  AllChunks \in Nat
<1>1. PICK rows : rows = [d \in Here |-> {<<d, i>> : i \in 1 .. Size[d]}]
  OBVIOUS
<1>2. ASSUME NEW d \in Here
      PROVE  IsFiniteSet(rows[d])
  <2>1. PICK n \in Nat : n = Size[d]
    BY ListAssumption DEF LibraryTyped
  <2>2. PICK f : f = [i \in 1 .. n |-> <<d, i>>]
    OBVIOUS
  <2>3. IsFiniteSet({f[i] : i \in 1 .. n})
    <3>1. IsFiniteSet(1 .. n) /\ DOMAIN f = 1 .. n /\ f = [i \in 1 .. n |-> f[i]]
      BY <2>2, Interval
    <3>. QED  BY <3>1, ImageIsFinite
  <2>4. rows[d] = {f[i] : i \in 1 .. n}
    BY <1>1, <2>1, <2>2
  <2>. QED  BY <2>3, <2>4
<1>3. IsFiniteSet({rows[d] : d \in Here})
  <2>1. IsFiniteSet(Here) /\ DOMAIN rows = Here /\ rows = [d \in Here |-> rows[d]]
    BY <1>1, HereIsFinite
  <2>. QED  BY <2>1, ImageIsFinite
<1>4. IsFiniteSet(UNION {rows[d] : d \in Here})
  <2>1. PICK S : S = {rows[d] : d \in Here}
    OBVIOUS
  <2>2. \A T \in S : IsFiniteSet(T)
    BY <1>2, <2>1
  <2>. QED  BY <1>3, <2>1, <2>2, FS_UNION
<1>5. {rows[d] : d \in Here} = {{<<d, i>> : i \in 1 .. Size[d]} : d \in Here}
  BY <1>1
<1>. QED  BY <1>4, <1>5, FS_CardinalityType DEF AllChunks

(* The second query of get_document and of stats.                            *)
LEMMA PartsKeep ==
  ASSUME ListInv, ReadChunkRows \/ CountChunks
  PROVE  ListInv'
<1>1. ListTyped /\ LibraryTyped
  BY DEF ListInv, ListTyped
<1>2. CASE ReadChunkRows
  <2>1. PICK r \in Gets : r = reader /\ r # Idle
    BY <1>1, <1>2, PagesReader DEF ReadChunkRows
  <2>2. PICK c : c = IF r.doc \in Here THEN Size[r.doc] ELSE 0
    OBVIOUS
  <2>3. c \in Nat
    BY <2>2, ListAssumption DEF Gets
  <2>4. PICK q : q = [r EXCEPT !.at = "end", !.chunks = c]
    OBVIOUS
  <2>5. ReadOn(q)
    BY <1>2, <2>1, <2>2, <2>4 DEF ReadChunkRows
  <2>6. q \in Gets /\ q.kind = "get" /\ q.doc = r.doc /\ q.chunks = c
    BY <2>3, <2>4 DEF Gets
  <2>7. r.doc \in Here \cup deleted
    BY <2>1 DEF ListInv, Stands, GetStands, Gets
  <2>8. GetStands(q)
    BY <1>1, <2>2, <2>6, <2>7 DEF GetStands, ListTyped
  <2>. QED  BY <2>1, <2>5, <2>6, <2>8, ReaderGoesOn DEF Stands
<1>3. CASE CountChunks
  <2>1. PICK r \in Counts : r = reader /\ r # Idle
    BY <1>1, <1>3, PagesReader DEF CountChunks
  <2>2. PICK c \in Nat : c = AllChunks
    BY <1>1, ChunksAreCounted
  <2>3. PICK q : q = [r EXCEPT !.at = "end", !.chunks = c]
    OBVIOUS
  <2>4. ReadOn(q)
    BY <1>3, <2>1, <2>2, <2>3 DEF CountChunks
  <2>5. q \in Counts /\ q.kind = "stats" /\ q.docs = r.docs /\ q.chunks = c
    BY <2>3 DEF Counts
  <2>6. CountsStand(q)
    BY <2>1, <2>2, <2>5 DEF ListInv, Stands, CountsStand, Counts
  <2>. QED  BY <2>1, <2>4, <2>5, <2>6, ReaderGoesOn DEF Stands
<1>. QED  BY <1>2, <1>3

(* A read begins; nothing has changed since.                                 *)
LEMMA ReaderStarts ==
  ASSUME ListInv, NEW q \in Pages \cup Snapshots \cup Gets \cup Counts, StartRead(q),
         /\ q.kind = "pages" => /\ q.at = "rows" /\ q.cursor = NoCursor /\ q.listed = <<>>
                                /\ q.start = Here /\ q.counts = <<>>
         /\ q.kind = "snapshot" => /\ q.at = "page" /\ q.offset = 0 /\ q.listed = <<>>
                                   /\ ~q.more /\ q.start = Here
         /\ q.kind = "get" => q.at = "chunks" /\ q.doc \in Here
         /\ q.kind = "stats" => q.at = "chunks" /\ q.docs = Cardinality(Here)
  PROVE  ListInv'
<1>1. /\ reader' = q /\ day' = day /\ library' = library /\ added' = {} /\ deleted' = {}
      /\ crowded' = (Cardinality(Here) > ScanLimit)
  BY DEF StartRead
<1>2. Here' = Here
  BY <1>1 DEF Here
<1>3. ListTyped /\ LibraryTyped
  BY DEF ListInv, ListTyped
<1>4. PICK n \in Nat : n = Cardinality(Here)
  BY <1>3, HereIsFinite
<1>5. crowded' \in BOOLEAN /\ (~crowded' => n <= ScanLimit)
  <2>1. crowded' = (n > ScanLimit)
    BY <1>1, <1>4
  <2>2. (n > ScanLimit) \in BOOLEAN
    OBVIOUS
  <2>3. crowded' \in BOOLEAN
    BY <2>1, <2>2, Zenon
  <2>4. ~(n > ScanLimit) => n <= ScanLimit
    BY ListAssumption
  <2>5. ~crowded' => n <= ScanLimit
    BY <2>1, <2>4, Zenon
  <2>. QED  BY <2>3, <2>5
<1>6. ListTyped'
  BY <1>1, <1>2, <1>3, <1>5 DEF ListTyped, LibraryTyped
<1>7. Uncrowded'
  BY <1>2, <1>4, <1>5 DEF Uncrowded
<1>8. <<>> \in Seq(Docs) /\ Len(<<>>) = 0 /\ OnceEach(<<>>)
  BY EmptySeq DEF OnceEach
<1>9. q.kind = "pages" => PagesStand(q)'
  BY <1>1, <1>2, <1>8 DEF PagesStand
<1>10. q.kind = "snapshot" => SnapshotStands(q)'
  <2>1. LibraryTyped'
    BY <1>6 DEF ListTyped
  <2>2. ASSUME NEW d
        PROVE  Rank(d)' \in Nat
    <3>1. Rank(d) \in Nat
      BY <1>3, RanksArePlaces
    <3>2. {e \in Here : Before("created_desc", e, d)}' = {e \in Here : Before("created_desc", e, d)}
      BY <1>1, <1>2 DEF Before
    <3>. QED  BY <3>1, <3>2 DEF Rank
  <2>3. \A d : ~(Rank(d)' < 0)
    BY <2>2
  <2>. QED  BY <1>1, <1>2, <1>8, <2>3, ListAssumption DEF SnapshotStands
<1>11. q.kind = "get" => GetStands(q)'
  BY <1>1, <1>2 DEF GetStands
<1>12. q.kind = "stats" => CountsStand(q)'
  BY <1>1, <1>2 DEF CountsStand
<1>. QED  BY <1>1, <1>6, <1>7, <1>9, <1>10, <1>11, <1>12 DEF ListInv, Stands

(* Every kind of read begins so.                                             *)
LEMMA BeginningsKeep ==
  ASSUME ListInv, BeginPages \/ BeginSnapshot \/ BeginGet \/ BeginStats
  PROVE  ListInv' \/ UNCHANGED listVars
<1>1. ListTyped /\ LibraryTyped /\ Here \in SUBSET Docs
  BY DEF ListInv, ListTyped, LibraryTyped
<1>2. <<>> \in Seq(Docs) /\ <<>> \in Seq(Nat)
  BY EmptySeq
<1>3. CASE BeginPages
  <2>1. PICK order \in Orders, limit \in Limits \cup {0} :
           StartRead([kind |-> "pages", at |-> "rows", order |-> order, limit |-> limit,
                      cursor |-> NoCursor, listed |-> <<>>, start |-> Here,
                      page |-> <<>>, counts |-> <<>>])
    BY <1>3 DEF BeginPages
  <2>2. PICK q : q = [kind |-> "pages", at |-> "rows", order |-> order, limit |-> limit,
                      cursor |-> NoCursor, listed |-> <<>>, start |-> Here,
                      page |-> <<>>, counts |-> <<>>]
    OBVIOUS
  <2>3. limit \in Nat /\ NoCursor \in [at : Int, id : Int]
    BY ListAssumption DEF NoCursor
  <2>4. q \in Pages
    BY <1>1, <1>2, <2>2, <2>3 DEF Pages
  <2>5. /\ q.kind = "pages" /\ q.at = "rows" /\ q.cursor = NoCursor /\ q.listed = <<>>
        /\ q.start = Here /\ q.counts = <<>>
    BY <2>2
  <2>6. StartRead(q)
    BY <2>1, <2>2
  <2>. QED  BY <2>4, <2>5, <2>6, ReaderStarts
<1>4. CASE BeginSnapshot
  <2>1. PICK q : q = [kind |-> "snapshot", at |-> "page", offset |-> 0, listed |-> <<>>,
                      more |-> FALSE, start |-> Here]
    OBVIOUS
  <2>2. q \in Snapshots /\ StartRead(q)
    BY <1>1, <1>2, <1>4, <2>1 DEF Snapshots, BeginSnapshot
  <2>3. /\ q.kind = "snapshot" /\ q.at = "page" /\ q.offset = 0 /\ q.listed = <<>>
        /\ ~q.more /\ q.start = Here
    BY <2>1
  <2>. QED  BY <2>2, <2>3, ReaderStarts
<1>5. CASE BeginGet
  <2>1. CASE UNCHANGED listVars
    BY <2>1
  <2>2. CASE ~UNCHANGED listVars
    <3>1. PICK d \in Docs : d \in Here /\ StartRead([kind |-> "get", at |-> "chunks",
                                                     doc |-> d, chunks |-> 0])
      BY <1>5, <2>2, Zenon DEF BeginGet
    <3>2. PICK q : q = [kind |-> "get", at |-> "chunks", doc |-> d, chunks |-> 0]
      OBVIOUS
    <3>3. q \in Gets /\ StartRead(q)
      BY <3>1, <3>2 DEF Gets
    <3>4. q.kind = "get" /\ q.at = "chunks" /\ q.doc \in Here
      BY <3>1, <3>2
    <3>. QED  BY <3>3, <3>4, ReaderStarts
  <2>. QED  BY <2>1, <2>2
<1>6. CASE BeginStats
  <2>1. PICK n \in Nat : n = Cardinality(Here)
    BY <1>1, HereIsFinite
  <2>2. PICK q : q = [kind |-> "stats", at |-> "chunks", docs |-> n, chunks |-> 0]
    OBVIOUS
  <2>3. q \in Counts /\ StartRead(q)
    BY <1>6, <2>1, <2>2 DEF Counts, BeginStats
  <2>4. q.kind = "stats" /\ q.at = "chunks" /\ q.docs = Cardinality(Here)
    BY <2>1, <2>2
  <2>. QED  BY <2>3, <2>4, ReaderStarts
<1>. QED  BY <1>3, <1>4, <1>5, <1>6

(* A read ends.                                                              *)
LEMMA EndReadKeeps ==
  ASSUME ListInv, EndRead
  PROVE  ListInv'
<1>1. /\ reader' = Idle /\ added' = {} /\ deleted' = {} /\ crowded' = FALSE
      /\ day' = day /\ library' = library
  BY DEF EndRead
<1>2. Here' = Here
  BY <1>1 DEF Here
<1>. QED  BY <1>1, <1>2 DEF ListInv, ListTyped, LibraryTyped, Uncrowded, Stands, Idle

-----------------------------------------------------------------------------
(* The writers *)

\* The store changes behind a reader's back: what is added is new, and nothing
\* but what is deleted goes.
Moves ==
    /\ reader' = reader /\ (crowded => crowded')
    /\ deleted \subseteq deleted' /\ added \subseteq added'
    /\ Here \subseteq Here' \cup deleted' /\ Here' \subseteq Here \cup added'
    /\ \A d \in Here : d \in Here' => library'[d] = library[d]

(* It does not disturb a client that pages.                                  *)
LEMMA PagesStandStill ==
  ASSUME ListTyped, ListTyped', Moves, NEW r \in Pages, PagesStand(r)
  PROVE  PagesStand(r)'
<1>1. /\ Here \cap deleted = {} /\ Here' \cap deleted' = {}
      /\ deleted \subseteq deleted' /\ Here \subseteq Here' \cup deleted'
      /\ \A d \in Here : d \in Here' => library'[d] = library[d]
  BY DEF ListTyped, Moves
<1>2. Here \cup deleted \subseteq Here' \cup deleted'
  BY <1>1
<1>3. \A d \in Here \cup deleted : d \in Here' => d \in Here
  BY <1>1
<1>4. \A d \in Here : d \in Here' => (Reached(r, d)' <=> Reached(r, d))
  BY <1>1 DEF Reached
<1>5. r.start \ deleted' \subseteq r.start \ deleted /\ crowded \in BOOLEAN /\ (crowded => crowded')
  BY <1>1 DEF ListTyped, Moves
<1>6. \A d \in r.start \ deleted' : d \in Here /\ d \in Here'
  BY <1>1, <1>2 DEF PagesStand
<1>7. r.start \subseteq Here' \cup deleted'
  BY <1>2 DEF PagesStand
<1>8. \A i \in 1 .. Len(r.listed) : r.listed[i] \in Here' \cup deleted'
  BY <1>2 DEF PagesStand
<1>9. ASSUME r.cursor # NoCursor
      PROVE  /\ Listed(r, r.cursor.id)
             /\ r.cursor.id \in Here' => library'[r.cursor.id] = r.cursor.at
             /\ r.order \in Dated =>
                  /\ \A i \in 1 .. Len(r.listed) : r.listed[i] \in Here' => Reached(r, r.listed[i])'
                  /\ \A d \in r.start \ deleted' : Reached(r, d)' => Listed(r, d)
  <2>1. Listed(r, r.cursor.id)
    BY <1>9 DEF PagesStand
  <2>2. r.cursor.id \in Here' => library'[r.cursor.id] = r.cursor.at
    <3>1. r.cursor.id \in Here \cup deleted
      BY <2>1 DEF Listed, PagesStand
    <3>. QED  BY <1>1, <1>3, <1>9, <3>1 DEF PagesStand
  <2>3. ASSUME r.order \in Dated, NEW i \in 1 .. Len(r.listed), r.listed[i] \in Here'
        PROVE  Reached(r, r.listed[i])'
    <3>1. r.listed[i] \in Here
      BY <1>3, <2>3 DEF PagesStand
    <3>2. Reached(r, r.listed[i])
      BY <1>9, <2>3, <3>1 DEF PagesStand
    <3>. QED  BY <1>4, <2>3, <3>1, <3>2
  <2>4. ASSUME r.order \in Dated, NEW d \in r.start \ deleted', Reached(r, d)'
        PROVE  Listed(r, d)
    <3>1. Reached(r, d) /\ d \in r.start \ deleted
      BY <1>4, <1>5, <1>6, <2>4
    <3>. QED  BY <1>9, <2>4, <3>1 DEF PagesStand
  <2>. QED  BY <2>1, <2>2, <2>3, <2>4
<1>10. ~crowded' /\ (r.at = "end" \/ (r.at = "counts" /\ Len(r.page) < r.limit)) =>
          \A d \in r.start \ deleted' : Listed(r, d)
  BY <1>5 DEF PagesStand
<1>11. r.at = "refused" => \/ ~Accepted(r.order, r.limit, r.cursor)
                           \/ r.cursor.id \in deleted' \/ crowded'
  BY <1>1, <1>5 DEF PagesStand
<1>12. r.at = "counts" => \A i \in 1 .. Len(r.page) : r.page[i] \in Here' \cup deleted'
  BY <1>2 DEF PagesStand
<1>13. r.at \in {"rows", "end"} =>
          \A i \in 1 .. Len(r.counts) :
            i <= Len(r.page) /\ r.page[i] \notin deleted' => r.counts[i] = Size[r.page[i]]
  BY <1>1 DEF PagesStand
<1>14. OnceEach(r.listed) /\ (r.cursor = NoCursor => r.listed = <<>>)
  BY DEF PagesStand
<1>15. Listed(r, r.cursor.id)' = Listed(r, r.cursor.id)
  BY DEF Listed
<1>. QED  BY <1>7, <1>8, <1>9, <1>10, <1>11, <1>12, <1>13, <1>14, <1>15 DEF PagesStand, Listed

(* Nor a snapshot, as far as it goes.                                        *)
LEMMA SnapshotStandsStill ==
  ASSUME ListTyped, ListTyped', Moves, NEW r \in Snapshots, SnapshotStands(r)
  PROVE  SnapshotStands(r)'
<1>1. /\ Here \cap deleted = {} /\ Here' \cap deleted' = {}
      /\ deleted \subseteq deleted' /\ added \subseteq added'
      /\ Here \subseteq Here' \cup deleted' /\ Here' \subseteq Here \cup added'
      /\ \A d \in Here : d \in Here' => library'[d] = library[d]
  BY DEF ListTyped, Moves
<1>2. /\ r.start \subseteq Here' \cup deleted' /\ Here' \subseteq r.start \cup added'
      /\ \A i \in 1 .. Len(r.listed) : r.listed[i] \in r.start \cup added'
      /\ Len(r.listed) <= MaxDocs
  BY <1>1 DEF SnapshotStands
<1>3. IsFiniteSet(Here) /\ IsFiniteSet(Here')
  BY ListAssumption, FS_Subset DEF ListTyped, LibraryTyped
<1>4. \A d : Rank(d) \in Nat /\ Rank(d)' \in Nat
  <2>1. ASSUME NEW d
        PROVE  Rank(d)' \in Nat
    <3>1. {e \in Here' : Before("created_desc", e, d)'} \in SUBSET Here'
      OBVIOUS
    <3>2. IsFiniteSet({e \in Here' : Before("created_desc", e, d)'})
      BY <1>3, <3>1, FS_Subset
    <3>. QED  BY <3>2, FS_CardinalityType DEF Rank
  <2>. QED  BY <2>1, RanksArePlaces DEF ListTyped
<1>5. ASSUME NEW d \in Here, NEW e \in Here, d \in Here', e \in Here'
      PROVE  Before("created_desc", e, d)' <=> Before("created_desc", e, d)
  BY <1>1, <1>5 DEF Before
<1>6. ASSUME added' = {}, NEW d \in Here'
      PROVE  d \in Here /\ Rank(d)' <= Rank(d)
  <2>1. Here' \subseteq Here
    BY <1>1, <1>6
  <2>2. PICK S : S = {e \in Here : Before("created_desc", e, d)}
    OBVIOUS
  <2>3. PICK T : T = {e \in Here' : Before("created_desc", e, d)'}
    OBVIOUS
  <2>4. T \in SUBSET S /\ S \in SUBSET Here
    BY <1>5, <2>1, <2>2, <2>3
  <2>5. Cardinality(T) <= Cardinality(S)
    BY <1>3, <2>4, FS_Subset
  <2>. QED  BY <2>1, <2>2, <2>3, <2>5 DEF Rank
<1>7. ASSUME deleted' = {}, NEW d \in r.start
      PROVE  Rank(d) <= Rank(d)'
  <2>1. Here \subseteq Here' /\ d \in Here
    BY <1>1, <1>7 DEF SnapshotStands
  <2>2. PICK S : S = {e \in Here : Before("created_desc", e, d)}
    OBVIOUS
  <2>3. PICK T : T = {e \in Here' : Before("created_desc", e, d)'}
    OBVIOUS
  <2>4. S \in SUBSET T /\ T \in SUBSET Here'
    BY <1>5, <2>1, <2>2, <2>3
  <2>5. Cardinality(S) <= Cardinality(T)
    BY <1>3, <2>4, FS_Subset
  <2>. QED  BY <2>2, <2>3, <2>5 DEF Rank
<1>8. /\ added' = {} => added = {}
      /\ deleted' = {} => deleted = {}
  BY <1>1
<1>9. added' = {} => OnceEach(r.listed)
  BY <1>8 DEF SnapshotStands
<1>10. ASSUME r.at = "page"
       PROVE  /\ r.offset = Len(r.listed) /\ ~r.more
              /\ added' = {} =>
                   \A i \in 1 .. Len(r.listed) : r.listed[i] \in Here' => Rank(r.listed[i])' < r.offset
              /\ deleted' = {} => \A d \in r.start : Rank(d)' < r.offset => Listed(r, d)
  <2>1. r.offset = Len(r.listed) /\ ~r.more /\ r.offset \in Int
    BY <1>10 DEF SnapshotStands, Snapshots
  <2>2. ASSUME added' = {}, NEW i \in 1 .. Len(r.listed), r.listed[i] \in Here'
        PROVE  Rank(r.listed[i])' < r.offset
    <3>1. PICK d : d = r.listed[i]
      OBVIOUS
    <3>2. d \in Here' /\ d \in Here /\ Rank(d)' <= Rank(d)
      BY <1>6, <2>2, <3>1
    <3>3. Rank(d) < r.offset
      BY <1>8, <1>10, <2>2, <3>1, <3>2 DEF SnapshotStands
    <3>4. Rank(d)' < r.offset
      BY <1>4, <2>1, <3>2, <3>3
    <3>. QED  BY <3>1, <3>4
  <2>3. ASSUME deleted' = {}, NEW d \in r.start, Rank(d)' < r.offset
        PROVE  Listed(r, d)
    <3>1. Rank(d) < r.offset
      BY <1>4, <1>7, <2>1, <2>3
    <3>. QED  BY <1>8, <1>10, <2>3, <3>1 DEF SnapshotStands
  <2>. QED  BY <2>1, <2>2, <2>3
<1>11. r.at = "end" /\ deleted' = {} /\ ~r.more => \A d \in r.start : Listed(r, d)
  BY <1>8 DEF SnapshotStands
<1>12. r.more /\ added' = {} => Cardinality(r.start) > MaxDocs
  BY <1>8 DEF SnapshotStands
<1>. QED  BY <1>2, <1>9, <1>10, <1>11, <1>12 DEF SnapshotStands, Listed

(* So every reader stands.                                                   *)
LEMMA MovesKeep ==
  ASSUME ListInv, ListTyped', Uncrowded', Moves
  PROVE  ListInv'
<1>1. ListTyped /\ reader' = reader
  BY DEF ListInv, Moves
<1>2. reader.kind = "pages" => PagesStand(reader)'
  <2>1. SUFFICES ASSUME reader.kind = "pages" PROVE PagesStand(reader)'
    OBVIOUS
  <2>2. PICK r \in Pages : r = reader
    BY <1>1, <2>1, PagesReader
  <2>3. PagesStand(r)
    BY <2>1, <2>2 DEF ListInv, Stands
  <2>4. PagesStand(r)'
    BY <1>1, <2>3, PagesStandStill
  <2>. QED  BY <1>1, <2>2, <2>4
<1>3. reader.kind = "snapshot" => SnapshotStands(reader)'
  <2>1. SUFFICES ASSUME reader.kind = "snapshot" PROVE SnapshotStands(reader)'
    OBVIOUS
  <2>2. PICK r \in Snapshots : r = reader
    BY <1>1, <2>1, PagesReader
  <2>3. SnapshotStands(r)
    BY <2>1, <2>2 DEF ListInv, Stands
  <2>4. SnapshotStands(r)'
    BY <1>1, <2>3, SnapshotStandsStill
  <2>. QED  BY <1>1, <2>2, <2>4
<1>4. reader.kind = "get" => GetStands(reader)'
  BY <1>1 DEF ListInv, ListTyped, Stands, GetStands, Moves
<1>5. reader.kind = "stats" => CountsStand(reader)'
  <2>1. SUFFICES ASSUME reader.kind = "stats", added' = {}, deleted' = {}
                 PROVE  /\ reader.docs = Cardinality(Here')
                        /\ reader.at = "end" => reader.chunks = AllChunks'
    BY <1>1 DEF CountsStand
  <2>2. added = {} /\ deleted = {} /\ Here' = Here
    BY <2>1 DEF Moves
  <2>. QED  BY <2>1, <2>2 DEF ListInv, Stands, CountsStand, AllChunks
<1>. QED  BY <1>1, <1>2, <1>3, <1>4, <1>5 DEF ListInv, Stands
(* A writer's step: a document arrives or goes, or a day passes.             *)
LEMMA WritersKeep ==
  ASSUME ListInv, Sunrise \/ \E d \in Docs : Store(d) \/ Discard(d)
  PROVE  ListInv'
<1>1. /\ ListTyped /\ LibraryTyped /\ Here \in SUBSET Docs /\ library \in [Here -> 0 .. MaxDay]
      /\ day \in 0 .. MaxDay /\ added \in SUBSET Docs /\ deleted \in SUBSET Docs
      /\ Here \cap deleted = {} /\ crowded \in BOOLEAN
      /\ reader \in {Idle} \cup Pages \cup Snapshots \cup Gets \cup Counts
  BY DEF ListInv, ListTyped, LibraryTyped
<1>2. IsFiniteSet(Here)
  BY <1>1, HereIsFinite
<1>3. PICK n \in Nat : n = Cardinality(Here)
  BY <1>1, HereIsFinite
<1>4. Uncrowded /\ ScanLimit \in Nat
  BY ListAssumption DEF ListInv
<1>5. CASE Sunrise
  <2>1. Here' = Here /\ UNCHANGED <<library, reader, added, deleted, crowded>>
    BY <1>5 DEF Sunrise, Here
  <2>2. day' \in 0 .. MaxDay
    BY <1>1, <1>5, ListAssumption DEF Sunrise
  <2>3. ListTyped'
    BY <1>1, <2>1, <2>2 DEF ListTyped, LibraryTyped
  <2>4. Uncrowded' /\ Moves
    BY <1>4, <2>1 DEF Uncrowded, Moves
  <2>. QED  BY <2>3, <2>4, MovesKeep
<1>6. ASSUME NEW d \in Docs, Store(d)
      PROVE  ListInv'
  <2>1. /\ d \notin Here /\ d \notin deleted
        /\ library' = [x \in Here \cup {d} |-> IF x = d THEN day ELSE library[x]]
        /\ added' = added \cup {d} /\ UNCHANGED <<day, reader, deleted>>
    BY <1>6 DEF Store
  <2>2. Here' = Here \cup {d}
    BY <2>1 DEF Here
  <2>3. PICK full \in BOOLEAN : full <=> n >= ScanLimit
    <3>1. (n >= ScanLimit) \in BOOLEAN
      OBVIOUS
    <3>. QED  BY <3>1, Zenon
  <2>4. crowded' \in BOOLEAN /\ (crowded' <=> crowded \/ full)
    <3>1. crowded' = (crowded \/ n >= ScanLimit)
      BY <1>3, <1>6 DEF Store
    <3>. QED  BY <1>1, <2>3, <3>1, Zenon
  <2>5. library' \in [Here' -> 0 .. MaxDay]
    BY <1>1, <2>1, <2>2
  <2>6. ListTyped'
    BY <1>1, <2>1, <2>2, <2>4, <2>5 DEF ListTyped, LibraryTyped
  <2>7. Cardinality(Here') = n + 1
    BY <1>2, <1>3, <2>1, <2>2, FS_AddElement
  <2>8. Uncrowded'
    <3>1. ASSUME ~crowded'
          PROVE  n + 1 <= ScanLimit
      BY <1>4, <2>3, <2>4, <3>1
    <3>. QED  BY <2>7, <3>1 DEF Uncrowded
  <2>9. \A x \in Here : library'[x] = library[x]
    BY <2>1
  <2>10. Moves
    BY <2>1, <2>2, <2>4, <2>9 DEF Moves
  <2>. QED  BY <2>6, <2>8, <2>10, MovesKeep
<1>7. ASSUME NEW d \in Docs, Discard(d)
      PROVE  ListInv'
  <2>1. /\ d \in Here /\ library' = [x \in Here \ {d} |-> library[x]]
        /\ deleted' = deleted \cup {d} /\ UNCHANGED <<day, reader, added, crowded>>
    BY <1>7 DEF Discard
  <2>2. Here' = Here \ {d}
    BY <2>1 DEF Here
  <2>3. library' \in [Here' -> 0 .. MaxDay]
    BY <1>1, <2>1, <2>2
  <2>4. ListTyped'
    BY <1>1, <2>1, <2>2, <2>3 DEF ListTyped, LibraryTyped
  <2>5. Cardinality(Here') <= n /\ Cardinality(Here') \in Nat
    <3>1. Here' \in SUBSET Here
      BY <2>2
    <3>2. IsFiniteSet(Here') /\ Cardinality(Here') <= Cardinality(Here)
      BY <1>2, <3>1, FS_Subset
    <3>. QED  BY <1>3, <3>2, FS_CardinalityType
  <2>6. Uncrowded'
    <3>1. reader # Idle /\ ~crowded => n <= ScanLimit
      BY <1>3, <1>4 DEF Uncrowded
    <3>. QED  BY <1>4, <2>1, <2>5, <3>1 DEF Uncrowded
  <2>7. \A x \in Here : x \in Here' => library'[x] = library[x]
    BY <2>1, <2>2
  <2>8. Moves
    BY <2>1, <2>2, <2>7 DEF Moves
  <2>. QED  BY <2>4, <2>6, <2>8, MovesKeep
<1>. QED  BY <1>5, <1>6, <1>7

-----------------------------------------------------------------------------
(* The theorems *)

(* A store with documents of the first day, and nobody reading.              *)
LEMMA ListBegins == ListInit => ListInv
<1>. SUFFICES ASSUME ListInit PROVE ListInv
  OBVIOUS
<1>1. /\ day = 0 /\ reader = Idle /\ added = {} /\ deleted = {} /\ crowded = FALSE
  BY DEF ListInit
<1>2. PICK docs \in SUBSET Docs : library = [d \in docs |-> 0]
  BY DEF ListInit
<1>3. Here = docs /\ 0 \in 0 .. MaxDay
  BY <1>2, ListAssumption DEF Here
<1>4. LibraryTyped
  BY <1>2, <1>3 DEF LibraryTyped
<1>5. crowded \in BOOLEAN
  BY <1>1
<1>6. ListTyped
  BY <1>1, <1>3, <1>4, <1>5 DEF ListTyped
<1>7. Uncrowded /\ Stands(reader)
  BY <1>1 DEF Uncrowded, Stands, Idle
<1>. QED  BY <1>6, <1>7 DEF ListInv

(* No query and no writer disturbs the invariant.                            *)
LEMMA ListGoesOn == ListInv /\ [ListNext]_listVars => ListInv'
<1>. SUFFICES ASSUME ListInv, [ListNext]_listVars PROVE ListInv'
  OBVIOUS
<1>1. CASE UNCHANGED listVars
  <2>1. UNCHANGED <<day, library, reader, added, deleted, crowded>>
    BY <1>1 DEF listVars
  <2>2. Here' = Here /\ ListTyped'
    BY <2>1 DEF ListInv, ListTyped, LibraryTyped, Here
  <2>3. Uncrowded' /\ Moves
    BY <2>1, <2>2 DEF ListInv, Uncrowded, Moves
  <2>. QED  BY <2>2, <2>3, MovesKeep
<1>2. CASE Sunrise \/ \E d \in Docs : Store(d) \/ Discard(d)
  BY <1>2, WritersKeep
<1>3. CASE ReadRows
  BY <1>3, RowsKeep
<1>4. CASE ReadCounts
  BY <1>4, CountsKeep
<1>5. CASE ReadPage
  BY <1>5, SnapshotKeeps
<1>6. CASE ReadChunkRows \/ CountChunks
  BY <1>6, PartsKeep
<1>7. CASE EndRead
  BY <1>7, EndReadKeeps
<1>8. CASE BeginPages \/ BeginSnapshot \/ BeginGet \/ BeginStats
  BY <1>1, <1>8, BeginningsKeep
<1>9. ListNext \/ UNCHANGED listVars
  OBVIOUS
<1>10. \/ UNCHANGED listVars
       \/ Sunrise \/ \E d \in Docs : Store(d) \/ Discard(d)
       \/ ReadRows \/ ReadCounts \/ ReadPage \/ ReadChunkRows \/ CountChunks \/ EndRead
       \/ BeginPages \/ BeginSnapshot \/ BeginGet \/ BeginStats
  BY <1>9, Zenon DEF ListNext
<1>. QED  BY <1>1, <1>2, <1>3, <1>4, <1>5, <1>6, <1>7, <1>8, <1>10

(* What was listed is the set of the documents listed.                       *)
LEMMA ListedAre ==
  ASSUME NEW r, r.listed \in Seq(Docs)
  PROVE  /\ \A d : Listed(r, d) => d \in ToSet(r.listed)
         /\ OnceEach(r.listed) => IsInjective(r.listed)
<1>1. PICK s \in Seq(Docs) : s = r.listed
  OBVIOUS
<1>2. DOMAIN s = 1 .. Len(s)
  OBVIOUS
<1>3. OnceEach(s) => IsInjective(s)
  BY <1>2 DEF OnceEach, IsInjective
<1>4. \A d : (\E i \in 1 .. Len(s) : s[i] = d) => d \in ToSet(s)
  BY <1>2 DEF ToSet
<1>. QED  BY <1>1, <1>3, <1>4 DEF Listed

(* What a client that pages was given is what the listing promises.          *)
LEMMA PagesFollow == ListInv => PagesAreExact
<1>. SUFFICES ASSUME ListInv, reader.kind = "pages"
              PROVE  /\ IsInjective(reader.listed)
                     /\ reader.at = "end" /\ ~crowded => Lasting \subseteq ToSet(reader.listed)
                     /\ reader.at = "refused" =>
                          \/ ~Accepted(reader.order, reader.limit, reader.cursor)
                          \/ reader.cursor.id \in deleted \/ crowded
  BY DEF PagesAreExact
<1>1. PICK r \in Pages : r = reader
  BY PagesReader DEF ListInv
<1>2. r.listed \in Seq(Docs) /\ PagesStand(r)
  BY <1>1 DEF ListInv, Stands, Pages
<1>3. IsInjective(r.listed)
  BY <1>2, ListedAre DEF PagesStand
<1>4. ASSUME r.at = "end", ~crowded
      PROVE  r.start \ deleted \subseteq ToSet(r.listed)
  BY <1>2, <1>4, ListedAre DEF PagesStand
<1>5. r.at = "refused" => \/ ~Accepted(r.order, r.limit, r.cursor)
                          \/ r.cursor.id \in deleted \/ crowded
  BY <1>2 DEF PagesStand
<1>. QED  BY <1>1, <1>3, <1>4, <1>5 DEF Lasting

(* And the other reads are of one store, as far as it did not change.        *)
LEMMA ReadsFollow == ListInv => ReadsAgree
<1>. SUFFICES ASSUME ListInv PROVE ReadsAgree
  OBVIOUS
<1>1. ASSUME reader.kind = "snapshot"
      PROVE  /\ Len(reader.listed) <= MaxDocs
             /\ added = {} => IsInjective(reader.listed)
             /\ reader.at = "end" /\ deleted = {} /\ ~reader.more =>
                  Lasting \subseteq ToSet(reader.listed)
             /\ reader.more /\ added = {} => Cardinality(reader.start) > MaxDocs
  <2>1. PICK r \in Snapshots : r = reader
    BY <1>1, PagesReader DEF ListInv
  <2>2. r.listed \in Seq(Docs) /\ SnapshotStands(r)
    BY <1>1, <2>1 DEF ListInv, Stands, Snapshots
  <2>3. added = {} => IsInjective(r.listed)
    BY <2>2, ListedAre DEF SnapshotStands
  <2>4. ASSUME r.at = "end", deleted = {}, ~r.more
        PROVE  r.start \ deleted \subseteq ToSet(r.listed)
    BY <2>2, <2>4, ListedAre DEF SnapshotStands
  <2>5. Len(r.listed) <= MaxDocs /\ (r.more /\ added = {} => Cardinality(r.start) > MaxDocs)
    BY <2>2 DEF SnapshotStands
  <2>. QED  BY <2>1, <2>3, <2>4, <2>5 DEF Lasting
<1>2. ASSUME reader.kind = "pages", reader.at \in {"rows", "end"},
             NEW i \in 1 .. Len(reader.counts), i <= Len(reader.page),
             reader.page[i] \notin deleted
      PROVE  reader.counts[i] = Size[reader.page[i]]
  BY <1>2 DEF ListInv, Stands, PagesStand
<1>3. reader.kind = "get" /\ reader.at = "end" /\ reader.doc \notin deleted =>
         reader.chunks = Size[reader.doc]
  BY DEF ListInv, Stands, GetStands
<1>4. reader.kind = "stats" /\ reader.at = "end" /\ added = {} /\ deleted = {} =>
         reader.docs = Cardinality(Here) /\ reader.chunks = AllChunks
  BY DEF ListInv, Stands, CountsStand
<1>. QED  BY <1>1, <1>2, <1>3, <1>4 DEF ReadsAgree

(* What was read stands in every state, whatever was written meanwhile.      *)
THEOREM ListInvariant == ListSpec => []ListInv
<1>. QED  BY ListBegins, ListGoesOn, PTL DEF ListSpec

(* documents.rs: a client that pages by cursor to the end is given every     *)
(* document that was there all along, and none twice.                        *)
THEOREM ListPages == ListSpec => []PagesAreExact
<1>. QED  BY ListInvariant, PagesFollow, PTL

(* lib.rs and crud.rs: a snapshot repeats or misses a document only when     *)
(* others came or went, and the parts of an answer agree unless the          *)
(* documents they are about changed in between.                              *)
THEOREM ListReads == ListSpec => []ReadsAgree
<1>. QED  BY ListInvariant, ReadsFollow, PTL

-----------------------------------------------------------------------------
(***************************************************************************)
(* Retrieval                                                               *)
(*                                                                         *)
(* Each leg has the best of its order, the fusion keeps each chunk once with *)
(* the score of its ranks, and what comes after neither reorders nor forgets. *)
(***************************************************************************)

-----------------------------------------------------------------------------
(* The search under way *)

Chunk == [doc : Documents, idx : Nat, version : Nat]

Hits == [chunk : Chunk, score : Int, lit : BOOLEAN, via : SUBSET Chunk]

Searches ==
    [at : {"vector", "keyword", "filter", "expand", "done"},
     mode : {"vector", "keyword", "hybrid"}, topK : 1 .. MaxTopK, filter : BOOLEAN,
     expand : BOOLEAN, vector : Seq(Chunk), keyword : Seq(Chunk), hits : Seq(Hits),
     still : BOOLEAN]

SearchTyped ==
    /\ shelf \in [Documents -> Nat] /\ changes \in Nat
    /\ search \in {Absent} \cup Searches

\* A leg ranks chunks, none twice.
Leg(l) == l \in Seq(Chunk) /\ OnceEach(l) /\ Len(l) <= 3 * MaxTopK

\* No chunk comes twice, and the scores do not rise.
Falling(hits) ==
    /\ \A i, j \in 1 .. Len(hits) : i # j => hits[i].chunk # hits[j].chunk
    /\ \A i, j \in 1 .. Len(hits) : i < j => hits[j].score <= hits[i].score

\* One that was added comes after a hit that it was added for, unless that hit
\* has no score to share.
AddedBehind(hits, mode) ==
    \A i \in 1 .. Len(hits) : mode = "hybrid" \/ hits[i].score > 0 =>
        \A c \in hits[i].via : \E j \in 1 .. Len(hits) : j < i /\ hits[j].chunk = c

\* The chunks of the hits are there.
Fresh(hits) == \A i \in 1 .. Len(hits) : hits[i].chunk \in ChunksOf(shelf)

\* A chunk that is better placed, whether or not it was found by both legs.
Beats(vector, keyword, c, e) ==
    /\ c # e /\ NoWorse(vector, c, e) /\ NoWorse(keyword, c, e)
    /\ ~(NoWorse(vector, e, c) /\ NoWorse(keyword, e, c))

\* A hit that was found has no lower score than one it beats, and in a hybrid
\* search the score of its ranks.
Scored(hits, vector, keyword, mode) ==
    /\ \A i, j \in 1 .. Len(hits) :
          hits[i].via = {} /\ hits[j].via = {} =>
          (Beats(vector, keyword, hits[i].chunk, hits[j].chunk) => hits[j].score <= hits[i].score)
    /\ mode = "hybrid" => \A i \in 1 .. Len(hits) : hits[i].via = {} =>
          hits[i].score = Rrf(vector, keyword, hits[i].chunk) /\ hits[i].score > 0

\* The hits that were found are in the order of the legs.
InTurn(hits, vector, keyword) ==
    \A i, j \in 1 .. Len(hits) :
        hits[i].via = {} /\ hits[j].via = {} =>
        (Beats(vector, keyword, hits[i].chunk, hits[j].chunk) => i < j)

\* What a hybrid answer is before it is filtered.
Best(hits, vector, keyword, topK) ==
    LET found == ToSet(vector) \cup ToSet(keyword)
    IN  /\ Len(hits) = Smaller(topK, Cardinality(found))
        /\ \A c \in found : \A j \in 1 .. Len(hits) : Beats(vector, keyword, c, hits[j].chunk) =>
             \E i \in 1 .. Len(hits) : hits[i].chunk = c
        /\ \A i \in 1 .. Len(hits) : hits[i].lit <=> hits[i].chunk \in ToSet(keyword)

SearchStands(s) ==
    /\ Leg(s.vector) /\ Leg(s.keyword)
    /\ s.at = "vector" => s.keyword = <<>>
    /\ s.at = "keyword" /\ s.mode # "hybrid" => s.vector = <<>>
    /\ s.still => /\ \A i \in 1 .. Len(s.vector) : s.vector[i] \in ChunksOf(shelf)
                  /\ \A i \in 1 .. Len(s.keyword) : s.keyword[i] \in ChunksOf(shelf)
                  /\ Fresh(s.hits)
    /\ s.at \in {"vector", "keyword"} => s.hits = <<>>
    /\ Len(s.hits) <= s.topK /\ Falling(s.hits)
    /\ Scored(s.hits, s.vector, s.keyword, s.mode) /\ AddedBehind(s.hits, s.mode)
    /\ s.at # "done" \/ ~s.expand => InTurn(s.hits, s.vector, s.keyword)
    /\ s.at # "done" => \A i \in 1 .. Len(s.hits) : s.hits[i].via = {}
    /\ s.at = "filter" /\ s.mode = "hybrid" => Best(s.hits, s.vector, s.keyword, s.topK)

SearchInv == SearchTyped /\ (search # Absent => SearchStands(search))

-----------------------------------------------------------------------------
(* Scores *)

(* A quotient, by what it leaves.                                            *)
LEMMA Quotient ==
  ASSUME NEW a \in Nat, NEW m \in Nat \ {0}
  PROVE  a \div m \in Nat /\ a % m \in 0 .. m - 1 /\ a = m * (a \div m) + (a % m)
  OBVIOUS

\* x is what a number gives when it is divided by m; the rest is in between.
Floors(x, a, m) == m * x <= a /\ a < m * x + m

(* Exact quotients of one number fall with the divisor, and so do those of a *)
(* number that is twenty times as large and a rest.                          *)
LEMMA QuotientsFall ==
  ASSUME NEW u \in Nat, NEW a \in Nat, NEW m \in Nat \ {0}, NEW n \in Nat \ {0},
         NEW p \in Nat, NEW q \in Nat, NEW x \in Nat, NEW y \in Nat,
         m < n, u > 0, u = m * p, u = n * q, Floors(u, a, 20), Floors(x, a, m), Floors(y, a, n)
  PROVE  y < x
<1>0. /\ 20 * u <= a /\ a < 20 * u + 20 /\ m * x <= a /\ a < m * x + m
      /\ n * y <= a /\ a < n * y + n
  BY DEF Floors
<1>1. q > 0
  <2>1. SUFFICES ASSUME q = 0 PROVE FALSE
    OBVIOUS
  <2>. QED  BY <2>1
<1>2. q < p
  <2>1. SUFFICES ASSUME p <= q PROVE FALSE
    OBVIOUS
  <2>2. m * p <= m * q
    BY <2>1
  <2>3. m * q < n * q
    BY <1>1
  <2>. QED  BY <2>2, <2>3
<1>3. 20 * p <= x
  <2>1. SUFFICES ASSUME x + 1 <= 20 * p PROVE FALSE
    OBVIOUS
  <2>2. m * (x + 1) <= m * (20 * p)
    BY <2>1
  <2>3. m * (20 * p) = 20 * (m * p) /\ m * (x + 1) = m * x + m
    OBVIOUS
  <2>. QED  BY <1>0, <2>2, <2>3
<1>4. y < 20 * q + 20
  <2>1. SUFFICES ASSUME 20 * q + 20 <= y PROVE FALSE
    OBVIOUS
  <2>2. n * (20 * q + 20) <= n * y
    BY <2>1
  <2>3. n * (20 * q + 20) = 20 * (n * q) + 20 * n
    OBVIOUS
  <2>. QED  BY <1>0, <2>2, <2>3
<1>. QED  BY <1>2, <1>3, <1>4

\* What the rank r is worth.
Worth(r) == Unit \div (RrfK + r)

(* A rank is worth something, and more than the ranks behind it.             *)
LEMMA WorthFalls ==
  /\ \A r \in 1 .. 3 * MaxTopK : Worth(r) \in Nat /\ Worth(r) > 0
  /\ \A r, t \in 1 .. 3 * MaxTopK : r < t => Worth(t) < Worth(r)
<1>1. PICK k \in Nat \ {0}, top \in Nat, a \in Nat :
         k = RrfK /\ top = MaxTopK /\ a = Unit /\ a >= 20
  BY SearchAssumption, ScoresAreWhole
<1>2. PICK u \in Nat : u = a \div 20 /\ u > 0 /\ Floors(u, a, 20)
  BY <1>1 DEF Floors
<1>3. ASSUME NEW r \in 1 .. 3 * top
      PROVE  \E m \in Nat \ {0}, p \in Nat, x \in Nat :
                /\ m = k + r /\ u = m * p /\ x = Worth(r)
                /\ Floors(x, a, m)
  <2>1. PICK m \in Nat \ {0} : m = k + r
    OBVIOUS
  <2>2. u % m = 0
    BY <1>1, <1>2, <2>1, ScoresAreWhole
  <2>3. PICK p \in Nat : p = u \div m /\ u = m * p
    BY <2>2, Quotient
  <2>4. PICK x \in Nat : x = a \div m /\ Floors(x, a, m)
    <3>1. PICK x \in Nat, z \in 0 .. m - 1 : x = a \div m /\ z = a % m /\ a = m * x + z
      BY Quotient
    <3>2. m * x \in Nat /\ z \in Nat /\ z < m
      OBVIOUS
    <3>3. Floors(x, a, m)
      BY <3>1, <3>2 DEF Floors
    <3>. QED  BY <3>1, <3>3
  <2>5. x = Worth(r)
    BY <1>1, <2>1, <2>4 DEF Worth
  <2>. QED  BY <2>1, <2>3, <2>4, <2>5
<1>4. ASSUME NEW r \in 1 .. 3 * top, NEW t \in 1 .. 3 * top, r < t
      PROVE  Worth(t) < Worth(r)
  <2>1. PICK m \in Nat \ {0}, p \in Nat, x \in Nat :
           /\ m = k + r /\ u = m * p /\ x = Worth(r)
           /\ Floors(x, a, m)
    BY <1>3
  <2>2. PICK n \in Nat \ {0}, q \in Nat, y \in Nat :
           /\ n = k + t /\ u = n * q /\ y = Worth(t)
           /\ Floors(y, a, n)
    BY <1>3
  <2>3. m < n
    BY <1>4, <2>1, <2>2
  <2>4. y < x
    BY <1>2, <2>1, <2>2, <2>3, QuotientsFall
  <2>. QED  BY <2>1, <2>2, <2>4
<1>5. ASSUME NEW r \in 1 .. 3 * top
      PROVE  Worth(r) \in Nat /\ Worth(r) > 0
  <2>1. PICK m \in Nat \ {0}, p \in Nat, x \in Nat :
           /\ m = k + r /\ u = m * p /\ x = Worth(r)
           /\ Floors(x, a, m)
    BY <1>3
  <2>2. x # 0
    <3>1. SUFFICES ASSUME x = 0 PROVE FALSE
      OBVIOUS
    <3>2. a < m
      BY <2>1, <3>1 DEF Floors
    <3>3. p # 0
      BY <1>2, <2>1
    <3>4. m <= m * p
      BY <3>3
    <3>5. 20 * u <= a
      BY <1>2 DEF Floors
    <3>. QED  BY <1>2, <2>1, <3>2, <3>4, <3>5
  <2>. QED  BY <2>1, <2>2
<1>. QED  BY <1>1, <1>4, <1>5

(* A leg adds to the score what the rank is worth.                           *)
LEMMA LegsAdd ==
  ASSUME NEW l, Leg(l)
  PROVE  /\ \A i \in 1 .. Len(l) : RankIn(l, l[i]) = i /\ Share(l, l[i]) = Worth(i)
         /\ \A c : Share(l, c) \in Nat
         /\ \A c \in ToSet(l) : /\ Share(l, c) > 0 /\ RankIn(l, c) \in 1 .. Len(l)
                                /\ l[RankIn(l, c)] = c
         /\ \A c : c \notin ToSet(l) => Share(l, c) = 0
<1>1. PICK n \in Nat, top \in Nat : n = Len(l) /\ top = MaxTopK /\ n <= 3 * top
  BY SearchAssumption DEF Leg
<1>2. /\ \A i \in 1 .. n : l[i] \in ToSet(l)
      /\ \A x \in ToSet(l) : \E i \in 1 .. n : l[i] = x
  BY <1>1, Elements DEF Leg
<1>3. ASSUME NEW i \in 1 .. n
      PROVE  RankIn(l, l[i]) = i /\ Share(l, l[i]) = Worth(i)
  <2>1. RankIn(l, l[i]) = i
    <3>1. \A j \in 1 .. n : l[j] = l[i] => j = i
      BY <1>1 DEF Leg, OnceEach
    <3>. QED  BY <1>1, <3>1 DEF RankIn
  <2>. QED  BY <1>2, <2>1 DEF Share, Worth
<1>4. \A i \in 1 .. n : Worth(i) \in Nat /\ Worth(i) > 0
  <2>1. \A i \in 1 .. n : i \in 1 .. 3 * MaxTopK
    BY <1>1
  <2>. QED  BY <2>1, WorthFalls
<1>5. \A c : c \notin ToSet(l) => Share(l, c) = 0
  BY DEF Share
<1>6. ASSUME NEW c \in ToSet(l)
      PROVE  /\ Share(l, c) \in Nat /\ Share(l, c) > 0 /\ RankIn(l, c) \in 1 .. n
             /\ l[RankIn(l, c)] = c
  <2>1. PICK i \in 1 .. n : l[i] = c
    BY <1>2
  <2>. QED  BY <1>3, <1>4, <2>1
<1>7. \A c : Share(l, c) \in Nat
  BY <1>5, <1>6
<1>. QED  BY <1>1, <1>3, <1>5, <1>6, <1>7

(* So a leg gives the chunk that it places no worse no less, and one that it *)
(* places better more.                                                       *)
LEMMA BetterPlaced ==
  ASSUME NEW l, Leg(l), NEW c, NEW e, NoWorse(l, c, e)
  PROVE  /\ Share(l, e) <= Share(l, c)
         /\ ~NoWorse(l, e, c) => Share(l, e) < Share(l, c)
<1>1. PICK n \in Nat, top \in Nat : n = Len(l) /\ top = MaxTopK /\ n <= 3 * top
  BY SearchAssumption DEF Leg
<1>2. Share(l, c) \in Nat /\ Share(l, e) \in Nat
  BY LegsAdd
<1>3. CASE e \notin ToSet(l)
  <2>1. Share(l, e) = 0
    BY <1>3, LegsAdd
  <2>2. ~NoWorse(l, e, c) => c \in ToSet(l)
    BY DEF NoWorse
  <2>3. c \in ToSet(l) => Share(l, c) > 0
    BY LegsAdd
  <2>. QED  BY <1>2, <2>1, <2>2, <2>3
<1>4. CASE e \in ToSet(l)
  <2>1. c \in ToSet(l) /\ RankIn(l, c) <= RankIn(l, e)
    BY <1>4 DEF NoWorse
  <2>2. PICK i \in 1 .. n, j \in 1 .. n :
           /\ i = RankIn(l, c) /\ l[i] = c /\ j = RankIn(l, e) /\ l[j] = e /\ i <= j
    BY <1>1, <1>4, <2>1, LegsAdd
  <2>3. Share(l, c) = Worth(i) /\ Share(l, e) = Worth(j)
    BY <1>1, <2>2, LegsAdd
  <2>4. i < j => Worth(j) < Worth(i)
    <3>1. i \in 1 .. 3 * MaxTopK /\ j \in 1 .. 3 * MaxTopK
      BY <1>1
    <3>. QED  BY <3>1, WorthFalls
  <2>5. ~NoWorse(l, e, c) => i < j
    BY <1>4, <2>2 DEF NoWorse
  <2>. QED  BY <1>2, <2>2, <2>3, <2>4, <2>5
<1>. QED  BY <1>3, <1>4

(* A chunk that beats another has the higher score.                          *)
LEMMA BeatingScores ==
  ASSUME NEW v, NEW k, Leg(v), Leg(k), NEW c, NEW e
  PROVE  /\ Rrf(v, k, c) \in Nat
         /\ Beats(v, k, c, e) => Rrf(v, k, e) < Rrf(v, k, c)
         /\ c \in ToSet(v) \cup ToSet(k) => Rrf(v, k, c) > 0
<1>1. /\ Share(v, c) \in Nat /\ Share(v, e) \in Nat /\ Share(k, c) \in Nat /\ Share(k, e) \in Nat
      /\ c \in ToSet(v) => Share(v, c) > 0
      /\ c \in ToSet(k) => Share(k, c) > 0
  BY LegsAdd
<1>2. ASSUME Beats(v, k, c, e)
      PROVE  Rrf(v, k, e) < Rrf(v, k, c)
  <2>1. NoWorse(v, c, e) /\ NoWorse(k, c, e)
    BY <1>2 DEF Beats
  <2>2. Share(v, e) <= Share(v, c) /\ Share(k, e) <= Share(k, c)
    BY <2>1, BetterPlaced
  <2>3. Share(v, e) < Share(v, c) \/ Share(k, e) < Share(k, c)
    BY <1>2, <2>1, BetterPlaced DEF Beats
  <2>. QED  BY <1>1, <2>2, <2>3 DEF Rrf
<1>. QED  BY <1>1, <1>2 DEF Rrf

-----------------------------------------------------------------------------
(* Ranking *)

\* The order of the merged hits.
Goes(v, k, c, e) ==
    \/ Rrf(v, k, c) > Rrf(v, k, e)
    \/ Rrf(v, k, c) = Rrf(v, k, e) /\ ChunkIdLess(c, e)

Found(v, k) == ToSet(v) \cup ToSet(k)

(* What the legs found is finitely many chunks.                              *)
LEMMA FoundIsFinite ==
  ASSUME NEW v, NEW k, Leg(v), Leg(k)
  PROVE  /\ Found(v, k) \in SUBSET Chunk /\ IsFiniteSet(Found(v, k))
         /\ Cardinality(Found(v, k)) \in Nat
<1>1. /\ ToSet(v) \in SUBSET Chunk /\ IsFiniteSet(ToSet(v))
      /\ ToSet(k) \in SUBSET Chunk /\ IsFiniteSet(ToSet(k))
  BY OnceEachCounts DEF Leg
<1>2. IsFiniteSet(ToSet(v) \cup ToSet(k))
  BY <1>1, FS_Union
<1>. QED  BY <1>1, <1>2, FS_CardinalityType DEF Found

(* Two chunks have ids in some order.                                        *)
LEMMA IdsAreOrdered ==
  /\ \A c \in Chunk : ~ChunkIdLess(c, c)
  /\ \A c, e \in Chunk : c = e \/ ChunkIdLess(c, e) \/ ChunkIdLess(e, c)
  /\ \A c, e, f \in Chunk : ChunkIdLess(c, e) /\ ChunkIdLess(e, f) => ChunkIdLess(c, f)
<1>1. \A c \in Chunk : /\ c.doc \in Int /\ c.idx \in Int /\ c.version \in Int
                       /\ c = [doc |-> c.doc, idx |-> c.idx, version |-> c.version]
  <2>1. ASSUME NEW c \in Chunk
        PROVE  c.doc \in Int /\ c.idx \in Int /\ c.version \in Int
    <3>1. c.doc \in Documents /\ c.idx \in Nat /\ c.version \in Nat
      BY DEF Chunk
    <3>2. c.doc \in Nat
      BY <3>1, SearchAssumption
    <3>. QED  BY <3>1, <3>2
  <2>2. \A c \in Chunk : c = [doc |-> c.doc, idx |-> c.idx, version |-> c.version]
    BY DEF Chunk
  <2>. QED  BY <2>1, <2>2
<1>2. \A c \in Chunk : ~ChunkIdLess(c, c)
  BY <1>1 DEF ChunkIdLess
<1>3. ASSUME NEW c \in Chunk, NEW e \in Chunk, ~ChunkIdLess(c, e), ~ChunkIdLess(e, c)
      PROVE  c = e
  <2>1. c.version = e.version /\ c.doc = e.doc /\ c.idx = e.idx
    BY <1>1, <1>3 DEF ChunkIdLess
  <2>2. /\ c = [doc |-> c.doc, idx |-> c.idx, version |-> c.version]
        /\ e = [doc |-> e.doc, idx |-> e.idx, version |-> e.version]
    BY <1>1
  <2>. QED  BY <2>1, <2>2
<1>4. ASSUME NEW c \in Chunk, NEW e \in Chunk, NEW f \in Chunk,
             ChunkIdLess(c, e), ChunkIdLess(e, f)
      PROVE  ChunkIdLess(c, f)
  BY <1>1, <1>4 DEF ChunkIdLess
<1>. QED  BY <1>2, <1>3, <1>4

(* The order of the merged hits is strict and total.                         *)
LEMMA GoesIsStrict ==
  ASSUME NEW v, NEW k, Leg(v), Leg(k), NEW R,
         R = {t \in Found(v, k) \X Found(v, k) : Goes(v, k, t[1], t[2])}
  PROVE  /\ StrictOrder(R, Found(v, k))
         /\ \A c, e \in Found(v, k) : <<c, e>> \in R <=> Goes(v, k, c, e)
<1>1. PICK S : S = Found(v, k) /\ S \in SUBSET Chunk
  BY FoundIsFinite
<1>2. \A c, e \in S : <<c, e>> \in R <=> Goes(v, k, c, e)
  BY <1>1
<1>3. \A c : Rrf(v, k, c) \in Nat
  BY BeatingScores
<1>4. \A c \in S : ~Goes(v, k, c, c)
  BY <1>1, <1>3, IdsAreOrdered DEF Goes
<1>5. \A c, e \in S : c = e \/ Goes(v, k, c, e) \/ Goes(v, k, e, c)
  <2>1. ASSUME NEW c \in S, NEW e \in S
        PROVE  c = e \/ Goes(v, k, c, e) \/ Goes(v, k, e, c)
    <3>1. c = e \/ ChunkIdLess(c, e) \/ ChunkIdLess(e, c)
      BY <1>1, IdsAreOrdered
    <3>2. /\ Rrf(v, k, c) \in Nat /\ Rrf(v, k, e) \in Nat
      BY <1>3
    <3>. QED  BY <3>1, <3>2 DEF Goes
  <2>. QED  BY <2>1
<1>6. ASSUME NEW c \in S, NEW e \in S, NEW f \in S, Goes(v, k, c, e), Goes(v, k, e, f)
      PROVE  Goes(v, k, c, f)
  <2>1. ChunkIdLess(c, e) /\ ChunkIdLess(e, f) => ChunkIdLess(c, f)
    BY <1>1, IdsAreOrdered
  <2>2. Rrf(v, k, c) \in Nat /\ Rrf(v, k, e) \in Nat /\ Rrf(v, k, f) \in Nat
    BY <1>3
  <2>. QED  BY <1>6, <2>1, <2>2 DEF Goes
<1>. QED  BY <1>1, <1>2, <1>4, <1>5, <1>6 DEF StrictOrder

\* o has the chunks that were found, the best first.
BestFirst(o, v, k) ==
    /\ o \in Seq(Chunk) /\ OnceEach(o)
    /\ Len(o) = Cardinality(Found(v, k))
    /\ \A i \in 1 .. Len(o) : o[i] \in Found(v, k)
    /\ \A c \in Found(v, k) : \E i \in 1 .. Len(o) : o[i] = c
    /\ \A i, j \in 1 .. Len(o) : i < j <=> Goes(v, k, o[i], o[j])

(* So merging the legs gives one sequence.                                   *)
LEMMA MergedIsBestFirst ==
  ASSUME NEW v, NEW k, Leg(v), Leg(k)
  PROVE  BestFirst(Merged(v, k), v, k)
<1>1. PICK S : S = Found(v, k)
  OBVIOUS
<1>2. PICK R : R = {t \in S \X S : Goes(v, k, t[1], t[2])}
  OBVIOUS
<1>3. StrictOrder(R, S) /\ \A c, e \in S : <<c, e>> \in R <=> Goes(v, k, c, e)
  BY <1>1, <1>2, GoesIsStrict
<1>4. S \in SUBSET Chunk /\ IsFiniteSet(S)
  BY <1>1, FoundIsFinite
<1>5. \A c \in S : {e \in S : <<e, c>> \in R} = {e \in S : Goes(v, k, e, c)}
  BY <1>3
<1>6. \A c \in S : Ranks(R, S)[c] = Cardinality({e \in S : Goes(v, k, e, c)})
  BY <1>5 DEF Ranks
<1>7. PICK o : o = [n \in 1 .. Cardinality(S) |->
                      CHOOSE c \in S : Cardinality({e \in S : Goes(v, k, e, c)}) = n - 1]
  OBVIOUS
<1>8. ByRank(o, R, S)
  <2>1. ASSUME NEW n \in 1 .. Cardinality(S), NEW x \in S, Ranks(R, S)[x] = n - 1
        PROVE  o[n] \in S /\ Ranks(R, S)[o[n]] = n - 1
    <3>1. Cardinality({e \in S : Goes(v, k, e, x)}) = n - 1
      BY <1>6, <2>1
    <3>2. o[n] = CHOOSE c \in S : Cardinality({e \in S : Goes(v, k, e, c)}) = n - 1
      BY <1>7
    <3>3. o[n] \in S /\ Cardinality({e \in S : Goes(v, k, e, o[n])}) = n - 1
      BY <3>1, <3>2
    <3>. QED  BY <1>6, <3>3
  <2>. QED  BY <2>1 DEF ByRank
<1>9. Lists(o, R, S)
  BY <1>3, <1>4, <1>8, Enumeration
<1>10. PICK m \in Nat : m = Cardinality(S)
  BY <1>9 DEF Lists
<1>11. o \in [1 .. m -> S]
  BY <1>7, <1>9, <1>10 DEF Lists
<1>12. o \in Seq(S) /\ Len(o) = m
  BY <1>11, FunctionIsSeq
<1>13. o \in Seq(Chunk)
  <2>1. \A x \in S : x \in Chunk
    BY <1>4
  <2>. QED  BY <1>12, <2>1, SeqWider
<1>14. /\ \A i \in 1 .. m : o[i] \in S
       /\ \A c \in S : \E i \in 1 .. m : o[i] = c
       /\ \A i, j \in 1 .. m : i # j => o[i] # o[j]
       /\ \A i, j \in 1 .. m : i < j <=> <<o[i], o[j]>> \in R
  BY <1>9, <1>10 DEF Lists
<1>15. \A i, j \in 1 .. m : i < j <=> Goes(v, k, o[i], o[j])
  BY <1>3, <1>14
<1>16. BestFirst(o, v, k)
  BY <1>1, <1>10, <1>12, <1>13, <1>14, <1>15 DEF BestFirst, OnceEach
<1>17. Merged(v, k) = o
  BY <1>1, <1>7 DEF Merged, InOrder, Goes, Found
<1>. QED  BY <1>16, <1>17

\* What the hits of a search are before others are added.
Kept(hits, v, k, topK, mode) ==
    /\ hits \in Seq(Hits) /\ Len(hits) <= topK
    /\ Falling(hits) /\ Scored(hits, v, k, mode) /\ InTurn(hits, v, k)
    /\ \A i \in 1 .. Len(hits) : hits[i].via = {}

\* When they are new, they are chunks of the legs.
Stand(hits, v, k, topK, mode) ==
    /\ Kept(hits, v, k, topK, mode)
    /\ \A i \in 1 .. Len(hits) : hits[i].chunk \in Found(v, k)

(* The best of a hybrid search.                                              *)
LEMMA FusedStands ==
  ASSUME NEW v, NEW k, Leg(v), Leg(k), NEW topK \in Nat
  PROVE  Stand(Fused(v, k, topK), v, k, topK, "hybrid") /\ Best(Fused(v, k, topK), v, k, topK)
<1>1. PICK o : o = Merged(v, k) /\ BestFirst(o, v, k)
  BY MergedIsBestFirst
<1>2. PICK m \in Nat : m = Len(o) /\ o \in Seq(Chunk)
  BY <1>1 DEF BestFirst
<1>3. PICK f : f = First(o, topK)
  OBVIOUS
<1>4. /\ f \in Seq(Chunk) /\ Len(f) = IF topK < m THEN topK ELSE m
      /\ \A i \in 1 .. Len(f) : f[i] = o[i]
  BY <1>2, <1>3, FirstProperties
<1>5. PICK n \in Nat : n = Len(f) /\ n <= m /\ n <= topK /\ (n = topK \/ n = m)
  BY <1>4
<1>6. PICK hits : hits = [i \in 1 .. n |-> [chunk |-> f[i], score |-> Rrf(v, k, f[i]),
                                             lit |-> f[i] \in ToSet(k), via |-> {}]]
  OBVIOUS
<1>7. Fused(v, k, topK) = hits
  BY <1>1, <1>3, <1>5, <1>6 DEF Fused
<1>8. \A i \in 1 .. n : /\ f[i] \in Chunk /\ f[i] \in Found(v, k)
                        /\ i \in 1 .. m /\ f[i] = o[i]
  BY <1>1, <1>2, <1>4, <1>5 DEF BestFirst
<1>9. \A c : Rrf(v, k, c) \in Nat
  BY BeatingScores
<1>10. ASSUME NEW i \in 1 .. n
       PROVE  /\ hits[i] \in Hits /\ hits[i].chunk = f[i] /\ hits[i].via = {}
              /\ hits[i].score = Rrf(v, k, f[i])
              /\ hits[i].lit <=> f[i] \in ToSet(k)
  <2>1. (f[i] \in ToSet(k)) \in BOOLEAN
    OBVIOUS
  <2>2. PICK lit \in BOOLEAN : lit = (f[i] \in ToSet(k))
    BY <2>1, Zenon
  <2>3. hits[i] = [chunk |-> f[i], score |-> Rrf(v, k, f[i]), lit |-> lit, via |-> {}]
    BY <1>6, <2>2
  <2>4. lit <=> f[i] \in ToSet(k)
    BY <2>2
  <2>. QED  BY <1>8, <1>9, <2>3, <2>4 DEF Hits
<1>11. hits \in Seq(Hits) /\ Len(hits) = n
  <2>1. hits \in [1 .. n -> Hits]
    BY <1>6, <1>10
  <2>. QED  BY <2>1, FunctionIsSeq
<1>12. \A i, j \in 1 .. n : i # j => f[i] # f[j]
  BY <1>1, <1>2, <1>8 DEF BestFirst, OnceEach
<1>13. ASSUME NEW i \in 1 .. n, NEW j \in 1 .. n, i < j
       PROVE  Rrf(v, k, f[j]) <= Rrf(v, k, f[i])
  <2>1. Goes(v, k, o[i], o[j])
    BY <1>1, <1>2, <1>8, <1>13 DEF BestFirst
  <2>2. Rrf(v, k, o[i]) \in Nat /\ Rrf(v, k, o[j]) \in Nat
    BY <1>9
  <2>3. Rrf(v, k, o[j]) <= Rrf(v, k, o[i])
    BY <2>1, <2>2 DEF Goes
  <2>. QED  BY <1>8, <2>3
<1>14. Falling(hits)
  BY <1>10, <1>11, <1>12, <1>13 DEF Falling
<1>20. ASSUME NEW i \in 1 .. n, NEW j \in 1 .. n, Beats(v, k, f[i], f[j])
       PROVE  i < j /\ Rrf(v, k, f[j]) <= Rrf(v, k, f[i])
  <2>1. Rrf(v, k, f[j]) < Rrf(v, k, f[i])
    BY <1>20, BeatingScores
  <2>2. Rrf(v, k, f[j]) \in Nat /\ Rrf(v, k, f[i]) \in Nat
    BY <1>9
  <2>3. i # j /\ ~(j < i)
    BY <1>13, <2>1, <2>2
  <2>. QED  BY <2>1, <2>2, <2>3
<1>15. Scored(hits, v, k, "hybrid") /\ InTurn(hits, v, k)
  <2>1. \A i \in 1 .. n : Rrf(v, k, f[i]) > 0
    BY <1>8, BeatingScores DEF Found
  <2>2. \A i, j \in 1 .. n : Beats(v, k, hits[i].chunk, hits[j].chunk) =>
            i < j /\ hits[j].score <= hits[i].score
    BY <1>10, <1>20
  <2>5. \A i \in 1 .. Len(hits) : hits[i].via = {} =>
            hits[i].score = Rrf(v, k, hits[i].chunk) /\ hits[i].score > 0
    BY <1>10, <1>11, <2>1
  <2>6. \A i, j \in 1 .. Len(hits) :
            hits[i].via = {} /\ hits[j].via = {} =>
            (Beats(v, k, hits[i].chunk, hits[j].chunk) => hits[j].score <= hits[i].score)
    BY <1>11, <2>2
  <2>7. \A i, j \in 1 .. Len(hits) :
            hits[i].via = {} /\ hits[j].via = {} =>
            (Beats(v, k, hits[i].chunk, hits[j].chunk) => i < j)
    BY <1>11, <2>2
  <2>3. Scored(hits, v, k, "hybrid")
    BY <2>5, <2>6, Zenon DEF Scored
  <2>4. InTurn(hits, v, k)
    BY <2>7, Zenon DEF InTurn
  <2>. QED  BY <2>3, <2>4
<1>16. Stand(hits, v, k, topK, "hybrid")
  BY <1>5, <1>8, <1>10, <1>11, <1>14, <1>15 DEF Stand, Kept
<1>17. Len(hits) = Smaller(topK, Cardinality(Found(v, k)))
  <2>1. m = Cardinality(Found(v, k))
    BY <1>1, <1>2 DEF BestFirst
  <2>. QED  BY <1>4, <1>5, <1>11, <2>1 DEF Smaller
<1>18. ASSUME NEW c \in Found(v, k), NEW j \in 1 .. n, Beats(v, k, c, f[j])
       PROVE  \E i \in 1 .. n : f[i] = c
  <2>1. PICK i \in 1 .. m : o[i] = c
    BY <1>1, <1>2, <1>18 DEF BestFirst
  <2>2. Rrf(v, k, f[j]) < Rrf(v, k, c)
    BY <1>18, BeatingScores
  <2>3. Goes(v, k, o[i], o[j])
    <3>1. Rrf(v, k, f[j]) \in Nat /\ Rrf(v, k, c) \in Nat
      BY <1>9
    <3>. QED  BY <1>8, <2>1, <2>2, <3>1 DEF Goes
  <2>4. i < j
    BY <1>1, <1>2, <1>8, <2>3 DEF BestFirst
  <2>5. i \in 1 .. n
    BY <2>4
  <2>. QED  BY <1>8, <2>1, <2>5
<1>19. Best(hits, v, k, topK)
  <2>1. ASSUME NEW c \in Found(v, k), NEW j \in 1 .. n, Beats(v, k, c, hits[j].chunk)
        PROVE  \E i \in 1 .. n : hits[i].chunk = c
    <3>1. Beats(v, k, c, f[j])
      BY <1>10, <2>1
    <3>2. PICK i \in 1 .. n : f[i] = c
      BY <1>18, <3>1
    <3>. QED  BY <1>10, <3>2
  <2>2. \A i \in 1 .. n : hits[i].lit <=> hits[i].chunk \in ToSet(k)
    BY <1>10
  <2>. QED  BY <1>11, <1>17, <2>1, <2>2 DEF Best, Found
<1>. QED  BY <1>7, <1>16, <1>19

(* One leg alone.                                                            *)
LEMMA HitsOfStand ==
  ASSUME NEW l, Leg(l), NEW topK \in Nat, Len(l) <= topK, NEW lit \in BOOLEAN, NEW v, NEW k,
         (v = l /\ k = <<>>) \/ (v = <<>> /\ k = l),
         NEW mode \in {"vector", "keyword"}, NEW hits \in HitsOf(l, lit)
  PROVE  Stand(hits, v, k, topK, mode)
<1>1. PICK n \in Nat : n = Len(l) /\ l \in Seq(Chunk)
  BY DEF Leg
<1>2. /\ \A i \in 1 .. n : l[i] \in ToSet(l) /\ l[i] \in Chunk
      /\ \A i, j \in 1 .. n : i # j => l[i] # l[j]
  BY <1>1, Elements DEF Leg, OnceEach
<1>3. \A i \in 1 .. n : l[i] \in Found(v, k)
  BY <1>2 DEF Found
<1>4. PICK scores \in [1 .. n -> Scores] :
         /\ \A i, j \in 1 .. n : i < j => scores[j] <= scores[i]
         /\ hits = [i \in 1 .. n |-> [chunk |-> l[i], score |-> scores[i], lit |-> lit, via |-> {}]]
  BY <1>1 DEF HitsOf
<1>5. \A i \in 1 .. n : scores[i] \in Int
  BY <1>4, SearchAssumption
<1>9. \A i \in 1 .. n : /\ hits[i] \in Hits /\ hits[i].chunk = l[i] /\ hits[i].via = {}
                        /\ hits[i].score = scores[i]
  BY <1>2, <1>4, <1>5 DEF Hits
<1>10. hits \in Seq(Hits) /\ Len(hits) = n
  <2>1. hits \in [1 .. n -> Hits]
    BY <1>4, <1>9
  <2>. QED  BY <2>1, FunctionIsSeq
<1>11. Falling(hits)
  BY <1>2, <1>4, <1>9, <1>10 DEF Falling
<1>12. ASSUME NEW i \in 1 .. n, NEW j \in 1 .. n, Beats(v, k, l[i], l[j])
       PROVE  i < j
  <2>1. NoWorse(l, l[i], l[j]) /\ l[i] # l[j]
    BY <1>12 DEF Beats
  <2>2. RankIn(l, l[i]) <= RankIn(l, l[j])
    BY <1>2, <2>1 DEF NoWorse
  <2>3. RankIn(l, l[i]) = i /\ RankIn(l, l[j]) = j
    BY <1>1, <1>2 DEF RankIn
  <2>. QED  BY <1>1, <2>1, <2>2, <2>3
<1>13. Scored(hits, v, k, mode)
  <2>1. \A i, j \in 1 .. n : Beats(v, k, hits[i].chunk, hits[j].chunk) =>
            hits[j].score <= hits[i].score
    BY <1>4, <1>9, <1>12
  <2>2. \A i, j \in 1 .. Len(hits) :
            hits[i].via = {} /\ hits[j].via = {} =>
            (Beats(v, k, hits[i].chunk, hits[j].chunk) => hits[j].score <= hits[i].score)
    BY <1>10, <2>1
  <2>3. mode # "hybrid"
    OBVIOUS
  <2>. QED  BY <2>2, <2>3, Zenon DEF Scored
<1>14. InTurn(hits, v, k)
  BY <1>9, <1>10, <1>12 DEF InTurn
<1>15. \A i \in 1 .. n : hits[i].chunk \in Found(v, k) /\ hits[i].via = {}
  BY <1>3, <1>9
<1>. QED  BY <1>1, <1>10, <1>11, <1>13, <1>14, <1>15 DEF Stand, Kept
-----------------------------------------------------------------------------
(* The filter *)

\* Every hit of the one is a hit of the other.
DrawnFrom(g, hits) ==
    \A i \in 1 .. Len(g) : \E j \in 1 .. Len(hits) : g[i] = hits[j]

(* Hits that stay behind others stay in their order.                         *)
LEMMA FilterStands ==
  ASSUME NEW hits, NEW v, NEW k, NEW topK \in Nat, NEW mode, Kept(hits, v, k, topK, mode),
         NEW stay \in SUBSET (1 .. Len(hits))
  PROVE  Kept(AtPlaces(hits, stay), v, k, topK, mode) /\ DrawnFrom(AtPlaces(hits, stay), hits)
<1>1. PICK m \in Nat : m = Len(hits) /\ m <= topK /\ hits \in Seq(Hits)
  BY DEF Kept
<1>2. PICK n \in Nat : n = Cardinality(stay) /\ n <= m
  <2>1. Cardinality(stay) \in 0 .. Len(hits)
    BY <1>1, AtProperties
  <2>. QED  BY <1>1, <2>1
<1>3. PICK g : g = AtPlaces(hits, stay)
  OBVIOUS
<1>17. hits \in Seq(Hits)
  BY <1>1
<1>0. \E p \in [1 .. Cardinality(stay) -> stay] :
         /\ \A i, j \in 1 .. Cardinality(stay) : i < j <=> p[i] < p[j]
         /\ \A x \in stay : \E i \in 1 .. Cardinality(stay) : p[i] = x
         /\ \A i \in 1 .. Cardinality(stay) : AtPlaces(hits, stay)[i] = hits[p[i]]
  BY <1>17, AtProperties, SMTT(30)
<1>4. PICK p \in [1 .. n -> stay] :
         /\ \A i, j \in 1 .. n : i < j <=> p[i] < p[j]
         /\ \A i \in 1 .. n : g[i] = hits[p[i]]
  BY <1>0, <1>2, <1>3
<1>5. g \in Seq(Hits) /\ Len(g) = n
  BY <1>1, <1>2, <1>3, AtProperties
<1>6. \A i \in 1 .. n : p[i] \in 1 .. m /\ g[i] = hits[p[i]]
  BY <1>1, <1>4
<1>7. \A i, j \in 1 .. n : /\ i < j => p[i] < p[j]
                           /\ i # j => p[i] # p[j]
  BY <1>4, <1>6
<1>8. /\ Falling(hits) /\ Scored(hits, v, k, mode) /\ InTurn(hits, v, k)
      /\ \A i \in 1 .. m : hits[i].via = {}
  BY <1>1 DEF Kept
<1>9. \A i, j \in 1 .. n : i # j => g[i].chunk # g[j].chunk
  <2>1. \A i, j \in 1 .. m : i # j => hits[i].chunk # hits[j].chunk
    BY <1>1, <1>8 DEF Falling
  <2>2. ASSUME NEW i \in 1 .. n, NEW j \in 1 .. n, i # j
        PROVE  g[i].chunk # g[j].chunk
    <3>1. p[i] \in 1 .. m /\ p[j] \in 1 .. m /\ p[i] # p[j]
      BY <1>6, <1>7, <2>2
    <3>2. hits[p[i]].chunk # hits[p[j]].chunk
      BY <3>1, <2>1
    <3>3. g[i] = hits[p[i]] /\ g[j] = hits[p[j]]
      BY <1>6
    <3>. QED  BY <3>2, <3>3
  <2>. QED  BY <2>2
<1>10. \A i, j \in 1 .. n : i < j => g[j].score <= g[i].score
  <2>1. \A i, j \in 1 .. m : i < j => hits[j].score <= hits[i].score
    BY <1>1, <1>8 DEF Falling
  <2>2. ASSUME NEW i \in 1 .. n, NEW j \in 1 .. n, i < j
        PROVE  g[j].score <= g[i].score
    <3>1. p[i] \in 1 .. m /\ p[j] \in 1 .. m /\ p[i] < p[j]
      BY <1>6, <1>7, <2>2
    <3>2. hits[p[j]].score <= hits[p[i]].score
      BY <3>1, <2>1
    <3>3. g[i] = hits[p[i]] /\ g[j] = hits[p[j]]
      BY <1>6
    <3>. QED  BY <3>2, <3>3
  <2>. QED  BY <2>2
<1>11. \A i \in 1 .. n : g[i].via = {}
  BY <1>6, <1>8
<1>12. Scored(g, v, k, mode) /\ InTurn(g, v, k)
  <2>1. mode = "hybrid" => \A i \in 1 .. m :
            hits[i].score = Rrf(v, k, hits[i].chunk) /\ hits[i].score > 0
    BY <1>1, <1>8 DEF Scored
  <2>2. ASSUME NEW i \in 1 .. n, mode = "hybrid"
        PROVE  g[i].score = Rrf(v, k, g[i].chunk) /\ g[i].score > 0
    <3>1. p[i] \in 1 .. m /\ g[i] = hits[p[i]]
      BY <1>6
    <3>. QED  BY <3>1, <2>1, <2>2
  <2>3. \A i, j \in 1 .. m : Beats(v, k, hits[i].chunk, hits[j].chunk) =>
            i < j /\ hits[j].score <= hits[i].score
    BY <1>1, <1>8 DEF Scored, InTurn
  <2>4. ASSUME NEW i \in 1 .. n, NEW j \in 1 .. n, Beats(v, k, g[i].chunk, g[j].chunk)
        PROVE  i < j /\ g[j].score <= g[i].score
    <3>1. /\ p[i] \in 1 .. m /\ g[i] = hits[p[i]]
          /\ p[j] \in 1 .. m /\ g[j] = hits[p[j]]
      BY <1>6
    <3>2. p[i] < p[j] /\ g[j].score <= g[i].score
      BY <2>3, <2>4, <3>1
    <3>. QED  BY <1>4, <3>2
  <2>7. mode = "hybrid" => \A i \in 1 .. Len(g) : g[i].via = {} =>
            g[i].score = Rrf(v, k, g[i].chunk) /\ g[i].score > 0
    BY <1>5, <2>2
  <2>8. \A i, j \in 1 .. Len(g) :
            g[i].via = {} /\ g[j].via = {} =>
            (Beats(v, k, g[i].chunk, g[j].chunk) => g[j].score <= g[i].score)
    BY <1>5, <2>4
  <2>9. \A i, j \in 1 .. Len(g) :
            g[i].via = {} /\ g[j].via = {} =>
            (Beats(v, k, g[i].chunk, g[j].chunk) => i < j)
    BY <1>5, <2>4
  <2>5. Scored(g, v, k, mode)
    BY <2>7, <2>8, Zenon DEF Scored
  <2>6. InTurn(g, v, k)
    BY <2>9, Zenon DEF InTurn
  <2>. QED  BY <2>5, <2>6
<1>13. Falling(g)
  BY <1>5, <1>9, <1>10 DEF Falling
<1>14. n <= topK
  BY <1>1, <1>2
<1>15. Kept(g, v, k, topK, mode)
  BY <1>5, <1>11, <1>12, <1>13, <1>14 DEF Kept
<1>16. DrawnFrom(g, hits)
  BY <1>1, <1>5, <1>6 DEF DrawnFrom
<1>. QED  BY <1>3, <1>15, <1>16
-----------------------------------------------------------------------------
(* The expansion *)

\* The order of the hits when the expanded ones are among them.
After(a, b) == a.score > b.score \/ (a.score = b.score /\ PlaceLess(a.chunk, b.chunk))

ByScore(S) == InOrder(S, After)

\* Hits of different chunks.
Apiece(S) == S \in SUBSET Hits /\ IsFiniteSet(S) /\ \A a, b \in S : a.chunk = b.chunk => a = b

(* Two chunks are at some places, or versions of one.                        *)
LEMMA PlacesAreOrdered ==
  /\ \A c \in Chunk : ~PlaceLess(c, c)
  /\ \A c, e \in Chunk : c = e \/ PlaceLess(c, e) \/ PlaceLess(e, c)
  /\ \A c, e, f \in Chunk : PlaceLess(c, e) /\ PlaceLess(e, f) => PlaceLess(c, f)
<1>1. ASSUME NEW c \in Chunk
      PROVE  c.doc \in Int /\ c.idx \in Int /\ c.version \in Int
  <2>1. c.doc \in Documents /\ c.idx \in Nat /\ c.version \in Nat
    BY DEF Chunk
  <2>2. c.doc \in Nat
    BY <2>1, SearchAssumption
  <2>. QED  BY <2>1, <2>2
<1>2. \A c \in Chunk : ~PlaceLess(c, c)
  BY <1>1 DEF PlaceLess
<1>3. ASSUME NEW c \in Chunk, NEW e \in Chunk, ~PlaceLess(c, e), ~PlaceLess(e, c)
      PROVE  c = e
  <2>1. c.version = e.version /\ c.doc = e.doc /\ c.idx = e.idx
    BY <1>1, <1>3 DEF PlaceLess
  <2>2. /\ c = [doc |-> c.doc, idx |-> c.idx, version |-> c.version]
        /\ e = [doc |-> e.doc, idx |-> e.idx, version |-> e.version]
    BY DEF Chunk
  <2>. QED  BY <2>1, <2>2
<1>4. ASSUME NEW c \in Chunk, NEW e \in Chunk, NEW f \in Chunk, PlaceLess(c, e), PlaceLess(e, f)
      PROVE  PlaceLess(c, f)
  BY <1>1, <1>4 DEF PlaceLess
<1>. QED  BY <1>2, <1>3, <1>4

(* So their order is strict and total.                                       *)
LEMMA AfterIsStrict ==
  ASSUME NEW S, Apiece(S), NEW R, R = {t \in S \X S : After(t[1], t[2])}
  PROVE  /\ StrictOrder(R, S)
         /\ \A a, b \in S : <<a, b>> \in R <=> After(a, b)
<1>1. \A a, b \in S : <<a, b>> \in R <=> After(a, b)
  OBVIOUS
<1>2. \A a \in S : a.score \in Int /\ a.chunk \in Chunk
  BY DEF Apiece, Hits
<1>3. \A a \in S : ~After(a, a)
  BY <1>2, PlacesAreOrdered DEF After
<1>4. ASSUME NEW a \in S, NEW b \in S
      PROVE  a = b \/ After(a, b) \/ After(b, a)
  <2>1. a.chunk = b.chunk \/ PlaceLess(a.chunk, b.chunk) \/ PlaceLess(b.chunk, a.chunk)
    BY <1>2, PlacesAreOrdered
  <2>2. a.chunk = b.chunk => a = b
    BY DEF Apiece
  <2>. QED  BY <1>2, <2>1, <2>2 DEF After
<1>5. ASSUME NEW a \in S, NEW b \in S, NEW c \in S, After(a, b), After(b, c)
      PROVE  After(a, c)
  <2>1. PlaceLess(a.chunk, b.chunk) /\ PlaceLess(b.chunk, c.chunk) => PlaceLess(a.chunk, c.chunk)
    BY <1>2, PlacesAreOrdered
  <2>. QED  BY <1>2, <1>5, <2>1 DEF After
<1>. QED  BY <1>1, <1>3, <1>4, <1>5 DEF StrictOrder

\* o has the hits of S, the best first.
Sorts(o, S) ==
    /\ o \in Seq(Hits)
    /\ \A i \in 1 .. Len(o) : o[i] \in S
    /\ \A a \in S : \E i \in 1 .. Len(o) : o[i] = a
    /\ \A i, j \in 1 .. Len(o) : i # j => o[i] # o[j]
    /\ \A i, j \in 1 .. Len(o) : i < j <=> After(o[i], o[j])

(* What the sort makes of them.                                              *)
LEMMA SortedAre ==
  ASSUME NEW S, Apiece(S)
  PROVE  Sorts(ByScore(S), S)
<1>1. PICK R : R = {t \in S \X S : After(t[1], t[2])}
  OBVIOUS
<1>2. StrictOrder(R, S) /\ \A a, b \in S : <<a, b>> \in R <=> After(a, b)
  BY <1>1, AfterIsStrict
<1>3. S \in SUBSET Hits /\ IsFiniteSet(S)
  BY DEF Apiece
<1>4. \A a \in S : {b \in S : <<b, a>> \in R} = {b \in S : After(b, a)}
  BY <1>2
<1>5. \A a \in S : Ranks(R, S)[a] = Cardinality({b \in S : After(b, a)})
  BY <1>4 DEF Ranks
<1>6. PICK o : o = [n \in 1 .. Cardinality(S) |->
                      CHOOSE a \in S : Cardinality({b \in S : After(b, a)}) = n - 1]
  OBVIOUS
<1>7. ByRank(o, R, S)
  <2>1. ASSUME NEW n \in 1 .. Cardinality(S), NEW x \in S, Ranks(R, S)[x] = n - 1
        PROVE  o[n] \in S /\ Ranks(R, S)[o[n]] = n - 1
    <3>1. Cardinality({b \in S : After(b, x)}) = n - 1
      BY <1>5, <2>1
    <3>2. o[n] = CHOOSE a \in S : Cardinality({b \in S : After(b, a)}) = n - 1
      BY <1>6
    <3>3. o[n] \in S /\ Cardinality({b \in S : After(b, o[n])}) = n - 1
      BY <3>1, <3>2
    <3>. QED  BY <1>5, <3>3
  <2>. QED  BY <2>1 DEF ByRank
<1>8. Lists(o, R, S)
  BY <1>2, <1>3, <1>7, Enumeration
<1>9. PICK m \in Nat : m = Cardinality(S)
  BY <1>8 DEF Lists
<1>10. o \in [1 .. m -> S]
  BY <1>6, <1>8, <1>9 DEF Lists
<1>11. o \in Seq(S) /\ Len(o) = m
  BY <1>10, FunctionIsSeq
<1>12. o \in Seq(Hits)
  <2>1. \A x \in S : x \in Hits
    BY <1>3
  <2>. QED  BY <1>11, <2>1, SeqWider
<1>13. /\ \A i \in 1 .. m : o[i] \in S
       /\ \A a \in S : \E i \in 1 .. m : o[i] = a
       /\ \A i, j \in 1 .. m : i # j => o[i] # o[j]
       /\ \A i, j \in 1 .. m : i < j <=> <<o[i], o[j]>> \in R
  BY <1>8, <1>9 DEF Lists
<1>14. \A i, j \in 1 .. m : i < j <=> After(o[i], o[j])
  BY <1>2, <1>13
<1>15. Sorts(o, S)
  BY <1>11, <1>12, <1>13, <1>14 DEF Sorts
<1>16. ByScore(S) = o
  BY <1>6 DEF ByScore, InOrder
<1>. QED  BY <1>15, <1>16

\* What the answer is after the expansion.
Answer(hits, v, k, topK, mode) ==
    /\ hits \in Seq(Hits) /\ Len(hits) <= topK
    /\ Falling(hits) /\ Scored(hits, v, k, mode) /\ AddedBehind(hits, mode)

\* Chunks that are no hits, each with the place of the hit it comes from.
Origin(origin, hits) ==
    /\ DOMAIN origin \in SUBSET Chunk /\ IsFiniteSet(DOMAIN origin)
    /\ \A c \in DOMAIN origin : origin[c] \in 1 .. Len(hits)
    /\ \A c \in DOMAIN origin : \A i \in 1 .. Len(hits) : hits[i].chunk # c

\* The hit that stands for an expanded chunk.
Expanded(hits, origin, c) ==
    [chunk |-> c, score |-> (NotBelowZero(hits[origin[c]].score) * 19) \div 20, lit |-> FALSE,
     via |-> {hits[origin[c]].chunk}]

(* It is worth less than the hit it comes from, if that is worth anything.  *)
LEMMA ExpandedAre ==
  ASSUME NEW hits, NEW v, NEW k, NEW topK \in Nat, NEW mode, Kept(hits, v, k, topK, mode),
         NEW origin, Origin(origin, hits), NEW c \in DOMAIN origin
  PROVE  /\ Expanded(hits, origin, c) \in Hits
         /\ \E i \in 1 .. Len(hits) :
              /\ Expanded(hits, origin, c).via = {hits[i].chunk}
              /\ mode = "hybrid" \/ Expanded(hits, origin, c).score > 0 =>
                    Expanded(hits, origin, c).score < hits[i].score
<1>1. PICK i \in 1 .. Len(hits) : i = origin[c] /\ c \in Chunk
  BY DEF Origin
<1>2. hits[i] \in Hits /\ hits[i].score \in Int /\ hits[i].chunk \in Chunk
  <2>1. hits[i] \in Hits
    BY <1>1 DEF Kept
  <2>. QED  BY <2>1 DEF Hits
<1>3. PICK s \in Int : s = hits[i].score
  BY <1>2
<1>9. mode = "hybrid" => s > 0
  BY <1>3 DEF Kept, Scored
<1>10. PICK z \in Nat : z = NotBelowZero(s) /\ (s > 0 => z = s) /\ (~(s > 0) => z = 0)
  BY DEF NotBelowZero
<1>4. PICK t \in Nat : t = (z * 19) \div 20 /\ (z > 0 => t < z) /\ (z = 0 => t = 0)
  <2>1. (z * 19) \div 20 \in Nat
    OBVIOUS
  <2>2. z > 0 => (z * 19) \div 20 < z
    OBVIOUS
  <2>3. z = 0 => (z * 19) \div 20 = 0
    OBVIOUS
  <2>. QED  BY <2>1, <2>2, <2>3
<1>5. PICK h : h = [chunk |-> c, score |-> t, lit |-> FALSE, via |-> {hits[i].chunk}]
  OBVIOUS
<1>6. h \in Hits
  BY <1>1, <1>2, <1>5 DEF Hits
<1>7. Expanded(hits, origin, c) = h
  BY <1>1, <1>3, <1>10, <1>4, <1>5 DEF Expanded
<1>8. h.via = {hits[i].chunk} /\ h.score = t
  BY <1>5
<1>11. mode = "hybrid" \/ t > 0 => t < s
  BY <1>4, <1>9, <1>10
<1>. QED  BY <1>3, <1>6, <1>7, <1>8, <1>11

\* The chunks of the hits are these, or those of the other hits.
ChunksFrom(g, chunks, hits) ==
    \A i \in 1 .. Len(g) : \/ g[i].chunk \in chunks
                          \/ \E j \in 1 .. Len(hits) : g[i].chunk = hits[j].chunk

(* The hits and what was added to them, ranked anew and cut.                 *)
LEMMA RerankedStands ==
  ASSUME NEW hits, NEW v, NEW k, NEW topK \in Nat, NEW mode, Kept(hits, v, k, topK, mode),
         NEW origin, Origin(origin, hits)
  PROVE  /\ Answer(Reranked(hits, FromOrigins(hits, origin), topK), v, k, topK, mode)
         /\ ChunksFrom(Reranked(hits, FromOrigins(hits, origin), topK), DOMAIN origin, hits)
<1>1. PICK m \in Nat : m = Len(hits) /\ hits \in Seq(Hits)
  BY DEF Kept
<1>2. PICK old : old = ToSet(hits)
  OBVIOUS
<1>3. PICK new : new = FromOrigins(hits, origin)
  OBVIOUS
<1>4. PICK S : S = old \cup new
  OBVIOUS
<1>5. /\ old \in SUBSET Hits
      /\ \A i \in 1 .. m : hits[i] \in old
      /\ \A a \in old : \E i \in 1 .. m : hits[i] = a
  BY <1>1, <1>2, Elements
<1>6. /\ \A i, j \in 1 .. m : i # j => hits[i].chunk # hits[j].chunk
      /\ \A i \in 1 .. m : hits[i].via = {}
      /\ mode = "hybrid" => \A i \in 1 .. m :
            hits[i].score = Rrf(v, k, hits[i].chunk) /\ hits[i].score > 0
      /\ \A i, j \in 1 .. m : Beats(v, k, hits[i].chunk, hits[j].chunk) =>
            hits[j].score <= hits[i].score
  BY <1>1 DEF Kept, Falling, Scored
<1>7. IsFiniteSet(old)
  <2>1. OnceEach(hits)
    BY <1>1, <1>6 DEF OnceEach
  <2>. QED  BY <1>1, <1>2, <2>1, OnceEachCounts
<1>8. PICK e : e = [c \in DOMAIN origin |-> Expanded(hits, origin, c)]
  OBVIOUS
<1>9. new = {e[c] : c \in DOMAIN origin}
  BY <1>3, <1>8 DEF FromOrigins, Expanded
<1>10. IsFiniteSet(new)
  <2>1. IsFiniteSet(DOMAIN origin) /\ DOMAIN e = DOMAIN origin /\ e = [c \in DOMAIN origin |-> e[c]]
    BY <1>8 DEF Origin
  <2>. QED  BY <1>9, <2>1, ImageIsFinite
<1>11. ASSUME NEW c \in DOMAIN origin
       PROVE  /\ e[c] \in Hits /\ e[c].chunk = c
              /\ \E i \in 1 .. m :
                    /\ e[c].via = {hits[i].chunk}
                    /\ mode = "hybrid" \/ e[c].score > 0 => e[c].score < hits[i].score
  <2>1. e[c] = Expanded(hits, origin, c) /\ e[c].chunk = c
    BY <1>8 DEF Expanded
  <2>2. /\ Expanded(hits, origin, c) \in Hits
        /\ \E i \in 1 .. Len(hits) :
              /\ Expanded(hits, origin, c).via = {hits[i].chunk}
              /\ mode = "hybrid" \/ Expanded(hits, origin, c).score > 0 =>
                    Expanded(hits, origin, c).score < hits[i].score
    BY ExpandedAre, Zenon
  <2>. QED  BY <1>1, <2>1, <2>2
<1>12. \A a \in new : \E c \in DOMAIN origin : a = e[c]
  BY <1>9
<1>13. Apiece(S)
  <2>1. IsFiniteSet(S)
    BY <1>4, <1>7, <1>10, FS_Union
  <2>2. \A a \in new : a \in Hits /\ a.chunk \in DOMAIN origin /\ a = e[a.chunk]
    BY <1>11, <1>12
  <2>3. S \in SUBSET Hits
    BY <1>4, <1>5, <2>2
  <2>4. \A a \in old : \A b \in new : a.chunk # b.chunk
    <3>1. ASSUME NEW a \in old, NEW b \in new, a.chunk = b.chunk
          PROVE  FALSE
      <4>1. PICK i \in 1 .. m : hits[i] = a
        BY <1>5
      <4>2. b.chunk \in DOMAIN origin
        BY <2>2
      <4>. QED  BY <1>1, <3>1, <4>1, <4>2 DEF Origin
    <3>. QED  BY <3>1
  <2>5. \A a, b \in old : a.chunk = b.chunk => a = b
    BY <1>5, <1>6
  <2>6. \A a, b \in new : a.chunk = b.chunk => a = b
    BY <2>2
  <2>7. \A a, b \in S : a.chunk = b.chunk => a = b
    BY <1>4, <2>4, <2>5, <2>6
  <2>. QED  BY <2>1, <2>3, <2>7 DEF Apiece
<1>14. PICK o : o = ByScore(S) /\ Sorts(o, S)
  BY <1>13, SortedAre
<1>15. PICK f : f = First(o, topK)
  OBVIOUS
<1>16. Reranked(hits, FromOrigins(hits, origin), topK) = f
  <2>1. Reranked(hits, new, topK) = First(ByScore(old \cup new), topK)
    BY <1>2 DEF Reranked, ByScore, InOrder, After
  <2>. QED  BY <1>3, <1>4, <1>14, <1>15, <2>1
<1>17. PICK l \in Nat : l = Len(o) /\ o \in Seq(Hits)
  BY <1>14 DEF Sorts
<1>18. /\ f \in Seq(Hits) /\ Len(f) = IF topK < l THEN topK ELSE l
       /\ \A i \in 1 .. Len(f) : f[i] = o[i]
  <2>1. topK \in Int
    OBVIOUS
  <2>2. /\ First(o, topK) \in Seq(Hits)
        /\ Len(First(o, topK)) = IF topK < Len(o) THEN IF topK < 0 THEN 0 ELSE topK ELSE Len(o)
        /\ \A i \in 1 .. Len(First(o, topK)) : First(o, topK)[i] = o[i]
    BY <1>17, <2>1, FirstProperties
  <2>3. ~(topK < 0)
    OBVIOUS
  <2>. QED  BY <1>15, <1>17, <2>2, <2>3
<1>19. PICK n \in Nat : n = Len(f) /\ n <= l /\ n <= topK
  BY <1>18
<1>20. \A i \in 1 .. n : i \in 1 .. l /\ f[i] = o[i] /\ f[i] \in S /\ f[i] \in Hits
  BY <1>14, <1>17, <1>18, <1>19 DEF Sorts
<1>21. \A i, j \in 1 .. l : (i # j => o[i] # o[j]) /\ (i < j <=> After(o[i], o[j]))
  BY <1>14, <1>17 DEF Sorts
<1>22. ASSUME NEW i \in 1 .. n, NEW j \in 1 .. n, i # j
       PROVE  f[i].chunk # f[j].chunk
  BY <1>13, <1>20, <1>21, <1>22 DEF Apiece
<1>23. ASSUME NEW i \in 1 .. n, NEW j \in 1 .. n, i < j
       PROVE  f[j].score <= f[i].score
  <2>1. After(f[i], f[j])
    BY <1>20, <1>21, <1>23
  <2>2. f[i].score \in Int /\ f[j].score \in Int
    BY <1>20 DEF Hits
  <2>. QED  BY <2>1, <2>2 DEF After
<1>24. \A a \in S : \/ \E i \in 1 .. m : hits[i] = a
                    \/ \E c \in DOMAIN origin : a = e[c]
  BY <1>4, <1>5, <1>12
<1>25. ASSUME NEW i \in 1 .. n, f[i].via = {}
       PROVE  \E j \in 1 .. m : hits[j] = f[i]
  <2>1. ~\E c \in DOMAIN origin : f[i] = e[c]
    BY <1>11, <1>25
  <2>. QED  BY <1>20, <1>24, <2>1
<1>26. ASSUME NEW i \in 1 .. n, mode = "hybrid" \/ f[i].score > 0, NEW c \in f[i].via
       PROVE  \E j \in 1 .. n : j < i /\ f[j].chunk = c
  <2>1. ~\E j \in 1 .. m : hits[j] = f[i]
    BY <1>6, <1>26
  <2>2. PICK d \in DOMAIN origin : f[i] = e[d]
    BY <1>20, <1>24, <2>1
  <2>3. PICK j \in 1 .. m : f[i].via = {hits[j].chunk} /\ f[i].score < hits[j].score
    BY <1>11, <1>26, <2>2
  <2>4. hits[j] \in S
    BY <1>4, <1>5
  <2>5. PICK q \in 1 .. l : o[q] = hits[j]
    BY <1>14, <1>17, <2>4 DEF Sorts
  <2>6. After(o[q], o[i])
    <3>1. hits[j].score \in Int /\ f[i].score \in Int
      <4>1. hits[j] \in Hits /\ f[i] \in Hits
        BY <1>1, <1>20
      <4>. QED  BY <4>1 DEF Hits
    <3>. QED  BY <1>20, <2>3, <2>5, <3>1 DEF After
  <2>7. q < i
    BY <1>20, <1>21, <2>6
  <2>8. q \in 1 .. n /\ f[q] = hits[j]
    BY <1>20, <2>5, <2>7
  <2>9. c = hits[j].chunk
    BY <2>3
  <2>. QED  BY <2>7, <2>8, <2>9
<1>27. Falling(f)
  BY <1>19, <1>22, <1>23 DEF Falling
<1>28. Scored(f, v, k, mode)
  <2>1. ASSUME NEW i \in 1 .. n, NEW j \in 1 .. n, f[i].via = {}, f[j].via = {},
               Beats(v, k, f[i].chunk, f[j].chunk)
        PROVE  f[j].score <= f[i].score
    <3>1. PICK a \in 1 .. m, b \in 1 .. m : hits[a] = f[i] /\ hits[b] = f[j]
      BY <1>25, <2>1
    <3>. QED  BY <1>6, <2>1, <3>1
  <2>2. ASSUME NEW i \in 1 .. n, f[i].via = {}, mode = "hybrid"
        PROVE  f[i].score = Rrf(v, k, f[i].chunk) /\ f[i].score > 0
    <3>1. PICK a \in 1 .. m : hits[a] = f[i]
      BY <1>25, <2>2
    <3>. QED  BY <1>6, <2>2, <3>1
  <2>3. \A i, j \in 1 .. Len(f) :
            f[i].via = {} /\ f[j].via = {} =>
            (Beats(v, k, f[i].chunk, f[j].chunk) => f[j].score <= f[i].score)
    BY <1>19, <2>1
  <2>4. mode = "hybrid" => \A i \in 1 .. Len(f) : f[i].via = {} =>
            f[i].score = Rrf(v, k, f[i].chunk) /\ f[i].score > 0
    BY <1>19, <2>2
  <2>. QED  BY <2>3, <2>4, Zenon DEF Scored
<1>29. AddedBehind(f, mode)
  BY <1>19, <1>26 DEF AddedBehind
<1>30. Answer(f, v, k, topK, mode)
  BY <1>18, <1>19, <1>27, <1>28, <1>29 DEF Answer
<1>31. ASSUME NEW i \in 1 .. n
       PROVE  f[i].chunk \in DOMAIN origin \/ \E j \in 1 .. m : f[i].chunk = hits[j].chunk
  <2>1. CASE \E j \in 1 .. m : hits[j] = f[i]
    BY <2>1
  <2>2. CASE \E c \in DOMAIN origin : f[i] = e[c]
    BY <1>11, <2>2
  <2>. QED  BY <1>20, <1>24, <2>1, <2>2
<1>32. ChunksFrom(f, DOMAIN origin, hits)
  BY <1>1, <1>19, <1>31 DEF ChunksFrom
<1>. QED  BY <1>16, <1>30, <1>32

-----------------------------------------------------------------------------
(* The steps *)

(* The chunks that are there are finitely many, one at a place.              *)
LEMMA ChunksAre ==
  ASSUME SearchTyped
  PROVE  /\ ChunksOf(shelf) \in SUBSET Chunk /\ IsFiniteSet(ChunksOf(shelf))
         /\ \A c, e \in ChunksOf(shelf) : c.doc = e.doc /\ c.idx = e.idx => c = e
<1>1. PICK S : S = {e \in Documents : shelf[e] > 0}
  OBVIOUS
<1>2. S \in SUBSET Documents /\ IsFiniteSet(S)
  BY <1>1, SearchAssumption, FS_Subset
<1>3. PICK rows : rows = [d \in S |-> {[doc |-> d, idx |-> i, version |-> shelf[d]] : i \in 1 .. Count[d]}]
  OBVIOUS
<1>4. PICK T : T = {rows[d] : d \in S}
  OBVIOUS
<1>5. ChunksOf(shelf) = UNION T
  BY <1>1, <1>3, <1>4 DEF ChunksOf
<1>6. ASSUME NEW d \in S
      PROVE  /\ IsFiniteSet(rows[d])
             /\ \A c \in rows[d] : c \in Chunk /\ c.doc = d /\ c.version = shelf[d]
  <2>1. PICK n \in Nat : n = Count[d]
    BY <1>2, SearchAssumption
  <2>2. d \in Documents /\ shelf[d] \in Nat
    BY <1>2 DEF SearchTyped
  <2>3. PICK f : f = [i \in 1 .. n |-> [doc |-> d, idx |-> i, version |-> shelf[d]]]
    OBVIOUS
  <2>4. rows[d] = {f[i] : i \in 1 .. n}
    BY <1>3, <2>1, <2>3
  <2>5. IsFiniteSet({f[i] : i \in 1 .. n})
    <3>1. IsFiniteSet(1 .. n) /\ DOMAIN f = 1 .. n /\ f = [i \in 1 .. n |-> f[i]]
      BY <2>3, Interval
    <3>. QED  BY <3>1, ImageIsFinite
  <2>6. \A i \in 1 .. n : f[i] \in Chunk /\ f[i].doc = d /\ f[i].version = shelf[d]
    BY <2>2, <2>3 DEF Chunk
  <2>. QED  BY <2>4, <2>5, <2>6
<1>7. IsFiniteSet(T)
  <2>1. DOMAIN rows = S /\ rows = [d \in S |-> rows[d]]
    BY <1>3
  <2>. QED  BY <1>2, <1>4, <2>1, ImageIsFinite
<1>8. IsFiniteSet(UNION T)
  <2>1. \A U \in T : IsFiniteSet(U)
    BY <1>4, <1>6
  <2>. QED  BY <1>7, <2>1, FS_UNION
<1>9. \A c \in ChunksOf(shelf) : c \in Chunk /\ c.version = shelf[c.doc]
  BY <1>4, <1>5, <1>6
<1>10. \A c, e \in Chunk : c.doc = e.doc /\ c.idx = e.idx /\ c.version = e.version => c = e
  <2>1. ASSUME NEW c \in Chunk, NEW e \in Chunk, c.doc = e.doc, c.idx = e.idx, c.version = e.version
        PROVE  c = e
    <3>1. /\ c = [doc |-> c.doc, idx |-> c.idx, version |-> c.version]
          /\ e = [doc |-> e.doc, idx |-> e.idx, version |-> e.version]
      BY DEF Chunk
    <3>. QED  BY <2>1, <3>1
  <2>. QED  BY <2>1
<1>. QED  BY <1>5, <1>8, <1>9, <1>10

(* A search that is under way.                                               *)
LEMMA SearchIs ==
  ASSUME SearchInv, search.at # "none"
  PROVE  /\ search \in Searches /\ SearchStands(search)
         /\ search.topK \in Nat /\ search.topK <= MaxTopK
<1>1. search \in Searches
  BY DEF SearchInv, SearchTyped, Absent
<1>2. search # Absent
  BY DEF Absent
<1>3. search.topK \in Nat /\ search.topK <= MaxTopK
  BY <1>1, SearchAssumption DEF Searches
<1>. QED  BY <1>1, <1>2, <1>3 DEF SearchInv

(* A leg's answer.                                                           *)
LEMMA RankingsAre ==
  ASSUME SearchInv, search.at # "none", NEW l \in Rankings
  PROVE  /\ Leg(l) /\ (search.mode # "hybrid" => Len(l) <= search.topK)
         /\ \A i \in 1 .. Len(l) : l[i] \in ChunksOf(shelf)
<1>1. PICK t \in Nat, top \in Nat : t = search.topK /\ top = MaxTopK /\ t <= top
  BY SearchIs, SearchAssumption
<1>2. PICK n \in Nat : n = (IF search.mode = "hybrid" THEN 3 * t ELSE t)
  BY <1>1
<1>3. n <= 3 * top /\ (search.mode # "hybrid" => n = t)
  BY <1>1, <1>2
<1>0. PICK S \in SUBSET ChunksOf(shelf) : \E s \in SetToSeqs(S) : l = First(s, n)
  BY <1>1, <1>2 DEF Rankings
<1>4. PICK s \in SetToSeqs(S) : l = First(s, n)
  BY <1>0
<1>5. ChunksOf(shelf) \in SUBSET Chunk /\ IsFiniteSet(S)
  BY ChunksAre, <1>4, FS_Subset DEF SearchInv
<1>6. s \in Seq(S) /\ \A i, j \in 1 .. Len(s) : i # j => s[i] # s[j]
  BY <1>4, <1>5, SetToSeqsProperties
<1>7. PICK m \in Nat : m = Len(s)
  BY <1>6
<1>8. /\ l \in Seq(S) /\ Len(l) = IF n < m THEN n ELSE m
      /\ \A i \in 1 .. Len(l) : l[i] = s[i]
  BY <1>2, <1>4, <1>6, <1>7, FirstProperties
<1>9. PICK b \in Nat : b = Len(l) /\ b <= n /\ b <= m
  BY <1>8
<1>10. \A i \in 1 .. b : i \in 1 .. m /\ l[i] = s[i] /\ l[i] \in S
  BY <1>8, <1>9
<1>11. OnceEach(l)
  BY <1>6, <1>7, <1>9, <1>10 DEF OnceEach
<1>12. l \in Seq(Chunk)
  <2>1. \A c \in S : c \in Chunk
    BY <1>4, <1>5
  <2>. QED  BY <1>8, <2>1, SeqWider
<1>13. b <= 3 * top /\ (search.mode # "hybrid" => b <= t)
  BY <1>3, <1>9
<1>14. \A i \in 1 .. b : l[i] \in ChunksOf(shelf)
  BY <1>4, <1>10
<1>. QED  BY <1>1, <1>9, <1>11, <1>12, <1>13, <1>14 DEF Leg

(* A search that stands goes on while the store rests.                       *)
LEMMA SearchGoesOn ==
  ASSUME SearchInv, NEW s \in Searches, Proceed(s), SearchStands(s)
  PROVE  SearchInv'
<1>1. search' = s /\ shelf' = shelf /\ changes' = changes
  BY DEF Proceed
<1>2. SearchTyped'
  BY <1>1 DEF SearchInv, SearchTyped
<1>3. ChunksOf(shelf)' = ChunksOf(shelf)
  BY <1>1 DEF ChunksOf
<1>4. SearchStands(s)'
  BY <1>1, <1>3 DEF SearchStands, Fresh
<1>. QED  BY <1>1, <1>2, <1>4 DEF SearchInv
(* The answers of the legs.                                                  *)
LEMMA LegsKeep ==
  ASSUME SearchInv, VectorLeg \/ KeywordLeg
  PROVE  SearchInv'
<1>1. search.at \in {"vector", "keyword"}
  BY DEF VectorLeg, KeywordLeg
<1>2. PICK s \in Searches : s = search /\ SearchStands(s) /\ s.topK \in Nat
  BY <1>1, SearchIs
<1>3. /\ Leg(s.vector) /\ Leg(s.keyword) /\ s.hits = <<>>
      /\ s.at = "vector" => s.keyword = <<>>
      /\ s.at = "keyword" /\ s.mode # "hybrid" => s.vector = <<>>
      /\ s.still => /\ \A i \in 1 .. Len(s.vector) : s.vector[i] \in ChunksOf(shelf)
                    /\ \A i \in 1 .. Len(s.keyword) : s.keyword[i] \in ChunksOf(shelf)
  BY <1>1, <1>2 DEF SearchStands
<1>4. ASSUME NEW l \in Rankings
      PROVE  /\ Leg(l) /\ (s.mode # "hybrid" => Len(l) <= s.topK)
             /\ \A i \in 1 .. Len(l) : l[i] \in ChunksOf(shelf)
  BY <1>1, <1>2, RankingsAre
<1>5. ASSUME VectorLeg, s.mode = "hybrid"
      PROVE  SearchInv'
  <2>1. PICK l \in Rankings : Proceed([search EXCEPT !.vector = l, !.at = "keyword"])
    BY <1>2, <1>5 DEF VectorLeg
  <2>2. PICK q : q = [s EXCEPT !.vector = l, !.at = "keyword"]
    OBVIOUS
  <2>3. Leg(l) /\ l \in Seq(Chunk)
    BY <1>4 DEF Leg
  <2>4. q \in Searches
    BY <2>2, <2>3 DEF Searches
  <2>5. /\ q.at = "keyword" /\ q.mode = "hybrid" /\ q.vector = l /\ q.keyword = s.keyword
        /\ q.hits = <<>> /\ q.topK = s.topK
    BY <1>3, <1>5, <2>2 DEF Searches
  <2>6. Len(<<>>) = 0 /\ Falling(<<>>) /\ AddedBehind(<<>>, q.mode) /\ Fresh(<<>>)
    BY DEF Falling, AddedBehind, Fresh
  <2>7. Scored(<<>>, q.vector, q.keyword, q.mode) /\ InTurn(<<>>, q.vector, q.keyword)
    BY <2>6 DEF Scored, InTurn
  <2>8. s.still = q.still
    BY <2>2 DEF Searches
  <2>9. SearchStands(q)
    BY <1>2, <1>3, <1>4, <2>3, <2>5, <2>6, <2>7, <2>8 DEF SearchStands
  <2>. QED  BY <1>2, <2>1, <2>2, <2>4, <2>9, SearchGoesOn
<1>6. ASSUME NEW l \in Rankings, NEW lit \in BOOLEAN, NEW q \in Searches, q.at = "filter",
             q.mode # "hybrid", q.mode = s.mode, q.topK = s.topK, q.still = s.still,
             q.hits \in HitsOf(l, lit),
             (q.vector = l /\ q.keyword = <<>>) \/ (q.vector = <<>> /\ q.keyword = l),
             Leg(q.vector), Leg(q.keyword)
      PROVE  SearchStands(q)
  <2>1. Stand(q.hits, q.vector, q.keyword, q.topK, q.mode)
    <3>1. q.mode \in {"vector", "keyword"}
      BY <1>6 DEF Searches
    <3>2. Leg(l) /\ Len(l) <= q.topK /\ q.topK \in Nat
      BY <1>2, <1>4, <1>6
    <3>. QED  BY <1>6, <3>1, <3>2, HitsOfStand
  <2>2. Found(q.vector, q.keyword) = ToSet(l)
    <3>1. ToSet(<<>>) = {}
      BY DEF ToSet
    <3>. QED  BY <1>6, <3>1 DEF Found
  <2>3. \A c \in ToSet(l) : c \in ChunksOf(shelf)
    <3>1. l \in Seq(Chunk)
      BY <1>4 DEF Leg
    <3>. QED  BY <1>4, <3>1, Elements
  <2>4. Fresh(q.hits)
    BY <2>1, <2>2, <2>3 DEF Fresh, Stand, Kept
  <2>5. /\ \A i \in 1 .. Len(q.vector) : q.vector[i] \in ChunksOf(shelf)
        /\ \A i \in 1 .. Len(q.keyword) : q.keyword[i] \in ChunksOf(shelf)
    <3>1. \A i \in 1 .. Len(<<>>) : <<>>[i] \in ChunksOf(shelf)
      OBVIOUS
    <3>. QED  BY <1>4, <1>6, <3>1
  <2>6. AddedBehind(q.hits, q.mode)
    BY <2>1 DEF AddedBehind, Stand, Kept
  <2>. QED  BY <1>6, <2>1, <2>4, <2>5, <2>6 DEF SearchStands, Stand, Kept
<1>7. ASSUME VectorLeg, s.mode # "hybrid"
      PROVE  SearchInv'
  <2>2. PICK l \in Rankings : \E h \in HitsOf(l, FALSE) :
           Proceed([search EXCEPT !.vector = l, !.at = "filter", !.hits = h])
    BY <1>2, <1>7 DEF VectorLeg
  <2>1. PICK h \in HitsOf(l, FALSE) :
           Proceed([search EXCEPT !.vector = l, !.at = "filter", !.hits = h])
    BY <2>2
  <2>3. PICK q : q = [s EXCEPT !.vector = l, !.at = "filter", !.hits = h]
    OBVIOUS
  <2>4. Leg(l) /\ l \in Seq(Chunk) /\ s.keyword = <<>>
    BY <1>2, <1>3, <1>4, <1>7 DEF Leg, VectorLeg
  <2>5. h \in Seq(Hits)
    <3>1. s.mode \in {"vector", "keyword"}
      BY <1>7 DEF Searches
    <3>2. Stand(h, l, <<>>, s.topK, s.mode)
      BY <1>2, <1>4, <1>7, <3>1, HitsOfStand
    <3>. QED  BY <3>2 DEF Stand, Kept
  <2>6. q \in Searches
    BY <2>3, <2>4, <2>5 DEF Searches
  <2>7. /\ q.at = "filter" /\ q.mode = s.mode /\ q.topK = s.topK /\ q.still = s.still
        /\ q.hits = h /\ q.vector = l /\ q.keyword = <<>>
    BY <2>3, <2>4 DEF Searches
  <2>8. SearchStands(q)
    BY <1>3, <1>6, <1>7, <2>1, <2>4, <2>6, <2>7
  <2>. QED  BY <1>2, <2>1, <2>3, <2>6, <2>8, SearchGoesOn
<1>8. ASSUME KeywordLeg, s.mode # "hybrid"
      PROVE  SearchInv'
  <2>2. PICK l \in Rankings : \E h \in HitsOf(l, TRUE) :
           Proceed([search EXCEPT !.keyword = l, !.at = "filter", !.hits = h])
    BY <1>2, <1>8 DEF KeywordLeg
  <2>1. PICK h \in HitsOf(l, TRUE) :
           Proceed([search EXCEPT !.keyword = l, !.at = "filter", !.hits = h])
    BY <2>2
  <2>3. PICK q : q = [s EXCEPT !.keyword = l, !.at = "filter", !.hits = h]
    OBVIOUS
  <2>4. Leg(l) /\ l \in Seq(Chunk) /\ s.vector = <<>>
    BY <1>2, <1>3, <1>4, <1>8 DEF Leg, KeywordLeg
  <2>5. h \in Seq(Hits)
    <3>1. s.mode \in {"vector", "keyword"}
      BY <1>8 DEF Searches
    <3>2. Stand(h, <<>>, l, s.topK, s.mode)
      BY <1>2, <1>4, <1>8, <3>1, HitsOfStand
    <3>. QED  BY <3>2 DEF Stand, Kept
  <2>6. q \in Searches
    BY <2>3, <2>4, <2>5 DEF Searches
  <2>7. /\ q.at = "filter" /\ q.mode = s.mode /\ q.topK = s.topK /\ q.still = s.still
        /\ q.hits = h /\ q.vector = <<>> /\ q.keyword = l
    BY <2>3, <2>4 DEF Searches
  <2>8. SearchStands(q)
    BY <1>3, <1>6, <1>8, <2>1, <2>4, <2>6, <2>7
  <2>. QED  BY <1>2, <2>1, <2>3, <2>6, <2>8, SearchGoesOn
<1>9. ASSUME KeywordLeg, s.mode = "hybrid"
      PROVE  SearchInv'
  <2>1. PICK l \in Rankings : Proceed([search EXCEPT !.keyword = l, !.at = "filter",
                                                     !.hits = Fused(s.vector, l, s.topK)])
    BY <1>2, <1>9 DEF KeywordLeg
  <2>2. PICK h : h = Fused(s.vector, l, s.topK)
    OBVIOUS
  <2>3. PICK q : q = [s EXCEPT !.keyword = l, !.at = "filter", !.hits = h]
    OBVIOUS
  <2>4. Leg(l) /\ l \in Seq(Chunk)
    BY <1>4 DEF Leg
  <2>5. Stand(h, s.vector, l, s.topK, "hybrid") /\ Best(h, s.vector, l, s.topK)
    BY <1>2, <1>3, <2>2, <2>4, FusedStands
  <2>6. q \in Searches
    BY <2>3, <2>4, <2>5 DEF Searches, Stand, Kept
  <2>7. /\ q.at = "filter" /\ q.mode = "hybrid" /\ q.topK = s.topK /\ q.still = s.still
        /\ q.hits = h /\ q.vector = s.vector /\ q.keyword = l
    BY <1>9, <2>3 DEF Searches
  <2>8. ASSUME s.still
        PROVE  Fresh(h)
    <3>1. \A c \in ToSet(l) : c \in ChunksOf(shelf)
      BY <1>4, <2>4, Elements
    <3>2. \A c \in ToSet(s.vector) : c \in ChunksOf(shelf)
      <4>1. s.vector \in Seq(Chunk)
        BY <1>3 DEF Leg
      <4>. QED  BY <1>3, <2>8, <4>1, Elements
    <3>3. \A c \in Found(s.vector, l) : c \in ChunksOf(shelf)
      BY <3>1, <3>2 DEF Found
    <3>. QED  BY <2>5, <3>3 DEF Fresh, Stand, Kept
  <2>9. AddedBehind(h, "hybrid")
    BY <2>5 DEF AddedBehind, Stand, Kept
  <2>10. SearchStands(q)
    BY <1>3, <1>4, <2>4, <2>5, <2>7, <2>8, <2>9 DEF SearchStands, Stand, Kept
  <2>. QED  BY <1>2, <2>1, <2>2, <2>3, <2>6, <2>10, SearchGoesOn
<1>. QED  BY <1>5, <1>7, <1>8, <1>9

(* The hits that pass the filter.                                            *)
LEMMA FilterKeeps ==
  ASSUME SearchInv, ApplyFilter
  PROVE  SearchInv'
<1>1. search.at = "filter"
  BY DEF ApplyFilter
<1>2. PICK s \in Searches : s = search /\ SearchStands(s) /\ s.topK \in Nat
  BY <1>1, SearchIs
<1>3. PICK stay \in SUBSET (1 .. Len(s.hits)) :
         Proceed([s EXCEPT !.at = "expand", !.hits = IF s.filter THEN AtPlaces(s.hits, stay) ELSE s.hits])
  <2>1. {i \in 1 .. Len(s.hits) : shelf[s.hits[i].chunk.doc] > 0 /\ s.hits[i].chunk.doc \in Filtered}
           \in SUBSET (1 .. Len(s.hits))
    OBVIOUS
  <2>. QED  BY <1>2, <2>1 DEF ApplyFilter
<1>4. PICK g : g = IF s.filter THEN AtPlaces(s.hits, stay) ELSE s.hits
  OBVIOUS
<1>5. PICK q : q = [s EXCEPT !.at = "expand", !.hits = g]
  OBVIOUS
<1>6. s.hits \in Seq(Hits)
  BY DEF Searches
<1>7. /\ Len(g) <= s.topK /\ Falling(g) /\ Scored(g, s.vector, s.keyword, s.mode)
      /\ AddedBehind(g, s.mode) /\ InTurn(g, s.vector, s.keyword)
      /\ \A i \in 1 .. Len(g) : g[i].via = {}
      /\ \A i \in 1 .. Len(g) : \E j \in 1 .. Len(s.hits) : g[i] = s.hits[j]
      /\ g \in Seq(Hits)
  <2>1. CASE ~s.filter
    BY <1>1, <1>2, <1>4, <1>6, <2>1 DEF SearchStands
  <2>2. CASE s.filter
    <3>1. Kept(s.hits, s.vector, s.keyword, s.topK, s.mode)
      BY <1>1, <1>2, <1>6 DEF SearchStands, Kept
    <3>2. PICK a : a = AtPlaces(s.hits, stay)
      OBVIOUS
    <3>5. PICK hits, v, k, topK, mode :
             /\ topK \in Nat /\ hits = s.hits /\ v = s.vector /\ k = s.keyword /\ topK = s.topK
             /\ mode = s.mode /\ Kept(hits, v, k, topK, mode)
             /\ stay \in SUBSET (1 .. Len(hits)) /\ a = AtPlaces(hits, stay)
      BY <1>2, <3>1, <3>2
    <3>6. Kept(AtPlaces(hits, stay), v, k, topK, mode) /\ DrawnFrom(AtPlaces(hits, stay), hits)
      BY <3>5, FilterStands, Zenon
    <3>3. /\ Kept(a, s.vector, s.keyword, s.topK, s.mode)
          /\ \A i \in 1 .. Len(a) : \E j \in 1 .. Len(s.hits) : a[i] = s.hits[j]
      BY <3>5, <3>6 DEF DrawnFrom
    <3>4. g = a
      BY <1>4, <2>2, <3>2
    <3>. QED  BY <3>3, <3>4 DEF Kept, AddedBehind
  <2>. QED  BY <2>1, <2>2
<1>8. q \in Searches
  BY <1>5, <1>7 DEF Searches
<1>9. /\ q.at = "expand" /\ q.mode = s.mode /\ q.topK = s.topK /\ q.still = s.still
      /\ q.hits = g /\ q.vector = s.vector /\ q.keyword = s.keyword
  BY <1>5 DEF Searches
<1>10. s.still => Fresh(g)
  BY <1>2, <1>7 DEF SearchStands, Fresh
<1>11. SearchStands(q)
  BY <1>2, <1>7, <1>9, <1>10 DEF SearchStands
<1>. QED  BY <1>2, <1>3, <1>4, <1>5, <1>8, <1>11, SearchGoesOn
(* The expansion.                                                            *)
LEMMA ExpandKeeps ==
  ASSUME SearchInv, Expand
  PROVE  SearchInv'
<1>1. search.at = "expand"
  BY DEF Expand
<1>2. PICK s \in Searches : s = search /\ SearchStands(s) /\ s.topK \in Nat
  BY <1>1, SearchIs
<1>3. s.hits \in Seq(Hits)
  BY DEF Searches
<1>4. ASSUME NEW h \in Seq(Hits), NEW q, q = [s EXCEPT !.at = "done", !.hits = h],
             Answer(h, s.vector, s.keyword, s.topK, s.mode), s.still => Fresh(h),
             ~s.expand => InTurn(h, s.vector, s.keyword)
      PROVE  q \in Searches /\ SearchStands(q)
  <2>1. q \in Searches
    BY <1>4 DEF Searches
  <2>2. /\ q.at = "done" /\ q.mode = s.mode /\ q.topK = s.topK /\ q.still = s.still
        /\ q.hits = h /\ q.vector = s.vector /\ q.keyword = s.keyword /\ q.expand = s.expand
    BY <1>4 DEF Searches
  <2>3. SearchStands(q)
    BY <1>2, <1>4, <2>2 DEF SearchStands, Answer
  <2>. QED  BY <2>1, <2>3
<1>5. ASSUME Proceed([search EXCEPT !.at = "done"])
      PROVE  SearchInv'
  <2>1. PICK q : q = [s EXCEPT !.at = "done", !.hits = s.hits]
    OBVIOUS
  <2>2. Proceed(q)
    <3>1. [s EXCEPT !.at = "done"] = [s EXCEPT !.at = "done", !.hits = s.hits]
      BY DEF Searches
    <3>. QED  BY <1>2, <1>5, <2>1, <3>1
  <2>3. /\ Answer(s.hits, s.vector, s.keyword, s.topK, s.mode) /\ (s.still => Fresh(s.hits))
        /\ InTurn(s.hits, s.vector, s.keyword)
    BY <1>1, <1>2, <1>3 DEF SearchStands, Answer
  <2>. QED  BY <1>3, <1>4, <2>1, <2>2, <2>3, SearchGoesOn
<1>6. ASSUME s.expand, NEW found \in SUBSET {c \in ChunksOf(shelf) :
                                     <<c.doc, c.idx>> \notin {<<h.chunk.doc, h.chunk.idx>> :
                                                                h \in ToSet(s.hits)}},
             NEW origin \in [found -> 1 .. Len(s.hits)],
             Proceed([s EXCEPT !.at = "done",
                               !.hits = Reranked(s.hits, FromOrigins(s.hits, origin), s.topK)])
      PROVE  SearchInv'
  <2>1. ChunksOf(shelf) \in SUBSET Chunk /\ IsFiniteSet(ChunksOf(shelf))
    BY ChunksAre DEF SearchInv
  <2>2. found \in SUBSET ChunksOf(shelf) /\ IsFiniteSet(found) /\ DOMAIN origin = found
    BY <2>1, FS_Subset
  <2>3. ASSUME NEW c \in found, NEW i \in 1 .. Len(s.hits)
        PROVE  s.hits[i].chunk # c
    <3>1. s.hits[i] \in ToSet(s.hits)
      BY <1>3, Elements
    <3>. QED  BY <3>1
  <2>4. Origin(origin, s.hits)
    BY <2>1, <2>2, <2>3 DEF Origin
  <2>5. Kept(s.hits, s.vector, s.keyword, s.topK, s.mode)
    BY <1>1, <1>2, <1>3 DEF SearchStands, Kept
  <2>6. PICK h : h = Reranked(s.hits, FromOrigins(s.hits, origin), s.topK)
    OBVIOUS
  <2>7. /\ Answer(h, s.vector, s.keyword, s.topK, s.mode)
        /\ \A i \in 1 .. Len(h) : \/ h[i].chunk \in found
                                  \/ \E j \in 1 .. Len(s.hits) : h[i].chunk = s.hits[j].chunk
    <3>1. PICK hits, v, k, topK, mode :
             /\ topK \in Nat /\ hits = s.hits /\ v = s.vector /\ k = s.keyword /\ topK = s.topK
             /\ mode = s.mode /\ Kept(hits, v, k, topK, mode) /\ Origin(origin, hits)
      BY <1>2, <2>4, <2>5
    <3>2. /\ Answer(Reranked(hits, FromOrigins(hits, origin), topK), v, k, topK, mode)
          /\ ChunksFrom(Reranked(hits, FromOrigins(hits, origin), topK), DOMAIN origin, hits)
      BY <3>1, RerankedStands, Zenon
    <3>3. h = Reranked(hits, FromOrigins(hits, origin), topK) /\ DOMAIN origin = found
      BY <2>2, <2>6, <3>1
    <3>. QED  BY <3>1, <3>2, <3>3 DEF ChunksFrom
  <2>8. s.still => Fresh(h)
    BY <1>2, <2>2, <2>7 DEF SearchStands, Fresh
  <2>9. PICK q : q = [s EXCEPT !.at = "done", !.hits = h]
    OBVIOUS
  <2>10. h \in Seq(Hits)
    BY <2>7 DEF Answer
  <2>. QED  BY <1>4, <1>6, <2>6, <2>7, <2>8, <2>9, <2>10, SearchGoesOn
<1>. QED  BY <1>2, <1>5, <1>6 DEF Expand

(* A search begins, or is refused, or is answered.                           *)
LEMMA EndsKeep ==
  ASSUME SearchInv, BeginSearch \/ Answered
  PROVE  SearchInv'
<1>1. CASE search' = Absent /\ shelf' = shelf /\ changes' = changes
  BY <1>1 DEF SearchInv, SearchTyped
<1>2. CASE Answered
  BY <1>1, <1>2 DEF Answered, Proceed
<1>3. CASE BeginSearch
  <2>1. PICK mode \in {"vector", "keyword", "hybrid"}, k \in TopK, f \in BOOLEAN, g \in BOOLEAN :
           IF k \in 1 .. MaxTopK
           THEN Proceed([at |-> IF mode = "keyword" THEN "keyword" ELSE "vector",
                         mode |-> mode, topK |-> k, filter |-> f, expand |-> g,
                         vector |-> <<>>, keyword |-> <<>>, hits |-> <<>>, still |-> TRUE])
           ELSE Proceed(Absent)
    BY <1>3 DEF BeginSearch
  <2>2. CASE k \notin 1 .. MaxTopK
    BY <1>1, <2>1, <2>2 DEF Proceed
  <2>3. CASE k \in 1 .. MaxTopK
    <3>1. PICK at \in {"vector", "keyword"} : at = IF mode = "keyword" THEN "keyword" ELSE "vector"
      OBVIOUS
    <3>2. PICK q : q = [at |-> at, mode |-> mode, topK |-> k, filter |-> f, expand |-> g,
                        vector |-> <<>>, keyword |-> <<>>, hits |-> <<>>, still |-> TRUE]
      OBVIOUS
    <3>3. Proceed(q)
      BY <2>1, <2>3, <3>1, <3>2
    <3>4. <<>> \in Seq(Chunk) /\ <<>> \in Seq(Hits) /\ Len(<<>>) = 0
      BY EmptySeq
    <3>5. q \in Searches
      BY <2>3, <3>2, <3>4 DEF Searches
    <3>6. Leg(<<>>)
      BY <3>4, SearchAssumption DEF Leg, OnceEach
    <3>7. /\ Falling(<<>>) /\ AddedBehind(<<>>, q.mode) /\ Fresh(<<>>)
          /\ Scored(<<>>, q.vector, q.keyword, q.mode) /\ InTurn(<<>>, q.vector, q.keyword)
      BY <3>4 DEF Falling, AddedBehind, Fresh, Scored, InTurn
    <3>8. /\ q.at \in {"vector", "keyword"} /\ q.vector = <<>> /\ q.keyword = <<>> /\ q.hits = <<>>
          /\ q.topK = k /\ 0 <= k
      BY <2>3, <3>2, SearchAssumption
    <3>9. SearchStands(q)
      BY <3>4, <3>6, <3>7, <3>8 DEF SearchStands
    <3>. QED  BY <3>3, <3>5, <3>9, SearchGoesOn
  <2>. QED  BY <2>2, <2>3
<1>. QED  BY <1>2, <1>3

(* A writer's step.                                                          *)
LEMMA WritesKeep ==
  ASSUME SearchInv, \E d \in Documents : Put(d) \/ Drop(d)
  PROVE  SearchInv'
<1>1. PICK d \in Documents, version \in Nat : Write(d, version)
  <2>1. changes \in Nat
    BY DEF SearchInv, SearchTyped
  <2>2. PICK d \in Documents : Put(d) \/ Drop(d)
    OBVIOUS
  <2>3. changes + 2 \in Nat /\ 0 \in Nat
    BY <2>1
  <2>. QED  BY <2>2, <2>3 DEF Put, Drop
<1>2. /\ changes' = changes + 1 /\ shelf' = [shelf EXCEPT ![d] = version]
      /\ search' = IF search = Absent THEN search ELSE [search EXCEPT !.still = FALSE]
  BY <1>1 DEF Write
<1>3. shelf' \in [Documents -> Nat] /\ changes' \in Nat
  BY <1>2 DEF SearchInv, SearchTyped
<1>4. CASE search = Absent
  BY <1>2, <1>3, <1>4 DEF SearchInv, SearchTyped
<1>5. CASE search # Absent
  <2>1. PICK s \in Searches : s = search /\ SearchStands(s)
    BY <1>5 DEF SearchInv, SearchTyped
  <2>2. PICK q : q = [s EXCEPT !.still = FALSE]
    OBVIOUS
  <2>3. q \in Searches /\ search' = q
    BY <1>2, <1>5, <2>1, <2>2 DEF Searches
  <2>4. /\ q.at = s.at /\ q.mode = s.mode /\ q.topK = s.topK /\ q.still = FALSE
        /\ q.hits = s.hits /\ q.vector = s.vector /\ q.keyword = s.keyword
        /\ q.expand = s.expand
    BY <2>2 DEF Searches
  <2>5. SearchStands(q)'
    BY <2>1, <2>4 DEF SearchStands
  <2>. QED  BY <1>3, <2>3, <2>5 DEF SearchInv, SearchTyped
<1>. QED  BY <1>4, <1>5

-----------------------------------------------------------------------------
(* The theorems *)

(* A store before the first search.                                          *)
LEMMA SearchBegins == SearchInit => SearchInv
<1>. SUFFICES ASSUME SearchInit PROVE SearchInv
  OBVIOUS
<1>1. shelf \in [Documents -> 0 .. 1] /\ search = Absent /\ changes = 0
  BY DEF SearchInit
<1>2. shelf \in [Documents -> Nat]
  BY <1>1
<1>. QED  BY <1>1, <1>2 DEF SearchInv, SearchTyped

(* No query and no writer disturbs the invariant.                            *)
LEMMA SearchStepsOn == SearchInv /\ [SearchNext]_searchVars => SearchInv'
<1>. SUFFICES ASSUME SearchInv, [SearchNext]_searchVars PROVE SearchInv'
  OBVIOUS
<1>1. CASE UNCHANGED searchVars
  <2>1. shelf' = shelf /\ search' = search /\ changes' = changes
    BY <1>1 DEF searchVars
  <2>2. ChunksOf(shelf)' = ChunksOf(shelf)
    BY <2>1 DEF ChunksOf
  <2>3. SearchTyped' /\ (search = Absent => SearchInv')
    BY <2>1 DEF SearchInv, SearchTyped
  <2>4. CASE search # Absent
    <3>1. PICK s : s = search /\ SearchStands(s)
      BY <2>4 DEF SearchInv
    <3>2. SearchStands(s)'
      BY <2>2, <3>1 DEF SearchStands, Fresh
    <3>. QED  BY <2>1, <2>3, <3>1, <3>2 DEF SearchInv
  <2>. QED  BY <2>3, <2>4
<1>2. CASE \E d \in Documents : Put(d) \/ Drop(d)
  BY <1>2, WritesKeep
<1>3. CASE BeginSearch \/ Answered
  BY <1>3, EndsKeep
<1>4. CASE VectorLeg \/ KeywordLeg
  BY <1>4, LegsKeep
<1>5. CASE ApplyFilter
  BY <1>5, FilterKeeps
<1>6. CASE Expand
  BY <1>6, ExpandKeeps
<1>. QED  BY <1>1, <1>2, <1>3, <1>4, <1>5, <1>6, Zenon DEF SearchNext

(* What is true of the search is what its answer promises.                   *)
LEMMA SearchIsFair == SearchInv => RankedFairly
<1>. SUFFICES ASSUME SearchInv, search # Absent, search.at \in {"filter", "expand", "done"}
              PROVE  RankedFairly
  BY DEF RankedFairly
<1>1. PICK s \in Searches : s = search /\ SearchStands(s) /\ s.topK \in Nat
  BY SearchIs
<1>2. PICK h \in Seq(Hits) : h = s.hits
  BY DEF Searches
<1>3. PICK n \in Nat : n = Len(h) /\ n <= s.topK
  BY <1>1, <1>2 DEF SearchStands
<1>4. PICK v, k : v = s.vector /\ k = s.keyword /\ Leg(v) /\ Leg(k)
  BY <1>1 DEF SearchStands
<1>5. /\ \A i, j \in 1 .. n : i # j => h[i].chunk # h[j].chunk
      /\ \A i, j \in 1 .. n : i < j => h[j].score <= h[i].score
      /\ \A i, j \in 1 .. n : h[i].via = {} /\ h[j].via = {} =>
            (Beats(v, k, h[i].chunk, h[j].chunk) => h[j].score <= h[i].score)
      /\ s.mode = "hybrid" => \A i \in 1 .. n : h[i].via = {} => h[i].score = Rrf(v, k, h[i].chunk)
      /\ \A i \in 1 .. n : s.mode = "hybrid" \/ h[i].score > 0 =>
            \A c \in h[i].via : \E j \in 1 .. n : j < i /\ h[j].chunk = c
      /\ ~s.expand => InTurn(h, v, k)
      /\ \A i \in 1 .. n : h[i].score \in Int
  <2>1. \A i \in 1 .. n : h[i] \in Hits
    BY <1>3
  <2>2. \A i \in 1 .. n : h[i].score \in Int
    BY <2>1 DEF Hits
  <2>3. PICK mode : mode = s.mode /\ Falling(h) /\ Scored(h, v, k, mode) /\ AddedBehind(h, mode)
    BY <1>1, <1>2, <1>4 DEF SearchStands
  <2>4. /\ \A i, j \in 1 .. n : i # j => h[i].chunk # h[j].chunk
        /\ \A i, j \in 1 .. n : i < j => h[j].score <= h[i].score
    BY <1>3, <2>3 DEF Falling
  <2>5. /\ \A i, j \in 1 .. n : h[i].via = {} /\ h[j].via = {} =>
              (Beats(v, k, h[i].chunk, h[j].chunk) => h[j].score <= h[i].score)
        /\ mode = "hybrid" => \A i \in 1 .. n : h[i].via = {} => h[i].score = Rrf(v, k, h[i].chunk)
    BY <1>3, <2>3 DEF Scored
  <2>6. \A i \in 1 .. n : mode = "hybrid" \/ h[i].score > 0 =>
            \A c \in h[i].via : \E j \in 1 .. n : j < i /\ h[j].chunk = c
    BY <1>3, <2>3 DEF AddedBehind
  <2>7. ~s.expand => InTurn(h, v, k)
    BY <1>1, <1>2, <1>4 DEF SearchStands
  <2>. QED  BY <2>2, <2>3, <2>4, <2>5, <2>6, <2>7
<1>6. ASSUME s.still, NEW i \in 1 .. n, NEW j \in 1 .. n, i # j,
             h[i].chunk.doc = h[j].chunk.doc, h[i].chunk.idx = h[j].chunk.idx
      PROVE  FALSE
  <2>1. h[i].chunk \in ChunksOf(shelf) /\ h[j].chunk \in ChunksOf(shelf)
    BY <1>1, <1>2, <1>3, <1>6 DEF SearchStands, Fresh
  <2>2. h[i].chunk = h[j].chunk
    BY <1>6, <2>1, ChunksAre DEF SearchInv
  <2>. QED  BY <1>5, <1>6, <2>2
<1>7. /\ \A i \in 1 .. n : h[i] \in ToSet(h)
      /\ \A a \in ToSet(h) : \E i \in 1 .. n : h[i] = a
  BY <1>3, Elements
<1>8. \A i \in 1 .. n : h[i].chunk \in Chosen
  BY <1>1, <1>2, <1>7 DEF Chosen
<1>9. \A c \in Chosen : \E i \in 1 .. n : h[i].chunk = c
  BY <1>1, <1>2, <1>7, SMTT(30) DEF Chosen
<1>10. \A c, e : Dominates(c, e) <=> Beats(v, k, c, e)
  BY <1>1, <1>4 DEF Dominates, Beats
<1>11. ASSUME NEW i \in 1 .. n, NEW j \in 1 .. n, Dominates(h[i].chunk, h[j].chunk),
              h[i].via = {}, h[j].via = {},
              ~(s.mode # "hybrid" /\ s.expand /\ h[i].score = h[j].score)
       PROVE  i < j
  <2>1. Beats(v, k, h[i].chunk, h[j].chunk)
    BY <1>10, <1>11
  <2>2. CASE ~s.expand
    BY <1>3, <1>5, <1>11, <2>1, <2>2 DEF InTurn
  <2>3. CASE s.expand
    <3>1. h[j].score < h[i].score
      <4>1. CASE s.mode = "hybrid"
        <5>1. /\ Rrf(v, k, h[j].chunk) < Rrf(v, k, h[i].chunk)
          BY <1>4, <2>1, BeatingScores
        <5>. QED  BY <1>5, <1>11, <4>1, <5>1
      <4>2. CASE s.mode # "hybrid"
        <5>1. h[j].score <= h[i].score /\ h[i].score # h[j].score
          BY <1>5, <1>11, <2>1, <2>3, <4>2
        <5>2. h[j].score \in Int /\ h[i].score \in Int
          BY <1>5
        <5>. QED  BY <5>1, <5>2
      <4>. QED  BY <4>1, <4>2
    <3>2. h[j].score \in Int /\ h[i].score \in Int
      BY <1>5
    <3>3. i # j /\ ~(j < i)
      BY <1>5, <3>1, <3>2
    <3>. QED  BY <3>3
  <2>. QED  BY <2>2, <2>3
<1>12. ASSUME NEW i \in 1 .. n, s.mode = "hybrid" \/ h[i].score > 0, NEW c \in h[i].via
       PROVE  c \in Chosen /\ \A j \in 1 .. n : h[j].chunk = c => j < i
  <2>1. PICK j \in 1 .. n : j < i /\ h[j].chunk = c
    BY <1>5, <1>12
  <2>2. \A l \in 1 .. n : h[l].chunk = c => l = j
    BY <1>5, <2>1
  <2>. QED  BY <1>8, <2>1, <2>2
<1>14. ASSUME NEW a \in ToSet(h), s.mode = "hybrid" \/ a.score > 0
       PROVE  a.via \subseteq Chosen
  <2>1. PICK i \in 1 .. n : h[i] = a
    BY <1>7
  <2>. QED  BY <1>12, <1>14, <2>1
<1>13. ASSUME s.at = "filter", s.mode = "hybrid"
       PROVE  /\ Len(h) = Smaller(s.topK, Cardinality(ToSet(v) \cup ToSet(k)))
              /\ \A c \in ToSet(v) \cup ToSet(k), e \in Chosen : Dominates(c, e) => c \in Chosen
              /\ \A a \in ToSet(h) : a.lit <=> a.chunk \in ToSet(k)
  <2>1. Best(h, v, k, s.topK)
    BY <1>1, <1>2, <1>4, <1>13 DEF SearchStands
  <2>2. ASSUME NEW c \in ToSet(v) \cup ToSet(k), NEW e \in Chosen, Dominates(c, e)
        PROVE  c \in Chosen
    <3>1. PICK j \in 1 .. n : h[j].chunk = e
      BY <1>9
    <3>2. Beats(v, k, c, h[j].chunk)
      BY <1>10, <2>2, <3>1
    <3>3. PICK i \in 1 .. n : h[i].chunk = c
      BY <1>3, <2>1, <3>2 DEF Best
    <3>. QED  BY <1>8, <3>3
  <2>3. \A a \in ToSet(h) : a.lit <=> a.chunk \in ToSet(k)
    BY <1>3, <1>7, <2>1 DEF Best
  <2>. QED  BY <2>1, <2>2, <2>3 DEF Best
<1>15. \A i, j \in 1 .. n :
          /\ i # j => h[i].chunk # h[j].chunk
          /\ i # j /\ s.still => ~(h[i].chunk.doc = h[j].chunk.doc /\ h[i].chunk.idx = h[j].chunk.idx)
          /\ i < j => h[j].score <= h[i].score
          /\ Dominates(h[i].chunk, h[j].chunk) /\ h[i].via = {} /\ h[j].via = {} =>
                i < j \/ (s.mode # "hybrid" /\ s.expand /\ h[i].score = h[j].score)
          /\ h[i].chunk \in h[j].via /\ (s.mode = "hybrid" \/ h[j].score > 0) => i < j
  <2>1. ASSUME NEW i \in 1 .. n, NEW j \in 1 .. n
        PROVE  /\ i # j => h[i].chunk # h[j].chunk
               /\ i # j /\ s.still => ~(h[i].chunk.doc = h[j].chunk.doc /\ h[i].chunk.idx = h[j].chunk.idx)
               /\ i < j => h[j].score <= h[i].score
    BY <1>5, <1>6
  <2>2. ASSUME NEW i \in 1 .. n, NEW j \in 1 .. n
        PROVE  Dominates(h[i].chunk, h[j].chunk) /\ h[i].via = {} /\ h[j].via = {} =>
                 i < j \/ (s.mode # "hybrid" /\ s.expand /\ h[i].score = h[j].score)
    BY <1>11
  <2>3. ASSUME NEW i \in 1 .. n, NEW j \in 1 .. n
        PROVE  h[i].chunk \in h[j].via /\ (s.mode = "hybrid" \/ h[j].score > 0) => i < j
    BY <1>12
  <2>. QED  BY <2>1, <2>2, <2>3
<1>. QED  BY <1>1, <1>2, <1>3, <1>4, <1>13, <1>14, <1>15 DEF RankedFairly

(* What is true of a search stays true between its queries, whatever is      *)
(* written meanwhile.                                                        *)
THEOREM SearchInvariant == SearchSpec => []SearchInv
<1>. QED  BY SearchBegins, SearchStepsOn, PTL DEF SearchSpec

(* search.rs and lib.rs: the hits come by falling score, the better placed   *)
(* of two chunks first unless one leg gave both one score, nothing comes     *)
(* twice, and an expanded hit comes after the hit that led to it unless that *)
(* had no score to share.                                                    *)
THEOREM SearchRankedFairly == SearchSpec => []RankedFairly
<1>. QED  BY SearchInvariant, SearchIsFair, PTL

=============================================================================

------------------------------ MODULE Retrieval ------------------------------
(***************************************************************************)
(* A search: crates/skb-core/src/search.rs and the re-ranking of           *)
(* KnowledgeBase::search (crates/skb-core/src/lib.rs).  It is up to four   *)
(* queries one after the other, with documents stored, replaced and        *)
(* deleted in between.                                                     *)
(*                                                                         *)
(* What a leg finds, and in which order, is the database's (external): any *)
(* ranking of chunks that are there.  Scores are integers, Unit to the     *)
(* whole; those of a leg alone (cosine similarities, relevances) may be    *)
(* equal, zero or negative.                                                *)
(***************************************************************************)
EXTENDS Integers, Sequences, FiniteSets, SequencesExt, Ordering

CONSTANTS
    Documents,           \* a finite set of numbers, in the order of their ids
    Count,          \* Count[d]: the chunks of a document
    Filtered,       \* documents with the field values of the filter
    TopK,           \* values of top_k that are asked for
    MaxTopK,
    RrfK,           \* config.search.rrf_k
    Unit,           \* a multiple of all the numbers that scores divide by
    Scores,         \* the scores a leg alone may give
    MaxChanges      \* bound of the model: writes

ASSUME SearchAssumption ==
    /\ Documents \subseteq Nat /\ IsFiniteSet(Documents) /\ Count \in [Documents -> Nat]
    /\ MaxTopK \in Nat /\ RrfK \in Nat \ {0} /\ MaxChanges \in Nat
    /\ Scores \subseteq Int

ASSUME ScoresAreWhole ==
    /\ Unit \in Nat /\ Unit >= 20
    /\ \A r \in 1 .. 3 * MaxTopK : (Unit \div 20) % (RrfK + r) = 0

VARIABLES
    shelf,          \* version of each document stored, 0 if it is not
    search,         \* the search under way
    changes         \* writes so far

searchVars == <<shelf, search, changes>>

\* A document that is replaced keeps its number; its chunks are new.
ChunksOf(s) == UNION {{[doc |-> d, idx |-> i, version |-> s[d]] : i \in 1 .. Count[d]} :
                         d \in {e \in Documents : s[e] > 0}}

Absent == [at |-> "none"]
Smaller(a, b) == IF a < b THEN a ELSE b

-----------------------------------------------------------------------------
(* Ranking *)

RankIn(leg, c) == CHOOSE i \in 1 .. Len(leg) : leg[i] = c

\* What a leg adds to the score of a chunk: 1 / (rrf_k + rank).
Share(leg, c) ==
    IF c \in ToSet(leg) THEN Unit \div (RrfK + RankIn(leg, c)) ELSE 0

\* The keyword leg replaces what the vector leg gave.
RrfLast(vector, keyword, c) ==
    IF c \in ToSet(keyword) THEN Share(keyword, c) ELSE Share(vector, c)

Rrf(vector, keyword, c) == Share(vector, c) + Share(keyword, c)

ChunkIdLess(c, e) ==
    \/ c.version < e.version
    \/ c.version = e.version /\ (c.doc < e.doc \/ (c.doc = e.doc /\ c.idx < e.idx))

\* Where a document was rewritten between the legs, two chunks have one place:
\* the sort is stable, and leaves them in the order of their ids.
PlaceLess(c, e) ==
    \/ c.doc < e.doc
    \/ c.doc = e.doc /\ (c.idx < e.idx \/ (c.idx = e.idx /\ c.version < e.version))

\* Both legs merged by chunk id, the best first.
Merged(vector, keyword) ==
    InOrder(ToSet(vector) \cup ToSet(keyword), LAMBDA c, e :
        \/ Rrf(vector, keyword, c) > Rrf(vector, keyword, e)
        \/ Rrf(vector, keyword, c) = Rrf(vector, keyword, e) /\ ChunkIdLess(c, e))

\* Only chunks of the keyword leg are lit.
Fused(vector, keyword, topK) ==
    LET chunks == First(Merged(vector, keyword), topK)
    IN  [i \in 1 .. Len(chunks) |->
            [chunk |-> chunks[i], score |-> Rrf(vector, keyword, chunks[i]),
             lit |-> chunks[i] \in ToSet(keyword), via |-> {}]]

\* One leg alone (rows_to_hits): in the database's order, ORDER BY score
\* DESC, with the scores that come with the rows.
HitsOf(leg, lit) ==
    {[i \in 1 .. Len(leg) |-> [chunk |-> leg[i], score |-> scores[i], lit |-> lit, via |-> {}]] :
        scores \in {f \in [1 .. Len(leg) -> Scores] :
                      \A i, j \in 1 .. Len(leg) : i < j => f[j] <= f[i]}}

\* A hit of negative score counts as one of none.
NotBelowZero(score) == IF score < 0 THEN 0 ELSE score

\* What the expansion adds: chunks that are no hits, at 0.95 of the score of
\* the hit they come from (the decay of entities the rows do not name).
FromOrigins(hits, origin) ==
    {[chunk |-> c, score |-> (NotBelowZero(hits[origin[c]].score) * 19) \div 20,
      lit |-> FALSE, via |-> {hits[origin[c]].chunk}] : c \in DOMAIN origin}

Reranked(hits, expanded, topK) ==
    First(InOrder(ToSet(hits) \cup expanded, LAMBDA a, b :
              a.score > b.score \/ (a.score = b.score /\ PlaceLess(a.chunk, b.chunk))),
          topK)

-----------------------------------------------------------------------------
(* Writers *)

Write(d, version) ==
    /\ changes < MaxChanges /\ changes' = changes + 1
    /\ shelf' = [shelf EXCEPT ![d] = version]
    /\ search' = IF search = Absent THEN search ELSE [search EXCEPT !.still = FALSE]

\* Its chunks have ids that were never used.
Put(d) == Write(d, changes + 2)
Drop(d) == shelf[d] > 0 /\ Write(d, 0)

(* The search *)

Proceed(s) == search' = s /\ UNCHANGED <<shelf, changes>>

\* Defaults are filled in, then the request is validated.
BeginSearch ==
    /\ search = Absent
    /\ \E mode \in {"vector", "keyword", "hybrid"}, k \in TopK, f, g \in BOOLEAN :
         IF k \in 1 .. MaxTopK
         THEN Proceed([at |-> IF mode = "keyword" THEN "keyword" ELSE "vector",
                       mode |-> mode, topK |-> k, filter |-> f, expand |-> g,
                       vector |-> <<>>, keyword |-> <<>>, hits |-> <<>>,
                       still |-> TRUE])
         ELSE Proceed(Absent)

\* A hybrid search fetches three times as much from each leg.
Rankings == LET n == IF search.mode = "hybrid" THEN 3 * search.topK ELSE search.topK
            IN  {First(s, n) : s \in UNION {SetToSeqs(S) : S \in SUBSET ChunksOf(shelf)}}

VectorLeg ==
    /\ search.at = "vector"
    /\ \E leg \in Rankings :
         IF search.mode = "hybrid"
         THEN Proceed([search EXCEPT !.vector = leg, !.at = "keyword"])
         ELSE \E hits \in HitsOf(leg, FALSE) :
                Proceed([search EXCEPT !.vector = leg, !.at = "filter", !.hits = hits])

KeywordLeg ==
    /\ search.at = "keyword"
    /\ \E leg \in Rankings :
       \E hits \in IF search.mode = "hybrid" THEN {Fused(search.vector, leg, search.topK)}
                   ELSE HitsOf(leg, TRUE) :
         Proceed([search EXCEPT !.keyword = leg, !.at = "filter", !.hits = hits])

\* apply_filter asks for the hits' documents: those that are gone or have
\* other values drop out, and nothing is fetched in their place.
ApplyFilter ==
    /\ search.at = "filter"
    /\ LET passes(h) == shelf[h.chunk.doc] > 0 /\ h.chunk.doc \in Filtered
           stay == {i \in 1 .. Len(search.hits) : passes(search.hits[i])}
       IN  Proceed([search EXCEPT !.at = "expand",
                      !.hits = IF search.filter THEN AtPlaces(@, stay) ELSE @])

\* graph::expand_search_hits (KnowledgeGraph), then everything is ranked anew.
Expand ==
    /\ search.at = "expand"
    /\ IF ~search.expand \/ search.hits = <<>> THEN Proceed([search EXCEPT !.at = "done"])
       ELSE LET places == {<<h.chunk.doc, h.chunk.idx>> : h \in ToSet(search.hits)}
                others == {c \in ChunksOf(shelf) : <<c.doc, c.idx>> \notin places}
            IN  \E found \in SUBSET others :
                \E origin \in [found -> 1 .. Len(search.hits)] :
                  Proceed([search EXCEPT !.at = "done",
                             !.hits = Reranked(@, FromOrigins(@, origin), search.topK)])

Answered == search.at = "done" /\ Proceed(Absent)

SearchInit ==
    /\ shelf \in [Documents -> 0 .. 1] /\ search = Absent /\ changes = 0

SearchNext ==
    \/ \E d \in Documents : Put(d) \/ Drop(d)
    \/ BeginSearch \/ VectorLeg \/ KeywordLeg \/ ApplyFilter \/ Expand \/ Answered

SearchSpec == SearchInit /\ [][SearchNext]_searchVars

-----------------------------------------------------------------------------
(* Properties *)

\* c is placed before e by one leg, and not after it by the other.
NoWorse(leg, c, e) ==
    e \in ToSet(leg) => c \in ToSet(leg) /\ RankIn(leg, c) <= RankIn(leg, e)

Dominates(c, e) ==
    /\ c # e /\ NoWorse(search.vector, c, e) /\ NoWorse(search.keyword, c, e)
    /\ ~(NoWorse(search.vector, e, c) /\ NoWorse(search.keyword, e, c))

Chosen == {h.chunk : h \in ToSet(search.hits)}

\* The hits come by falling score; no chunk comes twice, nor a place in a
\* document unless it was rewritten between the queries.  Of two chunks the
\* legs found, the one that no leg places behind the other comes first in the
\* answer (one leg alone may give both one score: then only until they are
\* ranked anew), and a hybrid search does not cut it off in the other's
\* favour; its cut gives as many hits as there are.  An expanded hit comes
\* after the hit that led to it, in a hybrid search always, after one leg
\* alone if it has a score at all (search.rs:230-290, lib.rs:280-297,
\* graph.rs:559, 703-725).
RankedFairly ==
    search # Absent /\ search.at \in {"filter", "expand", "done"} =>
        /\ Len(search.hits) <= search.topK
        /\ \A i, j \in 1 .. Len(search.hits) :
             LET h == search.hits[i]
                 g == search.hits[j]
             IN  /\ i # j => h.chunk # g.chunk
                 /\ i # j /\ search.still =>
                       ~(h.chunk.doc = g.chunk.doc /\ h.chunk.idx = g.chunk.idx)
                 /\ i < j => g.score <= h.score
                 /\ Dominates(h.chunk, g.chunk) /\ h.via = {} /\ g.via = {} =>
                       \/ i < j
                       \/ search.mode # "hybrid" /\ search.expand /\ h.score = g.score
                 /\ h.chunk \in g.via /\ (search.mode = "hybrid" \/ g.score > 0) => i < j
        /\ \A h \in ToSet(search.hits) :
             search.mode = "hybrid" \/ h.score > 0 => h.via \subseteq Chosen
        /\ search.at = "filter" /\ search.mode = "hybrid" =>
             LET found == ToSet(search.vector) \cup ToSet(search.keyword)
             IN  /\ Len(search.hits) = Smaller(search.topK, Cardinality(found))
                 /\ \A c \in found, e \in Chosen : Dominates(c, e) => c \in Chosen
                 /\ \A h \in ToSet(search.hits) : h.lit <=> h.chunk \in ToSet(search.keyword)

=============================================================================

--------------------------- MODULE KnowledgeGraph ---------------------------
(***************************************************************************)
(* The graph beside the documents: crates/skb-core/src/graph.rs, the       *)
(* transactions of ingest.rs, crud.rs and reindex.rs that write it, and    *)
(* the backlinks of crates/skb-server/src/handlers/graph.rs.               *)
(*                                                                         *)
(* Writes are single transactions.  The three readers (graph_query,        *)
(* expand_search_hits, document_backlinks) issue one query per step, so    *)
(* writes come between their queries.                                      *)
(*                                                                         *)
(* Entity names are numbers, for the sorts by name.  A text is what the    *)
(* rules of extract_entities and extract_sections find in it:              *)
(*   chunks    per chunk names, those of its links, tags and headings, and *)
(*             front, the lines between two --- markers of which the first *)
(*             begins the chunk (none when a boundary parts the markers)   *)
(*   sections  its headings outside fences, with levels                    *)
(* Kinds, descriptions, weights and titles decide nothing and are left     *)
(* out; rows come back in any order.                                       *)
(***************************************************************************)
EXTENDS Integers, FiniteSets, Sequences, SequencesExt, Ordering

CONSTANTS
    Docs,           \* document ids
    NoDoc,          \* the text of an id without a document
    Bodies,         \* the texts a document may have
    Links,          \* what users link: triples <<from, to, relation>>
    Depth,          \* depth of a graph query (1 .. 5)
    Limit,          \* its limit on nodes
    MaxExpand,      \* hop depth of an expansion
    Origins,        \* EXPAND_ORIGIN_LIMIT
    FrontierMax,    \* FRONTIER_MAX
    RowLimit,       \* LIMIT 200 of the expansion's chunk query
    BackNames,      \* MAX_BACKLINK_ENTITIES
    BackRows,       \* MAX_BACKLINK_DOCUMENTS, the limit on edge rows
    MaxWrites       \* bound of the model: write transactions in a behaviour

\* The lines of a frontmatter; a key's own list may follow it on its line.
FrontLines ==
    [kind : {"bullet"}, names : SUBSET Nat]
      \cup [kind : {"key"}, key : STRING, inline : BOOLEAN, names : SUBSET Nat]
      \cup [kind : {"text"}]

ASSUME GraphAssumption ==
    /\ IsFiniteSet(Docs) /\ NoDoc \notin Bodies
    /\ \A t \in Bodies :
         /\ t.chunks \in Seq([names : SUBSET Nat, front : Seq(FrontLines)])
         /\ \A i \in 1 .. Len(t.chunks) :
              LET c == t.chunks[i] IN
              /\ IsFiniteSet(c.names)
              /\ \A k \in 1 .. Len(c.front) :
                    c.front[k].kind # "text" => IsFiniteSet(c.front[k].names)
         /\ t.sections \in Seq([name : Nat, level : Nat])
    /\ Links \subseteq Nat \X Nat \X STRING
    /\ {Depth, Limit, MaxExpand, Origins, FrontierMax, RowLimit, BackNames, BackRows}
         \subseteq Nat
    /\ MaxExpand # 0    \* an expansion of no hops returns at once

VARIABLES
    docs,       \* id |-> text or NoDoc
    entities,   \* names that have an entity row
    mentions,   \* edges <<<<document, chunk>>, name>>
    related,    \* edges <<name, name, relation>>
    reader,     \* the reader of this behaviour and where it is
    seen,       \* history: the edges there were since the reader began
    calm,       \* history: no write since the reader began
    writes      \* bound of the model: writes so far

graphVars == <<docs, entities, mentions, related, reader, seen, calm, writes>>

PartOf == "part-of"
Least(a, b) == IF a < b THEN a ELSE b

-----------------------------------------------------------------------------
(* What a text says *)

\* frontmatter_list: the bullets that follow the key's line, up to the next
\* line that is no bullet; an inline list ends the key's own list.
FrontLine(key, acc, line) ==
    CASE line.kind = "bullet" ->
           IF acc.open THEN [open |-> TRUE, out |-> acc.out \cup line.names] ELSE acc
      [] line.kind = "key" /\ line.key = key ->
           IF line.inline THEN [open |-> FALSE, out |-> acc.out \cup line.names]
           ELSE [open |-> TRUE, out |-> acc.out]
      [] OTHER -> [open |-> FALSE, out |-> acc.out]

FrontList(front, key) ==
    LET read[i \in 0 .. Len(front)] ==
          IF i = 0 THEN [open |-> FALSE, out |-> {}]
          ELSE FrontLine(key, read[i - 1], front[i])
    IN  read[Len(front)].out

\* extract_entities looks at one chunk at a time.
ChunkNames(t, i) ==
    LET c == t.chunks[i]
    IN  c.names \cup FrontList(c.front, "tags") \cup FrontList(c.front, "aliases")

Names(t) == UNION {ChunkNames(t, i) : i \in 1 .. Len(t.chunks)}

\* What popping leaves of a stack: all up to the last element at one of the
\* positions given.
PoppedTo(stack, stays) ==
    SubSeq(stack, 1, IF stays = {} THEN 0 ELSE CHOOSE i \in stays : \A j \in stays : j <= i)

\* A section nests in one of its own level.
OpenForAny(stack, section) ==
    PoppedTo(stack, {i \in 1 .. Len(stack) : stack[i].level <= section.level})

\* Open sections are popped until one is above the new section.
OpenFor(stack, section) ==
    PoppedTo(stack, {i \in 1 .. Len(stack) : stack[i].level < section.level})

\* link_section_hierarchy: a section with an open one above it becomes part
\* of that, its earlier part-of edges removed.
Nest(acc, section) ==
    LET open == OpenFor(acc.stack, section)
    IN  [stack |-> Append(open, section),
         edges |-> IF open = <<>> THEN acc.edges
                   ELSE {e \in acc.edges : ~(e[1] = section.name /\ e[3] = PartOf)}
                          \cup {<<section.name, Last(open).name, PartOf>>}]

Nested(sections, edges) ==
    LET nest[i \in 0 .. Len(sections)] ==
          IF i = 0 THEN [stack |-> <<>>, edges |-> edges]
          ELSE Nest(nest[i - 1], sections[i])
    IN  nest[Len(sections)].edges

-----------------------------------------------------------------------------
(* Writes *)

\* What every write does to the histories.
Note(newMentions, newRelated) ==
    /\ writes < MaxWrites /\ writes' = writes + 1
    /\ seen' = [mentions |-> seen.mentions \cup newMentions,
                related |-> seen.related \cup newRelated]
    /\ calm' = FALSE
    /\ UNCHANGED reader

\* The mentions of a document's chunks.
Of(d) == {m \in mentions : m[1][1] = d}

\* Only the mentions of a document's first chunk go.
WithoutFirst(d) == {m \in mentions : m[1] # <<d, 1>>}

Without(d) == mentions \ Of(d)

\* The upload transaction of a new or replaced document, and a reindex of an
\* unchanged one: the old mentions go, entities are upserted and stay.
StoreText(d, t) ==
    /\ docs' = [docs EXCEPT ![d] = t]
    /\ mentions' = Without(d) \cup
         UNION {{<<<<d, i>>, n>> : n \in ChunkNames(t, i)} : i \in 1 .. Len(t.chunks)}
    /\ related' = Nested(t.sections, related)
    /\ entities' = entities \cup Names(t) \cup
         {e[1] : e \in Nested(t.sections, {})} \cup {e[2] : e \in Nested(t.sections, {})}
    /\ Note(mentions', related')

Upload(d) == \E t \in Bodies : StoreText(d, t)

Rebuild(d) == docs[d] # NoDoc /\ StoreText(d, docs[d])

\* delete_document: entities and related_to edges are shared and stay.
Delete(d) ==
    /\ docs[d] # NoDoc
    /\ docs' = [docs EXCEPT ![d] = NoDoc]
    /\ mentions' = Without(d)
    /\ UNCHANGED <<entities, related>>
    /\ Note({}, {})

\* link: the endpoints need not exist (and a self link is one).
Link ==
    /\ \E l \in Links : related' = related \cup {l}
    /\ UNCHANGED <<docs, entities, mentions>>
    /\ Note({}, related')

UpsertEntity ==
    /\ \E l \in Links : l[1] \notin entities /\ entities' = entities \cup {l[1]}
    /\ UNCHANGED <<docs, mentions, related>>
    /\ Note({}, {})

-----------------------------------------------------------------------------
(* Readers: queries see what is there now *)

Query == UNCHANGED <<docs, entities, mentions, related, writes, seen, calm>>

\* ->related_to->entity.name, of one relation or of any: an endpoint without
\* a row has no name.
Next1(name, relation) ==
    {e[2] : e \in {r \in related : r[1] = name /\ r[2] \in entities
                                   /\ relation \in {"any", r[3]}}}

Begin(r) ==
    /\ reader.kind = "none" /\ reader' = r
    /\ seen' = [mentions |-> mentions, related |-> related] /\ calm' = TRUE
    /\ UNCHANGED <<docs, entities, mentions, related, writes>>

(* graph_query: nodes as <<name, depth>>, d is the loop's variable *)

Walk == [kind |-> "walk", stage |-> "loop", relation |-> "any", d |-> 0, at |-> 0,
         start |-> {}, emitted |-> {}, nodes |-> <<>>, edges |-> {}]

BeginWalk ==
    \E relation \in {"any", PartOf} :
        \/ \E n \in UNION {{l[1], l[2]} : l \in Links} :
               Begin([Walk EXCEPT !.relation = relation, !.at = n, !.start = {n}])
        \/ \E d \in Docs : docs[d] # NoDoc /\
               Begin([Walk EXCEPT !.relation = relation, !.stage = "mentions", !.at = d])

\* No name is left out.
All(names) == names

\* The names of the rows that were not emitted yet.
New(names) == names \ reader.emitted

\* New names in the order the rows give them, those beyond the limit left out.
Emit(order) == First(order, Limit - Cardinality(reader.emitted))

\* The second query of a walk from a document: its chunks' mentions are the
\* nodes of depth 1, and the walk goes on from the first.
WalkMentions ==
    /\ reader.kind = "walk" /\ reader.stage = "mentions"
    /\ \E order \in SetToSeqs(New({m[2] : m \in Of(reader.at)})) :
        LET out == Emit(order) IN
        reader' = [reader EXCEPT
            !.start = ToSet(out), !.emitted = ToSet(out), !.d = 1,
            !.nodes = [i \in 1 .. Len(out) |-> <<out[i], 1>>],
            !.at = IF out = <<>> THEN 0 ELSE out[1],
            !.stage = IF out = <<>> \/ Depth <= 1 THEN "done" ELSE "loop"]
    /\ Query

\* One turn of the loop: the neighbours of the current node, of which only
\* the first is followed, and only if it is new.
WalkStep ==
    /\ reader.kind = "walk" /\ reader.stage = "loop"
    /\ IF reader.at \notin entities
       THEN reader' = [reader EXCEPT !.stage = "done"]
       ELSE LET names == Next1(reader.at, reader.relation) IN
            \E order \in SetToSeqs(New(names)), newFirst \in BOOLEAN :
              LET out == Emit(order)
                  follows == reader.d + 1 < Depth /\ out # <<>> /\ newFirst
              IN  /\ newFirst \/ ~(names \subseteq New(names))
                  /\ reader' = [reader EXCEPT
                       !.nodes = (IF reader.d = 0 THEN Append(@, <<reader.at, 0>>) ELSE @)
                                   \o [i \in 1 .. Len(out) |-> <<out[i], reader.d + 1>>],
                       !.edges = @ \cup {<<reader.at, n>> : n \in ToSet(out)},
                       !.emitted = @ \cup ToSet(out),
                       !.at = IF follows THEN out[1] ELSE @,
                       !.d = @ + 1,
                       !.stage = IF reader.d + 1 >= Depth THEN "done" ELSE @]
    /\ Query

(* expand_search_hits: a frontier is a sequence of <<hop, name>> *)

Expansion == [kind |-> "expand", stage |-> "origins", hits |-> <<>>, byHit |-> <<>>,
              origin |-> 1, hop |-> 2, frontier |-> <<>>, visited |-> {},
              asked |-> {}, found |-> {}, cut |-> FALSE, short |-> FALSE]

Chunks == UNION {{<<d, i>> : i \in 1 .. Len(docs[d].chunks)} :
                    d \in {e \in Docs : docs[e] # NoDoc}}

\* The hits a search returned, best first.
BeginExpand ==
    \E hits \in UNION {SetToSeqs(s) : s \in SUBSET Chunks \ {{}}} :
        Begin([Expansion EXCEPT !.hits = hits])

\* The closest hops, then the lowest names; the vector counts duplicates.
Capped(f) ==
    IF Len(f) <= FrontierMax THEN f
    ELSE LET closer(i, j) == \/ f[i][1] < f[j][1]
                             \/ f[i][1] = f[j][1] /\ f[i][2] < f[j][2]
                             \/ f[i] = f[j] /\ i < j
             order == InOrder(1 .. Len(f), closer)
         IN  [k \in 1 .. FrontierMax |-> f[order[k]]]

\* Names of a set as a frontier of one hop.
AtHop(hop, names) == LET s == SetToSeq(names) IN [i \in 1 .. Len(s) |-> <<hop, s[i]>>]

\* The state for origin i, or the end.
Turn1(r, i) ==
    IF i > Least(Origins, Len(r.hits)) THEN [r EXCEPT !.stage = "done"]
    ELSE LET f == AtHop(1, r.byHit[i])
         IN  [r EXCEPT !.origin = i, !.stage = "hops", !.hop = 2, !.visited = {},
                       !.frontier = Capped(f), !.cut = @ \/ Len(f) > FrontierMax]

\* The batched query for the entities of every hit.
ReadOrigins ==
    /\ reader.kind = "expand" /\ reader.stage = "origins"
    /\ reader' = Turn1([reader EXCEPT !.byHit =
                          [i \in 1 .. Len(reader.hits) |->
                             {m[2] : m \in {x \in mentions : x[1] = reader.hits[i]}}]], 1)
    /\ Query

\* The names of the frontier that no hop has followed yet.
HopNames == {reader.frontier[i][2] : i \in 1 .. Len(reader.frontier)} \ reader.visited

\* The last hop is left out.
HopsFew == 2 .. MaxExpand - 1

Hops == 2 .. MaxExpand

\* One hop: the neighbours of the names not yet visited.
ReadHop ==
    /\ reader.kind = "expand" /\ reader.stage = "hops"
    /\ IF reader.hop \notin Hops \/ HopNames = {}
       THEN reader' = [reader EXCEPT !.stage = "chunks"]
       ELSE LET rows == SetToSeq({e \in related : e[1] \in HopNames \cap entities
                                                  /\ e[2] \in entities})
                f == reader.frontier \o [i \in 1 .. Len(rows) |-> <<reader.hop, rows[i][2]>>]
            IN  reader' = [reader EXCEPT !.visited = @ \cup HopNames, !.hop = @ + 1,
                                         !.frontier = Capped(f),
                                         !.cut = @ \/ Len(f) > FrontierMax]
    /\ Query

\* The query for the chunks that mention a name of the frontier, at most
\* RowLimit rows.  Whether the database follows an edge in a WHERE clause is
\* its own affair: handlers/graph.rs:111-113 and 131-134 say that on
\* surrealdb 3.x such a query matches nothing, and then every answer here is
\* empty.  Both are allowed; short says that rows were missing, either way.
ReadChunks ==
    /\ reader.kind = "expand" /\ reader.stage = "chunks"
    /\ LET names == {reader.frontier[i][2] : i \in 1 .. Len(reader.frontier)}
           matching == {m[1] : m \in {x \in mentions : x[2] \in names}}
       IN  \E rows \in {s \in SUBSET matching :
                          s = {} \/ Cardinality(s) = Least(RowLimit, Cardinality(matching))} :
             reader' = Turn1([reader EXCEPT
                               !.asked = @ \cup names,
                               !.found = @ \cup (rows \ ToSet(reader.hits)),
                               !.short = @ \/ rows # matching], reader.origin + 1)
    /\ Query

(* document_backlinks *)

Back == [kind |-> "back", stage |-> "names", doc |-> NoDoc, names |-> {},
         result |-> {}, cut |-> FALSE]

BeginBack == \E d \in Docs : docs[d] # NoDoc /\ Begin([Back EXCEPT !.doc = d])

\* At most BackNames of the names the document's chunks mention.
ReadNames ==
    /\ reader.kind = "back" /\ reader.stage = "names"
    /\ LET all == {m[2] : m \in Of(reader.doc)} IN
       \E some \in {s \in SUBSET all : Cardinality(s) = Least(BackNames, Cardinality(all))} :
         reader' = [reader EXCEPT !.names = some, !.cut = some # all,
                                  !.stage = IF some = {} THEN "done" ELSE "documents"]
    /\ Query

\* The document's own edges are not taken out.
OwnersOf(rows, doc) == {m[1][1] : m \in rows}

OthersOf(rows, doc) == {m[1][1] : m \in rows} \ {doc}

\* At most BackRows edge rows; then the document itself and duplicates go.
ReadDocuments ==
    /\ reader.kind = "back" /\ reader.stage = "documents"
    /\ LET all == {m \in mentions : m[2] \in reader.names} IN
       \E rows \in {s \in SUBSET all : Cardinality(s) = Least(BackRows, Cardinality(all))} :
         reader' = [reader EXCEPT !.result = OthersOf(rows, reader.doc),
                                  !.cut = @ \/ rows # all, !.stage = "done"]
    /\ Query

-----------------------------------------------------------------------------
GraphInit ==
    /\ docs = [d \in Docs |-> NoDoc]
    /\ entities = {} /\ mentions = {} /\ related = {}
    /\ reader = [kind |-> "none"]
    /\ seen = [mentions |-> {}, related |-> {}] /\ calm = TRUE /\ writes = 0

Write == (\E d \in Docs : Upload(d) \/ Rebuild(d) \/ Delete(d)) \/ Link \/ UpsertEntity

GraphNext ==
    \/ Write
    \/ BeginWalk \/ WalkMentions \/ WalkStep
    \/ BeginExpand \/ ReadOrigins \/ ReadHop \/ ReadChunks
    \/ BeginBack \/ ReadNames \/ ReadDocuments

GraphSpec == GraphInit /\ [][GraphNext]_graphVars

-----------------------------------------------------------------------------
(* Properties *)

\* The item of a frontmatter list belongs to the key whose line is the last
\* one before it that is no bullet.
InList(front, key, n) ==
    \E i \in 1 .. Len(front) :
        /\ n \in front[i].names
        /\ \/ front[i].kind = "key" /\ front[i].key = key /\ front[i].inline
           \/ /\ front[i].kind = "bullet"
              /\ \E j \in 1 .. i - 1 :
                    /\ front[j].kind = "key" /\ front[j].key = key /\ ~front[j].inline
                    /\ \A k \in j + 1 .. i - 1 : front[k].kind = "bullet"

\* The mentions are those of the texts now stored, chunk by chunk: none of a
\* deleted or replaced version survives and none is missing (graph.rs:242-280
\* within the transactions of upload, delete and reindex; graph.rs:855-896).
MentionsFollowTexts ==
    \A d \in Docs :
        Of(d) = IF docs[d] = NoDoc THEN {}
                ELSE {m \in ({d} \X (1 .. Len(docs[d].chunks))) \X entities :
                        LET i == m[1][2] IN
                        \/ m[2] \in docs[d].chunks[i].names
                        \/ \E key \in {"tags", "aliases"} :
                              InList(docs[d].chunks[i].front, key, m[2])}

\* The parent of section i: the nearest one before it with a lower level.
ParentsOf(t, child) ==
    LET s == t.sections
        above(i) == {j \in 1 .. i - 1 : s[j].level < s[i].level}
        last == {i \in 1 .. Len(s) : s[i].name = child /\ above(i) # {}}
    IN  IF last = {} THEN {}
        ELSE LET i == CHOOSE x \in last : \A y \in last : y <= x
             IN  {s[CHOOSE x \in above(i) : \A y \in above(i) : y <= x].name}

\* Storing a text leaves each of its sections that has a parent part of that
\* parent and of nothing else, whatever earlier texts, other documents and
\* users said (graph.rs:991-999), and says nothing of names that are no
\* section of it.  Of a section without a parent nothing is claimed: the code
\* leaves it the edge an earlier text gave it.
HierarchyFollowsText ==
    [][\A d \in Docs :
        docs'[d] # docs[d] /\ docs'[d] # NoDoc =>
          \A n \in entities' :
            LET now == {e[2] : e \in {x \in related' : x[1] = n /\ x[3] = PartOf}}
                sections == docs'[d].sections
            IN  /\ ParentsOf(docs'[d], n) # {} => now = ParentsOf(docs'[d], n)
                /\ (\A i \in 1 .. Len(sections) : sections[i].name # n) =>
                      now = {e[2] : e \in {x \in related : x[1] = n /\ x[3] = PartOf}}
      ]_graphVars

\* Where the edges lead from a set of names.
Heads(edges, names) == {e[2] : e \in {x \in edges : x[1] \in names}}

\* Names within k steps of a set of names, along a set of edges.
Within(names, edges, k) ==
    LET f[i \in 0 .. k] ==
          IF i = 0 THEN names
          ELSE f[i - 1] \cup Heads(edges, f[i - 1])
    IN  f[k]

\* What graph_query returns is connected: no name twice (the start apart),
\* every node within its depth of the start along edges of the wanted
\* relation that were there meanwhile, at most Limit of them, and no edge
\* that was not there.
WalkIsConnected ==
    reader.kind = "walk" =>
        LET nodes == reader.nodes
            edges == {e \in seen.related : reader.relation \in {"any", e[3]}}
            base(k) == IF nodes # <<>> /\ nodes[1][2] = 0 THEN k ELSE k - 1
        IN  /\ \A i, j \in 1 .. Len(nodes) :
                  i < j /\ nodes[i][1] = nodes[j][1] => nodes[i][2] = 0
            /\ \A i \in 1 .. Len(nodes) :
                  nodes[i][1] \in Within(reader.start, edges, base(nodes[i][2]))
            /\ Len(nodes) <= Limit + 1
            /\ reader.edges \subseteq {<<e[1], e[2]>> : e \in edges}

\* The names an expansion should ask about: those within MaxExpand - 1 steps
\* of a name the first hits mention.
InReach(ments, edges) ==
    LET hits == reader.hits
        roots == {m[2] : m \in {x \in ments :
                    \E i \in 1 .. Least(Origins, Len(hits)) : x[1] = hits[i]}}
    IN  Within(roots, edges, MaxExpand - 1)

\* The chunks that mention one of the names, the hits themselves apart.
Mentioning(ments, names) == {m[1] : m \in {x \in ments : x[2] \in names}} \ ToSet(reader.hits)

\* An expansion finds nothing that is out of reach, whatever is written
\* meanwhile.  When nothing is, its queries ask about exactly the names in
\* reach unless the frontier was cut, and what it returns is what their
\* answers held: all the chunks that mention these names if no answer was
\* short of rows, none at all on a database that answers nothing
\* (graph.rs:483-732: visited names, the growing frontier, seen chunks).
ExpansionReaches ==
    reader.kind = "expand" =>
        /\ reader.found \subseteq Mentioning(seen.mentions, InReach(seen.mentions, seen.related))
        /\ reader.stage = "done" /\ calm =>
              /\ ~reader.cut =>
                    reader.asked = InReach(mentions, {e \in related : e[2] \in entities
                                                                      /\ e[1] \in entities})
              /\ ~reader.short => reader.found = Mentioning(mentions, reader.asked)

\* Backlinks never name the document itself, and when nothing is written
\* meanwhile and no bound cut them two documents are each other's backlinks
\* exactly when they mention a common name (handlers/graph.rs:148-233).
BacklinksAgree ==
    reader.kind = "back" /\ reader.stage = "done" =>
        /\ reader.doc \notin reader.result
        /\ calm /\ ~reader.cut =>
              reader.result = {d \in Docs \ {reader.doc} :
                                 \E m, n \in mentions : m[1][1] = d /\ n[1][1] = reader.doc
                                                        /\ m[2] = n[2]}

=============================================================================

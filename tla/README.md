# surreal-knowledge-base: specification, model checking and proofs

TLA+ modules for the parts of surreal-knowledge-base (`skb`) whose correctness
depends on what happens between two durable writes, between two requests, or
after a crash. Paths below are relative to `src/`.

## 1. The system

| Component | Source | State | Operations | What makes it correct |
|---|---|---|---|---|
| Store | `crates/skb-core/src/lib.rs`, `db.rs`, `schema/001_init.surql` | SurrealKV directory: schema (embedding field, HNSW index), `meta` rows | `open`, `open_for_reindex`, `migrate`, tokenizer sync | a store is opened only by the configuration that made it |
| Reindex | `crates/skb-core/src/reindex.rs` | marker `reindex_in_progress`, chunks, meta rows | marker, transition, rebuild, index, metas, unmark | an interruption is detected, never served, and repaired by running again |
| Ingest | `crates/skb-core/src/ingest.rs` | document, chunk, mentions; PDF semaphore | `upload` (one transaction after a lookup), extraction from text, file, URL, PDF | all or nothing; one document per content; bounded jobs, bounded waits |
| Documents | `crates/skb-core/src/crud.rs` | same tables | list, get, delete, stats, doctor | a delete takes the chunks along; pages neither repeat nor skip |
| Tokenizer | `tokenize.rs` | none | `chunk`, headings | the windows cover the text |
| Embedder | `embed.rs` | the model's session | `embed_batch` | every chunk has its own vector; its text is cut only if it counts more tokens by itself than its slice did |
| Configuration | `config.rs` | files, environment | `load`, `validate`, `resolve_embedding_settings` | limits that are completed later still fit each other |
| Search | `search.rs`, `KnowledgeBase::search` | none | vector, text, hybrid, filters, expansion | fair fusion, no chunk twice |
| Graph | `graph.rs`, `handlers/graph.rs` | entity, mentions, related_to | indexing, n-hop query, expansion, backlinks, section hierarchy | edges reflect the current documents; readers find what is in reach |
| Server, documents and blog | `crates/skb-server/src/handlers/documents.rs`, `blog.rs` | document table and `blog_post` registry, no common transaction | create, update, delete, publish, list with a cursor | registry and documents agree after compensations |
| Server, sessions | `auth.rs` | `user`, `revoked_session`, the clock | register, login, logout with a purge, the `AuthUser` extractor | one account per email; a revoked token stays revoked |
| Server, chat | `handlers/chat.rs`, `llm.rs` | one pipeline and channel per request | search, prompt budget, the model's stream, SSE | events in order, bounded prompt, a pipeline ends with its client |
| MCP server | `crates/skb-mcp/src/main.rs` | mutex over the store, reindexing flag, progress channel | tools, resources, `skb_reindex` | no tool runs during a reindex; final progress arrives |
| CLI | `crates/skb-cli/src/main.rs` | none | one command per process | `skb reindex` is the way out of a mismatch |
| Vault editor | `web/apps/vault/src/components/useAutosave.ts`, `EditorSurface.tsx` | drafts, timer, saves in flight | edits, saves, retries, opening notes | the last edit wins and reaches its own note |
| Chat and search in the browser | `web/packages/api-client/src/useChatStream.ts`, `sse.ts`, `web/packages/ui/src/search/SearchPalette.tsx` | the current stream, the current search | start, stop, late events and answers | late answers are dropped |
| Packaging | `npm`, `deploy`, `compose.yaml` | none | | not modelled |

How they interact: one process at a time holds the store (SurrealKV's LOCK
file). The CLI and the server call `KnowledgeBase::open` and give up on
`E_MODEL_MISMATCH`; `skb reindex` and the MCP server go on with
`open_for_reindex`, which skips the comparisons. The server shares one handle
between concurrent requests and adds its own tables (`user`, `blog_post`,
`revoked_session`). The web applications talk to the server over JSON and
server-sent events.

What is hard: a reindex is many transactions, so every crash point leaves a
different store, and the next program may run with a different configuration;
the blog handlers write two tables without a transaction and compensate, while
other requests run; the MCP server serves from a store that `open` refused; a
PDF job cannot be cancelled and outlives its caller's timeout; every reader
(a listing, a search, a graph query, a token check) is several queries between
which others write; a browser's requests are answered late, out of order, or
never; and the chunker's window, the configuration's limits and the graph's hops
are loops whose boundaries decide whether text is lost.

## 2. Modules

| Module | Models | Code |
|---|---|---|
| `KnowledgeBase` | abstract specification: one profile in service at a time, changed as a whole | what `open`'s mismatch checks and the marker are for |
| `SkbStore` | opening, uploads, deletes and reindex of one store by a sequence of programs, with crashes | `lib.rs`, `db.rs`, `reindex.rs`, `ingest.rs`, `crud.rs`, how CLI and MCP open |
| `SkbStoreProofs` | theorems about `SkbStore` | |
| `MCStore` | its TLC instance | |
| `Blog` | abstract specification of the registry: drafts, publishing, replacement, removal | |
| `BlogRegistry` | create, update, delete and publish requests over the two tables, concurrent, failing | `handlers/documents.rs`, `handlers/blog.rs`, `ingest.rs` |
| `BlogRegistryProofs` | theorems about `BlogRegistry` | |
| `MCBlog` | its TLC instance | |
| `McpServer` | requests to the MCP server: mutex, reindexing flag, progress of `skb_reindex` | `crates/skb-mcp/src/main.rs`, the callbacks of `reindex.rs` |
| `McpServerProofs` | theorems about `McpServer` | |
| `Autosave` | the vault editor's saves, its server, and the user typing, retrying and opening notes | `web/apps/vault/src/components/useAutosave.ts`, `EditorSurface.tsx` |
| `AutosaveProofs` | theorems about `Autosave` | |
| `Settings` | how a configuration is put together and accepted (operators only) | `config.rs`, the limits `embed.rs` reports |
| `Chunker` | a process that resolves its configuration, cuts a text and embeds the chunks; extends `Settings` | `tokenize.rs`, `embed.rs`, `open_inner` |
| `Extraction` | upload requests getting their text: files, redirects, PDF slots, timeouts | `ingest.rs` |
| `KnowledgeGraph` | the graph beside the documents, its writers and its three multi-query readers | `graph.rs`, `handlers/graph.rs`, the transactions of `ingest.rs`, `crud.rs`, `reindex.rs` |
| `IngestProofs` | theorems about `Chunker`, `Extraction` and `KnowledgeGraph` | |
| `MCIngest` | the TLC instance of `Chunker`, `Extraction`, `KnowledgeGraph` and `McpServer` | |
| `Sessions` | registration, login, logout, revocation and the clock | `auth.rs` |
| `Listing` | listings by cursor and by offset, one document, statistics | `crud.rs`, `handlers/documents.rs`, `lib.rs` |
| `Retrieval` | a search: both legs, fusion, filter, expansion | `search.rs`, `lib.rs` |
| `Chat` | the server's chat pipeline, the reader of the model's stream, the client's hook | `handlers/chat.rs`, `llm.rs`, `useChatStream.ts`, `sse.ts` |
| `Palette` | the search palette | `SearchPalette.tsx` |
| `ServingProofs` | theorems about `Sessions`, `Palette` and `Chat` | |
| `ReadingProofs` | theorems about `Listing` and `Retrieval` | |
| `Ordering` | sorts, filters and cuts by what they return (operators only) | `sort_by`, `ORDER BY`, `filter`, `truncate`, `LIMIT` |
| `DataLemmas` | what `Ordering` and sequences do, for every input: the lemmas the proofs share | |
| `MCServing` | the TLC instance of `Sessions`, `Listing`, `Retrieval`, `Chat`, `Palette` and `Autosave` | |

### SkbStore

Durable variables: `tables`, `field`, `index` (the schema), `meta` (the four
compared rows), `marker`, and per document what its chunks carry: `Absent`,
`Bare` (stored, no chunks) or a profile, which is the model, the dimension and
the tokenizer of the configuration that made them. Volatile: the control point
`pc`, the kind of program `host`, its configuration `cfg`, the arguments and
locals of `open_inner` and `reindex` (`forced`, `fresh`, `wide`, `todo`).

One action is one statement or transaction that commits on its own: the check
chain of `open_inner` (`CheckSkipped`, `CheckRefused`, `CheckMaxTokens`, the
backfill of missing rows included), `MigrateTables`, `MigrateField`,
`MigrateIndex`, `InitMeta`, `SyncTokenizer`; `Upload` and `Delete`; and the
steps of `reindex` in its order. `RefusedStep` is the error path when the
schema refuses the configuration's vectors, `FailStep` any other error,
`Crash` the death of the process. `Refuse` distinguishes the programs: `skb
reindex` and MCP retry with `open_for_reindex`, everything else exits.

Abstractions. Documents are model values and have one content; chunk texts,
mentions and counters are left out. The checks of one open are one step, because
nobody else can write while the process holds the LOCK; the two backfill writes
of an older store's rows are one step for the same reason (a crash between them
leaves a row that the next open compares or fills). Meta rows no check reads are
left out. `NoTokens` says for which documents a tokenizer yields no chunk:
`rebuild_all` skips those and leaves their old chunks, which the properties
except explicitly. That building an HNSW index fails on a vector of another
length, and that the field's ASSERT refuses one, is taken from SurrealDB's
documented behaviour and the comments at `reindex.rs` 34-36 and 231-233.
Chunking limits are not recorded in `meta`, so they are not part of a profile.

### BlogRegistry

`docs` is the document table (id to content, unique content), `rows` the
registry (unique per document), `req` the requests in flight with their locals.
Two history variables let properties speak of posts: `post` says which post a
document was stored for, a replacement being of its document's post whatever the
owner lookup found, and `strays` which replacements were stored for a post by an
update that found no row. Each database call of a handler is one action; any
call may fail (`FailCall` follows the handler's error arm), and the server may
die. A write conflict is a failed call. `Create`, `Update`, `Delete`, `Publish`
are arrivals.

Which document a client may name is `Named`. `GET /api/documents` shows a
document as soon as it is stored, so an eager client (`Eager`) names a new
document before the request that stored it has registered it or moved its row;
other clients name it once that request is over, answered or not. The constant
`Alone` names kinds of request that clients do not send concurrently, and
`Creates` the combinations of blog marker and `force` they send.

### McpServer

`kb` is the holder of the mutex over the knowledge base and `waiters` its queue,
`reindexing` the flag, `store` the stored documents. Per slot of a request,
`call` says what it is and how far it got, `job` holds the locals of `reindex`
and `relay` the progress channel with the task that forwards it: how much of
it is open, what is in it, the total, and what the client has been sent.

`Receive` is a request's arrival. A tool reads the flag (`Reject`, `Pass`), or
claims it (`Claim`), joins the waiters, acquires, works and answers.
`skb_reindex` acquires twice: it drops the guard that `handle_tool` took
(`Yield`) and `handle_reindex` locks again with `turn` 2. Its rebuild
(`BeginRebuild`, `RebuildOne`) visits one document per step and reports through
`try_send`; `Return` is the end of `reindex` with or without an error, `Drain`
the await of the forwarder, and `Release` and `Unflag` the drops of the mutex
guard and of `ReindexGuard`, in that order. `Panic` drops everything without
awaiting the forwarder, which then ends on its own (`End`). `ReadPage` is one
page of `skb://documents`.

Abstractions. The documents are a set; what a tool does to them is storing one,
deleting one, or nothing. tokio's mutex is external: it serves waiters in the
order they joined. `list_documents` with a cursor answers with an error, because
the cursor's statement does not parse (the server works around it, see the
comment at `handlers/documents.rs` 105-109); the model takes that from the
comment. A slot is reused only when the forwarder of its last reindex has ended.

### Autosave

`db` is the server: per note the number of its document's id and its content;
storing another content mints the next number, and the old id is gone. `route`,
`gen`, `text`, `pending`, `queued`, `inFlight`, `last`, `rotated`, `status` are
the hook's refs and state (`text` is the editor's `contentRef`, `pending` the
draft in the debounce timer), `saves` the mutations that have not settled. A
content is the set of the edits it has, so that "which note was this typed into"
and "is it there" can be asked of it.

`Keystroke` is `schedule`, `FireDraft` the timer with `dispatch`, `Retry` the button.
`Serve` is the PUT at the server; `Lose` a request or an answer that is lost.
`Succeed`, `Rotate` with `Refetched` (the two halves of `onSuccess` around its
await) and `Fail` are the callbacks, each with `onSettled` (`Settle`) in the same
step, since only microtasks lie between. `Open` is the layout effect for a note
whose document is cached, `Mount` a new editor, and `Refresh` the answer of a
query reaching the sync effect.

Abstractions, all of external code: `navigate` to the seeded document commits
before anything else happens; React runs the effects of a commit before the
next event; the refetch of the deleted document that `invalidateQueries` starts
reports its failure no sooner than the new route commits. A PUT is one step of
the server: two PUTs of one document interleave in `BlogRegistry`. The user
opens documents that exist; a document deleted while its note is open is
reached by saves that are still under way.

### Settings and Chunker

`Settings` holds operators: `ConfigFile` and `Overlay` put a configuration
together from the project's file or the user's, the environment and the
defaults, key by key; `Loads` says when that is an error; `Validate` and
`Resolves` are `Config::validate` and `resolve_embedding_settings`, with
`Reported` for what either embedder says of itself. Names and paths are left
out: they cannot fail.

`Chunker` is one process: `Configure` draws layers, loads, resolves and starts
or refuses; `Tokenize` is the tokenizer's cut of a text into tokens, external
and therefore any cut, in the middle of a line or of a character; `Turn` is one
turn of `chunk`'s loop with `ChunkEnd` (the window, a heading that ends it
early, the rule for a break that gains nothing), `NextStart` (the overlap) and
`HeadingAt`; `EmbedBatch` is one turn of `embed_batch`. The embedder encodes the
text of a chunk again (`embed.rs` 141-200) and cuts it at its own limit: by
itself the text may count more tokens than its slice of the document did, by
one of `Growths` (`Embedded`). A text is a sequence of kinds of lines of equal
length, so byte offsets are real and fences, headings and tokens can fall on and
beside each other. `Fence` follows fences marker by marker.

### Extraction

Per upload request `req` has the stage, what was asked, redirects so far, its
timers, the time its fetch and its PDF have taken (`fetched`, `pdf`) and the
outcome; `queue` and `free` are the semaphore, `jobs` the blocking jobs.
`Arrive`, `Read`, `Fetch` and `Classify` follow `extract_document_data`; every
host, the first and each redirect's, is looked up by a blocking call outside the
fetch's deadline (`Resolve`). `StartParse`, `StartExtract` and `JobEnds` are
the two halves of a PDF, `Expire` a timeout and `Drop` a client that goes away: both
leave the job running with its permit. Time is in ticks, and no tick passes
while a timer that has run out has not fired. The checks of addresses and
directories are among the errors a source may end in; the operating system's
blocking threads, servers and PDFs are external and may be silent for ever. Its
resolver is external too, but must give up at some time (`Lookup` ticks): the
code has no limit of its own there.

### Ordering

A sort or an `ORDER BY` returns the elements of a set so that the k-th has
k - 1 others before it (`InOrder`); a filter the elements at some positions
(`AtPlaces`); a limit the first ones (`First`). `KnowledgeGraph`, `Listing` and
`Retrieval` are written with these, and walk through frontmatter lines,
sections and excerpts with recursive functions over positions (`FrontList`,
`Nested`, `Excerpts`), each of whose steps is an operator of its own
(`FrontLine`, `Nest`, `AddHit`).

### KnowledgeGraph

`docs`, `entities`, `mentions` and `related` are the tables. `StoreText` is what
one upload transaction does to them (old mentions out, entities upserted,
mentions per chunk, `Nested` section edges); `Rebuild`, `Delete`, `Link` and
`UpsertEntity` are the other writers. The readers are sequences of queries:
`BeginWalk`, `WalkMentions`, `WalkStep` are `graph_query`; `BeginExpand`,
`ReadOrigins`, `ReadHop`, `ReadChunks` are `expand_search_hits`; `BeginBack`,
`ReadNames`, `ReadDocuments` are the backlinks handler. One behaviour has one
reader and any writes between its queries; `seen` collects the edges there were
meanwhile, `calm` says that there were no writes. Rows come back in any order,
and a limited query returns any rows within its limit. `ReadChunks` sends the
expansion's query with the edge in its WHERE, which according to
`handlers/graph.rs` 111-113 and 131-134 finds nothing on the database in use:
the model allows the rows and their absence. `cut` says that the expansion had
to leave out names of its own, `short` that the database left out rows, and
`asked` which names it was asked about. Names, those of the frontmatter
included, are found chunk by chunk, as `index_chunk` does: `ChunkName` knows
only the lines of its own chunk. Names are numbers; the regular expressions that
find names in a text are abstracted to the names found, but the frontmatter's
lists, which need state from line to line, are translated (`FrontList`).

### Sessions

`users`, `issued` and `revoked` are the accounts, the tokens and the rows of
`revoked_session`; `call` holds each client's request and step. Every database
call is an action, so another request comes between the lookup of an email and
the creation of its account, between a revocation and the purge that uses a
clock reading taken before, and between a token's decoding and the lookup of
its revocation. `Pass` is time. The token library accepts a token for `Leeway`
after `exp`.

### Listing

`library` maps the stored documents to their `created_at`; `Store`, `Discard`
and `Sunrise` write it. `BeginPages`, `ReadRows`, `ReadCounts` are a client that
pages with the server's cursor (`PageOf` is `list_with_cursor`, its bounded scan
included); `BeginSnapshot`, `ReadPage` are `document_snapshot` with its offset;
`BeginGet`, `ReadChunkRows` and `BeginStats`, `CountChunks` the two-query reads
of a document and of the statistics.

### Retrieval

`shelf` has each document's version, `search` the search under way:
`BeginSearch` (defaults, then validation), `VectorLeg`, `KeywordLeg`,
`ApplyFilter` and `Expand`, with `Put` and `Drop` of documents between them.
`Fused` is reciprocal-rank fusion with its tie-breaks, `Reranked` the final
order with expanded hits at 0.95 of their origin's score. Which chunks a leg
finds is external: any ranking of chunks stored at that moment, and for a search
by one leg alone any falling scores (`HitsOf`), tied, zero and negative ones
included, as cosines can be. What the expansion adds has its share of the
origin's score, a negative one taken for zero (`NotBelowZero`). Fused scores are
integers out of `Unit`; `ScoresAreWhole` makes every division exact.

### Chat

The server's half is `pipe`, one per stream: `Accept`, `SearchDone`, `Connect`,
`ReadLine` and `ReadBody` (the line buffer with its limit, cut anywhere by the
network), `Send` over a bounded channel, and `Quit`, the branch of the selects
that sees the client gone. The client's half is the hook: `Start`, `Stop`,
`Fetched`, `Refused`, `Deliver`, `StreamEnds` with `ref` and `aborted` for
`controllerRef` and its signals, and `shown` for what it returns. `Disconnect`
joins them. `BuildPrompt` computes the prompt's size as `build_prompt` does,
with truncation to whole characters.

### Palette

`seq` is `seqRef`, `timer` the debounce, `flying` the requests under way, `list`
what is shown and for which text, `rendered` how many rows React has rendered of it
(`Render`): an arrow key is handled against that number, also when a newer list
is set already, which `early` remembers. The parent may set `open` at any time, ⌘K and
Escape work in either state, and answers arrive in any order.

### MCIngest and MCServing

Small components that share no state are checked in one instance each: the
variable `part` says which one a behaviour is about, and the others stay in an
initial state: `MCIngest` has the parts chunker, extraction, graph and server,
`MCServing` sessions, listing, retrieval, chat, palette and editor. The states
are the disjoint union of the components' own, so a
property holds of the sum exactly when it holds of the component alone.
Components that do interact are modelled in one module (`SkbStore` opening and
reindex, `BlogRegistry` handlers and upload, `Chat` server and client,
`Chunker` configuration, window and embedder, `KnowledgeGraph` writers and
readers).

## 3. Runs

| Run | Result | Shows |
|---|---|---|
| `store_cli` | passes, 18 thousand states | without MCP: accepted stores hold only the accepting configuration's chunks and can be searched; `KnowledgeBase` is implemented; interrupted reindexes are completed |
| `store_mcp` | passes, 59 thousand states | with MCP too: no two vector lengths meet, accepted stores have their index |
| `store_mixed` | violated | MCP serves a store that was refused and mixes models in it |
| `store_half_init` | violated | a half-initialized store and a reindex record a dimension the schema does not have |
| `blog` | passes, 40 thousand states | racing updates and publishes, with a failed call or crash anywhere, keep registry and documents consistent and implement `Blog`; a post's document has no row only if an update stored it that found none |
| `blog_dangling` | violated | two racing deletes leave a listed post without a document |
| `blog_force` | violated | a forced create of a registered post deletes it |
| `blog_orphan` | violated | two racing updates leave a replacement of a post that no row names |
| `blog_eager` | violated | a replacement deleted while its row is moved leaves a listed post without a document |
| `autosave_revert` | violated | a rotation sets the editor back to what was sent |
| `ingest` | passes, 491 thousand states | chunks cover the text and are embedded whole unless they count more tokens alone; PDF slots are neither exceeded nor lost, uploads are answered in time and in the end; the graph follows the texts and its readers find what is in reach; at the MCP server nobody works on the store beside a reindex, the flag is taken down, progress increases and is completed, everyone is answered |
| `serving` | passes, 710 thousand states | one account per email, revocations hold; pages and reads agree; rankings are fair; the chat shows the answer to the last message and its pipeline ends; the palette at rest answers its text; no save of the editor crosses notes, at rest it shows what is stored or an error, drafts are always sent |

Bounds. The store runs use two documents (one stays bare or old while the other
is rebuilt; one has no tokens under one tokenizer) and three configurations: B
differs from A in dimension and model, C in model, tokenizer and
`max_input_tokens` at the same dimension, so every comparison of `open_inner`
decides alone in some state. Two faults allow a crash during the recovery of a
crash. The number of starts, uploads and reindexes is not bounded. The blog
runs use two requests in flight, three ids (a post, and a replacement by each
request), three contents and one fault; requests, authors and contents are
symmetric, and the runs have no liveness property. `blog_eager` has a fourth id,
for a replacement of the replacement. Eager clients break `RowsNameDocuments`
and `KeepsBlog`; `OneRowPerPost` and `RegisteredAtRest` also hold with them (630
thousand states), and all properties of `blog` with four ids (609 thousand).
`autosave_revert` needs no second session and has none.

`ingest`: texts of up to three lines of two bytes with every cut into tokens, so
windows of three to six tokens (with overlaps up to two) end before, on and
after headings and the text's end, batches of two leave a rest, layers with a
value that is zero, out of range or does not parse occur in file and
environment, and a chunk of a full window may count two tokens more by itself,
one more than the embedder takes; two requests for one slot with a budget
of one tick, so that a request queues behind a job whose caller is gone, times
out in every stage, and gets its slot at the last moment, and with lookups of
one tick, as long as the deadline itself; two documents of three texts over
three names and three links that form a cycle, walked to depth three, with three
writes before, between and after a reader's queries and limits small enough to
cut; two requests to the MCP server (a tool and a reindex, or two reindexes,
meet at every point; a third could only wait), four documents with two per page
and a report every second one, and a channel of capacity one, so that a page is
full, reports are dropped, and the completion finds the channel full.

`serving`: two clients, two emails (one invited) and two ticks of time with a
session and a leeway of one tick each, so a purge runs with a clock reading
from before or after the expiry it decides; three documents with equal and
unequal times and titles, pages of one, a scan of three (full with all
documents), a snapshot bounded at two; two documents of two chunks and one
chunk, `top_k` up to two, scores below, at and above zero that may tie, one
write during the search; two chat messages (a
second one supersedes the first in every step of it), answers of up to three
cells around a line limit of one, a channel of one; two texts in the palette
with two rows and nine sequence numbers, enough to open it twice with a search
under way from each opening and text; two notes in the editor (one to leave, one
to go to), three edits (one in flight, one queued, one in the timer), two PUTs
under way (a retry over a save), two new sessions (leave and come back) and one
lost request or answer. With four edits, three PUTs and two losses the editor's
invariants hold in 750 thousand states up to symmetry.

A user or client may stop anywhere, and behaviours end when bounds are reached,
so the runs that have such ends do not check for deadlock; that nobody at the
MCP server waits for ever is `EveryoneAnswered`. The theorems below
cover any values of the constants.

Fairness (`FairSpec` or the instance's `Spec`). A program that has started goes
on with `open` and `reindex` (they are sequential code without waits on others):
weak fairness. That someone eventually repeats `skb reindex` under each
configuration, and not always with `--dry-run`, is an assumption about the
operator: strong fairness of `Start("reindex", c)` and `BeginReindex`. Uploads,
exits and faults get none; faults are bounded. In `McpServer` each request's
handler and each forwarder is weakly fair: they are tasks the runtime goes on
polling, embedding ends, and the client reads the server's output. Arrivals get
none. In `Autosave` the timer, the server's answers and the callbacks are weakly
fair (a request that gets no answer fails in the end, and react-query stops
retrying); the user is not. In `ingest` time passes, and the runtime polls each
request that could go on (`Serve`: an upload's reads, its slot when it is free,
its timers). The system's resolver is fair as well, since nothing in the code
would end a lookup; nothing is assumed of PDF jobs, servers and clients, so
`UploadsAnswered` also speaks of jobs that never end. The MCP server's part has
the fairness of `FairServerSpec`, the editor's in `serving` that of
`FairEditorSpec`. In `serving` a chat pipeline whose select or send is ready
runs; nothing is assumed of searches, models, networks and users. That something
always happens in the end is stated as `[]<>` of the states in which nobody
waits for it.

## 4. Findings

Properties that comments or documents state and TLC refutes; the counter-
examples are explained in `PROJECT.json` under "findings": `store_mixed`,
`store_half_init`, `blog_dangling`, `blog_force`, `blog_orphan`, `blog_eager`,
`autosave_revert`.

Known divergences that have no run of their own, met while modelling:

- A dimension change that dies in its rebuild cannot be recovered under a third
  configuration: `open_for_reindex` runs `migrate` first (`lib.rs` 215), whose
  `DEFINE INDEX IF NOT EXISTS` fails on vectors of another length. Only the
  interrupted configuration can resume (`IMPLEMENTATION_PLAN.md` 287 says
  running reindex again recovers). `SkbStore` has the behaviour (`RefusedStep`).
- The second page of `skb://documents` is an error: `list_documents` with a
  cursor sends a statement that does not parse (`main.rs` 115-137,
  `handlers/documents.rs` 105-109). `McpServer` has it (`ListingError`).
- The ONNX embedder reports the configured dimension back, so the comparison
  that should detect a wrong one (`resolve_embedding_settings`) cannot fail.
- `graph_query` from a document names its start without the `entity:` prefix
  its other nodes have, and labels mention edges `relation`.
- The branch of `chunk` that skips a range (`tokenize.rs` 140-143) is dead;
  `NoRangeSkippedAlways` proves it.
- Tokens are accepted for the library's leeway after `exp`, revocations are kept
  only to `exp` (`auth.rs` 452-466): within the leeway a logged-out session may
  be accepted.
- The backlinks' row limit counts the document's own edges
  (`handlers/graph.rs` 192-229), so they can crowd out others.
- A cursor's page that meets the scan bound is silently short or empty, where
  `documents.rs` 105-112 promises a 400.
- A model's stream that ends without `[DONE]` is reported as complete
  (`llm.rs` 217-276).
- A hybrid search during a forced replacement can return one place of a document
  twice, once in each version (`search.rs` 230-290).
- The wait for a PDF slot and the parse each get the whole time budget
  (`ingest.rs` 516-531), where the comments at 508-509 and 550-556 speak of one,
  and names are looked up outside the fetch's deadline (851), however long the
  system's resolver takes. `AnswersInTime` states, and `AnswersInTimeAlways`
  proves, the bounds there are: only a parse that waited for its slot goes beyond
  the budget, and a fetch is late by one lookup at most.
- The embedder encodes a chunk's text again and cuts it at its limit
  (`embed.rs` 148-165); a chunk that counts more tokens alone than in the document
  can lose its end although its window fits. `EmbeddedUnlessLonger` bounds the
  loss by the growth.
- A heading that becomes a root keeps the part-of edge of an earlier version:
  `graph.rs` 994-998 promises that a restructured child keeps none, but old edges
  are deleted only while a section with a parent is stored.
  `HierarchyFollowsText` claims nothing of roots.
- The expansion's last query (`graph.rs` 674-678) has the form of which
  `handlers/graph.rs` 111-113 and 131-134 say that the database answers it with
  nothing; if so, an expansion never finds a chunk. `ExpansionReaches` states
  that the names asked about are those in reach, and that the chunks are complete
  if the database left no rows out.
- "Expanded results can never tie direct hits" (`graph.rs` 567-568) is not so
  after a search by one leg: an origin with a cosine of zero or below leads to
  hits at or above its own score, and ties of a leg are put in the order of their
  ids when everything is ranked again (`lib.rs` 287-295). `RankedFairly` exempts
  both.
- An arrow key between an answer and its rendering is held to the rows of the
  list before (`SearchPalette.tsx` 155-166), so the selection may be none of the
  new ones until the next key.
- A document without tokens keeps its old chunks when the store is rebuilt
  (`reindex.rs` 285); `AcceptedStoreMatches` exempts these documents.

## 5. Proofs

`SkbStoreProofs`, for every set of documents, configurations, tokenizer gaps
and any bound on faults:

- `TypeCorrect`: `Spec => []TypeOK`.
- `OneDimensionAlways`: `Spec => []OneDimension`, with every kind of program.
  `OneDimension` is inductive relative to `TypeOK`; what it rests on is that no
  configuration has the dimension `None` (`ConfigAssumption`), that an index is
  defined only over vectors that fit it (`IndexDefined`), and that a vector
  enters only if field and index take it (`DocumentEmbedded`).
- `AcceptedStoreIndexedAlways`: `Spec => []AcceptedStoreIndexed`, with every
  kind of program. `IndexInv`: a store without its index is marked for a change
  of dimension or is being made, and a reindex gives the index back before it
  touches the meta rows.
- `AcceptedStoreMatchesAlways`: if `"mcp" \notin Hosts` then `Spec =>
  []AcceptedStoreMatches`. The property speaks of a store nobody has open and
  says nothing of how it got there, so it is not inductive. `MatchInv`
  strengthens it: nothing is stored before the tables exist (`NewStore`); the
  flags of `open_inner` are set only where they can be (`OpenFlags`); past its
  checks a normal program has the configuration of the meta rows (`Checked`); a
  running reindex is marked, and what it has visited agrees with its
  configuration (`Rebuilt`); and unmarked, every document agrees with the meta
  rows (`RecordMatches`).
- `AcceptedStoreSearchableAlways`, under the same hypothesis: `FieldInv` adds
  that the field has the recorded dimension whenever no change of it is marked,
  and the reindex's own from the transition on.
- `StoreKeepsPromise`, under the same hypothesis: `Spec => KeepsPromise`, the
  refinement of `KnowledgeBase`. `MetaInv` gives the order in which meta rows
  appear and `ProfileInv` that a recorded profile is a configuration's; then a
  step is a promised one or is not seen, the marker's removal being the step
  that brings every document back.

The hypothesis is needed: `store_mixed` is the counterexample with MCP.

`BlogRegistryProofs`, for any requests, authors, contents and bounds on ids and
faults, under `Careful`: clients send creates and deletes on their own
(`{"create", "delete"} \subseteq Alone`), do not force a post's content
(`<<TRUE, TRUE>> \notin Creates`), and name a document once the request that
stored it is over (`~Eager`), as `blog.cfg` has it. `blog_dangling`,
`blog_force` and `blog_eager` are the counterexamples without each; nothing in
the server enforces any of them. `RegistryTypeCorrect`,
`RowsNameDocumentsAlways`, `OneRowPerPostAlways` and `RegisteredAtRestAlways`
follow from `RegistryInv`, which adds to those properties: where a request is
says what it is and which locals it has (`Placed`); a document a request has
stored is its own, and every other request names a settled one, in nobody's
hands (`Own`, `Settled`); what a request has taken away or found missing is
still so, since only it could put it back (`Gone`); the post it works on is the
one its row is about (`Lineage`); ids beyond `minted` are unused (`Unminted`);
without faults every document of a post that has no row, strays apart, is in
some request's care, which will register it or take it away (`Registered`,
`Cared`); creates and deletes are alone (`Solo`); and there is an id left for
each request that may still mint one (`HasRoom`, a count over the requests in
flight). TLC checked `RegistryInv` on `blog.cfg`'s instance and with three
requests and four ids (1.3 million states). `RegistryKeepsBlog` is the
refinement of `Blog`: `View` says which post the refinement mapping shows (the
row's, or the one a delete holds in its hands), each action is then an `Add`,
`Replace`, `Publish`, `Withdraw`, `Reinstate` or `Remove` of one post (`Apart`),
or changes nothing seen.

`McpServerProofs`, for any number of requests, documents, page size, report
granularity and channel capacity: `McpTypeCorrect`, `OneAtATimeAlways`,
`FlagIsOwnedAlways`, `RebuildsTheStoreAlways`, `ProgressIncreasesAlways` and
`CompletionDeliveredAlways`. `OneAtATime` is inductive by itself; the others
need `McpInv`, the conjunction over requests of `Placed` (where a request is
says what it is and which locals it has, so `FlagIsOwned` sees every claim),
`Relayed` (the channel is open exactly during the rebuild, and a forwarder that
is done belongs to a reindex that is ending) and `OnItsWay` (no number in the
channel exceeds the total, and once the reindex has succeeded the total is known
to the forwarder or there is something in the channel that will tell it:
that is why a dropped completion is made up). `RebuildsTheStore` bounds what is
reported by the size of the store, which cannot change under the mutex.

`AutosaveProofs`, for any notes, edits, sessions, overlapping PUTs and losses:
`EditorTypeCorrect`, `SameNoteAlways`, `QueueIsServedAlways`,
`RestIsTruthfulAlways`. `SameNote` speaks of the server and the editor only;
`NoteInv` adds that every draft in the timer or the queue is of the note the
route is at, that the last request and every save carry the text of the note
their id names, and that a rotation is one of the note the route is at, so the
layout effect that takes a transition for a rotation stays in the note.
`QueueIsServed` needs only the types. `RestIsTruthful` speaks of a quiet editor
and says nothing of how it got quiet. `RestInv` adds: no content contains an
edit that was not made yet (`ContentsKnown`), so a draft is a text nobody has
sent (`DraftsFresh`) and a PUT of the current session, if the server takes it,
changes the document and mints a new id (`Rotates`); nobody but that save can be
at the new id before the route follows (`Sendable`, the part of `VersionsInv`
about ids); and while the indicator says saving or saved, there is a draft, or a
save of the session that will decide, or the note is stored as shown and no PUT
to its id is left (`Decided`). TLC checked `RestInv` on the editor's part of
`serving` and with three PUTs and two losses (735 thousand states). The argument
rests on edits that only add, as the model has them: a user who undoes an edit
back to the very text of the last save sends a PUT that the server skips as a
duplicate, and of that editor the theorem says nothing.

`IngestProofs`, `Chunker`: for every text, every cut into tokens and every set
of layers, `NoRangeSkippedAlways` and `ChunksCoverTextAlways` from `CInv`
(between two turns the window starts no later than the last chunk's end and
reaches past it; every token before that end is in a chunk),
`EmbeddedUnlessLongerAlways` from `EInv` (each chunk is at most a window long,
and an accepted window fits the embedder; the vectors are those of the first
chunks, and each has lost at most what encoding its text again has added).
The bound on a window comes from `Resolves`, that is, from `validate`.

`IngestProofs`, `Extraction`: for any requests, slots, budgets and redirects,
`JobsBoundedAlways` and `AnswersInTimeAlways` from `XInv` (a running job holds a
slot, and a request at a given stage has no job of a later one; `FetchInTime`:
the time a fetch has taken and what its deadline has left are within the deadline,
except for the lookup under way; `PdfInTime`: the same of the PDF's budget, except
in a parse, whose own timer is a budget long).

`IngestProofs`, `KnowledgeGraph`: for any documents, texts, links, depths and
limits, `GraphMentions`, `GraphHierarchy` (an action property), `GraphWalk`,
`GraphExpansion` and `GraphBacklinks`, all from `GraphInvariant`. `GraphInv` has
a part for the writers and one for each reader:

- `MentionsMatch`: each document's mentions are those of its text. What
  `FrontList` finds is shown line by line (`OpenAfter` is the reader's state
  after a line, by the line that decides it) to be what `InList` says of the
  whole frontmatter. For the hierarchy, `StackStands` says that the open
  sections stand for all sections read so far: whatever level comes next, both
  have the same nearest section above it, which is the parent `ParentsOf`
  defines; and `EdgesStand` what each name is part of by then.
- `WalkSteps`: the names emitted are those of the nodes, once each and within
  the limit, each node within its depth of the start, and the walk stands at a
  name that it may leave from one step further.
- `ExpandSteps`: for each origin's hop, the frontier is exactly what is within
  that many steps when nothing is written, and at most what was within reach
  otherwise (`TurnStands`); the names asked about are those, and what is found
  is what mentions them, or less if the database left rows out. What carries it
  is that the names followed before lead only into the frontier, which keeps
  them: a hop that leaves them out misses nothing, and one that finds nothing
  new leaves nothing for later hops.
- `BackSteps`: after the first query the names are the document's, and after
  the second the documents are those that share one.

`ServingProofs`, `Sessions`: for any clients, emails and times,
`OneAccountPerEmailAlways` and `RevokedStaysRevokedAlways` from `SInv` (an
answered registration made the account and accounts do not change; a stored
revocation is only gone when its session has expired, because no clock reading
is ahead of the clock), and `RolesFromInvitesAlways` (every session has its
account's role, and an author an invite).

`ServingProofs`, `Palette`: for any texts and bounds, `RestShowsTheQueryAlways`
from `PInv` (a closed palette waits for no answer; an open one only for that of
the text in its input; an arrow key holds the selection to the rows that are
rendered, which are those of the list unless `early` says otherwise).

`ServingProofs`, `Chat`: for any number of messages and any bodies, prompts,
line and channel limits, `ChatTruthful` and `ChatPrompt`. The answer is a list
of places in the body (`AnswerOf`), so "the client shows a beginning of it" has
to be related to how far the reader of the model's stream has got. `Flow` does
so for the stream that is listened to: what is shown, then what is on the wire,
then the event being sent, then what the reader has not taken yet, are the
answer without a gap, and the event that ends a stream is its last one.
`Truthful` keeps what is shown for streams that were stopped, and `Closed` says
that a client that is gone gave its stream up. `ChatPrompt` rests on
`ExcerptsFit`: the room that is left never becomes negative, whatever the sizes
of hits.

`ReadingProofs`, `Listing`: for any documents, sizes, titles, dates, page sizes
and bounds, `ListPages` and `ListReads` from `ListInvariant`. `PagesStand` says
of a cursor that the documents up to its place, in the order of what is stored
now, are the listed ones, new ones apart: documents come and go on both sides of
it, and neither moves a document that stays from one side to the other.
`SnapshotStands` says the same of an offset, which holds of additions and
deletions apart; `Uncrowded` is the store that fits the scan.

`ReadingProofs`, `Retrieval`: for any documents, rankings, scores of the legs,
limits and constants of the fusion, `SearchRankedFairly` from `SearchInvariant`.
`Leg` says that a leg ranks no chunk twice, `Best` that the fusion kept the best
by score, `Falling` and `Scored` that no hit has a lower score than one both
legs place behind it, `InTurn` that it comes before that one (a single leg's
ties only until they are ranked anew), and `AddedBehind` that an expanded hit
with a positive score is behind an origin of it. That a chunk no leg places
behind another has the higher score is arithmetic on integer division, where
`ScoresAreWhole` makes the reciprocals exact.

`DataLemmas` proves once what these need: `InOrder` of a finite set by a strict
total order lists it, each element once and in order; a filter of positions
keeps the order; a sequence without repetitions is as long as its elements are
many; one sequence behind another; induction and recursion.

Assumptions on the constants, evaluated by TLC in every run of the module:
`ConfigAssumption` (configurations are records of values other than `None`; the
markers `Absent`, `Bare`, `Pending`, `None` are told apart from profiles),
`HostAssumption`, `FaultAssumption`, `RegistryAssumption` (finitely many
requests, `None` is no id, content, row or post), `EditorAssumption` (bounds
are numbers, `None` is no record), `ServerAssumption` (finitely many documents,
positive sizes, `None` no request and no kind of request), `LayersAssumption`
(layers map keys to numbers or `Bad`, the defaults parse), `TextsAssumption`
(texts are sequences of lines of positive length), `UploadAssumption`,
`SessionAssumption`, `PaletteAssumption`, `GraphAssumption` (texts have lines,
chunks and sections of finitely many names, and an expansion at least one hop:
`expand_search_hits` returns at once otherwise), `ListAssumption` (finitely many
documents, pages of at least one), `SearchAssumption` and `ScoresAreWhole` (the
unit of scores is divisible by every denominator of the fusion that occurs),
`ChatAssumption` (a line without its end can only be a body's last; a
character has at least one byte).

Every invariant and action property of a passing run is stated by a theorem,
some under the hypotheses named above. Only model-checked are the liveness
properties (`InterruptedReindexCompletes`, `EveryoneAnswered`, `DraftsLeave`,
`UploadsAnswered`, `PipelineEnds`): fairness and ENABLED are out of the prover's
reach. The library's induction and recursion theorems take an operator, which no
installed prover can instantiate; `NatSetInduction`, `BoundedInduction` and
`Recursion` of `DataLemmas` state them for a set and for a function, and are
proved from the least element of a set of numbers. What a recursive function of
the models computes is shown with them.

## 6. What is left

Not modelled, and why: `doctor` (one-shot diagnosis of a store, reported and
not acted on), `query_surql` (passes a statement through), routing, request and
response DTOs, CLI parsing and output, the studio and blog applications and the
throttled preview (rendering), the npm wrapper, deployment and CI (packaging).
Embedding inference, tokenization proper, regular expressions, hashing and
token encoding are external: the models allow any result. The models stop at
SurrealDB's transactions, which they take as atomic, and write conflicts, which
they take as failed calls.

Worth doing next: that `McpServer`'s serialized tools implement an abstract store
with atomic operations, as `SkbStore` and `BlogRegistry` do theirs; that
`Extraction` implements a bounded pool of jobs; and a composition of
`BlogRegistry` with `Sessions`, whose roles decide who may write posts.

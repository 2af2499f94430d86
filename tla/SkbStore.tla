------------------------------ MODULE SkbStore ------------------------------
(***************************************************************************)
(* The life of one knowledge-base directory: opening it under a            *)
(* configuration, uploading and deleting documents, and rebuilding it with *)
(* `reindex`, while the process may die between any two durable writes.    *)
(*                                                                         *)
(* The durable state is what SurrealKV keeps: the schema of the chunk      *)
(* table, the meta rows, the reindex marker and the chunks of each         *)
(* document.  The volatile state is the control point of the one process   *)
(* that holds the directory's LOCK.  A SurrealDB statement, or a           *)
(* transaction, is one step.                                               *)
(***************************************************************************)
EXTENDS Naturals

CONSTANTS
    Docs,       \* document contents, one record each (document.sha256 is UNIQUE)
    Configs,    \* configurations an operator may run the program with
    NoTokens,   \* pairs <<tok, d>>: tokenizer tok yields no chunk for d
    Hosts,      \* the kinds of program that open the store, see HostKinds
    MaxFaults,  \* bound on crashes and failed reindex steps
    None,       \* no value: a missing meta row, an undefined field or index
    Absent,     \* no such document
    Bare,       \* the document is stored and has no chunk
    Pending     \* the document is stored in a store out of service

(* "normal": skb-server, and every skb command but `skb reindex`;
   "reindex": `skb reindex`; "mcp": the MCP server. *)
HostKinds == {"normal", "reindex", "mcp"}

Models == {c.model : c \in Configs}
Dims   == {c.dim : c \in Configs}
Maxima == {c.max : c \in Configs}
Toks   == {c.tok : c \in Configs}

(* What the chunks of a document carry of the configuration that made them:
   the model's vectors, their dimension, the tokenizer's boundaries. *)
Profile(c) == [model |-> c.model, dim |-> c.dim, tok |-> c.tok]
Profiles   == {Profile(c) : c \in Configs}

ASSUME ConfigAssumption ==
    /\ \A c \in Configs : /\ c = [model |-> c.model, dim |-> c.dim,
                                  max |-> c.max, tok |-> c.tok]
                          /\ None \notin {c.model, c.dim, c.max, c.tok}
    /\ Profiles \cap {Absent, Bare, Pending, None} = {}
    /\ Absent # Bare /\ Absent # Pending
    /\ None \notin {"dim", "meta"}
ASSUME HostAssumption == Hosts \subseteq HostKinds
ASSUME FaultAssumption == MaxFaults \in Nat

VARIABLES
    tables,   \* INFO FOR DB lists a table
    field,    \* length asserted by field chunk.embedding
    index,    \* dimension of index chunk_embedding_hnsw
    meta,     \* the meta rows that open compares
    marker,   \* meta row reindex_in_progress
    chunks,   \* per document: Absent, Bare, or the profile its chunks carry
    pc,       \* where the process is; "down" when none runs
    host,     \* kind of the running program
    cfg,      \* its configuration
    forced,   \* allow_mismatch of the current open_inner call
    fresh,    \* is_new of the current open_inner call
    wide,     \* dimension_changed of the current reindex
    todo,     \* documents of the reindex snapshot not yet visited
    faults    \* crashes and failed steps so far

durable == <<tables, field, index, meta, marker, chunks>>
vars == <<durable, pc, host, cfg, forced, fresh, wide, todo, faults>>

Opening    == {"check", "tables", "field", "index", "initmeta", "tokenizer"}
Reindexing == {"transition", "setdim", "setmodel", "rebuild", "redefine",
               "metas", "unmark"}

MetaRows == [model : Models \cup {None}, dim : Dims \cup {None},
             max : Maxima \cup {None}, fp : Toks \cup {None}]

TypeOK ==
    /\ tables \in BOOLEAN
    /\ field \in Dims \cup {None}
    /\ index \in Dims \cup {None}
    /\ meta \in MetaRows
    /\ marker \in {None, "dim", "meta"}
    /\ chunks \in [Docs -> Profiles \cup {Absent, Bare}]
    /\ pc \in {"down", "serving"} \cup Opening \cup Reindexing
    /\ host \in Hosts
    /\ cfg \in Configs
    /\ forced \in BOOLEAN
    /\ fresh \in BOOLEAN
    /\ wide \in BOOLEAN
    /\ todo \in SUBSET Docs
    /\ faults \in 0 .. MaxFaults

(* A directory that does not exist yet. *)
Init ==
    /\ tables = FALSE
    /\ field = None
    /\ index = None
    /\ meta = [model |-> None, dim |-> None, max |-> None, fp |-> None]
    /\ marker = None
    /\ chunks = [d \in Docs |-> Absent]
    /\ pc = "down"
    /\ host \in Hosts
    /\ cfg \in Configs
    /\ forced = FALSE
    /\ fresh = FALSE
    /\ wide = FALSE
    /\ todo = {}
    /\ faults = 0

-----------------------------------------------------------------------------
Stored == {d \in Docs : chunks[d] # Absent}

(* The chunks table holds vectors of documents whose profile is known. *)
Embedded == {d \in Docs : chunks[d] \in Profiles}

(* DEFINE INDEX scans the table: it fails on a vector of another length. *)
Buildable(dim) == \A d \in Embedded : chunks[d].dim = dim

(* The field's ASSERT and the index both take vectors of the running
   configuration. *)
Insertable == field = cfg.dim /\ index \in {None, cfg.dim}

(* The checks of a normal open before it writes anything. *)
Mismatch ==
    \/ marker # None
    \/ meta.model # cfg.model
    \/ meta.dim \notin {None, cfg.dim}

(* The process is gone; nothing volatile survives. *)
Halt ==
    /\ pc' = "down"
    /\ forced' = FALSE
    /\ fresh' = FALSE
    /\ wide' = FALSE
    /\ todo' = {}
    /\ UNCHANGED <<host, cfg>>

(* E_MODEL_MISMATCH from open: the MCP server and `skb reindex` call
   open_for_reindex, everything else reports the error and exits. *)
Refuse ==
    IF host = "normal" THEN Halt
    ELSE /\ pc' = "check"
         /\ forced' = TRUE
         /\ UNCHANGED <<host, cfg, fresh, wide, todo>>

(* open_inner returns: its arguments and locals are gone. *)
Opened ==
    /\ pc' = "serving"
    /\ forced' = FALSE
    /\ fresh' = FALSE
    /\ UNCHANGED <<host, cfg, wide, todo>>

Goto(next) ==
    /\ pc' = next
    /\ UNCHANGED <<host, cfg, forced, fresh, wide, todo>>

-----------------------------------------------------------------------------
(* Opening *)

Start(h, c) ==
    /\ pc = "down"
    /\ pc' = "check"
    /\ host' = h
    /\ cfg' = c
    /\ UNCHANGED <<durable, forced, fresh, wide, todo, faults>>

(* A new directory, or open_for_reindex: straight to migrate. *)
CheckSkipped ==
    /\ pc = "check"
    /\ ~tables \/ forced
    /\ pc' = "tables"
    /\ fresh' = ~tables
    /\ UNCHANGED <<durable, host, cfg, forced, wide, todo, faults>>

CheckRefused ==
    /\ pc = "check"
    /\ tables /\ ~forced
    /\ Mismatch
    /\ Refuse
    /\ UNCHANGED <<durable, faults>>

(* The dimension row is backfilled before max_input_tokens is compared. *)
CheckMaxTokens ==
    /\ pc = "check"
    /\ tables /\ ~forced
    /\ ~Mismatch
    /\ IF meta.max \in {None, cfg.max}
         THEN /\ meta' = [meta EXCEPT !.dim = cfg.dim, !.max = cfg.max]
              /\ Goto("tables")
         ELSE /\ meta' = [meta EXCEPT !.dim = cfg.dim]
              /\ Refuse
    /\ UNCHANGED <<tables, field, index, marker, chunks, faults>>

(* The schema's statements commit one by one.  The first is a DEFINE TABLE. *)
MigrateTables ==
    /\ pc = "tables"
    /\ tables' = TRUE
    /\ Goto("field")
    /\ UNCHANGED <<field, index, meta, marker, chunks, faults>>

(* DEFINE FIELD .. IF NOT EXISTS. *)
MigrateField ==
    /\ pc = "field"
    /\ field' = IF field = None THEN cfg.dim ELSE field
    /\ Goto("index")
    /\ UNCHANGED <<tables, index, meta, marker, chunks, faults>>

AfterMigrate ==
    IF fresh THEN Goto("initmeta")
    ELSE IF forced THEN Opened
    ELSE Goto("tokenizer")

(* DEFINE INDEX .. HNSW IF NOT EXISTS: a failed build is E_DB, and neither
   program falls back on that. *)
MigrateIndex ==
    /\ pc = "index"
    /\ \/ /\ index # None
          /\ AfterMigrate
          /\ UNCHANGED index
       \/ /\ index = None
          /\ Buildable(cfg.dim)
          /\ index' = cfg.dim
          /\ AfterMigrate
       \/ /\ index = None
          /\ ~Buildable(cfg.dim)
          /\ Halt
          /\ UNCHANGED index
    /\ UNCHANGED <<tables, field, meta, marker, chunks, faults>>

InitMeta ==
    /\ pc = "initmeta"
    /\ meta' = [meta EXCEPT !.model = cfg.model, !.dim = cfg.dim, !.max = cfg.max]
    /\ IF forced THEN Opened ELSE Goto("tokenizer")
    /\ UNCHANGED <<tables, field, index, marker, chunks, faults>>

(* The fingerprint is the last of save_tokenizer_meta's rows, and the only
   one that open compares. *)
SyncTokenizer ==
    /\ pc = "tokenizer"
    /\ IF meta.fp \in {None, cfg.tok}
         THEN /\ meta' = [meta EXCEPT !.fp = cfg.tok]
              /\ Opened
         ELSE /\ UNCHANGED meta
              /\ Refuse
    /\ UNCHANGED <<tables, field, index, marker, chunks, faults>>

-----------------------------------------------------------------------------
(* Serving *)

(* A new document, or the same content again with force: the record keeps
   its id and its chunks are replaced.  One transaction. *)
Upload(d) ==
    /\ pc = "serving"
    /\ host \in {"normal", "mcp"}
    /\ <<cfg.tok, d>> \notin NoTokens
    /\ Insertable
    /\ chunks' = [chunks EXCEPT ![d] = Profile(cfg)]
    /\ UNCHANGED <<tables, field, index, meta, marker, pc, host, cfg, forced,
                   fresh, wide, todo, faults>>

Delete(d) ==
    /\ pc = "serving"
    /\ host \in {"normal", "mcp"}
    /\ d \in Stored
    /\ chunks' = [chunks EXCEPT ![d] = Absent]
    /\ UNCHANGED <<tables, field, index, meta, marker, pc, host, cfg, forced,
                   fresh, wide, todo, faults>>

(* A command ends, a server stops, `skb reindex --dry-run` has reported. *)
Exit ==
    /\ pc = "serving"
    /\ Halt
    /\ UNCHANGED <<durable, faults>>

-----------------------------------------------------------------------------
(* Reindex *)

DimensionChanged ==
    \/ meta.dim # None /\ meta.dim # cfg.dim
    \/ marker = "dim"

(* Mutant: reindex forgets to record that it has begun. *)
BeginUnrecorded ==
    /\ pc = "serving"
    /\ host \in {"reindex", "mcp"}
    /\ wide' = DimensionChanged
    /\ todo' = Stored
    /\ pc' = IF DimensionChanged THEN "transition" ELSE "rebuild"
    /\ UNCHANGED <<durable, host, cfg, forced, fresh, faults>>

(* Mutant: a marked store is taken for one that another run is rebuilding. *)
BeginUnlessMarked ==
    /\ pc = "serving"
    /\ host \in {"reindex", "mcp"}
    /\ marker = None
    /\ wide' = DimensionChanged
    /\ todo' = Stored
    /\ marker' = IF DimensionChanged THEN "dim" ELSE "meta"
    /\ pc' = IF DimensionChanged THEN "transition" ELSE "rebuild"
    /\ UNCHANGED <<tables, field, index, meta, chunks, host, cfg, forced, fresh,
                   faults>>

BeginReindex ==
    /\ pc = "serving"
    /\ host \in {"reindex", "mcp"}
    /\ wide' = DimensionChanged
    /\ todo' = Stored
    /\ marker' = IF DimensionChanged THEN "dim" ELSE "meta"
    /\ pc' = IF DimensionChanged THEN "transition" ELSE "rebuild"
    /\ UNCHANGED <<tables, field, index, meta, chunks, host, cfg, forced, fresh,
                   faults>>

(* Mutant: the transition redefines the field over the old chunks. *)
TransitionKeepingChunks ==
    /\ pc = "transition"
    /\ index' = None
    /\ field' = cfg.dim
    /\ Goto("setdim")
    /\ UNCHANGED <<tables, meta, marker, chunks, faults>>

(* Mutant: the transition wipes the documents with their chunks. *)
TransitionWipingAll ==
    /\ pc = "transition"
    /\ chunks' = [d \in Docs |-> Absent]
    /\ index' = None
    /\ field' = cfg.dim
    /\ Goto("setdim")
    /\ UNCHANGED <<tables, meta, marker, faults>>

Transition ==
    /\ pc = "transition"
    /\ chunks' = [d \in Docs |-> IF chunks[d] = Absent THEN Absent ELSE Bare]
    /\ index' = None
    /\ field' = cfg.dim
    /\ Goto("setdim")
    /\ UNCHANGED <<tables, meta, marker, faults>>

SetDim ==
    /\ pc = "setdim"
    /\ meta' = [meta EXCEPT !.dim = cfg.dim]
    /\ Goto("setmodel")
    /\ UNCHANGED <<tables, field, index, marker, chunks, faults>>

SetModel ==
    /\ pc = "setmodel"
    /\ meta' = [meta EXCEPT !.model = cfg.model]
    /\ Goto("rebuild")
    /\ UNCHANGED <<tables, field, index, marker, chunks, faults>>

(* One document of rebuild_all: a transaction, or skipped when its chunks
   come out empty.  A vector the schema refuses is RefusedStep's. *)
RebuildDocument(d) ==
    /\ pc = "rebuild"
    /\ d \in todo
    /\ \/ /\ <<cfg.tok, d>> \in NoTokens
          /\ UNCHANGED chunks
       \/ /\ <<cfg.tok, d>> \notin NoTokens
          /\ Insertable
          /\ chunks' = [chunks EXCEPT ![d] = Profile(cfg)]
    /\ todo' = todo \ {d}
    /\ UNCHANGED <<tables, field, index, meta, marker, pc, host, cfg, forced,
                   fresh, wide, faults>>

(* Mutant: the index is not defined again after a dimension change. *)
RebuildDoneNoIndex ==
    /\ pc = "rebuild"
    /\ todo = {}
    /\ Goto("metas")
    /\ UNCHANGED <<durable, faults>>

RebuildDone ==
    /\ pc = "rebuild"
    /\ todo = {}
    /\ Goto(IF wide THEN "redefine" ELSE "metas")
    /\ UNCHANGED <<durable, faults>>

(* DEFINE INDEX without IF NOT EXISTS. *)
RedefineIndex ==
    /\ pc = "redefine"
    /\ index = None
    /\ Buildable(cfg.dim)
    /\ index' = cfg.dim
    /\ Goto("metas")
    /\ UNCHANGED <<tables, field, meta, marker, chunks, faults>>

UpdateMetas ==
    /\ pc = "metas"
    /\ meta' = [model |-> cfg.model, dim |-> cfg.dim, max |-> cfg.max,
                fp |-> cfg.tok]
    /\ Goto("unmark")
    /\ UNCHANGED <<tables, field, index, marker, chunks, faults>>

(* Mutant: the marker row is blanked, not deleted. *)
UnmarkBlank ==
    /\ pc = "unmark"
    /\ marker' = ""
    /\ Halt
    /\ UNCHANGED <<tables, field, index, meta, chunks, faults>>

(* The marker goes last; `skb reindex` then exits, the MCP server serves on. *)
Unmark ==
    /\ pc = "unmark"
    /\ marker' = None
    /\ IF host = "mcp"
         THEN /\ pc' = "serving"
              /\ wide' = FALSE
              /\ UNCHANGED <<host, cfg, forced, fresh, todo>>
         ELSE Halt
    /\ UNCHANGED <<tables, field, index, meta, chunks, faults>>

-----------------------------------------------------------------------------
(* Faults *)

(* A reindex returns an error: nothing of the failed statement is durable,
   and only the MCP server survives it. *)
AbortReindex ==
    IF host = "mcp"
      THEN /\ pc' = "serving"
           /\ wide' = FALSE
           /\ todo' = {}
           /\ UNCHANGED <<host, cfg, forced, fresh>>
      ELSE Halt

(* The schema refuses the configuration's vectors. *)
RefusedStep ==
    /\ \/ /\ pc = "rebuild"
          /\ \E d \in todo : <<cfg.tok, d>> \notin NoTokens
          /\ ~Insertable
       \/ /\ pc = "redefine"
          /\ index # None \/ ~Buildable(cfg.dim)
    /\ AbortReindex
    /\ UNCHANGED <<durable, faults>>

(* A failure of the embedder, the tokenizer or the database, the last of
   eight write conflicts included. *)
FailStep ==
    /\ faults < MaxFaults
    /\ pc \in Reindexing
    /\ AbortReindex
    /\ faults' = faults + 1
    /\ UNCHANGED durable

(* The process is killed. *)
Crash ==
    /\ faults < MaxFaults
    /\ pc # "down"
    /\ Halt
    /\ faults' = faults + 1
    /\ UNCHANGED durable

-----------------------------------------------------------------------------
Open ==
    \/ CheckSkipped \/ CheckRefused \/ CheckMaxTokens
    \/ MigrateTables \/ MigrateField \/ MigrateIndex \/ InitMeta \/ SyncTokenizer

Reindex ==
    \/ BeginReindex \/ Transition \/ SetDim \/ SetModel
    \/ \E d \in Docs : RebuildDocument(d)
    \/ RebuildDone \/ RedefineIndex \/ UpdateMetas \/ Unmark \/ RefusedStep

Next ==
    \/ \E h \in Hosts, c \in Configs : Start(h, c)
    \/ Open
    \/ \E d \in Docs : Upload(d) \/ Delete(d)
    \/ Exit
    \/ Reindex
    \/ FailStep
    \/ Crash

Spec == Init /\ [][Next]_vars

(* A program that has started goes on, and someone runs `skb reindex` again
   and again under each configuration: it is opened, and not always as a dry
   run.  Nothing is assumed of uploads, exits and faults. *)
FairSpec ==
    /\ Spec
    /\ WF_vars(Open)
    /\ WF_vars(Transition \/ SetDim \/ SetModel \/ RebuildDone \/ RedefineIndex
                  \/ UpdateMetas \/ Unmark \/ RefusedStep
                  \/ \E d \in Docs : RebuildDocument(d))
    /\ SF_vars(BeginReindex)
    /\ \A c \in Configs : SF_vars(Start("reindex", c))

-----------------------------------------------------------------------------
(* Properties *)

(* A normal open under c would succeed in the present state. *)
Accepts(c) ==
    /\ tables
    /\ marker = None
    /\ meta.model = c.model
    /\ meta.dim \in {None, c.dim}
    /\ meta.max \in {None, c.max}
    /\ meta.fp \in {None, c.tok}

(* Whatever crashed before, a store that a normal open accepts holds only
   chunks made by the configuration that opens it: the checks of open_inner
   and the marker together never let two models' vectors, or two tokenizers'
   chunks, be served from one store.  The exception is rebuild_all's skip of a
   document that yields no chunk. *)
AcceptedStoreMatches ==
    \A c \in Configs : Accepts(c) =>
        \A d \in Stored : \/ chunks[d] = Profile(c)
                          \/ <<c.tok, d>> \in NoTokens

(* Vectors of two lengths never meet: every vector has the length the field
   asserts and the index was defined for, whoever wrote it, through every
   interrupted dimension change and every program. *)
OneDimension ==
    /\ Buildable(field)
    /\ Embedded # {} => index \in {None, field}

(* A store that a normal open accepts and that holds vectors can be searched
   and added to under that configuration: field and index are defined, and of
   its dimension, also after an interrupted dimension change. *)
AcceptedStoreSearchable ==
    \A c \in Configs : Accepts(c) /\ Embedded # {} =>
        field = c.dim /\ index = c.dim

(* Whatever program ran last, a store that a normal open accepts has its
   vector index: no path takes the marker away before the index is back. *)
AcceptedStoreIndexed ==
    (\E c \in Configs : Accepts(c)) => index # None

(* The schema's dimension is the recorded one in every store open accepts:
   "from here on the stored dimension matches the schema" (reindex.rs). *)
SchemaMatchesRecord ==
    \A c \in Configs : Accepts(c) => field = c.dim

(* An interrupted reindex is eventually completed, whichever configurations
   it is retried under and wherever the crashes fell. *)
InterruptedReindexCompletes == marker # None ~> marker = None

(* Serving: one profile at a time, changed atomically. *)
ServedProfile ==
    IF marker = None /\ meta.model # None /\ meta.fp # None
    THEN [model |-> meta.model, dim |-> meta.dim, tok |-> meta.fp]
    ELSE None

Promise == INSTANCE KnowledgeBase WITH
    profile <- ServedProfile,
    vectors <- [d \in Docs |->
                  IF ServedProfile = None /\ chunks[d] # Absent THEN Pending
                  ELSE chunks[d]]

(* The store implements the knowledge base it promises. *)
KeepsPromise == Promise!Spec

-----------------------------------------------------------------------------
(* Chunks of two configurations never meet in a store that open accepts.    *)
(* The MCP server is left out: it serves a store that open refused.         *)

(* The profile the meta rows name. *)
Recorded == [model |-> meta.model, dim |-> meta.dim, tok |-> meta.fp]

(* Document d is as configuration profile p leaves it. *)
Agrees(p, d) == chunks[d] = p \/ <<p.tok, d>> \in NoTokens

(* Nothing is stored before the tables are defined. *)
NewStore == ~tables => /\ Stored = {}
                       /\ marker = None
                       /\ pc \in {"down", "check", "tables"}

(* What the flags of open_inner tell about where it is. *)
OpenFlags ==
    /\ pc = "down" => ~forced
    /\ forced => host # "normal" /\ pc # "tokenizer"
    /\ pc = "initmeta" => fresh
    /\ fresh => pc \in Opening /\ Stored = {} /\ marker = None

(* Past its checks, a normal open has the configuration of the meta rows. *)
Checked ==
    /\ pc \in {"tables", "field", "index", "tokenizer"} /\ ~forced /\ (fresh => pc = "tokenizer")
         => marker = None /\ meta.model = cfg.model /\ meta.dim = cfg.dim
    /\ pc = "serving" /\ host = "normal" => marker = None /\ Recorded = Profile(cfg)

(* A reindex is marked as long as it runs, and what it has visited agrees
   with its configuration. *)
Rebuilt ==
    /\ pc \in Reindexing => marker # None /\ host = "reindex"
    /\ pc \in {"transition", "setdim", "setmodel"} => todo = Stored
    /\ pc = "rebuild" => \A d \in Stored \ todo : Agrees(Profile(cfg), d)
    /\ pc \in {"redefine", "metas", "unmark"} => \A d \in Stored : Agrees(Profile(cfg), d)
    /\ pc = "unmark" => Recorded = Profile(cfg)

(* Unmarked, the store agrees with its meta rows. *)
RecordMatches ==
    marker = None => \A d \in Stored : /\ None \notin {meta.model, meta.dim, meta.fp}
                                       /\ Agrees(Recorded, d)

MatchInv ==
    TypeOK /\ NewStore /\ OpenFlags /\ Checked /\ Rebuilt /\ RecordMatches

=============================================================================

--------------------------- MODULE SkbStoreProofs ---------------------------
(***************************************************************************)
(* Theorems about SkbStore, for every set of documents, configurations,     *)
(* tokenizer gaps and programs.                                            *)
(***************************************************************************)
EXTENDS SkbStore, TLAPS

(* The control points, wherever a proof speaks of pc. *)
USE DEF Opening, Reindexing

(* The profile of a configuration is one of the profiles. *)
LEMMA ProfileType == \A c \in Configs :
        /\ Profile(c) \in Profiles
        /\ Profile(c).dim = c.dim
        /\ c.model \in Models /\ c.dim \in Dims
        /\ c.max \in Maxima /\ c.tok \in Toks
  BY DEF Profile, Profiles, Models, Dims, Maxima, Toks

(* TypeOK is inductive: the steps of opening. *)
LEMMA OpenTyped ==
  ASSUME TypeOK, Open
  PROVE  TypeOK'
<1>0. cfg \in Configs /\ cfg.model \in Models /\ cfg.dim \in Dims
      /\ cfg.max \in Maxima /\ cfg.tok \in Toks
  BY ProfileType DEF TypeOK
<1>. USE <1>0 DEF TypeOK, durable
<1>1. CASE CheckSkipped
  BY <1>1 DEF CheckSkipped
<1>2. CASE CheckRefused
  BY <1>2 DEF CheckRefused, Refuse, Halt
<1>3. CASE CheckMaxTokens
  <2>1. meta' \in MetaRows
    BY <1>3 DEF CheckMaxTokens, MetaRows
  <2>. QED  BY <1>3, <2>1 DEF CheckMaxTokens, Goto, Refuse, Halt
<1>4. CASE MigrateTables \/ MigrateField
  BY <1>4 DEF MigrateTables, MigrateField, Goto
<1>5. CASE MigrateIndex
  BY <1>5 DEF MigrateIndex, AfterMigrate, Goto, Opened, Halt
<1>6. CASE InitMeta
  <2>1. meta' \in MetaRows
    BY <1>6 DEF InitMeta, MetaRows
  <2>. QED  BY <1>6, <2>1 DEF InitMeta, Goto, Opened
<1>7. CASE SyncTokenizer
  <2>1. meta' \in MetaRows
    BY <1>7 DEF SyncTokenizer, MetaRows
  <2>. QED  BY <1>7, <2>1 DEF SyncTokenizer, Opened, Refuse, Halt
<1>. QED
  BY <1>1, <1>2, <1>3, <1>4, <1>5, <1>6, <1>7 DEF Open

(* TypeOK is inductive: the steps of a reindex. *)
LEMMA ReindexTyped ==
  ASSUME TypeOK, Reindex
  PROVE  TypeOK'
<1>0. cfg \in Configs /\ cfg.model \in Models /\ cfg.dim \in Dims
      /\ cfg.max \in Maxima /\ cfg.tok \in Toks /\ Profile(cfg) \in Profiles
  BY ProfileType DEF TypeOK
<1>. USE <1>0 DEF TypeOK, durable
<1>1. CASE BeginReindex
  BY <1>1 DEF BeginReindex, DimensionChanged, Stored
<1>2. CASE Transition
  BY <1>2 DEF Transition, Goto
<1>3. CASE SetDim
  <2>1. meta' \in MetaRows
    BY <1>3 DEF SetDim, MetaRows
  <2>. QED  BY <1>3, <2>1 DEF SetDim, Goto
<1>4. CASE SetModel
  <2>1. meta' \in MetaRows
    BY <1>4 DEF SetModel, MetaRows
  <2>. QED  BY <1>4, <2>1 DEF SetModel, Goto
<1>5. ASSUME NEW d \in Docs, RebuildDocument(d)
      PROVE  TypeOK'
  BY <1>5 DEF RebuildDocument
<1>6. CASE RebuildDone
  BY <1>6 DEF RebuildDone, Goto
<1>7. CASE RedefineIndex
  BY <1>7 DEF RedefineIndex, Goto
<1>8. CASE UpdateMetas
  <2>1. meta' \in MetaRows
    BY <1>8 DEF UpdateMetas, MetaRows
  <2>. QED  BY <1>8, <2>1 DEF UpdateMetas, Goto
<1>9. CASE Unmark
  BY <1>9 DEF Unmark, Halt
<1>10. CASE RefusedStep
  BY <1>10 DEF RefusedStep, AbortReindex, Halt
<1>. QED
  BY <1>1, <1>2, <1>3, <1>4, <1>5, <1>6, <1>7, <1>8, <1>9, <1>10 DEF Reindex

(* TypeOK is inductive. *)
LEMMA TypeStep ==
  ASSUME TypeOK, [Next]_vars
  PROVE  TypeOK'
<1>1. ASSUME NEW h \in Hosts, NEW c \in Configs, Start(h, c)
      PROVE  TypeOK'
  BY <1>1 DEF Start, TypeOK, durable
<1>2. CASE Open
  BY <1>2, OpenTyped
<1>3. ASSUME NEW d \in Docs, Upload(d)
      PROVE  TypeOK'
  BY <1>3, ProfileType DEF Upload, TypeOK
<1>4. ASSUME NEW d \in Docs, Delete(d)
      PROVE  TypeOK'
  BY <1>4 DEF Delete, TypeOK
<1>5. CASE Exit
  BY <1>5 DEF Exit, Halt, TypeOK, durable
<1>6. CASE Reindex
  BY <1>6, ReindexTyped
<1>7. CASE FailStep
  <2>1. faults' \in 0 .. MaxFaults
    BY <1>7, FaultAssumption DEF FailStep, TypeOK
  <2>. QED
    BY <1>7, <2>1 DEF FailStep, AbortReindex, Halt, TypeOK, durable
<1>8. CASE Crash
  <2>1. faults' \in 0 .. MaxFaults
    BY <1>8, FaultAssumption DEF Crash, TypeOK
  <2>. QED
    BY <1>8, <2>1 DEF Crash, Halt, TypeOK, durable
<1>9. CASE UNCHANGED vars
  BY <1>9 DEF vars, durable, TypeOK
<1>. QED
  BY <1>1, <1>2, <1>3, <1>4, <1>5, <1>6, <1>7, <1>8, <1>9 DEF Next

(* TypeOK holds of a directory that does not exist yet. *)
LEMMA TypeInit ==
  ASSUME Init
  PROVE  TypeOK
<1>1. meta \in MetaRows
  BY DEF Init, MetaRows
<1>2. faults \in 0 .. MaxFaults
  BY FaultAssumption DEF Init
<1>3. chunks \in [Docs -> Profiles \cup {Absent, Bare}]
  BY DEF Init
<1>. QED
  BY <1>1, <1>2, <1>3 DEF Init, TypeOK

(* Type correctness. *)
THEOREM TypeCorrect == Spec => []TypeOK
<1>1. Init => TypeOK
  BY TypeInit
<1>2. TypeOK /\ [Next]_vars => TypeOK'
  BY TypeStep
<1>. QED
  BY <1>1, <1>2, PTL DEF Spec

-----------------------------------------------------------------------------
(* One dimension. *)

(* No vector has the length None. *)
LEMMA NoneNotDim ==
  ASSUME TypeOK
  PROVE  /\ None \notin Dims
         /\ \A d \in Embedded : chunks[d].dim \in Dims
<1>1. None \notin Dims
  BY ConfigAssumption DEF Dims
<1>2. \A p \in Profiles : p.dim \in Dims
  BY DEF Profiles, Profile, Dims
<1>. QED
  BY <1>1, <1>2 DEF Embedded

(* A step that leaves field, index and chunks alone keeps OneDimension. *)
LEMMA SchemaUntouched ==
  ASSUME OneDimension, UNCHANGED <<field, index, chunks>>
  PROVE  OneDimension'
  BY DEF OneDimension, Buildable, Embedded

(* An index defined over vectors that all fit it. *)
LEMMA IndexDefined ==
  ASSUME TypeOK, OneDimension, Buildable(cfg.dim), index' = cfg.dim,
         UNCHANGED <<field, chunks>>
  PROVE  OneDimension'
  BY NoneNotDim DEF OneDimension, Buildable, Embedded

(* A document embedded by the running configuration, as the schema lets it. *)
LEMMA DocumentEmbedded ==
  ASSUME TypeOK, OneDimension, Insertable, NEW d \in Docs,
         chunks' = [chunks EXCEPT ![d] = Profile(cfg)],
         UNCHANGED <<field, index>>
  PROVE  OneDimension'
<1>1. Profile(cfg).dim = cfg.dim
  BY DEF Profile
<1>2. \A e \in Docs : chunks'[e] = IF e = d THEN Profile(cfg) ELSE chunks[e]
  BY DEF TypeOK
<1>. QED
  BY <1>1, <1>2 DEF OneDimension, Buildable, Embedded, Insertable

(* OneDimension is inductive: the steps of opening. *)
LEMMA OpenOneDimension ==
  ASSUME TypeOK, OneDimension, Open
  PROVE  OneDimension'
<1>1. CASE CheckSkipped
  BY <1>1, SchemaUntouched DEF CheckSkipped, durable
<1>2. CASE CheckRefused
  BY <1>2, SchemaUntouched DEF CheckRefused, durable
<1>3. CASE CheckMaxTokens \/ MigrateTables
  BY <1>3, SchemaUntouched DEF CheckMaxTokens, MigrateTables
<1>4. CASE MigrateField
  <2>1. CASE field = None
    <3>1. Embedded = {} /\ Embedded' = {}
      BY <1>4, <2>1, NoneNotDim DEF MigrateField, OneDimension, Buildable, Embedded
    <3>. QED
      BY <3>1 DEF OneDimension, Buildable
  <2>2. CASE field # None
    BY <1>4, <2>2, SchemaUntouched DEF MigrateField
  <2>. QED
    BY <2>1, <2>2
<1>5. CASE MigrateIndex
  <2>1. CASE index' = index
    BY <1>5, <2>1, SchemaUntouched DEF MigrateIndex
  <2>2. CASE index' # index
    BY <1>5, <2>2, IndexDefined DEF MigrateIndex
  <2>. QED
    BY <2>1, <2>2
<1>6. CASE InitMeta
  BY <1>6, SchemaUntouched DEF InitMeta
<1>7. CASE SyncTokenizer
  BY <1>7, SchemaUntouched DEF SyncTokenizer
<1>. QED
  BY <1>1, <1>2, <1>3, <1>4, <1>5, <1>6, <1>7 DEF Open

(* OneDimension is inductive: the steps of a reindex. *)
LEMMA ReindexOneDimension ==
  ASSUME TypeOK, OneDimension, Reindex
  PROVE  OneDimension'
<1>1. CASE BeginReindex
  BY <1>1, SchemaUntouched DEF BeginReindex
<1>2. CASE Transition
  <2>1. Embedded' = {}
    BY <1>2, ConfigAssumption DEF Transition, Embedded
  <2>. QED
    BY <2>1 DEF OneDimension, Buildable
<1>3. CASE SetDim \/ SetModel \/ UpdateMetas \/ Unmark
  BY <1>3, SchemaUntouched DEF SetDim, SetModel, UpdateMetas, Unmark
<1>4. ASSUME NEW d \in Docs, RebuildDocument(d)
      PROVE  OneDimension'
  BY <1>4, SchemaUntouched, DocumentEmbedded DEF RebuildDocument
<1>5. CASE RebuildDone \/ RefusedStep
  BY <1>5, SchemaUntouched DEF RebuildDone, RefusedStep, durable
<1>6. CASE RedefineIndex
  BY <1>6, IndexDefined DEF RedefineIndex
<1>. QED
  BY <1>1, <1>2, <1>3, <1>4, <1>5, <1>6 DEF Reindex

(* Vectors of two lengths never meet in a store, whatever programs opened it
   and wherever they died. *)
THEOREM OneDimensionAlways == Spec => []OneDimension
<1>1. Init => OneDimension
  <2>. SUFFICES ASSUME Init
                PROVE  OneDimension
    OBVIOUS
  <2>1. Embedded = {}
    BY ConfigAssumption DEF Init, Embedded
  <2>. QED
    BY <2>1 DEF OneDimension, Buildable
<1>2. TypeOK /\ OneDimension /\ [Next]_vars => OneDimension'
  <2>. SUFFICES ASSUME TypeOK, OneDimension, [Next]_vars
                PROVE  OneDimension'
    OBVIOUS
  <2>1. ASSUME NEW h \in Hosts, NEW c \in Configs, Start(h, c)
        PROVE  OneDimension'
    BY <2>1, SchemaUntouched DEF Start, durable
  <2>2. CASE Open
    BY <2>2, OpenOneDimension
  <2>3. ASSUME NEW d \in Docs, Upload(d)
        PROVE  OneDimension'
    BY <2>3, DocumentEmbedded DEF Upload
  <2>4. ASSUME NEW d \in Docs, Delete(d)
        PROVE  OneDimension'
    <3>1. \A e \in Docs : chunks'[e] = IF e = d THEN Absent ELSE chunks[e]
      BY <2>4 DEF Delete, TypeOK
    <3>. QED
      BY <2>4, <3>1, ConfigAssumption DEF Delete, OneDimension, Buildable, Embedded
  <2>5. CASE Exit \/ FailStep \/ Crash \/ UNCHANGED vars
    BY <2>5, SchemaUntouched DEF Exit, FailStep, Crash, vars, durable
  <2>6. CASE Reindex
    BY <2>6, ReindexOneDimension
  <2>. QED
    BY <2>1, <2>2, <2>3, <2>4, <2>5, <2>6 DEF Next
<1>. QED
  BY <1>1, <1>2, TypeCorrect, PTL DEF Spec

-----------------------------------------------------------------------------
(* One configuration.  The MCP server is left out: it serves a store that
   open refused. *)

(* Without the MCP server every program is one of two kinds. *)
LEMMA TwoHosts ==
  ASSUME TypeOK, "mcp" \notin Hosts
  PROVE  host \in {"normal", "reindex"}
  BY HostAssumption DEF TypeOK, HostKinds

(* The steps of opening keep MatchInv. *)
LEMMA OpenMatch ==
  ASSUME MatchInv, TypeOK', "mcp" \notin Hosts, Open
  PROVE  MatchInv'
<1>0. /\ TypeOK /\ NewStore /\ OpenFlags /\ Checked /\ Rebuilt /\ RecordMatches
      /\ host \in {"normal", "reindex"}
      /\ None \notin {"dim", "meta"}
      /\ None \notin {cfg.model, cfg.dim, cfg.tok}
  BY TwoHosts, ConfigAssumption DEF MatchInv, TypeOK
<1>. USE DEF MatchInv, NewStore, OpenFlags, Checked, Rebuilt, RecordMatches, durable,
             Stored, Agrees, Recorded
<1>1. CASE CheckSkipped
  BY <1>0, <1>1 DEF CheckSkipped
<1>2. CASE CheckRefused
  BY <1>0, <1>2 DEF CheckRefused, Refuse, Halt
<1>3. CASE CheckMaxTokens
  <2>1. /\ meta'.model = cfg.model /\ meta'.dim = cfg.dim /\ meta'.fp = meta.fp
        /\ meta.model = cfg.model /\ meta.dim \in {None, cfg.dim}
        /\ marker = None /\ tables /\ pc = "check" /\ ~forced
        /\ UNCHANGED <<tables, chunks, marker, host, cfg>>
    <3>1. meta \in [model : Models \cup {None}, dim : Dims \cup {None},
                      max : Maxima \cup {None}, fp : Toks \cup {None}]
      BY <1>0 DEF TypeOK, MetaRows
    <3>2. /\ tables /\ pc = "check" /\ ~forced /\ ~Mismatch
          /\ UNCHANGED <<tables, chunks, marker, host, cfg>>
      BY <1>3 DEF CheckMaxTokens, Refuse, Halt, Goto
    <3>3. \/ meta' = [meta EXCEPT !.dim = cfg.dim, !.max = cfg.max]
          \/ meta' = [meta EXCEPT !.dim = cfg.dim]
      BY <1>3 DEF CheckMaxTokens
    <3>4. /\ meta'.model = meta.model /\ meta'.dim = cfg.dim /\ meta'.fp = meta.fp
      BY <3>1, <3>3
    <3>. QED
      BY <3>2, <3>4 DEF Mismatch
  <2>2. RecordMatches'
    BY <1>0, <2>1
  <2>3. CASE meta.max \in {None, cfg.max}
    BY <1>0, <1>3, <2>1, <2>2, <2>3 DEF CheckMaxTokens, Goto
  <2>4. CASE meta.max \notin {None, cfg.max}
    BY <1>0, <1>3, <2>1, <2>2, <2>4 DEF CheckMaxTokens, Refuse, Halt
  <2>. QED
    BY <2>3, <2>4
<1>4. CASE MigrateTables \/ MigrateField
  BY <1>0, <1>4 DEF MigrateTables, MigrateField, Goto
<1>5. CASE MigrateIndex
  BY <1>0, <1>5 DEF MigrateIndex, AfterMigrate, Goto, Opened, Halt
<1>6. CASE InitMeta
  BY <1>0, <1>6 DEF InitMeta, Goto, Opened, TypeOK, MetaRows
<1>7. CASE SyncTokenizer
  BY <1>0, <1>7 DEF SyncTokenizer, Opened, Refuse, Halt, TypeOK, MetaRows, Profile
<1>. QED
  BY <1>1, <1>2, <1>3, <1>4, <1>5, <1>6, <1>7 DEF Open

(* The steps of a reindex keep MatchInv. *)
LEMMA ReindexMatch ==
  ASSUME MatchInv, TypeOK', "mcp" \notin Hosts, Reindex
  PROVE  MatchInv'
<1>0. /\ TypeOK /\ NewStore /\ OpenFlags /\ Checked /\ Rebuilt /\ RecordMatches
      /\ host \in {"normal", "reindex"}
      /\ None \notin {"dim", "meta"}
      /\ None \notin {cfg.model, cfg.dim, cfg.tok}
      /\ Absent # Bare
  BY TwoHosts, ConfigAssumption DEF MatchInv, TypeOK
<1>. USE DEF MatchInv, NewStore, OpenFlags, Checked, Rebuilt, RecordMatches, durable,
             Stored, Agrees, Recorded
<1>1. CASE BeginReindex
  BY <1>0, <1>1 DEF BeginReindex
<1>2. CASE Transition
  BY <1>0, <1>2 DEF Transition, Goto
<1>3. CASE SetDim
  BY <1>0, <1>3 DEF SetDim, Goto
<1>4. CASE SetModel
  BY <1>0, <1>4 DEF SetModel, Goto
<1>5. ASSUME NEW d \in Docs, RebuildDocument(d)
      PROVE  MatchInv'
  BY <1>0, <1>5 DEF RebuildDocument, TypeOK, Profile
<1>6. CASE RebuildDone
  BY <1>0, <1>6 DEF RebuildDone, Goto
<1>7. CASE RedefineIndex
  BY <1>0, <1>7 DEF RedefineIndex, Goto
<1>8. CASE UpdateMetas
  BY <1>0, <1>8 DEF UpdateMetas, Goto, Profile
<1>9. CASE Unmark
  BY <1>0, <1>9 DEF Unmark, Halt, Profile
<1>10. CASE RefusedStep
  BY <1>0, <1>10 DEF RefusedStep, AbortReindex, Halt
<1>. QED
  BY <1>1, <1>2, <1>3, <1>4, <1>5, <1>6, <1>7, <1>8, <1>9, <1>10 DEF Reindex

(* MatchInv is inductive. *)
LEMMA MatchStep ==
  ASSUME MatchInv, [Next]_vars, "mcp" \notin Hosts
  PROVE  MatchInv'
<1>0. /\ TypeOK /\ NewStore /\ OpenFlags /\ Checked /\ Rebuilt /\ RecordMatches
      /\ host \in {"normal", "reindex"}
      /\ None \notin {"dim", "meta"}
      /\ None \notin {cfg.model, cfg.dim, cfg.tok}
      /\ TypeOK'
  BY TwoHosts, TypeStep, ConfigAssumption DEF MatchInv, TypeOK
<1>1. CASE Open
  BY <1>0, <1>1, OpenMatch
<1>2. CASE Reindex
  BY <1>0, <1>2, ReindexMatch
<1>. USE DEF MatchInv, NewStore, OpenFlags, Checked, Rebuilt, RecordMatches, durable,
             Stored, Agrees, Recorded
<1>3. ASSUME NEW h \in Hosts, NEW c \in Configs, Start(h, c)
      PROVE  MatchInv'
  BY <1>0, <1>3 DEF Start
<1>4. ASSUME NEW d \in Docs, Upload(d)
      PROVE  MatchInv'
  BY <1>0, <1>4 DEF Upload, TypeOK, Profile
<1>5. ASSUME NEW d \in Docs, Delete(d)
      PROVE  MatchInv'
  BY <1>0, <1>5 DEF Delete, TypeOK
<1>6. CASE Exit
  BY <1>0, <1>6 DEF Exit, Halt
<1>7. CASE FailStep \/ Crash
  BY <1>0, <1>7 DEF FailStep, Crash, AbortReindex, Halt
<1>8. CASE UNCHANGED vars
  BY <1>0, <1>8 DEF vars, Profile
<1>. QED
  BY <1>1, <1>2, <1>3, <1>4, <1>5, <1>6, <1>7, <1>8 DEF Next

(* The strengthening of AcceptedStoreMatches is an invariant. *)
LEMMA MatchAlways ==
  ASSUME "mcp" \notin Hosts
  PROVE  Spec => []MatchInv
<1>1. Init => MatchInv
  <2>. SUFFICES ASSUME Init
                PROVE  MatchInv
    OBVIOUS
  <2>1. TypeOK /\ Stored = {}
    BY TypeInit DEF Init, Stored
  <2>. QED
    BY <2>1 DEF Init, MatchInv, NewStore, OpenFlags, Checked, Rebuilt, RecordMatches
<1>2. MatchInv /\ [Next]_vars => MatchInv'
  BY MatchStep
<1>. QED
  BY <1>1, <1>2, PTL DEF Spec

(* Whatever crashed before, a store that a normal open accepts holds only
   chunks made by the configuration that opens it, as long as no MCP server
   wrote to it. *)
THEOREM AcceptedStoreMatchesAlways ==
  ASSUME "mcp" \notin Hosts
  PROVE  Spec => []AcceptedStoreMatches
<1>1. MatchInv => AcceptedStoreMatches
  <2>. SUFFICES ASSUME MatchInv, NEW c \in Configs, Accepts(c), NEW d \in Stored
                PROVE  chunks[d] = Profile(c) \/ <<c.tok, d>> \in NoTokens
    BY DEF AcceptedStoreMatches
  <2>1. None \notin {meta.model, meta.dim, meta.fp} /\ Agrees(Recorded, d)
    BY DEF MatchInv, RecordMatches, Accepts
  <2>2. Recorded = Profile(c)
    BY <2>1 DEF Accepts, Recorded, Profile
  <2>. QED
    BY <2>1, <2>2 DEF Agrees, Profile
<1>. QED
  BY <1>1, MatchAlways, PTL

-----------------------------------------------------------------------------
(* The index is there. *)

(* Without its index a store is marked for a change of dimension, or has no
   model on record and is being opened, or is closed, for the first time; and
   a reindex gives the index back before it touches the meta rows. *)
IndexInv ==
    /\ index = None =>
         \/ marker = "dim"
         \/ meta.model = None /\ pc \in {"down", "check", "tables", "field", "index"}
    /\ pc \in Reindexing => marker # None /\ (wide <=> marker = "dim")
    /\ pc = "transition" => wide
    /\ pc \in {"metas", "unmark"} => index # None

(* Whatever program ran last, MCP server or not, a store that a normal open
   accepts has its vector index. *)
THEOREM AcceptedStoreIndexedAlways == Spec => []AcceptedStoreIndexed
<1>1. Init => IndexInv
  BY DEF Init, IndexInv
<1>2. TypeOK /\ TypeOK' /\ IndexInv /\ [Next]_vars => IndexInv'
  <2>. SUFFICES ASSUME TypeOK, TypeOK', IndexInv, [Next]_vars
                PROVE  IndexInv'
    OBVIOUS
  <2>0. /\ None \notin {"dim", "meta", cfg.model, cfg.dim}
        /\ meta \in MetaRows
    BY ConfigAssumption DEF TypeOK
  <2>. USE <2>0 DEF IndexInv, durable
  <2>1. ASSUME NEW h \in Hosts, NEW c \in Configs, Start(h, c)
        PROVE  IndexInv'
    BY <2>1 DEF Start
  <2>2. CASE CheckSkipped \/ CheckRefused
    BY <2>2 DEF CheckSkipped, CheckRefused, Refuse, Halt
  <2>3. CASE CheckMaxTokens
    <3>1. meta'.model = meta.model /\ meta.model # None
      BY <2>3 DEF CheckMaxTokens, Mismatch, MetaRows
    <3>. QED
      BY <2>3, <3>1 DEF CheckMaxTokens, Mismatch, Refuse, Halt, Goto
  <2>4. CASE MigrateTables \/ MigrateField
    BY <2>4 DEF MigrateTables, MigrateField, Goto
  <2>5. CASE MigrateIndex
    BY <2>5 DEF MigrateIndex, AfterMigrate, Goto, Opened, Halt
  <2>6. CASE InitMeta
    BY <2>6 DEF InitMeta, Goto, Opened
  <2>7. CASE SyncTokenizer
    BY <2>7 DEF SyncTokenizer, Opened, Refuse, Halt
  <2>8. ASSUME NEW d \in Docs, Upload(d) \/ Delete(d)
        PROVE  IndexInv'
    BY <2>8 DEF Upload, Delete
  <2>9. CASE Exit
    BY <2>9 DEF Exit, Halt
  <2>10. CASE BeginReindex
    BY <2>10 DEF BeginReindex, DimensionChanged
  <2>11. CASE Transition \/ SetDim \/ SetModel
    BY <2>11 DEF Transition, SetDim, SetModel, Goto
  <2>12. ASSUME NEW d \in Docs, RebuildDocument(d)
         PROVE  IndexInv'
    BY <2>12 DEF RebuildDocument
  <2>13. CASE RebuildDone \/ RedefineIndex
    BY <2>13 DEF RebuildDone, RedefineIndex, Goto
  <2>14. CASE UpdateMetas \/ Unmark
    BY <2>14 DEF UpdateMetas, Unmark, Goto, Halt
  <2>15. CASE RefusedStep \/ FailStep \/ Crash
    BY <2>15 DEF RefusedStep, FailStep, Crash, AbortReindex, Halt
  <2>16. CASE UNCHANGED vars
    BY <2>16 DEF vars
  <2>. QED
    BY <2>1, <2>2, <2>3, <2>4, <2>5, <2>6, <2>7, <2>8, <2>9, <2>10, <2>11, <2>12,
       <2>13, <2>14, <2>15, <2>16 DEF Next, Open, Reindex
<1>3. IndexInv => AcceptedStoreIndexed
  BY ConfigAssumption DEF IndexInv, AcceptedStoreIndexed, Accepts
<1>. QED
  BY <1>1, <1>2, <1>3, TypeCorrect, PTL DEF Spec

-----------------------------------------------------------------------------
(* A store that is accepted can be searched.  The MCP server is left out. *)

(* The embedding field has the recorded dimension unless that is changing;
   where it is, a reindex is marked so and has its own dimension in the field
   from the transition on. *)
FieldInv ==
    /\ Embedded # {} /\ marker # "dim" => field = meta.dim
    /\ marker # "dim" /\ Stored # {} => meta.dim # None
    /\ pc \in Reindexing => /\ todo \subseteq Stored
                            /\ wide <=> marker = "dim"
                            /\ ~wide => meta.dim \in {None, cfg.dim}
    /\ pc \in {"transition", "setdim", "setmodel", "redefine"} => wide
    /\ pc \in Reindexing \ {"transition"} /\ wide => field = cfg.dim

(* The steps of opening keep FieldInv. *)
LEMMA OpenField ==
  ASSUME MatchInv, OneDimension, FieldInv, Open
  PROVE  FieldInv'
<1>0. /\ TypeOK /\ None \notin {"dim", "meta", cfg.dim, cfg.model}
      /\ meta \in MetaRows /\ Embedded \subseteq Stored /\ None \notin Dims
      /\ (Embedded # {} => field # None)
  <2>1. TypeOK /\ None \notin {"dim", "meta", cfg.dim, cfg.model} /\ meta \in MetaRows
    BY ConfigAssumption DEF MatchInv, TypeOK
  <2>2. Embedded \subseteq Stored
    BY ConfigAssumption DEF Embedded, Stored
  <2>3. None \notin Dims /\ \A d \in Embedded : chunks[d].dim \in Dims
    BY <2>1, NoneNotDim
  <2>. QED
    BY <2>1, <2>2, <2>3 DEF OneDimension, Buildable
<1>. USE <1>0 DEF FieldInv, durable, Embedded, Stored
<1>1. CASE CheckSkipped \/ CheckRefused
  BY <1>1 DEF CheckSkipped, CheckRefused, Refuse, Halt
<1>2. CASE CheckMaxTokens
  <2>1. /\ marker = None /\ meta.dim \in {None, cfg.dim} /\ meta'.dim = cfg.dim
        /\ UNCHANGED <<field, marker, chunks>> /\ pc' \notin Reindexing
    BY <1>2 DEF CheckMaxTokens, Mismatch, MetaRows, Refuse, Halt, Goto
  <2>. QED
    BY <2>1
<1>3. CASE MigrateTables \/ MigrateField
  BY <1>3 DEF MigrateTables, MigrateField, Goto
<1>4. CASE MigrateIndex
  BY <1>4 DEF MigrateIndex, AfterMigrate, Goto, Opened, Halt
<1>5. CASE InitMeta
  <2>1. Stored = {}
    BY <1>5 DEF InitMeta, MatchInv, OpenFlags
  <2>. QED
    BY <1>5, <2>1 DEF InitMeta, Goto, Opened
<1>6. CASE SyncTokenizer
  <2>1. /\ meta'.dim = meta.dim /\ pc' \notin Reindexing /\ UNCHANGED <<field, marker, chunks>>
    BY <1>6 DEF SyncTokenizer, MetaRows, Opened, Refuse, Halt
  <2>. QED
    BY <2>1
<1>. QED
  BY <1>1, <1>2, <1>3, <1>4, <1>5, <1>6 DEF Open

(* The steps of a reindex keep FieldInv. *)
LEMMA ReindexField ==
  ASSUME MatchInv, FieldInv, Reindex
  PROVE  FieldInv'
<1>0. /\ TypeOK /\ None \notin {"dim", "meta", cfg.dim, cfg.model} /\ meta \in MetaRows
      /\ Absent # Bare
      /\ Embedded \subseteq Stored /\ Rebuilt /\ chunks \in [Docs -> Profiles \cup {Absent, Bare}]
  <2>1. TypeOK /\ None \notin {"dim", "meta", cfg.dim, cfg.model} /\ meta \in MetaRows
        /\ chunks \in [Docs -> Profiles \cup {Absent, Bare}] /\ Absent # Bare
    BY ConfigAssumption DEF MatchInv, TypeOK
  <2>2. Embedded \subseteq Stored
    BY ConfigAssumption DEF Embedded, Stored
  <2>. QED
    BY <2>1, <2>2 DEF MatchInv
<1>. USE <1>0 DEF FieldInv, durable, Embedded, Stored
<1>1. CASE BeginReindex
  BY <1>1 DEF BeginReindex, DimensionChanged
<1>2. CASE Transition
  BY <1>2 DEF Transition, Goto
<1>3. CASE SetDim \/ SetModel
  BY <1>3 DEF SetDim, SetModel, Goto
<1>4. ASSUME NEW d \in Docs, RebuildDocument(d)
      PROVE  FieldInv'
  <2>1. Stored' = Stored /\ todo' \subseteq todo /\ pc = "rebuild"
    <3>1. Profile(cfg) \in Profiles /\ Absent \notin Profiles
      BY ProfileType, ConfigAssumption DEF TypeOK
    <3>. QED
      BY <1>4, <3>1 DEF RebuildDocument
  <2>2. Embedded' # {} /\ marker # "dim" => field = meta.dim
    <3>. SUFFICES ASSUME marker # "dim", Embedded' # {}
                  PROVE  field = meta.dim
      OBVIOUS
    <3>1. CASE chunks' = chunks
      BY <3>1
    <3>2. CASE Insertable
      BY <2>1, <3>2 DEF Insertable
    <3>. QED
      BY <1>4, <3>1, <3>2 DEF RebuildDocument
  <2>. QED
    BY <1>4, <2>1, <2>2 DEF RebuildDocument
<1>5. CASE RebuildDone \/ RedefineIndex
  BY <1>5 DEF RebuildDone, RedefineIndex, Goto
<1>6. CASE UpdateMetas
  BY <1>6 DEF UpdateMetas, Goto
<1>7. CASE Unmark
  <2>1. meta.dim = cfg.dim
    BY <1>7 DEF Unmark, Rebuilt, Recorded, Profile
  <2>. QED
    BY <1>7, <2>1 DEF Unmark, Halt
<1>8. CASE RefusedStep
  BY <1>8 DEF RefusedStep, AbortReindex, Halt
<1>. QED
  BY <1>1, <1>2, <1>3, <1>4, <1>5, <1>6, <1>7, <1>8 DEF Reindex

LEMMA FieldAlways ==
  ASSUME "mcp" \notin Hosts
  PROVE  Spec => []FieldInv
<1>1. Init => FieldInv
  BY ConfigAssumption DEF Init, FieldInv, Stored, Embedded
<1>2. MatchInv /\ OneDimension /\ FieldInv /\ [Next]_vars => FieldInv'
  <2>. SUFFICES ASSUME MatchInv, OneDimension, FieldInv, [Next]_vars
                PROVE  FieldInv'
    OBVIOUS
  <2>1. CASE Open
    BY <2>1, OpenField
  <2>2. CASE Reindex
    BY <2>2, ReindexField
  <2>0. TypeOK /\ None # cfg.dim /\ host \in {"normal", "reindex"}
        /\ Embedded \subseteq Stored
    <3>1. TypeOK /\ None # cfg.dim
      BY ConfigAssumption DEF MatchInv, TypeOK
    <3>2. Embedded \subseteq Stored
      BY ConfigAssumption DEF Embedded, Stored
    <3>. QED
      BY <3>1, <3>2, TwoHosts
  <2>. USE <2>0 DEF FieldInv, durable, Embedded, Stored
  <2>3. ASSUME NEW h \in Hosts, NEW c \in Configs, Start(h, c)
        PROVE  FieldInv'
    BY <2>3 DEF Start
  <2>4. ASSUME NEW d \in Docs, Upload(d)
        PROVE  FieldInv'
    <3>1. meta.dim = cfg.dim /\ field = cfg.dim
      BY <2>4 DEF Upload, Insertable, MatchInv, Checked, Recorded, Profile
    <3>. QED
      BY <2>4, <3>1 DEF Upload
  <2>5. ASSUME NEW d \in Docs, Delete(d)
        PROVE  FieldInv'
    <3>1. \A e \in Docs : chunks'[e] = IF e = d THEN Absent ELSE chunks[e]
      BY <2>5 DEF Delete, TypeOK
    <3>2. Absent \notin Profiles
      BY ConfigAssumption
    <3>. QED
      BY <2>5, <3>1, <3>2 DEF Delete
  <2>6. CASE Exit \/ FailStep \/ Crash
    BY <2>6 DEF Exit, FailStep, Crash, AbortReindex, Halt
  <2>7. CASE UNCHANGED vars
    BY <2>7 DEF vars
  <2>. QED
    BY <2>1, <2>2, <2>3, <2>4, <2>5, <2>6, <2>7 DEF Next
<1>. QED
  BY <1>1, <1>2, MatchAlways, OneDimensionAlways, PTL DEF Spec

(* A store with vectors that a normal open accepts has field and index, both
   of the dimension of the configuration that opens it. *)
THEOREM AcceptedStoreSearchableAlways ==
  ASSUME "mcp" \notin Hosts
  PROVE  Spec => []AcceptedStoreSearchable
<1>1. FieldInv /\ OneDimension /\ AcceptedStoreIndexed => AcceptedStoreSearchable
  <2>. SUFFICES ASSUME FieldInv, OneDimension, AcceptedStoreIndexed,
                       NEW c \in Configs, Accepts(c), Embedded # {}
                PROVE  field = c.dim /\ index = c.dim
    BY DEF AcceptedStoreSearchable
  <2>1. Stored # {} /\ marker # "dim" /\ meta.dim \in {None, c.dim}
    BY ConfigAssumption DEF Embedded, Stored, Accepts
  <2>2. field = c.dim
    BY <2>1 DEF FieldInv
  <2>3. index # None
    BY DEF AcceptedStoreIndexed
  <2>. QED
    BY <2>2, <2>3 DEF OneDimension
<1>. QED
  BY <1>1, FieldAlways, OneDimensionAlways, AcceptedStoreIndexedAlways, PTL

-----------------------------------------------------------------------------
(* The store implements KnowledgeBase.  The MCP server is left out. *)

(* The recorded model and fingerprint are written when a new store is first
   opened or by a reindex, and a recorded model comes with its dimension. *)
MetaInv ==
    /\ ~tables => meta.model = None /\ meta.fp = None
    /\ fresh => meta.fp = None
    /\ fresh /\ pc # "tokenizer" => meta.model = None
    /\ meta.model # None \/ pc = "setmodel" => meta.dim # None

(* The meta rows are written in that order, whatever fails. *)
LEMMA MetaAlways ==
  ASSUME "mcp" \notin Hosts
  PROVE  Spec => []MetaInv
<1>1. Init => MetaInv
  BY DEF Init, MetaInv
<1>2. MatchInv /\ MetaInv /\ [Next]_vars => MetaInv'
  <2>. SUFFICES ASSUME MatchInv, MetaInv, [Next]_vars
                PROVE  MetaInv'
    OBVIOUS
  <2>0. /\ TypeOK /\ meta \in MetaRows /\ None \notin {cfg.model, cfg.dim}
        /\ NewStore /\ OpenFlags
    BY ConfigAssumption DEF MatchInv, TypeOK
  <2>. USE <2>0 DEF MetaInv, durable, NewStore, OpenFlags
  <2>1. ASSUME NEW h \in Hosts, NEW c \in Configs, Start(h, c)
        PROVE  MetaInv'
    BY <2>1 DEF Start
  <2>2. CASE CheckSkipped \/ CheckRefused
    BY <2>2 DEF CheckSkipped, CheckRefused, Refuse, Halt
  <2>3. CASE CheckMaxTokens
    <3>1. /\ meta'.model = meta.model /\ meta'.fp = meta.fp /\ meta'.dim = cfg.dim
          /\ tables /\ tables' /\ meta.model = cfg.model
      BY <2>3 DEF CheckMaxTokens, Mismatch, MetaRows
    <3>2. fresh' => fresh /\ pc = "check"
      BY <2>3 DEF CheckMaxTokens, Refuse, Halt, Goto
    <3>. QED
      BY <3>1, <3>2
  <2>4. CASE MigrateTables \/ MigrateField
    BY <2>4 DEF MigrateTables, MigrateField, Goto
  <2>5. CASE MigrateIndex
    BY <2>5 DEF MigrateIndex, AfterMigrate, Goto, Opened, Halt
  <2>6. CASE InitMeta
    <3>1. meta'.fp = meta.fp /\ meta'.dim = cfg.dim
      BY <2>6 DEF InitMeta, MetaRows
    <3>. QED
      BY <2>6, <3>1 DEF InitMeta, Goto, Opened
  <2>7. CASE SyncTokenizer
    <3>1. meta'.model = meta.model /\ meta'.dim = meta.dim
      BY <2>7 DEF SyncTokenizer, MetaRows
    <3>. QED
      BY <2>7, <3>1 DEF SyncTokenizer, Opened, Refuse, Halt
  <2>8. ASSUME NEW d \in Docs, Upload(d) \/ Delete(d) \/ RebuildDocument(d)
        PROVE  MetaInv'
    BY <2>8 DEF Upload, Delete, RebuildDocument
  <2>9. CASE Exit \/ BeginReindex \/ Transition \/ RebuildDone \/ RedefineIndex
    BY <2>9 DEF Exit, Halt, BeginReindex, Transition, RebuildDone, RedefineIndex, Goto
  <2>10. CASE SetDim \/ SetModel
    <3>1. /\ pc = "setdim" => meta'.model = meta.model /\ meta'.dim = cfg.dim
          /\ pc = "setmodel" => meta'.model = cfg.model /\ meta'.dim = meta.dim
          /\ meta'.fp = meta.fp
          /\ pc = "setdim" \/ pc = "setmodel"
          /\ ~fresh'
          /\ pc' = "setmodel" => pc = "setdim"
      BY <2>10 DEF SetDim, SetModel, MetaRows, Goto, Opening
    <3>2. tables' = tables /\ tables
      BY <2>10 DEF SetDim, SetModel
    <3>. QED
      BY <3>1, <3>2
  <2>11. CASE UpdateMetas \/ Unmark
    BY <2>11 DEF UpdateMetas, Unmark, Goto, Halt
  <2>12. CASE RefusedStep \/ FailStep \/ Crash
    BY <2>12 DEF RefusedStep, FailStep, Crash, AbortReindex, Halt
  <2>13. CASE UNCHANGED vars
    BY <2>13 DEF vars
  <2>. QED
    BY <2>1, <2>2, <2>3, <2>4, <2>5, <2>6, <2>7, <2>8, <2>9, <2>10, <2>11, <2>12,
       <2>13 DEF Next, Open, Reindex
<1>. QED
  BY <1>1, <1>2, MatchAlways, PTL DEF Spec

(* Meta rows that name a model and a tokenizer name one configuration's, while
   no reindex is under way. *)
ProfileInv ==
    marker = None /\ meta.model # None /\ meta.fp # None => Recorded \in Profiles

(* A store in service is served under a configuration's profile. *)
LEMMA ProfileAlways ==
  ASSUME "mcp" \notin Hosts
  PROVE  Spec => []ProfileInv
<1>1. Init => ProfileInv
  BY DEF Init, ProfileInv
<1>2. MatchInv /\ MetaInv /\ ProfileInv /\ [Next]_vars => ProfileInv'
  <2>. SUFFICES ASSUME MatchInv, MetaInv, ProfileInv, [Next]_vars
                PROVE  ProfileInv'
    OBVIOUS
  <2>0. /\ TypeOK /\ meta \in MetaRows /\ OpenFlags /\ Checked /\ Rebuilt
        /\ Profile(cfg) \in Profiles
    BY DEF MatchInv, TypeOK, Profiles
  <2>1. CASE UNCHANGED <<meta, marker>>
    BY <2>1 DEF ProfileInv, Recorded
  <2>2. CASE marker' # None
    BY <2>2 DEF ProfileInv
  <2>3. CASE CheckMaxTokens
    <3>1. /\ meta'.model = meta.model /\ meta'.fp = meta.fp /\ meta'.dim = cfg.dim
          /\ meta.dim \in {None, cfg.dim} /\ marker' = marker
      BY <2>0, <2>3 DEF CheckMaxTokens, Mismatch, MetaRows
    <3>2. meta.model # None => meta.dim # None
      BY DEF MetaInv
    <3>. QED
      BY <3>1, <3>2 DEF ProfileInv, Recorded
  <2>4. CASE InitMeta
    <3>1. meta'.fp = meta.fp /\ meta.fp = None
      BY <2>0, <2>4 DEF InitMeta, MetaRows, OpenFlags, MetaInv
    <3>. QED
      BY <3>1 DEF ProfileInv
  <2>5. CASE SyncTokenizer
    <3>1. meta.model = cfg.model /\ meta.dim = cfg.dim
      BY <2>0, <2>5 DEF SyncTokenizer, OpenFlags, Checked
    <3>2. CASE meta' = meta
      BY <2>5, <3>2, <2>1 DEF SyncTokenizer
    <3>3. CASE meta' # meta
      <4>1. meta'.model = cfg.model /\ meta'.dim = cfg.dim /\ meta'.fp = cfg.tok
        BY <2>0, <2>5, <3>1, <3>3 DEF SyncTokenizer, MetaRows
      <4>. QED
        BY <2>0, <4>1 DEF ProfileInv, Recorded, Profile
    <3>. QED
      BY <3>2, <3>3
  <2>6. CASE SetDim \/ SetModel \/ UpdateMetas
    BY <2>0, <2>2, <2>6 DEF SetDim, SetModel, UpdateMetas, Rebuilt, Reindexing
  <2>7. CASE BeginReindex
    BY <2>2, <2>7, ConfigAssumption DEF BeginReindex
  <2>8. CASE Unmark
    <3>1. meta' = meta /\ Recorded = Profile(cfg)
      BY <2>0, <2>8 DEF Unmark, Rebuilt
    <3>. QED
      BY <2>0, <3>1 DEF ProfileInv, Recorded
  <2>9. ASSUME ~CheckMaxTokens, ~InitMeta, ~SyncTokenizer, ~SetDim, ~SetModel,
               ~UpdateMetas, ~BeginReindex, ~Unmark
        PROVE  UNCHANGED <<meta, marker>>
    <3>1. CASE Open
      BY <2>9, <3>1 DEF Open, CheckSkipped, CheckRefused, MigrateTables,
                        MigrateField, MigrateIndex, durable
    <3>2. CASE Reindex
      BY <2>9, <3>2 DEF Reindex, Transition, RebuildDocument, RebuildDone,
                        RedefineIndex, RefusedStep, durable
    <3>3. CASE \E h \in Hosts, c \in Configs : Start(h, c)
      BY <3>3 DEF Start, durable
    <3>4. CASE \E d \in Docs : Upload(d) \/ Delete(d)
      BY <3>4 DEF Upload, Delete
    <3>5. CASE Exit \/ FailStep \/ Crash
      BY <3>5 DEF Exit, FailStep, Crash, durable
    <3>6. CASE UNCHANGED vars
      BY <3>6 DEF vars, durable
    <3>. QED
      BY <3>1, <3>2, <3>3, <3>4, <3>5, <3>6 DEF Next
  <2>. QED
    BY <2>1, <2>3, <2>4, <2>5, <2>6, <2>7, <2>8, <2>9
<1>. QED
  BY <1>1, <1>2, MatchAlways, MetaAlways, PTL DEF Spec

(* A step that changes neither what is served nor which documents are stored,
   nor, in service, their chunks, is not seen. *)
LEMMA Unseen ==
  ASSUME ServedProfile' = ServedProfile,
         \A d \in Docs : IF ServedProfile = None
                           THEN chunks'[d] = Absent <=> chunks[d] = Absent
                           ELSE chunks'[d] = chunks[d]
  PROVE  UNCHANGED Promise!vars
<1>1. ASSUME NEW d \in Docs
      PROVE  (IF ServedProfile' = None /\ chunks'[d] # Absent THEN Pending ELSE chunks'[d])
             = IF ServedProfile = None /\ chunks[d] # Absent THEN Pending ELSE chunks[d]
  OBVIOUS
<1>. QED
  BY <1>1 DEF Promise!vars

(* A store whose documents all agree with p comes into service under p. *)
LEMMA Settles ==
  ASSUME NEW p \in Profiles, ServedProfile = None, ServedProfile' = p,
         chunks \in [Docs -> Profiles \cup {Absent, Bare}], chunks' = chunks,
         \A d \in Stored : Agrees(p, d)
  PROVE  Promise!Next
<1>1. p # None /\ Pending # Absent
  BY ConfigAssumption
<1>2. Promise!Settle(p)
  BY <1>1 DEF Promise!Settle, Stored, Agrees
<1>. QED
  BY <1>2 DEF Promise!Next

(* The store implements the knowledge base it promises: in service, all its
   documents are embedded under the one recorded profile, and a reindex takes
   it out of service and brings every document back at once, whatever crashed
   or failed in between. *)
THEOREM StoreKeepsPromise ==
  ASSUME "mcp" \notin Hosts
  PROVE  Spec => KeepsPromise
<1>1. Init => Promise!Init
  BY DEF Init, Promise!Init, ServedProfile
<1>2. MatchInv /\ FieldInv /\ MetaInv /\ ProfileInv /\ [Next]_vars
        => [Promise!Next]_(Promise!vars)
  <2>. SUFFICES ASSUME MatchInv, FieldInv, MetaInv, ProfileInv, [Next]_vars
                PROVE  Promise!Next \/ UNCHANGED Promise!vars
    OBVIOUS
  <2>0. /\ TypeOK /\ meta \in MetaRows /\ OpenFlags /\ Checked /\ Rebuilt
        /\ Profile(cfg) \in Profiles
        /\ chunks \in [Docs -> Profiles \cup {Absent, Bare}]
        /\ host \in {"normal", "reindex"}
    BY TwoHosts DEF MatchInv, TypeOK, Profiles
  <2>1. CASE UNCHANGED <<meta, marker, chunks>>
    BY <2>1, Unseen DEF ServedProfile
  <2>2. CASE /\ marker # None /\ marker' # None
             /\ \A d \in Docs : chunks'[d] = Absent <=> chunks[d] = Absent
    BY <2>2, Unseen DEF ServedProfile
  <2>3. CASE CheckMaxTokens
    <3>1. /\ meta'.model = meta.model /\ meta'.fp = meta.fp /\ meta'.dim = cfg.dim
          /\ meta.dim \in {None, cfg.dim} /\ marker' = marker /\ chunks' = chunks
      BY <2>0, <2>3 DEF CheckMaxTokens, Mismatch, MetaRows
    <3>2. meta.model # None => meta.dim # None
      BY DEF MetaInv
    <3>3. ServedProfile' = ServedProfile
      BY <3>1, <3>2 DEF ServedProfile
    <3>. QED
      BY <3>1, <3>3, Unseen
  <2>4. CASE InitMeta
    <3>1. meta'.fp = None /\ meta.fp = None
      BY <2>0, <2>4 DEF InitMeta, MetaRows, OpenFlags, MetaInv
    <3>2. ServedProfile = None /\ ServedProfile' = None
      BY <3>1 DEF ServedProfile
    <3>. QED
      BY <2>4, <3>2, Unseen DEF InitMeta
  <2>5. CASE SyncTokenizer
    <3>1. meta.model = cfg.model /\ meta.dim = cfg.dim /\ marker = None
      BY <2>0, <2>5 DEF SyncTokenizer, OpenFlags, Checked
    <3>2. marker' = marker /\ chunks' = chunks
      BY <2>5 DEF SyncTokenizer
    <3>3. CASE meta' = meta
      BY <3>2, <3>3, <2>1
    <3>4. CASE meta' # meta
      <4>1. /\ meta.fp = None /\ meta'.model = cfg.model
            /\ meta'.dim = cfg.dim /\ meta'.fp = cfg.tok
        BY <2>0, <2>5, <3>1, <3>4 DEF SyncTokenizer, MetaRows
      <4>2. Stored = {}
        BY <3>1, <4>1 DEF MatchInv, RecordMatches
      <4>3. None \notin {cfg.model, cfg.tok}
        BY <2>0, ConfigAssumption DEF TypeOK
      <4>4. ServedProfile = None /\ ServedProfile' = Profile(cfg)
        BY <3>1, <3>2, <4>1, <4>3 DEF ServedProfile, Profile
      <4>. QED
        BY <2>0, <3>2, <4>2, <4>4, Settles
    <3>. QED
      BY <3>3, <3>4
  <2>6. ASSUME NEW d \in Docs, Upload(d) \/ Delete(d)
        PROVE  Promise!Next
    <3>1. marker = None /\ Recorded = Profile(cfg)
      BY <2>0, <2>6 DEF Upload, Delete, Checked
    <3>2. Profile(cfg) # None /\ None \notin {cfg.model, cfg.tok}
      BY <2>0, ConfigAssumption DEF TypeOK
    <3>3. meta.model = cfg.model /\ meta.dim = cfg.dim /\ meta.fp = cfg.tok
      BY <3>1 DEF Recorded, Profile
    <3>4. ServedProfile = Profile(cfg) /\ ServedProfile # None
      BY <3>1, <3>2, <3>3 DEF ServedProfile, Profile
    <3>5. ServedProfile' = ServedProfile
      BY <2>6 DEF Upload, Delete, ServedProfile
    <3>6. Upload(d) => Promise!Put(d)
      BY <2>0, <3>4, <3>5 DEF Upload, Promise!Put
    <3>7. Delete(d) => Promise!Remove(d)
      BY <2>0, <3>4, <3>5 DEF Delete, Promise!Remove
    <3>. QED
      BY <2>6, <3>6, <3>7 DEF Promise!Next
  <2>7. CASE BeginReindex
    <3>1. marker' # None /\ chunks' = chunks
      BY <2>7, ConfigAssumption DEF BeginReindex
    <3>2. ServedProfile' = None
      BY <3>1 DEF ServedProfile
    <3>3. CASE ServedProfile = None
      BY <3>1, <3>2, <3>3, Unseen
    <3>4. CASE ServedProfile # None
      <4>1. Promise!Suspend
        BY <3>1, <3>2, <3>4 DEF Promise!Suspend
      <4>. QED
        BY <4>1 DEF Promise!Next
    <3>. QED
      BY <3>3, <3>4
  <2>8. CASE Transition
    <3>1. marker # None /\ marker' = marker
      BY <2>0, <2>8 DEF Transition, Rebuilt, Reindexing
    <3>2. \A d \in Docs : chunks'[d] = Absent <=> chunks[d] = Absent
      BY <2>8, ConfigAssumption DEF Transition
    <3>. QED
      BY <2>2, <3>1, <3>2
  <2>9. ASSUME NEW d \in Docs, RebuildDocument(d)
        PROVE  UNCHANGED Promise!vars
    <3>1. marker # None /\ marker' = marker /\ d \in Stored
      BY <2>0, <2>9 DEF RebuildDocument, Rebuilt, Reindexing, FieldInv
    <3>2. \A e \in Docs : chunks'[e] = Absent <=> chunks[e] = Absent
      BY <2>0, <2>9, <3>1, ConfigAssumption DEF RebuildDocument, Stored
    <3>. QED
      BY <3>1, <3>2, Unseen DEF ServedProfile
  <2>10. CASE SetDim \/ SetModel \/ UpdateMetas
    BY <2>0, <2>2, <2>10 DEF SetDim, SetModel, UpdateMetas, Rebuilt, Reindexing
  <2>11. CASE Unmark
    <3>1. /\ meta' = meta /\ chunks' = chunks /\ marker' = None /\ marker # None
          /\ Recorded = Profile(cfg) /\ \A d \in Stored : Agrees(Profile(cfg), d)
      BY <2>0, <2>11 DEF Unmark, Rebuilt, Reindexing
    <3>2. None \notin {cfg.model, cfg.tok}
      BY <2>0, ConfigAssumption DEF TypeOK
    <3>3. meta.model = cfg.model /\ meta.dim = cfg.dim /\ meta.fp = cfg.tok
      BY <3>1 DEF Recorded, Profile
    <3>4. ServedProfile = None /\ ServedProfile' = Profile(cfg)
      BY <3>1, <3>2, <3>3 DEF ServedProfile, Profile
    <3>. QED
      BY <2>0, <3>1, <3>4, Settles
  <2>12. CASE Open
    BY <2>1, <2>3, <2>4, <2>5, <2>12
       DEF Open, CheckSkipped, CheckRefused, MigrateTables, MigrateField,
           MigrateIndex, durable
  <2>13. CASE Reindex
    BY <2>1, <2>7, <2>8, <2>9, <2>10, <2>11, <2>13
       DEF Reindex, RebuildDone, RedefineIndex, RefusedStep, durable
  <2>14. CASE \E h \in Hosts, c \in Configs : Start(h, c)
    BY <2>1, <2>14 DEF Start, durable
  <2>15. CASE Exit \/ FailStep \/ Crash
    BY <2>1, <2>15 DEF Exit, FailStep, Crash, durable
  <2>16. CASE UNCHANGED vars
    BY <2>1, <2>16 DEF vars, durable
  <2>. QED
    BY <2>6, <2>12, <2>13, <2>14, <2>15, <2>16 DEF Next
<1>. QED
  BY <1>1, <1>2, MatchAlways, FieldAlways, MetaAlways, ProfileAlways, PTL
     DEF Spec, KeepsPromise, Promise!Spec

=============================================================================

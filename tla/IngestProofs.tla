---------------------------- MODULE IngestProofs ----------------------------
(***************************************************************************)
(* Theorems about what becomes of an uploaded text around its transaction: *)
(* Chunker, for any layers, texts and tokens; Extraction, for any number   *)
(* of requests, slots, redirects and ticks; KnowledgeGraph, for any        *)
(* documents, texts, links, bounds and limits.                             *)
(*                                                                         *)
(* The components share no state: each has its own specification and its   *)
(* own inductive invariant.                                                *)
(***************************************************************************)
EXTENDS Chunker, Extraction, KnowledgeGraph, DataLemmas

-----------------------------------------------------------------------------
(***************************************************************************)
(* Chunker                                                                 *)
(*                                                                         *)
(* The invariant that carries its theorems says where the window stands: it *)
(* begins no later than the last chunk ended, and less than max_tokens     *)
(* before it.  The first half leaves no gap, the second makes every window *)
(* reach past the last chunk, whatever headings do to it.                  *)
(***************************************************************************)

(* What resolve_embedding_settings accepts, as far as the loop needs it.    *)
Bounded ==
    /\ MaxTokens \in Nat \ {0} /\ Overlap \in Nat /\ Overlap < MaxTokens
    /\ config["max_input_tokens"] \in Nat /\ MaxTokens <= config["max_input_tokens"]
    /\ config["batch_size"] \in Nat \ {0}

(* Where the window stands between two turns of the loop.                   *)
Window ==
    /\ start < Tokens /\ prevEnd < Tokens
    /\ start <= prevEnd /\ prevEnd < start + MaxTokens

Positions ==
    /\ phase \in {"boot", "refused", "ready", "chunk", "embed", "done", "failed"}
    /\ start \in Nat /\ prevEnd \in Nat /\ Tokens \in Nat
    /\ phase \in {"boot", "refused", "ready"} => start = 0 /\ prevEnd = 0
    /\ phase \in {"ready", "chunk", "embed", "done"} => Bounded
    /\ phase = "chunk" => Window
    /\ phase \in {"embed", "done"} => prevEnd = Tokens

Ranges ==
    /\ Len(chunks) \in Nat
    /\ \A i \in 0 .. prevEnd - 1 : Covered(i)

CInv == Positions /\ Ranges

-----------------------------------------------------------------------------
(* The window *)

(* A heading never moves the end of a chunk out of the window, nor back to  *)
(* the last chunk: the loop always gains.                                   *)
LEMMA WindowGains ==
  ASSUME Positions, phase = "chunk"
  PROVE  /\ ChunkEnd \in Nat /\ prevEnd < ChunkEnd /\ ChunkEnd <= Tokens
         /\ ChunkEnd <= start + MaxTokens
<1>1. /\ start \in Nat /\ prevEnd \in Nat /\ Tokens \in Nat /\ MaxTokens \in Nat \ {0}
      /\ start < Tokens /\ prevEnd < Tokens /\ start <= prevEnd
      /\ prevEnd < start + MaxTokens
  BY DEF Positions, Bounded, Window
<1>2. /\ WindowEnd \in Nat /\ prevEnd < WindowEnd /\ WindowEnd <= Tokens
      /\ WindowEnd <= start + MaxTokens
  BY <1>1 DEF WindowEnd
<1>3. BreakEnd \in Nat /\ BreakEnd <= WindowEnd
  <2>. DEFINE ahead == {h \in HeadingStarts(text) : h > EndOf(start)}
              next == CHOOSE h \in ahead : \A g \in ahead : h <= g
              beyond == {i \in start + 1 .. WindowEnd - 1 : EndOf(i) > next}
  <2>1. CASE beyond # {}
    <3>1. beyond \in SUBSET Nat /\ \A i \in beyond : i <= WindowEnd - 1
      BY <1>1, <1>2
    <3>. HIDE DEF beyond
    <3>2. (CHOOSE i \in beyond : \A j \in beyond : i <= j) \in beyond
      BY <2>1, <3>1, LeastNatural
    <3>. HIDE DEF ahead
    <3>3. BreakEnd = IF ahead # {} /\ beyond # {}
                     THEN CHOOSE i \in beyond : \A j \in beyond : i <= j
                     ELSE WindowEnd
      BY DEF BreakEnd, ahead, beyond
    <3>4. BreakEnd \in beyond \/ BreakEnd = WindowEnd
      BY <3>2, <3>3
    <3>5. \A i \in beyond : i \in Nat /\ i <= WindowEnd
      BY <1>2, <3>1
    <3>6. CASE BreakEnd = WindowEnd
      BY <1>2, <3>6
    <3>7. CASE BreakEnd \in beyond
      BY <3>5, <3>7
    <3>. QED  BY <3>4, <3>6, <3>7
  <2>2. CASE beyond = {}
    BY <1>2, <2>2 DEF BreakEnd
  <2>. QED  BY <2>1, <2>2
<1>. QED  BY <1>1, <1>2, <1>3 DEF ChunkEnd

-----------------------------------------------------------------------------
(* The steps *)

LEMMA CInvInit ==
  ASSUME ChunkInit
  PROVE  CInv
  BY DEF ChunkInit, CInv, Positions, Ranges, Tokens

(* A configuration that loads and resolves bounds the window.               *)
LEMMA ResolvedIsBounded ==
  ASSUME NEW project \in Layers \cup {NoFile}, NEW user \in Layers \cup {NoFile},
         NEW env \in Layers, NEW kind \in {"ort", "mock"},
         Loads(project, user, env),
         NEW c, c = Loaded(project, user, env),
         NEW limits, limits = Reported(kind, c),
         Resolves(c, limits)
  PROVE  LET f == Filled(c, limits)
         IN  /\ f["max_tokens"] \in Nat \ {0} /\ f["overlap_tokens"] \in Nat
             /\ f["overlap_tokens"] < f["max_tokens"]
             /\ f["max_input_tokens"] \in Nat /\ f["max_tokens"] <= f["max_input_tokens"]
             /\ f["batch_size"] \in Nat \ {0}
<1>. DEFINE Sound(l) == /\ DOMAIN l \subseteq Keys
                        /\ \A k \in DOMAIN l \cap Counts : l[k] \in Nat
<1>1. \A l \in Layers : Parses(l) => Sound(l)
  BY LayersAssumption DEF Parses, Counts
<1>2. Sound(Defaults) /\ DOMAIN Defaults = Keys
  BY LayersAssumption
<1>3. ASSUME NEW a, NEW b, Sound(a), Sound(b), DOMAIN b = Keys
      PROVE  Sound(Overlay(a, b)) /\ DOMAIN Overlay(a, b) = Keys
  BY <1>3 DEF Overlay
<1>4. Sound(env)
  BY <1>1 DEF Loads, EnvAccepted
<1>5. ConfigFile(project, user) # NoFile => Sound(ConfigFile(project, user))
  BY <1>1 DEF Loads, ConfigFile
<1>. HIDE DEF Sound
<1>6. Sound(c) /\ DOMAIN c = Keys
  BY <1>2, <1>3, <1>4, <1>5 DEF Loaded
<1>7. \A k \in Counts : c[k] \in Nat
  BY <1>6 DEF Sound, Counts
<1>8. \A k \in DOMAIN limits : limits[k] \in Nat
  BY <1>7, LayersAssumption DEF Reported, Counts, Keys
<1>9. \A k \in Counts : Filled(c, limits)[k] \in Nat
  BY <1>7, <1>8 DEF Filled, Counts
<1>. QED  BY <1>9 DEF Resolves, Validate, Counts, Keys

LEMMA CInvConfigure ==
  ASSUME CInv, Configure
  PROVE  CInv'
<1>1. PICK project \in Layers \cup {NoFile}, user \in Layers \cup {NoFile}, env \in Layers,
           kind \in {"ort", "mock"} :
        LET c == Loaded(project, user, env)
            limits == Reported(kind, c)
            good == Loads(project, user, env) /\ Resolves(c, limits)
        IN  /\ phase' = IF good THEN "ready" ELSE "refused"
            /\ config' = IF good THEN Filled(c, limits) ELSE config
  BY DEF Configure
<1>2. phase' \in {"ready", "refused"} /\ (phase' = "ready" => Bounded')
  <2>. DEFINE c == Loaded(project, user, env)
              limits == Reported(kind, c)
  <2>1. CASE Loads(project, user, env) /\ Resolves(c, limits)
    <3>1. config' = Filled(c, limits) /\ phase' = "ready"
      BY <1>1, <2>1
    <3>. QED  BY <2>1, <3>1, ResolvedIsBounded DEF Bounded, MaxTokens, Overlap
  <2>2. CASE ~(Loads(project, user, env) /\ Resolves(c, limits))
    BY <1>1, <2>2
  <2>. QED  BY <2>1, <2>2
<1>. QED  BY <1>2 DEF Configure, CInv, Positions, Ranges, Covered, Tokens

(* The cut of a text that is not empty has a token.                         *)
LEMMA CutsOf ==
  ASSUME NEW t \in Texts, t # <<>>,
         NEW inner \in SUBSET (1 .. LineLen * Len(t) - 1)
  PROVE  LET n == Len(Ascending(inner \cup {LineLen * Len(t)}))
         IN  n \in Nat /\ 0 < n
<1>. DEFINE last == LineLen * Len(t)
            ends == inner \cup {last}
<1>1. last \in Nat /\ last >= 1
  <2>1. Len(t) \in Nat /\ Len(t) >= 1
    BY TextsAssumption
  <2>. QED  BY <2>1, TextsAssumption
<1>. HIDE DEF last
<1>2. IsFiniteSet(1 .. last)
  BY <1>1, FS_Interval
<1>3. ends \in SUBSET (1 .. last)
  <2>1. inner \in SUBSET (1 .. last - 1)
    BY DEF last
  <2>. QED  BY <1>1, <2>1
<1>4. IsFiniteSet(ends) /\ ends # {}
  BY <1>2, <1>3, FS_Subset
<1>5. Cardinality(ends) \in Nat /\ Cardinality(ends) # 0
  BY <1>4, FS_CardinalityType, FS_EmptySet
<1>6. Len(Ascending(ends)) = Cardinality(ends)
  BY <1>5 DEF Ascending
<1>. QED  BY <1>5, <1>6 DEF last

LEMMA CInvTokenize ==
  ASSUME CInv, Tokenize
  PROVE  CInv'
<1>0. PICK t \in Texts : \E inner \in SUBSET (1 .. LineLen * Len(t) - 1) :
        /\ cuts' = IF t = <<>> THEN <<>> ELSE Ascending(inner \cup {LineLen * Len(t)})
        /\ phase' = IF t = <<>> THEN "embed" ELSE "chunk"
  BY DEF Tokenize
<1>1. PICK inner \in SUBSET (1 .. LineLen * Len(t) - 1) :
        /\ cuts' = IF t = <<>> THEN <<>> ELSE Ascending(inner \cup {LineLen * Len(t)})
        /\ phase' = IF t = <<>> THEN "embed" ELSE "chunk"
  BY <1>0
<1>2. phase = "ready" /\ start = 0 /\ prevEnd = 0 /\ Bounded
      /\ UNCHANGED <<config, start, prevEnd, chunks, vectors>>
  BY DEF Tokenize, CInv, Positions
<1>3. Bounded' /\ Ranges' /\ MaxTokens' \in Nat \ {0}
  BY <1>2 DEF CInv, Ranges, Covered, Bounded, MaxTokens, Overlap
<1>4. CASE t = <<>>
  BY <1>1, <1>2, <1>3, <1>4 DEF CInv, Positions, Tokens
<1>5. CASE t # <<>>
  <2>1. Tokens' \in Nat /\ 0 < Tokens'
    BY <1>1, <1>5, CutsOf DEF Tokens
  <2>2. phase' = "chunk" /\ start' = 0 /\ prevEnd' = 0
    BY <1>1, <1>2, <1>5
  <2>3. Window'
    BY <1>3, <2>1, <2>2 DEF Window, MaxTokens, Tokens
  <2>. QED  BY <1>3, <2>1, <2>2, <2>3 DEF CInv, Positions
<1>. QED  BY <1>4, <1>5

(* A turn pushes a chunk, moves the window and leaves no gap.               *)
LEMMA CInvTurn ==
  ASSUME CInv, Turn
  PROVE  CInv'
<1>. DEFINE end == ChunkEnd
<1>1. phase = "chunk" /\ UNCHANGED <<config, text, cuts, vectors>>
  BY DEF Turn
<1>2. /\ end \in Nat /\ prevEnd < end /\ end <= Tokens /\ end <= start + MaxTokens
  BY <1>1, WindowGains DEF CInv
<1>3. /\ start \in Nat /\ prevEnd \in Nat /\ Tokens \in Nat /\ start <= prevEnd
      /\ MaxTokens \in Nat \ {0} /\ Overlap \in Nat /\ Overlap < MaxTokens
      /\ start < Tokens /\ Bounded
  BY <1>1 DEF CInv, Positions, Bounded, Window
<1>4. /\ \E h : chunks' = Append(chunks, [from |-> start, to |-> end, heading |-> h])
      /\ prevEnd' = end
      /\ start' = IF end >= Tokens THEN start ELSE NextStart(end)
      /\ phase' = IF prevEnd' >= Tokens \/ start' >= Tokens THEN "embed" ELSE phase
  BY <1>2, <1>3 DEF Turn
<1>5. Tokens' = Tokens /\ MaxTokens' = MaxTokens /\ Bounded'
  BY <1>1, <1>3 DEF Tokens, MaxTokens, Bounded, Overlap
<1>. HIDE DEF end
<1>6. Positions'
  <2>1. CASE end >= Tokens
    <3>1. prevEnd' = Tokens' /\ phase' = "embed" /\ start' = start
      BY <1>2, <1>3, <1>4, <1>5, <2>1
    <3>. QED  BY <1>2, <1>3, <1>4, <1>5, <3>1 DEF Positions
  <2>2. CASE end < Tokens
    <3>1. /\ start' \in Nat /\ start' <= end /\ end < start' + MaxTokens
      BY <1>2, <1>3, <1>4, <2>2 DEF NextStart
    <3>2. phase' = "chunk"
      BY <1>1, <1>2, <1>3, <1>4, <2>2, <3>1
    <3>3. Window'
      BY <1>2, <1>3, <1>4, <1>5, <2>2, <3>1 DEF Window
    <3>. QED  BY <1>2, <1>3, <1>4, <1>5, <3>1, <3>2, <3>3 DEF Positions
  <2>. QED  BY <1>2, <1>3, <2>1, <2>2
<1>7. Ranges'
  <2>1. PICK h : chunks' = Append(chunks, [from |-> start, to |-> end, heading |-> h])
    BY <1>4
  <2>2. Len(chunks) \in Nat
    BY DEF CInv, Ranges
  <2>3. /\ Len(chunks') = Len(chunks) + 1
        /\ chunks'[Len(chunks) + 1].from = start /\ chunks'[Len(chunks) + 1].to = end
        /\ \A n \in 1 .. Len(chunks) : chunks'[n] = chunks[n]
    BY <2>1, <2>2
  <2>4. ASSUME NEW i \in 0 .. prevEnd' - 1
        PROVE  Covered(i)'
    <3>1. CASE i < prevEnd
      <4>1. i \in 0 .. prevEnd - 1
        BY <1>2, <1>3, <1>4, <3>1
      <4>2. Covered(i)
        BY <4>1 DEF CInv, Ranges
      <4>3. PICK n \in 1 .. Len(chunks) : chunks[n].from <= i /\ i < chunks[n].to
        BY <4>2 DEF Covered
      <4>4. n \in 1 .. Len(chunks') /\ chunks'[n] = chunks[n]
        BY <2>2, <2>3
      <4>. QED  BY <4>3, <4>4 DEF Covered
    <3>2. CASE i >= prevEnd
      <4>1. chunks'[Len(chunks) + 1].from <= i /\ i < chunks'[Len(chunks) + 1].to
        BY <1>2, <1>3, <1>4, <2>3, <3>2
      <4>. QED  BY <2>2, <2>3, <4>1 DEF Covered
    <3>. QED  BY <1>3, <3>1, <3>2
  <2>. QED  BY <2>2, <2>3, <2>4 DEF Ranges
<1>. QED  BY <1>6, <1>7 DEF CInv

LEMMA CInvEmbed ==
  ASSUME CInv, EmbedBatch
  PROVE  CInv'
<1>1. /\ phase = "embed" /\ phase' \in {"embed", "done", "failed"}
      /\ UNCHANGED <<config, text, cuts, start, prevEnd, chunks>>
  BY DEF EmbedBatch
<1>. QED  BY <1>1 DEF CInv, Positions, Ranges, Covered, Bounded, MaxTokens, Overlap, Tokens

LEMMA CInvStep ==
  ASSUME CInv, [ChunkNext]_chunkVars
  PROVE  CInv'
<1>1. CASE UNCHANGED chunkVars
  BY <1>1 DEF chunkVars, CInv, Positions, Ranges, Covered, Bounded, Window, MaxTokens,
              Overlap, Tokens
<1>. QED  BY <1>1, CInvConfigure, CInvTokenize, CInvTurn, CInvEmbed DEF ChunkNext

LEMMA CInvAlways == ChunkSpec => []CInv
<1>. QED  BY CInvInit, CInvStep, PTL DEF ChunkSpec

-----------------------------------------------------------------------------

(* For every text, every place of its headings and fences, every way the    *)
(* tokenizer cuts it and every chunk size and overlap that load accepts, no *)
(* token is left out of the chunks.                                         *)
THEOREM ChunksCoverTextAlways == ChunkSpec => []ChunksCoverText
<1>1. CInv => ChunksCoverText
  BY DEF CInv, Positions, Ranges, ChunksCoverText
<1>. QED  BY <1>1, CInvAlways, PTL

(* And every window gives a chunk: the branch that skips a range is dead.   *)
THEOREM NoRangeSkippedAlways == ChunkSpec => []NoRangeSkipped
<1>1. CInv => NoRangeSkipped
  <2>1. ASSUME CInv, phase = "chunk"
        PROVE  ChunkEnd > prevEnd
    <3>1. ChunkEnd \in Nat /\ prevEnd < ChunkEnd
      BY <2>1, WindowGains DEF CInv
    <3>. QED  BY <2>1, <3>1 DEF CInv, Positions
  <2>. QED  BY <2>1 DEF NoRangeSkipped
<1>. QED  BY <1>1, CInvAlways, PTL

-----------------------------------------------------------------------------
(* Embedding *)

Vector == [from : Nat, to : Nat, more : Nat, lost : Nat]

(* A vector of a chunk, cut at most by what encoding it again has added.    *)
VectorOf(v, c) == v \in Vector /\ v.from = c.from /\ v.to = c.to /\ v.lost <= v.more

(* Every chunk is a window, and a window fits the embedder.                 *)
Fits ==
    \A n \in 1 .. Len(chunks) :
        /\ chunks[n].from \in Nat /\ chunks[n].to \in Nat
        /\ chunks[n].from <= chunks[n].to
        /\ chunks[n].to <= chunks[n].from + MaxTokens

(* The vectors so far are those of the first chunks.                        *)
Prefix ==
    /\ vectors \in Seq(Vector) /\ Len(vectors) <= Len(chunks)
    /\ \A n \in 1 .. Len(vectors) : VectorOf(vectors[n], chunks[n])

EInv ==
    /\ phase \in {"boot", "refused", "ready"} => chunks = <<>> /\ vectors = <<>>
    /\ phase = "chunk" => vectors = <<>>
    /\ phase \in {"chunk", "embed", "done"} => Fits /\ Prefix
    /\ phase = "done" => Len(vectors) >= Len(chunks)

LEMMA EInvInit ==
  ASSUME ChunkInit
  PROVE  EInv
  BY DEF ChunkInit, EInv

LEMMA EInvConfigure ==
  ASSUME CInv, EInv, Configure
  PROVE  EInv'
<1>1. phase = "boot" /\ phase' \in {"ready", "refused"} /\ UNCHANGED <<chunks, vectors>>
  BY DEF Configure
<1>. QED  BY <1>1 DEF EInv

LEMMA EInvTokenize ==
  ASSUME CInv, EInv, Tokenize
  PROVE  EInv'
<1>1. /\ phase = "ready" /\ phase' \in {"embed", "chunk"}
      /\ UNCHANGED <<chunks, vectors>>
  BY DEF Tokenize
<1>2. chunks' = <<>> /\ vectors' = <<>>
  BY <1>1 DEF EInv
<1>3. Fits' /\ Prefix'
  BY <1>2 DEF Fits, Prefix
<1>. QED  BY <1>1, <1>2, <1>3 DEF EInv

LEMMA EInvTurn ==
  ASSUME CInv, EInv, Turn
  PROVE  EInv'
<1>. DEFINE end == ChunkEnd
<1>1. phase = "chunk" /\ UNCHANGED <<config, vectors>> /\ phase' \in {"chunk", "embed"}
  BY DEF Turn
<1>2. /\ end \in Nat /\ prevEnd < end /\ end <= start + MaxTokens
  BY <1>1, WindowGains DEF CInv
<1>3. /\ start \in Nat /\ prevEnd \in Nat /\ start <= prevEnd
      /\ Len(chunks) \in Nat /\ vectors = <<>>
  BY <1>1 DEF CInv, Positions, Ranges, Window, EInv
<1>4. \E h : chunks' = Append(chunks, [from |-> start, to |-> end, heading |-> h])
  BY <1>2, <1>3 DEF Turn
<1>. HIDE DEF end
<1>5. PICK h : chunks' = Append(chunks, [from |-> start, to |-> end, heading |-> h])
  BY <1>4
<1>6. /\ Len(chunks') = Len(chunks) + 1
      /\ chunks'[Len(chunks) + 1].from = start /\ chunks'[Len(chunks) + 1].to = end
      /\ \A n \in 1 .. Len(chunks) : chunks'[n] = chunks[n]
  BY <1>3, <1>5
<1>7. Fits'
  <2>1. MaxTokens' = MaxTokens
    BY <1>1 DEF MaxTokens
  <2>2. ASSUME NEW n \in 1 .. Len(chunks')
        PROVE  /\ chunks'[n].from \in Nat /\ chunks'[n].to \in Nat
               /\ chunks'[n].from <= chunks'[n].to
               /\ chunks'[n].to <= chunks'[n].from + MaxTokens
    <3>1. CASE n = Len(chunks) + 1
      BY <1>2, <1>3, <1>6, <3>1
    <3>2. CASE n \in 1 .. Len(chunks)
      BY <1>1, <1>6, <3>2 DEF EInv, Fits
    <3>. QED  BY <1>3, <1>6, <3>1, <3>2
  <2>. QED  BY <2>1, <2>2 DEF Fits
<1>8. Prefix'
  BY <1>1, <1>3, <1>6 DEF Prefix
<1>. QED  BY <1>1, <1>3, <1>7, <1>8 DEF EInv

(* A chunk that fits loses no more than encoding it again has added.        *)
LEMMA EmbeddedFits ==
  ASSUME NEW c, c.from \in Nat, c.to \in Nat, c.from <= c.to, NEW more \in Nat,
         config["max_input_tokens"] \in Nat,
         c.to <= c.from + config["max_input_tokens"]
  PROVE  VectorOf(Embedded(c, more), c)
  BY DEF VectorOf, Embedded, Vector

(* A batch extends the vectors by those of the next chunks.                 *)
LEMMA EInvEmbed ==
  ASSUME CInv, EInv, EmbedBatch
  PROVE  EInv'
<1>1. /\ phase = "embed" /\ Fits /\ Prefix /\ Bounded /\ Len(chunks) \in Nat
      /\ UNCHANGED <<config, chunks>>
  BY DEF EmbedBatch, EInv, CInv, Positions, Ranges
<1>2. Fits'
  BY <1>1 DEF Fits, MaxTokens
<1>3. CASE Len(vectors) >= Len(chunks)
  <2>1. phase' = "done" /\ UNCHANGED vectors
    BY <1>3 DEF EmbedBatch
  <2>2. Prefix'
    BY <1>1, <2>1 DEF Prefix
  <2>. QED  BY <1>1, <1>2, <1>3, <2>1, <2>2 DEF EInv
<1>4. CASE phase' = "failed"
  BY <1>4 DEF EInv
<1>5. CASE Len(vectors) < Len(chunks) /\ phase' # "failed"
  <2>1. Len(vectors) \in Nat /\ vectors \in Seq(Vector)
    BY <1>1 DEF Prefix
  <2>. DEFINE N == BatchEnd - Len(vectors)
  <2>2. PICK more \in [1 .. N -> Growths] :
           /\ phase' = "embed"
           /\ vectors' = vectors \o
                 [i \in 1 .. N |-> Embedded(chunks[Len(vectors) + i], more[i])]
    <3>1. ~ (Len(vectors) >= Len(chunks))
      BY <1>1, <1>5, <2>1
    <3>. QED  BY <1>1, <1>5, <3>1, Zenon DEF EmbedBatch
  <2>. DEFINE b == [i \in 1 .. N |-> Embedded(chunks[Len(vectors) + i], more[i])]
  <2>3. BatchEnd \in Nat /\ Len(vectors) < BatchEnd /\ BatchEnd <= Len(chunks)
        /\ N \in Nat
    BY <1>1, <1>5, <2>1 DEF BatchEnd, Bounded
  <2>4. \A i \in 1 .. N : VectorOf(b[i], chunks[Len(vectors) + i])
    <3>1. TAKE i \in 1 .. N
    <3>2. Len(vectors) + i \in 1 .. Len(chunks)
      BY <2>1, <2>3
    <3>. DEFINE c == chunks[Len(vectors) + i]
    <3>3. /\ c.from \in Nat /\ c.to \in Nat /\ c.from <= c.to
          /\ c.to <= c.from + MaxTokens
      BY <1>1, <3>2 DEF Fits
    <3>4. /\ config["max_input_tokens"] \in Nat
          /\ MaxTokens \in Nat /\ MaxTokens <= config["max_input_tokens"]
      BY <1>1 DEF Bounded, MaxTokens
    <3>5. more[i] \in Nat
      BY <2>2, TextsAssumption
    <3>6. b[i] = Embedded(c, more[i])
      OBVIOUS
    <3>. HIDE DEF c, b
    <3>7. c.to <= c.from + config["max_input_tokens"]
      BY <3>3, <3>4
    <3>8. VectorOf(Embedded(c, more[i]), c)
      BY <3>3, <3>4, <3>5, <3>7, EmbeddedFits
    <3>. QED  BY <3>6, <3>8 DEF c
  <2>5. vectors' = vectors \o b /\ Len(b) = N /\ b \in Seq(Vector)
    <3>1. \A i \in 1 .. N : b[i] \in Vector
      BY <2>4 DEF VectorOf
    <3>. QED  BY <2>2, <2>3, <3>1
  <2>. HIDE DEF b
  <2>6. /\ vectors' \in Seq(Vector) /\ Len(vectors') = BatchEnd
        /\ \A n \in 1 .. Len(vectors) : vectors'[n] = vectors[n]
        /\ \A n \in Len(vectors) + 1 .. BatchEnd : vectors'[n] = b[n - Len(vectors)]
    BY <2>1, <2>3, <2>5
  <2>7. ASSUME NEW n \in 1 .. Len(vectors')
        PROVE  VectorOf(vectors'[n], chunks[n])
    <3>1. CASE n <= Len(vectors)
      <4>1. n \in 1 .. Len(vectors)
        BY <2>1, <3>1
      <4>2. VectorOf(vectors[n], chunks[n])
        BY <1>1, <4>1 DEF Prefix
      <4>. QED  BY <2>6, <4>1, <4>2
    <3>2. CASE n > Len(vectors)
      <4>1. n - Len(vectors) \in 1 .. N
        BY <2>1, <2>3, <2>6, <3>2
      <4>2. VectorOf(b[n - Len(vectors)], chunks[Len(vectors) + (n - Len(vectors))])
        BY <2>4, <4>1
      <4>3. Len(vectors) + (n - Len(vectors)) = n /\ n \in Len(vectors) + 1 .. BatchEnd
        BY <2>1, <2>3, <2>6, <3>2
      <4>. QED  BY <2>6, <4>2, <4>3
    <3>. QED  BY <2>1, <2>6, <3>1, <3>2
  <2>8. Prefix'
    BY <1>1, <2>3, <2>6, <2>7 DEF Prefix
  <2>. QED  BY <1>2, <2>2, <2>8 DEF EInv
<1>. QED  BY <1>1, <1>3, <1>4, <1>5 DEF Prefix

LEMMA EInvAlways == ChunkSpec => []EInv
<1>1. ASSUME CInv, EInv, [ChunkNext]_chunkVars
      PROVE  EInv'
  <2>1. CASE UNCHANGED chunkVars
    BY <1>1, <2>1 DEF chunkVars, EInv, Fits, Prefix, MaxTokens
  <2>. QED  BY <1>1, <2>1, EInvConfigure, EInvTokenize, EInvTurn, EInvEmbed DEF ChunkNext
<1>. QED  BY <1>1, EInvInit, CInvAlways, PTL DEF ChunkSpec

(* Whatever configuration load accepts, there is one vector per chunk when *)
(* embedding is done, and none has lost more tokens than encoding its text  *)
(* again had added.                                                         *)
THEOREM EmbeddedUnlessLongerAlways == ChunkSpec => []EmbeddedUnlessLonger
<1>1. CInv /\ EInv => EmbeddedUnlessLonger
  <2>1. ASSUME CInv, EInv, phase = "done"
        PROVE  /\ Len(vectors) = Len(chunks)
               /\ \A n \in 1 .. Len(vectors) : VectorOf(vectors[n], chunks[n])
    <3>1. /\ vectors \in Seq(Vector) /\ Len(vectors) <= Len(chunks)
          /\ Len(vectors) >= Len(chunks) /\ Len(chunks) \in Nat
          /\ \A n \in 1 .. Len(vectors) : VectorOf(vectors[n], chunks[n])
      BY <2>1 DEF CInv, Ranges, EInv, Prefix
    <3>. QED  BY <3>1
  <2>. QED  BY <2>1 DEF EmbeddedUnlessLonger, VectorOf
<1>. QED  BY <1>1, CInvAlways, EInvAlways, PTL

-----------------------------------------------------------------------------
(***************************************************************************)
(* Extraction                                                              *)
(*                                                                         *)
(* The slots of the blocking PDF jobs and the time a request may take.     *)
(***************************************************************************)

Stages == Timed \cup Over \cup {"idle", "reading", "resolving"}
Outs == {"none", "error", "extracted", "stripped", "verbatim"}

Request == [stage : Stages, ask : Uploads \cup {Nothing}, hops : Int, left : Nat,
            wait : Nat, slow : Nat, fetched : Nat, pdf : Nat, out : Outs]

(* A hop begins within the deadline, and takes a lookup and then what was   *)
(* left of the deadline when it began.                                      *)
FetchInTime(q) ==
    /\ q.fetched <= Budget + Lookup
    /\ q.stage \in {"resolving", "fetching"} =>
          q.pdf = 0 /\ (q.left = 0 \/ q.fetched + q.left <= Budget)
    /\ q.stage = "resolving" =>
          q.slow <= q.fetched /\ q.slow <= Lookup /\ q.fetched - q.slow + q.wait <= Budget
    /\ q.stage = "fetching" => q.slow = 0 /\ q.fetched + q.wait <= Budget + Lookup
    /\ q.stage = "idle" => q.fetched = 0 /\ q.slow = 0

(* The wait for a slot and the parse have a limit each, the second wait and *)
(* the extraction share what these left of the budget.                      *)
PdfInTime(q) ==
    /\ q.pdf <= 2 * Budget
    /\ q.stage \in {"idle", "reading"} => q.pdf = 0
    /\ q.stage = "parseWait" => q.left = q.wait /\ q.pdf + q.wait <= Budget
    /\ q.stage = "parsing" =>
          q.pdf + q.wait <= 2 * Budget /\ (q.left = 0 \/ q.pdf + q.left <= Budget)
    /\ q.stage = "extractWait" => q.left = q.wait
    /\ q.stage \in {"extractWait", "extracting"} => q.wait = 0 \/ q.pdf + q.wait <= Budget

InTime(q) == FetchInTime(q) /\ PdfInTime(q)

(* A running job holds a slot; a request that has not come so far has none. *)
Slotted ==
    /\ IsFiniteSet(jobs) /\ free \in Nat /\ free = Slots - Cardinality(jobs)
    /\ \A r \in Requests :
        /\ req[r].stage \in {"idle", "reading", "resolving", "fetching", "parseWait"} =>
              <<r, "parse">> \notin jobs /\ <<r, "extract">> \notin jobs
        /\ req[r].stage \in {"parsing", "extractWait"} => <<r, "extract">> \notin jobs

Times == req \in [Requests -> Request] /\ \A r \in Requests : InTime(req[r])

XInv == Times /\ Slotted

Fresh(q) == q.fetched = 0 /\ q.pdf = 0 /\ q.slow = 0

TimedAlike(q, p) == q.fetched = p.fetched /\ q.pdf = p.pdf /\ q.slow = p.slow

(* A step of r to one of the stages.                                        *)
Moves(r, stages) ==
    \E q \in Request : Set(r, q) /\ InTime(q) /\ q.stage \in stages

LEMMA XInvInit ==
  ASSUME PdfInit
  PROVE  XInv
<1>1. Idle \in Request /\ InTime(Idle) /\ Idle.stage = "idle"
  BY UploadAssumption DEF Idle, Request, Stages, Outs, InTime, FetchInTime, PdfInTime, TimedAlike, Nothing
<1>2. Times
  BY <1>1 DEF PdfInit, Times
<1>3. Cardinality(jobs) = 0 /\ IsFiniteSet(jobs)
  BY FS_EmptySet DEF PdfInit
<1>4. Slotted
  BY <1>1, <1>3, UploadAssumption DEF PdfInit, Slotted
<1>. QED  BY <1>2, <1>4 DEF XInv

LEMMA MovesKeepTimes ==
  ASSUME XInv, NEW r \in Requests, NEW stages, Moves(r, stages)
  PROVE  /\ Times' /\ req'[r].stage \in stages
         /\ \A p \in Requests \ {r} : req'[p] = req[p]
<1>1. PICK q \in Request : Set(r, q) /\ InTime(q) /\ q.stage \in stages
  BY DEF Moves
<1>2. req' = [req EXCEPT ![r] = q] /\ req \in [Requests -> Request]
  BY <1>1 DEF Set, XInv, Times
<1>3. \A p \in Requests : req'[p] = IF p = r THEN q ELSE req[p]
  BY <1>2
<1>4. \A p \in Requests : InTime(req'[p])
  BY <1>1, <1>3 DEF XInv, Times
<1>5. Times'
  BY <1>1, <1>2, <1>4 DEF Times, InTime, FetchInTime, PdfInTime, TimedAlike
<1>. QED  BY <1>1, <1>3, <1>5

(* Before the jobs and after them, a step that leaves the slots alone.      *)
LEMMA MovesKeepSlots ==
  ASSUME XInv, NEW r \in Requests, UNCHANGED <<free, jobs>>,
         \/ Moves(r, Over)
         \/ /\ req[r].stage \in {"idle", "reading", "resolving", "fetching"}
            /\ Moves(r, Stages)
  PROVE  XInv'
<1>1. CASE Moves(r, Over)
  <2>1. Times' /\ req'[r].stage \in Over /\ \A p \in Requests \ {r} : req'[p] = req[p]
    BY <1>1, MovesKeepTimes
  <2>2. Slotted'
    BY <2>1 DEF XInv, Slotted, Over
  <2>. QED  BY <2>1, <2>2 DEF XInv
<1>2. CASE req[r].stage \in {"idle", "reading", "resolving", "fetching"} /\ Moves(r, Stages)
  <2>1. Times' /\ \A p \in Requests \ {r} : req'[p] = req[p]
    BY <1>2, MovesKeepTimes
  <2>2. Slotted'
    BY <1>2, <2>1 DEF XInv, Slotted
  <2>. QED  BY <2>1, <2>2 DEF XInv
<1>. QED  BY <1>1, <1>2

LEMMA AnswerMoves ==
  ASSUME XInv, NEW r \in Requests, NEW out \in Outs, Answer(r, out)
  PROVE  Moves(r, Over)
<1>. DEFINE q == [req[r] EXCEPT !.stage = "answered", !.out = out, !.wait = 0]
<1>1. req[r] \in Request /\ InTime(req[r])
  BY DEF XInv, Times
<1>2. q \in Request /\ q.stage = "answered" /\ TimedAlike(q, req[r])
  BY <1>1 DEF TimedAlike, Request, Stages, Over
<1>3. InTime(q)
  BY <1>1, <1>2 DEF InTime, FetchInTime, PdfInTime, TimedAlike
<1>. QED  BY <1>2, <1>3 DEF Answer, Moves, Over

LEMMA ClassifyMoves ==
  ASSUME XInv, NEW r \in Requests, NEW header, Classify(r, header),
         req[r].stage \in {"reading", "fetching"}
  PROVE  Moves(r, Stages)
<1>. DEFINE q == [req[r] EXCEPT !.stage = "parseWait", !.left = Budget, !.wait = Budget]
<1>1. req[r] \in Request /\ InTime(req[r])
  BY DEF XInv, Times
<1>2. CASE Set(r, q)
  <2>1. q \in Request /\ q.stage = "parseWait" /\ TimedAlike(q, req[r])
        /\ q.left = Budget /\ q.wait = Budget
    BY <1>1, UploadAssumption DEF TimedAlike, Request, Stages, Timed, PdfStages
  <2>2. q.pdf = 0 /\ q.fetched <= Budget + Lookup
    BY <1>1, <2>1, UploadAssumption DEF InTime, FetchInTime, PdfInTime, TimedAlike, Request
  <2>3. InTime(q)
    BY <2>1, <2>2, UploadAssumption DEF InTime, FetchInTime, PdfInTime, TimedAlike
  <2>. QED  BY <1>2, <2>1, <2>3 DEF Moves, Stages, Timed, PdfStages
<1>3. ASSUME NEW out \in Outs, Answer(r, out)
      PROVE  Moves(r, Stages)
  BY <1>3, AnswerMoves DEF Moves, Stages
<1>. QED  BY <1>2, <1>3 DEF Classify, TextOf, Outs

-----------------------------------------------------------------------------
(* The steps *)

LEMMA XInvArrive ==
  ASSUME XInv, NEW r \in Requests, Arrive(r)
  PROVE  XInv'
<1>1. req[r] \in Request /\ Fresh(req[r]) /\ req[r].stage = "idle"
  BY DEF Arrive, XInv, Times, InTime, FetchInTime, PdfInTime, Fresh
<1>2. PICK u \in Uploads :
        LET asked == [req[r] EXCEPT !.ask = u] IN
        IF ~WellFormed(u)
        THEN Set(r, [asked EXCEPT !.stage = "answered", !.out = "error"])
        ELSE CASE Source(u) = "url" ->
                    Set(r, [asked EXCEPT !.stage = "resolving", !.left = Budget,
                                         !.wait = Budget])
               [] Source(u) \in {"path", "base64"} ->
                    Set(r, [asked EXCEPT !.stage = "reading"])
               [] Source(u) = "content" ->
                    \E out \in {TextOf(Hint(u, "none")), "error"} :
                        Set(r, [asked EXCEPT !.stage = "answered", !.out = out])
  BY DEF Arrive
<1>. DEFINE asked == [req[r] EXCEPT !.ask = u]
            over(out) == [asked EXCEPT !.stage = "answered", !.out = out]
            lookup == [asked EXCEPT !.stage = "resolving", !.left = Budget, !.wait = Budget]
            reading == [asked EXCEPT !.stage = "reading"]
<1>3. asked \in Request /\ Fresh(asked) /\ asked.ask = u
  BY <1>1 DEF Request, Fresh
<1>. HIDE DEF asked
<1>4. \A out \in Outs : over(out) \in Request /\ InTime(over(out))
  <2>1. ASSUME NEW out \in Outs
        PROVE  over(out) \in Request /\ Fresh(over(out)) /\ over(out).stage = "answered"
    BY <1>3 DEF Fresh, Request, Stages, Over
  <2>. HIDE DEF over
  <2>. QED  BY <2>1, UploadAssumption DEF InTime, FetchInTime, PdfInTime, Fresh
<1>5. lookup \in Request /\ InTime(lookup)
  <2>1. /\ lookup \in Request /\ Fresh(lookup) /\ lookup.stage = "resolving"
        /\ lookup.wait = Budget /\ lookup.left = Budget
    BY <1>3, UploadAssumption DEF Fresh, Request, Stages, Timed, PdfStages
  <2>. HIDE DEF lookup
  <2>. QED  BY <2>1, UploadAssumption DEF InTime, FetchInTime, PdfInTime, Fresh
<1>6. reading \in Request /\ InTime(reading)
  BY <1>3, UploadAssumption DEF Fresh, Request, Stages, InTime, FetchInTime, PdfInTime
<1>7. WellFormed(u) => Source(u) \in u.given
  <2>1. WellFormed(u) => u.given # {}
    BY FS_EmptySet DEF WellFormed
  <2>. QED  BY <2>1 DEF Source
<1>8. \E q \in Request : Set(r, q) /\ InTime(q)
  <2>1. CASE ~WellFormed(u)
    BY <1>2, <1>4, <2>1 DEF asked, Outs
  <2>2. CASE WellFormed(u) /\ Source(u) = "url"
    BY <1>2, <1>5, <1>7, <2>2 DEF asked
  <2>3. CASE WellFormed(u) /\ Source(u) \in {"path", "base64"}
    BY <1>2, <1>6, <2>3 DEF asked
  <2>4. CASE WellFormed(u) /\ Source(u) = "content"
    <3>1. PICK out \in {TextOf(Hint(u, "none")), "error"} : Set(r, over(out))
      BY <1>2, <2>4 DEF asked
    <3>. QED  BY <1>4, <3>1 DEF TextOf, Outs
  <2>. QED  BY <1>7, <2>1, <2>2, <2>3, <2>4, UploadAssumption DEF Sources
<1>9. Moves(r, Stages)
  BY <1>8 DEF Moves, Request
<1>. QED  BY <1>1, <1>9, MovesKeepSlots DEF Arrive

LEMMA XInvRead ==
  ASSUME XInv, NEW r \in Requests, Read(r)
  PROVE  XInv'
<1>1. CASE Classify(r, "none")
  BY <1>1, ClassifyMoves, MovesKeepSlots DEF Read
<1>2. CASE Answer(r, "error")
  BY <1>2, AnswerMoves, MovesKeepSlots DEF Read, Outs
<1>. QED  BY <1>1, <1>2 DEF Read

LEMMA XInvResolve ==
  ASSUME XInv, NEW r \in Requests, Resolve(r)
  PROVE  XInv'
<1>1. req[r] \in Request /\ InTime(req[r]) /\ req[r].stage = "resolving"
  BY DEF Resolve, XInv, Times
<1>. DEFINE q == [req[r] EXCEPT !.stage = "fetching", !.slow = 0]
<1>2. CASE Set(r, q)
  <2>1. /\ q \in Request /\ q.stage = "fetching" /\ q.slow = 0 /\ q.pdf = req[r].pdf
        /\ q.fetched = req[r].fetched /\ q.left = req[r].left /\ q.wait = req[r].wait
    BY <1>1 DEF Request, Stages, Timed, PdfStages
  <2>. HIDE DEF q
  <2>2. InTime(q)
    BY <1>1, <2>1, UploadAssumption DEF InTime, FetchInTime, PdfInTime, Request
  <2>3. Moves(r, Stages)
    BY <1>2, <2>1, <2>2 DEF Moves, Stages, Timed, PdfStages
  <2>. QED  BY <1>1, <2>3, MovesKeepSlots DEF Resolve
<1>3. CASE Answer(r, "error")
  BY <1>3, AnswerMoves, MovesKeepSlots DEF Resolve, Outs
<1>. QED  BY <1>2, <1>3 DEF Resolve

LEMMA XInvFetch ==
  ASSUME XInv, NEW r \in Requests, Fetch(r)
  PROVE  XInv'
<1>1. req[r] \in Request /\ InTime(req[r]) /\ req[r].stage = "fetching"
  BY DEF Fetch, XInv, Times
<1>. DEFINE q == [req[r] EXCEPT !.stage = "resolving", !.hops = @ + 1, !.wait = req[r].left]
<1>2. CASE Set(r, q) /\ req[r].left > 0
  <2>1. q \in Request /\ q.stage = "resolving" /\ TimedAlike(q, req[r])
        /\ q.left = req[r].left /\ q.wait = q.left
    <3>1. req[r].hops + 1 \in Int /\ req[r].left \in Nat
      BY <1>1 DEF Request
    <3>. QED  BY <1>1, <3>1 DEF TimedAlike, Request, Stages
  <2>. HIDE DEF q
  <2>2. InTime(q)
    BY <1>1, <1>2, <2>1, UploadAssumption DEF InTime, FetchInTime, PdfInTime, TimedAlike, Request
  <2>3. Moves(r, Stages)
    BY <1>2, <2>1, <2>2 DEF Moves, Stages
  <2>. QED  BY <1>1, <2>3, MovesKeepSlots DEF Fetch
<1>3. CASE Answer(r, "error")
  BY <1>3, AnswerMoves, MovesKeepSlots DEF Fetch, Outs
<1>4. ASSUME NEW header, Classify(r, header)
      PROVE  XInv'
  BY <1>1, <1>4, ClassifyMoves, MovesKeepSlots DEF Fetch
<1>. QED  BY <1>2, <1>3, <1>4 DEF Fetch

(* A started job takes a slot that was free.                                *)
LEMMA JobStarts ==
  ASSUME XInv, NEW job, job \notin jobs, jobs' = jobs \cup {job}, free > 0,
         free' = free - 1
  PROVE  IsFiniteSet(jobs') /\ free' \in Nat /\ free' = Slots - Cardinality(jobs')
<1>1. IsFiniteSet(jobs) /\ free \in Nat /\ free = Slots - Cardinality(jobs)
      /\ Cardinality(jobs) \in Nat
  BY FS_CardinalityType DEF XInv, Slotted
<1>2. IsFiniteSet(jobs') /\ Cardinality(jobs') = Cardinality(jobs) + 1
  BY <1>1, FS_AddElement
<1>. QED  BY <1>1, <1>2, UploadAssumption

LEMMA XInvStartParse ==
  ASSUME XInv, NEW r \in Requests, StartParse(r)
  PROVE  XInv'
<1>. DEFINE q == [req[r] EXCEPT !.stage = "parsing", !.wait = Budget]
<1>1. req[r] \in Request /\ InTime(req[r]) /\ req[r].stage = "parseWait"
  BY DEF StartParse, XInv, Times
<1>2. q \in Request /\ q.stage = "parsing" /\ TimedAlike(q, req[r])
      /\ q.left = req[r].left /\ q.wait = Budget
  BY <1>1, UploadAssumption DEF TimedAlike, Request, Stages, Timed, PdfStages
<1>3. InTime(q)
  BY <1>1, <1>2, UploadAssumption DEF InTime, FetchInTime, PdfInTime, TimedAlike, Request
<1>4. Moves(r, {"parsing"})
  BY <1>2, <1>3 DEF StartParse, Moves
<1>5. Times' /\ req'[r].stage = "parsing" /\ \A p \in Requests \ {r} : req'[p] = req[p]
  BY <1>4, MovesKeepTimes
<1>6. /\ <<r, "parse">> \notin jobs /\ <<r, "extract">> \notin jobs
      /\ jobs' = jobs \cup {<<r, "parse">>} /\ free > 0 /\ free' = free - 1
  BY <1>1 DEF StartParse, XInv, Slotted
<1>7. IsFiniteSet(jobs') /\ free' \in Nat /\ free' = Slots - Cardinality(jobs')
  BY <1>6, JobStarts
<1>8. Slotted'
  BY <1>5, <1>6, <1>7 DEF XInv, Slotted
<1>. QED  BY <1>5, <1>8 DEF XInv

LEMMA XInvStartExtract ==
  ASSUME XInv, NEW r \in Requests, StartExtract(r)
  PROVE  XInv'
<1>. DEFINE q == [req[r] EXCEPT !.stage = "extracting", !.wait = req[r].left]
<1>1. req[r] \in Request /\ InTime(req[r]) /\ req[r].stage = "extractWait"
  BY DEF StartExtract, XInv, Times
<1>2. q \in Request /\ q.stage = "extracting" /\ TimedAlike(q, req[r])
      /\ q.wait = req[r].left
  BY <1>1 DEF TimedAlike, Request, Stages, Timed, PdfStages
<1>3. InTime(q)
  BY <1>1, <1>2, UploadAssumption DEF InTime, FetchInTime, PdfInTime, TimedAlike, Request
<1>4. Moves(r, {"extracting"})
  BY <1>2, <1>3 DEF StartExtract, Moves
<1>5. Times' /\ req'[r].stage = "extracting" /\ \A p \in Requests \ {r} : req'[p] = req[p]
  BY <1>4, MovesKeepTimes
<1>6. /\ <<r, "extract">> \notin jobs
      /\ jobs' = jobs \cup {<<r, "extract">>} /\ free > 0 /\ free' = free - 1
  BY <1>1 DEF StartExtract, XInv, Slotted
<1>7. IsFiniteSet(jobs') /\ free' \in Nat /\ free' = Slots - Cardinality(jobs')
  BY <1>6, JobStarts
<1>8. Slotted'
  BY <1>5, <1>6, <1>7 DEF XInv, Slotted
<1>. QED  BY <1>5, <1>8 DEF XInv

(* A job that ends gives its slot back, whatever became of its caller.      *)
LEMMA XInvJobEnds ==
  ASSUME XInv, NEW r \in Requests, NEW kind \in {"parse", "extract"}, JobEnds(r, kind)
  PROVE  XInv'
<1>1. IsFiniteSet(jobs) /\ free \in Nat /\ free = Slots - Cardinality(jobs)
      /\ <<r, kind>> \in jobs /\ jobs' = jobs \ {<<r, kind>>} /\ free' = free + 1
  BY DEF XInv, Slotted, JobEnds
<1>2. IsFiniteSet(jobs') /\ free' \in Nat /\ free' = Slots - Cardinality(jobs')
  <2>1. IsFiniteSet(jobs') /\ Cardinality(jobs') = Cardinality(jobs) - 1
        /\ Cardinality(jobs) \in Nat
    BY <1>1, FS_RemoveElement, FS_CardinalityType
  <2>. QED  BY <1>1, <2>1, UploadAssumption
<1>3. ASSUME Moves(r, Over)
      PROVE  XInv'
  <2>1. Times' /\ req'[r].stage \in Over /\ \A p \in Requests \ {r} : req'[p] = req[p]
    BY <1>3, MovesKeepTimes
  <2>2. Slotted'
    BY <1>1, <1>2, <2>1 DEF XInv, Slotted, Over
  <2>. QED  BY <2>1, <2>2 DEF XInv
<1>4. ASSUME UNCHANGED req
      PROVE  XInv'
  BY <1>1, <1>2, <1>4 DEF XInv, Slotted, Times, InTime, FetchInTime, PdfInTime, TimedAlike
<1>5. CASE kind = "parse" /\ req[r].stage = "parsing"
  <2>. DEFINE q == [req[r] EXCEPT !.stage = "extractWait", !.wait = req[r].left]
  <2>1. req[r] \in Request /\ InTime(req[r]) /\ <<r, "extract">> \notin jobs
    BY <1>5 DEF XInv, Times, Slotted
  <2>2. CASE Set(r, q)
    <3>1. q \in Request /\ q.stage = "extractWait" /\ TimedAlike(q, req[r])
          /\ q.left = req[r].left /\ q.wait = q.left
      BY <2>1 DEF TimedAlike, Request, Stages, Timed, PdfStages
    <3>2. InTime(q)
      BY <1>5, <2>1, <3>1, UploadAssumption DEF InTime, FetchInTime, PdfInTime, TimedAlike, Request
    <3>3. Moves(r, {"extractWait"})
      BY <2>2, <3>1, <3>2 DEF Moves
    <3>4. Times' /\ req'[r].stage = "extractWait"
          /\ \A p \in Requests \ {r} : req'[p] = req[p]
      BY <3>3, MovesKeepTimes
    <3>5. Slotted'
      BY <1>1, <1>2, <2>1, <3>4 DEF XInv, Slotted
    <3>. QED  BY <3>4, <3>5 DEF XInv
  <2>3. CASE Answer(r, "error")
    BY <1>3, <2>3, AnswerMoves DEF Outs
  <2>. QED  BY <1>5, <2>2, <2>3 DEF JobEnds
<1>6. CASE kind = "extract" /\ req[r].stage = "extracting"
  <2>1. PICK out \in {"extracted", "error"} : Answer(r, out)
    BY <1>6 DEF JobEnds
  <2>. QED  BY <1>3, <2>1, AnswerMoves DEF Outs
<1>. QED  BY <1>4, <1>5, <1>6 DEF JobEnds

LEMMA XInvLeave ==
  ASSUME XInv, NEW r \in Requests, Expire(r) \/ Drop(r)
  PROVE  XInv'
<1>1. CASE Expire(r)
  BY <1>1, AnswerMoves, MovesKeepSlots DEF Expire, Outs
<1>2. CASE Drop(r)
  <2>. DEFINE q == [req[r] EXCEPT !.stage = "dropped", !.wait = 0]
  <2>1. req[r] \in Request /\ InTime(req[r])
    BY DEF XInv, Times
  <2>2. q \in Request /\ q.stage = "dropped" /\ TimedAlike(q, req[r])
    BY <2>1 DEF TimedAlike, Request, Stages, Over
  <2>3. InTime(q)
    BY <2>1, <2>2 DEF InTime, FetchInTime, PdfInTime, TimedAlike
  <2>4. Moves(r, Over)
    BY <1>2, <2>2, <2>3 DEF Drop, Moves, Over
  <2>. QED  BY <1>2, <2>4, MovesKeepSlots DEF Drop
<1>. QED  BY <1>1, <1>2

LEMMA XInvTick ==
  ASSUME XInv, Tick
  PROVE  XInv'
<1>1. ASSUME NEW r \in Requests
      PROVE  /\ req'[r] \in Request /\ InTime(req'[r])
             /\ req'[r].stage = req[r].stage
  <2>1. req[r] \in Request /\ InTime(req[r])
    BY DEF XInv, Times
  <2>2. req'[r] = Older(req[r])
    BY DEF Tick
  <2>3. /\ req[r].left \in Nat /\ req[r].wait \in Nat /\ req[r].slow \in Nat
        /\ req[r].fetched \in Nat /\ req[r].pdf \in Nat
        /\ Minus(req[r].left) \in Nat /\ Minus(req[r].wait) \in Nat
        /\ req[r].slow + 1 \in Nat /\ req[r].fetched + 1 \in Nat /\ req[r].pdf + 1 \in Nat
        /\ req[r].wait > 0 => Minus(req[r].wait) = req[r].wait - 1
    BY <2>1 DEF Request, Minus
  <2>4. CASE req[r].stage = "resolving"
    <3>. DEFINE q == [req[r] EXCEPT !.left = Minus(@), !.slow = @ + 1, !.fetched = @ + 1]
    <3>1. req'[r] = q /\ req[r].slow < Lookup
      <4>1. Older(req[r]) = q
        BY <2>4 DEF Older, PdfStages
      <4>. QED  BY <2>2, <2>4, <4>1 DEF Tick
    <3>2. /\ q \in Request /\ q.stage = "resolving" /\ q.pdf = req[r].pdf
          /\ q.slow = req[r].slow + 1 /\ q.fetched = req[r].fetched + 1
          /\ q.left = Minus(req[r].left) /\ q.wait = req[r].wait
      BY <2>1, <2>3, <2>4 DEF Request
    <3>. HIDE DEF q
    <3>3. InTime(q)
      BY <2>1, <2>3, <2>4, <3>1, <3>2, UploadAssumption
      DEF InTime, FetchInTime, PdfInTime, Minus
    <3>. QED  BY <2>4, <3>1, <3>2, <3>3
  <2>5. CASE req[r].stage = "fetching"
    <3>. DEFINE q == [req[r] EXCEPT !.left = Minus(@), !.wait = Minus(@), !.fetched = @ + 1]
    <3>1. req'[r] = q /\ req[r].wait > 0
      <4>1. Older(req[r]) = q
        BY <2>5 DEF Older, PdfStages
      <4>. QED  BY <2>2, <2>5, <4>1 DEF Tick, Timed
    <3>2. /\ q \in Request /\ q.stage = "fetching" /\ q.pdf = req[r].pdf
          /\ q.slow = req[r].slow /\ q.fetched = req[r].fetched + 1
          /\ q.left = Minus(req[r].left) /\ q.wait = req[r].wait - 1
      BY <2>1, <2>3, <2>5, <3>1 DEF Request
    <3>. HIDE DEF q
    <3>3. InTime(q)
      BY <2>1, <2>3, <2>5, <3>1, <3>2, UploadAssumption
      DEF InTime, FetchInTime, PdfInTime, Minus
    <3>. QED  BY <2>5, <3>1, <3>2, <3>3
  <2>6. CASE req[r].stage \in PdfStages
    <3>. DEFINE q == [req[r] EXCEPT !.left = Minus(@), !.wait = Minus(@), !.pdf = @ + 1]
    <3>1. req'[r] = q /\ req[r].wait > 0
      <4>1. Older(req[r]) = q
        BY <2>6 DEF Older, PdfStages
      <4>. QED  BY <2>2, <2>6, <4>1 DEF Tick, Timed
    <3>2. /\ q \in Request /\ q.stage = req[r].stage /\ q.pdf = req[r].pdf + 1
          /\ q.slow = req[r].slow /\ q.fetched = req[r].fetched
          /\ q.left = Minus(req[r].left) /\ q.wait = req[r].wait - 1
      BY <2>1, <2>3, <2>6, <3>1 DEF Request
    <3>. HIDE DEF q
    <3>3. InTime(q)
      BY <2>1, <2>3, <2>6, <3>1, <3>2, UploadAssumption
      DEF InTime, FetchInTime, PdfInTime, Minus, PdfStages
    <3>. QED  BY <3>1, <3>2, <3>3
  <2>7. CASE req[r].stage \notin Timed \cup {"resolving"}
    BY <2>1, <2>2, <2>7 DEF Older, Timed, PdfStages
  <2>. QED  BY <2>4, <2>5, <2>6, <2>7 DEF Timed
<1>2. Times'
  <2>1. DOMAIN req' = Requests /\ req' = [r \in Requests |-> req'[r]]
    BY DEF Tick
  <2>. QED  BY <1>1, <2>1 DEF Times, InTime, FetchInTime, PdfInTime, TimedAlike
<1>3. Slotted'
  BY <1>1 DEF Tick, XInv, Slotted
<1>. QED  BY <1>2, <1>3 DEF XInv

LEMMA XInvAlways == PdfSpec => []XInv
<1>1. ASSUME XInv, [PdfNext]_pdfVars
      PROVE  XInv'
  <2>1. CASE UNCHANGED pdfVars
    BY <1>1, <2>1 DEF pdfVars, XInv, Times, InTime, FetchInTime, PdfInTime, TimedAlike, Slotted
  <2>. QED
    BY <1>1, <2>1, XInvArrive, XInvRead, XInvResolve, XInvFetch, XInvStartParse, XInvStartExtract,
       XInvJobEnds, XInvLeave, XInvTick DEF PdfNext, Serve
<1>. QED  BY <1>1, XInvInit, PTL DEF PdfSpec

-----------------------------------------------------------------------------

(* However many callers time out or go away, at most Slots PDF jobs run and *)
(* no slot is lost.                                                         *)
THEOREM JobsBoundedAlways == PdfSpec => []JobsBounded
<1>1. XInv => JobsBounded
  <2>1. ASSUME XInv
        PROVE  Cardinality(jobs) \in Nat /\ free \in Nat /\ free = Slots - Cardinality(jobs)
    BY <2>1, FS_CardinalityType DEF XInv, Slotted
  <2>. QED  BY <2>1, UploadAssumption DEF JobsBounded
<1>. QED  BY <1>1, XInvAlways, PTL

(* A fetch ends within one deadline and one lookup; a PDF goes beyond its   *)
(* one budget only in a parse that waited for its slot, and waits for       *)
(* nothing afterwards: for any budget, resolver, slots and redirects.       *)
THEOREM AnswersInTimeAlways == PdfSpec => []AnswersInTime
<1>1. XInv => AnswersInTime
  <2>1. ASSUME XInv, NEW r \in Requests
        PROVE  /\ req[r].fetched <= Budget + Lookup
               /\ req[r].pdf <= 2 * Budget
               /\ req[r].stage \in PdfStages \ {"parsing"} =>
                     req[r].pdf <= Budget \/ req[r].wait = 0
    <3>1. req[r] \in Request /\ FetchInTime(req[r]) /\ PdfInTime(req[r])
      BY <2>1 DEF XInv, Times, InTime
    <3>2. req[r].pdf \in Nat /\ req[r].wait \in Nat
      BY <3>1 DEF Request
    <3>. QED  BY <3>1, <3>2, UploadAssumption DEF FetchInTime, PdfInTime, PdfStages
  <2>. QED  BY <2>1 DEF AnswersInTime
<1>. QED  BY <1>1, XInvAlways, PTL

-----------------------------------------------------------------------------
(***************************************************************************)
(* KnowledgeGraph                                                          *)
(*                                                                         *)
(* The rows are those of the texts that are stored.  What a reader has     *)
(* found so far is compared with the rows that were there since it began:  *)
(* each reader has an invariant of its own, with a clause for each stage   *)
(* that says what it has read and what it will read next.                  *)
(***************************************************************************)

-----------------------------------------------------------------------------
(* The lists of a frontmatter *)

(* A list of the key is open after line i.                                  *)
OpenAfter(front, key, i) ==
    \E j \in 1 .. i : /\ front[j].kind = "key" /\ front[j].key = key /\ ~front[j].inline
                      /\ \A k \in j + 1 .. i : front[k].kind = "bullet"

(* Line i gives the key's list the name n.                                  *)
Adds(front, key, i, n) ==
    /\ n \in front[i].names
    /\ \/ front[i].kind = "key" /\ front[i].key = key /\ front[i].inline
       \/ front[i].kind = "bullet" /\ OpenAfter(front, key, i - 1)

ListState == [open : BOOLEAN, out : SUBSET Nat]

(* The names of a line go to the list.                                      *)
Takes(key, acc, line) ==
    \/ line.kind = "bullet" /\ acc.open
    \/ line.kind = "key" /\ line.key = key /\ line.inline

(* One line: the list's state stays one, a line opens and closes the list   *)
(* and adds names as it should.                                             *)
LEMMA FrontLineSteps ==
  ASSUME NEW key, NEW acc \in ListState, NEW line \in FrontLines
  PROVE  LET after == FrontLine(key, acc, line)
         IN  /\ after \in ListState
             /\ after.open <=> \/ line.kind = "bullet" /\ acc.open
                               \/ line.kind = "key" /\ line.key = key /\ ~line.inline
             /\ Takes(key, acc, line) => /\ after.out = acc.out \cup line.names
                                         /\ line.kind # "text"
             /\ ~Takes(key, acc, line) => after.out = acc.out
<1>1. acc.open \in BOOLEAN /\ acc.out \in SUBSET Nat
  BY DEF ListState
<1>2. CASE line \in [kind : {"bullet"}, names : SUBSET Nat]
  <2>1. line.kind = "bullet" /\ line.names \in SUBSET Nat
    BY <1>2
  <2>2. FrontLine(key, acc, line) =
          IF acc.open THEN [open |-> TRUE, out |-> acc.out \cup line.names] ELSE acc
    BY <2>1 DEF FrontLine
  <2>. QED  BY <1>1, <2>1, <2>2 DEF ListState, Takes
<1>3. CASE line \in [kind : {"key"}, key : STRING, inline : BOOLEAN, names : SUBSET Nat]
  <2>1. line.kind = "key" /\ line.names \in SUBSET Nat /\ line.inline \in BOOLEAN
    BY <1>3
  <2>2. CASE line.key = key
    <3>1. FrontLine(key, acc, line) =
            IF line.inline THEN [open |-> FALSE, out |-> acc.out \cup line.names]
            ELSE [open |-> TRUE, out |-> acc.out]
      BY <2>1, <2>2 DEF FrontLine
    <3>2. CASE line.inline
      BY <1>1, <2>1, <2>2, <3>1, <3>2 DEF ListState, Takes
    <3>3. CASE ~line.inline
      BY <1>1, <2>1, <2>2, <3>1, <3>3 DEF ListState, Takes
    <3>. QED  BY <3>2, <3>3
  <2>3. CASE line.key # key
    <3>1. FrontLine(key, acc, line) = [open |-> FALSE, out |-> acc.out]
      BY <2>1, <2>3 DEF FrontLine
    <3>. QED  BY <1>1, <2>1, <2>3, <3>1 DEF ListState, Takes
  <2>. QED  BY <2>2, <2>3
<1>4. CASE line \in [kind : {"text"}]
  <2>1. line.kind = "text"
    BY <1>4
  <2>2. FrontLine(key, acc, line) = [open |-> FALSE, out |-> acc.out]
    BY <2>1 DEF FrontLine
  <2>. QED  BY <1>1, <2>1, <2>2 DEF ListState, Takes
<1>. QED  BY <1>2, <1>3, <1>4 DEF FrontLines

(* The loop of frontmatter_list, as a sequence of states.                   *)
LEMMA FrontListLoop ==
  ASSUME NEW front \in Seq(FrontLines), NEW key
  PROVE  \E read \in [0 .. Len(front) -> ListState] :
            /\ read[0] = [open |-> FALSE, out |-> {}]
            /\ \A i \in 1 .. Len(front) : read[i] = FrontLine(key, read[i - 1], front[i])
            /\ FrontList(front, key) = read[Len(front)].out
<1>. DEFINE b == Len(front)
            before == [open |-> FALSE, out |-> {}]
            R(f) == f = [i \in 0 .. b |-> IF i = 0 THEN before
                                          ELSE FrontLine(key, f[i - 1], front[i])]
            read == CHOOSE f : R(f)
<1>1. b \in Nat /\ before \in ListState
  BY DEF ListState
<1>2. PICK g : g = [p \in (1 .. b) \X ListState |-> FrontLine(key, p[2], front[p[1]])]
  OBVIOUS
<1>3. \A i \in 1 .. b, x \in ListState :
         /\ FrontLine(key, x, front[i]) \in ListState
         /\ g[<<i, x>>] = FrontLine(key, x, front[i])
  <2>1. \A i \in 1 .. b : front[i] \in FrontLines
    OBVIOUS
  <2>2. \A i \in 1 .. b, x \in ListState : FrontLine(key, x, front[i]) \in ListState
    BY <2>1, FrontLineSteps
  <2>. QED  BY <1>2, <2>2
<1>4. PICK f \in [0 .. b -> ListState] : Iterates(f, b, before, g)
  <2>1. g \in [(1 .. b) \X ListState -> ListState]
    BY <1>2, <1>3
  <2>. HIDE DEF before, b
  <2>. QED  BY <1>1, <2>1, Recursion
<1>5. R(f)
  <2>1. ASSUME NEW i \in 0 .. b
        PROVE  f[i] = IF i = 0 THEN before ELSE FrontLine(key, f[i - 1], front[i])
    <3>1. CASE i # 0
      <4>1. i \in 1 .. b /\ f[i - 1] \in ListState
        BY <1>1, <3>1
      <4>. QED  BY <1>3, <1>4, <3>1, <4>1 DEF Iterates
    <3>. QED  BY <1>4, <3>1 DEF Iterates
  <2>. HIDE DEF before
  <2>. QED  BY <2>1
<1>6. R(read)
  BY <1>5
<1>7. FrontList(front, key) = read[b].out
  BY DEF FrontList
<1>. HIDE DEF read, before
<1>8. read[0] = before /\ \A i \in 1 .. b : read[i] = FrontLine(key, read[i - 1], front[i])
  BY <1>1, <1>6
<1>9. DOMAIN read = 0 .. b /\ read = [i \in 0 .. b |-> read[i]]
  BY <1>6
<1>10. \A i \in 0 .. b : read[i] \in ListState
  <2>. DEFINE T == {i \in 0 .. b : read[i] \in ListState}
  <2>1. 0 \in T
    BY <1>1, <1>8
  <2>2. \A i \in 0 .. b - 1 : i \in T => i + 1 \in T
    <3>1. ASSUME NEW i \in 0 .. b - 1, read[i] \in ListState
          PROVE  i + 1 \in 1 .. b /\ read[i + 1] \in ListState
      <4>1. i + 1 \in 1 .. b /\ i + 1 - 1 = i
        BY <1>1
      <4>2. read[i + 1] = FrontLine(key, read[i], front[i + 1])
        BY <1>8, <4>1
      <4>. QED  BY <1>3, <3>1, <4>1, <4>2
    <3>. QED  BY <3>1
  <2>. HIDE DEF T
  <2>3. \A i \in 0 .. b : i \in T
    BY <1>1, <2>1, <2>2, BoundedInduction
  <2>. QED  BY <2>3 DEF T
<1>11. read \in [0 .. b -> ListState]
  BY <1>9, <1>10
<1>. QED  BY <1>7, <1>8, <1>11 DEF before

(* A list is open after a line that opens it, and after a bullet if it was  *)
(* before.                                                                  *)
LEMMA OpenAfterNext ==
  ASSUME NEW front \in Seq(FrontLines), NEW key, NEW i \in Nat
  PROVE  OpenAfter(front, key, i + 1) <=>
           \/ /\ front[i + 1].kind = "key" /\ front[i + 1].key = key
              /\ ~front[i + 1].inline
           \/ front[i + 1].kind = "bullet" /\ OpenAfter(front, key, i)
<1>. DEFINE Opens(j) == front[j].kind = "key" /\ front[j].key = key /\ ~front[j].inline
            Bullets(j, k) == \A l \in j + 1 .. k : front[l].kind = "bullet"
<1>1. ASSUME NEW j \in 1 .. i + 1, Opens(j), Bullets(j, i + 1)
      PROVE  Opens(i + 1) \/ (front[i + 1].kind = "bullet" /\ OpenAfter(front, key, i))
  <2>1. CASE j # i + 1
    <3>1. j \in 1 .. i /\ i + 1 \in j + 1 .. i + 1 /\ \A l \in j + 1 .. i : l \in j + 1 .. i + 1
      BY <2>1
    <3>2. front[i + 1].kind = "bullet" /\ Bullets(j, i)
      BY <1>1, <3>1
    <3>. QED  BY <1>1, <3>1, <3>2 DEF OpenAfter
  <2>. QED  BY <1>1, <2>1
<1>2. ASSUME Opens(i + 1)
      PROVE  OpenAfter(front, key, i + 1)
  <2>1. i + 1 \in 1 .. i + 1 /\ Bullets(i + 1, i + 1)
    OBVIOUS
  <2>. QED  BY <1>2, <2>1 DEF OpenAfter
<1>3. ASSUME front[i + 1].kind = "bullet", OpenAfter(front, key, i)
      PROVE  OpenAfter(front, key, i + 1)
  <2>1. PICK j \in 1 .. i : Opens(j) /\ Bullets(j, i)
    BY <1>3 DEF OpenAfter
  <2>2. j \in 1 .. i + 1 /\ \A l \in j + 1 .. i + 1 : l \in j + 1 .. i \/ l = i + 1
    OBVIOUS
  <2>3. Bullets(j, i + 1)
    BY <1>3, <2>1, <2>2
  <2>. QED  BY <2>1, <2>2, <2>3 DEF OpenAfter
<1>4. OpenAfter(front, key, i + 1) => \E j \in 1 .. i + 1 : Opens(j) /\ Bullets(j, i + 1)
  BY DEF OpenAfter
<1>. HIDE DEF Bullets
<1>. QED  BY <1>1, <1>2, <1>3, <1>4

(* frontmatter_list collects the items of its key: its loop holds a list    *)
(* open exactly while a bullet would belong to the key.                     *)
LEMMA FrontListIsInList ==
  ASSUME NEW front \in Seq(FrontLines), NEW key
  PROVE  /\ FrontList(front, key) \in SUBSET Nat
         /\ \A n : n \in FrontList(front, key) <=> InList(front, key, n)
         /\ (\A i \in 1 .. Len(front) :
               front[i].kind # "text" => IsFiniteSet(front[i].names))
              => IsFiniteSet(FrontList(front, key))
<1>. DEFINE b == Len(front)
            Finite == \A i \in 1 .. b :
                        front[i].kind # "text" => IsFiniteSet(front[i].names)
<1>1. PICK read \in [0 .. b -> ListState] :
            /\ read[0] = [open |-> FALSE, out |-> {}]
            /\ \A i \in 1 .. b : read[i] = FrontLine(key, read[i - 1], front[i])
            /\ FrontList(front, key) = read[b].out
  BY FrontListLoop
<1>. DEFINE Good(i) == /\ read[i].open <=> OpenAfter(front, key, i)
                       /\ \A n : n \in read[i].out <=> \E j \in 1 .. i : Adds(front, key, j, n)
                       /\ Finite => IsFiniteSet(read[i].out)
            T == {i \in 0 .. b : Good(i)}
<1>2. b \in Nat /\ \A i \in 1 .. b : front[i] \in FrontLines
  OBVIOUS
<1>3. 0 \in T
  <2>1. read[0].open = FALSE /\ read[0].out = {}
    BY <1>1
  <2>2. 1 .. 0 = {} /\ ~OpenAfter(front, key, 0)
    BY DEF OpenAfter
  <2>3. IsFiniteSet(read[0].out)
    BY <2>1, FS_EmptySet
  <2>. QED  BY <1>2, <2>1, <2>2, <2>3
<1>4. ASSUME NEW i \in 0 .. b - 1, Good(i)
      PROVE  Good(i + 1)
  <2>1. i + 1 \in 1 .. b /\ i + 1 - 1 = i /\ i \in Nat /\ i \in 0 .. b
    BY <1>2
  <2>2. PICK line \in FrontLines : line = front[i + 1]
    BY <1>2, <2>1
  <2>3. PICK acc \in ListState : acc = read[i]
    BY <1>1, <2>1
  <2>4. PICK after : after = FrontLine(key, acc, line)
    OBVIOUS
  <2>5. read[i + 1] = after
    BY <1>1, <2>1, <2>2, <2>3, <2>4
  <2>6. /\ after.open <=> \/ line.kind = "bullet" /\ acc.open
                          \/ line.kind = "key" /\ line.key = key /\ ~line.inline
    BY <2>4, FrontLineSteps
  <2>7. /\ Takes(key, acc, line) => /\ after.out = acc.out \cup line.names
                                    /\ line.kind # "text"
        /\ ~Takes(key, acc, line) => after.out = acc.out
    BY <2>4, FrontLineSteps
  <2>8. after.open <=> OpenAfter(front, key, i + 1)
    BY <1>4, <2>1, <2>2, <2>3, <2>6, OpenAfterNext
  <2>9. \A n : Adds(front, key, i + 1, n) <=> n \in line.names /\ Takes(key, acc, line)
    BY <1>4, <2>1, <2>2, <2>3 DEF Adds, Takes
  <2>10. \A j : j \in 1 .. i + 1 <=> j \in 1 .. i \/ j = i + 1
    BY <2>1
  <2>11. \A n : n \in acc.out <=> \E j \in 1 .. i : Adds(front, key, j, n)
    BY <1>4, <2>3
  <2>12. \A n : n \in after.out <=> n \in acc.out \/ Adds(front, key, i + 1, n)
    BY <2>7, <2>9
  <2>13. \A n : n \in after.out <=> \E j \in 1 .. i + 1 : Adds(front, key, j, n)
    BY <2>10, <2>11, <2>12
  <2>14. ASSUME Finite
         PROVE  IsFiniteSet(after.out)
    <3>1. IsFiniteSet(acc.out) /\ (line.kind # "text" => IsFiniteSet(line.names))
      BY <1>4, <2>1, <2>2, <2>3, <2>14
    <3>2. ASSUME Takes(key, acc, line) PROVE IsFiniteSet(after.out)
      <4>1. IsFiniteSet(acc.out) /\ IsFiniteSet(line.names)
        BY <2>7, <3>1, <3>2
      <4>2. IsFiniteSet(acc.out \cup line.names)
        BY <4>1, FS_Union
      <4>. QED  BY <2>7, <3>2, <4>2
    <3>. QED  BY <2>7, <3>1, <3>2
  <2>. QED  BY <2>5, <2>8, <2>13, <2>14
<1>5. Good(b)
  <2>1. \A i \in 0 .. b - 1 : i \in T => i + 1 \in T
    BY <1>2, <1>4
  <2>. HIDE DEF T, b
  <2>2. \A i \in 0 .. b : i \in T
    BY <1>2, <1>3, <2>1, BoundedInduction
  <2>. QED  BY <1>2, <2>2 DEF T
<1>6. read[b] \in ListState
  BY <1>1, <1>2
<1>7. FrontList(front, key) \in SUBSET Nat
  BY <1>1, <1>6 DEF ListState
<1>8. \A n : InList(front, key, n) <=> \E j \in 1 .. b : Adds(front, key, j, n)
  BY DEF InList, Adds, OpenAfter
<1>9. \A n : n \in FrontList(front, key) <=> InList(front, key, n)
  BY <1>1, <1>5, <1>8
<1>. QED  BY <1>1, <1>5, <1>7, <1>9

-----------------------------------------------------------------------------
(* The hierarchy of the sections *)

Section == [name : Nat, level : Nat]
Relation == {PartOf} \cup {l[3] : l \in Links}
Edge == Nat \X Nat \X Relation

(* A section has a name and a level.                                         *)
LEMMA LevelsAreNumbers ==
  ASSUME NEW s \in Seq(Section), NEW i \in 1 .. Len(s)
  PROVE  s[i] \in Section /\ s[i].name \in Nat /\ s[i].level \in Nat
<1>1. s[i] \in Section
  OBVIOUS
<1>. QED  BY <1>1 DEF Section

(* The nearest of the first i sections that is above a level, or 0.         *)
Nearest(s, i, level) ==
    LET above == {j \in 1 .. i : s[j].level < level}
    IN  IF above = {} THEN 0 ELSE CHOOSE j \in above : \A k \in above : k <= j

(* The nearest section above a level is the last of those above it.          *)
LEMMA NearestProperties ==
  ASSUME NEW s \in Seq(Section), NEW i \in 0 .. Len(s), NEW level \in Nat
  PROVE  /\ Nearest(s, i, level) \in 0 .. i
         /\ Nearest(s, i, level) # 0 =>
              /\ s[Nearest(s, i, level)].level < level
              /\ \A j \in 1 .. i : s[j].level < level => j <= Nearest(s, i, level)
         /\ Nearest(s, i, level) = 0 => \A j \in 1 .. i : ~ (s[j].level < level)
<1>. DEFINE above == {j \in 1 .. i : s[j].level < level}
<1>1. i \in Nat /\ above \in SUBSET Nat /\ \A j \in above : j <= i /\ j # 0
  OBVIOUS
<1>2. CASE above = {}
  BY <1>1, <1>2 DEF Nearest
<1>3. CASE above # {}
  <2>. HIDE DEF above
  <2>1. \E j \in above : \A k \in above : k <= j
    BY <1>1, <1>3, GreatestNatural
  <2>2. Nearest(s, i, level) \in above /\ \A k \in above : k <= Nearest(s, i, level)
    BY <1>3, <2>1 DEF Nearest, above
  <2>. QED  BY <1>1, <2>2 DEF above
<1>. QED  BY <1>2, <1>3

(* It is told by what is above the level and what is not.                   *)
LEMMA NearestIs ==
  ASSUME NEW s \in Seq(Section), NEW i \in 0 .. Len(s), NEW level \in Nat, NEW m \in 0 .. i,
         m # 0 => s[m].level < level,
         \A j \in m + 1 .. i : ~ (s[j].level < level)
  PROVE  Nearest(s, i, level) = m
<1>1. /\ Nearest(s, i, level) \in 0 .. i
      /\ Nearest(s, i, level) # 0 =>
           /\ s[Nearest(s, i, level)].level < level
           /\ \A j \in 1 .. i : s[j].level < level => j <= Nearest(s, i, level)
      /\ Nearest(s, i, level) = 0 => \A j \in 1 .. i : ~ (s[j].level < level)
  BY NearestProperties
<1>2. PICK x : x = Nearest(s, i, level)
  OBVIOUS
<1>3. x \in 0 .. i /\ m \in Int /\ i \in Int
  BY <1>1, <1>2
<1>4. CASE x = 0
  BY <1>1, <1>2, <1>3, <1>4
<1>5. CASE x # 0
  <2>1. x \notin m + 1 .. i
    BY <1>1, <1>2, <1>5
  <2>2. m # 0 => m <= x
    BY <1>1, <1>2, <1>3, <1>5
  <2>. QED  BY <1>2, <1>3, <1>5, <2>1, <2>2
<1>. QED  BY <1>4, <1>5

(* A section more.                                                          *)
LEMMA NearestNext ==
  ASSUME NEW s \in Seq(Section), NEW i \in 0 .. Len(s) - 1, NEW level \in Nat
  PROVE  Nearest(s, i + 1, level) =
           IF s[i + 1].level < level THEN i + 1 ELSE Nearest(s, i, level)
<1>1. /\ i + 1 \in 0 .. Len(s) /\ i \in 0 .. Len(s) /\ i \in Nat
      /\ Len(s) \in Nat
  OBVIOUS
<1>2. CASE s[i + 1].level < level
  <2>1. i + 1 \in 0 .. i + 1 /\ \A j \in i + 1 + 1 .. i + 1 : ~ (s[j].level < level)
    BY <1>1
  <2>2. Nearest(s, i + 1, level) = i + 1
    BY <1>1, <1>2, <2>1, NearestIs
  <2>. QED  BY <1>2, <2>2
<1>3. CASE ~ (s[i + 1].level < level)
  <2>1. PICK m : m = Nearest(s, i, level)
    OBVIOUS
  <2>2. /\ m \in 0 .. i
        /\ m # 0 => /\ s[m].level < level
                    /\ \A j \in 1 .. i : s[j].level < level => j <= m
        /\ m = 0 => \A j \in 1 .. i : ~ (s[j].level < level)
    BY <1>1, <2>1, NearestProperties
  <2>3. \A j \in m + 1 .. i + 1 : ~ (s[j].level < level)
    BY <1>1, <1>3, <2>2
  <2>4. m \in 0 .. i + 1
    BY <1>1, <2>2
  <2>5. Nearest(s, i + 1, level) = m
    BY <1>1, <2>2, <2>3, <2>4, NearestIs
  <2>. QED  BY <1>3, <2>1, <2>5
<1>. QED  BY <1>2, <1>3

NestState == [stack : Seq(Section), edges : SUBSET Edge]

(* What link_section_hierarchy does with one section: m is how much of the  *)
(* stack is left, and its top, if there is one, becomes the parent.         *)
LEMMA NestSteps ==
  ASSUME NEW acc \in NestState, NEW section \in Section,
         NEW m, m = Nearest(acc.stack, Len(acc.stack), section.level)
  PROVE  LET after == Nest(acc, section)
         IN  /\ after \in NestState
             /\ Len(after.stack) = m + 1 /\ after.stack[m + 1] = section
             /\ \A k \in 1 .. m : after.stack[k] = acc.stack[k]
             /\ m = 0 => after.edges = acc.edges
             /\ m # 0 => after.edges =
                  {e \in acc.edges : ~(e[1] = section.name /\ e[3] = PartOf)}
                    \cup {<<section.name, acc.stack[m].name, PartOf>>}
             /\ IsFiniteSet(acc.edges) => IsFiniteSet(after.edges)
<1>1. PICK stack \in Seq(Section), edges \in SUBSET Edge : stack = acc.stack /\ edges = acc.edges
  BY DEF NestState
<1>2. section.name \in Nat /\ section.level \in Nat /\ Len(stack) \in Nat
  BY DEF Section
<1>3. /\ m \in 0 .. Len(stack)
      /\ \A i \in 1 .. m : stack[i] \in Section
  <2>1. Len(stack) \in 0 .. Len(stack)
    BY <1>2
  <2>2. m \in 0 .. Len(stack)
    BY <1>1, <1>2, <2>1, NearestProperties
  <2>. QED  BY <1>2, <2>2
<1>4. OpenFor(stack, section) = SubSeq(stack, 1, m)
  BY <1>1 DEF OpenFor, PoppedTo, Nearest
<1>5. PICK open : open = SubSeq(stack, 1, m)
  OBVIOUS
<1>6. /\ open \in Seq(Section) /\ Len(open) = m
      /\ \A k \in 1 .. m : open[k] = stack[k]
  <2>1. 1 \in Int /\ m \in Int /\ m >= 0
    BY <1>2, <1>3
  <2>2. /\ SubSeq(stack, 1, m) \in Seq(Section)
        /\ Len(SubSeq(stack, 1, m)) = IF 1 <= m THEN m - 1 + 1 ELSE 0
        /\ \A i \in 1 .. m - 1 + 1 : SubSeq(stack, 1, m)[i] = stack[1 + i - 1]
    BY <1>3, <2>1, SubSeqProperties
  <2>. QED  BY <1>5, <2>1, <2>2
<1>7. PICK new : new = Append(open, section)
  OBVIOUS
<1>8. /\ new \in Seq(Section) /\ Len(new) = m + 1 /\ new[m + 1] = section
      /\ \A k \in 1 .. m : new[k] = stack[k]
  BY <1>6, <1>7
<1>9. PICK linked : linked = {e \in edges : ~(e[1] = section.name /\ e[3] = PartOf)}
                               \cup {<<section.name, stack[m].name, PartOf>>}
  OBVIOUS
<1>10. ASSUME m # 0
       PROVE  /\ linked \in SUBSET Edge /\ open # <<>> /\ Last(open) = stack[m]
              /\ IsFiniteSet(edges) => IsFiniteSet(linked)
  <2>1. stack[m].name \in Nat /\ m \in 1 .. m /\ Len(open) # 0
    BY <1>2, <1>3, <1>6, <1>10 DEF Section
  <2>2. Last(open) = stack[m]
    BY <1>6, <2>1 DEF Last
  <2>3. <<section.name, stack[m].name, PartOf>> \in Edge
    <3>1. PartOf \in Relation
      BY DEF Relation
    <3>. QED  BY <1>2, <2>1, <3>1 DEF Edge
  <2>4. IsFiniteSet(edges) => IsFiniteSet(linked)
    <3>1. IsFiniteSet(edges) =>
            IsFiniteSet({e \in edges : ~(e[1] = section.name /\ e[3] = PartOf)})
      BY FS_Subset
    <3>. QED  BY <1>9, <3>1, FS_AddElement
  <2>5. open # <<>>
    BY <1>6, <2>1
  <2>. QED  BY <1>9, <2>2, <2>3, <2>4, <2>5
<1>11. m = 0 => open = <<>>
  BY <1>6
<1>12. Nest(acc, section) = [stack |-> new, edges |-> IF open = <<>> THEN edges
          ELSE {e \in edges : ~(e[1] = section.name /\ e[3] = PartOf)}
                          \cup {<<section.name, Last(open).name, PartOf>>}]
  BY <1>1, <1>4, <1>5, <1>7 DEF Nest
<1>13. CASE m = 0
  <2>1. Nest(acc, section) = [stack |-> new, edges |-> edges]
    BY <1>11, <1>12, <1>13
  <2>. QED  BY <1>1, <1>8, <1>13, <2>1 DEF NestState
<1>14. CASE m # 0
  <2>1. Nest(acc, section) = [stack |-> new, edges |-> linked]
    BY <1>9, <1>10, <1>12, <1>14
  <2>. QED  BY <1>1, <1>8, <1>9, <1>10, <1>14, <2>1 DEF NestState
<1>. QED  BY <1>13, <1>14

(* The loop of link_section_hierarchy, as a sequence of states.             *)
LEMMA NestedLoop ==
  ASSUME NEW s \in Seq(Section), NEW edges \in SUBSET Edge
  PROVE  \E nest \in [0 .. Len(s) -> NestState] :
            /\ nest[0] = [stack |-> <<>>, edges |-> edges]
            /\ \A i \in 1 .. Len(s) : nest[i] = Nest(nest[i - 1], s[i])
            /\ Nested(s, edges) = nest[Len(s)].edges
<1>. DEFINE b == Len(s)
            before == [stack |-> <<>>, edges |-> edges]
            R(f) == f = [i \in 0 .. b |-> IF i = 0 THEN before
                                          ELSE Nest(f[i - 1], s[i])]
            nest == CHOOSE f : R(f)
<1>1. b \in Nat /\ before \in NestState
  BY DEF NestState
<1>2. PICK g : g = [p \in (1 .. b) \X NestState |-> Nest(p[2], s[p[1]])]
  OBVIOUS
<1>3. \A i \in 1 .. b, x \in NestState :
         /\ Nest(x, s[i]) \in NestState
         /\ g[<<i, x>>] = Nest(x, s[i])
  <2>1. \A i \in 1 .. b : s[i] \in Section
    OBVIOUS
  <2>2. \A i \in 1 .. b, x \in NestState : Nest(x, s[i]) \in NestState
    BY <2>1, NestSteps
  <2>. QED  BY <1>2, <2>2
<1>4. PICK f \in [0 .. b -> NestState] : Iterates(f, b, before, g)
  <2>1. g \in [(1 .. b) \X NestState -> NestState]
    BY <1>2, <1>3
  <2>. HIDE DEF before, b
  <2>. QED  BY <1>1, <2>1, Recursion
<1>5. R(f)
  <2>1. ASSUME NEW i \in 0 .. b
        PROVE  f[i] = IF i = 0 THEN before ELSE Nest(f[i - 1], s[i])
    <3>1. CASE i # 0
      <4>1. i \in 1 .. b /\ f[i - 1] \in NestState
        BY <1>1, <3>1
      <4>. QED  BY <1>3, <1>4, <3>1, <4>1 DEF Iterates
    <3>. QED  BY <1>4, <3>1 DEF Iterates
  <2>. HIDE DEF before
  <2>. QED  BY <2>1
<1>6. R(nest)
  BY <1>5
<1>7. Nested(s, edges) = nest[b].edges
  BY DEF Nested
<1>. HIDE DEF nest, before
<1>8. nest[0] = before /\ \A i \in 1 .. b : nest[i] = Nest(nest[i - 1], s[i])
  BY <1>1, <1>6
<1>9. nest = [i \in 0 .. b |-> nest[i]]
  BY <1>6
<1>10. \A i \in 0 .. b : nest[i] \in NestState
  <2>. DEFINE T == {i \in 0 .. b : nest[i] \in NestState}
  <2>1. 0 \in T
    BY <1>1, <1>8
  <2>2. \A i \in 0 .. b - 1 : i \in T => i + 1 \in T
    <3>1. ASSUME NEW i \in 0 .. b - 1, nest[i] \in NestState
          PROVE  i + 1 \in 0 .. b /\ nest[i + 1] \in NestState
      <4>1. i + 1 \in 1 .. b /\ i + 1 \in 0 .. b /\ i + 1 - 1 = i
        BY <1>1
      <4>2. nest[i + 1] = Nest(nest[i], s[i + 1])
        BY <1>8, <4>1
      <4>3. Nest(nest[i], s[i + 1]) \in NestState
        BY <1>3, <3>1, <4>1
      <4>. QED  BY <4>1, <4>2, <4>3
    <3>. QED  BY <3>1
  <2>. HIDE DEF T
  <2>3. \A i \in 0 .. b : i \in T
    BY <1>1, <2>1, <2>2, BoundedInduction
  <2>. QED  BY <2>3 DEF T
<1>11. nest \in [0 .. b -> NestState]
  BY <1>9, <1>10
<1>. QED  BY <1>7, <1>8, <1>11 DEF before

(* Section j is a child of one above it, and the last of its name so far.   *)
ChildAt(s, j, n) == s[j].name = n /\ Nearest(s, j - 1, s[j].level) # 0

(* What a name is part of, along a set of edges.                            *)
WholesOf(edges, n) == {e[2] : e \in {x \in edges : x[1] = n /\ x[3] = PartOf}}

(* The stack stands for the sections read so far: whatever level comes      *)
(* next, both have the same nearest section above it.                       *)
StackStands(stack, s, i) ==
    \A level \in Nat :
        LET x == Nearest(stack, Len(stack), level)
            y == Nearest(s, i, level)
        IN  (x = 0 <=> y = 0) /\ (x # 0 => stack[x] = s[y])

(* The edges say of every name what the last of its sections that has a     *)
(* parent says, and without one what they said before.                      *)
EdgesStand(edges, s, i, before) ==
    \A n \in Nat :
        /\ (\A j \in 1 .. i : ~ChildAt(s, j, n)) => WholesOf(edges, n) = WholesOf(before, n)
        /\ \A j \in 1 .. i :
             ChildAt(s, j, n) /\ (\A k \in j + 1 .. i : ~ChildAt(s, k, n)) =>
                WholesOf(edges, n) = {s[Nearest(s, j - 1, s[j].level)].name}

(* The next section goes onto the stack above all it is nested in: what the  *)
(* stack says of the sections so far it says of one more.                    *)
LEMMA StackStep ==
  ASSUME NEW s \in Seq(Section), NEW i \in 0 .. Len(s) - 1,
         NEW stack \in Seq(Section), StackStands(stack, s, i),
         NEW m, m = Nearest(stack, Len(stack), s[i + 1].level),
         NEW new \in Seq(Section), Len(new) = m + 1, new[m + 1] = s[i + 1],
         \A k \in 1 .. m : new[k] = stack[k]
  PROVE  StackStands(new, s, i + 1)
<1>1. PICK l \in Nat : l = s[i + 1].level
  <2>1. i + 1 \in 1 .. Len(s)
    OBVIOUS
  <2>. QED  BY <2>1, LevelsAreNumbers
<1>2. /\ Len(stack) \in Nat /\ Len(new) \in Nat /\ Len(stack) \in 0 .. Len(stack)
      /\ Len(new) \in 0 .. Len(new) /\ i \in Nat /\ Len(s) \in Nat
  OBVIOUS
<1>3. /\ m \in 0 .. Len(stack)
      /\ m # 0 => /\ stack[m].level < l
                  /\ \A j \in 1 .. Len(stack) : stack[j].level < l => j <= m
      /\ m = 0 => \A j \in 1 .. Len(stack) : ~ (stack[j].level < l)
  <2>1. PICK x : x = Nearest(stack, Len(stack), l)
    OBVIOUS
  <2>2. /\ x \in 0 .. Len(stack)
        /\ x # 0 => /\ stack[x].level < l
                    /\ \A j \in 1 .. Len(stack) : stack[j].level < l => j <= x
        /\ x = 0 => \A j \in 1 .. Len(stack) : ~ (stack[j].level < l)
    BY <1>2, <2>1, NearestProperties
  <2>3. x = m
    BY <1>1, <2>1
  <2>. QED  BY <2>2, <2>3
<1>4. \A j \in 1 .. Len(stack) : stack[j].level < l => j <= m
  BY <1>3
<1>5. ASSUME NEW level \in Nat
      PROVE  LET x == Nearest(new, Len(new), level)
                 y == Nearest(s, i + 1, level)
             IN  (x = 0 <=> y = 0) /\ (x # 0 => new[x] = s[y])
  <2>1. CASE l < level
    <3>1. Nearest(s, i + 1, level) = i + 1
      BY <1>1, <2>1, NearestNext
    <3>2. /\ m + 1 \in 0 .. Len(new) /\ m + 1 # 0
          /\ \A j \in m + 1 + 1 .. Len(new) : ~ (new[j].level < level)
      BY <1>2, <1>3
    <3>3. Nearest(new, Len(new), level) = m + 1
      BY <1>1, <1>2, <2>1, <3>2, NearestIs
    <3>. QED  BY <1>2, <1>3, <3>1, <3>3
  <2>2. CASE ~ (l < level)
    <3>1. Nearest(s, i + 1, level) = Nearest(s, i, level)
      BY <1>1, <2>2, NearestNext
    <3>2. PICK x : x = Nearest(stack, Len(stack), level)
      OBVIOUS
    <3>3. /\ x \in 0 .. Len(stack)
          /\ x # 0 => /\ stack[x].level < level
                      /\ \A j \in 1 .. Len(stack) : stack[j].level < level => j <= x
          /\ x = 0 => \A j \in 1 .. Len(stack) : ~ (stack[j].level < level)
      BY <1>2, <3>2, NearestProperties
    <3>4. x # 0 => x <= m
      <4>1. ASSUME x # 0 PROVE stack[x].level < l
        <5>1. x \in 1 .. Len(stack) /\ stack[x].level \in Nat
          BY <1>2, <3>3, <4>1, LevelsAreNumbers
        <5>. QED  BY <2>2, <3>3, <4>1, <5>1
      <4>. QED  BY <1>2, <1>4, <3>3, <4>1
    <3>5. x \in 0 .. Len(new)
      BY <1>2, <1>3, <3>3, <3>4
    <3>6. x # 0 => new[x] = stack[x] /\ new[x].level < level
      BY <1>2, <1>3, <3>3, <3>4
    <3>7. ASSUME NEW j \in x + 1 .. Len(new)
          PROVE  ~ (new[j].level < level)
      <4>1. CASE j = m + 1
        BY <1>1, <2>2, <4>1
      <4>2. CASE j # m + 1
        <5>1. j \in 1 .. m /\ j \in 1 .. Len(stack) /\ ~ (j <= x)
          BY <1>2, <1>3, <3>3, <4>2
        <5>. QED  BY <3>3, <5>1
      <4>. QED  BY <4>1, <4>2
    <3>8. Nearest(new, Len(new), level) = x
      BY <1>2, <3>5, <3>6, <3>7, NearestIs
    <3>. QED  BY <3>1, <3>2, <3>6, <3>8 DEF StackStands
  <2>. QED  BY <2>1, <2>2
<1>. QED  BY <1>5 DEF StackStands
(* The edges once a section is part of another and of nothing else.         *)
Relinked(edges, child, whole) ==
    {e \in edges : ~(e[1] = child.name /\ e[3] = PartOf)}
      \cup {<<child.name, whole.name, PartOf>>}

(* What one section changes of the edges.                                   *)
LEMMA EdgesStep ==
  ASSUME NEW s \in Seq(Section), NEW i \in 0 .. Len(s) - 1,
         NEW before, NEW edges \in SUBSET Edge, EdgesStand(edges, s, i, before),
         NEW stack \in Seq(Section), StackStands(stack, s, i),
         NEW m, m = Nearest(stack, Len(stack), s[i + 1].level),
         NEW after,
         m = 0 => after = edges,
         m # 0 => after = Relinked(edges, s[i + 1], stack[m])
  PROVE  EdgesStand(after, s, i + 1, before)
<1>1. i + 1 \in 1 .. Len(s) /\ i \in Nat /\ i + 1 - 1 = i
  OBVIOUS
<1>2. PICK l \in Nat : l = s[i + 1].level
  BY <1>1, LevelsAreNumbers
<1>3. PICK y : y = Nearest(s, i, l)
  OBVIOUS
<1>4. (m = 0 <=> y = 0) /\ (m # 0 => stack[m] = s[y])
  BY <1>2, <1>3 DEF StackStands
<1>5. PICK name : name = s[i + 1].name
  OBVIOUS
<1>6. \A n : ChildAt(s, i + 1, n) <=> n = name /\ y # 0
  BY <1>1, <1>2, <1>3, <1>5 DEF ChildAt
<1>7. ASSUME NEW n, ~ChildAt(s, i + 1, n)
      PROVE  WholesOf(after, n) = WholesOf(edges, n)
  <2>1. CASE m = 0
    BY <2>1
  <2>2. CASE m # 0
    <3>1. n # name
      BY <1>4, <1>6, <1>7, <2>2
    <3>2. \A x : x \in after /\ x[1] = n /\ x[3] = PartOf
                   <=> x \in edges /\ x[1] = n /\ x[3] = PartOf
      BY <1>5, <2>2, <3>1 DEF Relinked
    <3>. QED  BY <3>2 DEF WholesOf
  <2>. QED  BY <2>1, <2>2
<1>8. ASSUME m # 0
      PROVE  WholesOf(after, name) = {s[y].name}
  <2>1. PICK own : own = <<name, s[y].name, PartOf>>
    OBVIOUS
  <2>2. {x \in after : x[1] = name /\ x[3] = PartOf} = {own}
    BY <1>4, <1>5, <1>8, <2>1 DEF Relinked
  <2>3. own[2] = s[y].name
    BY <2>1
  <2>. QED  BY <2>2, <2>3 DEF WholesOf
<1>9. \A j : j \in 1 .. i + 1 <=> j \in 1 .. i \/ j = i + 1
  BY <1>1
<1>10. \A j \in 1 .. i : \A k : k \in j + 1 .. i + 1 <=> k \in j + 1 .. i \/ k = i + 1
  BY <1>1
<1>11. i + 1 + 1 .. i + 1 = {} /\ i + 1 \in 1 .. i + 1
  BY <1>1
<1>12. ASSUME NEW n \in Nat
       PROVE  /\ (\A j \in 1 .. i + 1 : ~ChildAt(s, j, n)) =>
                    WholesOf(after, n) = WholesOf(before, n)
              /\ \A j \in 1 .. i + 1 :
                    ChildAt(s, j, n) /\ (\A k \in j + 1 .. i + 1 : ~ChildAt(s, k, n)) =>
                       WholesOf(after, n) = {s[Nearest(s, j - 1, s[j].level)].name}
  <2>1. /\ (\A j \in 1 .. i : ~ChildAt(s, j, n)) => WholesOf(edges, n) = WholesOf(before, n)
        /\ \A j \in 1 .. i :
             ChildAt(s, j, n) /\ (\A k \in j + 1 .. i : ~ChildAt(s, k, n)) =>
                WholesOf(edges, n) = {s[Nearest(s, j - 1, s[j].level)].name}
    BY DEF EdgesStand
  <2>2. CASE ChildAt(s, i + 1, n)
    <3>1. n = name /\ m # 0
      BY <1>4, <1>6, <2>2
    <3>2. WholesOf(after, n) = {s[Nearest(s, i + 1 - 1, s[i + 1].level)].name}
      BY <1>1, <1>2, <1>3, <1>8, <3>1
    <3>. QED  BY <1>9, <1>10, <1>11, <2>2, <3>2
  <2>3. CASE ~ChildAt(s, i + 1, n)
    <3>1. WholesOf(after, n) = WholesOf(edges, n)
      BY <1>7, <2>3
    <3>. QED  BY <1>9, <1>10, <2>1, <2>3, <3>1
  <2>. QED  BY <2>2, <2>3
<1>. QED  BY <1>12 DEF EdgesStand

(* link_section_hierarchy: each section with one above it is part of that,  *)
(* and the others keep their edges.                                         *)
LEMMA NestedFollows ==
  ASSUME NEW s \in Seq(Section), NEW edges \in SUBSET Edge
  PROVE  /\ Nested(s, edges) \in SUBSET Edge
         /\ EdgesStand(Nested(s, edges), s, Len(s), edges)
         /\ IsFiniteSet(edges) => IsFiniteSet(Nested(s, edges))
<1>1. PICK b \in Nat : b = Len(s)
  OBVIOUS
<1>2. PICK nest \in [0 .. b -> NestState] :
            /\ nest[0] = [stack |-> <<>>, edges |-> edges]
            /\ \A i \in 1 .. b : nest[i] = Nest(nest[i - 1], s[i])
            /\ Nested(s, edges) = nest[b].edges
  BY <1>1, NestedLoop
<1>. DEFINE Good(i) == /\ StackStands(nest[i].stack, s, i)
                       /\ EdgesStand(nest[i].edges, s, i, edges)
                       /\ IsFiniteSet(edges) => IsFiniteSet(nest[i].edges)
            T == {i \in 0 .. b : Good(i)}
<1>3. Good(0)
  <2>1. nest[0].stack = <<>> /\ nest[0].edges = edges
    BY <1>2
  <2>2. PICK stack \in Seq(Section) : stack = <<>>
    OBVIOUS
  <2>3. StackStands(stack, s, 0)
    <3>1. Len(stack) = 0 /\ 1 .. 0 = {}
      BY <2>2
    <3>2. ASSUME NEW level
          PROVE  Nearest(stack, 0, level) = 0 /\ Nearest(s, 0, level) = 0
      BY <3>1 DEF Nearest
    <3>. QED  BY <3>1, <3>2 DEF StackStands
  <2>4. EdgesStand(edges, s, 0, edges)
    BY 1 .. 0 = {} DEF EdgesStand
  <2>. QED  BY <2>1, <2>2, <2>3, <2>4
<1>4. ASSUME NEW i \in 0 .. b - 1, Good(i)
      PROVE  Good(i + 1)
  <2>1. i + 1 \in 1 .. b /\ i + 1 - 1 = i /\ i \in 0 .. b /\ i \in 0 .. Len(s) - 1
    BY <1>1
  <2>2. PICK acc \in NestState : acc = nest[i]
    BY <1>2, <2>1
  <2>3. PICK section \in Section : section = s[i + 1]
    BY <1>1, <2>1
  <2>4. PICK m : m = Nearest(acc.stack, Len(acc.stack), section.level)
    OBVIOUS
  <2>5. PICK after : after = Nest(acc, section)
    OBVIOUS
  <2>6. nest[i + 1] = after
    BY <1>2, <2>1, <2>2, <2>3, <2>5
  <2>7. /\ after \in NestState
        /\ Len(after.stack) = m + 1 /\ after.stack[m + 1] = section
        /\ \A k \in 1 .. m : after.stack[k] = acc.stack[k]
        /\ m = 0 => after.edges = acc.edges
        /\ m # 0 => after.edges = Relinked(acc.edges, section, acc.stack[m])
        /\ IsFiniteSet(acc.edges) => IsFiniteSet(after.edges)
    BY <2>4, <2>5, NestSteps DEF Relinked
  <2>8. /\ acc.stack \in Seq(Section) /\ acc.edges \in SUBSET Edge
        /\ after.stack \in Seq(Section)
    BY <2>7 DEF NestState
  <2>9. StackStands(acc.stack, s, i) /\ EdgesStand(acc.edges, s, i, edges)
    BY <1>4, <2>2
  <2>10. StackStands(after.stack, s, i + 1)
    BY <2>1, <2>3, <2>4, <2>7, <2>8, <2>9, StackStep
  <2>11. EdgesStand(after.edges, s, i + 1, edges)
    BY <2>1, <2>3, <2>4, <2>7, <2>8, <2>9, EdgesStep
  <2>. QED  BY <1>4, <2>2, <2>6, <2>7, <2>10, <2>11
<1>5. Good(b)
  <2>. HIDE DEF Good
  <2>1. \A i \in 0 .. b - 1 : i \in T => i + 1 \in T
    <3>1. \A i \in 0 .. b - 1 : i + 1 \in 0 .. b
      OBVIOUS
    <3>. QED  BY <1>4, <3>1
  <2>2. 0 \in T /\ b \in 0 .. b
    BY <1>3
  <2>. HIDE DEF T
  <2>3. \A i \in 0 .. b : i \in T
    BY <2>1, <2>2, BoundedInduction
  <2>. QED  BY <2>2, <2>3 DEF T
<1>6. nest[b].edges \in SUBSET Edge
  BY <1>2 DEF NestState
<1>. QED  BY <1>1, <1>2, <1>5, <1>6
(* So they say what the text says of its sections, as ParentsOf reads it.   *)
LEMMA PartsAreParents ==
  ASSUME NEW s \in Seq(Section), NEW edges, NEW before,
         EdgesStand(edges, s, Len(s), before), NEW n \in Nat, NEW t, s = t.sections
  PROVE  /\ ParentsOf(t, n) # {} => WholesOf(edges, n) = ParentsOf(t, n)
         /\ ParentsOf(t, n) = {} => WholesOf(edges, n) = WholesOf(before, n)
<1>2. PICK b \in Nat : b = Len(s)
  OBVIOUS
<1>. DEFINE above(i) == {j \in 1 .. i - 1 : s[j].level < s[i].level}
            last == {i \in 1 .. b : s[i].name = n /\ above(i) # {}}
<1>3. ASSUME NEW i \in 1 .. b
      PROVE  /\ above(i) # {} <=> Nearest(s, i - 1, s[i].level) # 0
             /\ above(i) # {} => Nearest(s, i - 1, s[i].level)
                                   = CHOOSE x \in above(i) : \A y \in above(i) : y <= x
  <2>1. i \in 1 .. Len(s) /\ i - 1 \in 0 .. Len(s)
    BY <1>2
  <2>2. s[i].level \in Nat
    BY <2>1, LevelsAreNumbers
  <2>3. PICK level \in Nat : level = s[i].level
    BY <2>2
  <2>9. PICK k \in 0 .. Len(s) : k = i - 1
    BY <2>1
  <2>4. PICK x : x = Nearest(s, k, level)
    OBVIOUS
  <2>8. /\ x \in 0 .. k
        /\ x # 0 => s[x].level < level
        /\ x = 0 => \A j \in 1 .. k : ~ (s[j].level < level)
    BY <2>4, NearestProperties
  <2>5. /\ x # 0 => x \in 1 .. i - 1 /\ s[x].level < level
        /\ x = 0 => \A j \in 1 .. i - 1 : ~ (s[j].level < level)
    BY <2>9, <2>8
  <2>6. above(i) # {} <=> x # 0
    BY <2>3, <2>5
  <2>7. above(i) # {} => Nearest(s, i - 1, s[i].level)
                           = CHOOSE z \in above(i) : \A y \in above(i) : y <= z
    BY DEF Nearest
  <2>. QED  BY <2>3, <2>4, <2>6, <2>7, <2>9
<1>4. \A i \in 1 .. b : ChildAt(s, i, n) <=> i \in last
  BY <1>3 DEF ChildAt
<1>5. ParentsOf(t, n) =
        IF last = {} THEN {}
        ELSE LET i == CHOOSE x \in last : \A y \in last : y <= x
             IN  {s[CHOOSE x \in above(i) : \A y \in above(i) : y <= x].name}
  BY <1>2 DEF ParentsOf
<1>6. /\ (\A j \in 1 .. b : ~ChildAt(s, j, n)) => WholesOf(edges, n) = WholesOf(before, n)
      /\ \A j \in 1 .. b :
            ChildAt(s, j, n) /\ (\A k \in j + 1 .. b : ~ChildAt(s, k, n)) =>
               WholesOf(edges, n) = {s[Nearest(s, j - 1, s[j].level)].name}
  BY <1>2 DEF EdgesStand
<1>7. CASE last = {}
  BY <1>4, <1>5, <1>6, <1>7
<1>8. CASE last # {}
  <2>1. PICK i : i = CHOOSE x \in last : \A y \in last : y <= x
    OBVIOUS
  <2>2. i \in last /\ \A y \in last : y <= i
    <3>1. last \in SUBSET Nat /\ \A y \in last : y <= b
      BY <1>2
    <3>. HIDE DEF last
    <3>2. \E x \in last : \A y \in last : y <= x
      BY <1>8, <3>1, GreatestNatural
    <3>. QED  BY <2>1, <3>2
  <2>3. i \in 1 .. b /\ above(i) # {} /\ ChildAt(s, i, n)
    BY <1>4, <2>2
  <2>4. \A k \in i + 1 .. b : ~ChildAt(s, k, n)
    <3>1. \A k \in i + 1 .. b : k \in 1 .. b /\ ~ (k <= i)
      BY <1>2, <2>3
    <3>. HIDE DEF last
    <3>. QED  BY <1>4, <2>2, <3>1
  <2>5. WholesOf(edges, n) = {s[Nearest(s, i - 1, s[i].level)].name}
    BY <1>6, <2>3, <2>4
  <2>6. ParentsOf(t, n) = {s[CHOOSE x \in above(i) : \A y \in above(i) : y <= x].name}
    BY <1>5, <1>8, <2>1
  <2>7. ParentsOf(t, n) = {s[Nearest(s, i - 1, s[i].level)].name}
    BY <1>3, <2>3, <2>6
  <2>. QED  BY <2>5, <2>7
<1>. QED  BY <1>7, <1>8
-----------------------------------------------------------------------------
(* The graph's type, and what a write does *)

Chunk == Docs \X (Nat \ {0})
Mention == Chunk \X Nat

Walks ==
    [kind : {"walk"}, stage : {"mentions", "loop", "done"}, relation : {"any", PartOf},
     d : Nat, at : Nat \cup Docs, start : SUBSET Nat, emitted : SUBSET Nat,
     nodes : Seq(Nat \X Nat), edges : SUBSET (Nat \X Nat)]

Expansions ==
    [kind : {"expand"}, stage : {"origins", "hops", "chunks", "done"}, hits : Seq(Chunk),
     byHit : Seq(SUBSET Nat), origin : Nat, hop : Nat, frontier : Seq(Nat \X Nat),
     visited : SUBSET Nat, asked : SUBSET Nat, found : SUBSET Chunk, cut : BOOLEAN,
     short : BOOLEAN]

Backs ==
    [kind : {"back"}, stage : {"names", "documents", "done"}, doc : Docs,
     names : SUBSET Nat, result : SUBSET Docs, cut : BOOLEAN]

RowsTyped ==
    /\ docs \in [Docs -> Bodies \cup {NoDoc}]
    /\ entities \in SUBSET Nat
    /\ mentions \in SUBSET Mention /\ IsFiniteSet(mentions)
    /\ related \in SUBSET Edge /\ IsFiniteSet(related)

\* The history covers what is there, and is exact while nothing is written.
SeenCovers ==
    /\ seen \in [mentions : SUBSET Mention, related : SUBSET Edge]
    /\ mentions \subseteq seen.mentions /\ related \subseteq seen.related
    /\ calm \in BOOLEAN
    /\ calm => seen.mentions = mentions /\ seen.related = related

ReaderTyped ==
    /\ reader.kind \in {"none", "walk", "expand", "back"}
    /\ reader.kind = "walk" => reader \in Walks
    /\ reader.kind = "expand" => reader \in Expansions
    /\ reader.kind = "back" => reader \in Backs

(* What the rules find in a text.                                           *)
LEMMA TextTyped ==
  ASSUME NEW t \in Bodies
  PROVE  /\ t.chunks \in Seq([names : SUBSET Nat, front : Seq(FrontLines)])
         /\ Len(t.chunks) \in Nat
         /\ t.sections \in Seq(Section)
<1>1. /\ t.chunks \in Seq([names : SUBSET Nat, front : Seq(FrontLines)])
      /\ t.sections \in Seq([name : Nat, level : Nat])
  BY GraphAssumption, Zenon
<1>2. PICK pieces \in Seq([names : SUBSET Nat, front : Seq(FrontLines)]) : pieces = t.chunks
  BY <1>1
<1>3. Len(pieces) \in Nat
  OBVIOUS
<1>. QED  BY <1>1, <1>2, <1>3 DEF Section

(* What the rules find in one of its chunks.                                *)
LEMMA ChunkTyped ==
  ASSUME NEW t \in Bodies, NEW i \in 1 .. Len(t.chunks)
  PROVE  /\ t.chunks[i].names \in SUBSET Nat /\ IsFiniteSet(t.chunks[i].names)
         /\ t.chunks[i].front \in Seq(FrontLines)
         /\ \A k \in 1 .. Len(t.chunks[i].front) :
               t.chunks[i].front[k].kind # "text" => IsFiniteSet(t.chunks[i].front[k].names)
<1>1. PICK c : c = t.chunks[i]
  OBVIOUS
<1>2. c \in [names : SUBSET Nat, front : Seq(FrontLines)]
  <2>1. PICK S : S = [names : SUBSET Nat, front : Seq(FrontLines)]
    OBVIOUS
  <2>2. PICK pieces \in Seq(S) : pieces = t.chunks
    BY <2>1, TextTyped
  <2>3. pieces[i] \in S
    BY <2>2
  <2>. QED  BY <1>1, <2>1, <2>2, <2>3
<1>3. /\ IsFiniteSet(c.names)
      /\ \A k \in 1 .. Len(c.front) : c.front[k].kind # "text" => IsFiniteSet(c.front[k].names)
  <2>1. /\ IsFiniteSet(t.chunks[i].names)
        /\ \A k \in 1 .. Len(t.chunks[i].front) :
              t.chunks[i].front[k].kind # "text" => IsFiniteSet(t.chunks[i].front[k].names)
    BY GraphAssumption, Zenon
  <2>. QED  BY <1>1, <2>1
<1>. QED  BY <1>1, <1>2, <1>3

(* The names of a chunk: its own, and those of the lists of its frontmatter. *)
LEMMA ChunkNamesTyped ==
  ASSUME NEW t \in Bodies, NEW i \in 1 .. Len(t.chunks)
  PROVE  /\ ChunkNames(t, i) \in SUBSET Nat /\ IsFiniteSet(ChunkNames(t, i))
         /\ \A n : n \in ChunkNames(t, i) <=>
              \/ n \in t.chunks[i].names
              \/ \E key \in {"tags", "aliases"} : InList(t.chunks[i].front, key, n)
<1>1. PICK front \in Seq(FrontLines) : front = t.chunks[i].front
  BY ChunkTyped
<1>2. \A j \in 1 .. Len(front) : front[j].kind # "text" => IsFiniteSet(front[j].names)
  BY <1>1, ChunkTyped
<1>3. ASSUME NEW key
      PROVE  /\ FrontList(front, key) \in SUBSET Nat
             /\ IsFiniteSet(FrontList(front, key))
             /\ \A n : n \in FrontList(front, key) <=> InList(front, key, n)
  BY <1>2, FrontListIsInList
<1>4. PICK own : own = t.chunks[i].names
  OBVIOUS
<1>14. own \in SUBSET Nat /\ IsFiniteSet(own)
  BY <1>4, ChunkTyped
<1>5. PICK a, b : a = FrontList(front, "tags") /\ b = FrontList(front, "aliases")
  OBVIOUS
<1>6. /\ a \in SUBSET Nat /\ IsFiniteSet(a) /\ b \in SUBSET Nat /\ IsFiniteSet(b)
      /\ \A n : n \in a \cup b <=> \E key \in {"tags", "aliases"} : InList(front, key, n)
  BY <1>3, <1>5
<1>7. IsFiniteSet(a \cup b)
  BY <1>6, FS_Union
<1>8. ChunkNames(t, i) = own \cup (a \cup b)
  BY <1>1, <1>4, <1>5 DEF ChunkNames
<1>9. IsFiniteSet(ChunkNames(t, i))
  BY <1>14, <1>7, <1>8, FS_Union
<1>10. \A n : n \in ChunkNames(t, i) <=> n \in own \/ n \in a \cup b
  BY <1>8
<1>11. ChunkNames(t, i) \in SUBSET Nat
  BY <1>14, <1>6, <1>8
<1>. QED  BY <1>1, <1>4, <1>6, <1>9, <1>10, <1>11

\* The mentions a text makes.
MentionsOf(d, t) == UNION {{<<<<d, i>>, n>> : n \in ChunkNames(t, i)} : i \in 1 .. Len(t.chunks)}

(* The mention rows of a text: one for each chunk and each name in it.       *)
LEMMA MentionsOfTyped ==
  ASSUME NEW d \in Docs, NEW t \in Bodies
  PROVE  /\ MentionsOf(d, t) \in SUBSET Mention /\ IsFiniteSet(MentionsOf(d, t))
         /\ \A m \in MentionsOf(d, t) : m[1][1] = d
         /\ MentionsOf(d, t) =
              {m \in ({d} \X (1 .. Len(t.chunks))) \X Names(t) : m[2] \in ChunkNames(t, m[1][2])}
<1>1. PICK b \in Nat : b = Len(t.chunks)
  BY TextTyped
<1>. DEFINE own(i) == {<<<<d, i>>, n>> : n \in ChunkNames(t, i)}
<1>2. ASSUME NEW i \in 1 .. b
      PROVE  IsFiniteSet(own(i)) /\ own(i) \in SUBSET Mention
  <2>1. IsFiniteSet(ChunkNames(t, i)) /\ ChunkNames(t, i) \in SUBSET Nat
    BY <1>1, ChunkNamesTyped
  <2>2. PICK N : N = ChunkNames(t, i)
    OBVIOUS
  <2>3. PICK f : f = [n \in N |-> <<<<d, i>>, n>>]
    OBVIOUS
  <2>4. DOMAIN f = N /\ f = [n \in N |-> f[n]]
    BY <2>3
  <2>5. IsFiniteSet({f[n] : n \in N})
    BY <2>1, <2>2, <2>4, ImageIsFinite
  <2>6. {f[n] : n \in N} = own(i)
    BY <2>2, <2>3
  <2>7. i \in Nat \ {0}
    BY <1>1
  <2>8. \A n \in N : <<<<d, i>>, n>> \in Mention
    BY <2>1, <2>2, <2>7 DEF Mention, Chunk
  <2>. QED  BY <2>2, <2>5, <2>6, <2>8
<1>3. PICK g : g = [i \in 1 .. b |-> own(i)]
  OBVIOUS
<1>4. IsFiniteSet({g[i] : i \in 1 .. b})
  <2>1. IsFiniteSet(1 .. b) /\ DOMAIN g = 1 .. b /\ g = [i \in 1 .. b |-> g[i]]
    BY <1>3, Interval
  <2>. QED  BY <2>1, ImageIsFinite
<1>5. {g[i] : i \in 1 .. b} = {own(i) : i \in 1 .. b}
  BY <1>3
<1>6. \A x \in {g[i] : i \in 1 .. b} : IsFiniteSet(x) /\ x \in SUBSET Mention
  BY <1>2, <1>3
<1>7. MentionsOf(d, t) = UNION {g[i] : i \in 1 .. b}
  BY <1>1, <1>5 DEF MentionsOf
<1>8. IsFiniteSet(MentionsOf(d, t))
  BY <1>4, <1>6, <1>7, FS_UNION
<1>9. MentionsOf(d, t) \in SUBSET Mention
  BY <1>6, <1>7
<1>10. \A m : m \in MentionsOf(d, t) <=>
                \E i \in 1 .. b : \E n \in ChunkNames(t, i) : m = <<<<d, i>>, n>>
  BY <1>1 DEF MentionsOf
<1>11. \A m \in MentionsOf(d, t) : m[1][1] = d
  BY <1>10
<1>12. \A i \in 1 .. b : \A n \in ChunkNames(t, i) : n \in Names(t)
  BY <1>1 DEF Names
<1>13. \A m : m \in MentionsOf(d, t) <=>
                 m \in ({d} \X (1 .. b)) \X Names(t) /\ m[2] \in ChunkNames(t, m[1][2])
  <2>1. ASSUME NEW m, m \in MentionsOf(d, t)
        PROVE  m \in ({d} \X (1 .. b)) \X Names(t) /\ m[2] \in ChunkNames(t, m[1][2])
    BY <1>10, <1>12, <2>1
  <2>2. ASSUME NEW m \in ({d} \X (1 .. b)) \X Names(t), m[2] \in ChunkNames(t, m[1][2])
        PROVE  m \in MentionsOf(d, t)
    <3>1. PICK i \in 1 .. b, n \in Names(t) : m = <<<<d, i>>, n>>
      OBVIOUS
    <3>2. n \in ChunkNames(t, i)
      BY <2>2, <3>1
    <3>. QED  BY <1>10, <3>1, <3>2
  <2>. QED  BY <2>1, <2>2
<1>14. MentionsOf(d, t) =
         {m \in ({d} \X (1 .. b)) \X Names(t) : m[2] \in ChunkNames(t, m[1][2])}
  BY <1>13
<1>. QED  BY <1>1, <1>8, <1>9, <1>11, <1>14
(* Storing a text.                                                          *)
LEMMA StoreTextTyped ==
  ASSUME RowsTyped, NEW d \in Docs, NEW t \in Bodies, StoreText(d, t)
  PROVE  RowsTyped'
<1>1. docs' \in [Docs -> Bodies \cup {NoDoc}]
  BY DEF StoreText, RowsTyped
<1>2. PICK old : old = Without(d)
  OBVIOUS
<1>13. old \in SUBSET mentions
  BY <1>2 DEF Without
<1>14. old \in SUBSET Mention /\ IsFiniteSet(old)
  BY <1>13, FS_Subset DEF RowsTyped
<1>3. mentions' = old \cup MentionsOf(d, t)
  BY <1>2 DEF StoreText, MentionsOf
<1>4. mentions' \in SUBSET Mention /\ IsFiniteSet(mentions')
  BY <1>14, <1>3, MentionsOfTyped, FS_Union
<1>5. t.sections \in Seq(Section) /\ related \in SUBSET Edge /\ IsFiniteSet(related)
  BY TextTyped DEF RowsTyped
<1>6. Nested(t.sections, related) \in SUBSET Edge /\ IsFiniteSet(Nested(t.sections, related))
  BY <1>5, NestedFollows
<1>7. PICK fresh \in SUBSET Edge : fresh = Nested(t.sections, {})
  BY <1>5, NestedFollows
<1>8. {e[1] : e \in fresh} \in SUBSET Nat /\ {e[2] : e \in fresh} \in SUBSET Nat
  BY DEF Edge
<1>9. Names(t) \in SUBSET Nat
  BY ChunkNamesTyped DEF Names
<1>10. entities' = entities \cup Names(t) \cup {e[1] : e \in fresh} \cup {e[2] : e \in fresh}
  BY <1>7 DEF StoreText
<1>11. entities' \in SUBSET Nat
  BY <1>8, <1>9, <1>10 DEF RowsTyped
<1>12. related' = Nested(t.sections, related)
  BY DEF StoreText
<1>. QED  BY <1>1, <1>4, <1>6, <1>11, <1>12 DEF RowsTyped

(* Every write leaves the reader where it is, and the history covers what   *)
(* it wrote.                                                                *)
LEMMA WriteSteps ==
  ASSUME RowsTyped, SeenCovers, Write
  PROVE  /\ RowsTyped' /\ SeenCovers'
         /\ reader' = reader /\ calm' = FALSE
         /\ seen.mentions \subseteq seen'.mentions /\ seen.related \subseteq seen'.related
<1>1. ASSUME NEW m \in SUBSET Mention, NEW r \in SUBSET Edge, Note(m, r), RowsTyped',
             mentions' \subseteq mentions \cup m, related' \subseteq related \cup r
      PROVE  /\ SeenCovers' /\ reader' = reader /\ calm' = FALSE
             /\ seen.mentions \subseteq seen'.mentions /\ seen.related \subseteq seen'.related
  <2>1. /\ reader' = reader /\ calm' = FALSE
        /\ seen' = [mentions |-> seen.mentions \cup m, related |-> seen.related \cup r]
    BY <1>1 DEF Note
  <2>2. /\ seen.mentions \in SUBSET Mention /\ seen.related \in SUBSET Edge
        /\ mentions \subseteq seen.mentions /\ related \subseteq seen.related
    BY DEF SeenCovers
  <2>3. seen' \in [mentions : SUBSET Mention, related : SUBSET Edge]
    BY <2>1, <2>2
  <2>. QED  BY <1>1, <2>1, <2>2, <2>3 DEF SeenCovers
<1>2. ASSUME NEW d \in Docs, NEW t \in Bodies, StoreText(d, t)
      PROVE  /\ RowsTyped'
             /\ SeenCovers' /\ reader' = reader /\ calm' = FALSE
             /\ seen.mentions \subseteq seen'.mentions /\ seen.related \subseteq seen'.related
  <2>1. RowsTyped'
    BY <1>2, StoreTextTyped
  <2>2. Note(mentions', related') /\ mentions' \in SUBSET Mention /\ related' \in SUBSET Edge
    BY <1>2, <2>1 DEF StoreText, RowsTyped
  <2>. QED  BY <1>1, <2>1, <2>2
<1>3. ASSUME NEW d \in Docs, Delete(d)
      PROVE  /\ RowsTyped'
             /\ SeenCovers' /\ reader' = reader /\ calm' = FALSE
             /\ seen.mentions \subseteq seen'.mentions /\ seen.related \subseteq seen'.related
  <2>1. mentions' \subseteq mentions /\ related' = related /\ Note({}, {})
    BY <1>3 DEF Delete, Without
  <2>2. RowsTyped'
    BY <1>3, <2>1, FS_Subset DEF Delete, RowsTyped
  <2>. QED  BY <1>1, <2>1, <2>2
<1>4. ASSUME Link
      PROVE  /\ RowsTyped'
             /\ SeenCovers' /\ reader' = reader /\ calm' = FALSE
             /\ seen.mentions \subseteq seen'.mentions /\ seen.related \subseteq seen'.related
  <2>1. PICK l \in Links : related' = related \cup {l}
    BY <1>4 DEF Link
  <2>2. l \in Edge
    BY GraphAssumption DEF Edge, Relation
  <2>3. related' \in SUBSET Edge /\ IsFiniteSet(related')
    BY <2>1, <2>2, FS_AddElement DEF RowsTyped
  <2>4. RowsTyped' /\ mentions' = mentions /\ Note({}, related')
    BY <1>4, <2>3 DEF RowsTyped, Link
  <2>. QED  BY <1>1, <2>3, <2>4
<1>5. ASSUME UpsertEntity
      PROVE  /\ RowsTyped'
             /\ SeenCovers' /\ reader' = reader /\ calm' = FALSE
             /\ seen.mentions \subseteq seen'.mentions /\ seen.related \subseteq seen'.related
  <2>1. \A l \in Links : l[1] \in Nat
    BY GraphAssumption
  <2>2. RowsTyped' /\ mentions' = mentions /\ related' = related /\ Note({}, {})
    BY <1>5, <2>1 DEF RowsTyped, UpsertEntity
  <2>. QED  BY <1>1, <2>2
<1>6. ASSUME NEW d \in Docs, Upload(d) \/ Rebuild(d)
      PROVE  \E t \in Bodies : StoreText(d, t)
  BY <1>6 DEF Upload, Rebuild, RowsTyped
<1>. QED  BY <1>2, <1>3, <1>4, <1>5, <1>6 DEF Write
-----------------------------------------------------------------------------
(* Mentions follow the texts *)

MentionsMatch ==
    \A d \in Docs :
        /\ docs[d] = NoDoc => Of(d) = {}
        /\ docs[d] # NoDoc => Of(d) = MentionsOf(d, docs[d]) /\ Names(docs[d]) \subseteq entities

(* Storing a text replaces the document's mentions by those of the text.     *)
LEMMA StoreTextMatches ==
  ASSUME RowsTyped, MentionsMatch, NEW d \in Docs, NEW t \in Bodies, StoreText(d, t)
  PROVE  MentionsMatch'
<1>1. /\ docs' = [docs EXCEPT ![d] = t] /\ mentions' = Without(d) \cup MentionsOf(d, t)
      /\ entities \subseteq entities' /\ Names(t) \subseteq entities'
  BY DEF StoreText, MentionsOf
<1>2. /\ docs'[d] = t /\ t # NoDoc
      /\ \A e \in Docs : e # d => docs'[e] = docs[e]
  BY <1>1, GraphAssumption DEF RowsTyped
<1>3. Of(d)' = MentionsOf(d, t)
  BY <1>1, MentionsOfTyped DEF Of, Without
<1>4. ASSUME NEW e \in Docs, e # d
      PROVE  Of(e)' = Of(e)
  <2>1. \A m : m \in mentions' /\ m[1][1] = e <=> m \in mentions /\ m[1][1] = e
    BY <1>1, <1>4, MentionsOfTyped DEF Of, Without
  <2>. QED  BY <2>1 DEF Of
<1>5. ASSUME NEW e \in Docs
      PROVE  /\ docs'[e] = NoDoc => Of(e)' = {}
             /\ docs'[e] # NoDoc => Of(e)' = MentionsOf(e, docs'[e])
                                    /\ Names(docs'[e]) \subseteq entities'
  <2>1. CASE e = d
    BY <1>1, <1>2, <1>3, <2>1
  <2>2. CASE e # d
    BY <1>1, <1>2, <1>4, <2>2 DEF MentionsMatch
  <2>. QED  BY <2>1, <2>2
<1>. QED  BY <1>5 DEF MentionsMatch

(* A write leaves every document with the mentions of its text, and a        *)
(* deleted one with none.                                                    *)
LEMMA WriteMatches ==
  ASSUME RowsTyped, MentionsMatch, Write
  PROVE  MentionsMatch'
<1>1. ASSUME NEW d \in Docs, Upload(d) \/ Rebuild(d)
      PROVE  MentionsMatch'
  <2>1. PICK t \in Bodies : StoreText(d, t)
    BY <1>1 DEF Upload, Rebuild, RowsTyped
  <2>. QED  BY <2>1, StoreTextMatches
<1>2. ASSUME NEW d \in Docs, Delete(d)
      PROVE  MentionsMatch'
  <2>1. /\ docs' = [docs EXCEPT ![d] = NoDoc] /\ mentions' = mentions \ Of(d)
        /\ entities' = entities
    BY <1>2 DEF Delete, Without
  <2>2. docs'[d] = NoDoc /\ \A e \in Docs : e # d => docs'[e] = docs[e]
    BY <2>1 DEF RowsTyped
  <2>3. Of(d)' = {}
    BY <2>1 DEF Of
  <2>4. ASSUME NEW e \in Docs, e # d
        PROVE  Of(e)' = Of(e)
    <3>1. \A m : m \in mentions' /\ m[1][1] = e <=> m \in mentions /\ m[1][1] = e
      BY <2>1, <2>4 DEF Of
    <3>. QED  BY <3>1 DEF Of
  <2>5. ASSUME NEW e \in Docs
        PROVE  /\ docs'[e] = NoDoc => Of(e)' = {}
               /\ docs'[e] # NoDoc => Of(e)' = MentionsOf(e, docs'[e])
                                      /\ Names(docs'[e]) \subseteq entities'
    BY <2>1, <2>2, <2>3, <2>4 DEF MentionsMatch
  <2>. QED  BY <2>5 DEF MentionsMatch
<1>3. ASSUME docs' = docs, mentions' = mentions, entities \subseteq entities'
      PROVE  MentionsMatch'
  BY <1>3 DEF MentionsMatch, Of
<1>4. ASSUME Link \/ UpsertEntity
      PROVE  MentionsMatch'
  BY <1>3, <1>4 DEF Link, UpsertEntity
<1>. QED  BY <1>1, <1>2, <1>4 DEF Write

(* What matches has the mentions of the texts, item by item.                *)
LEMMA MatchFollows ==
  ASSUME RowsTyped, MentionsMatch
  PROVE  MentionsFollowTexts
<1>1. ASSUME NEW d \in Docs, docs[d] # NoDoc
      PROVE  Of(d) =
               {m \in ({d} \X (1 .. Len(docs[d].chunks))) \X entities :
                        LET i == m[1][2] IN
                        \/ m[2] \in docs[d].chunks[i].names
                        \/ \E key \in {"tags", "aliases"} :
                              InList(docs[d].chunks[i].front, key, m[2])}
  <2>1. PICK t \in Bodies : t = docs[d]
    BY <1>1 DEF RowsTyped
  <2>2. /\ Of(d) = {m \in ({d} \X (1 .. Len(t.chunks))) \X Names(t) :
                       m[2] \in ChunkNames(t, m[1][2])}
        /\ Names(t) \subseteq entities
    BY <1>1, <2>1, MentionsOfTyped DEF MentionsMatch
  <2>3. \A i \in 1 .. Len(t.chunks) : \A n \in ChunkNames(t, i) : n \in Names(t)
    BY DEF Names
  <2>4. ASSUME NEW m \in ({d} \X (1 .. Len(t.chunks))) \X entities
        PROVE  m[2] \in ChunkNames(t, m[1][2]) <=>
                 \/ m[2] \in t.chunks[m[1][2]].names
                 \/ \E key \in {"tags", "aliases"} : InList(t.chunks[m[1][2]].front, key, m[2])
    <3>1. PICK i \in 1 .. Len(t.chunks) : i = m[1][2]
      OBVIOUS
    <3>. QED  BY <3>1, ChunkNamesTyped
  <2>5. \A m : m \in Of(d) <=> /\ m \in ({d} \X (1 .. Len(t.chunks))) \X entities
                               /\ m[2] \in ChunkNames(t, m[1][2])
    BY <2>2, <2>3
  <2>6. \A m : m \in Of(d) <=>
           /\ m \in ({d} \X (1 .. Len(t.chunks))) \X entities
           /\ \/ m[2] \in t.chunks[m[1][2]].names
              \/ \E key \in {"tags", "aliases"} : InList(t.chunks[m[1][2]].front, key, m[2])
    BY <2>4, <2>5
  <2>. QED  BY <2>1, <2>6
<1>. QED  BY <1>1 DEF MentionsFollowTexts, MentionsMatch

(* The part-of edges follow the text that was stored last.                  *)
LEMMA HierarchyStep ==
  ASSUME RowsTyped, GraphNext, NEW d \in Docs, docs'[d] # docs[d], docs'[d] # NoDoc,
         NEW n \in entities'
  PROVE  LET now == {e[2] : e \in {x \in related' : x[1] = n /\ x[3] = PartOf}}
             sections == docs'[d].sections
         IN  /\ ParentsOf(docs'[d], n) # {} => now = ParentsOf(docs'[d], n)
             /\ (\A i \in 1 .. Len(sections) : sections[i].name # n) =>
                   now = {e[2] : e \in {x \in related : x[1] = n /\ x[3] = PartOf}}
<1>1. Write
  BY DEF GraphNext, BeginWalk, WalkMentions, WalkStep, BeginExpand, ReadOrigins, ReadHop,
         ReadChunks, BeginBack, ReadNames, ReadDocuments, Query, Begin
<1>2. PICK c \in Docs : Upload(c) \/ Rebuild(c) \/ Delete(c)
  BY <1>1 DEF Write, Link, UpsertEntity
<1>3. ~Delete(c)
  BY DEF Delete, RowsTyped
<1>4. PICK t \in Bodies : StoreText(c, t)
  BY <1>2, <1>3 DEF Upload, Rebuild, RowsTyped
<1>5. docs'[d] = t /\ related' = Nested(t.sections, related)
  BY <1>4 DEF StoreText, RowsTyped
<1>6. t.sections \in Seq(Section) /\ related \in SUBSET Edge
  BY TextTyped DEF RowsTyped
<1>7. EdgesStand(related', t.sections, Len(t.sections), related)
  BY <1>5, <1>6, NestedFollows
<1>8. n \in Nat
  <2>1. RowsTyped'
    BY <1>4, StoreTextTyped
  <2>. QED  BY <2>1 DEF RowsTyped
<1>9. /\ ParentsOf(t, n) # {} => WholesOf(related', n) = ParentsOf(t, n)
      /\ ParentsOf(t, n) = {} => WholesOf(related', n) = WholesOf(related, n)
  <2>1. PICK s \in Seq(Section) : s = t.sections
    BY <1>6
  <2>4. PICK after, before : after = related' /\ before = related
    OBVIOUS
  <2>2. EdgesStand(after, s, Len(s), before)
    BY <1>7, <2>1, <2>4
  <2>3. /\ ParentsOf(t, n) # {} => WholesOf(after, n) = ParentsOf(t, n)
        /\ ParentsOf(t, n) = {} => WholesOf(after, n) = WholesOf(before, n)
    BY <1>8, <2>1, <2>2, PartsAreParents
  <2>. QED  BY <2>3, <2>4
<1>10. (\A i \in 1 .. Len(t.sections) : t.sections[i].name # n) => ParentsOf(t, n) = {}
  BY DEF ParentsOf
<1>. QED  BY <1>5, <1>9, <1>10 DEF WholesOf
-----------------------------------------------------------------------------
(* Backlinks *)

\* The documents that mention a name another one mentions.
Sharing(doc) ==
    {d \in Docs \ {doc} :
        \E m, n \in mentions : m[1][1] = d /\ n[1][1] = doc /\ m[2] = n[2]}

\* Between the queries: the names read are those the document still mentions,
\* unless something was written or a bound left some out.
BackSteps ==
    reader.kind = "back" =>
        /\ reader.stage # "done" => reader.result = {}
        /\ reader.stage = "documents" /\ calm /\ ~reader.cut =>
              reader.names = {m[2] : m \in Of(reader.doc)}
        /\ reader.stage = "done" =>
              /\ reader.doc \notin reader.result
              /\ calm /\ ~reader.cut => reader.result = Sharing(reader.doc)

(* A request for backlinks has read nothing.                                 *)
LEMMA BackBegins ==
  ASSUME BeginBack
  PROVE  reader' \in Backs /\ BackSteps'
<1>1. PICK d \in Docs : reader' = [Back EXCEPT !.doc = d]
  BY DEF BeginBack, Begin
<1>2. reader' = [kind |-> "back", stage |-> "names", doc |-> d, names |-> {},
                 result |-> {}, cut |-> FALSE]
  BY <1>1 DEF Back
<1>3. reader' \in Backs
  BY <1>2 DEF Backs
<1>. QED  BY <1>2, <1>3 DEF BackSteps

(* The first query of the backlinks: the names the document mentions, all of *)
(* them unless the limit cuts.                                               *)
LEMMA BackReadsNames ==
  ASSUME RowsTyped, ReaderTyped, BackSteps, ReadNames
  PROVE  reader' \in Backs /\ BackSteps'
<1>1. /\ reader \in Backs /\ reader.stage = "names"
      /\ UNCHANGED <<docs, entities, mentions, related, writes, seen, calm>>
  BY DEF ReadNames, ReaderTyped, Query
<1>2. PICK all : all = {m[2] : m \in Of(reader.doc)}
  OBVIOUS
<1>3. PICK some \in SUBSET all :
        reader' = [reader EXCEPT !.names = some, !.cut = some # all,
                                 !.stage = IF some = {} THEN "done" ELSE "documents"]
  BY <1>2 DEF ReadNames
<1>4. all \in SUBSET Nat /\ \A n : n \in all <=> \E m \in mentions : m[1][1] = reader.doc /\ m[2] = n
  BY <1>2 DEF RowsTyped, Mention, Of
<1>5. /\ reader' \in Backs
      /\ reader'.stage = IF some = {} THEN "done" ELSE "documents"
      /\ reader'.names = some /\ (reader'.cut <=> some # all)
      /\ reader'.doc = reader.doc /\ reader'.result = reader.result
  BY <1>1, <1>3, <1>4 DEF Backs
<1>6. reader.result = {}
  BY <1>1 DEF BackSteps, Backs
<1>7. all = {} => Sharing(reader.doc) = {}
  BY <1>4 DEF Sharing
<1>8. {m[2] : m \in Of(reader.doc)}' = all
  BY <1>1, <1>2, <1>5 DEF Of
<1>9. Sharing(reader.doc)' = Sharing(reader.doc)
  BY <1>1, <1>5 DEF Sharing
<1>10. CASE some = {}
  BY <1>5, <1>6, <1>7, <1>9, <1>10 DEF BackSteps
<1>11. CASE some # {}
  BY <1>5, <1>6, <1>8, <1>11 DEF BackSteps
<1>. QED  BY <1>5, <1>10, <1>11

(* The second one: the documents that mention them.                          *)
LEMMA BackReadsDocuments ==
  ASSUME RowsTyped, ReaderTyped, BackSteps, ReadDocuments
  PROVE  reader' \in Backs /\ BackSteps'
<1>1. /\ reader \in Backs /\ reader.stage = "documents" /\ reader.kind = "back"
      /\ UNCHANGED <<docs, entities, mentions, related, writes, seen, calm>>
  BY DEF ReadDocuments, ReaderTyped, Query
<1>2. PICK all : all = {m \in mentions : m[2] \in reader.names}
  OBVIOUS
<1>3. PICK rows \in SUBSET all :
        reader' = [reader EXCEPT !.result = OthersOf(rows, reader.doc),
                                 !.cut = @ \/ rows # all, !.stage = "done"]
  BY <1>2 DEF ReadDocuments
<1>4. PICK others : others = OthersOf(rows, reader.doc)
  OBVIOUS
<1>5. /\ others \in SUBSET Docs /\ reader.doc \notin others
      /\ \A d : d \in others <=> d # reader.doc /\ \E m \in rows : m[1][1] = d
  BY <1>2, <1>4 DEF RowsTyped, Mention, Chunk, OthersOf
<1>6. /\ reader' \in Backs /\ reader'.stage = "done"
      /\ reader'.result = others /\ (reader'.cut <=> reader.cut \/ rows # all)
      /\ reader'.doc = reader.doc
  BY <1>1, <1>3, <1>4, <1>5 DEF Backs
<1>7. ASSUME calm, ~reader'.cut
      PROVE  others = Sharing(reader.doc)
  <2>1. rows = all /\ reader.names = {m[2] : m \in Of(reader.doc)}
    BY <1>1, <1>6, <1>7 DEF BackSteps
  <2>2. \A m : m \in rows <=>
           m \in mentions /\ \E n \in mentions : n[1][1] = reader.doc /\ m[2] = n[2]
    BY <1>2, <2>1 DEF Of
  <2>3. \A d : d \in others => d \in Docs
    BY <1>5
  <2>4. \A m \in mentions : m[1][1] \in Docs
    BY DEF RowsTyped, Mention, Chunk
  <2>. QED  BY <1>5, <2>2, <2>4 DEF Sharing
<1>8. Sharing(reader.doc)' = Sharing(reader.doc)
  BY <1>1, <1>6 DEF Sharing
<1>. QED  BY <1>1, <1>5, <1>6, <1>7, <1>8 DEF BackSteps
-----------------------------------------------------------------------------
(* Names within some steps *)

\* f spreads from the names along the edges, step by step.
Spreads(f, names, edges, k) ==
    /\ f \in [0 .. k -> SUBSET Nat]
    /\ f[0] = names /\ \A i \in 1 .. k : f[i] = f[i - 1] \cup Heads(edges, f[i - 1])

(* The recursion of Within, as a sequence of sets.                          *)
LEMMA WithinLoop ==
  ASSUME NEW names \in SUBSET Nat, NEW edges \in SUBSET Edge, NEW k \in Nat
  PROVE  \E f : Spreads(f, names, edges, k) /\ Within(names, edges, k) = f[k]
<1>. DEFINE R(f) == f = [i \in 0 .. k |->
                           IF i = 0 THEN names
                           ELSE f[i - 1] \cup Heads(edges, f[i - 1])]
            within == CHOOSE f : R(f)
<1>1. PICK g : g = [p \in (1 .. k) \X SUBSET Nat |-> p[2] \cup Heads(edges, p[2])]
  OBVIOUS
<1>2. ASSUME NEW x \in SUBSET Nat
      PROVE  x \cup Heads(edges, x) \in SUBSET Nat
  <2>1. \A e \in edges : e[2] \in Nat
    BY DEF Edge
  <2>. QED  BY <2>1 DEF Heads
<1>11. \A i \in 1 .. k, x \in SUBSET Nat : g[<<i, x>>] = x \cup Heads(edges, x)
  BY <1>1
<1>3. PICK f \in [0 .. k -> SUBSET Nat] : Iterates(f, k, names, g)
  <2>1. g \in [(1 .. k) \X SUBSET Nat -> SUBSET Nat]
    BY <1>1, <1>2
  <2>. QED  BY <2>1, Recursion
<1>4. R(f)
  <2>1. ASSUME NEW i \in 0 .. k
        PROVE  f[i] = IF i = 0 THEN names
                      ELSE f[i - 1] \cup Heads(edges, f[i - 1])
    <3>1. CASE i # 0
      <4>1. i \in 1 .. k /\ f[i - 1] \in SUBSET Nat
        BY <3>1
      <4>2. f[i] = f[i - 1] \cup Heads(edges, f[i - 1])
        BY <1>11, <1>3, <4>1 DEF Iterates
      <4>. QED  BY <3>1, <4>2
    <3>. QED  BY <1>3, <3>1 DEF Iterates
  <2>. QED  BY <2>1
<1>5. R(within)
  BY <1>4
<1>6. Within(names, edges, k) = within[k]
  BY DEF Within
<1>. HIDE DEF within
<1>7. within[0] = names /\ \A i \in 1 .. k : within[i] = within[i - 1] \cup Heads(edges, within[i - 1])
  <2>1. \A i \in 0 .. k : within[i] = IF i = 0 THEN names
                                       ELSE within[i - 1] \cup Heads(edges, within[i - 1])
    BY <1>5
  <2>2. 0 \in 0 .. k /\ \A i \in 1 .. k : i \in 0 .. k /\ i # 0
    OBVIOUS
  <2>3. within[0] = names
    BY <2>1, <2>2
  <2>. HIDE DEF R
  <2>4. \A i \in 1 .. k : within[i] = within[i - 1] \cup Heads(edges, within[i - 1])
    BY <2>1, <2>2
  <2>. QED  BY <2>3, <2>4
<1>8. within = [i \in 0 .. k |-> within[i]]
  BY <1>5
<1>9. \A i \in 0 .. k : within[i] \in SUBSET Nat
  <2>. DEFINE T == {i \in 0 .. k : within[i] \in SUBSET Nat}
  <2>1. 0 \in T
    <3>1. 0 \in 0 .. k /\ within[0] \in SUBSET Nat
      BY <1>7
    <3>. QED  BY <3>1
  <2>2. \A i \in 0 .. k - 1 : i \in T => i + 1 \in T
    <3>1. ASSUME NEW i \in 0 .. k - 1, within[i] \in SUBSET Nat
          PROVE  i + 1 \in 0 .. k /\ within[i + 1] \in SUBSET Nat
      <4>1. i + 1 \in 1 .. k /\ i + 1 \in 0 .. k /\ i + 1 - 1 = i
        OBVIOUS
      <4>2. within[i + 1] = within[i] \cup Heads(edges, within[i])
        BY <1>7, <4>1
      <4>. QED  BY <1>2, <3>1, <4>1, <4>2
    <3>. QED  BY <3>1
  <2>. HIDE DEF T
  <2>3. \A i \in 0 .. k : i \in T
    BY <2>1, <2>2, BoundedInduction
  <2>. QED  BY <2>3 DEF T
<1>10. within \in [0 .. k -> SUBSET Nat]
  BY <1>8, <1>9
<1>. QED  BY <1>6, <1>7, <1>10 DEF Spreads

(* It begins with the names and follows the edges step by step.             *)
LEMMA WithinSteps ==
  ASSUME NEW names \in SUBSET Nat, NEW edges \in SUBSET Edge
  PROVE  /\ Within(names, edges, 0) = names
         /\ \A k \in Nat :
              /\ Within(names, edges, k) \in SUBSET Nat
              /\ Within(names, edges, k + 1) =
                   Within(names, edges, k) \cup Heads(edges, Within(names, edges, k))
<1>1. Within(names, edges, 0) = names
  <2>1. PICK f : Spreads(f, names, edges, 0) /\ Within(names, edges, 0) = f[0]
    BY WithinLoop
  <2>. QED  BY <2>1 DEF Spreads
<1>2. ASSUME NEW k \in Nat
      PROVE  /\ Within(names, edges, k) \in SUBSET Nat
             /\ Within(names, edges, k + 1) =
                   Within(names, edges, k) \cup Heads(edges, Within(names, edges, k))
  <2>1. PICK f : Spreads(f, names, edges, k) /\ Within(names, edges, k) = f[k]
    BY WithinLoop
  <2>2. PICK h : Spreads(h, names, edges, k + 1) /\ Within(names, edges, k + 1) = h[k + 1]
    <3>1. PICK l \in Nat : l = k + 1
      OBVIOUS
    <3>2. \E h : Spreads(h, names, edges, l) /\ Within(names, edges, l) = h[l]
      BY WithinLoop
    <3>. QED  BY <3>1, <3>2
  <2>. DEFINE T == {i \in 0 .. k : f[i] = h[i]}
  <2>3. 0 \in T
    BY <2>1, <2>2 DEF Spreads
  <2>4. \A i \in 0 .. k - 1 : i \in T => i + 1 \in T
    <3>1. ASSUME NEW i \in 0 .. k - 1, f[i] = h[i]
          PROVE  i + 1 \in 0 .. k /\ f[i + 1] = h[i + 1]
      <4>1. i + 1 \in 1 .. k /\ i + 1 \in 1 .. k + 1 /\ i + 1 - 1 = i
        OBVIOUS
      <4>2. f[i + 1] = f[i] \cup Heads(edges, f[i]) /\ h[i + 1] = h[i] \cup Heads(edges, h[i])
        BY <2>1, <2>2, <4>1 DEF Spreads
      <4>. QED  BY <3>1, <4>1, <4>2
    <3>. QED  BY <3>1
  <2>. HIDE DEF T
  <2>5. \A i \in 0 .. k : i \in T
    BY <2>3, <2>4, BoundedInduction
  <2>6. f[k] = h[k]
    BY <2>5 DEF T
  <2>7. h[k + 1] = h[k] \cup Heads(edges, h[k])
    <3>1. k + 1 \in 1 .. k + 1 /\ k + 1 - 1 = k
      OBVIOUS
    <3>. QED  BY <2>2, <3>1 DEF Spreads
  <2>8. f[k] \in SUBSET Nat
    BY <2>1 DEF Spreads
  <2>. QED  BY <2>1, <2>2, <2>6, <2>7, <2>8
<1>. QED  BY <1>1, <1>2

(* One step more reaches what the names reached lead to.                    *)
LEMMA WithinGrows ==
  \A names \in SUBSET Nat, edges \in SUBSET Edge, k \in Nat :
      Within(names, edges, k + 1) =
          Within(names, edges, k) \cup Heads(edges, Within(names, edges, k))
<1>. TAKE names \in SUBSET Nat, edges \in SUBSET Edge, k \in Nat
<1>. QED  BY WithinSteps

(* No step reaches nothing but the names.                                   *)
LEMMA WithinBegins ==
  \A names \in SUBSET Nat, edges \in SUBSET Edge : Within(names, edges, 0) = names
<1>. TAKE names \in SUBSET Nat, edges \in SUBSET Edge
<1>. QED  BY WithinSteps

(* More names, more edges and more steps reach more.                        *)
LEMMA WithinMore ==
  ASSUME NEW names \in SUBSET Nat, NEW edges \in SUBSET Edge,
         NEW names2 \in SUBSET Nat, NEW edges2 \in SUBSET Edge,
         names \subseteq names2, edges \subseteq edges2, NEW k \in Nat
  PROVE  Within(names, edges, k) \subseteq Within(names2, edges2, k)
<1>. DEFINE T == {i \in Nat : Within(names, edges, i) \subseteq Within(names2, edges2, i)}
<1>1. 0 \in T
  <2>1. Within(names, edges, 0) = names
    BY WithinBegins, Zenon
  <2>2. Within(names2, edges2, 0) = names2
    BY WithinBegins, Zenon
  <2>. QED  BY <2>1, <2>2
<1>2. ASSUME NEW i \in Nat, Within(names, edges, i) \subseteq Within(names2, edges2, i)
      PROVE  Within(names, edges, i + 1) \subseteq Within(names2, edges2, i + 1)
  <2>1. /\ Within(names, edges, i + 1) =
             Within(names, edges, i) \cup Heads(edges, Within(names, edges, i))
        /\ Within(names2, edges2, i + 1) =
             Within(names2, edges2, i) \cup Heads(edges2, Within(names2, edges2, i))
    BY WithinGrows, Zenon
  <2>. QED  BY <1>2, <2>1 DEF Heads
<1>3. \A i \in Nat : i \in T => i + 1 \in T
  BY <1>2
<1>. HIDE DEF T
<1>4. \A i \in Nat : i \in T
  BY <1>1, <1>3, NatSetInduction
<1>. QED  BY <1>4 DEF T

(* What is within some steps is within more steps.                           *)
LEMMA WithinFurther ==
  ASSUME NEW names \in SUBSET Nat, NEW edges \in SUBSET Edge, NEW k \in Nat, NEW j \in 0 .. k
  PROVE  Within(names, edges, j) \subseteq Within(names, edges, k)
<1>. DEFINE T == {i \in Nat : Within(names, edges, j) \subseteq Within(names, edges, j + i)}
<1>1. 0 \in T
  BY j + 0 = j
<1>2. ASSUME NEW i \in Nat, i \in T
      PROVE  i + 1 \in T
  <2>1. j + i \in Nat /\ j + (i + 1) = (j + i) + 1 /\ i + 1 \in Nat
    OBVIOUS
  <2>2. Within(names, edges, j + i) \subseteq Within(names, edges, (j + i) + 1)
    <3>1. PICK l \in Nat : l = j + i
      BY <2>1
    <3>2. Within(names, edges, l) \subseteq Within(names, edges, l + 1)
      BY WithinSteps
    <3>. QED  BY <3>1, <3>2
  <2>. QED  BY <1>2, <2>1, <2>2
<1>. HIDE DEF T
<1>3. \A i \in Nat : i \in T
  BY <1>1, <1>2, NatSetInduction
<1>4. k - j \in Nat /\ j + (k - j) = k
  OBVIOUS
<1>5. Within(names, edges, j) \subseteq Within(names, edges, j + (k - j))
  BY <1>3, <1>4 DEF T
<1>. QED  BY <1>4, <1>5
-----------------------------------------------------------------------------
(* The walk *)

\* The start is the first node, at depth 0.
FromName(nodes) == nodes # <<>> /\ nodes[1][2] = 0

\* How many steps a node at a depth is away: the nodes of depth 1 are the
\* start themselves in a walk from a document.
Steps(nodes, depth) == IF FromName(nodes) THEN depth ELSE depth - 1

\* No name comes twice, the start apart, and the emitted names are counted.
NodesOnce(nodes, emitted) ==
    /\ Len(nodes) = Cardinality(emitted) + IF FromName(nodes) THEN 1 ELSE 0
    /\ \A i \in 1 .. Len(nodes) : nodes[i][2] = 0 => i = 1
    /\ \A i \in 1 .. Len(nodes) : nodes[i][2] # 0 => nodes[i][1] \in emitted
    /\ \A i, j \in 1 .. Len(nodes) : i < j /\ nodes[i][1] = nodes[j][1] => nodes[i][2] = 0

NodesReach(nodes, roots, edges) ==
    \A i \in 1 .. Len(nodes) : nodes[i][1] \in Within(roots, edges, Steps(nodes, nodes[i][2]))

\* Names as nodes of one depth.
AtDepth(out, depth) == [i \in 1 .. Len(out) |-> <<out[i], depth>>]

(* The new nodes of a walk's turn are the names that were found, at its      *)
(* depth.                                                                    *)
LEMMA AtDepthProperties ==
  ASSUME NEW out \in Seq(Nat), NEW depth \in Nat
  PROVE  /\ AtDepth(out, depth) \in Seq(Nat \X Nat)
         /\ Len(AtDepth(out, depth)) = Len(out)
         /\ \A i \in 1 .. Len(out) : AtDepth(out, depth)[i] = <<out[i], depth>>
                                     /\ AtDepth(out, depth)[i][1] = out[i]
                                     /\ AtDepth(out, depth)[i][2] = depth
<1>1. PICK o \in Nat : o = Len(out)
  OBVIOUS
<1>2. PICK more : more = AtDepth(out, depth)
  OBVIOUS
<1>3. \A i \in 1 .. o : out[i] \in Nat
  BY <1>1
<1>4. more = [i \in 1 .. o |-> <<out[i], depth>>]
  BY <1>1, <1>2 DEF AtDepth
<1>5. more \in [1 .. o -> Nat \X Nat]
  BY <1>3, <1>4
<1>6. more \in Seq(Nat \X Nat) /\ Len(more) = o
  BY <1>5, FunctionIsSeq
<1>. QED  BY <1>1, <1>2, <1>4, <1>6

(* New names at a depth.                                                    *)
LEMMA NodesGrow ==
  ASSUME NEW nodes \in Seq(Nat \X Nat), NEW emitted \in SUBSET Nat, IsFiniteSet(emitted),
         NodesOnce(nodes, emitted), NEW out \in Seq(Nat), OnceEach(out),
         ToSet(out) \cap emitted = {}, NEW depth \in Nat, depth # 0,
         NEW all, Joins(all, nodes, AtDepth(out, depth))
  PROVE  /\ FromName(all) <=> FromName(nodes)
         /\ IsFiniteSet(emitted \cup ToSet(out))
         /\ Cardinality(emitted \cup ToSet(out)) = Cardinality(emitted) + Len(out)
         /\ NodesOnce(all, emitted \cup ToSet(out))
<1>1. PICK b \in Nat, o \in Nat : b = Len(nodes) /\ o = Len(out)
  OBVIOUS
<1>2. PICK more : more = AtDepth(out, depth)
  OBVIOUS
<1>3. /\ Len(more) = o
      /\ \A i \in 1 .. o : more[i][1] = out[i] /\ more[i][2] = depth
  BY <1>1, <1>2, AtDepthProperties
<1>4. /\ Len(all) = b + o
      /\ \A i \in 1 .. b : all[i] = nodes[i] /\ i \in 1 .. b + o
      /\ \A i \in 1 .. o : all[b + i] = more[i] /\ b + i \in 1 .. b + o
      /\ \A i \in 1 .. b + o : i \in 1 .. b \/ \E j \in 1 .. o : i = b + j
  <2>1. /\ Len(all) = b + o
        /\ \A i \in 1 .. b : all[i] = nodes[i]
        /\ \A i \in 1 .. o : all[b + i] = more[i]
    BY <1>1, <1>2, <1>3 DEF Joins
  <2>2. /\ \A i \in 1 .. b : i \in 1 .. b + o
        /\ \A i \in 1 .. o : b + i \in 1 .. b + o
    OBVIOUS
  <2>. QED  BY <2>1, <2>2, JoinedParts
<1>5. PICK new : new = ToSet(out)
  OBVIOUS
<1>6. /\ IsFiniteSet(new) /\ Cardinality(new) = o
      /\ \A i \in 1 .. o : out[i] \in new
      /\ new \cap emitted = {}
  BY <1>1, <1>5, OnceEachCounts, Elements
<1>7. PICK both : both = emitted \cup new
  OBVIOUS
<1>8. IsFiniteSet(both) /\ Cardinality(both) = Cardinality(emitted) + o
  <2>1. /\ IsFiniteSet(emitted \cup new)
        /\ Cardinality(emitted \cup new) =
             Cardinality(emitted) + Cardinality(new) - Cardinality(emitted \cap new)
    BY <1>6, FS_Union
  <2>2. emitted \cap new = {}
    BY <1>6
  <2>3. Cardinality(emitted) \in Nat /\ Cardinality({}) = 0
    BY FS_CardinalityType, FS_EmptySet
  <2>4. Cardinality(emitted \cup new) = Cardinality(emitted) + o - 0
    BY <1>6, <2>1, <2>2, <2>3
  <2>. QED  BY <1>7, <2>1, <2>3, <2>4
<1>9. FromName(all) <=> FromName(nodes)
  <2>1. CASE b = 0
    <3>1. ~FromName(nodes)
      BY <1>1, <2>1, EmptySeq DEF FromName
    <3>2. ASSUME all # <<>> PROVE all[1][2] # 0
      <4>1. 1 \in 1 .. b + o
        BY <1>4, <3>2
      <4>2. PICK j \in 1 .. o : 1 = b + j
        BY <1>4, <2>1, <4>1
      <4>3. all[1] = more[j]
        BY <1>4, <4>2
      <4>. QED  BY <1>3, <4>3
    <3>. QED  BY <3>1, <3>2 DEF FromName
  <2>2. CASE b # 0
    <3>1. 1 \in 1 .. b /\ b + o # 0
      BY <1>4, <2>2
    <3>2. all # <<>> /\ nodes # <<>> /\ all[1] = nodes[1]
      BY <1>1, <1>4, <2>2, <3>1
    <3>. QED  BY <3>2 DEF FromName
  <2>. QED  BY <2>1, <2>2
<1>10. /\ b = Cardinality(emitted) + IF FromName(nodes) THEN 1 ELSE 0
       /\ \A i \in 1 .. b : nodes[i][2] = 0 => i = 1
       /\ \A i \in 1 .. b : nodes[i][2] # 0 => nodes[i][1] \in emitted
       /\ \A i, j \in 1 .. b : i < j /\ nodes[i][1] = nodes[j][1] => nodes[i][2] = 0
  BY <1>1 DEF NodesOnce
<1>11. Len(all) = Cardinality(both) + IF FromName(all) THEN 1 ELSE 0
  <2>1. Cardinality(emitted) \in Nat
    BY FS_CardinalityType
  <2>. QED  BY <1>4, <1>8, <1>9, <1>10, <2>1
<1>12. ASSUME NEW i \in 1 .. b + o
       PROVE  /\ all[i][2] = 0 => i = 1
              /\ all[i][2] # 0 => all[i][1] \in both
  <2>1. CASE i \in 1 .. b
    BY <1>4, <1>7, <1>10, <2>1
  <2>2. CASE \E j \in 1 .. o : i = b + j
    <3>1. PICK j \in 1 .. o : i = b + j
      BY <2>2
    <3>2. all[i] = more[j]
      BY <1>4, <3>1
    <3>. QED  BY <1>3, <1>6, <1>7, <3>2
  <2>. QED  BY <1>4, <2>1, <2>2
<1>13. ASSUME NEW i \in 1 .. b + o, NEW j \in 1 .. b + o, i < j, all[i][1] = all[j][1]
       PROVE  all[i][2] = 0
  <2>1. CASE j \in 1 .. b
    <3>1. i \in 1 .. b
      BY <1>4, <1>13, <2>1
    <3>. QED  BY <1>4, <1>10, <1>13, <2>1, <3>1
  <2>2. CASE \E y \in 1 .. o : j = b + y
    <3>1. PICK y \in 1 .. o : j = b + y
      BY <2>2
    <3>2. all[j][1] = out[y] /\ out[y] \in new
      BY <1>3, <1>4, <1>6, <3>1
    <3>3. CASE i \in 1 .. b
      <4>1. nodes[i][1] \in new /\ all[i] = nodes[i]
        BY <1>4, <1>13, <3>2, <3>3
      <4>2. nodes[i][1] \notin emitted
        BY <1>6, <4>1
      <4>. QED  BY <1>10, <3>3, <4>1, <4>2
    <3>4. CASE \E x \in 1 .. o : i = b + x
      <4>1. PICK x \in 1 .. o : i = b + x
        BY <3>4
      <4>2. all[i] = more[x]
        BY <1>4, <4>1
      <4>3. out[x] = out[y]
        BY <1>3, <1>13, <3>2, <4>2
      <4>4. x # y
        BY <1>13, <3>1, <4>1
      <4>. QED  BY <1>1, <4>3, <4>4 DEF OnceEach
    <3>. QED  BY <1>4, <3>3, <3>4
  <2>. QED  BY <1>4, <2>1, <2>2
<1>14. NodesOnce(all, both)
  BY <1>4, <1>11, <1>12, <1>13 DEF NodesOnce
<1>. QED  BY <1>1, <1>4, <1>5, <1>7, <1>8, <1>9, <1>14

(* Nodes that are appended and were reached within the steps of their depth  *)
(* keep the walk connected.                                                  *)
LEMMA NodesGrowReach ==
  ASSUME NEW nodes \in Seq(Nat \X Nat), NEW out \in Seq(Nat), NEW depth \in Nat, depth # 0,
         NEW roots, NEW edges, NodesReach(nodes, roots, edges),
         NEW all, Joins(all, nodes, AtDepth(out, depth)),
         FromName(all) <=> FromName(nodes),
         \A n \in ToSet(out) : n \in Within(roots, edges, Steps(nodes, depth))
  PROVE  NodesReach(all, roots, edges)
<1>1. PICK b \in Nat, o \in Nat : b = Len(nodes) /\ o = Len(out)
  OBVIOUS
<1>2. PICK more : more = AtDepth(out, depth)
  OBVIOUS
<1>3. /\ Len(more) = o
      /\ \A i \in 1 .. o : more[i][1] = out[i] /\ more[i][2] = depth
  BY <1>1, <1>2, AtDepthProperties
<1>4. /\ Len(all) = b + o
      /\ \A i \in 1 .. b : all[i] = nodes[i] /\ i \in 1 .. b + o
      /\ \A i \in 1 .. o : all[b + i] = more[i] /\ b + i \in 1 .. b + o
      /\ \A i \in 1 .. b + o : i \in 1 .. b \/ \E j \in 1 .. o : i = b + j
  <2>1. /\ Len(all) = b + o
        /\ \A i \in 1 .. b : all[i] = nodes[i]
        /\ \A i \in 1 .. o : all[b + i] = more[i]
    BY <1>1, <1>2, <1>3 DEF Joins
  <2>2. /\ \A i \in 1 .. b : i \in 1 .. b + o
        /\ \A i \in 1 .. o : b + i \in 1 .. b + o
    OBVIOUS
  <2>. QED  BY <2>1, <2>2, JoinedParts
<1>5. \A k : Steps(all, k) = Steps(nodes, k)
  BY DEF Steps
<1>6. ASSUME NEW i \in 1 .. b + o
      PROVE  all[i][1] \in Within(roots, edges, Steps(all, all[i][2]))
  <2>1. CASE i \in 1 .. b
    <3>1. all[i] = nodes[i] /\ i \in 1 .. Len(nodes)
      BY <1>1, <1>4, <2>1
    <3>. QED  BY <1>5, <3>1 DEF NodesReach
  <2>2. CASE \E j \in 1 .. o : i = b + j
    <3>1. PICK j \in 1 .. o : i = b + j
      BY <2>2
    <3>2. all[i][1] = out[j] /\ all[i][2] = depth
      BY <1>3, <1>4, <3>1
    <3>3. out[j] \in ToSet(out)
      BY <1>1, Elements
    <3>. QED  BY <1>5, <3>2, <3>3
  <2>. QED  BY <1>4, <2>1, <2>2
<1>. QED  BY <1>4, <1>6 DEF NodesReach
(* Nodes stay in reach when there are more edges.                           *)
LEMMA NodesReachMore ==
  ASSUME NEW nodes \in Seq(Nat \X Nat), NEW emitted, NodesOnce(nodes, emitted),
         NEW roots \in SUBSET Nat, NEW edges \in SUBSET Edge, NEW more \in SUBSET Edge,
         edges \subseteq more, NodesReach(nodes, roots, edges)
  PROVE  NodesReach(nodes, roots, more)
<1>1. ASSUME NEW i \in 1 .. Len(nodes)
      PROVE  nodes[i][1] \in Within(roots, more, Steps(nodes, nodes[i][2]))
  <2>1. nodes[i] \in Nat \X Nat
    OBVIOUS
  <2>2. PICK depth \in Nat : depth = nodes[i][2]
    BY <2>1
  <2>3. Steps(nodes, depth) \in Nat
    <3>1. CASE FromName(nodes)
      BY <3>1 DEF Steps
    <3>2. CASE ~FromName(nodes)
      <4>1. depth # 0
        <5>1. nodes # <<>>
          BY EmptySeq
        <5>2. depth = 0 => i = 1
          BY <2>2 DEF NodesOnce
        <5>. QED  BY <2>2, <3>2, <5>1, <5>2 DEF FromName
      <4>. QED  BY <3>2, <4>1 DEF Steps
    <3>. QED  BY <3>1, <3>2
  <2>4. PICK k \in Nat : k = Steps(nodes, depth)
    BY <2>3
  <2>5. nodes[i][1] \in Within(roots, edges, k)
    BY <2>2, <2>4 DEF NodesReach
  <2>6. Within(roots, edges, k) \subseteq Within(roots, more, k)
    BY WithinMore
  <2>. QED  BY <2>2, <2>4, <2>5, <2>6
<1>. QED  BY <1>1 DEF NodesReach

\* The edges of the wanted relation there were meanwhile.
Wanted(r, edges) == {e \in edges : r.relation \in {"any", e[3]}}

\* Between the steps of a walk.
WalkStands(r, edges) ==
    /\ IsFiniteSet(r.emitted) /\ Cardinality(r.emitted) <= Limit
    /\ r.edges \subseteq {<<e[1], e[2]>> : e \in edges}
    /\ NodesOnce(r.nodes, r.emitted)
    /\ NodesReach(r.nodes, r.start, edges)
    /\ r.stage = "mentions" => r.at \in Docs /\ r.edges = {}
    /\ r.stage = "mentions" => r.nodes = <<>> /\ r.emitted = {}
    /\ r.stage = "loop" /\ r.d = 0 =>
         r.nodes = <<>> /\ r.emitted = {} /\ r.at \in r.start
    /\ r.stage = "loop" /\ r.d # 0 =>
         r.nodes # <<>> /\ r.at \in Within(r.start, edges, Steps(r.nodes, r.d))

WalkSteps == reader.kind = "walk" => WalkStands(reader, Wanted(reader, seen.related))

(* What Emit lets through.                                                  *)
LEMMA Emitted ==
  ASSUME NEW emitted \in SUBSET Nat, emitted = reader.emitted, IsFiniteSet(emitted),
         Cardinality(emitted) <= Limit, NEW names \in SUBSET Nat, IsFiniteSet(names),
         NEW order \in SetToSeqs(New(names)), NEW out, out = Emit(order)
  PROVE  /\ out \in Seq(Nat) /\ OnceEach(out) /\ ToSet(out) \subseteq names
         /\ ToSet(out) \cap emitted = {}
         /\ Len(out) \in Nat /\ Cardinality(emitted) + Len(out) <= Limit
<1>1. PICK new : new = New(names)
  OBVIOUS
<1>2. new \in SUBSET Nat /\ IsFiniteSet(new) /\ new \subseteq names /\ new \cap emitted = {}
  BY <1>1, FS_Subset DEF New
<1>3. /\ order \in Seq(new) /\ ToSet(order) = new
      /\ \A i, j \in 1 .. Len(order) : i # j => order[i] # order[j]
  BY <1>1, <1>2, SetToSeqsProperties
<1>4. PICK c \in Nat, l \in Nat : c = Cardinality(emitted) /\ l = Limit
  BY FS_CardinalityType, GraphAssumption
<1>5. PICK room \in Int : room = l - c
  OBVIOUS
<1>6. out = First(order, room)
  BY <1>4, <1>5 DEF Emit
<1>7. /\ out \in Seq(new)
      /\ Len(out) = IF room < Len(order) THEN IF room < 0 THEN 0 ELSE room ELSE Len(order)
      /\ \A i \in 1 .. Len(out) : out[i] = order[i]
  BY <1>3, <1>6, FirstProperties
<1>8. PICK o \in Nat, b \in Nat : o = Len(out) /\ b = Len(order)
  BY <1>3, <1>7
<1>9. o <= room \/ o = 0
  BY <1>7, <1>8
<1>10. o <= b
  BY <1>7, <1>8
<1>11. OnceEach(out)
  <2>1. ASSUME NEW i \in 1 .. o, NEW j \in 1 .. o, i # j
        PROVE  out[i] # out[j]
    <3>1. i \in 1 .. b /\ j \in 1 .. b
      BY <1>10
    <3>. QED  BY <1>3, <1>7, <1>8, <2>1, <3>1
  <2>. QED  BY <1>8, <2>1 DEF OnceEach
<1>12. ToSet(out) \in SUBSET new
  BY <1>7, Elements
<1>13. c + o <= l
  BY <1>4, <1>5, <1>9
<1>14. out \in Seq(Nat)
  BY <1>2, <1>7, SeqWider
<1>. QED  BY <1>2, <1>4, <1>8, <1>11, <1>12, <1>13, <1>14
(* The empty walk.                                                          *)
LEMMA NodesEmpty ==
  ASSUME NEW roots, NEW edges
  PROVE  NodesOnce(<<>>, {}) /\ NodesReach(<<>>, roots, edges) /\ ~FromName(<<>>)
<1>1. Len(<<>>) = 0 /\ Cardinality({}) = 0
  BY EmptySeq, FS_EmptySet
<1>2. ~FromName(<<>>)
  BY DEF FromName
<1>3. 1 .. 0 = {}
  OBVIOUS
<1>. QED  BY <1>1, <1>2, <1>3 DEF NodesOnce, NodesReach

(* A walk that has done nothing yet is connected.                            *)
LEMMA WalkFirst ==
  ASSUME NEW relation \in {"any", PartOf}, NEW n, NEW stage, NEW roots,
         reader' = [kind |-> "walk", stage |-> stage, relation |-> relation, d |-> 0,
                    at |-> n, start |-> roots, emitted |-> {}, nodes |-> <<>>, edges |-> {}],
         \/ n \in Nat /\ stage = "loop" /\ roots = {n}
         \/ n \in Docs /\ stage = "mentions" /\ roots = {}
  PROVE  reader' \in Walks /\ WalkSteps'
<1>2. reader' \in Walks
  <2>1. roots \in SUBSET Nat /\ n \in Nat \cup Docs /\ stage \in {"mentions", "loop", "done"}
    OBVIOUS
  <2>2. <<>> \in Seq(Nat \X Nat)
    BY EmptySeq
  <2>. QED  BY <2>1, <2>2 DEF Walks
<1>3. PICK edges, next : edges = Wanted(reader', seen'.related) /\ next = reader'
  OBVIOUS
<1>4. /\ IsFiniteSet({}) /\ Cardinality({}) = 0 /\ 0 <= Limit
      /\ NodesOnce(<<>>, {}) /\ NodesReach(<<>>, roots, edges)
  BY NodesEmpty, FS_EmptySet, GraphAssumption
<1>5. WalkStands(next, edges)
  BY <1>3, <1>4 DEF WalkStands
<1>. QED  BY <1>2, <1>3, <1>5 DEF WalkSteps

(* A walk begins at a name or at a document.                                 *)
LEMMA WalkBegins ==
  ASSUME BeginWalk
  PROVE  reader' \in Walks /\ WalkSteps'
<1>1. PICK relation \in {"any", PartOf} :
          \/ \E n \in UNION {{l[1], l[2]} : l \in Links} :
               reader' = [Walk EXCEPT !.relation = relation, !.at = n, !.start = {n}]
          \/ \E d \in Docs :
               reader' = [Walk EXCEPT !.relation = relation, !.stage = "mentions", !.at = d]
  BY DEF BeginWalk, Begin
<1>2. ASSUME NEW n \in UNION {{l[1], l[2]} : l \in Links},
             reader' = [Walk EXCEPT !.relation = relation, !.at = n, !.start = {n}]
      PROVE  reader' \in Walks /\ WalkSteps'
  <2>1. n \in Nat
    BY GraphAssumption
  <2>2. reader' = [kind |-> "walk", stage |-> "loop", relation |-> relation, d |-> 0,
                   at |-> n, start |-> {n}, emitted |-> {}, nodes |-> <<>>, edges |-> {}]
    BY <1>2 DEF Walk
  <2>. QED  BY <2>1, <2>2, WalkFirst
<1>3. ASSUME NEW d \in Docs,
             reader' = [Walk EXCEPT !.relation = relation, !.stage = "mentions", !.at = d]
      PROVE  reader' \in Walks /\ WalkSteps'
  <2>1. reader' = [kind |-> "walk", stage |-> "mentions", relation |-> relation, d |-> 0,
                   at |-> d, start |-> {}, emitted |-> {}, nodes |-> <<>>, edges |-> {}]
    BY <1>3 DEF Walk
  <2>. QED  BY <2>1, WalkFirst
<1>. QED  BY <1>1, <1>2, <1>3
(* The first names of a walk from a document are nodes of depth 1, and the  *)
(* start of the walk.                                                       *)
LEMMA NodesFirst ==
  ASSUME NEW out \in Seq(Nat), OnceEach(out), NEW roots, roots = ToSet(out),
         NEW edges \in SUBSET Edge, NEW nodes, nodes = AtDepth(out, 1)
  PROVE  /\ roots \in SUBSET Nat /\ IsFiniteSet(roots) /\ Cardinality(roots) = Len(out)
         /\ ~FromName(nodes) /\ NodesOnce(nodes, roots) /\ NodesReach(nodes, roots, edges)
         /\ Within(roots, edges, Steps(nodes, 1)) = roots
<1>1. PICK none \in Seq(Nat \X Nat) : none = <<>>
  <2>1. <<>> \in Seq(Nat \X Nat)
    BY EmptySeq
  <2>. QED  BY <2>1
<1>2. PICK nobody \in SUBSET Nat : nobody = {}
  <2>. WITNESS {} \in SUBSET Nat
  <2>. QED  OBVIOUS
<1>3. /\ NodesOnce(none, nobody) /\ NodesReach(none, roots, edges) /\ ~FromName(none)
      /\ Len(none) = 0
  BY <1>1, <1>2, NodesEmpty, EmptySeq
<1>4. IsFiniteSet(nobody) /\ Cardinality(nobody) = 0
  BY <1>2, FS_EmptySet
<1>5. PICK depth \in Nat : depth = 1 /\ depth # 0
  OBVIOUS
<1>6. nodes \in Seq(Nat \X Nat) /\ Len(nodes) = Len(out) /\ Len(out) \in Nat
  BY <1>5, AtDepthProperties
<1>7. PICK o \in Nat : o = Len(nodes)
  BY <1>6
<1>8. Joins(nodes, none, nodes)
  <2>1. \A i \in 1 .. o : 0 + i = i
    OBVIOUS
  <2>2. \A i \in 1 .. o : nodes[0 + i] = nodes[i]
    BY <2>1
  <2>. QED  BY <1>3, <1>7, <2>2 DEF Joins
<1>9. ToSet(out) \cap nobody = {}
  BY <1>2
<1>10. Joins(nodes, none, AtDepth(out, depth))
  BY <1>5, <1>8
<1>11. /\ FromName(nodes) <=> FromName(none)
       /\ IsFiniteSet(nobody \cup ToSet(out))
       /\ Cardinality(nobody \cup ToSet(out)) = Cardinality(nobody) + Len(out)
       /\ NodesOnce(nodes, nobody \cup ToSet(out))
  <2>1. depth # 0
    BY <1>5
  <2>2. NodesOnce(none, nobody)
    BY <1>3
  <2>3. IsFiniteSet(nobody)
    BY <1>4
  <2>. QED  BY <2>1, <2>2, <2>3, <1>9, <1>10, NodesGrow
<1>12. nobody \cup ToSet(out) = roots
  BY <1>2
<1>13. roots \in SUBSET Nat
  BY Elements
<1>14. Steps(none, depth) = 0 /\ Steps(nodes, 1) = 0
  BY <1>3, <1>5, <1>11 DEF Steps
<1>15. Within(roots, edges, 0) = roots
  BY <1>13, WithinSteps
<1>16. \A n \in ToSet(out) : n \in Within(roots, edges, Steps(none, depth))
  BY <1>14, <1>15
<1>17. NodesReach(nodes, roots, edges)
  <2>1. depth # 0
    BY <1>5
  <2>2. NodesReach(none, roots, edges)
    BY <1>3
  <2>3. FromName(nodes) <=> FromName(none)
    BY <1>11
  <2>. QED  BY <2>1, <2>2, <2>3, <1>10, <1>16, NodesGrowReach
<1>18. Cardinality(roots) = Len(out)
  <2>1. Cardinality(roots) = Cardinality(nobody) + Len(out)
    BY <1>11, <1>12
  <2>2. 0 + Len(out) = Len(out)
    BY <1>6
  <2>. QED  BY <1>4, <2>1, <2>2
<1>. QED  BY <1>3, <1>11, <1>12, <1>13, <1>14, <1>15, <1>17, <1>18

(* The nodes of a walk from a document: the names its chunks mention.       *)
LEMMA WalkReadsMentions ==
  ASSUME RowsTyped, SeenCovers, ReaderTyped, WalkSteps, WalkMentions
  PROVE  reader' \in Walks /\ WalkSteps'
<1>1. /\ reader \in Walks /\ reader.stage = "mentions" /\ reader.kind = "walk"
      /\ UNCHANGED <<docs, entities, mentions, related, writes, seen, calm>>
  BY DEF WalkMentions, ReaderTyped, Query
<1>2. PICK names : names = {m[2] : m \in Of(reader.at)}
  OBVIOUS
<1>3. names \in SUBSET Nat /\ IsFiniteSet(names)
  <2>1. PICK ms \in SUBSET mentions : ms = Of(reader.at)
    BY DEF Of
  <2>2. IsFiniteSet(ms) /\ \A m \in ms : m[2] \in Nat
    BY FS_Subset DEF RowsTyped, Mention
  <2>3. PICK f : f = [m \in ms |-> m[2]]
    OBVIOUS
  <2>4. DOMAIN f = ms /\ f = [m \in ms |-> f[m]] /\ {f[m] : m \in ms} = names
    BY <1>2, <2>1, <2>3
  <2>5. IsFiniteSet(names)
    BY <2>2, <2>4, ImageIsFinite
  <2>. QED  BY <1>2, <2>1, <2>2, <2>5
<1>. DEFINE Emits(out) ==
         reader' = [reader EXCEPT
            !.start = ToSet(out), !.emitted = ToSet(out), !.d = 1,
            !.nodes = AtDepth(out, 1),
            !.at = IF out = <<>> THEN 0 ELSE out[1],
            !.stage = IF out = <<>> \/ Depth <= 1 THEN "done" ELSE "loop"]
<1>25. PICK order \in SetToSeqs(New(names)) : Emits(Emit(order))
  BY <1>2 DEF WalkMentions, AtDepth
<1>4. PICK out : out = Emit(order) /\ Emits(out)
  BY <1>25
<1>5. PICK edges \in SUBSET Edge : edges = Wanted(reader, seen.related)
  BY DEF Wanted, SeenCovers
<1>6. WalkStands(reader, edges)
  BY <1>1, <1>5 DEF WalkSteps
<1>7. reader.emitted = {} /\ reader.nodes = <<>> /\ reader.edges = {}
  BY <1>1, <1>6 DEF WalkStands
<1>8. IsFiniteSet({}) /\ Cardinality({}) = 0 /\ 0 <= Limit
  BY FS_EmptySet, GraphAssumption
<1>9. /\ out \in Seq(Nat) /\ OnceEach(out) /\ Len(out) \in Nat
      /\ Cardinality({}) + Len(out) <= Limit
  BY <1>3, <1>4, <1>7, <1>8, Emitted
<1>10. PICK new \in SUBSET Nat : new = ToSet(out) /\ \A i \in 1 .. Len(out) : out[i] \in new
  BY <1>9, Elements
<1>11. PICK nodes : nodes = AtDepth(out, 1)
  OBVIOUS
<1>12. nodes \in Seq(Nat \X Nat) /\ Len(nodes) = Len(out)
  BY <1>9, <1>11, AtDepthProperties
<1>13. /\ IsFiniteSet(new) /\ Cardinality(new) = Len(out)
       /\ NodesOnce(nodes, new) /\ NodesReach(nodes, new, edges)
       /\ Within(new, edges, Steps(nodes, 1)) = new
  BY <1>9, <1>10, <1>11, NodesFirst
<1>14. Cardinality(new) <= Limit
  BY <1>8, <1>9, <1>13
<1>20. out # <<>> => out[1] \in new /\ nodes # <<>>
  <2>1. out # <<>> => Len(out) # 0
    BY <1>9, EmptySeq
  <2>2. out # <<>> => 1 \in 1 .. Len(out) /\ nodes # <<>>
    BY <1>9, <1>12, <2>1, EmptySeq
  <2>. QED  BY <1>10, <2>2
<1>21. PICK at \in Nat, stage \in {"mentions", "loop", "done"} :
         /\ at = IF out = <<>> THEN 0 ELSE out[1]
         /\ stage = IF out = <<>> \/ Depth <= 1 THEN "done" ELSE "loop"
  BY <1>20
<1>22. /\ reader' \in Walks
       /\ reader'.start = new /\ reader'.emitted = new /\ reader'.d = 1
       /\ reader'.nodes = nodes /\ reader'.at = at /\ reader'.stage = stage
       /\ reader'.edges = {} /\ reader'.relation = reader.relation
  <2>1. reader' = [reader EXCEPT !.start = new, !.emitted = new, !.d = 1,
                                 !.nodes = nodes, !.at = at, !.stage = stage]
    BY <1>4, <1>10, <1>11, <1>21
  <2>. QED  BY <1>1, <1>7, <1>12, <2>1 DEF Walks
<1>23. PICK next : next = reader'
  OBVIOUS
<1>24. WalkStands(next, edges)
  <2>1. stage # "mentions" /\ (stage = "loop" => out # <<>> /\ at = out[1])
    BY <1>21
  <2>2. IsFiniteSet(next.emitted) /\ Cardinality(next.emitted) <= Limit
    BY <1>13, <1>14, <1>22, <1>23
  <2>3. NodesOnce(next.nodes, next.emitted) /\ NodesReach(next.nodes, next.start, edges)
    BY <1>13, <1>22, <1>23
  <2>4. next.stage = "loop" =>
           next.nodes # <<>> /\ next.at \in Within(next.start, edges, Steps(next.nodes, next.d))
    BY <1>13, <1>20, <1>22, <1>23, <2>1
  <2>. QED  BY <1>22, <1>23, <2>1, <2>2, <2>3, <2>4 DEF WalkStands
<1>26. Wanted(reader', seen'.related) = edges
  BY <1>1, <1>5, <1>22 DEF Wanted
<1>. QED  BY <1>22, <1>23, <1>24, <1>26 DEF WalkSteps
(* The start as a node, at depth 0.                                         *)
LEMMA NodesStart ==
  ASSUME NEW at \in Nat, NEW roots \in SUBSET Nat, at \in roots, NEW edges \in SUBSET Edge,
         NEW nodes, nodes = Append(<<>>, <<at, 0>>)
  PROVE  /\ nodes \in Seq(Nat \X Nat) /\ FromName(nodes) /\ nodes # <<>>
         /\ NodesOnce(nodes, {}) /\ NodesReach(nodes, roots, edges)
         /\ at \in Within(roots, edges, Steps(nodes, 0))
<1>1. /\ nodes \in Seq(Nat \X Nat) /\ Len(nodes) = 1 /\ nodes[1] = <<at, 0>>
  OBVIOUS
<1>2. FromName(nodes) /\ nodes # <<>>
  <2>1. nodes # <<>>
    BY <1>1, EmptySeq
  <2>. QED  BY <1>1, <2>1 DEF FromName
<1>3. \A i \in 1 .. 1 : i = 1
  OBVIOUS
<1>4. Cardinality({}) = 0
  BY FS_EmptySet
<1>5. NodesOnce(nodes, {})
  <2>1. \A i, j \in 1 .. 1 : ~(i < j)
    BY <1>3
  <2>. QED  BY <1>1, <1>2, <1>3, <1>4, <2>1 DEF NodesOnce
<1>6. Within(roots, edges, 0) = roots
  BY WithinSteps
<1>7. Steps(nodes, 0) = 0
  BY <1>2 DEF Steps
<1>8. NodesReach(nodes, roots, edges)
  <2>1. nodes[1][1] = at /\ nodes[1][2] = 0
    BY <1>1
  <2>. QED  BY <1>1, <1>3, <1>6, <1>7, <2>1 DEF NodesReach
<1>. QED  BY <1>1, <1>2, <1>5, <1>6, <1>7, <1>8

(* The nodes before a turn of the loop, the start among them, and how far   *)
(* the current one is.                                                      *)
LEMMA WalkTurn ==
  ASSUME reader \in Walks, reader.stage = "loop", NEW edges \in SUBSET Edge,
         WalkStands(reader, edges)
  PROVE  LET nodes == IF reader.d = 0 THEN Append(reader.nodes, <<reader.at, 0>>)
                      ELSE reader.nodes
         IN  /\ nodes \in Seq(Nat \X Nat) /\ nodes # <<>>
             /\ NodesOnce(nodes, reader.emitted)
             /\ NodesReach(nodes, reader.start, edges)
             /\ Steps(nodes, reader.d) \in Nat /\ reader.at \in Nat
             /\ reader.at \in Within(reader.start, edges, Steps(nodes, reader.d))
<1>1. PICK roots \in SUBSET Nat, d \in Nat :
         roots = reader.start /\ d = reader.d
  BY DEF Walks
<1>2. PICK nodes : nodes = IF reader.d = 0 THEN Append(reader.nodes, <<reader.at, 0>>)
                           ELSE reader.nodes
  OBVIOUS
<1>3. CASE d = 0
  <2>1. reader.nodes = <<>> /\ reader.emitted = {} /\ reader.at \in roots
    BY <1>1, <1>3 DEF WalkStands
  <2>2. PICK at \in Nat : at = reader.at
    BY <1>1, <2>1
  <2>3. nodes = Append(<<>>, <<at, 0>>)
    BY <1>1, <1>2, <1>3, <2>1, <2>2
  <2>4. /\ nodes \in Seq(Nat \X Nat) /\ FromName(nodes) /\ nodes # <<>>
        /\ NodesOnce(nodes, {}) /\ NodesReach(nodes, roots, edges)
        /\ at \in Within(roots, edges, Steps(nodes, 0))
    BY <2>1, <2>2, <2>3, NodesStart
  <2>5. Steps(nodes, 0) = 0
    BY <2>4 DEF Steps
  <2>. QED  BY <1>1, <1>2, <1>3, <2>1, <2>2, <2>4, <2>5
<1>4. CASE d # 0
  <2>1. nodes = reader.nodes /\ nodes \in Seq(Nat \X Nat)
    BY <1>1, <1>2, <1>4 DEF Walks
  <2>2. nodes # <<>> /\ reader.at \in Within(roots, edges, Steps(nodes, d))
    BY <1>1, <1>4, <2>1 DEF WalkStands
  <2>3. NodesOnce(nodes, reader.emitted) /\ NodesReach(nodes, roots, edges)
    BY <1>1, <2>1 DEF WalkStands
  <2>4. PICK k \in Nat : k = Steps(nodes, d)
    BY <1>4 DEF Steps
  <2>5. Within(roots, edges, k) \in SUBSET Nat
    BY WithinSteps
  <2>6. reader.at \in Nat
    BY <2>2, <2>4, <2>5
  <2>. QED  BY <1>1, <1>2, <2>1, <2>2, <2>3, <2>4, <2>6
<1>. QED  BY <1>3, <1>4

(* The neighbours of the current node.                                      *)
LEMMA NeighboursReached ==
  ASSUME RowsTyped, SeenCovers, reader \in Walks, reader.at \in Nat
  PROVE  LET names == Next1(reader.at, reader.relation)
             edges == Wanted(reader, seen.related)
         IN  /\ names \in SUBSET Nat /\ IsFiniteSet(names)
             /\ \A n \in names : n \in Heads(edges, {reader.at})
                                 /\ <<reader.at, n>> \in {<<e[1], e[2]>> : e \in edges}
<1>1. PICK rows \in SUBSET related :
         rows = {r \in related : r[1] = reader.at /\ r[2] \in entities
                                 /\ reader.relation \in {"any", r[3]}}
  OBVIOUS
<1>2. IsFiniteSet(rows) /\ \A e \in rows : e[2] \in Nat
  BY FS_Subset DEF RowsTyped, Edge
<1>3. PICK names : names = {e[2] : e \in rows}
  OBVIOUS
<1>4. names = Next1(reader.at, reader.relation)
  BY <1>1, <1>3 DEF Next1
<1>5. names \in SUBSET Nat /\ IsFiniteSet(names)
  <2>1. PICK f : f = [e \in rows |-> e[2]]
    OBVIOUS
  <2>2. DOMAIN f = rows /\ f = [e \in rows |-> f[e]] /\ {f[e] : e \in rows} = names
    BY <1>3, <2>1
  <2>3. names \in SUBSET Nat
    BY <1>2, <1>3
  <2>4. IsFiniteSet(names)
    BY <1>2, <2>2, ImageIsFinite
  <2>. QED  BY <2>3, <2>4
<1>6. PICK edges : edges = Wanted(reader, seen.related)
  OBVIOUS
<1>7. \A e \in rows : e \in edges /\ e[1] = reader.at
  BY <1>1, <1>6 DEF Wanted, SeenCovers
<1>8. ASSUME NEW n \in names
      PROVE  n \in Heads(edges, {reader.at})
             /\ <<reader.at, n>> \in {<<e[1], e[2]>> : e \in edges}
  <2>1. PICK e \in rows : n = e[2]
    BY <1>3
  <2>2. e \in edges /\ e[1] = reader.at
    BY <1>7
  <2>. QED  BY <2>1, <2>2 DEF Heads
<1>. QED  BY <1>4, <1>5, <1>6, <1>8
(* A turn of the loop: the neighbours are one step further, and the walk    *)
(* goes on from the first of them or stays where it is.                     *)
LEMMA WalkTurns ==
  ASSUME RowsTyped, SeenCovers, ReaderTyped, WalkSteps, WalkStep
  PROVE  reader' \in Walks /\ WalkSteps'
<1>1. /\ reader \in Walks /\ reader.stage = "loop" /\ reader.kind = "walk"
      /\ UNCHANGED <<docs, entities, mentions, related, writes, seen, calm>>
  BY DEF WalkStep, ReaderTyped, Query
<1>2. PICK edges \in SUBSET Edge : edges = Wanted(reader, seen.related)
  BY DEF Wanted, SeenCovers
<1>3. WalkStands(reader, edges)
  BY <1>1, <1>2 DEF WalkSteps
<1>4. PICK roots \in SUBSET Nat, d \in Nat, emitted \in SUBSET Nat :
         roots = reader.start /\ d = reader.d /\ emitted = reader.emitted
  BY <1>1 DEF Walks
<1>5. PICK nodes : nodes = IF reader.d = 0 THEN Append(reader.nodes, <<reader.at, 0>>)
                           ELSE reader.nodes
  OBVIOUS
<1>6. /\ nodes \in Seq(Nat \X Nat) /\ nodes # <<>>
      /\ NodesOnce(nodes, emitted) /\ NodesReach(nodes, roots, edges)
      /\ Steps(nodes, d) \in Nat /\ reader.at \in Nat
      /\ reader.at \in Within(roots, edges, Steps(nodes, d))
  BY <1>1, <1>3, <1>4, <1>5, WalkTurn
<1>7. PICK at \in Nat, k \in Nat : at = reader.at /\ k = Steps(nodes, d)
  BY <1>6
<1>8. CASE reader.at \notin entities
  <2>1. PICK next : next = reader'
    OBVIOUS
  <2>2. next = [reader EXCEPT !.stage = "done"]
    BY <1>8, <2>1 DEF WalkStep
  <2>3. next \in Walks /\ next.kind = "walk" /\ next.relation = reader.relation
    BY <1>1, <2>2 DEF Walks
  <2>4. WalkStands(next, edges)
    <3>1. /\ next.emitted = reader.emitted /\ next.edges = reader.edges
          /\ next.nodes = reader.nodes /\ next.start = reader.start /\ next.stage = "done"
      BY <1>1, <2>2 DEF Walks
    <3>. QED  BY <1>3, <3>1 DEF WalkStands
  <2>5. Wanted(reader', seen'.related) = edges
    BY <1>1, <1>2, <2>1, <2>3 DEF Wanted
  <2>. QED  BY <2>1, <2>3, <2>4, <2>5 DEF WalkSteps
<1>9. CASE reader.at \in entities
  <2>1. PICK names : names = Next1(reader.at, reader.relation)
    OBVIOUS
  <2>2. /\ names \in SUBSET Nat /\ IsFiniteSet(names)
        /\ \A n \in names : /\ n \in Heads(edges, {at})
                            /\ <<at, n>> \in {<<e[1], e[2]>> : e \in edges}
    BY <1>1, <1>2, <1>7, <2>1, NeighboursReached
  <2>. DEFINE Follows(out, newFirst) == reader.d + 1 < Depth /\ out # <<>> /\ newFirst
              Looped(out, newFirst) ==
                reader' = [reader EXCEPT
                  !.nodes = (IF reader.d = 0 THEN Append(@, <<reader.at, 0>>) ELSE @)
                              \o AtDepth(out, reader.d + 1),
                  !.edges = @ \cup {<<reader.at, n>> : n \in ToSet(out)},
                  !.emitted = @ \cup ToSet(out),
                  !.at = IF Follows(out, newFirst) THEN out[1] ELSE @,
                  !.d = @ + 1,
                  !.stage = IF reader.d + 1 >= Depth THEN "done" ELSE @]
  <2>3. PICK order \in SetToSeqs(New(names)), newFirst \in BOOLEAN :
          Looped(Emit(order), newFirst)
    BY <1>9, <2>1, Zenon DEF WalkStep, AtDepth
  <2>33. PICK out : out = Emit(order) /\ Looped(out, newFirst)
    BY <2>3
  <2>34. PICK follows \in BOOLEAN : follows = Follows(out, newFirst)
    OBVIOUS
  <2>4. out = Emit(order) /\ (follows => out # <<>>)
    BY <2>33, <2>34
  <2>5. IsFiniteSet(emitted) /\ Cardinality(emitted) <= Limit
    BY <1>3, <1>4 DEF WalkStands
  <2>6. /\ out \in Seq(Nat) /\ OnceEach(out) /\ ToSet(out) \subseteq names
        /\ ToSet(out) \cap emitted = {}
        /\ Len(out) \in Nat /\ Cardinality(emitted) + Len(out) <= Limit
    BY <1>4, <2>2, <2>4, <2>5, Emitted
  <2>7. PICK new \in SUBSET Nat : new = ToSet(out) /\ \A i \in 1 .. Len(out) : out[i] \in new
    BY <2>6, Elements
  <2>8. PICK depth \in Nat : depth = d + 1 /\ depth # 0
    OBVIOUS
  <2>9. PICK more : more = AtDepth(out, depth)
    OBVIOUS
  <2>10. more \in Seq(Nat \X Nat)
    BY <2>6, <2>9, AtDepthProperties
  <2>11. PICK all : all = nodes \o more
    OBVIOUS
  <2>12. all \in Seq(Nat \X Nat) /\ Joins(all, nodes, more)
    BY <1>6, <2>10, <2>11, Joined
  <2>13. Joins(all, nodes, AtDepth(out, depth))
    BY <2>9, <2>12
  <2>14. PICK both \in SUBSET Nat : both = emitted \cup new
    OBVIOUS
  <2>15. /\ FromName(all) <=> FromName(nodes)
         /\ IsFiniteSet(both) /\ Cardinality(both) = Cardinality(emitted) + Len(out)
         /\ NodesOnce(all, both)
    <3>1. depth # 0
      BY <2>8
    <3>2. NodesOnce(nodes, emitted) /\ nodes \in Seq(Nat \X Nat)
      BY <1>6
    <3>3. IsFiniteSet(emitted)
      BY <2>5
    <3>4. out \in Seq(Nat) /\ OnceEach(out) /\ ToSet(out) \cap emitted = {}
      BY <2>6
    <3>5. /\ FromName(all) <=> FromName(nodes)
          /\ IsFiniteSet(emitted \cup ToSet(out))
          /\ Cardinality(emitted \cup ToSet(out)) = Cardinality(emitted) + Len(out)
          /\ NodesOnce(all, emitted \cup ToSet(out))
      BY <2>13, <3>1, <3>2, <3>3, <3>4, NodesGrow
    <3>6. emitted \cup ToSet(out) = both
      BY <2>7, <2>14
    <3>. QED  BY <3>5, <3>6
  <2>16. Steps(nodes, depth) = k + 1 /\ Steps(all, depth) = k + 1
    <3>1. Steps(nodes, depth) = Steps(nodes, d) + 1
      BY <2>8 DEF Steps
    <3>2. Steps(all, depth) = Steps(nodes, depth)
      BY <2>15 DEF Steps
    <3>. QED  BY <1>7, <3>1, <3>2
  <2>17. /\ Within(roots, edges, k) \in SUBSET Nat
         /\ Within(roots, edges, k + 1) =
              Within(roots, edges, k) \cup Heads(edges, Within(roots, edges, k))
    <3>1. Within(roots, edges, k + 1) =
              Within(roots, edges, k) \cup Heads(edges, Within(roots, edges, k))
      BY WithinGrows, Zenon
    <3>2. Within(roots, edges, k) \in SUBSET Nat
      BY WithinSteps
    <3>. QED  BY <3>1, <3>2
  <2>18. at \in Within(roots, edges, k)
    BY <1>6, <1>7
  <2>19. \A n \in new : n \in Within(roots, edges, k + 1)
    <3>1. PICK reached \in SUBSET Nat : reached = Within(roots, edges, k)
      BY <2>17
    <3>2. \A n \in Heads(edges, {at}) : n \in Heads(edges, reached)
      BY <2>18, <3>1 DEF Heads
    <3>. QED  BY <2>2, <2>6, <2>7, <2>17, <3>1, <3>2
  <2>20. NodesReach(all, roots, edges)
    <3>1. depth # 0
      BY <2>8
    <3>2. NodesReach(nodes, roots, edges) /\ nodes \in Seq(Nat \X Nat)
      BY <1>6
    <3>3. FromName(all) <=> FromName(nodes)
      BY <2>15
    <3>4. \A n \in ToSet(out) : n \in Within(roots, edges, Steps(nodes, depth))
      BY <2>7, <2>16, <2>19
    <3>5. out \in Seq(Nat)
      BY <2>6
    <3>. QED  BY <2>13, <3>1, <3>2, <3>3, <3>4, <3>5, NodesGrowReach
  <2>21. follows => out[1] \in new
    <3>1. out # <<>> => Len(out) # 0
      BY <2>6, EmptySeq
    <3>2. out # <<>> => 1 \in 1 .. Len(out)
      BY <2>6, <3>1
    <3>. QED  BY <2>4, <2>7, <3>2
  <2>22. PICK on \in Nat : on = IF follows THEN out[1] ELSE at
    BY <2>7, <2>21
  <2>23. on \in Within(roots, edges, Steps(all, depth))
    BY <2>16, <2>17, <2>18, <2>19, <2>21, <2>22
  <2>35. PICK pairs : pairs = reader.edges \cup {<<at, n>> : n \in new}
    OBVIOUS
  <2>24. pairs \in SUBSET (Nat \X Nat) /\ pairs \subseteq {<<e[1], e[2]>> : e \in edges}
    <3>1. \A n \in new : <<at, n>> \in {<<e[1], e[2]>> : e \in edges}
      BY <2>2, <2>6, <2>7
    <3>2. reader.edges \subseteq {<<e[1], e[2]>> : e \in edges}
      BY <1>3 DEF WalkStands
    <3>3. reader.edges \in SUBSET (Nat \X Nat)
      BY <1>1 DEF Walks
    <3>4. \A p \in pairs : p \in reader.edges \/ \E n \in new : p = <<at, n>>
      BY <2>35
    <3>5. \A p \in pairs : p \in Nat \X Nat
      BY <3>3, <3>4
    <3>6. \A p \in pairs : p \in {<<e[1], e[2]>> : e \in edges}
      BY <3>1, <3>2, <3>4
    <3>. QED  BY <3>5, <3>6
  <2>25. PICK stage \in {"loop", "done"} : stage = IF d + 1 >= Depth THEN "done" ELSE "loop"
    OBVIOUS
  <2>26. PICK next : next = reader'
    OBVIOUS
  <2>27. next = [reader EXCEPT !.nodes = all, !.edges = pairs, !.emitted = both, !.at = on,
                               !.d = depth, !.stage = stage]
    <3>1. reader.d = d /\ reader.at = at /\ reader.stage = "loop"
      BY <1>1, <1>4, <1>7
    <3>2. all = (IF reader.d = 0 THEN Append(reader.nodes, <<reader.at, 0>>) ELSE reader.nodes)
                  \o AtDepth(out, reader.d + 1)
      BY <1>5, <2>8, <2>9, <2>11, <3>1
    <3>3. /\ pairs = reader.edges \cup {<<reader.at, n>> : n \in ToSet(out)}
          /\ both = reader.emitted \cup ToSet(out)
      BY <1>4, <2>7, <2>14, <2>35, <3>1
    <3>4. /\ on = IF Follows(out, newFirst) THEN out[1] ELSE reader.at
          /\ depth = reader.d + 1
          /\ stage = IF reader.d + 1 >= Depth THEN "done" ELSE reader.stage
      BY <2>8, <2>22, <2>25, <2>34, <3>1
    <3>. HIDE DEF Follows
    <3>. QED  BY <2>26, <2>33, <3>2, <3>3, <3>4
  <2>28. /\ next \in Walks /\ next.kind = "walk" /\ next.relation = reader.relation
         /\ next.nodes = all /\ next.edges = pairs /\ next.emitted = both /\ next.at = on
         /\ next.d = depth /\ next.stage = stage /\ next.start = roots
    <3>1. reader \in Walks /\ reader.kind = "walk" /\ reader.start = roots
      BY <1>1, <1>4
    <3>2. pairs \in SUBSET (Nat \X Nat) /\ all \in Seq(Nat \X Nat) /\ on \in Nat \cup Docs
      BY <2>12, <2>24
    <3>. QED  BY <2>27, <3>1, <3>2 DEF Walks
  <2>29. Cardinality(both) <= Limit
    BY <2>6, <2>15
  <2>30. all # <<>>
    <3>1. PICK b \in Nat, o \in Nat, l \in Nat : b = Len(nodes) /\ o = Len(more) /\ l = Len(all)
      BY <1>6, <2>10, <2>12
    <3>2. b # 0
      BY <1>6, <3>1, EmptySeq
    <3>3. l = b + o
      BY <2>12, <3>1 DEF Joins
    <3>4. l # 0
      BY <3>2, <3>3
    <3>. QED  BY <3>1, <3>4, EmptySeq
  <2>31. WalkStands(next, edges)
    <3>1. IsFiniteSet(next.emitted) /\ Cardinality(next.emitted) <= Limit
      BY <2>15, <2>28, <2>29
    <3>2. NodesOnce(next.nodes, next.emitted) /\ NodesReach(next.nodes, next.start, edges)
      BY <2>15, <2>20, <2>28
    <3>3. next.edges \subseteq {<<e[1], e[2]>> : e \in edges}
      BY <2>24, <2>28
    <3>4. /\ next.stage # "mentions" /\ next.d # 0 /\ next.nodes # <<>>
          /\ next.at \in Within(next.start, edges, Steps(next.nodes, next.d))
      BY <2>8, <2>23, <2>28, <2>30
    <3>. QED  BY <3>1, <3>2, <3>3, <3>4 DEF WalkStands
  <2>32. Wanted(reader', seen'.related) = edges
    BY <1>1, <1>2, <2>26, <2>28 DEF Wanted
  <2>. QED  BY <2>26, <2>28, <2>31, <2>32 DEF WalkSteps
<1>. QED  BY <1>8, <1>9

(* What is written meanwhile only adds edges to those there were.           *)
LEMMA WalkOutlivesWrites ==
  ASSUME SeenCovers, SeenCovers', ReaderTyped, WalkSteps, reader' = reader,
         seen.related \subseteq seen'.related
  PROVE  WalkSteps'
<1>1. CASE reader.kind # "walk"
  BY <1>1 DEF WalkSteps
<1>2. CASE reader.kind = "walk"
  <2>1. reader \in Walks
    BY <1>2 DEF ReaderTyped
  <2>2. PICK edges \in SUBSET Edge : edges = Wanted(reader, seen.related)
    BY DEF Wanted, SeenCovers
  <2>3. PICK more \in SUBSET Edge : more = Wanted(reader, seen'.related)
    BY DEF Wanted, SeenCovers
  <2>4. edges \subseteq more
    BY <2>2, <2>3 DEF Wanted
  <2>5. WalkStands(reader, edges)
    BY <1>2, <2>2 DEF WalkSteps
  <2>6. PICK roots \in SUBSET Nat, d \in Nat, nodes \in Seq(Nat \X Nat), emitted \in SUBSET Nat :
           roots = reader.start /\ d = reader.d /\ nodes = reader.nodes /\ emitted = reader.emitted
    <3>1. PICK nodes \in Seq(Nat \X Nat) : nodes = reader.nodes
      BY <2>1 DEF Walks
    <3>. QED  BY <2>1, <3>1 DEF Walks
  <2>7. NodesOnce(nodes, emitted) /\ NodesReach(nodes, roots, edges)
    BY <2>5, <2>6 DEF WalkStands
  <2>8. NodesReach(nodes, roots, more)
    BY <2>4, <2>7, NodesReachMore
  <2>9. reader.edges \subseteq {<<e[1], e[2]>> : e \in more}
    BY <2>4, <2>5 DEF WalkStands
  <2>10. ASSUME reader.stage = "loop", d # 0
         PROVE  reader.at \in Within(roots, more, Steps(nodes, d))
    <3>1. reader.at \in Within(roots, edges, Steps(nodes, d))
      BY <2>5, <2>6, <2>10 DEF WalkStands
    <3>2. PICK k \in Nat : k = Steps(nodes, d)
      BY <2>10 DEF Steps
    <3>3. Within(roots, edges, k) \subseteq Within(roots, more, k)
      BY <2>4, WithinMore
    <3>. QED  BY <3>1, <3>2, <3>3
  <2>11. WalkStands(reader, more)
    BY <2>5, <2>6, <2>8, <2>9, <2>10 DEF WalkStands
  <2>12. Wanted(reader', seen'.related) = more
    BY <2>3
  <2>. QED  BY <2>11, <2>12 DEF WalkSteps
<1>. QED  BY <1>1, <1>2

(* The walk is connected.                                                   *)
LEMMA WalkConnected ==
  ASSUME ReaderTyped, WalkSteps
  PROVE  WalkIsConnected
<1>1. SUFFICES ASSUME reader.kind = "walk"
               PROVE  WalkIsConnected
  BY DEF WalkIsConnected
<1>2. PICK nodes \in Seq(Nat \X Nat) : nodes = reader.nodes
  BY <1>1 DEF ReaderTyped, Walks
<1>3. PICK edges : edges = Wanted(reader, seen.related)
  OBVIOUS
<1>4. WalkStands(reader, edges)
  BY <1>1, <1>3 DEF WalkSteps
<1>5. NodesOnce(nodes, reader.emitted) /\ NodesReach(nodes, reader.start, edges)
  BY <1>2, <1>4 DEF WalkStands
<1>6. /\ \A i, j \in 1 .. Len(nodes) :
            i < j /\ nodes[i][1] = nodes[j][1] => nodes[i][2] = 0
      /\ Len(nodes) = Cardinality(reader.emitted) + IF FromName(nodes) THEN 1 ELSE 0
  BY <1>5 DEF NodesOnce
<1>7. \A i \in 1 .. Len(nodes) :
         nodes[i][1] \in Within(reader.start, edges, Steps(nodes, nodes[i][2]))
  BY <1>5 DEF NodesReach
<1>8. Len(nodes) <= Limit + 1
  <2>1. PICK c \in Nat, l \in Nat : c = Cardinality(reader.emitted) /\ l = Limit /\ c <= l
    BY <1>4, FS_CardinalityType, GraphAssumption DEF WalkStands
  <2>. QED  BY <1>6, <2>1
<1>9. reader.edges \subseteq {<<e[1], e[2]>> : e \in edges}
  BY <1>4 DEF WalkStands
<1>10. \A k : Steps(nodes, k) = IF nodes # <<>> /\ nodes[1][2] = 0 THEN k ELSE k - 1
  BY DEF Steps, FromName
<1>11. \A i \in 1 .. Len(nodes) :
          nodes[i][1] \in Within(reader.start, edges,
             IF nodes # <<>> /\ nodes[1][2] = 0 THEN nodes[i][2] ELSE nodes[i][2] - 1)
  BY <1>7, <1>10
<1>12. edges = {e \in seen.related : reader.relation \in {"any", e[3]}}
  BY <1>3 DEF Wanted
<1>. QED  BY <1>2, <1>6, <1>8, <1>9, <1>11, <1>12 DEF WalkIsConnected
-----------------------------------------------------------------------------
(* The expansion *)

(* The names of a frontier.                                                 *)
NamesOf(f) == {f[i][2] : i \in 1 .. Len(f)}

(* A pair is its parts.                                                     *)
LEMMA PairParts ==
  ASSUME NEW p \in Nat \X Nat
  PROVE  p = <<p[1], p[2]>>
  OBVIOUS

(* Positions are ordered by hop, name and place.                            *)
LEMMA CappedOrders ==
  ASSUME NEW f \in Seq(Nat \X Nat), NEW R,
         R = {t \in (1 .. Len(f)) \X (1 .. Len(f)) :
                \/ f[t[1]][1] < f[t[2]][1]
                \/ f[t[1]][1] = f[t[2]][1] /\ f[t[1]][2] < f[t[2]][2]
                \/ f[t[1]] = f[t[2]] /\ t[1] < t[2]}
  PROVE  StrictOrder(R, 1 .. Len(f))
<1>1. PICK n \in Nat : n = Len(f)
  OBVIOUS
<1>10. PICK hop : hop = [i \in 1 .. n |-> f[i][1]]
  OBVIOUS
<1>2. hop \in [1 .. n -> Nat] /\ \A i \in 1 .. n : hop[i] = f[i][1]
  <2>1. \A i \in 1 .. n : f[i] \in Nat \X Nat
    BY <1>1
  <2>2. \A i \in 1 .. n : f[i][1] \in Nat
    BY <2>1
  <2>3. \A i \in 1 .. n : hop[i] = f[i][1]
    BY <1>10
  <2>4. hop \in [1 .. n -> Nat]
    BY <1>10, <2>2
  <2>. QED  BY <2>3, <2>4
<1>11. PICK name : name = [i \in 1 .. n |-> f[i][2]]
  OBVIOUS
<1>3. name \in [1 .. n -> Nat] /\ \A i \in 1 .. n : name[i] = f[i][2]
  <2>1. \A i \in 1 .. n : f[i] \in Nat \X Nat
    BY <1>1
  <2>2. \A i \in 1 .. n : f[i][2] \in Nat
    BY <2>1
  <2>3. \A i \in 1 .. n : name[i] = f[i][2]
    BY <1>11
  <2>4. name \in [1 .. n -> Nat]
    BY <1>11, <2>2
  <2>. QED  BY <2>3, <2>4
<1>4. ASSUME NEW i \in 1 .. n, NEW j \in 1 .. n
      PROVE  f[i] = f[j] <=> hop[i] = hop[j] /\ name[i] = name[j]
  <2>1. f[i] \in Nat \X Nat /\ f[j] \in Nat \X Nat
    BY <1>1
  <2>2. f[i] = <<f[i][1], f[i][2]>> /\ f[j] = <<f[j][1], f[j][2]>>
    BY <2>1, PairParts
  <2>3. hop[i] = f[i][1] /\ hop[j] = f[j][1] /\ name[i] = f[i][2] /\ name[j] = f[j][2]
    BY <1>2, <1>3
  <2>. QED  BY <2>2, <2>3
<1>5. ASSUME NEW i \in 1 .. n, NEW j \in 1 .. n
      PROVE  <<i, j>> \in R <=> \/ hop[i] < hop[j]
                                \/ hop[i] = hop[j] /\ name[i] < name[j]
                                \/ hop[i] = hop[j] /\ name[i] = name[j] /\ i < j
  <2>1. f[i][1] = hop[i] /\ f[i][2] = name[i] /\ f[j][1] = hop[j] /\ f[j][2] = name[j]
    BY <1>2, <1>3
  <2>2. <<i, j>> \in R <=> \/ f[i][1] < f[j][1]
                           \/ f[i][1] = f[j][1] /\ f[i][2] < f[j][2]
                           \/ f[i] = f[j] /\ i < j
    BY <1>1
  <2>3. f[i] = f[j] <=> hop[i] = hop[j] /\ name[i] = name[j]
    BY <1>4
  <2>. QED  BY <2>1, <2>2, <2>3, Zenon
<1>6. \A i \in 1 .. n : hop[i] \in Nat /\ name[i] \in Nat
  BY <1>2, <1>3
<1>7. \A x \in 1 .. n : <<x, x>> \notin R
  BY <1>5, <1>6
<1>8. ASSUME NEW x \in 1 .. n, NEW y \in 1 .. n
      PROVE  x = y \/ <<x, y>> \in R \/ <<y, x>> \in R
  <2>4. PICK hx, hy \in Nat : hx = hop[x] /\ hy = hop[y]
    BY <1>6
  <2>5. PICK nx, ny \in Nat : nx = name[x] /\ ny = name[y]
    BY <1>6
  <2>1. hx = hop[x] /\ hy = hop[y] /\ nx = name[x] /\ ny = name[y]
    BY <2>4, <2>5
  <2>2. /\ <<x, y>> \in R <=> hx < hy \/ (hx = hy /\ nx < ny) \/ (hx = hy /\ nx = ny /\ x < y)
        /\ <<y, x>> \in R <=> hy < hx \/ (hy = hx /\ ny < nx) \/ (hy = hx /\ ny = nx /\ y < x)
    <3>11. <<x, y>> \in R <=> hop[x] < hop[y] \/ (hop[x] = hop[y] /\ name[x] < name[y])
                          \/ (hop[x] = hop[y] /\ name[x] = name[y] /\ x < y)
      BY <1>5
    <3>12. <<x, y>> \in R <=> hx < hy \/ (hx = hy /\ nx < ny) \/ (hx = hy /\ nx = ny /\ x < y)
      BY <2>1, <3>11
    <3>21. <<y, x>> \in R <=> hop[y] < hop[x] \/ (hop[y] = hop[x] /\ name[y] < name[x])
                          \/ (hop[y] = hop[x] /\ name[y] = name[x] /\ y < x)
      BY <1>5
    <3>22. <<y, x>> \in R <=> hy < hx \/ (hy = hx /\ ny < nx) \/ (hy = hx /\ ny = nx /\ y < x)
      BY <2>1, <3>21
    <3>. QED  BY <3>12, <3>22
  <2>3. PICK a, b \in Int : a = x /\ b = y
    OBVIOUS
  <2>. QED  BY <2>2, <2>3
<1>9. ASSUME NEW x \in 1 .. n, NEW y \in 1 .. n, NEW z \in 1 .. n,
             <<x, y>> \in R, <<y, z>> \in R
      PROVE  <<x, z>> \in R
  <2>4. PICK hx, hy, hz \in Nat : hx = hop[x] /\ hy = hop[y] /\ hz = hop[z]
    BY <1>6
  <2>5. PICK nx, ny, nz \in Nat : nx = name[x] /\ ny = name[y] /\ nz = name[z]
    BY <1>6
  <2>1. /\ hx = hop[x] /\ hy = hop[y] /\ hz = hop[z]
        /\ nx = name[x] /\ ny = name[y] /\ nz = name[z]
    BY <2>4, <2>5
  <2>2. /\ hx < hy \/ (hx = hy /\ nx < ny) \/ (hx = hy /\ nx = ny /\ x < y)
        /\ hy < hz \/ (hy = hz /\ ny < nz) \/ (hy = hz /\ ny = nz /\ y < z)
        /\ <<x, z>> \in R <=> hx < hz \/ (hx = hz /\ nx < nz) \/ (hx = hz /\ nx = nz /\ x < z)
    <3>11. <<x, y>> \in R <=> hop[x] < hop[y] \/ (hop[x] = hop[y] /\ name[x] < name[y])
                          \/ (hop[x] = hop[y] /\ name[x] = name[y] /\ x < y)
      BY <1>5
    <3>12. <<x, y>> \in R <=> hx < hy \/ (hx = hy /\ nx < ny) \/ (hx = hy /\ nx = ny /\ x < y)
      BY <2>1, <3>11
    <3>21. <<y, z>> \in R <=> hop[y] < hop[z] \/ (hop[y] = hop[z] /\ name[y] < name[z])
                          \/ (hop[y] = hop[z] /\ name[y] = name[z] /\ y < z)
      BY <1>5
    <3>22. <<y, z>> \in R <=> hy < hz \/ (hy = hz /\ ny < nz) \/ (hy = hz /\ ny = nz /\ y < z)
      BY <2>1, <3>21
    <3>31. <<x, z>> \in R <=> hop[x] < hop[z] \/ (hop[x] = hop[z] /\ name[x] < name[z])
                          \/ (hop[x] = hop[z] /\ name[x] = name[z] /\ x < z)
      BY <1>5
    <3>32. <<x, z>> \in R <=> hx < hz \/ (hx = hz /\ nx < nz) \/ (hx = hz /\ nx = nz /\ x < z)
      BY <2>1, <3>31
    <3>. QED  BY <1>9, <3>12, <3>22, <3>32
  <2>3. PICK a, b, c \in Int : a = x /\ b = y /\ c = z
    OBVIOUS
  <2>. QED  BY <2>2, <2>3
<1>12. \A x, y, z \in 1 .. n : <<x, y>> \in R /\ <<y, z>> \in R => <<x, z>> \in R
  BY <1>9, Zenon
<1>13. StrictOrder(R, 1 .. n)
  BY <1>7, <1>8, <1>12, Zenon DEF StrictOrder
<1>. QED  BY <1>1, <1>13

(* The cap takes nodes of the frontier, and leaves a short one as it is.    *)
LEMMA CappedProperties ==
  ASSUME NEW f \in Seq(Nat \X Nat)
  PROVE  /\ Capped(f) \in Seq(Nat \X Nat)
         /\ NamesOf(Capped(f)) \subseteq NamesOf(f)
         /\ Len(f) <= FrontierMax => Capped(f) = f
<1>1. PICK n \in Nat, max \in Nat : n = Len(f) /\ max = FrontierMax
  <2>1. Len(f) \in Nat
    OBVIOUS
  <2>2. FrontierMax \in Nat
    BY GraphAssumption
  <2>. QED  BY <2>1, <2>2
<1>2. CASE n <= max
  <2>1. Capped(f) = f
    BY <1>1, <1>2 DEF Capped
  <2>. QED  BY <2>1
<1>3. CASE ~(n <= max)
  <2>. DEFINE S == 1 .. Len(f)
              R == {t \in S \X S : \/ f[t[1]][1] < f[t[2]][1]
                                   \/ f[t[1]][1] = f[t[2]][1] /\ f[t[1]][2] < f[t[2]][2]
                                   \/ f[t[1]] = f[t[2]] /\ t[1] < t[2]}
              closer(i, j) == \/ f[i][1] < f[j][1]
                              \/ f[i][1] = f[j][1] /\ f[i][2] < f[j][2]
                              \/ f[i] = f[j] /\ i < j
  <2>1. StrictOrder(R, S)
    BY CappedOrders
  <2>2. \A i, j \in S : <<i, j>> \in R <=> closer(i, j)
    OBVIOUS
  <2>3. PICK e : e = [k \in 1 .. Cardinality(S) |->
                        CHOOSE x \in S : Cardinality({y \in S : closer(y, x)}) = k - 1]
    OBVIOUS
  <2>4. Capped(f) = [k \in 1 .. FrontierMax |-> f[e[k]]]
    BY <1>1, <1>3, <2>3 DEF Capped, InOrder
  <2>5. \A x \in S : {y \in S : closer(y, x)} = {y \in S : <<y, x>> \in R}
    BY <2>2
  <2>. HIDE DEF R, closer
  <2>6. \A x \in S : Cardinality({y \in S : closer(y, x)}) = Ranks(R, S)[x]
    BY <2>5 DEF Ranks
  <2>7. IsFiniteSet(S) /\ Cardinality(S) = n
    BY <1>1, Interval
  <2>. HIDE DEF S
  <2>8. ByRank(e, R, S)
    <3>1. ASSUME NEW k \in 1 .. Cardinality(S), NEW x \in S, Ranks(R, S)[x] = k - 1
          PROVE  e[k] \in S /\ Ranks(R, S)[e[k]] = k - 1
      <4>1. Cardinality({y \in S : closer(y, x)}) = k - 1
        BY <2>6, <3>1
      <4>2. e[k] = CHOOSE z \in S : Cardinality({y \in S : closer(y, z)}) = k - 1
        BY <2>3
      <4>3. e[k] \in S /\ Cardinality({y \in S : closer(y, e[k])}) = k - 1
        BY <4>1, <4>2
      <4>. QED  BY <2>6, <4>3
    <3>. QED  BY <3>1 DEF ByRank
  <2>9. Lists(e, R, S)
    BY <2>1, <2>7, <2>8, Enumeration
  <2>10. \A k \in 1 .. max : e[k] \in 1 .. n
    <3>1. \A k \in 1 .. n : e[k] \in S
      BY <2>7, <2>9 DEF Lists
    <3>2. \A k \in 1 .. max : k \in 1 .. n
      BY <1>3
    <3>. QED  BY <1>1, <3>1, <3>2 DEF S
  <2>11. PICK capped : capped = Capped(f)
    OBVIOUS
  <2>12. capped = [k \in 1 .. max |-> f[e[k]]]
    BY <1>1, <2>4, <2>11
  <2>13. \A k \in 1 .. max : f[e[k]] \in Nat \X Nat
    BY <1>1, <2>10
  <2>14. capped \in [1 .. max -> Nat \X Nat]
    BY <2>12, <2>13
  <2>15. capped \in Seq(Nat \X Nat) /\ Len(capped) = max
    BY <2>14, FunctionIsSeq
  <2>16. NamesOf(capped) \subseteq NamesOf(f)
    <3>1. \A k \in 1 .. max : capped[k] = f[e[k]]
      BY <2>12
    <3>2. NamesOf(capped) = {capped[k][2] : k \in 1 .. max}
      BY <2>15 DEF NamesOf
    <3>3. NamesOf(f) = {f[i][2] : i \in 1 .. n}
      BY <1>1 DEF NamesOf
    <3>. QED  BY <2>10, <3>1, <3>2, <3>3
  <2>. QED  BY <1>1, <1>3, <2>11, <2>15, <2>16
<1>. QED  BY <1>2, <1>3

(* Names as the frontier of one hop.                                        *)
LEMMA AtHopProperties ==
  ASSUME NEW names \in SUBSET Nat, IsFiniteSet(names), NEW hop \in Nat
  PROVE  AtHop(hop, names) \in Seq(Nat \X Nat) /\ NamesOf(AtHop(hop, names)) = names
<1>1. PICK s : s = SetToSeq(names)
  OBVIOUS
<1>2. s \in Seq(names) /\ ToSet(s) = names
  BY <1>1, SetToSeqProperties
<1>3. PICK n \in Nat : n = Len(s)
  BY <1>2
<1>4. /\ \A i \in 1 .. n : s[i] \in names
      /\ \A x \in names : \E i \in 1 .. n : s[i] = x
  BY <1>2, <1>3, Elements
<1>5. PICK f : f = AtHop(hop, names)
  OBVIOUS
<1>6. f = [i \in 1 .. n |-> <<hop, s[i]>>]
  BY <1>1, <1>3, <1>5 DEF AtHop
<1>7. f \in [1 .. n -> Nat \X Nat]
  BY <1>4, <1>6
<1>8. f \in Seq(Nat \X Nat) /\ Len(f) = n
  BY <1>7, FunctionIsSeq
<1>9. NamesOf(f) = {f[i][2] : i \in 1 .. n}
  BY <1>8 DEF NamesOf
<1>10. \A i \in 1 .. n : f[i][2] = s[i]
  BY <1>6
<1>11. NamesOf(f) = names
  <2>1. \A x \in NamesOf(f) : x \in names
    BY <1>4, <1>9, <1>10
  <2>2. ASSUME NEW x \in names PROVE x \in NamesOf(f)
    <3>1. PICK i \in 1 .. n : s[i] = x
      BY <1>4
    <3>2. f[i][2] = x
      BY <1>10, <3>1
    <3>. QED  BY <1>9, <3>2
  <2>. QED  BY <2>1, <2>2
<1>. QED  BY <1>5, <1>8, <1>11

(* The rows of a hop add the names they lead to.                            *)
AfterHop(frontier, hop, rows) == frontier \o [i \in 1 .. Len(rows) |-> <<hop, rows[i][2]>>]

Tails(rows) == {e[2] : e \in rows}

(* A hop adds the names its rows lead to.                                    *)
LEMMA HopAdds ==
  ASSUME NEW frontier \in Seq(Nat \X Nat), NEW hop \in Nat, NEW found \in SUBSET Edge,
         NEW rows \in Seq(found), ToSet(rows) = found
  PROVE  /\ AfterHop(frontier, hop, rows) \in Seq(Nat \X Nat)
         /\ NamesOf(AfterHop(frontier, hop, rows)) = NamesOf(frontier) \cup Tails(found)
<1>15. PICK f : f = AfterHop(frontier, hop, rows)
  OBVIOUS
<1>1. PICK b \in Nat, o \in Nat : b = Len(frontier) /\ o = Len(rows)
  OBVIOUS
<1>2. /\ \A i \in 1 .. o : rows[i] \in found
      /\ \A x \in found : \E i \in 1 .. o : rows[i] = x
  BY <1>1, Elements
<1>3. PICK more : more = [i \in 1 .. o |-> <<hop, rows[i][2]>>]
  OBVIOUS
<1>4. \A i \in 1 .. o : rows[i][2] \in Nat
  <2>1. \A e \in found : e[2] \in Nat
    BY DEF Edge
  <2>. QED  BY <1>2, <2>1
<1>5. more \in [1 .. o -> Nat \X Nat]
  BY <1>3, <1>4
<1>6. more \in Seq(Nat \X Nat) /\ Len(more) = o
  BY <1>5, FunctionIsSeq
<1>7. f = frontier \o more
  BY <1>1, <1>3, <1>15 DEF AfterHop
<1>8. f \in Seq(Nat \X Nat) /\ Joins(f, frontier, more)
  BY <1>6, <1>7, Joined
<1>9. /\ Len(f) = b + o
      /\ \A i \in 1 .. b : f[i] = frontier[i] /\ i \in 1 .. b + o
      /\ \A i \in 1 .. o : f[b + i] = more[i] /\ b + i \in 1 .. b + o
      /\ \A i \in 1 .. b + o : i \in 1 .. b \/ \E j \in 1 .. o : i = b + j
  <2>1. /\ Len(f) = b + o
        /\ \A i \in 1 .. b : f[i] = frontier[i]
        /\ \A i \in 1 .. o : f[b + i] = more[i]
    BY <1>1, <1>6, <1>8 DEF Joins
  <2>2. /\ \A i \in 1 .. b : i \in 1 .. b + o
        /\ \A i \in 1 .. o : b + i \in 1 .. b + o
    OBVIOUS
  <2>. QED  BY <2>1, <2>2, JoinedParts
<1>10. \A i \in 1 .. o : more[i][2] = rows[i][2]
  BY <1>3
<1>11. NamesOf(f) = {f[i][2] : i \in 1 .. b + o} /\ NamesOf(frontier) = {frontier[i][2] : i \in 1 .. b}
  BY <1>1, <1>9 DEF NamesOf
<1>12. ASSUME NEW n \in NamesOf(f)
       PROVE  n \in NamesOf(frontier) \cup Tails(found)
  <2>1. PICK i \in 1 .. b + o : n = f[i][2]
    BY <1>11, <1>12
  <2>2. CASE i \in 1 .. b
    BY <1>9, <1>11, <2>1, <2>2
  <2>3. CASE \E j \in 1 .. o : i = b + j
    <3>1. PICK j \in 1 .. o : i = b + j
      BY <2>3
    <3>2. n = rows[j][2] /\ rows[j] \in found
      BY <1>2, <1>9, <1>10, <2>1, <3>1
    <3>. QED  BY <3>2 DEF Tails
  <2>. QED  BY <1>9, <2>2, <2>3
<1>13. ASSUME NEW n \in NamesOf(frontier)
       PROVE  n \in NamesOf(f)
  <2>1. PICK i \in 1 .. b : n = frontier[i][2]
    BY <1>11
  <2>. QED  BY <1>9, <1>11, <2>1
<1>14. ASSUME NEW e \in found
       PROVE  e[2] \in NamesOf(f)
  <2>1. PICK j \in 1 .. o : rows[j] = e
    BY <1>2
  <2>2. b + j \in 1 .. b + o /\ f[b + j] = more[j] /\ more[j][2] = e[2]
    BY <1>9, <1>10, <2>1
  <2>. QED  BY <1>11, <2>2
<1>16. NamesOf(f) = NamesOf(frontier) \cup Tails(found)
  BY <1>12, <1>13, <1>14 DEF Tails
<1>. QED  BY <1>8, <1>15, <1>16

(* What several sets of names reach together is what each of them reaches.  *)
LEMMA WithinUnion ==
  ASSUME NEW edges \in SUBSET Edge, NEW I, NEW part \in [I -> SUBSET Nat],
         NEW names \in SUBSET Nat, \A n : n \in names <=> \E i \in I : n \in part[i],
         NEW k \in Nat
  PROVE  \A n : n \in Within(names, edges, k) <=> \E i \in I : n \in Within(part[i], edges, k)
<1>. DEFINE Same(j) == \A n : n \in Within(names, edges, j) <=>
                                \E i \in I : n \in Within(part[i], edges, j)
            T == {j \in Nat : Same(j)}
<1>1. \A i \in I : part[i] \in SUBSET Nat
  OBVIOUS
<1>2. Same(0)
  <2>1. Within(names, edges, 0) = names
    BY WithinSteps
  <2>2. \A i \in I : Within(part[i], edges, 0) = part[i]
    BY <1>1, WithinSteps
  <2>. QED  BY <2>1, <2>2
<1>3. ASSUME NEW j \in Nat, Same(j)
      PROVE  Same(j + 1)
  <2>1. Within(names, edges, j + 1) =
          Within(names, edges, j) \cup Heads(edges, Within(names, edges, j))
    BY WithinSteps
  <2>2. \A i \in I : Within(part[i], edges, j + 1) =
          Within(part[i], edges, j) \cup Heads(edges, Within(part[i], edges, j))
    BY <1>1, WithinSteps
  <2>3. \A n : n \in Heads(edges, Within(names, edges, j)) <=>
               \E i \in I : n \in Heads(edges, Within(part[i], edges, j))
    BY <1>3 DEF Heads
  <2>. QED  BY <1>3, <2>1, <2>2, <2>3
<1>4. 0 \in T /\ \A j \in Nat : j \in T => j + 1 \in T
  <2>. HIDE DEF Same
  <2>. QED  BY <1>2, <1>3
<1>. HIDE DEF T
<1>5. \A j \in Nat : j \in T
  BY <1>4, NatSetInduction
<1>6. k \in T
  BY <1>5
<1>. QED  BY <1>6 DEF T

(* Names that lead to no other are all there is in reach.                   *)
LEMMA WithinStops ==
  ASSUME NEW names \in SUBSET Nat, NEW edges \in SUBSET Edge, NEW k \in Nat, NEW j \in 0 .. k,
         Heads(edges, Within(names, edges, j)) \subseteq Within(names, edges, j)
  PROVE  Within(names, edges, k) = Within(names, edges, j)
<1>. DEFINE T == {i \in Nat : Within(names, edges, j + i) = Within(names, edges, j)}
<1>1. 0 \in T
  BY j + 0 = j
<1>2. ASSUME NEW i \in Nat, i \in T
      PROVE  i + 1 \in T
  <2>1. j + i \in Nat /\ j + (i + 1) = (j + i) + 1 /\ i + 1 \in Nat
    OBVIOUS
  <2>2. PICK l \in Nat : l = j + i
    BY <2>1
  <2>3. Within(names, edges, l + 1) =
          Within(names, edges, l) \cup Heads(edges, Within(names, edges, l))
    BY WithinGrows, Zenon
  <2>4. Within(names, edges, l) = Within(names, edges, j)
    BY <1>2, <2>2
  <2>5. Within(names, edges, l + 1) = Within(names, edges, j)
    BY <2>3, <2>4
  <2>. QED  BY <2>1, <2>2, <2>5
<1>. HIDE DEF T
<1>3. \A i \in Nat : i \in T
  BY <1>1, <1>2, NatSetInduction
<1>4. k - j \in Nat /\ j + (k - j) = k
  OBVIOUS
<1>5. Within(names, edges, j + (k - j)) = Within(names, edges, j)
  BY <1>3, <1>4 DEF T
<1>. QED  BY <1>4, <1>5

(* What an expansion depends on: the rows there are, the edges between      *)
(* names that have a row, and the rows there were since it began.           *)
Live == {e \in related : e[2] \in entities /\ e[1] \in entities}

World == [now |-> mentions, live |-> Live, mentions |-> seen.mentions,
          related |-> seen.related, calm |-> calm]

Worlds ==
    {w \in [now : SUBSET Mention, live : SUBSET Edge, mentions : SUBSET Mention,
            related : SUBSET Edge, calm : BOOLEAN] :
        w.now \subseteq w.mentions /\ w.live \subseteq w.related}

(* The names a chunk mentions, the chunks that mention one of some names,   *)
(* and the names the first hits mention.                                    *)
NamesIn(ments, chunk) == {m[2] : m \in {x \in ments : x[1] = chunk}}

ChunksWith(ments, names) == {m[1] : m \in {x \in ments : x[2] \in names}}

Turns(hits) == Least(Origins, Len(hits))

Roots(ments, hits) ==
    {m[2] : m \in {x \in ments : \E i \in 1 .. Turns(hits) : x[1] = hits[i]}}

(* What is in reach of some hits.                                           *)
Reachable(ments, edges, hits) ==
    ChunksWith(ments, Within(Roots(ments, hits), edges, MaxExpand - 1)) \ ToSet(hits)

(* What the first n turns ask about when nothing is written.                *)
NamesBy(w, r, n) == {x \in Nat : \E i \in 1 .. n : x \in Within(r.byHit[i], w.live, MaxExpand - 1)}

(* All the chunks that mention a name asked about were found.               *)
Gathered(w, r) == r.found = ChunksWith(w.now, r.asked) \ ToSet(r.hits)

(* The names of every hit, as the batched query found them.                 *)
OriginsRead(w, r) ==
    /\ Len(r.byHit) = Len(r.hits)
    /\ \A i \in 1 .. Len(r.hits) :
         /\ IsFiniteSet(r.byHit[i]) /\ r.byHit[i] \subseteq NamesIn(w.mentions, r.hits[i])
         /\ w.calm => r.byHit[i] = NamesIn(w.now, r.hits[i])

(* In the turn of an origin: the frontier is in reach of the roots, and it  *)
(* is all that is when nothing was written and nothing cut.                 *)
Reached(w, r, k) == NamesOf(r.frontier) = Within(r.byHit[r.origin], w.live, k)

TurnStands(w, r) ==
    /\ r.origin \in 1 .. Turns(r.hits) /\ r.hop \in 2 .. MaxExpand + 1
    /\ NamesOf(r.frontier) \subseteq Within(Roots(w.mentions, r.hits), w.related, r.hop - 2)
    /\ w.calm /\ ~r.cut => r.asked = NamesBy(w, r, r.origin - 1)
    /\ w.calm /\ ~r.cut /\ r.stage = "hops" =>
          /\ Reached(w, r, r.hop - 2)
          /\ r.visited \subseteq NamesOf(r.frontier)
          /\ Heads(w.live, r.visited) \subseteq NamesOf(r.frontier)
    /\ w.calm /\ ~r.cut /\ r.stage = "chunks" => Reached(w, r, MaxExpand - 1)

ExpandStands(w, r) ==
    /\ r.found \subseteq Reachable(w.mentions, w.related, r.hits)
    /\ w.calm /\ ~r.short => Gathered(w, r)
    /\ r.stage = "origins" => r.found = {} /\ r.asked = {} /\ ~r.cut
    /\ r.stage # "origins" => OriginsRead(w, r)
    /\ r.stage \in {"hops", "chunks"} => TurnStands(w, r)
    /\ r.stage = "done" /\ w.calm /\ ~r.cut => r.asked = NamesBy(w, r, Turns(r.hits))

ExpandSteps == reader.kind = "expand" => ExpandStands(World, reader)

(* The turns of an expansion are few.                                       *)
LEMMA TurnsAreFew ==
  ASSUME NEW hits \in Seq(Chunk)
  PROVE  /\ Turns(hits) \in Nat /\ Len(hits) \in Nat
         /\ \A i \in 1 .. Turns(hits) : i \in 1 .. Len(hits)
<1>1. PICK n \in Nat, o \in Nat : n = Len(hits) /\ o = Origins
  BY GraphAssumption
<1>. QED  BY <1>1 DEF Turns, Least

(* What the roots are.                                                      *)
LEMMA RootsTyped ==
  ASSUME NEW ments \in SUBSET Mention, NEW hits \in Seq(Chunk)
  PROVE  /\ Roots(ments, hits) \in SUBSET Nat
         /\ \A n : n \in Roots(ments, hits) <=>
                     \E i \in 1 .. Turns(hits) : n \in NamesIn(ments, hits[i])
         /\ \A i \in 1 .. Turns(hits) : NamesIn(ments, hits[i]) \in SUBSET Nat
<1>1. \A m \in ments : m[2] \in Nat
  BY DEF Mention
<1>2. \A i \in 1 .. Turns(hits) : NamesIn(ments, hits[i]) \in SUBSET Nat
  BY <1>1 DEF NamesIn
<1>3. \A n : n \in Roots(ments, hits) <=>
               \E m \in ments, i \in 1 .. Turns(hits) : m[1] = hits[i] /\ m[2] = n
  BY DEF Roots
<1>4. \A n, i : n \in NamesIn(ments, hits[i]) <=> \E m \in ments : m[1] = hits[i] /\ m[2] = n
  BY DEF NamesIn
<1>5. Roots(ments, hits) \in SUBSET Nat
  BY <1>1, <1>3
<1>6. ASSUME NEW n
      PROVE  n \in Roots(ments, hits) <=> \E i \in 1 .. Turns(hits) : n \in NamesIn(ments, hits[i])
  <2>1. \A i : n \in NamesIn(ments, hits[i]) <=> \E m \in ments : m[1] = hits[i] /\ m[2] = n
    BY <1>4
  <2>2. n \in Roots(ments, hits) <=>
          \E m \in ments : \E i \in 1 .. Turns(hits) : m[1] = hits[i] /\ m[2] = n
    BY <1>3
  <2>. QED  BY <2>1, <2>2, Zenon
<1>. QED  BY <1>2, <1>5, <1>6

(* More mentions and more edges put more in reach.                          *)
LEMMA ReachableMore ==
  ASSUME NEW hits \in Seq(Chunk), NEW ments \in SUBSET Mention, NEW edges \in SUBSET Edge,
         NEW ments2 \in SUBSET Mention, NEW edges2 \in SUBSET Edge,
         ments \subseteq ments2, edges \subseteq edges2, NEW k \in Nat
  PROVE  /\ Within(Roots(ments, hits), edges, k) \subseteq Within(Roots(ments2, hits), edges2, k)
         /\ Reachable(ments, edges, hits) \subseteq Reachable(ments2, edges2, hits)
<1>1. /\ Roots(ments, hits) \in SUBSET Nat /\ Roots(ments2, hits) \in SUBSET Nat
      /\ Roots(ments, hits) \subseteq Roots(ments2, hits)
  <2>1. Roots(ments, hits) \subseteq Roots(ments2, hits)
    BY DEF Roots
  <2>. QED  BY <2>1, RootsTyped
<1>2. \A j \in Nat :
         Within(Roots(ments, hits), edges, j) \subseteq Within(Roots(ments2, hits), edges2, j)
  BY <1>1, WithinMore
<1>3. PICK j \in Nat : j = MaxExpand - 1
  BY GraphAssumption
<1>4. \A n : n \in Within(Roots(ments, hits), edges, j) => n \in Within(Roots(ments2, hits), edges2, j)
  BY <1>2
<1>5. ASSUME NEW c \in Reachable(ments, edges, hits)
      PROVE  c \in Reachable(ments2, edges2, hits)
  <2>1. PICK m \in ments : /\ m[2] \in Within(Roots(ments, hits), edges, j) /\ c = m[1]
                           /\ c \notin ToSet(hits)
    BY <1>3, <1>5 DEF Reachable, ChunksWith
  <2>2. m[2] \in Within(Roots(ments2, hits), edges2, j) /\ m \in ments2
    BY <1>4, <2>1
  <2>. QED  BY <1>3, <2>1, <2>2 DEF Reachable, ChunksWith
<1>. QED  BY <1>2, <1>5

(* The state an expansion turns to: that of the next origin, or the end.    *)
LEMMA ExpandTurns ==
  ASSUME NEW w \in Worlds, NEW r \in Expansions, OriginsRead(w, r),
         r.found \subseteq Reachable(w.mentions, w.related, r.hits),
         NEW i \in Nat, i # 0, i <= Turns(r.hits) + 1,
         w.calm /\ ~r.short => Gathered(w, r),
         w.calm /\ ~r.cut => r.asked = NamesBy(w, r, i - 1)
  PROVE  Turn1(r, i) \in Expansions /\ ExpandStands(w, Turn1(r, i))
<1>1. PICK hits \in Seq(Chunk), turns \in Nat : hits = r.hits /\ turns = Turns(hits)
  <2>1. r.hits \in Seq(Chunk)
    BY DEF Expansions
  <2>. QED  BY <2>1, TurnsAreFew
<1>2. PICK next : next = Turn1(r, i)
  OBVIOUS
<1>3. CASE i > turns
  <2>1. next = [r EXCEPT !.stage = "done"]
    BY <1>1, <1>2, <1>3 DEF Turn1, Turns
  <2>2. /\ next \in Expansions /\ next.found = r.found /\ next.hits = hits
        /\ next.byHit = r.byHit /\ next.cut = r.cut /\ next.stage = "done"
        /\ next.asked = r.asked /\ next.short = r.short
    BY <1>1, <2>1 DEF Expansions
  <2>3. i - 1 = turns
    BY <1>1, <1>3
  <2>4. OriginsRead(w, next)
    BY <1>1, <2>2 DEF OriginsRead
  <2>5. /\ NamesBy(w, next, turns) = NamesBy(w, r, turns)
        /\ Gathered(w, next) <=> Gathered(w, r)
    BY <1>1, <2>2 DEF Gathered, NamesBy
  <2>6. ExpandStands(w, next)
    BY <1>1, <2>2, <2>3, <2>4, <2>5 DEF ExpandStands
  <2>. QED  BY <1>2, <2>2, <2>6
<1>4. CASE ~(i > turns)
  <2>1. i \in 1 .. turns
    BY <1>4
  <2>2. i \in 1 .. Len(hits) /\ Len(hits) \in Nat
    BY <1>1, <2>1, TurnsAreFew
  <2>3. PICK names : names = r.byHit[i]
    OBVIOUS
  <2>4. /\ IsFiniteSet(names) /\ names \subseteq NamesIn(w.mentions, hits[i])
    BY <1>1, <2>2, <2>3 DEF OriginsRead
  <2>5. /\ w.mentions \in SUBSET Mention /\ w.live \in SUBSET Edge /\ w.related \in SUBSET Edge
    BY DEF Worlds
  <2>6. PICK roots \in SUBSET Nat : /\ roots = Roots(w.mentions, hits)
                                    /\ NamesIn(w.mentions, hits[i]) \subseteq roots
    <3>1. /\ Roots(w.mentions, hits) \in SUBSET Nat
          /\ \A n : n \in Roots(w.mentions, hits) <=>
                      \E j \in 1 .. Turns(hits) : n \in NamesIn(w.mentions, hits[j])
      BY <2>5, RootsTyped
    <3>. QED  BY <1>1, <2>1, <3>1
  <2>7. names \in SUBSET Nat
    BY <2>4, <2>6
  <2>8. PICK one \in Nat : one = 1
    OBVIOUS
  <2>9. PICK f : f = AtHop(1, names)
    OBVIOUS
  <2>10. f \in Seq(Nat \X Nat) /\ NamesOf(f) = names
    BY <2>4, <2>7, <2>8, <2>9, AtHopProperties
  <2>11. PICK capped : capped = Capped(f)
    OBVIOUS
  <2>12. /\ capped \in Seq(Nat \X Nat) /\ NamesOf(capped) \subseteq names
         /\ Len(f) <= FrontierMax => capped = f
    BY <2>10, <2>11, CappedProperties
  <2>13. next = [r EXCEPT !.origin = i, !.stage = "hops", !.hop = 2, !.visited = {},
                          !.frontier = capped, !.cut = @ \/ Len(f) > FrontierMax]
    BY <1>1, <1>2, <1>4, <2>3, <2>9, <2>11 DEF Turn1, Turns
  <2>15. /\ next \in Expansions /\ next.found = r.found /\ next.hits = hits
         /\ next.byHit = r.byHit /\ next.cut = (r.cut \/ Len(f) > FrontierMax) /\ next.stage = "hops"
         /\ next.origin = i /\ next.hop = 2 /\ next.visited = {} /\ next.frontier = capped
         /\ next.asked = r.asked /\ next.short = r.short
    <3>1. 2 \in Nat /\ {} \in SUBSET Nat
      OBVIOUS
    <3>. QED  BY <1>1, <2>12, <2>13, <3>1 DEF Expansions
  <2>16. ~(Len(f) > FrontierMax) => capped = f
    <3>1. PICK n \in Nat, m \in Nat : n = Len(f) /\ m = FrontierMax
      BY <2>10, GraphAssumption
    <3>. QED  BY <2>12, <3>1
  <2>17. OriginsRead(w, next)
    BY <1>1, <2>15 DEF OriginsRead
  <2>18. /\ NamesBy(w, next, i - 1) = NamesBy(w, r, i - 1)
         /\ Gathered(w, next) <=> Gathered(w, r)
    BY <1>1, <2>15 DEF Gathered, NamesBy
  <2>19. /\ Within(roots, w.related, 0) = roots /\ Within(names, w.live, 0) = names
    BY <2>5, <2>6, <2>7, WithinSteps
  <2>20. Heads(w.live, {}) = {}
    BY DEF Heads
  <2>21. TurnStands(w, next)
    <3>1. next.origin \in 1 .. Turns(next.hits)
      BY <1>1, <2>1, <2>15
    <3>2. next.hop \in 2 .. MaxExpand + 1 /\ next.hop - 2 = 0
      <4>1. PICK m \in Nat : m = MaxExpand /\ m # 0
        BY GraphAssumption
      <4>. QED  BY <2>15, <4>1
    <3>3. NamesOf(next.frontier) \subseteq Within(Roots(w.mentions, next.hits), w.related, 0)
      BY <2>4, <2>6, <2>12, <2>15, <2>19
    <3>4. w.calm /\ ~next.cut => next.asked = NamesBy(w, next, next.origin - 1)
      BY <2>15, <2>18
    <3>5. w.calm /\ ~next.cut => Reached(w, next, 0)
      BY <2>3, <2>10, <2>15, <2>16, <2>19 DEF Reached
    <3>6. next.visited = {} /\ next.stage = "hops"
      BY <2>15
    <3>. QED  BY <3>1, <3>2, <3>3, <3>4, <3>5, <3>6, <2>20 DEF TurnStands
  <2>22. ExpandStands(w, next)
    BY <1>1, <2>15, <2>17, <2>18, <2>21 DEF ExpandStands
  <2>. QED  BY <1>2, <2>15, <2>22
<1>. QED  BY <1>3, <1>4

(* The world of a state is one, and a query does not change it.             *)
LEMMA WorldTyped ==
  ASSUME RowsTyped, SeenCovers
  PROVE  World \in Worlds /\ World.now = mentions /\ World.live = Live
         /\ World.mentions = seen.mentions /\ World.related = seen.related /\ World.calm = calm
<1>1. /\ mentions \in SUBSET Mention /\ related \in SUBSET Edge
      /\ seen.mentions \in SUBSET Mention /\ seen.related \in SUBSET Edge
      /\ mentions \subseteq seen.mentions /\ related \subseteq seen.related
      /\ calm \in BOOLEAN
  BY DEF RowsTyped, SeenCovers
<1>2. Live \in SUBSET Edge /\ Live \subseteq seen.related
  BY <1>1 DEF Live
<1>3. /\ World.now = mentions /\ World.live = Live
      /\ World.mentions = seen.mentions /\ World.related = seen.related /\ World.calm = calm
  BY DEF World
<1>4. World \in [now : SUBSET Mention, live : SUBSET Edge, mentions : SUBSET Mention,
                 related : SUBSET Edge, calm : BOOLEAN]
  BY <1>1, <1>2 DEF World
<1>. QED  BY <1>1, <1>2, <1>3, <1>4 DEF Worlds

(* What an expansion is held to is what is stored and was seen; a step that  *)
(* leaves these alone does not change it.                                    *)
LEMMA WorldStays ==
  ASSUME UNCHANGED <<docs, entities, mentions, related, writes, seen, calm>>
  PROVE  World' = World
<1>1. /\ mentions' = mentions /\ related' = related /\ entities' = entities
      /\ seen' = seen /\ calm' = calm
  OBVIOUS
<1>. QED  BY <1>1 DEF World, Live

(* Following the new names only finds as much as following all.             *)
LEMMA NewNamesSuffice ==
  ASSUME NEW edges, NEW names, NEW visited, NEW new, new = names \ visited,
         visited \subseteq names, Heads(edges, visited) \subseteq names
  PROVE  /\ names \cup Heads(edges, new) = names \cup Heads(edges, names)
         /\ visited \cup new \subseteq names \cup Heads(edges, new)
         /\ Heads(edges, visited \cup new) \subseteq names \cup Heads(edges, new)
<1>1. /\ \A n : n \in Heads(edges, new) <=> \E e \in edges : e[1] \in new /\ e[2] = n
      /\ \A n : n \in Heads(edges, names) <=> \E e \in edges : e[1] \in names /\ e[2] = n
      /\ \A n : n \in Heads(edges, visited) <=> \E e \in edges : e[1] \in visited /\ e[2] = n
      /\ \A n : n \in Heads(edges, visited \cup new) <=>
                  \E e \in edges : e[1] \in visited \cup new /\ e[2] = n
  BY DEF Heads
<1>2. \A n : n \in names <=> n \in visited \/ n \in new
  OBVIOUS
<1>3. \A n : n \in Heads(edges, names) => n \in Heads(edges, visited) \/ n \in Heads(edges, new)
  BY <1>1, <1>2
<1>4. \A n : n \in Heads(edges, new) => n \in Heads(edges, names)
  BY <1>1, <1>2
<1>5. \A n : n \in Heads(edges, visited \cup new) =>
               n \in Heads(edges, visited) \/ n \in Heads(edges, new)
  BY <1>1
<1>. QED  BY <1>3, <1>4, <1>5

(* A hop that has nothing to follow ends the turn.                          *)
LEMMA ExpandStops ==
  ASSUME NEW w \in Worlds, NEW r \in Expansions, ExpandStands(w, r), r.stage = "hops",
         r.hop \notin Hops \/ NamesOf(r.frontier) \ r.visited = {},
         NEW next, next = [r EXCEPT !.stage = "chunks"]
  PROVE  next \in Expansions /\ ExpandStands(w, next)
<1>1. /\ next \in Expansions /\ next.stage = "chunks"
      /\ next.hits = r.hits /\ next.byHit = r.byHit /\ next.origin = r.origin
      /\ next.hop = r.hop /\ next.frontier = r.frontier /\ next.visited = r.visited
      /\ next.found = r.found /\ next.cut = r.cut
      /\ next.asked = r.asked /\ next.short = r.short
  BY DEF Expansions
<1>2. TurnStands(w, r) /\ OriginsRead(w, r)
  BY DEF ExpandStands
<1>3. OriginsRead(w, next)
  BY <1>1, <1>2 DEF OriginsRead
<1>4. /\ NamesBy(w, next, r.origin - 1) = NamesBy(w, r, r.origin - 1)
      /\ \A k : Reached(w, next, k) <=> Reached(w, r, k)
      /\ Gathered(w, next) <=> Gathered(w, r)
  BY <1>1 DEF Gathered, NamesBy, Reached
<1>5. ASSUME w.calm, ~r.cut
      PROVE  Reached(w, r, MaxExpand - 1)
  <2>1. PICK names, visited : names = NamesOf(r.frontier) /\ visited = r.visited
    OBVIOUS
  <2>2. PICK edges \in SUBSET Edge : edges = w.live
    BY DEF Worlds
  <2>3. PICK max \in Nat, hop \in Nat : max = MaxExpand - 1 /\ hop = r.hop - 2 /\ hop <= max
    <3>1. PICK m \in Nat : m = MaxExpand /\ m # 0
      BY GraphAssumption
    <3>2. r.hop \in 2 .. m + 1
      BY <1>2, <3>1 DEF TurnStands
    <3>3. m - 1 \in Nat /\ r.hop - 2 \in Nat /\ r.hop - 2 <= m - 1
      BY <3>1, <3>2
    <3>. QED  BY <3>1, <3>3
  <2>4. Reached(w, r, hop) /\ visited \subseteq names /\ Heads(edges, visited) \subseteq names
    BY <1>2, <1>5, <2>1, <2>2, <2>3 DEF TurnStands
  <2>5. CASE r.hop \notin Hops
    <3>1. PICK m \in Nat : m = MaxExpand /\ m # 0
      BY GraphAssumption
    <3>2. r.hop \in 2 .. m + 1 /\ r.hop \notin 2 .. m
      BY <1>2, <2>5, <3>1 DEF TurnStands, Hops
    <3>3. r.hop - 2 = m - 1
      BY <3>1, <3>2
    <3>. QED  BY <2>3, <2>4, <3>1, <3>3
  <2>6. CASE names \ visited = {}
    <3>1. PICK own \in SUBSET Nat : own = r.byHit[r.origin]
      <4>1. r.byHit \in Seq(SUBSET Nat) /\ r.hits \in Seq(Chunk)
        BY DEF Expansions
      <4>2. r.origin \in 1 .. Len(r.byHit)
        BY <1>2, <4>1, TurnsAreFew DEF TurnStands, OriginsRead
      <4>3. r.byHit[r.origin] \in SUBSET Nat
        BY <4>1, <4>2
      <4>. QED  BY <4>3
    <3>2. names = Within(own, edges, hop)
      BY <2>1, <2>2, <2>4, <3>1 DEF Reached
    <3>3. Heads(edges, names) \subseteq names
      <4>1. names = visited
        BY <2>4, <2>6
      <4>. QED  BY <2>4, <4>1
    <3>4. hop \in 0 .. max /\ Heads(edges, Within(own, edges, hop)) \subseteq Within(own, edges, hop)
      BY <2>3, <3>2, <3>3
    <3>5. Within(own, edges, max) = Within(own, edges, hop)
      BY <3>4, WithinStops
    <3>. QED  BY <2>1, <2>2, <2>3, <3>1, <3>2, <3>5 DEF Reached
  <2>. QED  BY <2>1, <2>5, <2>6
<1>6. TurnStands(w, next)
  BY <1>1, <1>2, <1>4, <1>5 DEF TurnStands
<1>. QED  BY <1>1, <1>3, <1>4, <1>6 DEF ExpandStands

(* A hop: the frontier grows by the neighbours of its new names.            *)
HopTo(r, new, next) ==
    LET rows == SetToSeq({e \in related : e[1] \in new \cap entities /\ e[2] \in entities})
        f == AfterHop(r.frontier, r.hop, rows)
    IN  next = [r EXCEPT !.visited = @ \cup new, !.hop = @ + 1,
                         !.frontier = Capped(f), !.cut = @ \/ Len(f) > FrontierMax]

(* A hop of the expansion: from the names that are new, along what is stored *)
(* now.                                                                      *)
LEMMA ExpandHops ==
  ASSUME RowsTyped, SeenCovers, NEW r \in Expansions, ExpandStands(World, r), r.stage = "hops",
         r.hop \in Hops, NEW new, new = NamesOf(r.frontier) \ r.visited,
         NEW next, HopTo(r, new, next)
  PROVE  next \in Expansions /\ ExpandStands(World, next)
<1>1. PICK w \in Worlds : w = World
  BY WorldTyped
<1>2. /\ w.live = Live /\ w.mentions = seen.mentions /\ w.related = seen.related
      /\ w.live \in SUBSET Edge /\ w.related \in SUBSET Edge /\ w.live \subseteq w.related
      /\ w.mentions \in SUBSET Mention
  BY <1>1, WorldTyped DEF Worlds
<1>3. TurnStands(w, r) /\ OriginsRead(w, r) /\ r.found \subseteq Reachable(w.mentions, w.related, r.hits)
  BY <1>1 DEF ExpandStands
<1>4. PICK frontier \in Seq(Nat \X Nat) : frontier = r.frontier
  BY DEF Expansions
<1>16. PICK hits \in Seq(Chunk) : hits = r.hits
  BY DEF Expansions
<1>5. PICK hop, k, max \in Nat : hop = r.hop /\ k = hop - 2 /\ max = MaxExpand /\ hop <= max
  <2>1. PICK m \in Nat : m = MaxExpand
    BY GraphAssumption
  <2>2. r.hop \in 2 .. m
    BY <2>1 DEF Hops
  <2>3. r.hop \in Nat /\ r.hop - 2 \in Nat /\ r.hop <= m
    BY <2>1, <2>2
  <2>. QED  BY <2>1, <2>3
<1>6. PICK names \in SUBSET Nat : names = NamesOf(frontier)
  <2>1. \A i \in 1 .. Len(frontier) : frontier[i] \in Nat \X Nat
    OBVIOUS
  <2>2. \A i \in 1 .. Len(frontier) : frontier[i][2] \in Nat
    BY <2>1
  <2>. QED  BY <2>2 DEF NamesOf
<1>7. PICK found \in SUBSET Edge :
         found = {e \in related : e[1] \in new \cap entities /\ e[2] \in entities}
  BY DEF RowsTyped
<1>8. IsFiniteSet(found)
  BY <1>7, FS_Subset DEF RowsTyped
<1>9. Tails(found) = Heads(w.live, new)
  <2>1. \A e : e \in found <=> e \in w.live /\ e[1] \in new
    BY <1>2, <1>7 DEF Live
  <2>. QED  BY <2>1 DEF Heads, Tails
<1>10. PICK rows \in Seq(found) : rows = SetToSeq(found)
  BY <1>8, SetToSeqProperties
<1>11. ToSet(rows) = found
  BY <1>8, <1>10, SetToSeqProperties
<1>12. PICK f : f = AfterHop(frontier, hop, rows)
  OBVIOUS
<1>13. f \in Seq(Nat \X Nat) /\ NamesOf(f) = names \cup Heads(w.live, new)
  <2>1. AfterHop(frontier, hop, rows) \in Seq(Nat \X Nat)
    BY <1>11, HopAdds
  <2>2. NamesOf(AfterHop(frontier, hop, rows)) = NamesOf(frontier) \cup Tails(found)
    BY <1>11, HopAdds
  <2>. QED  BY <1>6, <1>9, <1>12, <2>1, <2>2
<1>14. PICK capped : capped = Capped(f)
  OBVIOUS
<1>15. /\ capped \in Seq(Nat \X Nat) /\ NamesOf(capped) \subseteq NamesOf(f)
       /\ Len(f) <= FrontierMax => capped = f
  BY <1>13, <1>14, CappedProperties
<1>17. ~(Len(f) > FrontierMax) => capped = f
  <2>1. PICK n \in Nat, m \in Nat : n = Len(f) /\ m = FrontierMax
    BY <1>13, GraphAssumption
  <2>. QED  BY <1>15, <2>1
<1>18. next = [r EXCEPT !.visited = @ \cup new, !.hop = hop + 1,
                        !.frontier = capped, !.cut = @ \/ Len(f) > FrontierMax]
  BY <1>4, <1>5, <1>7, <1>10, <1>12, <1>14 DEF HopTo
<1>19. new \in SUBSET Nat
  BY <1>4, <1>6
<1>20. /\ next \in Expansions /\ next.found = r.found /\ next.hits = hits
       /\ next.byHit = r.byHit /\ next.cut = (r.cut \/ Len(f) > FrontierMax)
       /\ next.stage = "hops" /\ next.origin = r.origin /\ next.hop = hop + 1
       /\ next.visited = r.visited \cup new /\ next.frontier = capped
       /\ next.asked = r.asked /\ next.short = r.short
  <2>1. hop + 1 \in Nat /\ r.visited \cup new \in SUBSET Nat
    BY <1>19 DEF Expansions
  <2>. QED  BY <1>15, <1>16, <1>18, <2>1 DEF Expansions
<1>21. OriginsRead(w, next)
  BY <1>3, <1>16, <1>20 DEF OriginsRead
<1>22. /\ NamesBy(w, next, r.origin - 1) = NamesBy(w, r, r.origin - 1)
       /\ Gathered(w, next) <=> Gathered(w, r)
  BY <1>16, <1>20 DEF Gathered, NamesBy
<1>23. PICK roots \in SUBSET Nat : roots = Roots(w.mentions, hits)
  BY <1>2, RootsTyped
<1>24. PICK reached : reached = Within(roots, w.related, k)
  OBVIOUS
<1>25. Within(roots, w.related, k + 1) = reached \cup Heads(w.related, reached)
  <2>1. PICK wide \in SUBSET Edge : wide = w.related
    BY <1>2
  <2>2. Within(roots, wide, k + 1) =
          Within(roots, wide, k) \cup Heads(wide, Within(roots, wide, k))
    BY WithinGrows, Zenon
  <2>. QED  BY <1>24, <2>1, <2>2
<1>26. names \subseteq reached
  BY <1>3, <1>4, <1>5, <1>6, <1>16, <1>23, <1>24 DEF TurnStands
<1>27. NamesOf(capped) \subseteq Within(roots, w.related, k + 1)
  <2>1. new \subseteq reached
    BY <1>4, <1>6, <1>26
  <2>2. Heads(w.live, new) \subseteq Heads(w.related, reached)
    BY <1>2, <2>1 DEF Heads
  <2>. QED  BY <1>13, <1>15, <1>25, <1>26, <2>2
<1>28. hop + 1 - 2 = k + 1 /\ hop + 1 \in 2 .. max + 1
  <2>1. 2 <= hop
    BY <1>5 DEF Hops
  <2>. QED  BY <1>5, <2>1
<1>29. ASSUME w.calm, ~next.cut
       PROVE  /\ Reached(w, next, k + 1) /\ next.visited \subseteq NamesOf(next.frontier)
              /\ Heads(w.live, next.visited) \subseteq NamesOf(next.frontier)
  <2>1. ~r.cut /\ capped = f
    BY <1>17, <1>20, <1>29
  <2>2. /\ Reached(w, r, k) /\ r.visited \subseteq names
        /\ Heads(w.live, r.visited) \subseteq names
    BY <1>3, <1>4, <1>5, <1>6, <1>29, <2>1 DEF TurnStands
  <2>3. /\ names \cup Heads(w.live, new) = names \cup Heads(w.live, names)
        /\ r.visited \cup new \subseteq names \cup Heads(w.live, new)
        /\ Heads(w.live, r.visited \cup new) \subseteq names \cup Heads(w.live, new)
    <3>1. PICK live, visited : live = w.live /\ visited = r.visited
      OBVIOUS
    <3>2. /\ new = names \ visited /\ visited \subseteq names
          /\ Heads(live, visited) \subseteq names
      BY <1>4, <1>6, <2>2, <3>1
    <3>3. /\ names \cup Heads(live, new) = names \cup Heads(live, names)
          /\ visited \cup new \subseteq names \cup Heads(live, new)
          /\ Heads(live, visited \cup new) \subseteq names \cup Heads(live, new)
      BY <3>2, NewNamesSuffice
    <3>. QED  BY <3>1, <3>3
  <2>4. PICK own \in SUBSET Nat : own = r.byHit[r.origin]
    <3>1. r.byHit \in Seq(SUBSET Nat)
      BY DEF Expansions
    <3>2. r.origin \in 1 .. Len(r.byHit)
      BY <1>3, <1>16, TurnsAreFew DEF TurnStands, OriginsRead
    <3>3. r.byHit[r.origin] \in SUBSET Nat
      BY <3>1, <3>2
    <3>. QED  BY <3>3
  <2>5. names = Within(own, w.live, k)
    BY <1>4, <1>6, <2>2, <2>4 DEF Reached
  <2>6. Within(own, w.live, k + 1) = names \cup Heads(w.live, names)
    <3>1. PICK live \in SUBSET Edge : live = w.live
      BY <1>2
    <3>2. Within(own, live, k + 1) =
            Within(own, live, k) \cup Heads(live, Within(own, live, k))
      BY WithinGrows, Zenon
    <3>. QED  BY <2>5, <3>1, <3>2
  <2>7. NamesOf(next.frontier) = names \cup Heads(w.live, new)
    BY <1>13, <1>20, <2>1
  <2>8. Reached(w, next, k + 1)
    BY <1>20, <2>3, <2>4, <2>6, <2>7 DEF Reached
  <2>. QED  BY <1>20, <2>3, <2>7, <2>8
<1>30. TurnStands(w, next)
  <2>1. next.origin \in 1 .. Turns(next.hits)
    BY <1>3, <1>16, <1>20 DEF TurnStands
  <2>2. next.hop \in 2 .. MaxExpand + 1 /\ next.hop - 2 = k + 1
    BY <1>5, <1>20, <1>28
  <2>3. NamesOf(next.frontier) \subseteq
          Within(Roots(w.mentions, next.hits), w.related, next.hop - 2)
    BY <1>20, <1>23, <1>27, <2>2
  <2>4. w.calm /\ ~next.cut => next.asked = NamesBy(w, next, next.origin - 1)
    BY <1>3, <1>20, <1>22 DEF TurnStands
  <2>5. next.stage = "hops"
    BY <1>20
  <2>. QED  BY <1>29, <2>1, <2>2, <2>3, <2>4, <2>5 DEF TurnStands
<1>31. ExpandStands(w, next)
  <2>1. next.found \subseteq Reachable(w.mentions, w.related, next.hits)
    BY <1>3, <1>16, <1>20
  <2>2. next.stage = "hops"
    BY <1>20
  <2>3. w.calm /\ ~next.short => Gathered(w, next)
    BY <1>1, <1>20, <1>22 DEF ExpandStands
  <2>. QED  BY <1>21, <1>30, <2>1, <2>2, <2>3 DEF ExpandStands
<1>. QED  BY <1>1, <1>20, <1>31

(* The action: a hop, or the end of the hops.                               *)
LEMMA ExpandReadsHop ==
  ASSUME RowsTyped, SeenCovers, ReaderTyped, ExpandSteps, ReadHop
  PROVE  reader' \in Expansions /\ ExpandSteps'
<1>1. /\ reader \in Expansions /\ reader.stage = "hops" /\ reader.kind = "expand"
      /\ UNCHANGED <<docs, entities, mentions, related, writes, seen, calm>>
  BY DEF ReadHop, ReaderTyped, Query
<1>2. PICK w \in Worlds : w = World
  BY WorldTyped
<1>3. ExpandStands(w, reader)
  BY <1>1, <1>2 DEF ExpandSteps
<1>4. PICK next : next = reader'
  OBVIOUS
<1>5. HopNames = NamesOf(reader.frontier) \ reader.visited
  BY DEF HopNames, NamesOf
<1>6. next \in Expansions /\ ExpandStands(w, next)
  <2>1. CASE reader.hop \notin Hops \/ HopNames = {}
    <3>1. next = [reader EXCEPT !.stage = "chunks"]
      BY <1>4, <2>1 DEF ReadHop
    <3>2. reader.hop \notin Hops \/ NamesOf(reader.frontier) \ reader.visited = {}
      BY <1>5, <2>1
    <3>. QED  BY <1>1, <1>3, <3>1, <3>2, ExpandStops
  <2>2. CASE ~(reader.hop \notin Hops \/ HopNames = {})
    <3>1. PICK new : new = HopNames
      OBVIOUS
    <3>3. HopTo(reader, HopNames, reader')
      BY <2>2, Zenon DEF ReadHop, HopTo, AfterHop
    <3>2. HopTo(reader, new, next)
      BY <1>4, <3>1, <3>3
    <3>. QED  BY <1>1, <1>2, <1>3, <1>5, <2>2, <3>1, <3>2, ExpandHops
  <2>. QED  BY <2>1, <2>2
<1>7. World' = w
  BY <1>1, <1>2, WorldStays
<1>. QED  BY <1>4, <1>6, <1>7 DEF ExpandSteps

(* The chunks of a turn: those that mention a name of the frontier.         *)
Finds(r, rows, matching, next) ==
    next = [r EXCEPT !.asked = @ \cup NamesOf(r.frontier),
                     !.found = @ \cup (rows \ ToSet(r.hits)), !.short = @ \/ rows # matching]

(* The names an origin leads to and their chunks are reached from the hits;  *)
(* the names are all of them when nothing was cut and nothing written, the   *)
(* chunks when no answer was short of rows.                                  *)
LEMMA ExpandFinds ==
  ASSUME NEW w \in Worlds, NEW r \in Expansions, ExpandStands(w, r), r.stage = "chunks",
         NEW matching, matching = ChunksWith(w.now, NamesOf(r.frontier)),
         NEW rows \in SUBSET matching,
         NEW next, Finds(r, rows, matching, next)
  PROVE  /\ next \in Expansions /\ OriginsRead(w, next)
         /\ next.found \subseteq Reachable(w.mentions, w.related, next.hits)
         /\ next.origin \in 1 .. Turns(next.hits) /\ next.origin = r.origin
         /\ w.calm /\ ~next.short => Gathered(w, next)
         /\ w.calm /\ ~next.cut => next.asked = NamesBy(w, next, next.origin)
<1>1. TurnStands(w, r) /\ OriginsRead(w, r) /\ r.found \subseteq Reachable(w.mentions, w.related, r.hits)
  BY DEF ExpandStands
<1>2. /\ w.now \in SUBSET Mention /\ w.now \subseteq w.mentions /\ w.mentions \in SUBSET Mention
      /\ w.live \in SUBSET Edge /\ w.related \in SUBSET Edge
  BY DEF Worlds
<1>3. PICK hits \in Seq(Chunk) : hits = r.hits
  BY DEF Expansions
<1>4. \A c \in matching : c \in Chunk
  BY <1>2 DEF ChunksWith, Mention
<1>7. PICK names : names = NamesOf(r.frontier)
  OBVIOUS
<1>11. names \in SUBSET Nat
  <2>1. PICK frontier \in Seq(Nat \X Nat) : frontier = r.frontier
    BY DEF Expansions
  <2>2. \A i \in 1 .. Len(frontier) : frontier[i] \in Nat \X Nat
    OBVIOUS
  <2>3. \A i \in 1 .. Len(frontier) : frontier[i][2] \in Nat
    BY <2>2
  <2>. QED  BY <1>7, <2>1, <2>3 DEF NamesOf
<1>5. /\ next \in Expansions /\ next.found = r.found \cup (rows \ ToSet(hits))
      /\ next.hits = hits /\ next.byHit = r.byHit /\ next.cut = r.cut
      /\ next.asked = r.asked \cup names /\ next.short = (r.short \/ rows # matching)
      /\ next.origin = r.origin
  <2>1. r.found \cup (rows \ ToSet(hits)) \in SUBSET Chunk
    BY <1>4 DEF Expansions
  <2>2. r.asked \cup names \in SUBSET Nat
    BY <1>11 DEF Expansions
  <2>3. next = [r EXCEPT !.asked = @ \cup names,
                         !.found = @ \cup (rows \ ToSet(hits)), !.short = @ \/ rows # matching]
    BY <1>3, <1>7 DEF Finds
  <2>. QED  BY <1>3, <2>1, <2>2, <2>3 DEF Expansions
<1>6. OriginsRead(w, next)
  BY <1>1, <1>3, <1>5 DEF OriginsRead
<1>8. PICK origin \in Nat, before \in Nat, max \in Nat :
         /\ origin = r.origin /\ origin \in 1 .. Turns(hits) /\ before = origin - 1
         /\ max = MaxExpand - 1
  <2>1. r.origin \in 1 .. Turns(hits) /\ Turns(hits) \in Nat
    BY <1>1, <1>3, TurnsAreFew DEF TurnStands
  <2>2. r.origin \in Nat /\ r.origin - 1 \in Nat
    BY <2>1
  <2>3. MaxExpand - 1 \in Nat
    BY GraphAssumption
  <2>. QED  BY <2>1, <2>2, <2>3
<1>9. next.found \subseteq Reachable(w.mentions, w.related, hits)
  <2>1. PICK roots \in SUBSET Nat : roots = Roots(w.mentions, hits)
    BY <1>2, RootsTyped
  <2>2. PICK k \in 0 .. max : k = r.hop - 2
    <3>1. PICK m \in Nat : m = MaxExpand /\ m # 0
      BY GraphAssumption
    <3>2. r.hop \in 2 .. m + 1
      BY <1>1, <3>1 DEF TurnStands
    <3>3. r.hop - 2 \in 0 .. m - 1
      BY <3>1, <3>2
    <3>. QED  BY <1>8, <3>1, <3>3
  <2>3. names \subseteq Within(roots, w.related, k)
    BY <1>1, <1>3, <1>7, <2>1, <2>2 DEF TurnStands
  <2>4. PICK wide \in SUBSET Edge : wide = w.related
    BY <1>2
  <2>5. Within(roots, wide, k) \subseteq Within(roots, wide, max)
    BY WithinFurther
  <2>6. ASSUME NEW c \in rows, c \notin ToSet(hits)
        PROVE  c \in Reachable(w.mentions, w.related, hits)
    <3>1. PICK m \in w.now : m[2] \in names /\ c = m[1]
      BY <1>7, <2>6 DEF ChunksWith
    <3>2. m \in w.mentions /\ m[2] \in Within(roots, wide, max)
      BY <1>2, <2>3, <2>4, <2>5, <3>1
    <3>. QED  BY <1>8, <2>1, <2>4, <2>6, <3>1, <3>2 DEF Reachable, ChunksWith
  <2>. QED  BY <1>1, <1>3, <1>5, <2>6
<1>10. ASSUME w.calm, ~next.cut
       PROVE  next.asked = NamesBy(w, next, origin)
  <2>2. r.asked = NamesBy(w, r, before) /\ names = Within(r.byHit[origin], w.live, max)
    BY <1>1, <1>5, <1>7, <1>8, <1>10 DEF TurnStands, Reached
  <2>4. \A i : i \in 1 .. origin <=> i \in 1 .. before \/ i = origin
    BY <1>8
  <2>5. \A x : x \in NamesBy(w, next, origin) <=> x \in NamesBy(w, r, before) \/ x \in names
    <3>1. \A x : x \in NamesBy(w, next, origin) <=>
                   x \in Nat /\ \E i \in 1 .. origin : x \in Within(r.byHit[i], w.live, max)
      BY <1>5, <1>8 DEF NamesBy
    <3>2. \A x : x \in NamesBy(w, r, before) <=>
                   x \in Nat /\ \E i \in 1 .. before : x \in Within(r.byHit[i], w.live, max)
      BY <1>8 DEF NamesBy
    <3>. QED  BY <1>11, <2>2, <2>4, <3>1, <3>2
  <2>6. \A x : x \in next.asked <=> x \in NamesBy(w, r, before) \/ x \in names
    BY <1>5, <2>2
  <2>. QED  BY <2>5, <2>6
<1>12. ASSUME w.calm, ~next.short
       PROVE  Gathered(w, next)
  <2>1. rows = matching /\ Gathered(w, r)
    BY <1>5, <1>12 DEF ExpandStands
  <2>2. r.found = ChunksWith(w.now, r.asked) \ ToSet(hits)
    BY <1>3, <2>1 DEF Gathered
  <2>3. \A c : c \in ChunksWith(w.now, r.asked \cup names) <=>
               c \in ChunksWith(w.now, r.asked) \/ c \in matching
    BY <1>7 DEF ChunksWith
  <2>4. next.found = ChunksWith(w.now, r.asked \cup names) \ ToSet(hits)
    BY <1>5, <2>1, <2>2, <2>3
  <2>. QED  BY <1>5, <2>4 DEF Gathered
<1>. QED  BY <1>5, <1>6, <1>8, <1>9, <1>10, <1>12

(* Reading these chunks goes on to the next origin.                          *)
LEMMA ExpandReadsChunks ==
  ASSUME RowsTyped, SeenCovers, ReaderTyped, ExpandSteps, ReadChunks
  PROVE  reader' \in Expansions /\ ExpandSteps'
<1>1. /\ reader \in Expansions /\ reader.stage = "chunks" /\ reader.kind = "expand"
      /\ UNCHANGED <<docs, entities, mentions, related, writes, seen, calm>>
  BY DEF ReadChunks, ReaderTyped, Query
<1>2. PICK w \in Worlds : w = World /\ w.now = mentions
  BY WorldTyped
<1>3. ExpandStands(w, reader)
  BY <1>1, <1>2 DEF ExpandSteps
<1>4. PICK matching : matching = ChunksWith(w.now, NamesOf(reader.frontier))
  OBVIOUS
<1>5. PICK rows \in SUBSET matching :
        reader' = Turn1([reader EXCEPT !.asked = @ \cup NamesOf(reader.frontier),
                                       !.found = @ \cup (rows \ ToSet(reader.hits)),
                                       !.short = @ \/ rows # matching], reader.origin + 1)
  BY <1>2, <1>4 DEF ReadChunks, ChunksWith, NamesOf
<1>6. PICK r : r = [reader EXCEPT !.asked = @ \cup NamesOf(reader.frontier),
                                  !.found = @ \cup (rows \ ToSet(reader.hits)),
                                  !.short = @ \/ rows # matching]
  OBVIOUS
<1>12. Finds(reader, rows, matching, r)
  BY <1>6 DEF Finds
<1>7. /\ r \in Expansions /\ OriginsRead(w, r)
      /\ r.found \subseteq Reachable(w.mentions, w.related, r.hits)
      /\ r.origin \in 1 .. Turns(r.hits) /\ r.origin = reader.origin
      /\ w.calm /\ ~r.short => Gathered(w, r)
      /\ w.calm /\ ~r.cut => r.asked = NamesBy(w, r, r.origin)
  BY <1>1, <1>3, <1>4, <1>12, ExpandFinds
<1>8. PICK i \in Nat : i = reader.origin + 1 /\ i # 0 /\ i <= Turns(r.hits) + 1 /\ i - 1 = r.origin
  <2>1. Turns(r.hits) \in Nat
    BY <1>7, TurnsAreFew DEF Expansions
  <2>2. PICK o \in Nat : o = r.origin /\ o <= Turns(r.hits)
    BY <1>7, <2>1
  <2>3. o + 1 \in Nat /\ o + 1 # 0 /\ o + 1 <= Turns(r.hits) + 1 /\ o + 1 - 1 = o
    BY <2>1, <2>2
  <2>. QED  BY <1>7, <2>2, <2>3
<1>9. w.calm /\ ~r.cut => r.asked = NamesBy(w, r, i - 1)
  BY <1>7, <1>8
<1>10. Turn1(r, i) \in Expansions /\ ExpandStands(w, Turn1(r, i))
  BY <1>7, <1>8, <1>9, ExpandTurns
<1>11. World' = w /\ reader' = Turn1(r, i)
  BY <1>1, <1>2, <1>5, <1>6, <1>8, WorldStays
<1>. QED  BY <1>10, <1>11 DEF ExpandSteps

(* The batched query for the names of every hit.                            *)
LEMMA ExpandReadsOrigins ==
  ASSUME RowsTyped, SeenCovers, ReaderTyped, ExpandSteps, ReadOrigins
  PROVE  reader' \in Expansions /\ ExpandSteps'
<1>1. /\ reader \in Expansions /\ reader.stage = "origins" /\ reader.kind = "expand"
      /\ UNCHANGED <<docs, entities, mentions, related, writes, seen, calm>>
  BY DEF ReadOrigins, ReaderTyped, Query
<1>2. PICK w \in Worlds : w = World /\ w.now = mentions /\ w.mentions = seen.mentions
  BY WorldTyped
<1>3. reader.found = {} /\ reader.asked = {}
  BY <1>1, <1>2 DEF ExpandSteps, ExpandStands
<1>4. PICK hits \in Seq(Chunk), n \in Nat : hits = reader.hits /\ n = Len(hits)
  <2>1. reader.hits \in Seq(Chunk)
    BY <1>1 DEF Expansions
  <2>. QED  BY <2>1, TurnsAreFew
<1>5. PICK byHit : byHit = [i \in 1 .. n |-> NamesIn(mentions, hits[i])]
  OBVIOUS
<1>6. ASSUME NEW chunk
      PROVE  /\ NamesIn(mentions, chunk) \in SUBSET Nat
             /\ IsFiniteSet(NamesIn(mentions, chunk))
  <2>1. PICK ms \in SUBSET mentions : ms = {x \in mentions : x[1] = chunk}
    OBVIOUS
  <2>2. IsFiniteSet(ms) /\ \A m \in ms : m[2] \in Nat
    BY FS_Subset DEF RowsTyped, Mention
  <2>3. PICK f : f = [m \in ms |-> m[2]]
    OBVIOUS
  <2>4. DOMAIN f = ms /\ f = [m \in ms |-> f[m]] /\ {f[m] : m \in ms} = NamesIn(mentions, chunk)
    BY <2>1, <2>3 DEF NamesIn
  <2>5. IsFiniteSet(NamesIn(mentions, chunk))
    BY <2>2, <2>4, ImageIsFinite
  <2>6. NamesIn(mentions, chunk) \in SUBSET Nat
    BY <2>1, <2>2 DEF NamesIn
  <2>. QED  BY <2>5, <2>6
<1>7. byHit \in [1 .. n -> SUBSET Nat]
  BY <1>5, <1>6
<1>8. byHit \in Seq(SUBSET Nat) /\ Len(byHit) = n
  BY <1>7, FunctionIsSeq
<1>9. PICK r : r = [reader EXCEPT !.byHit = byHit]
  OBVIOUS
<1>10. r \in Expansions /\ r.hits = hits /\ r.byHit = byHit /\ r.found = {} /\ r.asked = {}
  BY <1>1, <1>3, <1>4, <1>8, <1>9 DEF Expansions
<1>11. OriginsRead(w, r)
  <2>1. ASSUME NEW i \in 1 .. n
        PROVE  /\ IsFiniteSet(r.byHit[i]) /\ r.byHit[i] \subseteq NamesIn(w.mentions, r.hits[i])
               /\ r.byHit[i] = NamesIn(w.now, r.hits[i])
    <3>1. r.byHit[i] = NamesIn(mentions, hits[i])
      BY <1>5, <1>10
    <3>2. mentions \subseteq w.mentions
      BY <1>2 DEF SeenCovers
    <3>3. NamesIn(mentions, hits[i]) \subseteq NamesIn(w.mentions, hits[i])
      BY <3>2 DEF NamesIn
    <3>. QED  BY <1>2, <1>6, <1>10, <3>1, <3>3
  <2>. QED  BY <1>4, <1>8, <1>10, <2>1 DEF OriginsRead
<1>12. PICK one \in Nat : one = 1 /\ one # 0 /\ one <= Turns(r.hits) + 1 /\ one - 1 = 0
  <2>1. Turns(r.hits) \in Nat
    BY <1>10, TurnsAreFew
  <2>2. 1 <= Turns(r.hits) + 1
    BY <2>1
  <2>. QED  BY <2>2
<1>13. NamesBy(w, r, 0) = {} /\ Gathered(w, r)
  <2>1. 1 .. 0 = {}
    OBVIOUS
  <2>. QED  BY <1>10, <2>1 DEF Gathered, NamesBy, ChunksWith
<1>14. w.calm /\ ~r.cut => r.asked = NamesBy(w, r, one - 1)
  BY <1>10, <1>12, <1>13
<1>15. r.found \subseteq Reachable(w.mentions, w.related, r.hits)
  BY <1>10
<1>16. Turn1(r, one) \in Expansions /\ ExpandStands(w, Turn1(r, one))
  BY <1>10, <1>11, <1>12, <1>13, <1>14, <1>15, ExpandTurns
<1>17. World' = w /\ reader' = Turn1(r, one)
  <2>1. byHit = [i \in 1 .. Len(reader.hits) |->
                   {m[2] : m \in {x \in mentions : x[1] = reader.hits[i]}}]
    BY <1>4, <1>5 DEF NamesIn
  <2>2. reader' = Turn1(r, 1)
    BY <1>9, <2>1 DEF ReadOrigins
  <2>. QED  BY <1>1, <1>2, <1>12, <2>2, WorldStays
<1>. QED  BY <1>16, <1>17 DEF ExpandSteps

(* The hits of a search are chunks there are.                               *)
LEMMA ChunksTyped ==
  ASSUME RowsTyped
  PROVE  Chunks \in SUBSET Chunk /\ IsFiniteSet(Chunks)
<1>1. PICK stored \in SUBSET Docs : stored = {e \in Docs : docs[e] # NoDoc}
  OBVIOUS
<1>2. IsFiniteSet(stored)
  BY FS_Subset, GraphAssumption
<1>3. PICK ofDoc : ofDoc = [d \in stored |-> {<<d, i>> : i \in 1 .. Len(docs[d].chunks)}]
  OBVIOUS
<1>4. ASSUME NEW d \in stored
      PROVE  ofDoc[d] \in SUBSET Chunk /\ IsFiniteSet(ofDoc[d])
  <2>1. PICK t \in Bodies : t = docs[d]
    BY <1>1 DEF RowsTyped
  <2>2. PICK n \in Nat : n = Len(t.chunks)
    BY TextTyped
  <2>3. ofDoc[d] = {<<d, i>> : i \in 1 .. n}
    BY <1>3, <2>1, <2>2
  <2>4. PICK f : f = [i \in 1 .. n |-> <<d, i>>]
    OBVIOUS
  <2>5. DOMAIN f = 1 .. n /\ f = [i \in 1 .. n |-> f[i]] /\ {f[i] : i \in 1 .. n} = ofDoc[d]
    BY <2>3, <2>4
  <2>6. IsFiniteSet(1 .. n)
    BY Interval
  <2>7. IsFiniteSet(ofDoc[d])
    BY <2>5, <2>6, ImageIsFinite
  <2>8. \A i \in 1 .. n : <<d, i>> \in Chunk
    BY <1>1 DEF Chunk
  <2>. QED  BY <2>3, <2>7, <2>8
<1>5. PICK sets : sets = {ofDoc[d] : d \in stored}
  OBVIOUS
<1>6. IsFiniteSet(sets)
  <2>1. DOMAIN ofDoc = stored /\ ofDoc = [d \in stored |-> ofDoc[d]]
    BY <1>3
  <2>. QED  BY <1>2, <1>5, <2>1, ImageIsFinite
<1>7. \A s \in sets : IsFiniteSet(s) /\ s \in SUBSET Chunk
  BY <1>4, <1>5
<1>8. IsFiniteSet(UNION sets)
  BY <1>6, <1>7, FS_UNION
<1>9. Chunks = UNION sets
  <2>1. \A d \in stored : ofDoc[d] = {<<d, i>> : i \in 1 .. Len(docs[d].chunks)}
    BY <1>3
  <2>2. \A c : c \in UNION sets <=> \E d \in stored : c \in ofDoc[d]
    BY <1>5
  <2>3. \A c : c \in Chunks <=> \E d \in stored : c \in {<<d, i>> : i \in 1 .. Len(docs[d].chunks)}
    BY <1>1 DEF Chunks
  <2>. QED  BY <2>1, <2>2, <2>3
<1>. QED  BY <1>7, <1>8, <1>9

(* An expansion begins at some hits, in some order.                          *)
LEMMA ExpandBegins ==
  ASSUME RowsTyped, BeginExpand
  PROVE  reader' \in Expansions /\ ExpandSteps'
<1>0. PICK s \in SUBSET Chunks : \E hits \in SetToSeqs(s) : reader' = [Expansion EXCEPT !.hits = hits]
  BY DEF BeginExpand, Begin
<1>1. PICK hits \in SetToSeqs(s) : reader' = [Expansion EXCEPT !.hits = hits]
  BY <1>0
<1>2. s \in SUBSET Chunk /\ IsFiniteSet(s)
  BY ChunksTyped, FS_Subset
<1>3. hits \in Seq(Chunk)
  <2>1. hits \in Seq(s)
    BY <1>2, SetToSeqsProperties
  <2>. QED  BY <1>2, <2>1, SeqWider
<1>4. reader' = [kind |-> "expand", stage |-> "origins", hits |-> hits, byHit |-> <<>>,
                 origin |-> 1, hop |-> 2, frontier |-> <<>>, visited |-> {},
                 asked |-> {}, found |-> {}, cut |-> FALSE, short |-> FALSE]
  BY <1>1 DEF Expansion
<1>5. reader' \in Expansions
  <2>1. <<>> \in Seq(SUBSET Nat) /\ <<>> \in Seq(Nat \X Nat) /\ 1 \in Nat /\ 2 \in Nat
    BY EmptySeq
  <2>. QED  BY <1>3, <1>4, <2>1 DEF Expansions
<1>6. PICK w, next : w = World' /\ next = reader'
  OBVIOUS
<1>7. next.found = {} /\ next.asked = {} /\ next.stage = "origins" /\ ~next.cut
  BY <1>4, <1>6
<1>9. Gathered(w, next)
  BY <1>7 DEF Gathered, ChunksWith
<1>8. ExpandStands(w, next)
  BY <1>7, <1>9 DEF ExpandStands
<1>. QED  BY <1>5, <1>6, <1>8 DEF ExpandSteps

(* What is written meanwhile only adds to what was there.                   *)
LEMMA ExpandOutlivesWrites ==
  ASSUME RowsTyped, SeenCovers, RowsTyped', SeenCovers', ReaderTyped, ExpandSteps,
         reader' = reader, calm' = FALSE,
         seen.mentions \subseteq seen'.mentions, seen.related \subseteq seen'.related
  PROVE  ExpandSteps'
<1>1. CASE reader.kind # "expand"
  BY <1>1 DEF ExpandSteps
<1>2. CASE reader.kind = "expand"
  <2>1. PICK r \in Expansions : r = reader
    BY <1>2 DEF ReaderTyped
  <2>2. PICK w \in Worlds : w = World /\ w.mentions = seen.mentions /\ w.related = seen.related
    BY WorldTyped
  <2>3. PICK v : v = World'
    OBVIOUS
  <2>4. v.mentions = seen'.mentions /\ v.related = seen'.related /\ v.calm = FALSE
    BY <2>3 DEF World
  <2>5. /\ w.mentions \in SUBSET Mention /\ w.related \in SUBSET Edge
        /\ v.mentions \in SUBSET Mention /\ v.related \in SUBSET Edge
        /\ w.mentions \subseteq v.mentions /\ w.related \subseteq v.related
    BY <2>2, <2>4 DEF SeenCovers
  <2>6. ExpandStands(w, r)
    BY <1>2, <2>1, <2>2 DEF ExpandSteps
  <2>7. PICK hits \in Seq(Chunk) : hits = r.hits
    BY DEF Expansions
  <2>8. PICK m1 \in SUBSET Mention, m2 \in SUBSET Mention, e1 \in SUBSET Edge, e2 \in SUBSET Edge :
           /\ m1 = w.mentions /\ m2 = v.mentions /\ e1 = w.related /\ e2 = v.related
           /\ m1 \subseteq m2 /\ e1 \subseteq e2
    BY <2>5
  <2>9. Reachable(m1, e1, hits) \subseteq Reachable(m2, e2, hits)
    BY <2>8, ReachableMore
  <2>10. \A k \in Nat : Within(Roots(m1, hits), e1, k) \subseteq Within(Roots(m2, hits), e2, k)
    BY <2>8, ReachableMore
  <2>11. \A chunk : NamesIn(m1, chunk) \subseteq NamesIn(m2, chunk)
    BY <2>8 DEF NamesIn
  <2>12. OriginsRead(w, r) => OriginsRead(v, r)
    BY <2>4, <2>8, <2>11 DEF OriginsRead
  <2>13. TurnStands(w, r) => TurnStands(v, r)
    <3>1. SUFFICES ASSUME TurnStands(w, r) PROVE TurnStands(v, r)
      OBVIOUS
    <3>2. PICK k \in Nat : k = r.hop - 2
      <4>1. r.hop \in 2 .. MaxExpand + 1 /\ MaxExpand \in Nat
        BY <3>1, GraphAssumption DEF TurnStands
      <4>2. r.hop - 2 \in Nat
        BY <4>1
      <4>. QED  BY <4>2
    <3>3. NamesOf(r.frontier) \subseteq Within(Roots(m1, hits), e1, k)
      BY <2>7, <2>8, <3>1, <3>2 DEF TurnStands
    <3>4. NamesOf(r.frontier) \subseteq Within(Roots(m2, hits), e2, k)
      BY <2>10, <3>3
    <3>. QED  BY <2>4, <2>7, <2>8, <3>1, <3>2, <3>4 DEF TurnStands
  <2>14. ExpandStands(v, r)
    BY <2>4, <2>6, <2>7, <2>8, <2>9, <2>12, <2>13 DEF ExpandStands
  <2>. QED  BY <2>1, <2>3, <2>14 DEF ExpandSteps
<1>. QED  BY <1>1, <1>2

(* An expansion finds what it should.                                       *)
LEMMA ExpansionFinds ==
  ASSUME RowsTyped, SeenCovers, ReaderTyped, ExpandSteps
  PROVE  ExpansionReaches
<1>1. SUFFICES ASSUME reader.kind = "expand"
               PROVE  ExpansionReaches
  BY DEF ExpansionReaches
<1>2. PICK r \in Expansions : r = reader
  BY <1>1 DEF ReaderTyped
<1>3. PICK w \in Worlds : /\ w = World /\ w.now = mentions /\ w.live = Live
                          /\ w.mentions = seen.mentions /\ w.related = seen.related
                          /\ w.calm = calm
  BY WorldTyped
<1>4. ExpandStands(w, r)
  BY <1>1, <1>2, <1>3 DEF ExpandSteps
<1>5. \A ments, edges :
        InReach(ments, edges) = Within(Roots(ments, r.hits), edges, MaxExpand - 1)
  BY <1>2 DEF InReach, Roots, Turns
<1>8. \A ments, names : Mentioning(ments, names) = ChunksWith(ments, names) \ ToSet(r.hits)
  BY <1>2 DEF Mentioning, ChunksWith
<1>6. r.found \subseteq Mentioning(seen.mentions, InReach(seen.mentions, seen.related))
  BY <1>3, <1>4, <1>5, <1>8 DEF ExpandStands, Reachable
<1>9. ASSUME calm, ~r.short
      PROVE  r.found = Mentioning(mentions, r.asked)
  BY <1>3, <1>4, <1>8, <1>9 DEF ExpandStands, Gathered
<1>7. ASSUME r.stage = "done", calm, ~r.cut
      PROVE  r.asked = InReach(mentions, Live)
  <2>1. PICK hits \in Seq(Chunk), turns \in Nat :
           hits = r.hits /\ turns = Turns(hits) /\ \A i \in 1 .. turns : i \in 1 .. Len(hits)
    <3>1. r.hits \in Seq(Chunk)
      BY DEF Expansions
    <3>. QED  BY <3>1, TurnsAreFew
  <2>2. r.asked = NamesBy(w, r, turns) /\ OriginsRead(w, r)
    BY <1>3, <1>4, <1>7, <2>1 DEF ExpandStands
  <2>3. \A i \in 1 .. turns : r.byHit[i] = NamesIn(mentions, hits[i])
    BY <1>3, <1>7, <2>1, <2>2 DEF OriginsRead
  <2>4. PICK ments \in SUBSET Mention, live \in SUBSET Edge, max \in Nat :
           ments = mentions /\ live = Live /\ max = MaxExpand - 1
    <3>1. mentions \in SUBSET Mention /\ Live \in SUBSET Edge
      BY DEF RowsTyped, Live
    <3>2. MaxExpand - 1 \in Nat
      BY GraphAssumption
    <3>. QED  BY <3>1, <3>2
  <2>5. PICK roots \in SUBSET Nat :
           /\ roots = Roots(ments, hits)
           /\ \A n : n \in roots <=> \E i \in 1 .. turns : n \in NamesIn(ments, hits[i])
           /\ \A i \in 1 .. turns : NamesIn(ments, hits[i]) \in SUBSET Nat
    BY <2>1, RootsTyped
  <2>6. PICK part : part = [i \in 1 .. turns |-> NamesIn(ments, hits[i])]
    OBVIOUS
  <2>7. part \in [1 .. turns -> SUBSET Nat] /\ \A i \in 1 .. turns : part[i] = NamesIn(ments, hits[i])
    BY <2>5, <2>6
  <2>8. \A n : n \in roots <=> \E i \in 1 .. turns : n \in part[i]
    BY <2>5, <2>7
  <2>9. \A n : n \in Within(roots, live, max) <=>
               \E i \in 1 .. turns : n \in Within(part[i], live, max)
    <3>1. PICK I : I = 1 .. turns
      OBVIOUS
    <3>2. part \in [I -> SUBSET Nat]
      BY <2>7, <3>1
    <3>3. \A n : n \in roots <=> \E i \in I : n \in part[i]
      BY <2>8, <3>1
    <3>4. \A n : n \in Within(roots, live, max) <=> \E i \in I : n \in Within(part[i], live, max)
      BY <3>2, <3>3, WithinUnion
    <3>. QED  BY <3>1, <3>4
  <2>10. \A i \in 1 .. turns : part[i] = r.byHit[i]
    BY <2>3, <2>4, <2>7
  <2>11. Within(roots, live, max) \in SUBSET Nat
    BY WithinSteps
  <2>12. \A n : n \in NamesBy(w, r, turns) <=> n \in Within(roots, live, max)
    BY <1>3, <2>4, <2>9, <2>10, <2>11 DEF NamesBy
  <2>13. NamesBy(w, r, turns) = Within(roots, live, max)
    BY <2>12
  <2>. QED  BY <1>5, <2>1, <2>2, <2>4, <2>5, <2>13
<1>10. Live = {e \in related : e[2] \in entities /\ e[1] \in entities}
  BY DEF Live
<1>. QED  BY <1>2, <1>6, <1>7, <1>9, <1>10 DEF ExpansionReaches

-----------------------------------------------------------------------------
(* The invariant of the graph, and what follows from it.                    *)
GraphInv ==
    /\ RowsTyped /\ SeenCovers /\ ReaderTyped
    /\ MentionsMatch
    /\ BackSteps /\ WalkSteps /\ ExpandSteps

(* A query changes no row, and no history.                                  *)
LEMMA QueriesKeepRows ==
  ASSUME RowsTyped, SeenCovers, MentionsMatch,
         UNCHANGED <<docs, entities, mentions, related, writes, seen, calm>>
  PROVE  RowsTyped' /\ SeenCovers' /\ MentionsMatch'
<1>1. RowsTyped'
  BY DEF RowsTyped
<1>2. SeenCovers'
  BY DEF SeenCovers
<1>3. MentionsMatch'
  BY DEF MentionsMatch, Of
<1>. QED  BY <1>1, <1>2, <1>3

(* The first query of a reader starts the histories anew.                   *)
LEMMA BeginningsKeepRows ==
  ASSUME RowsTyped, MentionsMatch, NEW r, Begin(r)
  PROVE  RowsTyped' /\ SeenCovers' /\ MentionsMatch'
<1>1. /\ UNCHANGED <<docs, entities, mentions, related>>
      /\ seen' = [mentions |-> mentions, related |-> related] /\ calm' = TRUE
  BY DEF Begin
<1>2. RowsTyped'
  BY <1>1 DEF RowsTyped
<1>3. SeenCovers'
  BY <1>1 DEF SeenCovers, RowsTyped
<1>4. MentionsMatch'
  BY <1>1 DEF MentionsMatch, Of
<1>. QED  BY <1>2, <1>3, <1>4

(* Backlinks that are read while something is written promise nothing but   *)
(* that the document is not its own.                                        *)
LEMMA BackOutlivesWrites ==
  ASSUME BackSteps, reader' = reader, calm' = FALSE
  PROVE  BackSteps'
BY DEF BackSteps

(* A walk is of its own kind, and says nothing of the other readers.        *)
LEMMA WalksOnly ==
  ASSUME reader' \in Walks
  PROVE  ReaderTyped' /\ BackSteps' /\ ExpandSteps'
BY DEF Walks, ReaderTyped, BackSteps, ExpandSteps

(* So is an expansion,                                                      *)
LEMMA ExpansionsOnly ==
  ASSUME reader' \in Expansions
  PROVE  ReaderTyped' /\ BackSteps' /\ WalkSteps'
BY DEF Expansions, ReaderTyped, BackSteps, WalkSteps

(* and a request for backlinks.                                             *)
LEMMA BacksOnly ==
  ASSUME reader' \in Backs
  PROVE  ReaderTyped' /\ WalkSteps' /\ ExpandSteps'
BY DEF Backs, ReaderTyped, WalkSteps, ExpandSteps

(* The empty graph.                                                         *)
LEMMA GraphBegins ==
  ASSUME GraphInit
  PROVE  GraphInv
<1>1. RowsTyped
  BY FS_EmptySet DEF GraphInit, RowsTyped
<1>2. SeenCovers
  BY DEF GraphInit, SeenCovers
<1>3. ReaderTyped /\ BackSteps /\ WalkSteps /\ ExpandSteps
  BY DEF GraphInit, ReaderTyped, BackSteps, WalkSteps, ExpandSteps
<1>4. MentionsMatch
  BY DEF GraphInit, MentionsMatch, Of
<1>. QED  BY <1>1, <1>2, <1>3, <1>4 DEF GraphInv

(* Every step keeps the invariant.                                          *)
LEMMA GraphStepsOn ==
  ASSUME GraphInv, [GraphNext]_graphVars
  PROVE  GraphInv'
<1>0. /\ RowsTyped /\ SeenCovers /\ ReaderTyped /\ MentionsMatch
      /\ BackSteps /\ WalkSteps /\ ExpandSteps
  BY DEF GraphInv
<1>1. CASE Write
  <2>1. /\ RowsTyped' /\ SeenCovers' /\ reader' = reader /\ calm' = FALSE
        /\ seen.mentions \subseteq seen'.mentions /\ seen.related \subseteq seen'.related
    BY <1>0, <1>1, WriteSteps
  <2>2. MentionsMatch'
    BY <1>0, <1>1, WriteMatches
  <2>3. ReaderTyped'
    BY <1>0, <2>1 DEF ReaderTyped
  <2>4. BackSteps'
    BY <1>0, <2>1, BackOutlivesWrites
  <2>5. WalkSteps'
    BY <1>0, <2>1, WalkOutlivesWrites
  <2>6. ExpandSteps'
    BY <1>0, <2>1, ExpandOutlivesWrites
  <2>. QED  BY <2>1, <2>2, <2>3, <2>4, <2>5, <2>6 DEF GraphInv
<1>2. CASE BeginWalk
  <2>1. \E r : Begin(r)
    BY <1>2, Zenon DEF BeginWalk
  <2>2. RowsTyped' /\ SeenCovers' /\ MentionsMatch'
    BY <1>0, <2>1, BeginningsKeepRows
  <2>3. reader' \in Walks /\ WalkSteps'
    BY <1>2, WalkBegins
  <2>. QED  BY <2>2, <2>3, WalksOnly DEF GraphInv
<1>3. CASE BeginExpand
  <2>1. \E r : Begin(r)
    BY <1>3, Zenon DEF BeginExpand
  <2>2. RowsTyped' /\ SeenCovers' /\ MentionsMatch'
    BY <1>0, <2>1, BeginningsKeepRows
  <2>3. reader' \in Expansions /\ ExpandSteps'
    BY <1>0, <1>3, ExpandBegins
  <2>. QED  BY <2>2, <2>3, ExpansionsOnly DEF GraphInv
<1>4. CASE BeginBack
  <2>1. \E r : Begin(r)
    BY <1>4, Zenon DEF BeginBack
  <2>2. RowsTyped' /\ SeenCovers' /\ MentionsMatch'
    BY <1>0, <2>1, BeginningsKeepRows
  <2>3. reader' \in Backs /\ BackSteps'
    BY <1>4, BackBegins
  <2>. QED  BY <2>2, <2>3, BacksOnly DEF GraphInv
<1>5. ASSUME Query
      PROVE  RowsTyped' /\ SeenCovers' /\ MentionsMatch'
  BY <1>0, <1>5, QueriesKeepRows, Zenon DEF Query
<1>6. CASE WalkMentions
  <2>1. Query
    BY <1>6, Zenon DEF WalkMentions
  <2>2. reader' \in Walks /\ WalkSteps'
    BY <1>0, <1>6, WalkReadsMentions
  <2>. QED  BY <1>5, <2>1, <2>2, WalksOnly DEF GraphInv
<1>7. CASE WalkStep
  <2>1. Query
    BY <1>7, Zenon DEF WalkStep
  <2>2. reader' \in Walks /\ WalkSteps'
    BY <1>0, <1>7, WalkTurns
  <2>. QED  BY <1>5, <2>1, <2>2, WalksOnly DEF GraphInv
<1>8. CASE ReadOrigins
  <2>1. Query
    BY <1>8, Zenon DEF ReadOrigins
  <2>2. reader' \in Expansions /\ ExpandSteps'
    BY <1>0, <1>8, ExpandReadsOrigins
  <2>. QED  BY <1>5, <2>1, <2>2, ExpansionsOnly DEF GraphInv
<1>9. CASE ReadHop
  <2>1. Query
    BY <1>9, Zenon DEF ReadHop
  <2>2. reader' \in Expansions /\ ExpandSteps'
    BY <1>0, <1>9, ExpandReadsHop
  <2>. QED  BY <1>5, <2>1, <2>2, ExpansionsOnly DEF GraphInv
<1>10. CASE ReadChunks
  <2>1. Query
    BY <1>10, Zenon DEF ReadChunks
  <2>2. reader' \in Expansions /\ ExpandSteps'
    BY <1>0, <1>10, ExpandReadsChunks
  <2>. QED  BY <1>5, <2>1, <2>2, ExpansionsOnly DEF GraphInv
<1>11. CASE ReadNames
  <2>1. Query
    BY <1>11, Zenon DEF ReadNames
  <2>2. reader' \in Backs /\ BackSteps'
    BY <1>0, <1>11, BackReadsNames
  <2>. QED  BY <1>5, <2>1, <2>2, BacksOnly DEF GraphInv
<1>12. CASE ReadDocuments
  <2>1. Query
    BY <1>12, Zenon DEF ReadDocuments
  <2>2. reader' \in Backs /\ BackSteps'
    BY <1>0, <1>12, BackReadsDocuments
  <2>. QED  BY <1>5, <2>1, <2>2, BacksOnly DEF GraphInv
<1>13. CASE UNCHANGED graphVars
  <2>1. RowsTyped' /\ SeenCovers' /\ MentionsMatch'
    BY <1>0, <1>13, QueriesKeepRows DEF graphVars
  <2>2. reader' = reader
    BY <1>13 DEF graphVars
  <2>3. ReaderTyped'
    BY <1>0, <2>2 DEF ReaderTyped
  <2>4. BackSteps'
    BY <1>0, <1>13 DEF BackSteps, Sharing, Of, graphVars
  <2>5. WalkSteps'
    BY <1>0, <1>13 DEF WalkSteps, graphVars
  <2>6. World' = World
    BY <1>13, WorldStays DEF graphVars
  <2>7. ExpandSteps'
    BY <1>0, <2>2, <2>6 DEF ExpandSteps
  <2>. QED  BY <2>1, <2>3, <2>4, <2>5, <2>7 DEF GraphInv
<1>. QED
  BY <1>1, <1>2, <1>3, <1>4, <1>6, <1>7, <1>8, <1>9, <1>10, <1>11, <1>12, <1>13 DEF GraphNext

(* The graph as it can be at all: the rows and the readers have their       *)
(* types, the histories cover what there is, and the four properties below  *)
(* follow (graph.rs, handlers/graph.rs).                                    *)
THEOREM GraphInvariant == GraphSpec => []GraphInv
<1>1. GraphInit => GraphInv
  BY GraphBegins
<1>2. GraphInv /\ [GraphNext]_graphVars => GraphInv'
  BY GraphStepsOn
<1>. QED  BY <1>1, <1>2, PTL DEF GraphSpec

(* Whatever is uploaded, replaced, rebuilt and deleted, the mentions are    *)
(* exactly those of the texts now stored (ingest.rs, crud.rs, graph.rs).    *)
THEOREM GraphMentions == GraphSpec => []MentionsFollowTexts
<1>1. GraphInv => MentionsFollowTexts
  BY MatchFollows DEF GraphInv
<1>. QED  BY <1>1, GraphInvariant, PTL

(* Storing a text leaves each section that has a parent in it part of that  *)
(* parent and of nothing else, and leaves alone the names that are no       *)
(* section of it (link_section_hierarchy).                                  *)
THEOREM GraphHierarchy == GraphSpec => HierarchyFollowsText
<1>. DEFINE Follows ==
       \A d \in Docs :
        docs'[d] # docs[d] /\ docs'[d] # NoDoc =>
          \A n \in entities' :
            LET now == {e[2] : e \in {x \in related' : x[1] = n /\ x[3] = PartOf}}
                sections == docs'[d].sections
            IN  /\ ParentsOf(docs'[d], n) # {} => now = ParentsOf(docs'[d], n)
                /\ (\A i \in 1 .. Len(sections) : sections[i].name # n) =>
                      now = {e[2] : e \in {x \in related : x[1] = n /\ x[3] = PartOf}}
<1>1. GraphInv /\ [GraphNext]_graphVars => [Follows]_graphVars
  <2>1. SUFFICES ASSUME GraphInv, GraphNext PROVE Follows
    OBVIOUS
  <2>2. SUFFICES ASSUME NEW d \in Docs, docs'[d] # docs[d], docs'[d] # NoDoc,
                        NEW n \in entities'
                 PROVE  LET now == {e[2] : e \in {x \in related' : x[1] = n /\ x[3] = PartOf}}
                            sections == docs'[d].sections
                        IN  /\ ParentsOf(docs'[d], n) # {} => now = ParentsOf(docs'[d], n)
                            /\ (\A i \in 1 .. Len(sections) : sections[i].name # n) =>
                                  now = {e[2] : e \in {x \in related : x[1] = n /\ x[3] = PartOf}}
    BY Zenon
  <2>3. RowsTyped
    BY <2>1 DEF GraphInv
  <2>. QED  BY <2>1, <2>2, <2>3, HierarchyStep, Zenon
<1>. QED  BY <1>1, GraphInvariant, PTL DEF GraphSpec, HierarchyFollowsText

(* What a walk from an entity or a document returns is connected, without   *)
(* repetition and within the limits (graph_query).                          *)
THEOREM GraphWalk == GraphSpec => []WalkIsConnected
<1>1. GraphInv => WalkIsConnected
  BY WalkConnected DEF GraphInv
<1>. QED  BY <1>1, GraphInvariant, PTL

(* An expansion finds nothing out of reach.  When nothing is written it     *)
(* asks about all that is in reach unless the frontier was cut, and what it *)
(* finds is what the database answered (expand_search_hits).                *)
THEOREM GraphExpansion == GraphSpec => []ExpansionReaches
<1>1. GraphInv => ExpansionReaches
  BY ExpansionFinds DEF GraphInv
<1>. QED  BY <1>1, GraphInvariant, PTL

(* Two documents are each other's backlinks exactly when they mention a     *)
(* common name (document_backlinks).                                        *)
THEOREM GraphBacklinks == GraphSpec => []BacklinksAgree
<1>1. GraphInv => BacklinksAgree
  BY Zenon DEF GraphInv, BackSteps, BacklinksAgree, Sharing
<1>. QED  BY <1>1, GraphInvariant, PTL

=============================================================================

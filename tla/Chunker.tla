------------------------------ MODULE Chunker -------------------------------
(***************************************************************************)
(* A process resolves its configuration (module Settings), then cuts one   *)
(* text into overlapping chunks (crates/skb-core/src/tokenize.rs) and      *)
(* embeds them in batches (crates/skb-core/src/embed.rs).                  *)
(*                                                                         *)
(* A text is a sequence of lines of LineLen bytes, each a kind of line;    *)
(* the tokenizer (external) cuts its bytes into tokens anywhere: cuts[i]   *)
(* is the byte offset at which token i ends.  Tokens and bytes count       *)
(* from 0, a chunk is the tokens from .. to - 1.                           *)
(***************************************************************************)
EXTENDS Settings, Sequences

CONSTANTS
    Layers,     \* the layers a process may find (partial functions on Keys)
    Texts,      \* the texts a document may have: sequences of LineKinds
    LineLen,    \* bytes of a line, its newline included
    Growths     \* tokens a chunk's text may have alone beyond its share of
                \* the document's

LineKinds == {"heading", "backticks", "tildes", "plain"}

Counts == Keys \ {"allowed_dirs"}

\* Layers set keys that exist, to a count or to something that does not parse;
\* the defaults parse (unsigned integers of config.rs).
ASSUME LayersAssumption ==
    /\ NoFile \notin Layers
    /\ \A l \in Layers :
          DOMAIN l \subseteq Keys /\ \A k \in DOMAIN l \cap Counts : l[k] \in Nat \cup {Bad}
    /\ DOMAIN Defaults = Keys /\ \A k \in Counts : Defaults[k] \in Nat
    /\ ModelMax \in Nat /\ ModelDim \in Nat

ASSUME TextsAssumption ==
    LineLen \in Nat \ {0} /\ Texts \subseteq Seq(LineKinds) /\ Growths \subseteq Nat

VARIABLES
    phase,      \* where the process is
    config,     \* the resolved configuration
    text,       \* the document being chunked
    cuts,       \* byte offset of the end of each token
    start,      \* first token of the window
    prevEnd,    \* end of the last chunk pushed
    chunks,     \* the chunks pushed
    vectors     \* the embeddings computed, in order

chunkVars == <<phase, config, text, cuts, start, prevEnd, chunks, vectors>>

-----------------------------------------------------------------------------
(* The lines that are headings *)

\* The fence marker open before line n, or "none": a fence closes only on a
\* line of its own marker.
Fence(t) ==
    LET f[n \in 1 .. Len(t) + 1] ==
        IF n = 1 THEN "none"
        ELSE IF f[n - 1] = "none"
             THEN IF t[n - 1] \in {"backticks", "tildes"} THEN t[n - 1] ELSE "none"
             ELSE IF t[n - 1] = f[n - 1] THEN "none" ELSE f[n - 1]
    IN  f

\* heading_starts: byte offsets of the heading lines outside fences.
HeadingStarts(t) ==
    {LineLen * (n - 1) : n \in {m \in 1 .. Len(t) :
                                  t[m] = "heading" /\ Fence(t)[m] = "none"}}

\* heading_at: the first heading inside the bytes lo .. hi - 1, else the
\* nearest one before, else -1.
HeadingAt(heads, lo, hi) ==
    LET inside == {h \in heads : lo <= h /\ h < hi}
        before == {h \in heads : h < lo}
    IN  IF inside # {} THEN CHOOSE h \in inside : \A g \in inside : h <= g
        ELSE IF before # {} THEN CHOOSE h \in before : \A g \in before : g <= h
        ELSE -1

-----------------------------------------------------------------------------
(* The window *)

Tokens == Len(cuts)
EndOf(i) == cuts[i + 1]
BeginOf(i) == IF i = 0 THEN 0 ELSE cuts[i]
MaxTokens == config["max_tokens"]
Overlap == config["overlap_tokens"]

WindowEnd == IF start + MaxTokens < Tokens THEN start + MaxTokens ELSE Tokens

\* The window up to the first token that ends after the next heading; a
\* heading in the window's first token is the chunk's own.
BreakEnd ==
    LET ahead  == {h \in HeadingStarts(text) : h > EndOf(start)}
        next   == CHOOSE h \in ahead : \A g \in ahead : h <= g
        beyond == {i \in start + 1 .. WindowEnd - 1 : EndOf(i) > next}
    IN  IF ahead # {} /\ beyond # {}
        THEN CHOOSE i \in beyond : \A j \in beyond : i <= j
        ELSE WindowEnd

\* A break that gains nothing on the previous chunk stays.
ChunkEndStuck == BreakEnd

\* A break that gains nothing on the previous chunk gives way to the whole
\* window.
ChunkEnd == IF BreakEnd <= prevEnd /\ WindowEnd > prevEnd THEN WindowEnd ELSE BreakEnd

\* The window after a chunk that is no longer than the overlap starts one
\* token late.
NextStartGap(end) == IF Overlap >= end - start THEN end + 1 ELSE end - Overlap

NextStart(end) == IF Overlap >= end - start THEN end ELSE end - Overlap

-----------------------------------------------------------------------------
(* Actions *)

\* The process starts: file, environment and embedder give a configuration,
\* or it stops with an error.
Configure ==
    /\ phase = "boot"
    /\ \E project, user \in Layers \cup {NoFile}, env \in Layers,
          kind \in {"ort", "mock"} :
        LET c == Loaded(project, user, env)
            limits == Reported(kind, c)
            good == Loads(project, user, env) /\ Resolves(c, limits)
        IN  /\ phase' = IF good THEN "ready" ELSE "refused"
            /\ config' = IF good THEN Filled(c, limits) ELSE config
    /\ UNCHANGED <<text, cuts, start, prevEnd, chunks, vectors>>

\* The offsets of a set in ascending order.
Ascending(ends) ==
    [i \in 1 .. Cardinality(ends) |->
        CHOOSE e \in ends : Cardinality({d \in ends : d <= e}) = i]

\* encode: any cut of the bytes; a text without tokens gives no chunks.
Tokenize ==
    /\ phase = "ready"
    /\ \E t \in Texts : \E inner \in SUBSET (1 .. LineLen * Len(t) - 1) :
        /\ text' = t
        /\ cuts' = IF t = <<>> THEN <<>> ELSE Ascending(inner \cup {LineLen * Len(t)})
        /\ phase' = IF t = <<>> THEN "embed" ELSE "chunk"
    /\ UNCHANGED <<config, start, prevEnd, chunks, vectors>>

\* One turn of the loop: a chunk, or, for a range no further than the
\* previous chunk, none.
Turn ==
    /\ phase = "chunk"
    /\ IF ChunkEnd > prevEnd
       THEN /\ chunks' = Append(chunks,
                 [from |-> start, to |-> ChunkEnd,
                  heading |-> HeadingAt(HeadingStarts(text), BeginOf(start),
                                        EndOf(ChunkEnd - 1))])
            /\ prevEnd' = ChunkEnd
            /\ start' = IF ChunkEnd >= Tokens THEN start ELSE NextStart(ChunkEnd)
       ELSE /\ start' = IF ChunkEnd > start + 1 THEN ChunkEnd ELSE start + 1
            /\ UNCHANGED <<chunks, prevEnd>>
    /\ phase' = IF prevEnd' >= Tokens \/ start' >= Tokens THEN "embed" ELSE phase
    /\ UNCHANGED <<config, text, cuts, vectors>>

\* embed_chunk encodes the chunk's text again, out of its context: it may now
\* have more tokens than it had in the document, and what is beyond
\* max_input_tokens is cut off.  (Padding to the longest of the batch cuts
\* nothing, and fewer tokens than before are as safe as the same number.)
Embedded(c, more) ==
    LET again == c.to - c.from + more
        limit == config["max_input_tokens"]
    IN  [from |-> c.from, to |-> c.to, more |-> more,
         lost |-> IF again > limit THEN again - limit ELSE 0]

BatchEnd ==
    IF Len(vectors) + config["batch_size"] < Len(chunks)
    THEN Len(vectors) + config["batch_size"] ELSE Len(chunks)

\* embed_batch: the next batch; a failing batch fails the whole call.
EmbedBatch ==
    /\ phase = "embed"
    /\ IF Len(vectors) >= Len(chunks)
       THEN phase' = "done" /\ UNCHANGED vectors
       ELSE \/ /\ \E more \in [1 .. BatchEnd - Len(vectors) -> Growths] :
                   vectors' = vectors \o
                      [i \in 1 .. BatchEnd - Len(vectors) |->
                         Embedded(chunks[Len(vectors) + i], more[i])]
               /\ UNCHANGED phase
            \/ phase' = "failed" /\ UNCHANGED vectors
    /\ UNCHANGED <<config, text, cuts, start, prevEnd, chunks>>

ChunkInit ==
    /\ phase = "boot" /\ config = Defaults
    /\ text = <<>> /\ cuts = <<>> /\ chunks = <<>> /\ vectors = <<>>
    /\ start = 0 /\ prevEnd = 0

ChunkNext == Configure \/ Tokenize \/ Turn \/ EmbedBatch

ChunkSpec == ChunkInit /\ [][ChunkNext]_chunkVars

-----------------------------------------------------------------------------
(* Properties *)

\* No token before prevEnd is missing from every chunk, and when the loop has
\* ended that is the whole text (tokenize.rs:78-174: headings cut a chunk
\* short, the overlap moves the window back, ranges are skipped).
Covered(i) == \E n \in 1 .. Len(chunks) : chunks[n].from <= i /\ i < chunks[n].to

ChunksCoverText ==
    /\ \A i \in 0 .. prevEnd - 1 : Covered(i)
    /\ phase \in {"embed", "done"} => prevEnd = Tokens

\* Every window gives a chunk: the window always reaches past the last chunk,
\* so the branch that skips a range (tokenize.rs:140-143) is never taken and
\* each chunk keeps its overlap with the one before.
NoRangeSkipped == phase = "chunk" => ChunkEnd > prevEnd

\* When embedding is done every chunk has its own vector, in order, and the
\* limits that load accepts (max_tokens <= max_input_tokens, whichever layer
\* or embedder they come from) leave the cut at max_input_tokens at most what
\* encoding the chunk's text again has added (embed.rs:141-165): a text that
\* has no more tokens alone than in the document is embedded whole.  A text
\* that grows beyond the limit is cut, and nothing in the code notices.
EmbeddedUnlessLonger ==
    phase = "done" =>
        /\ Len(vectors) = Len(chunks)
        /\ \A n \in 1 .. Len(chunks) :
              /\ vectors[n].from = chunks[n].from /\ vectors[n].to = chunks[n].to
              /\ vectors[n].lost <= vectors[n].more

=============================================================================

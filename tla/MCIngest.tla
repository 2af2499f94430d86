------------------------------ MODULE MCIngest ------------------------------
(***************************************************************************)
(* What is done with an uploaded text: how its source is read, how it is   *)
(* cut into chunks, the graph it leaves, and the requests that an MCP      *)
(* server answers meanwhile.  The parts share no state, so each behaviour  *)
(* is one of Chunker, Extraction, KnowledgeGraph or McpServer.             *)
(***************************************************************************)
EXTENDS Chunker, Extraction, KnowledgeGraph, McpServer, TLC

SomeDefaults ==
    [k \in Keys |-> CASE k = "dimension" -> 0 [] k = "max_input_tokens" -> 0
                      [] k = "batch_size" -> 2 [] k = "max_tokens" -> 3
                      [] k = "overlap_tokens" -> 1 [] k = "allowed_dirs" -> {}
                      [] OTHER -> 1]

SomeLayers ==
    {<<>>, [k \in {"max_tokens"} |-> Bad], [k \in {"max_tokens"} |-> 0],
     [k \in {"allowed_dirs"} |-> {}], [k \in {"top_k"} |-> MaxTopK + 1]}
      \cup {[k \in {"max_tokens"} |-> n] : n \in {3, 6}}
      \cup {[k \in {"overlap_tokens"} |-> n] : n \in {0, 2}}
      \cup {[k \in {"max_input_tokens"} |-> n] : n \in {5}}

SomeTexts == UNION {[1 .. n -> LineKinds] : n \in 0 .. 3}

Ask(given, name, title, bytes) ==
    [given |-> given, name |-> name, title |-> title, bytes |-> bytes]

SomeUploads ==
    {Ask({"url"}, "none", "none", "pdf"), Ask({"url"}, "none", "none", "text"),
     Ask({"path"}, "pdf", "none", "pdf"), Ask({"base64"}, "none", "pdf", "binary"),
     Ask({"content"}, "none", "html", "text"),
     Ask({"url", "content"}, "none", "none", "text")}

Section(n, l) == [name |-> n, level |-> l]
Key(k) == [kind |-> "key", key |-> k, inline |-> FALSE, names |-> {}]
Bullet(n) == [kind |-> "bullet", names |-> {n}]

Chunk(names, front) == [names |-> names, front |-> front]

SomeBodies ==
    {[chunks |-> <<Chunk({}, <<Key("tags"), Bullet(1), Key("title"), Bullet(3)>>),
                   Chunk({2}, <<Key("aliases"), Bullet(3)>>)>>,
      sections |-> <<Section(1, 1), Section(2, 2), Section(3, 2)>>],
     [chunks |-> <<Chunk({2, 3}, <<>>)>>,
      sections |-> <<Section(2, 1), Section(1, 3), Section(3, 2)>>],
     [chunks |-> <<Chunk({}, <<Bullet(2), [kind |-> "key", key |-> "aliases", inline |-> TRUE,
                                           names |-> {3}], Bullet(1)>>)>>,
      sections |-> <<Section(2, 2), Section(2, 3), Section(3, 1)>>]}

SomeLinks == {<<1, 2, "uses">>, <<2, 3, "part-of">>, <<2, 1, "uses">>}

VARIABLE part       \* the part this behaviour is about

vars == <<part, chunkVars, pdfVars, graphVars, serverVars>>

InChunker(A) == part = "chunker" /\ A /\ UNCHANGED <<part, pdfVars, graphVars, serverVars>>
InExtraction(A) ==
    part = "extraction" /\ A /\ UNCHANGED <<part, chunkVars, graphVars, serverVars>>
InGraph(A) == part = "graph" /\ A /\ UNCHANGED <<part, chunkVars, pdfVars, serverVars>>
InServer(A) == part = "server" /\ A /\ UNCHANGED <<part, chunkVars, pdfVars, graphVars>>

Init ==
    /\ part \in {"chunker", "extraction", "graph", "server"}
    /\ ChunkInit /\ PdfInit /\ GraphInit /\ ServerInit
    /\ part # "server" => store = {}

Next ==
    \/ InChunker(ChunkNext) \/ InExtraction(PdfNext) \/ InGraph(GraphNext)
    \/ InServer(ServerNext)

\* Timers fire and the runtime goes on with every request, as in the fair
\* specification of McpServer; nothing is assumed of jobs, of the servers
\* that are asked, and of clients.
Spec ==
    /\ Init /\ [][Next]_vars
    /\ WF_vars(InExtraction(Tick))
    /\ \A r \in Requests : WF_vars(InExtraction(Serve(r)))
    /\ \A c \in Calls : WF_vars(InServer(Handle(c))) /\ WF_vars(InServer(Relay(c)))

=============================================================================

-------------------------------- MODULE Chat --------------------------------
(***************************************************************************)
(* A chat answer on its way: the pipeline of the server                    *)
(* (crates/skb-server/src/handlers/chat.rs), the reader of the model's     *)
(* stream (llm.rs) and the hook of the web client                          *)
(* (web/packages/api-client/src/useChatStream.ts, sse.ts).                 *)
(*                                                                         *)
(* The n-th start of the client is stream n.  Search and model answer as   *)
(* they like, or never.  A model's body is a sequence of cells: a line is  *)
(* any number of "part"s and the cell that ends it ("delta", "done",       *)
(* "skip" or "bad", for what parse_line makes of it); a "tail" is a delta  *)
(* that the body ends with, without a newline.  The token that cell i of   *)
(* stream n carries is <<n, i>>.                                           *)
(***************************************************************************)
EXTENDS Integers, Sequences, FiniteSets, SequencesExt

CONSTANTS
    Starts,         \* bound of the model: messages sent
    Bodies,         \* what the model may answer with
    FrameMax,       \* MAX_SSE_FRAME, in cells
    Capacity,       \* of the channel to the client
    Prompts,        \* [question, hits, budget]: sizes of a message and of the
                    \* headers and contents of its hits, and the value of
                    \* SKB_CHAT_TOKEN_BUDGET
    Reserved,       \* size of the fixed strings of the prompt
    CharWidth       \* bytes of a character

Cells == {"part", "delta", "done", "skip", "bad", "tail"}

ASSUME ChatAssumption ==
    /\ Starts \in Nat /\ Reserved \in Nat /\ CharWidth \in Nat \ {0}
    /\ \A body \in Bodies : /\ body \in Seq(Cells)
                            /\ \A i \in 1 .. Len(body) - 1 : body[i] # "tail"
    /\ \A p \in Prompts : /\ p.question \in Nat /\ p.budget \in Nat
                          /\ p.hits \in Seq([header : Nat, content : Nat])

VARIABLES
    pipe,           \* per stream: the server's pipeline
    wire,           \* per stream: events on their way to the client
    gone,           \* per stream: the server sees the client disconnected
    begun,          \* starts so far
    ref,            \* controllerRef: a stream, or 0
    aborted,        \* streams whose controller was aborted
    step,           \* per stream: where the client's start() is
    shown,          \* what the hook returns
    given           \* history: the model's answer to the last message

chatVars == <<pipe, wire, gone, begun, ref, aborted, step, shown, given>>
clientVars == <<begun, ref, aborted, step, shown>>
serverVars == <<pipe, wire, gone, given>>

Streams == 1 .. Starts
Least2(a, b) == IF a < b THEN a ELSE b
Monus(a, b) == IF a < b THEN 0 ELSE a - b

-----------------------------------------------------------------------------
(* The prompt, by size *)

\* Below the fixed strings' size the budget is lifted to it.
TokenBudget(b) == IF b < Reserved THEN Reserved ELSE b

Truncated(size, max) == IF size <= max THEN size ELSE max - (max % CharWidth)

\* The excerpt's content takes all that is left after its header.
AddWhole(room, used, hit) ==
    used + hit.header + 2 + Truncated(hit.content, room - used - hit.header)

\* A header, the content as far as it fits, and the blank line.
AddExcerpt(room, used, hit) ==
    used + hit.header + 2 + Truncated(hit.content, room - used - hit.header - 2)

\* The first hit that does not fit ends the excerpts.
AddHit(room, acc, hit) ==
    IF acc.full \/ acc.used + hit.header + 2 > room THEN [used |-> acc.used, full |-> TRUE]
    ELSE [used |-> AddExcerpt(room, acc.used, hit), full |-> FALSE]

Excerpts(room, hits) ==
    LET added[i \in 0 .. Len(hits)] ==
          IF i = 0 THEN [used |-> 0, full |-> FALSE]
          ELSE AddHit(room, added[i - 1], hits[i])
    IN  added[Len(hits)].used

BuildPrompt(question, hits, budget) ==
    LET message == Truncated(question, Monus(budget, Reserved))
        room == Monus(Monus(budget, Reserved), message)
    IN  [size |-> Reserved + Excerpts(room, hits) + message, message |-> message,
         question |-> question, budget |-> budget]

-----------------------------------------------------------------------------
(* The server's pipeline *)

Off == [at |-> "off"]
Ended == [at |-> "ended"]
ErrorEvent == [name |-> "error"]

Pipe(n, p) == pipe' = [pipe EXCEPT ![n] = p]

\* Send an event, then go on as p.
Sending(event, p) == [at |-> "send", event |-> event, next |-> p]
Failing == Sending(ErrorEvent, Ended)

Accept(n) ==
    /\ n <= begun /\ pipe[n] = Off
    /\ Pipe(n, [at |-> "search"])
    /\ UNCHANGED <<wire, gone, given>> /\ UNCHANGED clientVars

SearchDone(n) ==
    /\ pipe[n].at = "search"
    /\ \/ \E p \in Prompts :
            Pipe(n, Sending([name |-> "citation", of |-> n],
                      [at |-> "connect",
                       prompt |-> BuildPrompt(p.question, p.hits, TokenBudget(p.budget))]))
       \/ Pipe(n, Failing)
    /\ UNCHANGED <<wire, gone, given>> /\ UNCHANGED clientVars

\* The address is refused, the connection fails, or the body begins.
Connect(n) ==
    /\ pipe[n].at = "connect"
    /\ \/ \E body \in Bodies :
            /\ Pipe(n, [at |-> "read", body |-> body, taken |-> 0, got |-> 0])
            /\ given' = IF n = begun THEN body ELSE given
       \/ Pipe(n, Failing) /\ UNCHANGED given
    /\ UNCHANGED <<wire, gone>> /\ UNCHANGED clientVars

\* The buffer is body[taken + 1 .. got].
LineEnds(p) == {i \in p.taken + 1 .. p.got : p.body[i] \notin {"part", "tail"}}
LineEnd(p) == CHOOSE i \in LineEnds(p) : \A j \in LineEnds(p) : i <= j

Token(n, i) == [name |-> "token", token |-> <<n, i>>]
DoneEvent == [name |-> "done"]

\* next_fragment with a whole line in the buffer.
ReadLine(n) ==
    /\ pipe[n].at = "read" /\ LineEnds(pipe[n]) # {}
    /\ LET p == pipe[n]
           i == LineEnd(p)
           rest == [p EXCEPT !.taken = i]
       IN  IF i - p.taken - 1 > FrameMax THEN Pipe(n, Failing)
           ELSE \/ p.body[i] = "delta" /\ Pipe(n, Sending(Token(n, i), rest))
                \/ p.body[i] = "done" /\ Pipe(n, Sending(DoneEvent, Ended))
                \/ p.body[i] = "skip" /\ Pipe(n, rest)
                \/ p.body[i] = "bad" /\ Pipe(n, Failing)
    /\ UNCHANGED <<wire, gone, given>> /\ UNCHANGED clientVars

\* Cells at the end of the buffer that no newline follows.
Trailing(p, got) ==
    got - (IF \E i \in p.taken + 1 .. got : p.body[i] \notin {"part", "tail"}
           THEN CHOOSE i \in p.taken + 1 .. got :
                  /\ p.body[i] \notin {"part", "tail"}
                  /\ \A j \in i + 1 .. got : p.body[j] \in {"part", "tail"}
           ELSE p.taken)

\* next_fragment without one: any amount more arrives, the body ends (a rest
\* without a newline is parsed), or the connection fails.
ReadBody(n) ==
    /\ pipe[n].at = "read" /\ LineEnds(pipe[n]) = {}
    /\ LET p == pipe[n]
       IN  \/ \E got \in p.got + 1 .. Len(p.body) :
                IF Trailing(p, got) > FrameMax THEN Pipe(n, Failing)
                ELSE Pipe(n, [p EXCEPT !.got = got])
           \/ /\ p.got = Len(p.body) /\ p.taken = p.got
              /\ Pipe(n, Sending(DoneEvent, Ended))
           \/ /\ p.got = Len(p.body) /\ p.taken < p.got
              /\ IF p.body[p.got] = "tail"
                 THEN Pipe(n, Sending(Token(n, p.got), [p EXCEPT !.taken = p.got]))
                 ELSE Pipe(n, Sending(DoneEvent, Ended)) \/ Pipe(n, Failing)
           \/ Pipe(n, Failing)
    /\ UNCHANGED <<wire, gone, given>> /\ UNCHANGED clientVars

\* send waits for room; to a client that is gone it fails, unheeded.
Send(n) ==
    /\ pipe[n].at = "send" /\ (gone[n] \/ Len(wire[n]) < Capacity)
    /\ Pipe(n, pipe[n].next)
    /\ wire' = IF gone[n] THEN wire ELSE [wire EXCEPT ![n] = Append(@, pipe[n].event)]
    /\ UNCHANGED <<gone, given>> /\ UNCHANGED clientVars

\* The wait for the model's answer is not given up.
QuitUnlessConnecting(n) ==
    /\ gone[n] /\ pipe[n].at \in {"search", "read"}
    /\ Pipe(n, Ended)
    /\ UNCHANGED <<wire, gone, given>> /\ UNCHANGED clientVars

\* tx.closed() wins a select.
Quit(n) ==
    /\ gone[n] /\ pipe[n].at \in {"search", "connect", "read"}
    /\ Pipe(n, Ended)
    /\ UNCHANGED <<wire, gone, given>> /\ UNCHANGED clientVars

\* What is still on its way is lost.
Disconnect(n) ==
    /\ ~gone[n] /\ (n \in aborted \/ step[n] = "over")
    /\ gone' = [gone EXCEPT ![n] = TRUE] /\ wire' = [wire EXCEPT ![n] = <<>>]
    /\ UNCHANGED <<pipe, given>> /\ UNCHANGED clientVars

-----------------------------------------------------------------------------
(* The client's hook *)

Blank == [status |-> "streaming", tokens |-> <<>>, citations |-> 0]

CurrentAlways(n) == TRUE

Current(n) == ref = n /\ n \notin aborted

Step(n, s) == step' = [step EXCEPT ![n] = s]

\* The end of start(), with an error or without, and its finally block; no
\* task of another stream runs in between.
End(n, error) ==
    /\ Step(n, "over")
    /\ ref' = IF ref = n THEN 0 ELSE ref
    /\ shown' = [shown EXCEPT !.status =
                   IF error /\ Current(n) THEN "error"
                   ELSE IF ref = n /\ @ = "streaming" THEN "idle" ELSE @]

Start ==
    /\ begun < Starts
    /\ begun' = begun + 1 /\ ref' = begun + 1
    /\ aborted' = aborted \cup ({ref} \ {0})
    /\ step' = [step EXCEPT ![begun + 1] = "fetch"]
    /\ shown' = Blank /\ given' = <<>>
    /\ UNCHANGED <<pipe, wire, gone>>

\* stop(), and unmounting.
Stop ==
    /\ ref # 0 /\ aborted' = aborted \cup {ref}
    /\ UNCHANGED <<begun, ref, step, shown>> /\ UNCHANGED serverVars

\* fetch resolves with the stream or another response, or rejects; once it is
\* superseded or stopped nothing more is read.
Fetched(n) ==
    /\ step[n] = "fetch"
    /\ \/ /\ Current(n) /\ pipe[n] # Off /\ Step(n, "stream")
          /\ UNCHANGED <<ref, shown>>
       \/ Current(n) /\ Step(n, "refused") /\ UNCHANGED <<ref, shown>>
       \/ End(n, TRUE)
    /\ UNCHANGED <<begun, aborted>> /\ UNCHANGED serverVars

\* The body of a refusal has been read.
Refused(n) ==
    /\ step[n] = "refused" /\ End(n, TRUE)
    /\ UNCHANGED <<begun, aborted>> /\ UNCHANGED serverVars

\* An event is dispatched; the handlers look whether they are current.
Deliver(n) ==
    /\ step[n] = "stream" /\ wire[n] # <<>>
    /\ wire' = [wire EXCEPT ![n] = Tail(@)]
    /\ LET e == Head(wire[n])
       IN  shown' =
             IF ~Current(n) THEN shown
             ELSE CASE e.name = "citation" -> [shown EXCEPT !.citations = e.of]
                    [] e.name = "token" -> [shown EXCEPT !.tokens = Append(@, e.token)]
                    [] e.name = "error" -> [shown EXCEPT !.status = "error"]
                    [] e.name = "done" ->
                         [shown EXCEPT !.status = IF @ = "error" THEN @ ELSE "done"]
    /\ UNCHANGED <<begun, ref, aborted, step, pipe, gone, given>>

\* The reader was cancelled, the stream ended, or the connection was lost.
StreamEnds(n) ==
    /\ step[n] = "stream"
    /\ \/ n \in aborted /\ End(n, FALSE)
       \/ wire[n] = <<>> /\ pipe[n] = Ended /\ End(n, FALSE)
       \/ End(n, TRUE)
    /\ UNCHANGED <<begun, aborted>> /\ UNCHANGED serverVars

ChatInit ==
    /\ pipe = [n \in Streams |-> Off] /\ wire = [n \in Streams |-> <<>>]
    /\ gone = [n \in Streams |-> FALSE]
    /\ begun = 0 /\ ref = 0 /\ aborted = {} /\ step = [n \in Streams |-> "none"]
    /\ shown = [Blank EXCEPT !.status = "idle"] /\ given = <<>>

ChatNext ==
    \/ \E n \in Streams :
        \/ Accept(n) \/ SearchDone(n) \/ Connect(n) \/ ReadLine(n) \/ ReadBody(n)
        \/ Send(n) \/ Quit(n) \/ Disconnect(n)
        \/ Fetched(n) \/ Refused(n) \/ Deliver(n) \/ StreamEnds(n)
    \/ Start \/ Stop

\* The runtime runs a pipeline whose send or select is ready.  Nothing is
\* assumed of searches, models, networks and users.
ChatSpec == ChatInit /\ [][ChatNext]_chatVars
            /\ \A n \in Streams : WF_chatVars(Quit(n) \/ Send(n))

-----------------------------------------------------------------------------
(* Properties *)

\* The answer a body holds: its deltas before the end marker, in order.
AnswerOf(n, body) ==
    LET deltas == {i \in 1 .. Len(body) : /\ body[i] \in {"delta", "tail"}
                                          /\ \A j \in 1 .. i : body[j] # "done"}
    IN  [k \in 1 .. Cardinality(deltas) |->
            <<n, CHOOSE i \in deltas : Cardinality({j \in deltas : j < i}) = k - 1>>]

\* What is shown is the beginning of the answer to the last message, whatever
\* earlier streams still deliver and wherever the network cuts the model's
\* lines; it is shown as done only when it is all of that answer, with that
\* message's citations; and nothing is shown as streaming once no stream is
\* left (useChatStream.ts:37-91, llm.rs:217-276).
ChatIsTruthful ==
    /\ shown.tokens # <<>> => IsPrefix(shown.tokens, AnswerOf(begun, given))
    /\ shown.citations \in {0, begun}
    /\ shown.status = "done" =>
         shown.citations = begun /\ shown.tokens = AnswerOf(begun, given)
    /\ ref = 0 => shown.status # "streaming"

\* The prompt keeps within its budget, separators included, and the question
\* is only cut when the fixed strings leave no room for it (chat.rs:143-177).
PromptFits ==
    \A n \in Streams :
        LET p == IF pipe[n].at = "send" THEN pipe[n].next ELSE pipe[n]
        IN  p.at = "connect" =>
              /\ p.prompt.size <= p.prompt.budget
              /\ p.prompt.question + Reserved <= p.prompt.budget =>
                   p.prompt.message = p.prompt.question

\* A pipeline whose client is gone stops, although the search or the model may
\* never answer (chat.rs:61-63).
PipelineEnds ==
    \A n \in Streams : []<>(gone[n] => pipe[n].at \in {"off", "ended"})

=============================================================================

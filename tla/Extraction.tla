----------------------------- MODULE Extraction -----------------------------
(***************************************************************************)
(* How an upload gets its text: crates/skb-core/src/ingest.rs,             *)
(* extract_document_data and what it calls.  A request reads a file or a   *)
(* URL, or brings its content; a PDF is parsed and then extracted by       *)
(* blocking jobs that share a fixed number of slots.  A job cannot be      *)
(* cancelled: its caller may have timed out or gone away.                  *)
(*                                                                         *)
(* Time is counted in ticks, and a timer that has run out fires before the *)
(* next tick.  Names are looked up outside every timer.  What a file, a    *)
(* server or a PDF turns out to be is chosen freely, errors included (an   *)
(* address or directory that is not allowed is one of them).               *)
(***************************************************************************)
EXTENDS Integers, FiniteSets, Sequences, SequencesExt

CONSTANTS
    Requests,       \* the upload requests
    Uploads,        \* what a request may ask: [given, name, title, bytes]
    Slots,          \* MAX_CONCURRENT_PDF_JOBS
    Budget,         \* MAX_PROCESS_SECONDS, in ticks
    MaxRedirects,   \* MAX_REDIRECTS
    Lookup          \* ticks after which the system's resolver has answered or
                    \* given up; nothing in the code limits it

Sources == {"url", "path", "base64", "content"}

ASSUME UploadAssumption ==
    /\ Slots \in Nat /\ Budget \in Nat /\ Lookup \in Nat
    /\ \A u \in Uploads : u.given \subseteq Sources

VARIABLES
    req,        \* per request: its stage, what it asks, timers, outcome
    queue,      \* requests waiting for a slot, first come first served
    free,       \* slots of the semaphore that nobody holds
    jobs        \* blocking jobs running: <<request, "parse" or "extract">>

pdfVars == <<req, queue, free, jobs>>

PdfStages == {"parseWait", "parsing", "extractWait", "extracting"}
Timed == PdfStages \cup {"fetching"}
Waiting == {"parseWait", "extractWait"}
Over == {"answered", "dropped"}

Nothing == [given |-> {}, name |-> "none", title |-> "none", bytes |-> "none"]

\* left: of the deadline or budget; wait: of the running timer; slow, fetched,
\* pdf: ticks spent on this lookup, on the fetch and on the PDF.
Idle == [stage |-> "idle", ask |-> Nothing, hops |-> 0, left |-> 0, wait |-> 0,
         slow |-> 0, fetched |-> 0, pdf |-> 0, out |-> "none"]

-----------------------------------------------------------------------------
(* Formats *)

\* UploadRequest::validate: exactly one source.
WellFormed(u) == Cardinality(u.given) = 1
Source(u) == CHOOSE s \in u.given : TRUE

\* The first of: the source's extension, the title's, the response's type.
\* The file title has the source's extension.
Hint(u, header) ==
    IF u.name # "none" THEN u.name ELSE IF u.title # "none" THEN u.title ELSE header

\* extract_text_with_mime: HTML loses its tags, everything else is kept.
TextOf(hint) == IF hint = "html" THEN "stripped" ELSE "verbatim"

-----------------------------------------------------------------------------
(* One request *)

Set(r, q) == req' = [req EXCEPT ![r] = q]

Answer(r, out) == Set(r, [req[r] EXCEPT !.stage = "answered", !.out = out, !.wait = 0])

\* extract_from_bytes, after check_size: a PDF by its first bytes or by the
\* hint queues for a slot with a fresh budget, text is converted, anything
\* else is refused.
Classify(r, header) ==
    LET u == req[r].ask
        hint == Hint(u, header)
    IN  IF u.bytes = "pdf" \/ hint = "pdf"
        THEN /\ Set(r, [req[r] EXCEPT !.stage = "parseWait", !.left = Budget,
                                      !.wait = Budget])
             /\ queue' = Append(queue, r)
        ELSE /\ Answer(r, IF u.bytes = "text" THEN TextOf(hint) ELSE "error")
             /\ UNCHANGED queue

\* The request arrives.  Inline text and base64 are at hand; a file and a URL
\* are read on a blocking thread.
Arrive(r) ==
    /\ req[r].stage = "idle"
    /\ \E u \in Uploads :
        LET asked == [req[r] EXCEPT !.ask = u] IN
        IF ~WellFormed(u)
        THEN Set(r, [asked EXCEPT !.stage = "answered", !.out = "error"])
        ELSE CASE Source(u) = "url" ->
                    Set(r, [asked EXCEPT !.stage = "resolving", !.left = Budget,
                                         !.wait = Budget])
               [] Source(u) \in {"path", "base64"} ->
                    Set(r, [asked EXCEPT !.stage = "reading"])
               [] Source(u) = "content" ->
                    \E out \in {TextOf(Hint(u, "none")), "error"} :
                        Set(r, [asked EXCEPT !.stage = "answered", !.out = out])
    /\ UNCHANGED <<queue, free, jobs>>

\* validate_path, stat, check_size and read; or the decoding of base64.
Read(r) ==
    /\ req[r].stage = "reading"
    /\ \/ Classify(r, "none")
       \/ Answer(r, "error") /\ UNCHANGED queue
    /\ UNCHANGED <<free, jobs>>

\* validate_url_host: to_socket_addrs blocks, outside the deadline; the
\* request that follows gets what was left when the hop began.
Resolve(r) ==
    /\ req[r].stage = "resolving"
    /\ \/ Set(r, [req[r] EXCEPT !.stage = "fetching", !.slow = 0])
       \/ Answer(r, "error")
    /\ UNCHANGED <<queue, free, jobs>>

\* fetch_url: one answer of a server.  A redirect uses up a hop of the loop
\* 0..=MAX_REDIRECTS and keeps the deadline, which is looked at here only; a
\* status other than 200, a bad redirect, a refused host and a body over the
\* limit are errors.
Fetch(r) ==
    /\ req[r].stage = "fetching" /\ req[r].wait > 0
    /\ \/ /\ req[r].hops < MaxRedirects /\ req[r].left > 0
          /\ Set(r, [req[r] EXCEPT !.stage = "resolving", !.hops = @ + 1,
                                   !.wait = req[r].left])
          /\ UNCHANGED queue
       \/ \E header \in {"none", "html", "pdf"} : Classify(r, header)
       \/ Answer(r, "error") /\ UNCHANGED queue
    /\ UNCHANGED <<free, jobs>>

\* The head of the queue gets a slot, and the job takes it along: the parse
\* has a time limit of its own, the extraction what is left of the budget.
StartParse(r) ==
    /\ req[r].stage = "parseWait" /\ queue # <<>> /\ Head(queue) = r /\ free > 0
    /\ Set(r, [req[r] EXCEPT !.stage = "parsing", !.wait = Budget])
    /\ queue' = Tail(queue) /\ free' = free - 1
    /\ jobs' = jobs \cup {<<r, "parse">>}

\* The extraction starts with a full limit again.
StartExtractAfresh(r) ==
    /\ req[r].stage = "extractWait" /\ queue # <<>> /\ Head(queue) = r /\ free > 0
    /\ Set(r, [req[r] EXCEPT !.stage = "extracting", !.wait = Budget])
    /\ queue' = Tail(queue) /\ free' = free - 1
    /\ jobs' = jobs \cup {<<r, "extract">>}

StartExtract(r) ==
    /\ req[r].stage = "extractWait" /\ queue # <<>> /\ Head(queue) = r /\ free > 0
    /\ Set(r, [req[r] EXCEPT !.stage = "extracting", !.wait = req[r].left])
    /\ queue' = Tail(queue) /\ free' = free - 1
    /\ jobs' = jobs \cup {<<r, "extract">>}

\* A job ends and drops its slot.  A caller that still waits for it goes on:
\* after the parse to the second wait (or an error: broken, too many pages),
\* after the extraction to its answer.
JobEnds(r, kind) ==
    /\ <<r, kind>> \in jobs
    /\ jobs' = jobs \ {<<r, kind>>} /\ free' = free + 1
    /\ CASE kind = "parse" /\ req[r].stage = "parsing" ->
              \/ /\ Set(r, [req[r] EXCEPT !.stage = "extractWait", !.wait = req[r].left])
                 /\ queue' = Append(queue, r)
              \/ Answer(r, "error") /\ UNCHANGED queue
         [] kind = "extract" /\ req[r].stage = "extracting" ->
              (\E out \in {"extracted", "error"} : Answer(r, out)) /\ UNCHANGED queue
         [] OTHER -> UNCHANGED <<req, queue>>

\* A timeout: its caller gets an error and leaves the queue.  A wait that
\* could end now does (timeout polls the inner future first).
GrantedNow(r) ==
    req[r].stage \in Waiting /\ queue # <<>> /\ Head(queue) = r /\ free > 0

\* Only running jobs have a time limit, waiting for a slot has none.
ExpireRunning(r) ==
    /\ req[r].stage \in Timed \ Waiting /\ req[r].wait = 0
    /\ Answer(r, "error")
    /\ UNCHANGED <<queue, free, jobs>>

\* The caller frees the slot of the job it gives up on.
ExpireFreeing(r) ==
    /\ req[r].stage \in Timed /\ req[r].wait = 0 /\ ~GrantedNow(r)
    /\ Answer(r, "error")
    /\ queue' = Remove(queue, r)
    /\ free' = IF req[r].stage \in {"parsing", "extracting"} THEN free + 1 ELSE free
    /\ UNCHANGED jobs

Expire(r) ==
    /\ req[r].stage \in Timed /\ req[r].wait = 0 /\ ~GrantedNow(r)
    /\ Answer(r, "error")
    /\ queue' = Remove(queue, r)
    /\ UNCHANGED <<free, jobs>>

\* The client goes away and the request's future is dropped at an await; what
\* runs on a blocking thread goes on.
Drop(r) ==
    /\ req[r].stage \notin Over \cup {"idle"}
    /\ Set(r, [req[r] EXCEPT !.stage = "dropped", !.wait = 0])
    /\ queue' = Remove(queue, r)
    /\ UNCHANGED <<free, jobs>>

\* Time passes for every request under a timer and for every lookup; a lookup
\* that has taken Lookup ticks answers before the next.
Minus(n) == IF n = 0 THEN 0 ELSE n - 1

Older(q) ==
    CASE q.stage = "resolving" ->
           [q EXCEPT !.left = Minus(@), !.slow = @ + 1, !.fetched = @ + 1]
      [] q.stage = "fetching" ->
           [q EXCEPT !.left = Minus(@), !.wait = Minus(@), !.fetched = @ + 1]
      [] q.stage \in PdfStages ->
           [q EXCEPT !.left = Minus(@), !.wait = Minus(@), !.pdf = @ + 1]
      [] OTHER -> q

Tick ==
    /\ \E r \in Requests : req[r].stage \in Timed \cup {"resolving"}
    /\ \A r \in Requests :
          /\ req[r].stage \in Timed => req[r].wait > 0
          /\ req[r].stage = "resolving" => req[r].slow < Lookup
    /\ req' = [r \in Requests |-> Older(req[r])]
    /\ UNCHANGED <<queue, free, jobs>>

PdfInit ==
    /\ req = [r \in Requests |-> Idle]
    /\ queue = <<>> /\ free = Slots /\ jobs = {}

\* What the runtime and the system's resolver do of themselves; jobs, servers
\* and clients may be silent.
Serve(r) == Read(r) \/ Resolve(r) \/ StartParse(r) \/ StartExtract(r) \/ Expire(r)

PdfNext ==
    \/ \E r \in Requests : Arrive(r) \/ Serve(r) \/ Fetch(r) \/ Drop(r)
    \/ \E r \in Requests, kind \in {"parse", "extract"} : JobEnds(r, kind)
    \/ Tick

PdfSpec == PdfInit /\ [][PdfNext]_pdfVars

-----------------------------------------------------------------------------
(* Properties *)

\* However many callers time out or go away, at most Slots PDF jobs run
\* (ingest.rs:510-514: a timed-out caller cannot free the slot of a job that
\* still runs), and no slot is lost: those not in use are free.
JobsBounded ==
    /\ Cardinality(jobs) <= Slots
    /\ free = Slots - Cardinality(jobs)

\* A fetch ends within its one deadline and the time of one name lookup, the
\* last (ingest.rs:721-835, 851), whatever the redirects.  A PDF goes beyond
\* its one budget (ingest.rs:507-583) only in a parse that had to wait for its
\* slot, which has a full limit of its own; beyond the budget nothing more is
\* waited for, neither a slot nor an extraction.
AnswersInTime ==
    \A r \in Requests :
        /\ req[r].fetched <= Budget + Lookup
        /\ req[r].pdf <= 2 * Budget
        /\ req[r].stage \in PdfStages \ {"parsing"} =>
              req[r].pdf <= Budget \/ req[r].wait = 0

\* Every request is answered or dropped, even when every slot is held by a
\* job that never ends and every server is silent; only the system's resolver
\* must give up at some time, since the code does not.
UploadsAnswered ==
    \A r \in Requests : []<>(req[r].stage \in {"idle"} \cup Over)

=============================================================================

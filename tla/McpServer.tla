----------------------------- MODULE McpServer -----------------------------
(***************************************************************************)
(* Requests to skb-mcp: the mutex around the knowledge base, the flag that  *)
(* turns tools away during a reindex, and the progress notifications.       *)
(*                                                                         *)
(* Every request is a task of its own.  tokio's Mutex serves its waiters in *)
(* order.  A reindex claims the flag, waits for the mutex, gives it back    *)
(* and waits for it again; its progress passes through a bounded channel    *)
(* to a task that outlives it if it panics.                                 *)
(***************************************************************************)
EXTENDS Naturals, Sequences, FiniteSets

CONSTANTS
    Calls,     \* bound on requests in flight: the slots they occupy
    Documents, \* documents that may be stored
    Page,      \* documents per page of skb://documents: 100
    Every,     \* PROGRESS_EVERY: 10
    Cap,       \* capacity of the progress channel: 32
    None

(* "tool" is any tool but skb_reindex, "resource" stats or one document. *)
Kinds == {"tool", "reindex", "resource", "listing"}

ASSUME ServerAssumption ==
    /\ IsFiniteSet(Documents) /\ None \notin Calls \cup Kinds
    /\ Page \in Nat \ {0} /\ Every \in Nat \ {0} /\ Cap \in Nat \ {0}

VARIABLES
    store,       \* documents stored
    kb,          \* who holds the mutex
    waiters,     \* who waits for it
    reindexing,  \* the flag
    call,        \* per slot, the request and how far it is
    job,         \* per slot, the locals of reindex
    relay        \* per slot, the progress channel and its forwarder

serverVars == <<store, kb, waiters, reindexing, call, job, relay>>

Pcs == {"idle", "gate", "join", "wait", "held", "rebuild", "drain",
        "release", "unflag", "error"}

NoCall == [pc |-> "idle", kind |-> None, turn |-> 1]
NoJob == [todo |-> {}, ok |-> FALSE]
NoRelay == [state |-> "off", total |-> 0, chan |-> <<>>, last |-> 0, sent |-> <<>>]

Request == [pc : Pcs, kind : Kinds \cup {None}, turn : {1, 2}]
Job == [todo : SUBSET Documents, ok : BOOLEAN]
Channel == [state : {"off", "open", "closed", "done"}, total : Nat,
            chan : Seq(Nat), last : Nat, sent : Seq(Nat)]

TypeOK ==
    /\ store \subseteq Documents
    /\ kb \in Calls \cup {None}
    /\ waiters \in Seq(Calls)
    /\ reindexing \in BOOLEAN
    /\ call \in [Calls -> Request]
    /\ job \in [Calls -> Job]
    /\ relay \in [Calls -> Channel]

ServerInit ==
    /\ store = {}
    /\ kb = None
    /\ waiters = <<>>
    /\ reindexing = FALSE
    /\ call = [c \in Calls |-> NoCall]
    /\ job = [c \in Calls |-> NoJob]
    /\ relay = [c \in Calls |-> NoRelay]

-----------------------------------------------------------------------------
(* Requests and the mutex *)

At(c, pc) == call[c].pc = pc
Is(c, kind) == call[c].kind = kind
Goto(c, pc) == call' = [call EXCEPT ![c].pc = pc]

Reply(c) == call' = [call EXCEPT ![c] = NoCall]

(* Tools start at the flag, resources go straight to the mutex.  Bound: a   *)
(* slot is taken again when the forwarder of its last reindex has ended.    *)
Receive(c, kind) ==
    /\ At(c, "idle") /\ relay[c] = NoRelay
    /\ call' = [call EXCEPT ![c] =
         [pc |-> IF kind \in {"tool", "reindex"} THEN "gate" ELSE "join",
          kind |-> kind, turn |-> 1]]
    /\ UNCHANGED <<store, kb, waiters, reindexing, job, relay>>

(* Turned away: "a reindex is already in progress", "retry after". *)
Reject(c) ==
    /\ At(c, "gate") /\ reindexing
    /\ Reply(c)
    /\ UNCHANGED <<store, kb, waiters, reindexing, job, relay>>

(* Mutant: the flag is read and set in two steps. *)
ClaimUnchecked(c) ==
    /\ At(c, "gate") /\ Is(c, "reindex")
    /\ reindexing' = TRUE
    /\ Goto(c, "join")
    /\ UNCHANGED <<store, kb, waiters, job, relay>>

(* compare_exchange(false, true) *)
Claim(c) ==
    /\ At(c, "gate") /\ Is(c, "reindex")
    /\ ~reindexing
    /\ reindexing' = TRUE
    /\ Goto(c, "join")
    /\ UNCHANGED <<store, kb, waiters, job, relay>>

(* From here on the tool waits for the mutex, whoever claims the flag. *)
Pass(c) ==
    /\ At(c, "gate") /\ Is(c, "tool")
    /\ ~reindexing
    /\ Goto(c, "join")
    /\ UNCHANGED <<store, kb, waiters, reindexing, job, relay>>

Join(c) ==
    /\ At(c, "join")
    /\ waiters' = Append(waiters, c)
    /\ Goto(c, "wait")
    /\ UNCHANGED <<store, kb, reindexing, job, relay>>

Acquire(c) ==
    /\ At(c, "wait")
    /\ kb = None
    /\ waiters # <<>> /\ Head(waiters) = c
    /\ kb' = c
    /\ waiters' = Tail(waiters)
    /\ Goto(c, "held")
    /\ UNCHANGED <<store, reindexing, job, relay>>

(* One operation of the knowledge base; it may store or delete a document,  *)
(* read or fail.  The mutex is released as the answer leaves.               *)
RunTool(c) ==
    /\ At(c, "held") /\ Is(c, "tool")
    /\ \/ \E d \in Documents : store' \in {store \cup {d}, store \ {d}}
       \/ UNCHANGED store
    /\ kb' = None
    /\ Reply(c)
    /\ UNCHANGED <<waiters, reindexing, job, relay>>

ReadResource(c) ==
    /\ At(c, "held") /\ Is(c, "resource")
    /\ kb' = None
    /\ Reply(c)
    /\ UNCHANGED <<store, waiters, reindexing, job, relay>>

(* A page of skb://documents under the mutex.  A full page is followed by   *)
(* another with a cursor, which list_documents answers with an error: its   *)
(* statement does not parse.                                                *)
ReadPage(c) ==
    /\ At(c, "held") /\ Is(c, "listing")
    /\ kb' = None
    /\ IF call[c].turn = 2 THEN Goto(c, "error")
       ELSE IF Cardinality(store) >= Page
       THEN call' = [call EXCEPT ![c].pc = "join", ![c].turn = 2]
       ELSE Reply(c)
    /\ UNCHANGED <<store, waiters, reindexing, job, relay>>

ListingError(c) ==
    /\ At(c, "error")
    /\ Reply(c)
    /\ UNCHANGED <<store, kb, waiters, reindexing, job, relay>>

-----------------------------------------------------------------------------
(* skb_reindex *)

(* drop(kb): handle_reindex takes it again. *)
Yield(c) ==
    /\ At(c, "held") /\ Is(c, "reindex") /\ call[c].turn = 1
    /\ kb' = None
    /\ call' = [call EXCEPT ![c].pc = "join", ![c].turn = 2]
    /\ UNCHANGED <<store, waiters, reindexing, job, relay>>

(* Parameters that do not parse, a dry run, or an error before the first    *)
(* document: no callback, so nothing for the forwarder to complete.         *)
Decline(c) ==
    /\ At(c, "held") /\ Is(c, "reindex") /\ call[c].turn = 2
    /\ Goto(c, "release")
    /\ UNCHANGED <<store, kb, waiters, reindexing, job, relay>>

(* Mutant: the mutex is not taken again. *)
BeginUnlocked(c) ==
    /\ At(c, "join") /\ Is(c, "reindex") /\ call[c].turn = 2
    /\ job' = [job EXCEPT ![c] = [todo |-> store, ok |-> FALSE]]
    /\ Goto(c, "rebuild")
    /\ UNCHANGED <<store, kb, waiters, reindexing, relay>>

(* The documents are selected.  With a progress token there is a channel    *)
(* and a task that forwards it.                                             *)
BeginRebuild(c) ==
    /\ At(c, "held") /\ Is(c, "reindex") /\ call[c].turn = 2
    /\ job' = [job EXCEPT ![c] = [todo |-> store, ok |-> FALSE]]
    /\ relay' \in {relay, [relay EXCEPT ![c].state = "open",
                                       ![c].total = Cardinality(store)]}
    /\ Goto(c, "rebuild")
    /\ UNCHANGED <<store, kb, waiters, reindexing>>

(* The callback: every Every-th document and the last; try_send drops what  *)
(* does not fit.                                                            *)
Report(c, done) ==
    relay' = IF /\ relay[c].state = "open"
                /\ done = relay[c].total \/ done % Every = 0
                /\ Len(relay[c].chan) < Cap
             THEN [relay EXCEPT ![c].chan = Append(@, done)]
             ELSE relay

Close(c) == relay' = [relay EXCEPT ![c].state = IF @ = "open" THEN "closed" ELSE @]

RebuildOne(c) ==
    /\ At(c, "rebuild")
    /\ job[c].todo # {}
    /\ LET d == CHOOSE d \in job[c].todo : TRUE IN
         /\ job' = [job EXCEPT ![c].todo = @ \ {d}]
         /\ Report(c, relay[c].total - Cardinality(job[c].todo \ {d}))
    /\ UNCHANGED <<store, kb, waiters, reindexing, call>>

(* The marker is gone: report(total, total). *)
Complete(c) ==
    /\ At(c, "rebuild") /\ job[c].todo = {} /\ ~job[c].ok
    /\ job' = [job EXCEPT ![c].ok = TRUE]
    /\ Report(c, relay[c].total)
    /\ UNCHANGED <<store, kb, waiters, reindexing, call>>

(* reindex has returned, with or without an error; the callback is dropped. *)
Return(c) ==
    /\ At(c, "rebuild")
    /\ Close(c)
    /\ Goto(c, "drain")
    /\ UNCHANGED <<store, kb, waiters, reindexing, job>>

(* The forwarder is not awaited. *)
Panic(c) ==
    /\ At(c, "rebuild") /\ ~job[c].ok
    /\ Close(c)
    /\ Goto(c, "release")
    /\ UNCHANGED <<store, kb, waiters, reindexing, job>>

(* forwarder.await *)
Drain(c) ==
    /\ At(c, "drain")
    /\ relay[c].state \in {"off", "done"}
    /\ Goto(c, "release")
    /\ UNCHANGED <<store, kb, waiters, reindexing, job, relay>>

(* Mutant: the mutex is kept. *)
ReleaseKept(c) ==
    /\ At(c, "release")
    /\ Goto(c, "unflag")
    /\ UNCHANGED <<store, kb, waiters, reindexing, job, relay>>

(* handle_reindex ends: its guard of the mutex is dropped ... *)
Release(c) ==
    /\ At(c, "release")
    /\ kb' = None
    /\ Goto(c, "unflag")
    /\ UNCHANGED <<store, waiters, reindexing, job, relay>>

Retire(r) == IF r.state \in {"off", "done"} THEN NoRelay ELSE r

(* ... then ReindexGuard. *)
Unflag(c) ==
    /\ At(c, "unflag")
    /\ reindexing' = FALSE
    /\ job' = [job EXCEPT ![c] = NoJob]
    /\ relay' = [relay EXCEPT ![c] = Retire(@)]
    /\ Reply(c)
    /\ UNCHANGED <<store, kb, waiters>>

-----------------------------------------------------------------------------
(* The forwarder *)

MaxSent(c) == LET sent == relay[c].sent IN
    IF sent = <<>> THEN 0 ELSE sent[Len(sent)]

(* Mutant: duplicates are forwarded. *)
ForwardAll(c) == LET done == Head(relay[c].chan) IN
    /\ relay[c].chan # <<>>
    /\ relay' = [relay EXCEPT ![c].chan = Tail(@),
                              ![c].last = relay[c].total,
                              ![c].sent = Append(@, done)]
    /\ UNCHANGED <<store, kb, waiters, reindexing, call, job>>

(* recv: what does not exceed what was sent is discarded. *)
Forward(c) == LET done == Head(relay[c].chan) IN
    /\ relay[c].chan # <<>>
    /\ relay' = [relay EXCEPT ![c].chan = Tail(@),
                              ![c].last = relay[c].total,
                              ![c].sent = IF done <= MaxSent(c) THEN @
                                          ELSE Append(@, done)]
    /\ UNCHANGED <<store, kb, waiters, reindexing, call, job>>

(* Mutant: the completion that did not fit in the channel is not made up. *)
EndSilently(c) ==
    /\ relay[c].state = "closed" /\ relay[c].chan = <<>>
    /\ relay' = [relay EXCEPT ![c].state = "done"]
    /\ UNCHANGED <<store, kb, waiters, reindexing, call, job>>

(* The channel is closed and empty: the completion, unless it was sent.     *)
(* Nobody waits for the forwarder of a reindex that panicked.               *)
End(c) == LET r == relay[c] IN
    /\ r.state = "closed" /\ r.chan = <<>>
    /\ LET sent == IF r.last > MaxSent(c) THEN Append(r.sent, r.last) ELSE r.sent
       IN  relay' = [relay EXCEPT ![c] =
             IF call[c].kind = "reindex" THEN [r EXCEPT !.state = "done", !.sent = sent]
             ELSE NoRelay]
    /\ UNCHANGED <<store, kb, waiters, reindexing, call, job>>

-----------------------------------------------------------------------------
Handle(c) ==
    \/ Reject(c) \/ Claim(c) \/ Pass(c) \/ Join(c) \/ Acquire(c)
    \/ RunTool(c) \/ ReadResource(c) \/ ReadPage(c) \/ ListingError(c)
    \/ Yield(c) \/ Decline(c) \/ BeginRebuild(c) \/ RebuildOne(c) \/ Complete(c)
    \/ Return(c) \/ Panic(c) \/ Drain(c) \/ Release(c) \/ Unflag(c)

Relay(c) == Forward(c) \/ End(c)

ServerNext == \E c \in Calls :
    \/ \E kind \in Kinds : Receive(c, kind)
    \/ Handle(c)
    \/ Relay(c)

ServerSpec == ServerInit /\ [][ServerNext]_serverVars

(* Handlers are tasks that the runtime goes on polling, and the client reads *)
(* its notifications; that it calls anything is up to it.                   *)
FairServerSpec ==
    ServerSpec /\ \A c \in Calls : WF_serverVars(Handle(c)) /\ WF_serverVars(Relay(c))

-----------------------------------------------------------------------------
Working == {"held", "rebuild", "drain", "release"}
Claimed(c) == Is(c, "reindex") /\ ~At(c, "gate")

(* A request that works on the knowledge base holds its mutex, so no two do *)
(* at once: a tool let through before a reindex claimed the flag runs in    *)
(* the gap between the reindex's two acquisitions or after it, never with.  *)
OneAtATime == \A c \in Calls : call[c].pc \in Working <=> kb = c

(* The flag is up exactly while one reindex has claimed it: an error, a bad *)
(* parameter or a panic never leaves it up (tools would be turned away for  *)
(* ever), and no other reindex's end takes it down early.                   *)
FlagIsOwned ==
    /\ reindexing <=> \E c \in Calls : Claimed(c)
    /\ \A c, d \in Calls : Claimed(c) /\ Claimed(d) => c = d

(* What a reindex has still to rebuild is stored, and a reindex that        *)
(* succeeds has rebuilt everything that was stored when it ended: nothing   *)
(* is uploaded or deleted under it.                                         *)
RebuildsTheStore == \A c \in Calls : At(c, "rebuild") =>
    /\ job[c].todo \subseteq store
    /\ relay[c].state = "open" => relay[c].total = Cardinality(store)

Progresses(c) == LET r == relay[c] IN
    /\ \A i \in 1 .. Len(r.sent) : 0 < r.sent[i] /\ r.sent[i] <= r.total
    /\ \A i, j \in 1 .. Len(r.sent) : i < j => r.sent[i] < r.sent[j]

(* The client sees progress strictly increase, up to the total, whatever    *)
(* the channel dropped or repeated, and for a panicked reindex too.         *)
ProgressIncreases == \A c \in Calls : Progresses(c)

(* When skb_reindex succeeds, its client has been sent the completion, even *)
(* if the callback found the channel full.                                  *)
CompletionDelivered == \A c \in Calls :
    /\ Is(c, "reindex") /\ call[c].pc \in {"release", "unflag"} /\ job[c].ok
    /\ relay[c].total > 0
    => MaxSent(c) = relay[c].total

(* Every request is answered, whatever the others do: the mutex is handed   *)
(* over in order and nobody keeps it.                                       *)
EveryoneAnswered == \A c \in Calls : []<>At(c, "idle")

-----------------------------------------------------------------------------
(* What makes the invariants above inductive. *)

Ending == {"rebuild", "drain", "release", "unflag"}

(* How far a request is says what it is, and which locals it has. *)
Placed(c) ==
    /\ At(c, "idle") <=> Is(c, None)
    /\ At(c, "error") => Is(c, "listing")
    /\ call[c].pc \in Ending => Is(c, "reindex")
    /\ call[c].pc \notin Ending => job[c] = NoJob

(* A forwarder starts with the rebuild, and its channel is open as long. *)
Relayed(c) == LET state == relay[c].state IN
    /\ state = "off" => relay[c] = NoRelay
    /\ state = "open" => At(c, "rebuild")
    /\ state = "closed" => /\ call[c].pc \in Ending \cup {"idle"} /\ ~At(c, "rebuild")
                           /\ job[c].ok => At(c, "drain")
    /\ state = "done" => call[c].pc \in Ending /\ ~At(c, "rebuild")

(* What the channel and the forwarder know of the total, and that an        *)
(* accepted completion is on its way until it is sent.                      *)
OnItsWay(c) == LET r == relay[c] IN
    /\ \A i \in 1 .. Len(r.chan) : r.chan[i] <= r.total
    /\ r.last \in {0, r.total}
    /\ job[c].ok /\ r.state \in {"open", "closed"} => r.chan # <<>> \/ r.last = r.total
    /\ job[c].ok /\ r.state = "done" => MaxSent(c) = r.total

McpInv == \A c \in Calls : Placed(c) /\ Relayed(c) /\ OnItsWay(c)

=============================================================================

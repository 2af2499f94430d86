------------------------------ MODULE Autosave ------------------------------
(***************************************************************************)
(* The vault editor's autosave: what one user types into the routed note,   *)
(* the debounce, the PUTs under way and what becomes of their answers while *)
(* the user types on, retries and opens other notes.                        *)
(*                                                                         *)
(* A document's id stands for its content: a PUT of another content mints a *)
(* new id and deletes the old document, so the client follows its own saves *)
(* by rewriting the route.  React, the router and the query cache are       *)
(* external; a callback runs to its next await without interruption.        *)
(***************************************************************************)
EXTENDS Naturals, FiniteSets

CONSTANTS
    Notes,
    Slots,      \* bound on PUTs under way
    MaxEdits,   \* bound on edits
    MaxOpens,   \* bound on sessions the user starts
    MaxFaults,  \* bound on requests or answers that are lost
    None

VARIABLES
    db,        \* server: per note, the number of its id and its content
    route,     \* docIdRef: the id the editor is at
    gen,       \* generationRef
    text,      \* contentRef: what the editor shows
    refetch,   \* the document behind the route is being read again
    pending,   \* the draft the debounce timer holds
    queued,    \* the draft that waits for the PUT under way
    inFlight, last, rotated, status,
    saves,     \* the mutations that have not settled
    edits, faults

client == <<route, gen, text, refetch, pending, queued, inFlight, last, rotated, status>>
editorVars == <<db, client, saves, edits, faults>>

(* An edit inserts something; a content is the edits it has. *)
Edits == Notes \X (1 .. MaxEdits)
Texts == SUBSET Edits
Ids == [note : Notes, ver : Nat]
Draft == [gen : Nat, text : Texts]
Request == [id : Ids, gen : Nat, text : Texts]

(* "sent" until the server has answered, "refetching" while onSuccess waits *)
(* for invalidateQueries.  result is None for a failure.  own: the          *)
(* component that sent it is still mounted.                                 *)
Save == [id : Ids, gen : Nat, text : Texts, own : BOOLEAN,
         phase : {"sent", "answered", "refetching"}, result : Ids \cup {None}]

ASSUME EditorAssumption ==
    /\ MaxEdits \in Nat /\ MaxOpens \in Nat /\ MaxFaults \in Nat
    /\ None \notin Ids \cup Draft \cup Request \cup Save

TypeOK ==
    /\ db \in [Notes -> [ver : Nat, text : Texts]]
    /\ route \in Ids /\ gen \in Nat /\ text \in Texts /\ refetch \in BOOLEAN
    /\ pending \in Draft \cup {None} /\ queued \in Draft \cup {None}
    /\ inFlight \in BOOLEAN /\ last \in Request \cup {None}
    /\ rotated \in Ids \cup {None}
    /\ status \in {"idle", "saving", "saved", "error"}
    /\ saves \in [Slots -> Save \cup {None}]
    /\ edits \in 0 .. MaxEdits /\ faults \in 0 .. MaxFaults

LiveId(n) == [note |-> n, ver |-> db[n].ver]

EditorInit ==
    /\ db = [n \in Notes |-> [ver |-> 0, text |-> {}]]
    /\ route \in {LiveId(n) : n \in Notes}
    /\ gen = 0 /\ text = {} /\ refetch = FALSE
    /\ pending = None /\ queued = None
    /\ inFlight = FALSE /\ last = None /\ rotated = None
    /\ status = "idle"
    /\ saves = [k \in Slots |-> None]
    /\ edits = 0 /\ faults = 0

-----------------------------------------------------------------------------
(* Saving *)

CurrentRequest(r) == r.id = route /\ r.gen = gen

Sent(r) == [id |-> r.id, gen |-> r.gen, text |-> r.text, own |-> TRUE,
            phase |-> "sent", result |-> None]

(* schedule *)
Keystroke == LET content == text \cup {<<route.note, edits + 1>>} IN
    /\ edits < MaxEdits
    /\ edits' = edits + 1
    /\ text' = content
    /\ pending' = [gen |-> gen, text |-> content]
    /\ status' = "saving"
    /\ UNCHANGED <<db, route, gen, refetch, queued, inFlight, last, rotated, saves, faults>>

(* The timer fires and dispatches: behind the PUT under way, or at once.    *)
(* The id is the route's now, not when the edit was made.                   *)
FireDraft ==
    /\ pending # None
    /\ pending' = None
    /\ IF pending.gen # gen
       THEN UNCHANGED <<queued, inFlight, last, saves>>
       ELSE IF inFlight
       THEN /\ queued' = pending
            /\ UNCHANGED <<inFlight, last, saves>>
       ELSE LET request == [id |-> route, gen |-> gen, text |-> pending.text] IN
            /\ inFlight' = TRUE
            /\ last' = request
            /\ \E k \in Slots : /\ saves[k] = None
                                /\ saves' = [saves EXCEPT ![k] = Sent(request)]
            /\ UNCHANGED queued
    /\ UNCHANGED <<db, route, gen, text, refetch, rotated, status, edits, faults>>

(* The button is there while status is an error, whatever is under way. *)
Retry ==
    /\ status = "error"
    /\ last # None /\ CurrentRequest(last)
    /\ status' = "saving"
    /\ inFlight' = TRUE
    /\ \E k \in Slots : /\ saves[k] = None
                        /\ saves' = [saves EXCEPT ![k] = Sent(last)]
    /\ UNCHANGED <<db, route, gen, text, refetch, pending, queued, last, rotated, edits, faults>>

(* The server: PUT to a document that is not there any more is not found,   *)
(* one of the same content is skipped, any other mints a new document.      *)
Serve(k) == LET s == saves[k]  n == s.id.note IN
    /\ s # None /\ s.phase = "sent"
    /\ IF s.id # LiveId(n)
       THEN /\ saves' = [saves EXCEPT ![k].phase = "answered"]
            /\ UNCHANGED db
       ELSE LET ver == IF s.text = db[n].text THEN s.id.ver ELSE s.id.ver + 1 IN
            /\ db' = [db EXCEPT ![n] = [ver |-> ver, text |-> s.text]]
            /\ saves' = [saves EXCEPT ![k].phase = "answered",
                                      ![k].result = [note |-> n, ver |-> ver]]
    /\ UNCHANGED <<client, edits, faults>>

(* The request or its answer is lost. *)
Lose(k) ==
    /\ saves[k] # None /\ saves[k].phase \in {"sent", "answered"}
    /\ faults < MaxFaults
    /\ faults' = faults + 1
    /\ saves' = [saves EXCEPT ![k].phase = "answered", ![k].result = None]
    /\ UNCHANGED <<db, client, edits>>

-----------------------------------------------------------------------------
(* The callbacks of a mutation *)

(* Mutant: the queue goes out to the document of the save before it. *)
SettleAtOldId(k, outcome, at) ==
    IF saves[k].own /\ queued # None /\ queued.gen = gen
    THEN LET request == [id |-> saves[k].id, gen |-> gen, text |-> queued.text] IN
         /\ saves' = [saves EXCEPT ![k] = Sent(request)]
         /\ last' = request
         /\ queued' = None
         /\ status' = "saving"
         /\ UNCHANGED inFlight
    ELSE /\ saves' = [saves EXCEPT ![k] = None]
         /\ inFlight' = (inFlight /\ ~saves[k].own)
         /\ status' = outcome
         /\ UNCHANGED <<queued, last>>

(* Mutant: a save whose session has ended settles nothing. *)
SettleOnlyCurrent(k, outcome, at) ==
    /\ saves' = [saves EXCEPT ![k] = None]
    /\ IF saves[k].own /\ saves[k].gen = gen
       THEN inFlight' = FALSE /\ queued' = None /\ status' = outcome
       ELSE UNCHANGED <<inFlight, queued, status>>
    /\ UNCHANGED last

(* onSettled, after onSuccess or onError has made the status outcome: the   *)
(* queue goes out to where the route is at then, or the editor is free.     *)
Settle(k, outcome, at) ==
    IF ~saves[k].own
    THEN /\ saves' = [saves EXCEPT ![k] = None]
         /\ UNCHANGED <<queued, inFlight, last, status>>
    ELSE IF queued # None /\ queued.gen = gen
    THEN LET request == [id |-> at, gen |-> gen, text |-> queued.text] IN
         /\ saves' = [saves EXCEPT ![k] = Sent(request)]
         /\ last' = request
         /\ queued' = None
         /\ status' = "saving"
         /\ UNCHANGED inFlight
    ELSE /\ saves' = [saves EXCEPT ![k] = None]
         /\ queued' = None
         /\ inFlight' = FALSE
         /\ status' = outcome
         /\ UNCHANGED last

(* The session that sent it goes on: the editor is at its document.         *)
InSession(k) == saves[k].own /\ CurrentRequest(saves[k])

(* onSuccess without a rotation, or for a session that has ended. *)
Succeed(k) == LET s == saves[k] IN
    /\ s # None /\ s.phase = "answered" /\ s.result # None
    /\ InSession(k) => s.result = s.id
    /\ Settle(k, IF InSession(k) THEN "saved" ELSE status, route)
    /\ UNCHANGED <<db, route, gen, text, refetch, pending, rotated, edits, faults>>

(* onSuccess with a new id, up to the await of invalidateQueries. *)
Rotate(k) == LET s == saves[k] IN
    /\ s # None /\ s.phase = "answered" /\ s.result # None
    /\ InSession(k) /\ s.result # s.id
    /\ rotated' = s.result
    /\ saves' = [saves EXCEPT ![k].phase = "refetching"]
    /\ UNCHANGED <<db, route, gen, text, refetch, pending, queued, inFlight, last,
                   status, edits, faults>>

(* onSuccess after the await: the route follows, the layout effect knows    *)
(* its rotation, and the editor shows the content the cache was seeded      *)
(* with.  The user may have gone elsewhere.                                 *)
Refetched(k) == LET s == saves[k] IN
    /\ s # None /\ s.phase = "refetching"
    /\ IF InSession(k)
       THEN /\ route' = s.result
            /\ rotated' = None
            /\ text' = s.text
            /\ refetch' = TRUE
            /\ Settle(k, "saved", s.result)
       ELSE /\ UNCHANGED <<route, rotated, text, refetch>>
            /\ Settle(k, status, route)
    /\ UNCHANGED <<db, gen, pending, edits, faults>>

(* onError *)
Fail(k) == LET s == saves[k] IN
    /\ s # None /\ s.phase = "answered" /\ s.result = None
    /\ Settle(k, IF InSession(k) THEN "error" ELSE status, route)
    /\ UNCHANGED <<db, route, gen, text, refetch, pending, rotated, edits, faults>>

-----------------------------------------------------------------------------
(* Routing *)

(* Mutant: any transition is taken for a rotation. *)
SameSession ==
    /\ status' = "idle"
    /\ UNCHANGED <<gen, pending, queued>>

(* The layout effect, for a transition that is no rotation of ours. *)
NewSession ==
    /\ gen' = gen + 1
    /\ pending' = None
    /\ queued' = None
    /\ status' = "idle"

(* The user opens a note whose document is in the cache: the editor stays   *)
(* mounted.  One that is our rotation's target goes on with the session.    *)
Open(n) ==
    /\ gen < MaxOpens
    /\ LiveId(n) # route
    /\ route' = LiveId(n)
    /\ text' = db[n].text
    /\ refetch' = TRUE
    /\ rotated' = None
    /\ IF rotated = LiveId(n) THEN UNCHANGED <<gen, pending, queued, status>> ELSE NewSession
    /\ UNCHANGED <<db, inFlight, last, saves, edits, faults>>

(* ... or one that is loaded first, or comes back through "/": another      *)
(* editor is mounted, and the saves of the last one are nobody's.           *)
Mount(n) ==
    /\ gen < MaxOpens
    /\ route' = LiveId(n)
    /\ text' = db[n].text
    /\ refetch' = FALSE
    /\ rotated' = None
    /\ NewSession
    /\ inFlight' = FALSE /\ last' = None
    /\ saves' = [k \in Slots |-> IF saves[k] = None THEN None
                                 ELSE [saves[k] EXCEPT !.own = FALSE]]
    /\ UNCHANGED <<db, edits, faults>>

(* The cached document was stale: the answer to the read that follows       *)
(* reaches the sync effect.                                                 *)
Refresh ==
    /\ refetch
    /\ refetch' = FALSE
    /\ text' = IF route = LiveId(route.note) THEN db[route.note].text ELSE text
    /\ UNCHANGED <<db, route, gen, pending, queued, inFlight, last, rotated, status,
                   saves, edits, faults>>

Callback(k) == Succeed(k) \/ Rotate(k) \/ Refetched(k) \/ Fail(k)

EditorNext ==
    \/ Keystroke \/ FireDraft \/ Retry \/ Refresh
    \/ \E n \in Notes : Open(n) \/ Mount(n)
    \/ \E k \in Slots : Serve(k) \/ Lose(k) \/ Callback(k)

EditorSpec == EditorInit /\ [][EditorNext]_editorVars

(* The timer fires, the server answers, callbacks run and queries come back *)
(* (react-query gives up after its retries).  The user need do nothing.     *)
FairEditorSpec ==
    /\ EditorSpec
    /\ WF_editorVars(FireDraft)
    /\ \A k \in Slots : WF_editorVars(Serve(k)) /\ WF_editorVars(Callback(k))

-----------------------------------------------------------------------------
Typed(n) == {n} \X (1 .. MaxEdits)

Saving == {k \in Slots : saves[k] # None /\ saves[k].own}

(* "a request can never carry one document's input into another document's  *)
(* PUT": whatever the user opens while saves, retries and drafts are under  *)
(* way, a note holds and the editor shows only what was typed into it.      *)
SameNote ==
    /\ \A n \in Notes : db[n].text \subseteq Typed(n)
    /\ text \subseteq Typed(route.note)

(* When nothing is under way and no error is shown, an edited note is       *)
(* stored as the editor shows it, at the id the editor is at.               *)
RestIsTruthful ==
    pending = None /\ queued = None /\ Saving = {} /\ status \in {"saving", "saved"}
    => db[route.note] = [ver |-> route.ver, text |-> text]

(* The editor never waits for a save that is not under way: drafts would    *)
(* queue for ever, and the note never be saved again.                       *)
QueueIsServed == inFlight \/ queued # None => Saving # {}

(* A draft leaves the timer and the queue, whatever happens to the saves    *)
(* before it.                                                               *)
DraftsLeave == []<>(pending = None /\ queued = None)

(* EditorSurface.tsx 26: "the content equality check in the sync effect     *)
(* keeps the CodeMirror cursor untouched when the PUT response re-points    *)
(* the route".  Following a save leaves what the editor shows alone.        *)
RotationKeepsText ==
    [][route' # route /\ gen' = gen => text' = text]_editorVars

-----------------------------------------------------------------------------
(* What makes SameNote inductive: whatever holds a content holds it for its *)
(* note, and a rotation is one of the note the editor is at.                *)

SaveBound(k) == saves[k] # None =>
    /\ saves[k].text \subseteq Typed(saves[k].id.note)
    /\ saves[k].result # None => saves[k].result.note = saves[k].id.note
    /\ saves[k].phase = "refetching" => saves[k].result # None

DraftsBound ==
    /\ pending # None => pending.text \subseteq Typed(route.note)
    /\ queued # None => queued.text \subseteq Typed(route.note)
    /\ last # None => last.text \subseteq Typed(last.id.note)
    /\ rotated # None => rotated.note = route.note

NoteInv == DraftsBound /\ \A k \in Slots : SaveBound(k)

-----------------------------------------------------------------------------
(* What makes RestIsTruthful inductive.  An edit makes a content that was   *)
(* never there, so a draft is none that was sent ...                        *)

Known(content) == content \subseteq Notes \X (1 .. edits)

ContentsKnown ==
    /\ Known(text)
    /\ \A n \in Notes : Known(db[n].text)
    /\ pending # None => Known(pending.text)
    /\ queued # None => Known(queued.text)
    /\ last # None => Known(last.text)
    /\ \A k \in Slots : saves[k] # None => Known(saves[k].text)

Unsent(content) ==
    /\ \A n \in Notes : db[n].text # content
    /\ \A k \in Slots : saves[k] # None => saves[k].text # content
    /\ last # None => last.text # content

DraftsFresh ==
    /\ pending # None => pending.gen = gen /\ Unsent(pending.text)
    /\ queued # None => queued.gen = gen /\ Unsent(queued.text)
    /\ pending # None /\ queued # None => pending.text # queued.text

(* ... and a PUT of the session, if it is served at all, rotates the id of  *)
(* its document.  Nobody else is at the new id before the route follows.    *)

Differs(content) == route = LiveId(route.note) => db[route.note].text # content

Sendable(r) ==
    /\ r.gen <= gen
    /\ r.id.ver <= db[r.id.note].ver
    /\ r.id.note = route.note => r.id.ver <= route.ver

Rotates(s) ==
    /\ s.phase = "sent" => s.result = None
    /\ s.result # None => /\ s.result.ver <= db[s.id.note].ver
                          /\ s.result.ver = db[s.id.note].ver => db[s.id.note].text = s.text
    /\ CurrentRequest(s) /\ s.phase = "sent" => Differs(s.text)
    /\ CurrentRequest(s) /\ s.result # None => s.result # s.id /\ s.result.ver = db[s.id.note].ver

VersionsInv ==
    /\ route.ver <= db[route.note].ver
    /\ last # None => Sendable(last) /\ (CurrentRequest(last) => Differs(last.text))
    /\ \A k \in Slots : saves[k] # None => Sendable(saves[k]) /\ Rotates(saves[k])

(* An edited note is stored as the editor shows it, and no PUT to it is     *)
(* left that could still be served; or there is one that decides.           *)

Stored ==
    /\ db[route.note] = [ver |-> route.ver, text |-> text]
    /\ \A k \in Slots : saves[k] # None => saves[k].id # route

Decided ==
    status \in {"saving", "saved"} =>
        \/ pending # None \/ queued # None
        \/ \E k \in Slots : saves[k] # None /\ InSession(k)
        \/ Stored

RestInv == ContentsKnown /\ DraftsFresh /\ VersionsInv /\ Decided

=============================================================================

--------------------------- MODULE AutosaveProofs ---------------------------
(***************************************************************************)
(* Theorems about Autosave, for any notes, any number of edits, sessions,   *)
(* PUTs under way and lost answers.                                         *)
(***************************************************************************)
EXTENDS Autosave, TLAPS

(* The document of a note that is stored now. *)
LEMMA LiveIdType ==
  ASSUME TypeOK, NEW n \in Notes
  PROVE  LiveId(n) \in Ids /\ LiveId(n).note = n
  BY DEF TypeOK, LiveId, Ids

(* A request that is dispatched becomes a save of the mounted editor. *)
LEMMA SentType ==
  ASSUME NEW r \in Request
  PROVE  /\ Sent(r) \in Save /\ Sent(r) # None
         /\ Sent(r).own /\ Sent(r).result = None /\ Sent(r).phase = "sent"
         /\ Sent(r).id = r.id /\ Sent(r).gen = r.gen /\ Sent(r).text = r.text
<1>1. Sent(r) \in Save
  BY DEF Sent, Save, Request
<1>. QED  BY <1>1, EditorAssumption DEF Sent

(* What onSettled leaves behind: the queue's request in the place of the    *)
(* save, or an empty slot.                                                  *)
LEMMA SettleType ==
  ASSUME TypeOK, NEW k \in Slots, saves[k] # None, NEW at \in Ids,
         NEW outcome \in {"idle", "saving", "saved", "error"},
         Settle(k, outcome, at)
  PROVE  /\ queued' \in Draft \cup {None} /\ inFlight' \in BOOLEAN
         /\ last' \in Request \cup {None}
         /\ status' \in {"idle", "saving", "saved", "error"}
         /\ saves' \in [Slots -> Save \cup {None}]
<1>1. CASE ~saves[k].own
  BY <1>1 DEF Settle, TypeOK
<1>2. CASE saves[k].own /\ queued # None /\ queued.gen = gen
  <2>. DEFINE request == [id |-> at, gen |-> gen, text |-> queued.text]
  <2>1. request \in Request
    BY <1>2 DEF TypeOK, Draft, Request
  <2>2. Sent(request) \in Save
    BY <2>1, SentType
  <2>3. /\ saves' = [saves EXCEPT ![k] = Sent(request)]
        /\ last' = request /\ queued' = None /\ status' = "saving" /\ UNCHANGED inFlight
    BY <1>2 DEF Settle
  <2>. HIDE DEF request
  <2>. QED  BY <2>1, <2>2, <2>3 DEF TypeOK
<1>3. CASE saves[k].own /\ ~(queued # None /\ queued.gen = gen)
  BY <1>3 DEF Settle, TypeOK
<1>. QED  BY <1>1, <1>2, <1>3

(* TypeOK is inductive: what the user does and the timer. *)
LEMMA TypedByUser ==
  ASSUME TypeOK,
         \/ Keystroke \/ FireDraft \/ Retry \/ Refresh
         \/ \E n \in Notes : Open(n) \/ Mount(n)
  PROVE  TypeOK'
<1>1. CASE Keystroke
  <2>. DEFINE content == text \cup {<<route.note, edits + 1>>}
  <2>1. edits + 1 \in 1 .. MaxEdits /\ route.note \in Notes
    BY <1>1, EditorAssumption DEF Keystroke, TypeOK, Ids
  <2>2. content \in Texts
    BY <2>1 DEF TypeOK, Texts, Edits
  <2>3. text' = content /\ pending' = [gen |-> gen, text |-> content]
    BY <1>1 DEF Keystroke
  <2>. HIDE DEF content
  <2>4. pending' \in Draft
    BY <2>2, <2>3 DEF TypeOK, Draft
  <2>5. edits' \in 0 .. MaxEdits
    BY <1>1, EditorAssumption DEF Keystroke, TypeOK
  <2>6. UNCHANGED <<db, route, gen, refetch, queued, inFlight, last, rotated, saves, faults>>
        /\ status' = "saving"
    BY <1>1 DEF Keystroke
  <2>. QED  BY <2>2, <2>3, <2>4, <2>5, <2>6 DEF TypeOK
<1>2. CASE FireDraft
  <2>1. CASE pending.gen # gen \/ inFlight
    BY <1>2, <2>1 DEF FireDraft, TypeOK
  <2>2. CASE pending.gen = gen /\ ~inFlight
    <3>. DEFINE request == [id |-> route, gen |-> gen, text |-> pending.text]
    <3>1. request \in Request
      BY <1>2 DEF FireDraft, TypeOK, Draft, Request
    <3>2. PICK k \in Slots : saves' = [saves EXCEPT ![k] = Sent(request)]
      BY <1>2, <2>2 DEF FireDraft
    <3>3. last' = request
      BY <1>2, <2>2 DEF FireDraft
    <3>4. Sent(request) \in Save
      BY <3>1, SentType
    <3>. HIDE DEF request
    <3>5. saves' \in [Slots -> Save \cup {None}]
      BY <3>2, <3>4 DEF TypeOK
    <3>. QED  BY <1>2, <2>2, <3>1, <3>3, <3>5 DEF FireDraft, TypeOK
  <2>. QED  BY <2>1, <2>2
<1>3. CASE Retry
  <2>1. last \in Request
    BY <1>3 DEF Retry, TypeOK
  <2>2. Sent(last) \in Save
    BY <2>1, SentType
  <2>3. saves' \in [Slots -> Save \cup {None}]
    BY <1>3, <2>2 DEF Retry, TypeOK
  <2>. QED  BY <1>3, <2>3 DEF Retry, TypeOK
<1>4. CASE Refresh
  <2>1. text' \in Texts
    BY <1>4 DEF Refresh, TypeOK, Ids
  <2>. QED  BY <1>4, <2>1 DEF Refresh, TypeOK
<1>5. ASSUME NEW n \in Notes, Open(n)
      PROVE  TypeOK'
  <2>1. route' \in Ids /\ text' \in Texts
    BY <1>5, LiveIdType DEF Open, TypeOK
  <2>. QED  BY <1>5, <2>1 DEF Open, NewSession, TypeOK
<1>6. ASSUME NEW n \in Notes, Mount(n)
      PROVE  TypeOK'
  <2>1. route' \in Ids /\ text' \in Texts
    BY <1>6, LiveIdType DEF Mount, TypeOK
  <2>2. ASSUME NEW k \in Slots
        PROVE  saves'[k] \in Save \cup {None}
    <3>1. saves[k] \in Save => [saves[k] EXCEPT !.own = FALSE] \in Save
      BY DEF Save
    <3>. QED  BY <1>6, <3>1 DEF Mount, TypeOK
  <2>3. saves' \in [Slots -> Save \cup {None}]
    BY <1>6, <2>2 DEF Mount
  <2>4. /\ gen' \in Nat /\ pending' = None /\ queued' = None /\ status' = "idle"
        /\ rotated' = None /\ last' = None
    BY <1>6 DEF Mount, NewSession, TypeOK
  <2>6. inFlight' = FALSE /\ refetch' = FALSE
    BY <1>6, Zenon DEF Mount
  <2>5. UNCHANGED <<db, edits, faults>>
    BY <1>6 DEF Mount
  <2>. QED  BY <2>1, <2>3, <2>4, <2>5, <2>6 DEF TypeOK
<1>. QED  BY <1>1, <1>2, <1>3, <1>4, <1>5, <1>6

(* TypeOK is inductive: the server and the callbacks. *)
LEMMA TypedByAnswers ==
  ASSUME TypeOK, NEW k \in Slots, SaveBound(k), Serve(k) \/ Lose(k) \/ Callback(k)
  PROVE  TypeOK'
<1>0. saves[k] \in Save
  BY DEF TypeOK, Serve, Lose, Callback, Succeed, Rotate, Refetched, Fail
<1>1. CASE Serve(k)
  <2>. DEFINE s == saves[k]
              ver == IF s.text = db[s.id.note].text THEN s.id.ver ELSE s.id.ver + 1
              answer == [note |-> s.id.note, ver |-> ver]
  <2>1. s.id \in Ids /\ s.text \in Texts
    BY <1>0 DEF Save
  <2>2. ver \in Nat /\ answer \in Ids
    BY <2>1 DEF Ids
  <2>3. CASE s.id # LiveId(s.id.note)
    BY <1>0, <1>1, <2>3 DEF Serve, TypeOK, client, Save
  <2>4. CASE s.id = LiveId(s.id.note)
    <3>1. /\ db' = [db EXCEPT ![s.id.note] = [ver |-> ver, text |-> s.text]]
          /\ saves' = [saves EXCEPT ![k].phase = "answered", ![k].result = answer]
      BY <1>1, <2>4 DEF Serve
    <3>. HIDE DEF ver, answer
    <3>2. db' \in [Notes -> [ver : Nat, text : Texts]]
      BY <2>1, <2>2, <3>1 DEF TypeOK, Ids
    <3>3. saves' \in [Slots -> Save \cup {None}]
      BY <1>0, <2>2, <3>1 DEF TypeOK, Save
    <3>. QED  BY <1>1, <3>2, <3>3 DEF Serve, TypeOK, client
  <2>. QED  BY <2>3, <2>4
<1>2. CASE Lose(k)
  <2>1. saves' \in [Slots -> Save \cup {None}]
    BY <1>0, <1>2 DEF Lose, TypeOK, Save
  <2>2. faults' \in 0 .. MaxFaults
    BY <1>2, EditorAssumption DEF Lose, TypeOK
  <2>. QED  BY <1>2, <2>1, <2>2 DEF Lose, TypeOK, client
<1>3. CASE Succeed(k)
  <2>1. PICK outcome \in {"idle", "saving", "saved", "error"} : Settle(k, outcome, route)
    BY <1>3 DEF Succeed, TypeOK
  <2>. QED  BY <1>3, <2>1, SettleType DEF Succeed, TypeOK
<1>4. CASE Rotate(k)
  <2>1. saves[k].result \in Ids
    BY <1>0, <1>4 DEF Rotate, Save
  <2>2. saves' \in [Slots -> Save \cup {None}]
    BY <1>0, <1>4 DEF Rotate, TypeOK, Save
  <2>. QED  BY <1>4, <2>1, <2>2 DEF Rotate, TypeOK
<1>5. CASE Refetched(k)
  <2>0. saves[k].result # None
    BY <1>0, <1>5, EditorAssumption DEF Refetched, SaveBound
  <2>1. CASE InSession(k)
    <3>1. saves[k].result \in Ids /\ saves[k].text \in Texts
      BY <1>0, <2>0 DEF Save
    <3>2. Settle(k, "saved", saves[k].result)
      BY <1>5, <2>1 DEF Refetched
    <3>. QED  BY <1>5, <2>1, <3>1, <3>2, SettleType DEF Refetched, TypeOK
  <2>2. CASE ~InSession(k)
    <3>1. Settle(k, status, route)
      BY <1>5, <2>2 DEF Refetched
    <3>. QED  BY <1>5, <2>2, <3>1, SettleType DEF Refetched, TypeOK
  <2>. QED  BY <2>1, <2>2
<1>6. CASE Fail(k)
  <2>1. PICK outcome \in {"idle", "saving", "saved", "error"} : Settle(k, outcome, route)
    BY <1>6 DEF Fail, TypeOK
  <2>. QED  BY <1>6, <2>1, SettleType DEF Fail, TypeOK
<1>. QED  BY <1>1, <1>2, <1>3, <1>4, <1>5, <1>6 DEF Callback

-----------------------------------------------------------------------------
(* SameNote, NoteInv *)

(* onSettled sends a draft of the note the route is at to a document of it. *)
LEMMA SettleBound ==
  ASSUME TypeOK, NEW k \in Slots, saves[k] # None, NEW at \in Ids, NEW outcome,
         at.note = route.note, NoteInv, Settle(k, outcome, at)
  PROVE  /\ queued' # None => queued'.text \subseteq Typed(route.note)
         /\ last' # None => last'.text \subseteq Typed(last'.id.note)
         /\ \A j \in Slots : SaveBound(j)'
<1>1. CASE ~saves[k].own
  BY <1>1 DEF Settle, TypeOK, NoteInv, DraftsBound, SaveBound
<1>2. CASE saves[k].own /\ queued # None /\ queued.gen = gen
  <2>. DEFINE request == [id |-> at, gen |-> gen, text |-> queued.text]
  <2>1. request \in Request /\ request.id = at /\ request.text = queued.text
    BY <1>2 DEF TypeOK, Draft, Request
  <2>2. saves' = [saves EXCEPT ![k] = Sent(request)] /\ last' = request /\ queued' = None
    BY <1>2 DEF Settle
  <2>3. queued.text \subseteq Typed(at.note)
    BY <1>2 DEF NoteInv, DraftsBound
  <2>. HIDE DEF request
  <2>4. ASSUME NEW j \in Slots
        PROVE  SaveBound(j)'
    <3>1. CASE j = k
      <4>1. saves'[j] = Sent(request)
        BY <2>2, <3>1 DEF TypeOK
      <4>. QED  BY <2>1, <2>3, <4>1, SentType DEF SaveBound, Typed
    <3>2. CASE j # k
      BY <2>2, <3>2 DEF TypeOK, NoteInv, SaveBound, Typed
    <3>. QED  BY <3>1, <3>2
  <2>. QED  BY <2>1, <2>2, <2>3, <2>4
<1>3. CASE saves[k].own /\ ~(queued # None /\ queued.gen = gen)
  <2>1. saves' = [saves EXCEPT ![k] = None] /\ queued' = None /\ UNCHANGED last
    BY <1>3 DEF Settle
  <2>. QED  BY <2>1 DEF TypeOK, NoteInv, DraftsBound, SaveBound, Typed
<1>. QED  BY <1>1, <1>2, <1>3

(* A save that is dispatched carries its note's content. *)
LEMMA DispatchBound ==
  ASSUME TypeOK, NoteInv, NEW k \in Slots, NEW r \in Request,
         r.text \subseteq Typed(r.id.note), saves' = [saves EXCEPT ![k] = Sent(r)]
  PROVE  \A j \in Slots : SaveBound(j)'
<1>. SUFFICES ASSUME NEW j \in Slots PROVE SaveBound(j)'
  OBVIOUS
<1>1. CASE j = k
  <2>1. saves'[j] = Sent(r)
    BY <1>1 DEF TypeOK
  <2>. QED  BY <2>1, SentType DEF SaveBound, Typed
<1>2. CASE j # k
  BY <1>2 DEF TypeOK, NoteInv, SaveBound, Typed
<1>. QED  BY <1>1, <1>2

(* What the user does and the timer keep every content with its note. *)
LEMMA NoteByUser ==
  ASSUME TypeOK, SameNote, NoteInv,
         \/ Keystroke \/ FireDraft \/ Retry \/ Refresh
         \/ \E n \in Notes : Open(n) \/ Mount(n)
  PROVE  SameNote' /\ NoteInv'
<1>. USE DEF Typed
<1>1. CASE Keystroke
  <2>. DEFINE content == text \cup {<<route.note, edits + 1>>}
  <2>1. edits + 1 \in 1 .. MaxEdits
    BY <1>1, EditorAssumption DEF Keystroke, TypeOK
  <2>2. content \subseteq Typed(route.note)
    BY <2>1 DEF SameNote
  <2>3. /\ text' = content /\ pending' = [gen |-> gen, text |-> content]
        /\ UNCHANGED <<db, route, queued, last, rotated, saves>>
    BY <1>1 DEF Keystroke
  <2>. HIDE DEF content
  <2>. QED  BY <2>2, <2>3 DEF SameNote, NoteInv, DraftsBound, SaveBound
<1>2. CASE FireDraft
  <2>1. CASE pending.gen # gen \/ inFlight
    BY <1>2, <2>1 DEF FireDraft, SameNote, NoteInv, DraftsBound, SaveBound
  <2>2. CASE pending.gen = gen /\ ~inFlight
    <3>. DEFINE request == [id |-> route, gen |-> gen, text |-> pending.text]
    <3>1. request \in Request /\ request.text \subseteq Typed(request.id.note)
      BY <1>2 DEF FireDraft, TypeOK, Draft, Request, NoteInv, DraftsBound
    <3>2. PICK k \in Slots : saves' = [saves EXCEPT ![k] = Sent(request)]
      BY <1>2, <2>2 DEF FireDraft
    <3>3. /\ last' = request /\ pending' = None
          /\ UNCHANGED <<db, route, text, queued, rotated>>
      BY <1>2, <2>2 DEF FireDraft
    <3>. HIDE DEF request
    <3>4. \A j \in Slots : SaveBound(j)'
      BY <3>1, <3>2, DispatchBound
    <3>. QED  BY <3>1, <3>3, <3>4 DEF SameNote, NoteInv, DraftsBound
  <2>. QED  BY <2>1, <2>2
<1>3. CASE Retry
  <2>1. last \in Request /\ last.text \subseteq Typed(last.id.note)
    BY <1>3 DEF Retry, TypeOK, NoteInv, DraftsBound
  <2>2. PICK k \in Slots : saves' = [saves EXCEPT ![k] = Sent(last)]
    BY <1>3 DEF Retry
  <2>3. \A j \in Slots : SaveBound(j)'
    BY <2>1, <2>2, DispatchBound
  <2>. QED  BY <1>3, <2>3 DEF Retry, SameNote, NoteInv, DraftsBound
<1>4. CASE Refresh
  <2>1. text' \subseteq Typed(route.note)
    BY <1>4 DEF Refresh, SameNote, TypeOK, Ids
  <2>. QED  BY <1>4, <2>1 DEF Refresh, SameNote, NoteInv, DraftsBound, SaveBound
<1>5. ASSUME NEW n \in Notes, Open(n)
      PROVE  SameNote' /\ NoteInv'
  <2>1. LiveId(n) \in Ids /\ LiveId(n).note = n
    BY LiveIdType
  <2>2. SameNote' /\ \A j \in Slots : SaveBound(j)'
    BY <1>5, <2>1 DEF Open, SameNote, NoteInv, SaveBound
  <2>3. CASE rotated = LiveId(n)
    <3>1. route'.note = route.note
      BY <1>5, <2>1, <2>3, EditorAssumption DEF Open, NoteInv, DraftsBound
    <3>. QED  BY <1>5, <2>2, <2>3, <3>1 DEF Open, NoteInv, DraftsBound
  <2>4. CASE rotated # LiveId(n)
    BY <1>5, <2>2, <2>4 DEF Open, NewSession, NoteInv, DraftsBound
  <2>. QED  BY <2>3, <2>4, <2>2
<1>6. ASSUME NEW n \in Notes, Mount(n)
      PROVE  SameNote' /\ NoteInv'
  <2>1. LiveId(n) \in Ids /\ LiveId(n).note = n
    BY LiveIdType
  <2>2. SameNote' /\ DraftsBound'
    BY <1>6, <2>1 DEF Mount, NewSession, SameNote, DraftsBound
  <2>3. ASSUME NEW j \in Slots
        PROVE  SaveBound(j)'
    <3>1. saves[j] # None => saves[j] \in Save
      BY DEF TypeOK
    <3>2. saves'[j] = IF saves[j] = None THEN None ELSE [saves[j] EXCEPT !.own = FALSE]
      BY <1>6 DEF Mount
    <3>. QED  BY <3>1, <3>2 DEF NoteInv, SaveBound, Save
  <2>. QED  BY <2>2, <2>3 DEF NoteInv
<1>. QED  BY <1>1, <1>2, <1>3, <1>4, <1>5, <1>6

(* The server stores a content in the note its PUT names, and a callback    *)
(* moves the route only to another document of its note.                    *)
LEMMA NoteByAnswers ==
  ASSUME TypeOK, SameNote, NoteInv, NEW k \in Slots, Serve(k) \/ Lose(k) \/ Callback(k)
  PROVE  SameNote' /\ NoteInv'
<1>0. saves[k] \in Save /\ saves[k] # None /\ SaveBound(k)
  BY DEF TypeOK, NoteInv, Serve, Lose, Callback, Succeed, Rotate, Refetched, Fail
<1>1. CASE Serve(k)
  <2>. DEFINE s == saves[k]
              ver == IF s.text = db[s.id.note].text THEN s.id.ver ELSE s.id.ver + 1
              answer == [note |-> s.id.note, ver |-> ver]
  <2>1. s.id.note \in Notes /\ s.text \subseteq Typed(s.id.note) /\ answer.note = s.id.note
    BY <1>0 DEF Save, Ids, SaveBound
  <2>2. UNCHANGED <<route, text, pending, queued, last, rotated>>
    BY <1>1 DEF Serve, client
  <2>3. CASE s.id # LiveId(s.id.note)
    <3>1. saves' = [saves EXCEPT ![k].phase = "answered"] /\ UNCHANGED db
      BY <1>1, <2>3 DEF Serve
    <3>2. \A j \in Slots : SaveBound(j)'
      BY <1>0, <3>1 DEF TypeOK, NoteInv, SaveBound, Typed, Save
    <3>. QED  BY <2>2, <3>1, <3>2 DEF SameNote, NoteInv, DraftsBound, Typed
  <2>4. CASE s.id = LiveId(s.id.note)
    <3>1. /\ db' = [db EXCEPT ![s.id.note] = [ver |-> ver, text |-> s.text]]
          /\ saves' = [saves EXCEPT ![k].phase = "answered", ![k].result = answer]
      BY <1>1, <2>4 DEF Serve
    <3>. HIDE DEF ver, answer
    <3>2. \A n \in Notes : db'[n].text \subseteq Typed(n)
      BY <2>1, <3>1 DEF SameNote, TypeOK
    <3>3. \A j \in Slots : SaveBound(j)'
      BY <1>0, <2>1, <3>1 DEF TypeOK, NoteInv, SaveBound, Typed, Save
    <3>. QED  BY <2>2, <3>2, <3>3 DEF SameNote, NoteInv, DraftsBound, Typed
  <2>. QED  BY <2>3, <2>4
<1>2. CASE Lose(k)
  <2>1. \A j \in Slots : SaveBound(j)'
    BY <1>0, <1>2 DEF Lose, TypeOK, NoteInv, SaveBound, Typed, Save
  <2>. QED  BY <1>2, <2>1 DEF Lose, client, SameNote, NoteInv, DraftsBound, Typed
<1>3. CASE Succeed(k) \/ Fail(k)
  <2>1. PICK outcome : Settle(k, outcome, route)
    BY <1>3 DEF Succeed, Fail
  <2>2. UNCHANGED <<db, route, text, pending, rotated>>
    BY <1>3 DEF Succeed, Fail
  <2>. QED  BY <1>0, <2>1, <2>2, SettleBound DEF SameNote, NoteInv, DraftsBound, TypeOK, Typed
<1>4. CASE Rotate(k)
  <2>1. rotated' = saves[k].result /\ saves[k].result.note = route.note
    BY <1>0, <1>4 DEF Rotate, InSession, CurrentRequest, SaveBound
  <2>2. \A j \in Slots : SaveBound(j)'
    BY <1>0, <1>4 DEF Rotate, TypeOK, NoteInv, SaveBound, Typed, Save
  <2>. QED  BY <1>4, <2>1, <2>2 DEF Rotate, SameNote, NoteInv, DraftsBound, Typed
<1>5. CASE Refetched(k)
  <2>1. CASE InSession(k)
    <3>1. /\ saves[k].result \in Ids /\ saves[k].result.note = route.note
          /\ saves[k].text \subseteq Typed(route.note)
      BY <1>0, <1>5, <2>1 DEF Refetched, InSession, CurrentRequest, SaveBound, Save
    <3>2. Settle(k, "saved", saves[k].result)
      BY <1>5, <2>1 DEF Refetched
    <3>3. /\ route' = saves[k].result /\ rotated' = None /\ text' = saves[k].text
          /\ UNCHANGED <<db, pending>>
      BY <1>5, <2>1 DEF Refetched
    <3>4. /\ queued' # None => queued'.text \subseteq Typed(route.note)
          /\ last' # None => last'.text \subseteq Typed(last'.id.note)
          /\ \A j \in Slots : SaveBound(j)'
      BY <1>0, <3>1, <3>2, SettleBound
    <3>. QED  BY <3>1, <3>3, <3>4 DEF SameNote, NoteInv, DraftsBound, Typed
  <2>2. CASE ~InSession(k)
    <3>1. Settle(k, status, route)
      BY <1>5, <2>2 DEF Refetched
    <3>2. UNCHANGED <<db, route, text, pending, rotated>>
      BY <1>5, <2>2 DEF Refetched
    <3>. QED  BY <1>0, <3>1, <3>2, SettleBound DEF SameNote, NoteInv, DraftsBound, TypeOK, Typed
  <2>. QED  BY <2>1, <2>2
<1>. QED  BY <1>1, <1>2, <1>3, <1>4, <1>5 DEF Callback

-----------------------------------------------------------------------------
(* QueueIsServed *)

(* onSettled leaves a save under way when it leaves the editor waiting. *)
LEMMA SettleServes ==
  ASSUME TypeOK, QueueIsServed, NEW k \in Slots, saves[k] # None, NEW at \in Ids,
         NEW outcome, Settle(k, outcome, at)
  PROVE  QueueIsServed'
<1>1. CASE ~saves[k].own
  <2>1. saves' = [saves EXCEPT ![k] = None] /\ UNCHANGED <<queued, inFlight>>
    BY <1>1 DEF Settle
  <2>2. Saving' = Saving
    BY <1>1, <2>1 DEF Saving, TypeOK
  <2>. QED  BY <2>1, <2>2 DEF QueueIsServed
<1>2. CASE saves[k].own /\ queued # None /\ queued.gen = gen
  <2>. DEFINE request == [id |-> at, gen |-> gen, text |-> queued.text]
  <2>1. request \in Request
    BY <1>2 DEF TypeOK, Draft, Request
  <2>2. saves' = [saves EXCEPT ![k] = Sent(request)]
    BY <1>2 DEF Settle
  <2>. HIDE DEF request
  <2>3. saves'[k] # None /\ saves'[k].own
    BY <2>1, <2>2, SentType DEF TypeOK
  <2>. QED  BY <2>3 DEF QueueIsServed, Saving
<1>3. CASE saves[k].own /\ ~(queued # None /\ queued.gen = gen)
  <2>1. queued' = None /\ inFlight' = FALSE
    BY <1>3 DEF Settle
  <2>. QED  BY <2>1 DEF QueueIsServed
<1>. QED  BY <1>1, <1>2, <1>3

(* Every other step dispatches when it makes the editor wait, and takes no  *)
(* save away.                                                               *)
LEMMA QueueStep ==
  ASSUME TypeOK, NoteInv, QueueIsServed, [EditorNext]_editorVars
  PROVE  QueueIsServed'
<1>1. CASE UNCHANGED editorVars \/ Keystroke \/ Refresh
  BY <1>1 DEF editorVars, client, Keystroke, Refresh, QueueIsServed, Saving
<1>2. CASE FireDraft
  <2>1. CASE pending.gen # gen \/ inFlight
    BY <1>2, <2>1 DEF FireDraft, QueueIsServed, Saving
  <2>2. CASE pending.gen = gen /\ ~inFlight
    <3>. DEFINE request == [id |-> route, gen |-> gen, text |-> pending.text]
    <3>1. request \in Request
      BY <1>2 DEF FireDraft, TypeOK, Draft, Request
    <3>2. PICK k \in Slots : saves' = [saves EXCEPT ![k] = Sent(request)]
      BY <1>2, <2>2 DEF FireDraft
    <3>. HIDE DEF request
    <3>3. saves'[k] # None /\ saves'[k].own
      BY <3>1, <3>2, SentType DEF TypeOK
    <3>. QED  BY <3>3 DEF QueueIsServed, Saving
  <2>. QED  BY <2>1, <2>2
<1>3. CASE Retry
  <2>1. last \in Request
    BY <1>3 DEF Retry, TypeOK
  <2>2. PICK k \in Slots : saves' = [saves EXCEPT ![k] = Sent(last)]
    BY <1>3 DEF Retry
  <2>3. saves'[k] # None /\ saves'[k].own
    BY <2>1, <2>2, SentType DEF TypeOK
  <2>. QED  BY <2>3 DEF QueueIsServed, Saving
<1>4. ASSUME NEW n \in Notes, Open(n)
      PROVE  QueueIsServed'
  <2>1. UNCHANGED <<saves, inFlight>> /\ (queued' = queued \/ queued' = None)
    BY <1>4 DEF Open, NewSession
  <2>. QED  BY <2>1 DEF QueueIsServed, Saving
<1>5. ASSUME NEW n \in Notes, Mount(n)
      PROVE  QueueIsServed'
  BY <1>5 DEF Mount, NewSession, QueueIsServed
<1>6. ASSUME NEW k \in Slots, Serve(k) \/ Lose(k) \/ Rotate(k)
      PROVE  QueueIsServed'
  <2>1. saves[k] \in Save
    BY <1>6 DEF TypeOK, Serve, Lose, Rotate
  <2>2. UNCHANGED <<queued, inFlight>>
    BY <1>6 DEF Serve, Lose, Rotate, client
  <2>3. PICK s \in Save : s.own = saves[k].own /\ saves' = [saves EXCEPT ![k] = s]
    <3>0. TypeOK'
      BY <1>6, TypedByAnswers DEF NoteInv, Callback
    <3>1. saves'[k] # None
      BY <1>6, <2>1, EditorAssumption DEF Serve, Lose, Rotate, TypeOK, Save
    <3>2. saves'[k] \in Save
      BY <3>0, <3>1 DEF TypeOK
    <3>3. saves'[k].own = saves[k].own /\ saves' = [saves EXCEPT ![k] = saves'[k]]
      BY <1>6, <2>1 DEF Serve, Lose, Rotate, TypeOK, Save
    <3>. QED  BY <3>2, <3>3
  <2>4. Saving' = Saving
    BY <2>1, <2>3, EditorAssumption DEF Saving, TypeOK
  <2>. QED  BY <2>2, <2>4 DEF QueueIsServed
<1>7. ASSUME NEW k \in Slots, Succeed(k) \/ Fail(k) \/ Refetched(k)
      PROVE  QueueIsServed'
  <2>1. saves[k] # None /\ saves[k] \in Save /\ SaveBound(k)
    BY <1>7 DEF TypeOK, NoteInv, Succeed, Fail, Refetched
  <2>2. PICK outcome : Settle(k, outcome, route) \/ (Refetched(k) /\ Settle(k, outcome, saves[k].result))
    BY <1>7 DEF Succeed, Fail, Refetched
  <2>3. Refetched(k) => saves[k].result \in Ids
    BY <2>1 DEF Refetched, SaveBound, Save
  <2>. QED  BY <2>1, <2>2, <2>3, SettleServes DEF TypeOK
<1>. QED  BY <1>1, <1>2, <1>3, <1>4, <1>5, <1>6, <1>7 DEF EditorNext, Callback

-----------------------------------------------------------------------------
Inv == TypeOK /\ SameNote /\ NoteInv /\ QueueIsServed

(* An untouched editor. *)
LEMMA InvInit == EditorInit => Inv
<1>. SUFFICES ASSUME EditorInit PROVE Inv
  OBVIOUS
<1>1. PICK n \in Notes : route = LiveId(n)
  BY DEF EditorInit
<1>2. TypeOK
  <2>1. db \in [Notes -> [ver : Nat, text : Texts]]
    BY DEF EditorInit, Texts
  <2>2. route \in Ids
    BY <1>1 DEF LiveId, EditorInit, Ids
  <2>3. saves \in [Slots -> Save \cup {None}]
    BY DEF EditorInit
  <2>4. edits \in 0 .. MaxEdits /\ faults \in 0 .. MaxFaults /\ gen \in Nat
    BY EditorAssumption DEF EditorInit
  <2>5. text \in Texts /\ refetch \in BOOLEAN /\ inFlight \in BOOLEAN
    BY Zenon DEF EditorInit, Texts
  <2>6. /\ pending = None /\ queued = None /\ last = None /\ rotated = None
        /\ status = "idle"
    BY DEF EditorInit
  <2>. QED  BY <2>1, <2>2, <2>3, <2>4, <2>5, <2>6 DEF TypeOK
<1>3. SameNote /\ NoteInv /\ QueueIsServed
  BY DEF EditorInit, SameNote, NoteInv, DraftsBound, SaveBound, QueueIsServed
<1>. QED  BY <1>2, <1>3 DEF Inv

(* No step of the user, the server or a callback disturbs the invariant. *)
LEMMA InvStep == Inv /\ [EditorNext]_editorVars => Inv'
<1>. SUFFICES ASSUME Inv, [EditorNext]_editorVars PROVE Inv'
  OBVIOUS
<1>1. QueueIsServed'
  BY QueueStep DEF Inv
<1>2. TypeOK' /\ SameNote' /\ NoteInv'
  <2>1. CASE UNCHANGED editorVars
    BY <2>1 DEF Inv, editorVars, client, TypeOK, SameNote, NoteInv, DraftsBound, SaveBound, Typed
  <2>2. CASE \/ Keystroke \/ FireDraft \/ Retry \/ Refresh
             \/ \E n \in Notes : Open(n) \/ Mount(n)
    BY <2>2, TypedByUser, NoteByUser DEF Inv
  <2>3. ASSUME NEW k \in Slots, Serve(k) \/ Lose(k) \/ Callback(k)
        PROVE  TypeOK' /\ SameNote' /\ NoteInv'
    BY <2>3, TypedByAnswers, NoteByAnswers DEF Inv, NoteInv
  <2>. QED  BY <2>1, <2>2, <2>3 DEF EditorNext
<1>. QED  BY <1>1, <1>2 DEF Inv

(* Every reachable state of the editor is well-typed. *)
THEOREM EditorTypeCorrect == EditorSpec => []TypeOK
<1>1. Inv => TypeOK
  BY DEF Inv
<1>. QED  BY <1>1, InvInit, InvStep, PTL DEF EditorSpec

(* useAutosave: a PUT never carries one note's input into another, whatever *)
(* is opened, retried, queued or lost.                                      *)
THEOREM SameNoteAlways == EditorSpec => []SameNote
<1>1. Inv => SameNote
  BY DEF Inv
<1>. QED  BY <1>1, InvInit, InvStep, PTL DEF EditorSpec

(* onSettled and the flag: the editor never waits for a save that is not    *)
(* under way.                                                               *)
THEOREM QueueIsServedAlways == EditorSpec => []QueueIsServed
<1>1. Inv => QueueIsServed
  BY DEF Inv
<1>. QED  BY <1>1, InvInit, InvStep, PTL DEF EditorSpec

-----------------------------------------------------------------------------
(* RestIsTruthful *)

(* The types that the steps below start from.                               *)
LEMMA RestTypes ==
  ASSUME TypeOK
  PROVE  /\ route \in Ids /\ route.note \in Notes /\ route.ver \in Nat
         /\ gen \in Nat /\ edits \in Nat /\ text \in Texts
         /\ \A n \in Notes : db[n].ver \in Nat /\ db[n].text \in Texts
         /\ \A k \in Slots : saves[k] # None => saves[k] \in Save
         /\ last # None => last \in Request
         /\ pending # None => pending \in Draft
         /\ queued # None => queued \in Draft
<1>2. \A n \in Notes : db[n] \in [ver : Nat, text : Texts]
  BY DEF TypeOK
<1>3. edits \in Nat
  BY EditorAssumption DEF TypeOK
<1>. QED  BY <1>2, <1>3 DEF TypeOK, Ids

(* What was sent, and of what document.                                     *)
LEMMA SendTypes ==
  ASSUME NEW s \in Request \cup Save
  PROVE  /\ s.id \in Ids /\ s.id.note \in Notes /\ s.id.ver \in Nat
         /\ s.gen \in Nat /\ s.text \in Texts
  BY DEF Request, Save, Ids

(* An answer is an id.                                                      *)
LEMMA ResultTypes ==
  ASSUME NEW s \in Save, s.result # None
  PROVE  s.result \in Ids /\ s.result.note \in Notes /\ s.result.ver \in Nat
<1>1. s.result \in Ids
  BY DEF Save
<1>. QED  BY <1>1 DEF Ids

(* The two parts of an id tell it.                                          *)
LEMMA IdParts ==
  ASSUME NEW a \in Ids, NEW b \in Ids, a.note = b.note, a.ver = b.ver
  PROVE  a = b
  BY DEF Ids

(* Typing makes a content that nothing held.                                *)
LEMMA TypeRests == ASSUME Inv, RestInv, Keystroke, TypeOK' PROVE RestInv'
<1>1. PICK e \in Nat : e = edits /\ edits' = e + 1
  BY RestTypes DEF Inv, Keystroke
<1>2. PICK content : content = text \cup {<<route.note, e + 1>>}
  OBVIOUS
<1>3. /\ text' = content /\ pending' = [gen |-> gen, text |-> content] /\ status' = "saving"
      /\ UNCHANGED <<db, route, gen, refetch, queued, inFlight, last, rotated, saves, faults>>
  BY <1>1, <1>2 DEF Keystroke
<1>4. ContentsKnown /\ DraftsFresh /\ VersionsInv
  BY DEF RestInv
<1>5. \A t \in Texts : Known(t) => Known(t)' /\ t # content
  <2>. SUFFICES ASSUME NEW t \in Texts, Known(t) PROVE Known(t)' /\ t # content
    OBVIOUS
  <2>1. t \subseteq Notes \X (1 .. e)
    BY <1>1 DEF Known
  <2>2. t \subseteq Notes \X (1 .. e + 1)
    BY <2>1
  <2>3. <<route.note, e + 1>> \notin t
    BY <2>1
  <2>4. Known(t)'
    BY <1>1, <2>2 DEF Known
  <2>. QED  BY <1>2, <2>3, <2>4
<1>6. /\ \A n \in Notes : db[n].text \in Texts
      /\ \A k \in Slots : saves[k] # None => saves[k].text \in Texts
      /\ last # None => last.text \in Texts
      /\ queued # None => queued.text \in Texts
  BY RestTypes, SendTypes DEF Inv, Draft
<1>7. /\ \A n \in Notes : Known(db[n].text)' /\ db[n].text # content
      /\ \A k \in Slots : saves[k] # None => Known(saves[k].text)' /\ saves[k].text # content
      /\ last # None => Known(last.text)' /\ last.text # content
      /\ queued # None => Known(queued.text)' /\ queued.text # content
  <2>1. \A n \in Notes : Known(db[n].text)' /\ db[n].text # content
    BY <1>3, <1>4, <1>5, <1>6 DEF ContentsKnown, Known
  <2>2. \A k \in Slots : saves[k] # None => Known(saves[k].text)' /\ saves[k].text # content
    BY <1>3, <1>4, <1>5, <1>6 DEF ContentsKnown, Known
  <2>3. last # None => Known(last.text)' /\ last.text # content
    BY <1>3, <1>4, <1>5, <1>6 DEF ContentsKnown, Known
  <2>4. queued # None => Known(queued.text)' /\ queued.text # content
    BY <1>3, <1>4, <1>5, <1>6 DEF ContentsKnown, Known
  <2>. QED  BY <2>1, <2>2, <2>3, <2>4
<1>8. content \subseteq Notes \X (1 .. e + 1)
  <2>1. text \subseteq Notes \X (1 .. e) /\ route.note \in Notes
    BY <1>1, <1>4, RestTypes DEF ContentsKnown, Known, Inv
  <2>. QED  BY <1>1, <1>2, <2>1
<1>9. ContentsKnown'
  BY <1>1, <1>3, <1>7, <1>8 DEF ContentsKnown, Known
<1>10. Unsent(content)'
  BY <1>3, <1>7 DEF Unsent
<1>11. DraftsFresh'
  <2>1. queued # None => queued.gen = gen /\ Unsent(queued.text)'
    BY <1>3, <1>4 DEF DraftsFresh, Unsent
  <2>. QED  BY <1>3, <1>7, <1>10, <2>1 DEF DraftsFresh
<1>12. VersionsInv'
  BY <1>3, <1>4 DEF VersionsInv, Sendable, Rotates, CurrentRequest, Differs, LiveId
<1>13. Decided'
  <2>1. pending' # None
    <3>1. [gen |-> gen, text |-> content] \in Draft
      BY <1>3, RestTypes DEF TypeOK, Draft, Inv
    <3>. QED  BY <1>3, <3>1, EditorAssumption
  <2>. QED  BY <2>1 DEF Decided
<1>. QED  BY <1>9, <1>11, <1>12, <1>13 DEF RestInv

(* A draft that goes out is none that the document has.                     *)
LEMMA UnsentDiffers ==
  ASSUME TypeOK, NEW t, Unsent(t)
  PROVE  Differs(t)
  BY RestTypes DEF Unsent, Differs

(* A PUT of the session that is dispatched.                                 *)
LEMMA SentRests ==
  ASSUME TypeOK, NEW r \in Request, r.id = route, r.gen = gen, Differs(r.text),
         route.ver <= db[route.note].ver
  PROVE  Sendable(Sent(r)) /\ Rotates(Sent(r))
<1>1. /\ Sent(r).result = None /\ Sent(r).phase = "sent"
      /\ Sent(r).id = r.id /\ Sent(r).gen = r.gen /\ Sent(r).text = r.text
  BY SentType
<1>2. Sendable(Sent(r))
  BY <1>1, RestTypes DEF Sendable
<1>3. Rotates(Sent(r))
  BY <1>1 DEF Rotates, CurrentRequest
<1>. QED  BY <1>2, <1>3

(* The timer: the draft is queued or goes out.                              *)
LEMMA FireRests == ASSUME Inv, RestInv, FireDraft, TypeOK' PROVE RestInv'
<1>1. ContentsKnown /\ DraftsFresh /\ VersionsInv /\ Decided /\ TypeOK
  BY DEF RestInv, Inv
<1>2. pending # None /\ pending.gen = gen /\ Unsent(pending.text) /\ Known(pending.text)
      /\ (queued # None => pending.text # queued.text /\ Unsent(queued.text) /\ queued.gen = gen)
  BY <1>1 DEF FireDraft, DraftsFresh, ContentsKnown
<1>3. pending' = None
      /\ UNCHANGED <<db, route, gen, text, refetch, rotated, status, edits, faults>>
  BY DEF FireDraft
<1>4. CASE inFlight
  <2>1. queued' = pending /\ UNCHANGED <<inFlight, last, saves>>
    BY <1>2, <1>4 DEF FireDraft
  <2>2. ContentsKnown'
    BY <1>1, <1>2, <1>3, <2>1 DEF ContentsKnown, Known
  <2>3. DraftsFresh'
    BY <1>1, <1>2, <1>3, <2>1 DEF DraftsFresh, Unsent
  <2>4. VersionsInv'
    BY <1>1, <1>3, <2>1 DEF VersionsInv, Sendable, Rotates, CurrentRequest, Differs, LiveId
  <2>. QED  BY <1>2, <2>1, <2>2, <2>3, <2>4 DEF RestInv, Decided
<1>5. CASE ~inFlight
  <2>1. PICK r : r = [id |-> route, gen |-> gen, text |-> pending.text]
    OBVIOUS
  <2>2. r \in Request /\ r.id = route /\ r.gen = gen /\ r.text = pending.text
    BY <1>1, <1>2, <2>1, RestTypes DEF Draft, Request
  <2>3. PICK k \in Slots : saves[k] = None /\ saves' = [saves EXCEPT ![k] = Sent(r)]
    BY <1>2, <1>5, <2>1 DEF FireDraft
  <2>4. last' = r /\ queued' = queued
    BY <1>2, <1>5, <2>1 DEF FireDraft
  <2>5. saves'[k] = Sent(r) /\ \A j \in Slots : j # k => saves'[j] = saves[j]
    BY <1>1, <2>3 DEF TypeOK
  <2>6. Sent(r).text = pending.text /\ Sent(r) # None /\ Sent(r).own
        /\ Sent(r).id = route /\ Sent(r).gen = gen
    BY <2>2, SentType
  <2>7. ContentsKnown'
    BY <1>1, <1>2, <1>3, <2>2, <2>4, <2>5, <2>6 DEF ContentsKnown, Known
  <2>8. DraftsFresh'
    BY <1>1, <1>2, <1>3, <2>2, <2>4, <2>5, <2>6 DEF DraftsFresh, Unsent
  <2>9. Differs(r.text)
    BY <1>1, <1>2, <2>2, UnsentDiffers
  <2>10. Sendable(Sent(r)) /\ Rotates(Sent(r)) /\ Sendable(r)
    <3>1. route.ver <= db[route.note].ver
      BY <1>1 DEF VersionsInv
    <3>2. Sendable(Sent(r)) /\ Rotates(Sent(r))
      BY <1>1, <2>2, <2>9, <3>1, SentRests
    <3>. QED  BY <2>2, <2>6, <3>2 DEF Sendable
  <2>11. VersionsInv'
    <3>1. \A j \in Slots : saves'[j] # None => Sendable(saves'[j]) /\ Rotates(saves'[j])
      BY <1>1, <2>5, <2>10 DEF VersionsInv
    <3>. QED  BY <1>1, <1>3, <2>4, <2>9, <2>10, <3>1
           DEF VersionsInv, Sendable, Rotates, CurrentRequest, Differs, LiveId
  <2>12. Decided'
    <3>1. saves'[k] # None /\ InSession(k)'
      BY <1>3, <2>5, <2>6 DEF InSession, CurrentRequest
    <3>. QED  BY <3>1 DEF Decided
  <2>. QED  BY <2>7, <2>8, <2>11, <2>12 DEF RestInv
<1>. QED  BY <1>4, <1>5

(* What failed goes out again.                                              *)
LEMMA RetryRests == ASSUME Inv, RestInv, Retry, TypeOK' PROVE RestInv'
<1>1. ContentsKnown /\ DraftsFresh /\ VersionsInv /\ TypeOK
  BY DEF RestInv, Inv
<1>2. /\ last # None /\ last \in Request /\ last.id = route /\ last.gen = gen
      /\ Known(last.text) /\ Differs(last.text) /\ Sendable(last)
  BY <1>1, RestTypes DEF Retry, CurrentRequest, ContentsKnown, VersionsInv
<1>3. UNCHANGED <<db, route, gen, text, refetch, pending, queued, last, rotated, edits, faults>>
  BY DEF Retry
<1>4. PICK k \in Slots : saves[k] = None /\ saves' = [saves EXCEPT ![k] = Sent(last)]
  BY DEF Retry
<1>5. saves'[k] = Sent(last) /\ \A j \in Slots : j # k => saves'[j] = saves[j]
  BY <1>1, <1>4 DEF TypeOK
<1>6. Sent(last).text = last.text /\ Sent(last) # None /\ Sent(last).own
      /\ Sent(last).id = route /\ Sent(last).gen = gen
  BY <1>2, SentType
<1>7. ContentsKnown'
  BY <1>1, <1>2, <1>3, <1>5, <1>6 DEF ContentsKnown, Known
<1>8. DraftsFresh'
  BY <1>1, <1>2, <1>3, <1>5, <1>6 DEF DraftsFresh, Unsent
<1>9. Sendable(Sent(last)) /\ Rotates(Sent(last))
  <2>1. route.ver <= db[route.note].ver
    BY <1>1 DEF VersionsInv
  <2>. QED  BY <1>1, <1>2, <2>1, SentRests
<1>10. VersionsInv'
  <2>1. \A j \in Slots : saves'[j] # None => Sendable(saves'[j]) /\ Rotates(saves'[j])
    BY <1>1, <1>5, <1>9 DEF VersionsInv
  <2>. QED  BY <1>1, <1>3, <2>1 DEF VersionsInv, Sendable, Rotates, CurrentRequest, Differs, LiveId
<1>11. saves'[k] # None /\ InSession(k)'
  BY <1>3, <1>5, <1>6 DEF InSession, CurrentRequest
<1>. QED  BY <1>7, <1>8, <1>10, <1>11 DEF RestInv, Decided

(* The editor shows what is stored.                                         *)
LEMMA RefreshRests == ASSUME Inv, RestInv, Refresh PROVE RestInv'
<1>1. ContentsKnown /\ DraftsFresh /\ VersionsInv /\ Decided /\ TypeOK
  BY DEF RestInv, Inv
<1>2. UNCHANGED <<db, route, gen, pending, queued, inFlight, last, rotated, status,
                  saves, edits, faults>>
  BY DEF Refresh
<1>3. text' = text \/ text' = db[route.note].text
  BY DEF Refresh
<1>4. Known(text')
  BY <1>1, <1>3, RestTypes DEF ContentsKnown
<1>5. ContentsKnown'
  BY <1>1, <1>2, <1>4 DEF ContentsKnown, Known
<1>6. DraftsFresh' /\ VersionsInv'
  BY <1>1, <1>2 DEF DraftsFresh, Unsent, VersionsInv, Sendable, Rotates, CurrentRequest, Differs, LiveId
<1>7. Stored => text' = text
  BY <1>3 DEF Stored
<1>8. Decided'
  BY <1>1, <1>2, <1>7 DEF Decided, Stored, InSession, CurrentRequest
<1>. QED  BY <1>5, <1>6, <1>8 DEF RestInv
-----------------------------------------------------------------------------
(* RestIsTruthful: opening notes, and the server *)

(* The route that moves on, to the document that is stored now, leaves      *)
(* everything behind that was sent.                                         *)
LEMMA RouteMovesOn ==
  ASSUME TypeOK, VersionsInv, NEW n \in Notes, route' = LiveId(n), UNCHANGED db,
         \/ gen' = gen + 1
         \/ gen' = gen /\ n = route.note /\ route' # route,
         NEW r \in Request \cup Save, Sendable(r)
  PROVE  /\ Sendable(r)' /\ ~CurrentRequest(r)'
         /\ n = route.note /\ route' # route => r.id # route'
<1>1. /\ r.id \in Ids /\ r.id.note \in Notes /\ r.id.ver \in Nat /\ r.gen \in Nat
      /\ r.gen <= gen /\ r.id.ver <= db[r.id.note].ver
      /\ r.id.note = route.note => r.id.ver <= route.ver
  BY SendTypes DEF Sendable
<1>2. /\ gen \in Nat /\ route \in Ids /\ route.note \in Notes /\ route.ver \in Nat
      /\ db[n].ver \in Nat /\ route.ver <= db[route.note].ver
  BY RestTypes DEF VersionsInv
<1>3. route' \in Ids /\ route'.note = n /\ route'.ver = db[n].ver
  BY LiveIdType DEF LiveId
<1>4. gen' \in Nat /\ gen <= gen'
  BY <1>2
<1>5. Sendable(r)'
  BY <1>1, <1>2, <1>3, <1>4 DEF Sendable
<1>6. ASSUME n = route.note, route' # route
      PROVE  r.id # route'
  <2>1. route.ver < db[n].ver
    BY <1>2, <1>3, <1>6, IdParts
  <2>. QED  BY <1>1, <1>2, <1>3, <1>6, <2>1
<1>7. ~CurrentRequest(r)'
  BY <1>1, <1>2, <1>4, <1>6 DEF CurrentRequest
<1>. QED  BY <1>5, <1>6, <1>7

(* A save that is left behind goes on as it was.                            *)
LEMMA LeftRotates ==
  ASSUME NEW s, Rotates(s), ~CurrentRequest(s)', UNCHANGED db
  PROVE  Rotates(s)'
  BY DEF Rotates

(* Another note, or the target of a rotation that is under way.             *)
LEMMA OpenRests ==
  ASSUME Inv, RestInv, NEW n \in Notes, Open(n), NoteInv
  PROVE  RestInv'
<1>1. ContentsKnown /\ DraftsFresh /\ VersionsInv /\ Decided /\ TypeOK
  BY DEF RestInv, Inv
<1>2. /\ LiveId(n) # route /\ route' = LiveId(n) /\ text' = db[n].text
      /\ UNCHANGED <<db, inFlight, last, saves, edits, faults>>
  BY DEF Open
<1>3. \/ /\ rotated = LiveId(n) /\ UNCHANGED <<gen, pending, queued, status>>
      \/ gen' = gen + 1 /\ pending' = None /\ queued' = None /\ status' = "idle"
  BY DEF Open, NewSession
<1>4. LiveId(n) \in Ids /\ LiveId(n).note = n /\ LiveId(n).ver = db[n].ver
  BY <1>1, LiveIdType DEF LiveId
<1>5. rotated = LiveId(n) => n = route.note
  BY <1>4, EditorAssumption DEF NoteInv, DraftsBound
<1>6. \/ gen' = gen + 1
      \/ gen' = gen /\ n = route.note /\ route' # route
  BY <1>2, <1>3, <1>5
<1>7. ContentsKnown'
  BY <1>1, <1>2, <1>3 DEF ContentsKnown, Known
<1>8. DraftsFresh'
  BY <1>1, <1>2, <1>3 DEF DraftsFresh, Unsent
<1>9. \A k \in Slots : saves[k] # None =>
         Sendable(saves[k])' /\ ~CurrentRequest(saves[k])' /\ (n = route.note => saves[k].id # route')
  <2>. SUFFICES ASSUME NEW k \in Slots, saves[k] # None
                PROVE  Sendable(saves[k])' /\ ~CurrentRequest(saves[k])'
                       /\ (n = route.note => saves[k].id # route')
    OBVIOUS
  <2>1. PICK s \in Save : s = saves[k]
    BY <1>1, RestTypes
  <2>2. Sendable(s)
    BY <1>1, <2>1 DEF VersionsInv
  <2>3. Sendable(s)' /\ ~CurrentRequest(s)' /\ (n = route.note => s.id # route')
    BY <1>1, <1>2, <1>6, <2>2, RouteMovesOn
  <2>4. saves'[k] = s
    BY <1>2, <2>1
  <2>. QED  BY <2>1, <2>3, <2>4 DEF Sendable, CurrentRequest
<1>10. \A k \in Slots : saves[k] # None => Rotates(saves[k])'
  BY <1>1, <1>2, <1>9 DEF VersionsInv, Rotates, CurrentRequest
<1>11. last # None => Sendable(last)' /\ ~CurrentRequest(last)'
  <2>. SUFFICES ASSUME last # None PROVE Sendable(last)' /\ ~CurrentRequest(last)'
    OBVIOUS
  <2>1. PICK r \in Request : r = last
    BY <1>1, RestTypes
  <2>2. Sendable(r)
    BY <1>1, <2>1 DEF VersionsInv
  <2>3. Sendable(r)' /\ ~CurrentRequest(r)'
    BY <1>1, <1>2, <1>6, <2>2, RouteMovesOn
  <2>. QED  BY <1>2, <2>1, <2>3 DEF Sendable, CurrentRequest
<1>12. route'.ver <= db'[route'.note].ver
  BY <1>1, <1>2, <1>4, RestTypes
<1>13. VersionsInv'
  BY <1>2, <1>9, <1>10, <1>11, <1>12 DEF VersionsInv
<1>14. db[n] = [ver |-> db[n].ver, text |-> db[n].text]
  <2>1. db[n] \in [ver : Nat, text : Texts]
    BY <1>1 DEF TypeOK
  <2>. QED  BY <2>1
<1>15. Decided'
  <2>1. CASE rotated = LiveId(n) /\ UNCHANGED <<gen, pending, queued, status>>
    <3>1. Stored'
      BY <1>2, <1>4, <1>5, <1>9, <1>14, <2>1 DEF Stored
    <3>. QED  BY <3>1 DEF Decided
  <2>2. CASE status' = "idle"
    BY <2>2 DEF Decided
  <2>. QED  BY <1>3, <2>1, <2>2
<1>. QED  BY <1>7, <1>8, <1>13, <1>15 DEF RestInv

(* Another editor: the saves of the last one are nobody's.                  *)
LEMMA MountRests ==
  ASSUME Inv, RestInv, NEW n \in Notes, Mount(n)
  PROVE  RestInv'
<1>1. ContentsKnown /\ DraftsFresh /\ VersionsInv /\ TypeOK
  BY DEF RestInv, Inv
<1>2. /\ route' = LiveId(n) /\ text' = db[n].text /\ gen' = gen + 1
      /\ pending' = None /\ queued' = None /\ status' = "idle" /\ last' = None
      /\ UNCHANGED <<db, edits, faults>>
  BY DEF Mount, NewSession
<1>3. LiveId(n) \in Ids /\ LiveId(n).note = n /\ LiveId(n).ver = db[n].ver
  BY <1>1, LiveIdType DEF LiveId
<1>4. \A k \in Slots : saves'[k] = IF saves[k] = None THEN None
                                   ELSE [saves[k] EXCEPT !.own = FALSE]
  BY DEF Mount
<1>5. \A k \in Slots : saves'[k] # None =>
         /\ saves[k] # None /\ saves[k] \in Save
         /\ saves'[k].id = saves[k].id /\ saves'[k].gen = saves[k].gen
         /\ saves'[k].text = saves[k].text /\ saves'[k].phase = saves[k].phase
         /\ saves'[k].result = saves[k].result
  <2>. SUFFICES ASSUME NEW k \in Slots, saves'[k] # None
                PROVE  /\ saves[k] # None /\ saves[k] \in Save
                       /\ saves'[k].id = saves[k].id /\ saves'[k].gen = saves[k].gen
                       /\ saves'[k].text = saves[k].text /\ saves'[k].phase = saves[k].phase
                       /\ saves'[k].result = saves[k].result
    OBVIOUS
  <2>1. saves[k] # None /\ saves[k] \in Save
    BY <1>1, <1>4, RestTypes
  <2>2. saves'[k] = [saves[k] EXCEPT !.own = FALSE]
    BY <1>4, <2>1
  <2>. QED  BY <2>1, <2>2 DEF Save
<1>6. ContentsKnown'
  BY <1>1, <1>2, <1>5 DEF ContentsKnown, Known
<1>7. DraftsFresh'
  BY <1>2 DEF DraftsFresh
<1>8. \A k \in Slots : saves'[k] # None => (Sendable(saves[k]) /\ Rotates(saves[k]))'
  <2>. SUFFICES ASSUME NEW k \in Slots, saves'[k] # None
                PROVE  Sendable(saves[k])' /\ Rotates(saves[k])'
    OBVIOUS
  <2>1. PICK s \in Save : s = saves[k]
    BY <1>5
  <2>2. Sendable(s) /\ Rotates(s)
    BY <1>1, <1>5, <2>1 DEF VersionsInv
  <2>3. Sendable(s)' /\ ~CurrentRequest(s)'
    BY <1>1, <1>2, <2>2, RouteMovesOn
  <2>4. Rotates(s)'
    BY <1>2, <2>2, <2>3, LeftRotates
  <2>5. /\ saves'[k].id = s.id /\ saves'[k].gen = s.gen /\ saves'[k].text = s.text
        /\ saves'[k].phase = s.phase /\ saves'[k].result = s.result
    BY <1>5, <2>1
  <2>6. Sendable(saves[k])'
    BY <2>3, <2>5 DEF Sendable
  <2>7. Rotates(saves[k])'
    BY <2>4, <2>5 DEF Rotates, CurrentRequest
  <2>. QED  BY <2>6, <2>7
<1>9. route'.ver <= db'[route'.note].ver
  BY <1>1, <1>2, <1>3, RestTypes
<1>10. VersionsInv'
  BY <1>2, <1>8, <1>9 DEF VersionsInv
<1>11. Decided'
  BY <1>2 DEF Decided
<1>. QED  BY <1>6, <1>7, <1>10, <1>11 DEF RestInv

(* What the server does to a document: nothing, or a new id and content.    *)
LEMMA ServeStores ==
  ASSUME TypeOK, NEW k \in Slots, Serve(k), saves[k].id = LiveId(saves[k].id.note)
  PROVE  LET s == saves[k]  n == s.id.note IN
         /\ saves[k].id.ver = db[n].ver
         /\ \/ db' = db /\ s.text = db[n].text
               /\ saves'[k].result = s.id
            \/ /\ db'[n].ver = db[n].ver + 1 /\ db'[n].text = s.text
               /\ \A o \in Notes \ {n} : db'[o] = db[o]
               /\ saves'[k].result = [note |-> n, ver |-> db[n].ver + 1]
               /\ s.text # db[n].text
         /\ saves'[k].phase = "answered" /\ saves'[k] # None
         /\ saves'[k].id = s.id /\ saves'[k].gen = s.gen
         /\ saves'[k].text = s.text /\ saves'[k].own = s.own
         /\ \A j \in Slots : j # k => saves'[j] = saves[j]
<1>1. PICK s \in Save : s = saves[k]
  BY RestTypes DEF Serve
<1>2. PICK n \in Notes : n = s.id.note
  BY SendTypes
<1>3. s.id = LiveId(n) /\ s.id \in Ids /\ s.id.ver = db[n].ver /\ s.id.ver \in Nat
  BY <1>1, <1>2, SendTypes DEF LiveId
<1>4. PICK ver : ver = IF s.text = db[n].text THEN s.id.ver ELSE s.id.ver + 1
  OBVIOUS
<1>5. /\ db' = [db EXCEPT ![n] = [ver |-> ver, text |-> s.text]]
      /\ saves' = [saves EXCEPT ![k].phase = "answered",
                                ![k].result = [note |-> n, ver |-> ver]]
  BY <1>1, <1>2, <1>3, <1>4 DEF Serve
<1>6. db \in [Notes -> [ver : Nat, text : Texts]] /\ saves \in [Slots -> Save \cup {None}]
  BY DEF TypeOK
<1>7. saves'[k] = [s EXCEPT !.phase = "answered", !.result = [note |-> n, ver |-> ver]]
      /\ \A j \in Slots : j # k => saves'[j] = saves[j]
  BY <1>1, <1>5, <1>6
<1>8. /\ saves'[k].phase = "answered" /\ saves'[k].result = [note |-> n, ver |-> ver]
      /\ saves'[k].id = s.id /\ saves'[k].gen = s.gen
      /\ saves'[k].text = s.text /\ saves'[k].own = s.own
  BY <1>7 DEF Save
<1>9. saves'[k] # None
  <2>1. ver \in Nat /\ [note |-> n, ver |-> ver] \in Ids
    BY <1>3, <1>4 DEF Ids
  <2>2. saves'[k] \in Save
    BY <1>7, <2>1 DEF Save
  <2>. QED  BY <2>2, EditorAssumption
<1>10. /\ db'[n].ver = ver /\ db'[n].text = s.text
       /\ \A o \in Notes \ {n} : db'[o] = db[o]
  BY <1>5, <1>6
<1>11. CASE s.text = db[n].text
  <2>1. ver = db[n].ver /\ [note |-> n, ver |-> ver] = s.id
    BY <1>3, <1>4, <1>11 DEF LiveId
  <2>2. db[n] = [ver |-> db[n].ver, text |-> db[n].text]
    <3>1. db[n] \in [ver : Nat, text : Texts]
      BY <1>6
    <3>. QED  BY <3>1
  <2>3. db' = db
    BY <1>5, <1>6, <1>11, <2>1, <2>2
  <2>. QED  BY <1>1, <1>2, <1>3, <1>7, <1>8, <1>9, <1>11, <2>1, <2>3
<1>12. CASE s.text # db[n].text
  <2>1. ver = db[n].ver + 1
    BY <1>3, <1>4, <1>12
  <2>. QED  BY <1>1, <1>2, <1>3, <1>7, <1>8, <1>9, <1>10, <1>12, <2>1
<1>. QED  BY <1>11, <1>12


(* A request to another document, or behind the one that is stored, is      *)
(* none the less so when a document moves on.                               *)
LEMMA StoredMovesOn ==
  ASSUME TypeOK, VersionsInv, NEW n \in Notes, UNCHANGED <<route, gen>>,
         db'[n].ver = db[n].ver + 1, \A o \in Notes \ {n} : db'[o] = db[o],
         NEW r \in Request \cup Save, Sendable(r)
  PROVE  Sendable(r)' /\ (CurrentRequest(r) /\ Differs(r.text) => Differs(r.text)')
<1>1. /\ r.id \in Ids /\ r.id.note \in Notes /\ r.id.ver \in Nat /\ r.gen \in Nat
      /\ r.gen <= gen /\ r.id.ver <= db[r.id.note].ver
      /\ r.id.note = route.note => r.id.ver <= route.ver
  BY SendTypes DEF Sendable
<1>2. /\ gen \in Nat /\ route \in Ids /\ route.note \in Notes /\ route.ver \in Nat
      /\ \A o \in Notes : db[o].ver \in Nat
      /\ route.ver <= db[route.note].ver
  BY RestTypes DEF VersionsInv
<1>3. \A o \in Notes : db[o].ver <= db'[o].ver
  BY <1>2
<1>4. Sendable(r)'
  <2>1. db[r.id.note].ver <= db'[r.id.note].ver /\ db'[r.id.note].ver \in Nat
    BY <1>1, <1>2, <1>3
  <2>. QED  BY <1>1, <1>2, <2>1 DEF Sendable
<1>5. ASSUME Differs(r.text)
      PROVE  Differs(r.text)'
  <2>1. CASE route.note = n
    <3>1. route.ver < db'[n].ver
      BY <1>2, <2>1
    <3>2. route # [note |-> n, ver |-> db'[n].ver]
      BY <1>2, <3>1
    <3>. QED  BY <2>1, <3>2 DEF Differs, LiveId
  <2>2. CASE route.note # n
    <3>1. db'[route.note] = db[route.note]
      BY <1>2, <2>2
    <3>. QED  BY <1>5, <3>1 DEF Differs, LiveId
  <2>. QED  BY <2>1, <2>2
<1>. QED  BY <1>4, <1>5

(* The save of the session that the server answered before stays the last   *)
(* one of its document: nobody else is at its new id.                       *)
LEMMA OthersRotate ==
  ASSUME TypeOK, VersionsInv, NEW s \in Save, s.id.ver = db[s.id.note].ver, Sendable(s),
         UNCHANGED <<route, gen>>, s.id.note \in Notes,
         db'[s.id.note].ver = db[s.id.note].ver + 1,
         \A o \in Notes \ {s.id.note} : db'[o] = db[o],
         NEW t \in Save, Sendable(t), Rotates(t), t.result # None => t.result.note = t.id.note
  PROVE  Rotates(t)'
<1>1. PICK n \in Notes : n = s.id.note
  OBVIOUS
<1>2. /\ t.id \in Ids /\ t.id.note \in Notes /\ t.id.ver \in Nat
      /\ t.result # None => t.result \in Ids /\ t.result.ver \in Nat
  BY SendTypes, ResultTypes
<1>3. /\ route \in Ids /\ route.note \in Notes /\ route.ver \in Nat
      /\ \A o \in Notes : db[o].ver \in Nat
      /\ route.ver <= db[route.note].ver
  BY RestTypes DEF VersionsInv
<1>4. t.phase = "sent" => t.result = None
  BY DEF Rotates
<1>5. t.result # None =>
         /\ t.result.ver <= db'[t.id.note].ver
         /\ t.result.ver = db'[t.id.note].ver => db'[t.id.note].text = t.text
  <2>1. CASE t.id.note = n
    BY <1>1, <1>2, <1>3, <2>1 DEF Rotates
  <2>2. CASE t.id.note # n
    BY <1>1, <1>2, <1>3, <2>2 DEF Rotates
  <2>. QED  BY <2>1, <2>2
<1>6. CurrentRequest(t) /\ t.phase = "sent" => Differs(t.text)'
  <2>1. CurrentRequest(t) /\ t.phase = "sent" => Differs(t.text)
    BY DEF Rotates
  <2>. QED  BY <1>1, <2>1, StoredMovesOn
<1>7. CurrentRequest(t) /\ t.result # None => t.result # t.id /\ t.result.ver = db'[t.id.note].ver
  <2>. SUFFICES ASSUME CurrentRequest(t), t.result # None
                PROVE  t.result # t.id /\ t.result.ver = db'[t.id.note].ver
    OBVIOUS
  <2>1. t.result # t.id /\ t.result.ver = db[t.id.note].ver /\ t.id = route
    BY DEF Rotates, CurrentRequest
  <2>2. t.id.note # n
    <3>. SUFFICES ASSUME t.id.note = n PROVE FALSE
      OBVIOUS
    <3>1. s.id.ver <= route.ver
      BY <1>1, <2>1 DEF Sendable
    <3>2. t.result.ver = t.id.ver
      BY <1>1, <1>2, <1>3, <2>1, <3>1
    <3>. QED  BY <1>2, <2>1, <3>2, IdParts
  <2>3. db'[t.id.note] = db[t.id.note]
    BY <1>1, <1>2, <2>2
  <2>. QED  BY <2>1, <2>3
<1>8. CurrentRequest(t)' = CurrentRequest(t)
  BY DEF CurrentRequest
<1>. QED  BY <1>4, <1>5, <1>6, <1>7, <1>8 DEF Rotates

(* A PUT that is not found is answered so.                                  *)
LEMMA AnswerRests ==
  ASSUME Inv, RestInv, NEW k \in Slots, saves[k] # None, saves'[k] # None,
         UNCHANGED <<db, route, gen, text, pending, queued, last, status, edits>>,
         \A j \in Slots : j # k => saves'[j] = saves[j],
         /\ saves'[k].id = saves[k].id /\ saves'[k].gen = saves[k].gen
         /\ saves'[k].text = saves[k].text /\ saves'[k].own = saves[k].own
         /\ saves'[k].phase # "sent",
         saves'[k].result = None \/ saves'[k].result = saves[k].result
  PROVE  RestInv'
<1>1. ContentsKnown /\ DraftsFresh /\ VersionsInv /\ Decided /\ TypeOK
  BY DEF RestInv, Inv
<1>2. UNCHANGED <<route, gen, text, pending, queued, last, status>>
  OBVIOUS
<1>3. ContentsKnown'
  BY <1>1, <1>2 DEF ContentsKnown, Known
<1>4. DraftsFresh'
  BY <1>1, <1>2 DEF DraftsFresh, Unsent
<1>5. \A j \in Slots : saves'[j] # None => (Sendable(saves[j]) /\ Rotates(saves[j]))'
  <2>. SUFFICES ASSUME NEW j \in Slots, saves'[j] # None
                PROVE  (Sendable(saves[j]) /\ Rotates(saves[j]))'
    OBVIOUS
  <2>1. saves[j] # None /\ Sendable(saves[j]) /\ Rotates(saves[j])
    BY <1>1 DEF VersionsInv
  <2>2. CASE j = k
    <3>1. Sendable(saves[j])'
      BY <1>2, <2>1, <2>2 DEF Sendable
    <3>2. Rotates(saves[j])'
      BY <1>2, <2>1, <2>2 DEF Rotates, CurrentRequest
    <3>. QED  BY <3>1, <3>2
  <2>3. CASE j # k
    <3>1. saves'[j] = saves[j]
      BY <2>3
    <3>. QED  BY <1>2, <2>1, <3>1 DEF Sendable, Rotates, CurrentRequest, Differs, LiveId
  <2>. QED  BY <2>2, <2>3
<1>6. VersionsInv'
  <2>1. route'.ver <= db'[route'.note].ver
    BY <1>1, <1>2 DEF VersionsInv
  <2>2. last' # None => (Sendable(last) /\ (CurrentRequest(last) => Differs(last.text)))'
    BY <1>1, <1>2 DEF VersionsInv, Sendable, CurrentRequest, Differs, LiveId
  <2>. QED  BY <1>5, <2>1, <2>2 DEF VersionsInv
<1>7. Decided'
  <2>1. \A j \in Slots : saves[j] # None /\ InSession(j) => saves'[j] # None /\ InSession(j)'
    BY <1>2 DEF InSession, CurrentRequest
  <2>2. Stored => Stored'
    BY <1>2 DEF Stored
  <2>. QED  BY <1>1, <1>2, <2>1, <2>2 DEF Decided
<1>. QED  BY <1>3, <1>4, <1>6, <1>7 DEF RestInv

(* The server.                                                              *)
LEMMA ServeRests ==
  ASSUME Inv, RestInv, NEW k \in Slots, Serve(k)
  PROVE  RestInv'
<1>1. ContentsKnown /\ DraftsFresh /\ VersionsInv /\ Decided /\ TypeOK /\ NoteInv
  BY DEF RestInv, Inv
<1>2. UNCHANGED <<route, gen, text, refetch, pending, queued, inFlight, last, rotated,
                  status, edits, faults>> /\ UNCHANGED client
  BY DEF Serve, client
<1>3. PICK s \in Save : s = saves[k] /\ s # None
  BY <1>1, RestTypes DEF Serve
<1>4. s.phase = "sent" /\ s.result = None /\ Sendable(s) /\ Rotates(s) /\ Known(s.text)
  BY <1>1, <1>3 DEF Serve, VersionsInv, Rotates, ContentsKnown
<1>5. CASE s.id # LiveId(s.id.note)
  <2>1. saves' = [saves EXCEPT ![k].phase = "answered"] /\ UNCHANGED db
    BY <1>3, <1>5 DEF Serve
  <2>2. saves'[k] = [s EXCEPT !.phase = "answered"]
        /\ \A j \in Slots : j # k => saves'[j] = saves[j]
    BY <1>1, <1>3, <2>1 DEF TypeOK
  <2>3. saves'[k] \in Save
    BY <2>2 DEF Save
  <2>4. /\ saves'[k].id = s.id /\ saves'[k].gen = s.gen /\ saves'[k].text = s.text
        /\ saves'[k].own = s.own /\ saves'[k].phase = "answered"
        /\ saves'[k].result = s.result
    BY <2>2 DEF Save
  <2>5. saves'[k] # None
    BY <2>3, EditorAssumption
  <2>. QED  BY <1>2, <1>3, <2>1, <2>2, <2>4, <2>5, AnswerRests
<1>6. CASE s.id = LiveId(s.id.note)
  <2>1. PICK n \in Notes : n = s.id.note
    BY SendTypes
  <2>2. /\ s.id.ver = db[n].ver
        /\ saves'[k].phase = "answered" /\ saves'[k] # None
        /\ saves'[k].id = s.id /\ saves'[k].gen = s.gen
        /\ saves'[k].text = s.text /\ saves'[k].own = s.own
        /\ \A j \in Slots : j # k => saves'[j] = saves[j]
    BY <1>1, <1>3, <1>6, <2>1, ServeStores
  <2>3. \/ db' = db /\ s.text = db[n].text /\ saves'[k].result = s.id
        \/ /\ db'[n].ver = db[n].ver + 1 /\ db'[n].text = s.text
           /\ \A o \in Notes \ {n} : db'[o] = db[o]
           /\ saves'[k].result = [note |-> n, ver |-> db[n].ver + 1]
           /\ s.text # db[n].text
    BY <1>1, <1>3, <1>6, <2>1, ServeStores
  <2>4. \A o \in Notes : db'[o].text = db[o].text \/ db'[o].text = s.text
    BY <2>3
  <2>5. ContentsKnown'
    BY <1>1, <1>2, <1>3, <1>4, <2>2, <2>4 DEF ContentsKnown, Known
  <2>6. DraftsFresh'
    BY <1>1, <1>2, <1>3, <2>2, <2>4 DEF DraftsFresh, Unsent
  <2>7. CurrentRequest(s) => s.text # db[n].text
    BY <1>4, <1>6, <2>1 DEF Rotates, CurrentRequest, Differs
  <2>8. /\ db[n].ver \in Nat /\ s.id \in Ids /\ route \in Ids
        /\ route.note \in Notes /\ route.ver \in Nat
        /\ route.ver <= db[route.note].ver
    BY <1>1, SendTypes, RestTypes DEF VersionsInv
  <2>9. CASE db' = db /\ s.text = db[n].text /\ saves'[k].result = s.id
    <3>1. ~CurrentRequest(s)
      BY <2>7, <2>9
    <3>2. Sendable(saves[k])' /\ Rotates(saves[k])'
      <4>1. Sendable(saves[k])'
        BY <1>2, <1>4, <2>2, <2>9 DEF Sendable
      <4>2. ~CurrentRequest(saves[k])'
        BY <1>2, <2>2, <3>1 DEF CurrentRequest
      <4>3. Rotates(saves[k])'
        BY <2>1, <2>2, <2>8, <2>9, <4>2 DEF Rotates
      <4>. QED  BY <4>1, <4>3
    <3>3. \A j \in Slots : saves'[j] # None => (Sendable(saves[j]) /\ Rotates(saves[j]))'
      BY <1>1, <1>2, <2>2, <2>9, <3>2
         DEF VersionsInv, Sendable, Rotates, CurrentRequest, Differs, LiveId
    <3>4. last' # None => (Sendable(last) /\ (CurrentRequest(last) => Differs(last.text)))'
      BY <1>1, <1>2, <2>9 DEF VersionsInv, Sendable, CurrentRequest, Differs, LiveId
    <3>5. VersionsInv'
      BY <1>2, <2>8, <2>9, <3>3, <3>4 DEF VersionsInv
    <3>6. Decided'
      <4>1. \A j \in Slots : saves[j] # None /\ InSession(j) => saves'[j] # None /\ InSession(j)'
        BY <1>2, <1>3, <2>2 DEF InSession, CurrentRequest
      <4>2. Stored => Stored'
        BY <1>2, <1>3, <2>2, <2>9 DEF Stored
      <4>. QED  BY <1>1, <1>2, <4>1, <4>2 DEF Decided
    <3>. QED  BY <2>5, <2>6, <3>5, <3>6 DEF RestInv
  <2>10. CASE /\ db'[n].ver = db[n].ver + 1 /\ db'[n].text = s.text
              /\ \A o \in Notes \ {n} : db'[o] = db[o]
              /\ saves'[k].result = [note |-> n, ver |-> db[n].ver + 1]
              /\ s.text # db[n].text
    <3>1. Sendable(saves[k])' /\ Rotates(saves[k])'
      <4>1. Sendable(s)'
        BY <1>1, <1>2, <1>4, <2>10, StoredMovesOn
      <4>2. Sendable(saves[k])'
        BY <2>2, <4>1 DEF Sendable
      <4>3. saves'[k].result.ver = db'[n].ver /\ saves'[k].result # s.id
        BY <2>2, <2>8, <2>10
      <4>4. Rotates(saves[k])'
        BY <2>1, <2>2, <2>8, <2>10, <4>3 DEF Rotates
      <4>. QED  BY <4>2, <4>4
    <3>2. ASSUME NEW j \in Slots, saves'[j] # None
          PROVE  (Sendable(saves[j]) /\ Rotates(saves[j]))'
      <4>1. CASE j = k
        BY <3>1, <4>1
      <4>2. CASE j # k
        <5>1. PICK t \in Save : t = saves[j] /\ t = saves'[j] /\ t # None
          BY <1>1, <2>2, <3>2, <4>2, RestTypes
        <5>2. Sendable(t) /\ Rotates(t) /\ (t.result # None => t.result.note = t.id.note)
          BY <1>1, <5>1 DEF VersionsInv, NoteInv, SaveBound
        <5>3. Sendable(t)'
          BY <1>1, <1>2, <2>10, <5>2, StoredMovesOn
        <5>4. Rotates(t)'
          BY <1>1, <1>2, <1>4, <2>1, <2>2, <2>10, <5>2, OthersRotate
        <5>. QED  BY <5>1, <5>3, <5>4 DEF Sendable, Rotates, CurrentRequest
      <4>. QED  BY <4>1, <4>2
    <3>3. last' # None => (Sendable(last) /\ (CurrentRequest(last) => Differs(last.text)))'
      <4>. SUFFICES ASSUME last # None
                    PROVE  (Sendable(last) /\ (CurrentRequest(last) => Differs(last.text)))'
        BY <1>2
      <4>1. PICK r \in Request : r = last
        BY <1>1, RestTypes
      <4>2. Sendable(r) /\ (CurrentRequest(r) => Differs(r.text))
        BY <1>1, <4>1 DEF VersionsInv
      <4>3. Sendable(r)' /\ (CurrentRequest(r) => Differs(r.text)')
        BY <1>1, <1>2, <2>10, <4>2, StoredMovesOn
      <4>. QED  BY <1>2, <4>1, <4>3 DEF Sendable, CurrentRequest
    <3>4. route'.ver <= db'[route'.note].ver
      <4>1. CASE route.note = n
        BY <1>2, <2>8, <2>10, <4>1
      <4>2. CASE route.note # n
        BY <1>2, <2>8, <2>10, <4>2
      <4>. QED  BY <4>1, <4>2
    <3>5. VersionsInv'
      BY <3>2, <3>3, <3>4 DEF VersionsInv
    <3>6. Decided'
      <4>1. \A j \in Slots : saves[j] # None /\ InSession(j) => saves'[j] # None /\ InSession(j)'
        BY <1>2, <1>3, <2>2 DEF InSession, CurrentRequest
      <4>2. ASSUME Stored
            PROVE  Stored'
        <5>1. s.id # route /\ db[route.note] = [ver |-> route.ver, text |-> text]
          BY <1>3, <4>2 DEF Stored
        <5>2. route.note # n
          <6>. SUFFICES ASSUME route.note = n PROVE FALSE
            OBVIOUS
          <6>1. s.id.ver = route.ver
            BY <2>2, <5>1
          <6>. QED  BY <2>1, <2>8, <5>1, <6>1, IdParts
        <5>3. db'[route.note] = db[route.note]
          BY <2>8, <2>10, <5>2
        <5>. QED  BY <1>2, <1>3, <2>2, <4>2, <5>3 DEF Stored
      <4>. QED  BY <1>1, <1>2, <4>1, <4>2 DEF Decided
    <3>. QED  BY <2>5, <2>6, <3>5, <3>6 DEF RestInv
  <2>. QED  BY <2>3, <2>9, <2>10
<1>. QED  BY <1>5, <1>6

(* A request or an answer that is lost.                                     *)
LEMMA LoseRests ==
  ASSUME Inv, RestInv, NEW k \in Slots, Lose(k)
  PROVE  RestInv'
<1>1. PICK s \in Save : s = saves[k] /\ s # None
  BY RestTypes DEF Lose, Inv
<1>2. saves' = [saves EXCEPT ![k].phase = "answered", ![k].result = None]
      /\ UNCHANGED <<db, client, edits>>
  BY DEF Lose
<1>3. saves'[k] = [s EXCEPT !.phase = "answered", !.result = None]
      /\ \A j \in Slots : j # k => saves'[j] = saves[j]
  BY <1>1, <1>2 DEF Inv, TypeOK
<1>4. saves'[k] \in Save
  BY <1>3 DEF Save
<1>5. /\ saves'[k].id = s.id /\ saves'[k].gen = s.gen /\ saves'[k].text = s.text
      /\ saves'[k].own = s.own /\ saves'[k].phase = "answered"
      /\ saves'[k].result = None
  BY <1>3 DEF Save
<1>6. saves'[k] # None
  BY <1>4, EditorAssumption
<1>7. UNCHANGED <<db, route, gen, text, pending, queued, last, status, edits>>
  BY <1>2 DEF client
<1>. QED  BY <1>1, <1>3, <1>5, <1>6, <1>7, AnswerRests

(* The new id is known, and the document behind it read again.              *)
LEMMA RotateRests ==
  ASSUME Inv, RestInv, NEW k \in Slots, Rotate(k)
  PROVE  RestInv'
<1>1. PICK s \in Save : s = saves[k] /\ s # None
  BY RestTypes DEF Rotate, Inv
<1>2. saves' = [saves EXCEPT ![k].phase = "refetching"]
      /\ UNCHANGED <<db, route, gen, text, refetch, pending, queued, inFlight, last,
                     status, edits, faults>>
  BY DEF Rotate
<1>3. saves'[k] = [s EXCEPT !.phase = "refetching"]
      /\ \A j \in Slots : j # k => saves'[j] = saves[j]
  BY <1>1, <1>2 DEF Inv, TypeOK
<1>4. saves'[k] \in Save
  BY <1>3 DEF Save
<1>5. /\ saves'[k].id = s.id /\ saves'[k].gen = s.gen /\ saves'[k].text = s.text
      /\ saves'[k].own = s.own /\ saves'[k].phase = "refetching"
      /\ saves'[k].result = s.result
  BY <1>3 DEF Save
<1>6. saves'[k] # None
  BY <1>4, EditorAssumption
<1>. QED  BY <1>1, <1>2, <1>3, <1>5, <1>6, AnswerRests

-----------------------------------------------------------------------------
(* RestIsTruthful: the callbacks *)

(* What onSettled leaves: an empty slot, or the queue's request in it.      *)
LEMMA SettleLeaves ==
  ASSUME TypeOK, DraftsFresh, NEW k \in Slots, saves[k] # None, NEW at \in Ids,
         NEW outcome, Settle(k, outcome, at)
  PROVE  /\ \A j \in Slots : j # k => saves'[j] = saves[j]
         /\ \/ /\ saves'[k] = None /\ last' = last
               /\ \/ ~saves[k].own /\ status' = status /\ queued' = queued
                  \/ saves[k].own /\ status' = outcome /\ queued = None /\ queued' = None
            \/ /\ saves[k].own /\ queued # None /\ queued' = None
               /\ \E r \in Request : /\ r.id = at /\ r.gen = gen /\ r.text = queued.text
                                     /\ saves'[k] = Sent(r) /\ last' = r
<1>1. CASE ~saves[k].own
  BY <1>1 DEF Settle, TypeOK
<1>2. CASE saves[k].own /\ queued # None /\ queued.gen = gen
  <2>1. PICK r : r = [id |-> at, gen |-> gen, text |-> queued.text]
    OBVIOUS
  <2>2. r \in Request /\ r.id = at /\ r.gen = gen /\ r.text = queued.text
    BY <1>2, <2>1 DEF TypeOK, Draft, Request
  <2>3. saves' = [saves EXCEPT ![k] = Sent(r)] /\ last' = r /\ queued' = None
    BY <1>2, <2>1 DEF Settle
  <2>4. saves'[k] = Sent(r) /\ \A j \in Slots : j # k => saves'[j] = saves[j]
    BY <2>3 DEF TypeOK
  <2>. QED  BY <1>2, <2>2, <2>3, <2>4
<1>3. CASE saves[k].own /\ ~(queued # None /\ queued.gen = gen)
  <2>1. queued = None
    BY <1>3 DEF DraftsFresh
  <2>2. saves' = [saves EXCEPT ![k] = None] /\ last' = last /\ queued' = None /\ status' = outcome
    BY <1>3 DEF Settle
  <2>. QED  BY <1>3, <2>1, <2>2 DEF TypeOK
<1>. QED  BY <1>1, <1>2, <1>3

(* A save that settles brings no content that was not there, and sends none *)
(* a second time.                                                           *)
LEMMA SettleContents ==
  ASSUME TypeOK, ContentsKnown, DraftsFresh, NEW k \in Slots, saves[k] # None, NEW at \in Ids,
         NEW outcome, Settle(k, outcome, at), UNCHANGED <<db, gen, pending, edits>>,
         Known(text')
  PROVE  ContentsKnown' /\ DraftsFresh'
<1>1. \A j \in Slots : j # k => saves'[j] = saves[j]
  BY SettleLeaves
<1>2. CASE saves'[k] = None /\ last' = last /\ (queued' = queued \/ queued' = None)
  <2>1. ContentsKnown'
    BY <1>1, <1>2 DEF ContentsKnown, Known
  <2>2. DraftsFresh'
    BY <1>1, <1>2 DEF DraftsFresh, Unsent
  <2>. QED  BY <2>1, <2>2
<1>3. ASSUME NEW r \in Request, queued # None, queued' = None,
             r.text = queued.text, saves'[k] = Sent(r), last' = r
      PROVE  ContentsKnown' /\ DraftsFresh'
  <2>1. Sent(r).text = queued.text /\ Sent(r) # None
    BY <1>3, SentType
  <2>2. ContentsKnown'
    BY <1>1, <1>3, <2>1 DEF ContentsKnown, Known
  <2>3. pending # None => pending.gen = gen /\ Unsent(pending.text) /\ pending.text # queued.text
    BY <1>3 DEF DraftsFresh
  <2>4. DraftsFresh'
    BY <1>1, <1>3, <2>1, <2>3 DEF DraftsFresh, Unsent
  <2>. QED  BY <2>2, <2>4
<1>. QED  BY <1>2, <1>3, SettleLeaves

(* A save that settles where the editor stays.                              *)
LEMMA SettleRests ==
  ASSUME Inv, RestInv, NEW k \in Slots, saves[k] # None,
         NEW outcome, Settle(k, outcome, route),
         UNCHANGED <<db, route, gen, text, pending, edits>>,
         InSession(k) => outcome = "error",
         ~InSession(k) => outcome = status
  PROVE  RestInv'
<1>1. ContentsKnown /\ DraftsFresh /\ VersionsInv /\ Decided /\ TypeOK /\ route \in Ids
  BY DEF RestInv, Inv, TypeOK
<1>2. \A j \in Slots : j # k => saves'[j] = saves[j]
  BY <1>1, SettleLeaves
<1>3. ContentsKnown' /\ DraftsFresh'
  BY <1>1, SettleContents DEF ContentsKnown
<1>4. CASE /\ saves'[k] = None /\ last' = last
           /\ \/ ~saves[k].own /\ status' = status /\ queued' = queued
              \/ saves[k].own /\ status' = outcome /\ queued = None /\ queued' = None
  <2>1. VersionsInv'
    BY <1>1, <1>2, <1>4 DEF VersionsInv, Sendable, Rotates, CurrentRequest, Differs, LiveId
  <2>3. CASE ~InSession(k)
    <3>1. status' = status /\ queued' = queued
      BY <1>4, <2>3
    <3>2. \A j \in Slots : saves[j] # None /\ InSession(j) => saves'[j] # None /\ InSession(j)'
      BY <1>2, <2>3 DEF InSession, CurrentRequest
    <3>3. Stored => Stored'
      BY <1>2, <1>4 DEF Stored
    <3>4. Decided'
      BY <1>1, <3>1, <3>2, <3>3 DEF Decided
    <3>. QED  BY <1>3, <2>1, <3>4 DEF RestInv
  <2>4. InSession(k) => Decided'
    BY <1>4 DEF InSession, Decided
  <2>. QED  BY <1>3, <2>1, <2>3, <2>4 DEF RestInv
<1>5. ASSUME NEW r \in Request, queued # None, r.id = route, r.gen = gen, r.text = queued.text,
             saves'[k] = Sent(r), last' = r
      PROVE  RestInv'
  <2>1. /\ Sent(r).text = queued.text /\ Sent(r) # None /\ Sent(r).own
        /\ Sent(r).id = route /\ Sent(r).gen = gen
    BY <1>5, SentType
  <2>2. Differs(r.text)
    BY <1>1, <1>5, UnsentDiffers DEF DraftsFresh
  <2>3. Sendable(Sent(r)) /\ Rotates(Sent(r))
    <3>1. route.ver <= db[route.note].ver
      BY <1>1 DEF VersionsInv
    <3>. QED  BY <1>1, <1>5, <2>2, <3>1, SentRests
  <2>4. Sendable(r)
    BY <1>5, <2>1, <2>3 DEF Sendable
  <2>5. VersionsInv'
    <3>1. \A j \in Slots : saves'[j] # None => Sendable(saves'[j]) /\ Rotates(saves'[j])
      BY <1>1, <1>2, <1>5, <2>3 DEF VersionsInv
    <3>. QED  BY <1>1, <1>5, <2>2, <2>4, <3>1
           DEF VersionsInv, Sendable, Rotates, CurrentRequest, Differs, LiveId
  <2>6. saves'[k] # None /\ InSession(k)'
    BY <1>5, <2>1 DEF InSession, CurrentRequest
  <2>. QED  BY <1>3, <2>5, <2>6 DEF RestInv, Decided
<1>. QED  BY <1>1, <1>4, <1>5, SettleLeaves

(* An answer without a rotation, or none.  A PUT of the session that was    *)
(* served has a new id.                                                     *)
LEMMA AnsweredRests ==
  ASSUME Inv, RestInv, NEW k \in Slots, Succeed(k) \/ Fail(k)
  PROVE  RestInv'
<1>1. saves[k] # None
      /\ UNCHANGED <<db, route, gen, text, refetch, pending, rotated, edits, faults>>
  BY DEF Succeed, Fail
<1>2. CASE Succeed(k)
  <2>1. ~InSession(k)
    BY <1>2 DEF Succeed, RestInv, VersionsInv, Rotates, InSession
  <2>2. Settle(k, status, route)
    BY <1>2, <2>1 DEF Succeed
  <2>. QED  BY <1>1, <2>1, <2>2, SettleRests
<1>3. CASE Fail(k)
  <2>1. CASE InSession(k)
    <3>1. Settle(k, "error", route)
      BY <1>3, <2>1 DEF Fail
    <3>. QED  BY <1>1, <2>1, <3>1, SettleRests
  <2>2. CASE ~InSession(k)
    <3>1. Settle(k, status, route)
      BY <1>3, <2>2 DEF Fail
    <3>. QED  BY <1>1, <2>2, <3>1, SettleRests
  <2>. QED  BY <2>1, <2>2
<1>. QED  BY <1>2, <1>3

(* The route follows, to what is stored.                                    *)
LEMMA FollowRests ==
  ASSUME Inv, RestInv, NEW k \in Slots, Refetched(k), InSession(k)
  PROVE  RestInv'
<1>1. ContentsKnown /\ DraftsFresh /\ VersionsInv /\ Decided /\ TypeOK /\ NoteInv
  BY DEF RestInv, Inv
<1>2. PICK s \in Save : s = saves[k] /\ s # None
  BY <1>1, RestTypes DEF Refetched
<1>3. s.result # None /\ s.result.note = s.id.note /\ s.id = route /\ s.gen = gen /\ s.own
  BY <1>1, <1>2 DEF Refetched, NoteInv, SaveBound, InSession, CurrentRequest
<1>4. PICK at \in Ids : at = s.result
  BY <1>3, ResultTypes
<1>5. PICK n \in Notes : n = route.note
  BY <1>1, RestTypes
<1>6. at # route /\ at.note = n /\ at.ver = db[n].ver /\ db[n].text = s.text
      /\ Known(s.text)
  BY <1>1, <1>2, <1>3, <1>4, <1>5 DEF VersionsInv, Rotates, CurrentRequest, ContentsKnown
<1>7. at = LiveId(n)
  BY <1>1, <1>4, <1>6, LiveIdType, IdParts DEF LiveId
<1>8. /\ route' = at /\ text' = s.text /\ Settle(k, "saved", at)
      /\ UNCHANGED <<db, gen, pending, edits, faults>>
  BY <1>2, <1>4 DEF Refetched
<1>9. \A j \in Slots : j # k => saves'[j] = saves[j]
  BY <1>1, <1>2, <1>8, SettleLeaves
<1>10. ContentsKnown' /\ DraftsFresh'
  <2>1. Known(text')
    BY <1>6, <1>8
  <2>. QED  BY <1>1, <1>2, <1>8, <2>1, SettleContents
<1>11. ASSUME NEW r \in Request \cup Save, Sendable(r)
       PROVE  Sendable(r)' /\ ~CurrentRequest(r)' /\ r.id # route'
  <2>1. route' = LiveId(n) /\ route' # route /\ n = route.note /\ gen' = gen
    BY <1>5, <1>6, <1>7, <1>8
  <2>. QED  BY <1>1, <1>8, <1>11, <2>1, RouteMovesOn
<1>12. ASSUME NEW j \in Slots, j # k, saves'[j] # None
       PROVE  (Sendable(saves[j]) /\ Rotates(saves[j]))' /\ saves'[j].id # route'
  <2>1. PICK t \in Save : t = saves[j] /\ t = saves'[j]
    BY <1>1, <1>9, <1>12, RestTypes
  <2>2. Sendable(t) /\ Rotates(t)
    BY <1>1, <1>9, <1>12, <2>1 DEF VersionsInv
  <2>3. Sendable(t)' /\ ~CurrentRequest(t)' /\ t.id # route'
    BY <1>11, <2>2
  <2>4. Rotates(t)'
    BY <1>8, <2>2, <2>3, LeftRotates
  <2>. QED  BY <2>1, <2>3, <2>4 DEF Sendable, Rotates, CurrentRequest
<1>13. route'.ver <= db'[route'.note].ver
  BY <1>1, <1>5, <1>6, <1>8, RestTypes
<1>14. CASE /\ saves'[k] = None /\ last' = last
            /\ \/ ~saves[k].own /\ status' = status /\ queued' = queued
               \/ saves[k].own /\ status' = "saved" /\ queued = None /\ queued' = None
  <2>1. last' # None => (Sendable(last) /\ (CurrentRequest(last) => Differs(last.text)))'
    <3>. SUFFICES ASSUME last # None PROVE (Sendable(last) /\ ~CurrentRequest(last))'
      BY <1>14
    <3>1. PICK r \in Request : r = last
      BY <1>1, RestTypes
    <3>2. Sendable(r)
      BY <1>1, <3>1 DEF VersionsInv
    <3>3. Sendable(r)' /\ ~CurrentRequest(r)'
      BY <1>11, <3>2
    <3>. QED  BY <1>14, <3>1, <3>3 DEF Sendable, CurrentRequest
  <2>2. VersionsInv'
    BY <1>12, <1>13, <1>14, <2>1 DEF VersionsInv
  <2>3. db[n] = [ver |-> db[n].ver, text |-> db[n].text]
    <3>1. db[n] \in [ver : Nat, text : Texts]
      BY <1>1 DEF TypeOK
    <3>. QED  BY <3>1
  <2>4. Stored'
    BY <1>6, <1>8, <1>12, <1>14, <2>3 DEF Stored
  <2>. QED  BY <1>10, <2>2, <2>4 DEF RestInv, Decided
<1>15. ASSUME NEW r \in Request, queued # None, r.id = at, r.gen = gen, r.text = queued.text,
              saves'[k] = Sent(r), last' = r
       PROVE  RestInv'
  <2>1. /\ Sent(r).text = r.text /\ Sent(r) # None /\ Sent(r).own
        /\ Sent(r).id = route' /\ Sent(r).gen = gen' /\ r.id = route' /\ r.gen = gen'
        /\ Sent(r).result = None
    BY <1>8, <1>15, SentType
  <2>2. Differs(r.text)'
    <3>1. Unsent(queued.text)
      BY <1>1, <1>15 DEF DraftsFresh
    <3>. QED  BY <1>5, <1>6, <1>8, <1>15, <3>1 DEF Unsent, Differs
  <2>3. Sendable(r)'
    <3>1. gen \in Nat /\ at.ver \in Nat
      BY <1>1, RestTypes DEF Ids
    <3>. QED  BY <1>8, <1>13, <2>1, <3>1 DEF Sendable
  <2>4. (Sendable(saves[k]) /\ Rotates(saves[k]))'
    <3>1. Sendable(saves[k])'
      BY <1>15, <2>1, <2>3 DEF Sendable
    <3>2. Rotates(saves[k])'
      BY <1>15, <2>1, <2>2 DEF Rotates
    <3>. QED  BY <3>1, <3>2
  <2>5. VersionsInv'
    BY <1>12, <1>13, <1>15, <2>2, <2>3, <2>4 DEF VersionsInv
  <2>6. saves'[k] # None /\ InSession(k)'
    BY <1>15, <2>1 DEF InSession, CurrentRequest
  <2>. QED  BY <1>10, <2>5, <2>6 DEF RestInv, Decided
<1>. QED  BY <1>1, <1>2, <1>8, <1>14, <1>15, SettleLeaves

(* No step disturbs it.                                                     *)
LEMMA RestStep == Inv /\ RestInv /\ [EditorNext]_editorVars => RestInv'
<1>. SUFFICES ASSUME Inv, RestInv, [EditorNext]_editorVars PROVE RestInv'
  OBVIOUS
<1>0. TypeOK' /\ NoteInv
  BY InvStep DEF Inv
<1>1. CASE UNCHANGED editorVars
  BY <1>1 DEF editorVars, client, RestInv, ContentsKnown, Known, DraftsFresh, Unsent, VersionsInv,
              Sendable, Rotates, CurrentRequest, Differs, LiveId, Decided, Stored, InSession
<1>2. CASE Keystroke \/ FireDraft \/ Retry \/ Refresh
  BY <1>0, <1>2, TypeRests, FireRests, RetryRests, RefreshRests
<1>3. ASSUME NEW n \in Notes, Open(n) \/ Mount(n)
      PROVE  RestInv'
  BY <1>0, <1>3, OpenRests, MountRests
<1>4. ASSUME NEW k \in Slots, Serve(k) \/ Lose(k) \/ Succeed(k) \/ Rotate(k) \/ Fail(k)
      PROVE  RestInv'
  BY <1>4, ServeRests, LoseRests, AnsweredRests, RotateRests
<1>5. ASSUME NEW k \in Slots, Refetched(k)
      PROVE  RestInv'
  <2>1. CASE InSession(k)
    BY <1>5, <2>1, FollowRests
  <2>2. CASE ~InSession(k)
    <3>1. saves[k] # None /\ Settle(k, status, route)
          /\ UNCHANGED <<db, route, gen, text, pending, edits>>
      BY <1>5, <2>2 DEF Refetched
    <3>. QED  BY <2>2, <3>1, SettleRests
  <2>. QED  BY <2>1, <2>2
<1>. QED  BY <1>1, <1>2, <1>3, <1>4, <1>5 DEF EditorNext, Callback

(* An untouched editor has nothing to store.                                *)
LEMMA RestInit == EditorInit => RestInv
<1>. SUFFICES ASSUME EditorInit PROVE RestInv
  OBVIOUS
<1>1. PICK n \in Notes : route = LiveId(n)
  BY DEF EditorInit
<1>2. /\ \A o \in Notes : db[o].ver = 0 /\ db[o].text = {}
      /\ text = {} /\ pending = None /\ queued = None /\ last = None /\ status = "idle"
      /\ \A k \in Slots : saves[k] = None
  BY DEF EditorInit
<1>3. route.note = n /\ route.ver = 0
  BY <1>1, <1>2 DEF LiveId
<1>4. ContentsKnown /\ DraftsFresh /\ Decided
  BY <1>2 DEF ContentsKnown, Known, DraftsFresh, Decided
<1>5. VersionsInv
  BY <1>2, <1>3 DEF VersionsInv
<1>. QED  BY <1>4, <1>5 DEF RestInv

(* onSettled, the rotation and the routing: at rest, when no error is       *)
(* shown, an edited note is stored as the editor shows it, at the id that   *)
(* the editor is at.                                                        *)
THEOREM RestIsTruthfulAlways == EditorSpec => []RestIsTruthful
<1>1. Inv /\ RestInv => RestIsTruthful
  BY DEF RestInv, Decided, Stored, RestIsTruthful, Saving, InSession
<1>2. EditorInit => Inv /\ RestInv
  BY InvInit, RestInit
<1>3. Inv /\ RestInv /\ [EditorNext]_editorVars => (Inv /\ RestInv)'
  BY InvStep, RestStep
<1>. QED  BY <1>1, <1>2, <1>3, PTL DEF EditorSpec
=============================================================================

---------------------------- MODULE BlogRegistry ----------------------------
(***************************************************************************)
(* The document endpoints of skb-server and the blog_post registry beside   *)
(* the document table.                                                     *)
(*                                                                         *)
(* A request is a sequence of database calls, each atomic; the requests in  *)
(* flight interleave between them, any call may fail, and the server may    *)
(* die with requests half done.  There is no transaction over the two       *)
(* tables: the handlers compensate.                                        *)
(***************************************************************************)
EXTENDS Naturals, FiniteSets

CONSTANTS
    Requests,    \* bound on requests in flight: the slots they occupy
    Authors,     \* users with the author role
    Anonymous,   \* a caller without an author's session
    Texts,       \* document contents that yield chunks; sha256 is UNIQUE
    Creates,     \* <<blog, force>> pairs that clients send with a new document
    Alone,       \* kinds of request that clients send only on their own
    Eager,       \* clients name documents whose request has not been answered
    MaxId,       \* bound on document ids minted
    MaxFaults,   \* bound on failed calls and crashes
    None

Kinds == {"create", "update", "delete", "publish"}
Users == Authors \cup {Anonymous}
Ids == 1 .. MaxId
Rows == [author : Authors, published : BOOLEAN]

ASSUME RegistryAssumption ==
    /\ Anonymous \notin Authors
    /\ None \notin Texts /\ None \notin Rows /\ None \notin Ids
    /\ IsFiniteSet(Requests)
    /\ \A u \in Authors, b \in BOOLEAN, t \in Texts :
         None # [author |-> u, published |-> b, text |-> t]
    /\ Creates \subseteq BOOLEAN \X BOOLEAN /\ Alone \subseteq Kinds
    /\ Eager \in BOOLEAN
    /\ MaxId \in Nat /\ MaxFaults \in Nat

VARIABLES
    docs,     \* document table: id to content
    rows,     \* blog_post table: by document, which is UNIQUE
    minted,   \* ids ever minted are 1 .. minted
    req,      \* per slot, the request in flight
    post,     \* history: the post a document was stored for
    strays,   \* history: stored for a post by an update that found no row
    faults    \* failed calls and crashes so far

vars == <<docs, rows, minted, req, post, strays, faults>>

Idle == [pc |-> "idle"]
Active == {s \in Requests : req[s] # Idle}
Pcs == {"get", "owner", "exists", "store", "register", "migrate", "drop",
        "undo", "unregister", "delete", "restore", "publish"}

(* A request under way and the locals of its handler. *)
Request == [kind : Kinds, pc : Pcs, user : Users,
            doc : Ids \cup {None}, new : Ids \cup {None}, text : Texts \cup {None},
            blog : BOOLEAN, force : BOOLEAN, existed : BOOLEAN,
            owner : Rows \cup {None}]

TypeOK ==
    /\ docs \in [Ids -> Texts \cup {None}]
    /\ rows \in [Ids -> Rows \cup {None}]
    /\ minted \in 0 .. MaxId
    /\ req \in [Requests -> Request \cup {Idle}]
    /\ post \in [Ids -> Ids \cup {None}]
    /\ strays \subseteq Ids
    /\ faults \in 0 .. MaxFaults

Init ==
    /\ docs = [d \in Ids |-> None]
    /\ rows = [d \in Ids |-> None]
    /\ minted = 0
    /\ req = [s \in Requests |-> Idle]
    /\ post = [d \in Ids |-> None]
    /\ strays = {}
    /\ faults = 0

-----------------------------------------------------------------------------
Holding(t) == {d \in Ids : docs[d] = t}

Goto(s, next) == req' = [req EXCEPT ![s].pc = next]

(* The response is sent. *)
Respond(s) == req' = [req EXCEPT ![s] = Idle]

(* Bound: what the requests in flight may still mint fits in MaxId. *)
Room == minted + Cardinality(Active) < MaxId

(* GET /api/documents lists a document as soon as it is stored, before the
   request that stored it has registered it or moved the row to it.  Clients
   that are not eager name it once that request is over. *)
Named(d) ==
    /\ d \in 1 .. minted
    /\ Eager \/ \A r \in Active : req[r].new # d

(* A request arrives. *)
Arrive(s, kind, user, doc, text, blog, force) ==
    /\ req[s] = Idle
    /\ kind \in Alone => Active = {}
    /\ \A r \in Active : req[r].kind \notin Alone
    /\ req' = [req EXCEPT ![s] =
         [kind |-> kind, user |-> user, doc |-> doc, text |-> text,
          blog |-> blog, force |-> force, existed |-> FALSE, owner |-> None,
          new |-> None,
          pc |-> CASE kind = "create"  -> "exists"
                   [] kind = "update"  -> "get"
                   [] kind = "delete"  -> "owner"
                   [] kind = "publish" -> "publish"]]
    /\ UNCHANGED <<docs, rows, minted, post, strays, faults>>

(* POST /api/documents: metadata.app = "blog" needs an author. *)
Create(s) == \E t \in Texts, c \in Creates :
    /\ Room
    /\ \E u \in IF c[1] THEN Authors ELSE {Anonymous} :
         Arrive(s, "create", u, None, t, c[1], c[2])

(* PUT: force is stripped. *)
Update(s) == \E u \in Users, d \in Ids, t \in Texts :
    /\ Named(d) /\ Room
    /\ Arrive(s, "update", u, d, t, FALSE, FALSE)

Delete(s) == \E u \in Users, d \in Ids :
    /\ Named(d)
    /\ Arrive(s, "delete", u, d, None, FALSE, FALSE)

(* Any author, whoever wrote the post. *)
Publish(s) == \E d \in Ids :
    /\ Named(d) /\ Authors # {}
    /\ Arrive(s, "publish", Anonymous, d, None, FALSE, FALSE)

-----------------------------------------------------------------------------
(* The calls *)

GetOld(s) ==
    /\ req[s].pc = "get"
    /\ IF docs[req[s].doc] = None THEN Respond(s) ELSE Goto(s, "owner")
    /\ UNCHANGED <<docs, rows, minted, post, strays, faults>>

(* blog_post_owner, then require_blog_owner. *)
ReadOwner(s) ==
    /\ req[s].pc = "owner"
    /\ LET row == rows[req[s].doc] IN
       IF row # None /\ row.author # req[s].user THEN Respond(s)
       ELSE req' = [req EXCEPT ![s].owner = row, ![s].pc =
                      IF req[s].kind = "update" THEN "exists" ELSE "unregister"]
    /\ UNCHANGED <<docs, rows, minted, post, strays, faults>>

(* upload: the lookup outside the transaction.  "skipped" names no document. *)
CheckExists(s) ==
    /\ req[s].pc = "exists"
    /\ LET existed == Holding(req[s].text) # {} IN
       IF existed /\ ~req[s].force THEN Respond(s)
       ELSE req' = [req EXCEPT ![s].existed = existed, ![s].pc = "store"]
    /\ UNCHANGED <<docs, rows, minted, post, strays, faults>>

(* Mutant: the old document is dropped before the row is moved. *)
StoredDropFirst(s, d) ==
    IF req[s].kind = "create" /\ ~req[s].blog THEN Respond(s)
    ELSE req' = [req EXCEPT ![s].new = d,
              ![s].pc = IF req[s].kind = "create" THEN "register" ELSE "drop"]

(* What follows a successful upload of document d. *)
Stored(s, d) ==
    IF req[s].kind = "create" /\ ~req[s].blog THEN Respond(s)
    ELSE req' = [req EXCEPT ![s].new = d,
              ![s].pc = IF req[s].kind = "create" THEN "register"
                        ELSE IF req[s].owner # None THEN "migrate" ELSE "drop"]

(* A replacement is of its document's post, whatever the lookup found. *)
PostOf(s, d) ==
    IF req[s].kind = "update" THEN post[req[s].doc]
    ELSE IF req[s].blog THEN d ELSE None

Strays(s, d) ==
    {e \in {d} : req[s].kind = "update" /\ req[s].owner = None /\ post[req[s].doc] # None}

(* upload: the transaction of a new document. *)
StoreNew(s) ==
    /\ req[s].pc = "store"
    /\ ~(req[s].force /\ req[s].existed)
    /\ IF Holding(req[s].text) # {}
         THEN Respond(s) /\ UNCHANGED <<docs, minted, post, strays>>
         ELSE LET d == minted + 1 IN
              /\ minted' = d
              /\ docs' = [docs EXCEPT ![d] = req[s].text]
              /\ post' = [post EXCEPT ![d] = PostOf(s, d)]
              /\ strays' = strays \cup Strays(s, d)
              /\ Stored(s, d)
    /\ UNCHANGED <<rows, faults>>

(* upload: force on content that is there keeps its id. *)
StoreForced(s) ==
    /\ req[s].pc = "store"
    /\ req[s].force /\ req[s].existed
    /\ IF Holding(req[s].text) = {}
         THEN Respond(s) /\ UNCHANGED post
         ELSE \E d \in Holding(req[s].text) :
                /\ post' = [post EXCEPT ![d] = IF @ = None THEN PostOf(s, d) ELSE @]
                /\ Stored(s, d)
    /\ UNCHANGED <<docs, rows, minted, strays, faults>>

(* create_blog_post; the unique index refuses a second row. *)
Register(s) ==
    /\ req[s].pc = "register"
    /\ LET d == req[s].new IN
       IF rows[d] = None
         THEN /\ rows' = [rows EXCEPT ![d] = [author |-> req[s].user, published |-> FALSE]]
              /\ Respond(s)
         ELSE Goto(s, "undo") /\ UNCHANGED rows
    /\ UNCHANGED <<docs, minted, post, strays, faults>>

(* Mutant: a migration that finds no row is taken for a success. *)
MigrateUnchecked(s) ==
    /\ req[s].pc = "migrate"
    /\ LET old == req[s].doc
           new == req[s].new IN
       /\ rows' = [rows EXCEPT ![old] = None, ![new] = rows[old]]
       /\ Goto(s, "drop")
    /\ UNCHANGED <<docs, minted, post, strays, faults>>

(* Mutant: the new document gets a row of its own. *)
MigrateCopying(s) ==
    /\ req[s].pc = "migrate"
    /\ LET old == req[s].doc
           new == req[s].new IN
       IF rows[old] # None
         THEN /\ rows' = [rows EXCEPT ![new] = rows[old]]
              /\ Goto(s, "drop")
         ELSE /\ Goto(s, "undo")
              /\ UNCHANGED rows
    /\ UNCHANGED <<docs, minted, post, strays, faults>>

(* migrate_blog_post: 409 when the UPDATE matches no row. *)
Migrate(s) ==
    /\ req[s].pc = "migrate"
    /\ LET old == req[s].doc
           new == req[s].new IN
       IF rows[old] # None /\ rows[new] = None
         THEN /\ rows' = [rows EXCEPT ![old] = None, ![new] = rows[old]]
              /\ Goto(s, "drop")
         ELSE /\ Goto(s, "undo")
              /\ UNCHANGED rows
    /\ UNCHANGED <<docs, minted, post, strays, faults>>

(* The old document goes; the answer is the new id whether or not it was
   still there. *)
DropOld(s) ==
    /\ req[s].pc = "drop"
    /\ docs' = [docs EXCEPT ![req[s].doc] = None]
    /\ Respond(s)
    /\ UNCHANGED <<rows, minted, post, strays, faults>>

(* The compensation of a failed registration or migration. *)
Undo(s) ==
    /\ req[s].pc = "undo"
    /\ docs' = [docs EXCEPT ![req[s].new] = None]
    /\ Respond(s)
    /\ UNCHANGED <<rows, minted, post, strays, faults>>

Unregister(s) ==
    /\ req[s].pc = "unregister"
    /\ rows' = [rows EXCEPT ![req[s].doc] = None]
    /\ Goto(s, "delete")
    /\ UNCHANGED <<docs, minted, post, strays, faults>>

(* delete_document: a missing record is an error like any other. *)
DeleteDocument(s) ==
    /\ req[s].pc = "delete"
    /\ IF docs[req[s].doc] # None
         THEN /\ docs' = [docs EXCEPT ![req[s].doc] = None]
              /\ Respond(s)
         ELSE /\ IF req[s].owner # None
                   THEN Goto(s, "restore")
                   ELSE Respond(s)
              /\ UNCHANGED docs
    /\ UNCHANGED <<rows, minted, post, strays, faults>>

(* Mutant: the row is restored as any new row is, unpublished. *)
RestoreAsDraft(s) ==
    /\ req[s].pc = "restore"
    /\ rows' = [rows EXCEPT ![req[s].doc] =
                  IF @ = None THEN [author |-> req[s].user, published |-> FALSE] ELSE @]
    /\ Respond(s)
    /\ UNCHANGED <<docs, minted, post, strays, faults>>

(* create_blog_post with the author and flag that were read. *)
Restore(s) ==
    /\ req[s].pc = "restore"
    /\ rows' = [rows EXCEPT ![req[s].doc] = IF @ = None THEN req[s].owner ELSE @]
    /\ Respond(s)
    /\ UNCHANGED <<docs, minted, post, strays, faults>>

PublishPost(s) ==
    /\ req[s].pc = "publish"
    /\ rows' = [rows EXCEPT ![req[s].doc] =
                  IF @ = None THEN None ELSE [@ EXCEPT !.published = TRUE]]
    /\ Respond(s)
    /\ UNCHANGED <<docs, minted, post, strays, faults>>

-----------------------------------------------------------------------------
(* Faults *)

(* A call fails, a write conflict included, and changes nothing. *)
FailCall(s) ==
    /\ faults < MaxFaults
    /\ faults' = faults + 1
    /\ CASE req[s].pc \in {"register", "migrate"} ->
              Goto(s, "undo")
         [] req[s].pc = "delete" /\ req[s].owner # None ->
              Goto(s, "restore")
         [] OTHER -> Respond(s)
    /\ UNCHANGED <<docs, rows, minted, post, strays>>

(* The server dies with its requests. *)
Crash ==
    /\ faults < MaxFaults
    /\ Active # {}
    /\ faults' = faults + 1
    /\ req' = [s \in Requests |-> Idle]
    /\ UNCHANGED <<docs, rows, minted, post, strays>>

Call(s) ==
    \/ GetOld(s) \/ ReadOwner(s) \/ CheckExists(s)
    \/ StoreNew(s) \/ StoreForced(s) \/ Register(s) \/ Migrate(s)
    \/ DropOld(s) \/ Undo(s)
    \/ Unregister(s) \/ DeleteDocument(s) \/ Restore(s) \/ PublishPost(s)
    \/ FailCall(s)

Next ==
    \/ \E s \in Requests : Create(s) \/ Update(s) \/ Delete(s) \/ Publish(s)
    \/ \E s \in Active : Call(s)
    \/ Crash

Spec == Init /\ [][Next]_vars

-----------------------------------------------------------------------------
(* Properties *)

(* The registry never names a document that is gone: the order of the writes
   of an update, a delete and their compensations, over every interleaving
   and every failed call. *)
RowsNameDocuments == \A d \in Ids : rows[d] # None => docs[d] # None

(* What the listing of published posts returns exists: "the registry row is
   dropped first so the published-post listing never references a deleted
   document" (documents.rs). *)
ListingNamesDocuments ==
    \A d \in Ids : rows[d] # None /\ rows[d].published => docs[d] # None

(* With no call failed and no request under way every document that was
   stored for a post is registered: "treating that as success would let
   update_document return a replacement id while blog_post.document still
   points elsewhere, orphaning the replacement" (blog.rs). *)
NoOrphans ==
    Active = {} /\ faults = 0 =>
        \A d \in Ids : docs[d] # None /\ post[d] # None => rows[d] # None

(* What of it the code achieves: the orphans are the strays, stored by an
   update that looked the owner up after another update of the document had
   moved its row.  Whoever found the row registers what it stores or takes it
   back, and so does whoever creates a post. *)
RegisteredAtRest ==
    Active = {} /\ faults = 0 =>
        \A d \in Ids \ strays : docs[d] # None /\ post[d] # None => rows[d] # None

(* A post has one row, however many updates of it run. *)
OneRowPerPost ==
    \A d, e \in Ids : rows[d] # None /\ rows[e] # None /\ post[d] = post[e] => d = e

(* A refused create takes back what it stored and nothing else: "roll the
   just-ingested document back so the store holds no registry-less blog
   content and a client retry starts clean" (documents.rs). *)
UndoesOnlyItsOwn ==
    \A s \in Active : req[s].pc = "undo" /\ req[s].kind = "create" => ~req[s].existed

(* The registry as readers see it. *)
Removing(p) == {s \in Active : /\ req[s].kind = "delete" /\ req[s].owner # None
                               /\ req[s].pc \in {"delete", "restore"}
                               /\ post[req[s].doc] = p}
RowOf(p) == {d \in Ids : rows[d] # None /\ post[d] = p}

PostView(d, row) == [author |-> row.author, published |-> row.published, text |-> docs[d]]

Post(p) ==
    IF RowOf(p) # {} THEN LET d == CHOOSE d \in RowOf(p) : TRUE IN PostView(d, rows[d])
    ELSE IF Removing(p) # {}
    THEN LET s == CHOOSE s \in Removing(p) : TRUE IN PostView(req[s].doc, req[s].owner)
    ELSE None

Hidden(p) == RowOf(p) = {} /\ Removing(p) # {}

Promise == INSTANCE Blog WITH
    Posts <- Ids,
    posts <- [p \in Ids |-> Post(p)],
    hidden <- {p \in Ids : Hidden(p)}

(* Authors and readers see posts change only as the blog promises: an update
   keeps author and state, a delete that fails restores both, nothing is
   published but by a publish request. *)
KeepsBlog == Promise!Spec

=============================================================================

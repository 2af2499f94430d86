------------------------- MODULE BlogRegistryProofs -------------------------
(* Theorems about BlogRegistry, for any requests, authors, contents and      *)
(* bounds, when creates and deletes of posts come on their own, no client    *)
(* forces the content of a post, and none names a document of a request      *)
(* under way.                                                                *)
EXTENDS BlogRegistry, FiniteSetTheorems, TLAPS

Careful ==
    /\ {"create", "delete"} \subseteq Alone
    /\ <<TRUE, TRUE>> \notin Creates
    /\ ~Eager

-----------------------------------------------------------------------------
(* The strengthening of the registry's invariants *)

(* Requests that may still mint an id have room for it. *)
Minting == {s \in Active : req[s].kind \in {"create", "update"} /\ req[s].new = None}
HasRoom == minted + Cardinality(Minting) <= MaxId

Solo == \A s, r \in Active : s # r => req[s].kind \notin {"create", "delete"}

(* Documents that no request under way has just stored. *)
Settled == (1 .. minted) \ {req[s].new : s \in Active}

(* Where a request is says what it is and which locals it has. *)
Placed(s) ==
    /\ req[s].kind = "create" =>
         /\ req[s].pc \in {"exists", "store", "register", "undo"}
         /\ ~(req[s].blog /\ req[s].force)
         /\ req[s].blog => req[s].user \in Authors
         /\ req[s].owner = None
    /\ req[s].kind = "update" =>
         /\ req[s].pc \in {"get", "owner", "exists", "store", "migrate", "drop", "undo"}
         /\ ~req[s].blog /\ ~req[s].force
    /\ req[s].kind = "delete" => req[s].pc \in {"owner", "unregister", "delete", "restore"}
    /\ req[s].kind = "publish" => req[s].pc = "publish"
    /\ req[s].kind \in {"create", "update"} => req[s].text # None
    /\ req[s].kind # "create" => req[s].doc \in Settled
    /\ req[s].new # None <=> req[s].pc \in {"register", "migrate", "drop", "undo"}
    /\ req[s].pc = "register" => req[s].blog
    /\ req[s].pc \in {"get", "owner"} => req[s].owner = None
    /\ req[s].pc \in {"migrate", "restore"} => req[s].owner # None

(* A document stored by a request is its own until it answers. *)
Own(s) ==
    req[s].new # None =>
        /\ req[s].new \in 1 .. minted
        /\ \A r \in Active \ {s} : req[r].new # req[s].new
        /\ req[s].pc # "drop" => rows[req[s].new] = None
        /\ req[s].pc \in {"register", "migrate"} => docs[req[s].new] # None

(* What a request has taken away, or found missing, is not there again. *)
Gone(s) ==
    /\ req[s].pc \in {"drop", "delete", "restore"} => rows[req[s].doc] = None
    /\ req[s].pc = "unregister" => rows[req[s].doc] = req[s].owner
    /\ req[s].kind = "update" /\ req[s].owner = None =>
         (req[s].pc \in {"exists", "store"} => rows[req[s].doc] = None)
    /\ req[s].kind = "delete" /\ req[s].owner # None => docs[req[s].doc] # None

(* The post a request works on. *)
Lineage(s) ==
    /\ req[s].owner # None => post[req[s].doc] # None
    /\ req[s].pc = "migrate" => post[req[s].new] = post[req[s].doc]
    /\ req[s].pc = "register" =>
         /\ post[req[s].new] = req[s].new
         /\ \A e \in Ids : rows[e] # None => post[e] # req[s].new
    /\ req[s].kind = "delete" /\ req[s].owner # None =>
         \A e \in Ids : rows[e] # None /\ e # req[s].doc => post[e] # post[req[s].doc]

Unminted ==
    \A d \in Ids : /\ d > minted => docs[d] = None /\ rows[d] = None /\ post[d] = None
                   /\ post[d] # None => post[d] <= minted
                   /\ rows[d] # None => post[d] # None

(* Without a failed call, somebody is about to register, or to remove, each
   document of a post that has no row and is no stray. *)
Cared(d) ==
    \E s \in Active :
        \/ req[s].new = d /\ req[s].pc \in {"register", "migrate", "undo"}
        \/ req[s].doc = d /\ req[s].pc \in {"drop", "delete", "restore"}

Registered ==
    faults = 0 => \A d \in Ids \ strays :
        docs[d] # None /\ post[d] # None /\ rows[d] = None => Cared(d)

RegistryInv ==
    /\ TypeOK /\ HasRoom /\ Solo
    /\ \A s \in Active : Placed(s) /\ Own(s) /\ Gone(s) /\ Lineage(s)
    /\ Unminted /\ RowsNameDocuments /\ OneRowPerPost /\ Registered

-----------------------------------------------------------------------------
(* The effects of a step on the requests *)

ReqType == req \in [Requests -> Request \cup {Idle}]

Others(s) == \A r \in Requests \ {s} : req'[r] = req[r]

(* Request s goes on: what was asked stays. *)
Moves(s) ==
    /\ ReqType' /\ Active' = Active /\ Others(s)
    /\ req'[s] \in Request
    /\ req'[s].kind = req[s].kind /\ req'[s].doc = req[s].doc
    /\ req'[s].blog = req[s].blog /\ req'[s].force = req[s].force
    /\ req'[s].text = req[s].text /\ req'[s].user = req[s].user

Leaves(s) == ReqType' /\ Active' = Active \ {s} /\ Others(s)

(* A record of a request is not Idle. *)
LEMMA NotIdle == Idle \notin Request
<1>. SUFFICES ASSUME Idle \in Request
              PROVE  FALSE
  OBVIOUS
<1>1. Idle.pc \in Pcs
  BY DEF Request
<1>2. Idle.pc = "idle"
  BY DEF Idle
<1>. QED
  BY <1>1, <1>2 DEF Pcs

(* A slot is active, holds a request record and is not idle: the same thing. *)
LEMMA ActiveRequest ==
  ASSUME ReqType, NEW s \in Requests
  PROVE  /\ s \in Active <=> req[s] \in Request
         /\ s \in Active <=> req[s] # Idle
         /\ s \in Active <=> req[s].pc # "idle"
<1>1. s \in Active <=> req[s] # Idle
  BY DEF Active
<1>2. s \in Active <=> req[s] \in Request
  BY <1>1, NotIdle DEF ReqType
<1>3. req[s] \in Request => req[s].pc # "idle"
  BY DEF Request, Pcs
<1>4. req[s] = Idle => req[s].pc = "idle"
  BY DEF Idle
<1>. QED
  BY <1>1, <1>2, <1>3, <1>4

(* A step that replaces the record of an active request by another keeps the
   shape of the table and touches no other slot. *)
LEMMA Rewritten ==
  ASSUME ReqType, NEW s \in Active, NEW q \in Request,
         req' = [req EXCEPT ![s] = q]
  PROVE  ReqType' /\ Active' = Active /\ Others(s) /\ req'[s] = q
<1>1. s \in Requests /\ q # Idle
  BY NotIdle DEF Active
<1>2. ReqType' /\ Others(s) /\ req'[s] = q
  BY <1>1 DEF ReqType, Others
<1>. QED
  BY <1>1, <1>2 DEF Active, Others

(* Goto is such a step, and changes nothing but the place. *)
LEMMA GoesTo ==
  ASSUME ReqType, NEW s \in Active, NEW x \in Pcs, Goto(s, x)
  PROVE  /\ Moves(s)
         /\ req'[s].pc = x /\ req'[s].new = req[s].new /\ req'[s].owner = req[s].owner
<1>. DEFINE q == [req[s] EXCEPT !.pc = x]
<1>1. req[s] \in Request
  BY ActiveRequest DEF Active
<1>2. q \in Request /\ q.pc = x /\ q.new = req[s].new /\ q.owner = req[s].owner
      /\ q.kind = req[s].kind /\ q.doc = req[s].doc /\ q.blog = req[s].blog
      /\ q.force = req[s].force /\ q.text = req[s].text /\ q.user = req[s].user
  BY <1>1 DEF Request
<1>3. req' = [req EXCEPT ![s] = q]
  BY DEF Goto
<1>. QED
  BY <1>2, <1>3, Rewritten DEF Moves

(* A response frees the slot of its request and no other. *)
LEMMA Responds ==
  ASSUME ReqType, NEW s \in Active, req' = [req EXCEPT ![s] = Idle]
  PROVE  Leaves(s)
<1>1. s \in Requests
  BY DEF Active
<1>2. ReqType' /\ Others(s) /\ req'[s] = Idle
  BY <1>1 DEF ReqType, Others
<1>. QED
  BY <1>1, <1>2 DEF Active, Others, Leaves

(* A request under way holds what it stored, and nothing else, until it ends. *)
LEMMA SettledMoves ==
  ASSUME NEW s \in Active, Moves(s), req'[s].new = req[s].new, minted' = minted
  PROVE  Settled' = Settled
<1>1. Active' = Active /\ \A r \in Active : req'[r].new = req[r].new
  BY DEF Moves, Others, Active
<1>. QED
  BY <1>1 DEF Settled

(* What nobody holds stays so when a request ends. *)
LEMMA SettledLeaves ==
  ASSUME NEW s \in Active, Leaves(s), minted' = minted
  PROVE  /\ Settled \subseteq Settled' /\ Settled' \subseteq 1 .. minted
         /\ \A r \in Active \ {s} : req[r].new \notin Settled'
<1>1. Active' = Active \ {s} /\ \A r \in Active' : req'[r].new = req[r].new
  BY DEF Leaves, Others, Active
<1>. QED
  BY <1>1 DEF Settled

-----------------------------------------------------------------------------
(* Counting *)

(* A step that mints nothing leaves the waiting requests room. *)
LEMMA RoomKept ==
  ASSUME Minting' \subseteq Minting, minted' = minted, TypeOK, HasRoom
  PROVE  HasRoom'
<1>1. IsFiniteSet(Minting) /\ IsFiniteSet(Minting')
  BY RegistryAssumption, FS_Subset DEF Minting, Active
<1>2. Cardinality(Minting') <= Cardinality(Minting)
  BY <1>1, FS_Subset
<1>3. Cardinality(Minting') \in Nat /\ Cardinality(Minting) \in Nat
  BY <1>1, FS_CardinalityType
<1>. QED
  BY <1>2, <1>3, RegistryAssumption DEF HasRoom, TypeOK

(* A request that mints uses the id kept for it. *)
LEMMA RoomUsed ==
  ASSUME NEW s \in Minting, Minting' \subseteq Minting \ {s}, minted' = minted + 1,
         TypeOK, HasRoom
  PROVE  HasRoom' /\ minted + 1 \in Ids
<1>1. IsFiniteSet(Minting) /\ IsFiniteSet(Minting')
  BY RegistryAssumption, FS_Subset DEF Minting, Active
<1>2. Cardinality(Minting') <= Cardinality(Minting \ {s})
  BY <1>1, FS_Subset, FS_RemoveElement
<1>3. Cardinality(Minting \ {s}) = Cardinality(Minting) - 1
  BY <1>1, FS_RemoveElement
<1>4. Cardinality(Minting') \in Nat /\ Cardinality(Minting) \in Nat
  BY <1>1, FS_CardinalityType
<1>. QED
  BY <1>2, <1>3, <1>4, RegistryAssumption DEF HasRoom, TypeOK, Ids

(* A request is let in only when an id can be kept for it. *)
LEMMA RoomMade ==
  ASSUME NEW s, Minting' \subseteq Active \cup {s}, minted' = minted, TypeOK, Room
  PROVE  HasRoom'
<1>1. IsFiniteSet(Active) /\ IsFiniteSet(Active \cup {s})
  BY RegistryAssumption, FS_Subset, FS_AddElement DEF Active
<1>2. IsFiniteSet(Minting') /\ Cardinality(Minting') <= Cardinality(Active \cup {s})
  BY <1>1, FS_Subset
<1>3. Cardinality(Active \cup {s}) <= Cardinality(Active) + 1
  BY <1>1, FS_AddElement, FS_CardinalityType
<1>4. Cardinality(Minting') \in Nat /\ Cardinality(Active) \in Nat
      /\ Cardinality(Active \cup {s}) \in Nat
  BY <1>1, <1>2, FS_CardinalityType
<1>. QED
  BY <1>2, <1>3, <1>4, RegistryAssumption DEF HasRoom, TypeOK, Room

-----------------------------------------------------------------------------
(* Steps that leave the tables alone *)

Hands == {"register", "migrate", "undo"}
Ending == {"drop", "delete", "restore"}

(* A request ends. *)
LEMMA Leave ==
  ASSUME RegistryInv, NEW s \in Active, Leaves(s),
         UNCHANGED <<docs, rows, minted, post, strays>>,
         faults' \in 0 .. MaxFaults,
         \/ faults' # 0
         \/ faults' = faults /\ req[s].pc \notin Hands \cup Ending
  PROVE  RegistryInv'
<1>0. Settled \subseteq Settled'
  BY SettledLeaves
<1>1. \A r \in Active' : r \in Active /\ r # s /\ req'[r] = req[r]
  BY DEF Leaves, Others, Active
<1>2. TypeOK'
  BY DEF RegistryInv, TypeOK, Leaves, ReqType
<1>3. HasRoom'
  <2>1. Minting' \subseteq Minting
    BY <1>1 DEF Minting
  <2>. QED
    BY <2>1, RoomKept DEF RegistryInv
<1>4. Solo'
  BY <1>1 DEF RegistryInv, Solo
<1>5. ASSUME NEW r \in Active'
      PROVE  Placed(r)' /\ Own(r)' /\ Gone(r)' /\ Lineage(r)'
  <2>1. Placed(r) /\ Own(r) /\ Gone(r) /\ Lineage(r) /\ r \in Active /\ r # s
    BY <1>1 DEF RegistryInv
  <2>2. Placed(r)'
    BY <2>1, <1>0, <1>1 DEF Placed
  <2>3. Own(r)'
    BY <2>1, <1>1 DEF Own
  <2>4. Gone(r)'
    BY <2>1, <1>1 DEF Gone
  <2>5. Lineage(r)'
    BY <2>1, <1>1 DEF Lineage
  <2>. QED
    BY <2>2, <2>3, <2>4, <2>5
<1>6. Unminted' /\ RowsNameDocuments' /\ OneRowPerPost'
  BY DEF RegistryInv, Unminted, RowsNameDocuments, OneRowPerPost
<1>7. Registered'
  <2>. SUFFICES ASSUME faults' = 0, NEW d \in Ids \ strays',
                       docs[d] # None, post[d] # None, rows[d] = None
                PROVE  Cared(d)'
    BY DEF Registered
  <2>1. Cared(d)
    BY DEF RegistryInv, Registered
  <2>2. PICK r \in Active : \/ req[r].new = d /\ req[r].pc \in Hands
                            \/ req[r].doc = d /\ req[r].pc \in Ending
    BY <2>1 DEF Cared, Hands, Ending
  <2>3. r # s
    BY <2>2
  <2>4. r \in Active' /\ req'[r] = req[r]
    BY <2>3 DEF Leaves, Others, Active
  <2>. QED
    BY <2>2, <2>4 DEF Cared, Hands, Ending
<1>. QED
  BY <1>2, <1>3, <1>4, <1>5, <1>6, <1>7 DEF RegistryInv

(* A request goes on to its next call. *)
LEMMA Move ==
  ASSUME RegistryInv, NEW s \in Active, Moves(s), req'[s].new = req[s].new,
         UNCHANGED <<docs, rows, minted, post, strays>>,
         faults' \in 0 .. MaxFaults,
         Placed(s)', Gone(s)', Lineage(s)',
         req[s].new # None =>
            /\ req'[s].pc # "drop" => rows[req[s].new] = None
            /\ req'[s].pc \in {"register", "migrate"} => docs[req[s].new] # None,
         \/ faults' # 0
         \/ /\ faults' = faults
            /\ req[s].pc \in Hands => req'[s].pc \in Hands
            /\ req[s].pc \in Ending => req'[s].pc \in Ending
  PROVE  RegistryInv'
<1>0. Settled' = Settled
  BY SettledMoves
<1>1. /\ Active' = Active
      /\ \A r \in Active : r # s => req'[r] = req[r]
      /\ \A r \in Active : req'[r].new = req[r].new /\ req'[r].kind = req[r].kind
                           /\ req'[r].doc = req[r].doc
  BY DEF Moves, Others, Active
<1>2. TypeOK'
  BY DEF RegistryInv, TypeOK, Moves, ReqType
<1>3. HasRoom'
  <2>1. Minting' \subseteq Minting
    BY <1>1 DEF Minting
  <2>. QED
    BY <2>1, RoomKept DEF RegistryInv
<1>4. Solo'
  BY <1>1 DEF RegistryInv, Solo
<1>5. ASSUME NEW r \in Active'
      PROVE  Placed(r)' /\ Own(r)' /\ Gone(r)' /\ Lineage(r)'
  <2>1. Placed(r) /\ Own(r) /\ Gone(r) /\ Lineage(r) /\ r \in Active
    BY <1>1 DEF RegistryInv
  <2>2. Placed(r)'
    BY <2>1, <1>0, <1>1 DEF Placed
  <2>3. Own(r)'
    BY <2>1, <1>1 DEF Own
  <2>4. Gone(r)'
    BY <2>1, <1>1 DEF Gone
  <2>5. Lineage(r)'
    BY <2>1, <1>1 DEF Lineage
  <2>. QED
    BY <2>2, <2>3, <2>4, <2>5
<1>6. Unminted' /\ RowsNameDocuments' /\ OneRowPerPost'
  BY DEF RegistryInv, Unminted, RowsNameDocuments, OneRowPerPost
<1>7. Registered'
  <2>. SUFFICES ASSUME faults' = 0, NEW d \in Ids \ strays',
                       docs[d] # None, post[d] # None, rows[d] = None
                PROVE  Cared(d)'
    BY DEF Registered
  <2>1. Cared(d)
    BY DEF RegistryInv, Registered
  <2>2. PICK r \in Active : \/ req[r].new = d /\ req[r].pc \in Hands
                            \/ req[r].doc = d /\ req[r].pc \in Ending
    BY <2>1 DEF Cared, Hands, Ending
  <2>3. \/ req'[r].new = d /\ req'[r].pc \in Hands
        \/ req'[r].doc = d /\ req'[r].pc \in Ending
    BY <1>1, <2>2
  <2>. QED
    BY <1>1, <2>2, <2>3 DEF Cared, Hands, Ending
<1>. QED
  BY <1>2, <1>3, <1>4, <1>5, <1>6, <1>7 DEF RegistryInv

(* Creates and deletes come on their own. *)
LEMMA ByItself ==
  ASSUME RegistryInv, NEW s \in Active, req[s].kind \in {"create", "delete"}
  PROVE  Active = {s}
BY DEF RegistryInv, Solo

(* What RegistryInv says of one request. *)
LEMMA AtRequest ==
  ASSUME RegistryInv, NEW s \in Active
  PROVE  /\ TypeOK /\ ReqType /\ s \in Requests /\ req[s] \in Request
         /\ Placed(s) /\ Own(s) /\ Gone(s) /\ Lineage(s)
         /\ Settled \subseteq 1 .. minted /\ 1 .. minted \subseteq Ids
         /\ faults \in 0 .. MaxFaults
<1>1. TypeOK /\ ReqType /\ s \in Requests
  BY DEF RegistryInv, TypeOK, ReqType, Active
<1>2. 1 .. minted \subseteq Ids
  BY <1>1, RegistryAssumption DEF TypeOK, Ids
<1>3. Settled \subseteq 1 .. minted
  BY DEF Settled
<1>. QED
  BY <1>1, <1>2, <1>3, ActiveRequest DEF RegistryInv, TypeOK

(* A request that has nothing in its hands is answered with nothing. *)
LEMMA LeaveEmpty ==
  ASSUME RegistryInv, NEW s \in Active, Respond(s), UNCHANGED <<docs, rows, minted, post, strays>>,
         faults' \in 0 .. MaxFaults,
         \/ faults' # 0
         \/ faults' = faults /\ req[s].pc \notin Hands \cup Ending
  PROVE  RegistryInv'
<1>1. Leaves(s)
  BY AtRequest, Responds DEF Respond
<1>. QED
  BY <1>1, AtRequest, Leave

(* Reading the old document changes no table; the handler goes on or answers. *)
LEMMA GetOldStep ==
  ASSUME RegistryInv, NEW s \in Active, GetOld(s)
  PROVE  RegistryInv'
<1>1. CASE Respond(s)
  BY <1>1, AtRequest, LeaveEmpty DEF GetOld, Hands, Ending
<1>2. CASE Goto(s, "owner")
  <2>1. /\ Moves(s) /\ req'[s].pc = "owner"
        /\ req'[s].new = req[s].new /\ req'[s].owner = req[s].owner
    BY <1>2, AtRequest, GoesTo DEF Pcs
  <2>2. req[s].pc = "get" /\ Placed(s) /\ Gone(s) /\ Lineage(s) /\ req[s].kind \in Kinds
    BY AtRequest DEF GetOld, Request
  <2>3. req[s].kind = "update" /\ req[s].owner = None /\ req[s].new = None
    BY <2>2 DEF Placed, Kinds
  <2>0. Settled' = Settled
    BY <2>1, SettledMoves DEF GetOld
  <2>4. Placed(s)' /\ Gone(s)' /\ Lineage(s)'
    BY <1>2, <2>0, <2>1, <2>2, <2>3 DEF Placed, Gone, Lineage, Moves, GetOld
  <2>. QED
    BY <1>2, <2>1, <2>2, <2>3, <2>4, AtRequest, Move DEF GetOld, Hands, Ending
<1>. QED
  BY <1>1, <1>2 DEF GetOld

(* A read of the owner row copies it: while the row stays there the copy is
   true, and that is all the later steps need. *)
LEMMA ReadOwnerStep ==
  ASSUME RegistryInv, NEW s \in Active, ReadOwner(s)
  PROVE  RegistryInv'
<1>. DEFINE row == rows[req[s].doc]
            x == IF req[s].kind = "update" THEN "exists" ELSE "unregister"
            q == [req[s] EXCEPT !.owner = row, !.pc = x]
<1>1. /\ TypeOK /\ ReqType /\ req[s] \in Request /\ Placed(s) /\ Gone(s) /\ Lineage(s)
      /\ req[s].pc = "owner" /\ Settled \subseteq Ids /\ faults \in 0 .. MaxFaults
  BY AtRequest DEF ReadOwner
<1>2. CASE Respond(s)
  BY <1>1, <1>2, LeaveEmpty DEF ReadOwner, Hands, Ending
<1>3. CASE req' = [req EXCEPT ![s].owner = row, ![s].pc = x]
  <2>1. req[s].kind \in {"update", "delete"} /\ req[s].doc \in Ids /\ req[s].new = None
    BY <1>1 DEF Placed, Request, Kinds
  <2>2. row \in Rows \cup {None}
    BY <1>1, <2>1 DEF TypeOK
  <2>. HIDE DEF row
  <2>3. q \in Request /\ q.pc = x /\ q.owner = row /\ q.new = req[s].new
        /\ q.kind = req[s].kind /\ q.doc = req[s].doc /\ q.blog = req[s].blog
        /\ q.force = req[s].force /\ q.text = req[s].text /\ q.user = req[s].user
    BY <1>1, <2>2 DEF Request, Pcs
  <2>4. req' = [req EXCEPT ![s] = q]
    BY <1>1, <1>3 DEF ReqType, Active
  <2>5. Moves(s) /\ req'[s] = q
    BY <1>1, <2>3, <2>4, Rewritten DEF Moves
  <2>10. x = IF req[s].kind = "update" THEN "exists" ELSE "unregister"
    OBVIOUS
  <2>11. Settled' = Settled
    BY <2>1, <2>3, <2>5, SettledMoves DEF ReadOwner
  <2>. HIDE DEF q, x
  <2>6. Placed(s)'
    BY <1>1, <1>3, <2>1, <2>3, <2>5, <2>10, <2>11 DEF Placed
  <2>. USE DEF row, q, x
  <2>7. UNCHANGED <<docs, rows, minted, post, strays, faults>>
    BY <1>3 DEF ReadOwner
  <2>8. Gone(s)'
    <3>1. row # None => docs[req[s].doc] # None
      BY <2>1 DEF RegistryInv, RowsNameDocuments
    <3>. QED
      BY <2>1, <2>3, <2>5, <2>7, <3>1 DEF Gone
  <2>9. Lineage(s)'
    <3>1. row # None => post[req[s].doc] # None
      BY <2>1 DEF RegistryInv, Unminted
    <3>2. row # None => \A e \in Ids : rows[e] # None /\ e # req[s].doc
                                          => post[e] # post[req[s].doc]
      BY <2>1 DEF RegistryInv, OneRowPerPost
    <3>. QED
      BY <2>1, <2>3, <2>5, <2>7, <3>1, <3>2 DEF Lineage
  <2>. QED
    BY <1>1, <2>1, <2>3, <2>5, <2>6, <2>7, <2>8, <2>9, Move DEF Hands, Ending
<1>. QED
  BY <1>2, <1>3 DEF ReadOwner

(* The duplicate lookup outside the transaction keeps only a flag. *)
LEMMA CheckExistsStep ==
  ASSUME RegistryInv, NEW s \in Active, CheckExists(s)
  PROVE  RegistryInv'
<1>. DEFINE existed == Holding(req[s].text) # {}
            q == [req[s] EXCEPT !.existed = existed, !.pc = "store"]
<1>1. /\ TypeOK /\ ReqType /\ req[s] \in Request /\ Placed(s) /\ Gone(s) /\ Lineage(s)
      /\ req[s].pc = "exists" /\ faults \in 0 .. MaxFaults
  BY AtRequest DEF CheckExists
<1>2. CASE Respond(s)
  BY <1>1, <1>2, LeaveEmpty DEF CheckExists, Hands, Ending
<1>3. CASE req' = [req EXCEPT ![s].existed = existed, ![s].pc = "store"]
  <2>1. req[s].kind \in {"create", "update"} /\ req[s].new = None
    BY <1>1 DEF Placed, Request, Kinds
  <2>2. existed \in BOOLEAN
    OBVIOUS
  <2>. HIDE DEF existed
  <2>3. q \in Request /\ q.pc = "store" /\ q.owner = req[s].owner /\ q.new = req[s].new
        /\ q.kind = req[s].kind /\ q.doc = req[s].doc /\ q.blog = req[s].blog
        /\ q.force = req[s].force /\ q.text = req[s].text /\ q.user = req[s].user
    BY <1>1, <2>2 DEF Request, Pcs
  <2>4. req' = [req EXCEPT ![s] = q]
    BY <1>3
  <2>5. Moves(s) /\ req'[s] = q
    BY <1>1, <2>3, <2>4, Rewritten DEF Moves
  <2>6. UNCHANGED <<docs, rows, minted, post, strays, faults>>
    BY <1>3 DEF CheckExists
  <2>8. Settled' = Settled
    BY <2>1, <2>3, <2>5, <2>6, SettledMoves
  <2>7. Placed(s)' /\ Gone(s)' /\ Lineage(s)'
    BY <1>1, <2>1, <2>3, <2>5, <2>6, <2>8 DEF Placed, Gone, Lineage
  <2>. QED
    BY <1>1, <2>1, <2>3, <2>5, <2>6, <2>7, Move DEF Hands, Ending
<1>. QED
  BY <1>2, <1>3 DEF CheckExists

-----------------------------------------------------------------------------
(* Steps that write the tables *)

(* What a step keeps of the requests it is not a step of. *)
LEMMA OthersKept ==
  ASSUME RegistryInv, NEW s \in Active, Others(s), Active' \subseteq Active,
         NEW r \in Active' \ {s}, Settled \subseteq Settled', minted <= minted',
         minted' \in Nat,
         s \in Active' => (req'[s].new = None \/ req'[s].new # req[r].new),
         req[r].new # None => /\ rows'[req[r].new] = rows[req[r].new]
                              /\ docs'[req[r].new] = docs[req[r].new],
         Gone(r)', Lineage(r)'
  PROVE  Placed(r)' /\ Own(r)' /\ Gone(r)' /\ Lineage(r)'
<1>1. r \in Active /\ req'[r] = req[r] /\ Placed(r) /\ Own(r)
  BY DEF RegistryInv, Others, Active
<1>2. Placed(r)'
  BY <1>1 DEF Placed
<1>3. ASSUME req[r].new # None
      PROVE  /\ req[r].new \in 1 .. minted'
             /\ \A t \in Active' \ {r} : req'[t].new # req[r].new
  <2>1. req[r].new \in 1 .. minted /\ \A t \in Active \ {r} : req[t].new # req[r].new
    BY <1>1, <1>3 DEF Own
  <2>2. \A t \in Active' \ {r, s} : req'[t] = req[t]
    BY DEF Others, Active
  <2>3. minted \in Nat
    BY RegistryAssumption DEF RegistryInv, TypeOK
  <2>. QED
    BY <1>3, <2>1, <2>2, <2>3
<1>4. Own(r)'
  BY <1>1, <1>3 DEF Own
<1>. QED
  BY <1>2, <1>4

(* The transaction of a new document. *)
LEMMA StoreNewStep ==
  ASSUME RegistryInv, NEW s \in Active, StoreNew(s)
  PROVE  RegistryInv'
<1>. DEFINE d == minted + 1
            x == IF req[s].kind = "create" THEN "register"
                 ELSE IF req[s].owner # None THEN "migrate" ELSE "drop"
            q == [req[s] EXCEPT !.new = d, !.pc = x]
            p == PostOf(s, d)
<1>1. /\ TypeOK /\ ReqType /\ s \in Requests /\ req[s] \in Request
      /\ Placed(s) /\ Own(s) /\ Gone(s) /\ Lineage(s)
      /\ req[s].pc = "store" /\ faults \in 0 .. MaxFaults /\ faults' = faults
      /\ Settled \subseteq 1 .. minted /\ 1 .. minted \subseteq Ids /\ minted \in Nat
      /\ rows' = rows
  BY AtRequest, RegistryAssumption DEF StoreNew, TypeOK
<1>2. req[s].kind \in {"create", "update"} /\ req[s].new = None
  BY <1>1 DEF Placed, Request, Kinds
<1>3. CASE Respond(s) /\ UNCHANGED <<docs, minted, post, strays>>
  BY <1>1, <1>3, LeaveEmpty DEF StoreNew, Hands, Ending
<1>4. CASE /\ minted' = d
           /\ docs' = [docs EXCEPT ![d] = req[s].text]
           /\ post' = [post EXCEPT ![d] = p]
           /\ strays' = strays \cup Strays(s, d)
           /\ Stored(s, d)
           /\ Holding(req[s].text) = {}
  <2>1. s \in Minting /\ req[s].text \in Texts \cup {None}
    BY <1>1, <1>2 DEF Minting, Request
  <2>2. d \in Ids /\ d \notin 1 .. minted /\ None \notin Ids
    <3>1. Cardinality(Minting) \in Nat \ {0}
      <4>1. IsFiniteSet(Minting)
        BY RegistryAssumption, FS_Subset DEF Minting, Active
      <4>. QED
        BY <2>1, <4>1, FS_EmptySet, FS_CardinalityType
    <3>. QED
      BY <1>1, <3>1, RegistryAssumption DEF RegistryInv, HasRoom, Ids
  <2>3. docs[d] = None /\ rows[d] = None /\ post[d] = None
    BY <1>1, <2>2 DEF RegistryInv, Unminted
  <2>0. d = minted + 1 /\ x = IF req[s].kind = "create" THEN "register"
                              ELSE IF req[s].owner # None THEN "migrate" ELSE "drop"
    OBVIOUS
  <2>4. /\ req[s].kind = "create" => p = IF req[s].blog THEN d ELSE None
        /\ req[s].kind = "update" => p = post[req[s].doc]
    BY <1>1 DEF PostOf, Placed
  <2>10. /\ strays' \subseteq Ids /\ strays \subseteq strays'
         /\ d \notin strays' => ~(req[s].kind = "update" /\ req[s].owner = None /\ p # None)
    BY <1>1, <1>4, <2>2, <2>4 DEF Strays, TypeOK
  <2>5. /\ p \in Ids \cup {None} /\ (p # None => p \in 1 .. minted')
        /\ req[s].kind = "update" => req[s].doc \in 1 .. minted
    <3>1. req[s].kind = "update" => req[s].doc \in 1 .. minted
      BY <1>1 DEF Placed
    <3>2. req[s].kind = "update" => post[req[s].doc] \in (1 .. minted) \cup {None}
      BY <1>1, <3>1, <2>2 DEF RegistryInv, Unminted, TypeOK, Ids
    <3>. QED
      BY <1>1, <1>2, <1>4, <2>2, <2>4, <3>1, <3>2
  <2>. HIDE DEF p
  <2>6. /\ \A e \in Ids : docs'[e] = IF e = d THEN req[s].text ELSE docs[e]
        /\ \A e \in Ids : post'[e] = IF e = d THEN p ELSE post[e]
        /\ docs' \in [Ids -> Texts \cup {None}]
        /\ post' \in [Ids -> Ids \cup {None}]
    BY <1>1, <1>4, <2>1, <2>2, <2>5 DEF TypeOK
  <2>. HIDE DEF d
  <2>7. \A e \in 1 .. minted : e \in Ids /\ e # d /\ docs'[e] = docs[e] /\ post'[e] = post[e]
    BY <1>1, <2>0, <2>2, <2>6
  <2>8. CASE Leaves(s) /\ req[s].kind = "create" /\ ~req[s].blog
    <3>1. Active = {s} /\ Active' = {} /\ p = None
      BY <2>8, <2>4, ByItself DEF Leaves
    <3>2. TypeOK'
      <4>1. minted' \in 0 .. MaxId
        BY <1>1, <1>4, <2>0, <2>2, <2>8, RegistryAssumption DEF Ids
      <4>. QED
        BY <1>1, <2>6, <2>8, <2>10, <4>1 DEF TypeOK, Leaves, ReqType
    <3>3. HasRoom'
      <4>1. Minting' \subseteq Minting \ {s}
        BY <3>1 DEF Minting
      <4>. QED
        BY <1>1, <1>4, <2>0, <2>1, <4>1, RoomUsed DEF RegistryInv
    <3>4. Unminted' /\ RowsNameDocuments' /\ OneRowPerPost'
      BY <1>1, <1>4, <2>0, <2>2, <2>3, <2>6, <3>1
         DEF RegistryInv, Unminted, RowsNameDocuments, OneRowPerPost, Ids
    <3>5. Registered'
      <4>. SUFFICES ASSUME faults' = 0, NEW e \in Ids \ strays',
                           docs'[e] # None, post'[e] # None, rows'[e] = None
                    PROVE  FALSE
        BY DEF Registered
      <4>1. e \notin strays /\ e # d /\ docs[e] # None /\ post[e] # None /\ rows[e] = None
        BY <1>1, <2>6, <2>10, <3>1
      <4>2. Cared(e)
        BY <1>1, <4>1 DEF RegistryInv, Registered
      <4>. QED
        BY <1>1, <3>1, <4>2 DEF Cared
    <3>. QED
      BY <3>1, <3>2, <3>3, <3>4, <3>5 DEF RegistryInv, Solo
  <2>9. CASE /\ req' = [req EXCEPT ![s].new = d, ![s].pc = x]
             /\ ~(req[s].kind = "create" /\ ~req[s].blog)
    <3>1. q \in Request /\ q.pc = x /\ q.owner = req[s].owner /\ q.new = d
          /\ q.kind = req[s].kind /\ q.doc = req[s].doc /\ q.blog = req[s].blog
          /\ q.force = req[s].force /\ q.text = req[s].text /\ q.user = req[s].user
      BY <1>1, <2>2 DEF Request, Pcs
    <3>2. req' = [req EXCEPT ![s] = q]
      BY <2>9
    <3>3. Moves(s) /\ req'[s] = q
      BY <1>1, <3>1, <3>2, Rewritten, ZenonT(40) DEF Moves
    <3>. HIDE DEF q, x
    <3>4. Active' = Active /\ \A r \in Active \ {s} : req'[r] = req[r]
      BY <3>3 DEF Moves, Others, Active
    <3>5. TypeOK'
      BY <1>1, <1>4, <2>0, <2>2, <2>6, <2>9, <2>10, <3>3 DEF TypeOK, Moves, ReqType, Ids
    <3>0. Settled' = Settled
      <4>1. {req'[r].new : r \in Active'} = {req[r].new : r \in Active \ {s}} \cup {d}
        BY <3>1, <3>3, <3>4
      <4>2. minted \in Nat /\ 1 .. minted' = (1 .. minted) \cup {d}
        BY <1>1, <1>4, <2>0
      <4>3. {req[r].new : r \in Active} = {req[r].new : r \in Active \ {s}} \cup {None}
        BY <1>2
      <4>4. None \notin 1 .. minted
        BY <1>1, <2>2
      <4>. QED
        BY <2>2, <4>1, <4>2, <4>3, <4>4 DEF Settled
    <3>6. HasRoom'
      <4>1. Minting' \subseteq Minting \ {s}
        BY <2>2, <3>1, <3>3, <3>4 DEF Minting
      <4>. QED
        BY <1>1, <1>4, <2>0, <2>1, <4>1, RoomUsed DEF RegistryInv
    <3>7. Solo'
      BY <3>1, <3>3, <3>4 DEF RegistryInv, Solo
    <3>8. Unminted' /\ RowsNameDocuments' /\ OneRowPerPost'
      BY <1>1, <1>4, <2>0, <2>2, <2>3, <2>5, <2>6
         DEF RegistryInv, Unminted, RowsNameDocuments, OneRowPerPost, Ids
    <3>9. Placed(s)'
      BY <1>1, <1>2, <2>0, <2>2, <2>9, <3>0, <3>1, <3>3 DEF Placed
    <3>10. Own(s)'
      <4>1. \A r \in Active \ {s} : req[r].new # d
        BY <1>1, <2>2, AtRequest DEF Own
      <4>2. docs'[d] # None
        BY <1>1, <1>2, <2>1, <2>2, <2>6 DEF Placed
      <4>. QED
        <5>1. req'[s].new = d /\ d \in 1 .. minted' /\ rows'[d] = None
          BY <1>1, <1>4, <2>0, <2>2, <2>3, <2>9, <3>1, <3>3
        <5>2. \A r \in Active' \ {s} : req'[r].new # d
          BY <3>4, <4>1
        <5>. QED
          BY <4>2, <5>1, <5>2 DEF Own
    <3>11. Gone(s)'
      BY <1>1, <1>2, <2>0, <3>1, <3>3 DEF Gone
    <3>12. Lineage(s)'
      <4>1. \A e \in Ids : rows[e] # None => post'[e] # d
        <5>1. \A e \in Ids : rows[e] # None => e # d /\ post[e] # None /\ post[e] <= minted
          BY <2>3 DEF RegistryInv, Unminted
        <5>. QED
          BY <1>1, <2>0, <2>6, <5>1
      <4>2. CASE req[s].kind = "create"
        <5>1. /\ req'[s].owner = None /\ req'[s].pc = "register" /\ req'[s].kind = "create"
              /\ req'[s].new = d /\ post'[d] = d
          BY <1>1, <2>0, <2>2, <2>4, <2>6, <2>9, <3>1, <3>3, <4>2 DEF Placed
        <5>. QED
          BY <1>1, <4>1, <5>1 DEF Lineage
      <4>3. CASE req[s].kind = "update"
        <5>1. /\ req'[s].owner = req[s].owner /\ req'[s].pc # "register"
              /\ req'[s].kind = "update" /\ req'[s].new = d /\ req'[s].doc = req[s].doc
              /\ req'[s].pc = "migrate" => req[s].owner # None
          BY <2>0, <3>1, <3>3, <4>3
        <5>2. post'[req[s].doc] = post[req[s].doc]
          BY <2>5, <2>7, <4>3
        <5>3. req[s].owner # None => post'[d] = post[req[s].doc]
          BY <2>2, <2>4, <2>6, <4>3
        <5>. QED
          BY <1>1, <5>1, <5>2, <5>3 DEF Lineage
      <4>. QED
        BY <1>2, <4>2, <4>3
    <3>13. ASSUME NEW r \in Active' \ {s}
           PROVE  Placed(r)' /\ Own(r)' /\ Gone(r)' /\ Lineage(r)'
      <4>1. r \in Active /\ req'[r] = req[r] /\ req[r] \in Request
            /\ Placed(r) /\ Own(r) /\ Gone(r) /\ Lineage(r)
        BY <3>4, AtRequest
      <4>2. req[r].kind # "create" => req[r].doc \in 1 .. minted
        BY <1>1, <4>1 DEF Placed
      <4>3. req[r].kind # "create"
        BY <3>4 DEF RegistryInv, Solo
      <4>4. Gone(r)'
        BY <1>1, <2>7, <4>1, <4>2, <4>3 DEF Gone
      <4>5. Lineage(r)'
        <5>1. req[r].new # None => req[r].new \in 1 .. minted
          BY <4>1 DEF Own
        <5>2. \A e \in Ids : rows[e] # None => post'[e] = post[e]
          BY <2>3, <2>6
        <5>3. req[r].pc \in {"register", "migrate"} => req[r].new # None
          BY <4>1 DEF Placed
        <5>. QED
          BY <1>1, <2>7, <4>1, <4>2, <4>3, <5>1, <5>2, <5>3 DEF Lineage
      <4>6. req[r].new # None => req[r].new \in 1 .. minted
        BY <4>1 DEF Own
      <4>7. minted <= minted' /\ minted' \in Nat /\ Settled' = Settled
        BY <1>1, <1>4, <2>0, <3>0
      <4>8. req'[s].new # req[r].new
        <5>1. req'[s].new = d
          BY <3>1, <3>3
        <5>2. d # None
          BY <2>2
        <5>. QED
          BY <2>2, <4>6, <5>1, <5>2
      <4>9. req[r].new # None => /\ rows'[req[r].new] = rows[req[r].new]
                                 /\ docs'[req[r].new] = docs[req[r].new]
        BY <1>1, <2>7, <4>6
      <4>10. Others(s) /\ Active' \subseteq Active
        BY <3>3, <3>4 DEF Moves
      <4>. QED
        BY <4>4, <4>5, <4>7, <4>8, <4>9, <4>10, OthersKept
    <3>14. Registered'
      <4>. SUFFICES ASSUME faults' = 0, NEW e \in Ids \ strays',
                           docs'[e] # None, post'[e] # None, rows'[e] = None
                    PROVE  Cared(e)'
        BY DEF Registered
      <4>1. CASE e = d
        <5>1. x \in {"register", "migrate"}
          BY <1>2, <2>0, <2>4, <2>6, <2>9, <2>10, <4>1
        <5>. QED
          BY <3>1, <3>3, <3>4, <4>1, <5>1 DEF Cared
      <4>2. CASE e # d
        <5>1. Cared(e)
          BY <1>1, <2>6, <2>10, <4>2 DEF RegistryInv, Registered
        <5>. QED
          BY <1>1, <3>4, <5>1 DEF Cared
      <4>. QED
        BY <4>1, <4>2
    <3>. QED
      BY <3>4, <3>5, <3>6, <3>7, <3>8, <3>9, <3>10, <3>11, <3>12, <3>13, <3>14
         DEF RegistryInv
  <2>. QED
    BY <1>1, <1>4, <2>8, <2>9, Responds DEF Stored, Respond
<1>. QED
  BY <1>1, <1>3, <1>4 DEF StoreNew

(* `force` is for a document that is no post: it keeps its id. *)
LEMMA StoreForcedStep ==
  ASSUME RegistryInv, NEW s \in Active, StoreForced(s)
  PROVE  RegistryInv'
<1>1. /\ TypeOK /\ ReqType /\ s \in Requests /\ req[s] \in Request /\ Placed(s)
      /\ req[s].pc = "store" /\ req[s].force /\ faults \in 0 .. MaxFaults
      /\ Settled \subseteq 1 .. minted /\ UNCHANGED <<docs, rows, minted, strays, faults>>
  BY AtRequest DEF StoreForced
<1>2. req[s].kind = "create" /\ ~req[s].blog /\ req[s].owner = None /\ Active = {s}
  <2>1. req[s].kind = "create" /\ ~req[s].blog /\ req[s].owner = None
    BY <1>1 DEF Placed, Request, Kinds
  <2>. QED
    BY <2>1, ByItself
<1>3. CASE Respond(s) /\ UNCHANGED post
  BY <1>1, <1>3, LeaveEmpty DEF Hands, Ending
<1>4. ASSUME NEW d \in Holding(req[s].text), Stored(s, d),
             post' = [post EXCEPT ![d] = IF @ = None THEN PostOf(s, d) ELSE @]
      PROVE  RegistryInv'
  <2>1. d \in Ids /\ docs[d] # None
    BY <1>1, <1>2 DEF Holding, Placed
  <2>2. d \in 1 .. minted
    BY <1>1, <2>1, RegistryAssumption DEF RegistryInv, Unminted, TypeOK, Ids
  <2>3. post' = post
    BY <1>1, <1>2, <1>4, <2>1 DEF PostOf, TypeOK
  <2>4. Leaves(s)
    BY <1>1, <1>2, <1>4, Responds DEF Stored, Respond
  <2>. QED
    BY <1>1, <1>2, <2>2, <2>3, <2>4, Leave DEF Hands, Ending
<1>. QED
  BY <1>3, <1>4 DEF StoreForced

(* The last step of a request that is on its own. *)
LEMMA LastStep ==
  ASSUME RegistryInv, NEW s \in Active, Leaves(s), Active = {s},
         rows' \in [Ids -> Rows \cup {None}], docs' \in [Ids -> Texts \cup {None}],
         minted' = minted, post' = post, strays' = strays, faults' = faults,
         \A d \in Ids : d > minted => docs'[d] = None,
         \A d \in Ids : rows'[d] # None => docs'[d] # None /\ post[d] # None,
         OneRowPerPost',
         \A d \in Ids : docs'[d] # None /\ post[d] # None /\ rows'[d] = None
                           => docs[d] # None /\ rows[d] = None /\ ~Cared(d)
  PROVE  RegistryInv'
<1>1. Active' = {}
  BY DEF Leaves
<1>2. TypeOK'
  BY DEF RegistryInv, TypeOK, Leaves, ReqType
<1>3. HasRoom'
  <2>1. Minting' \subseteq Minting
    BY <1>1 DEF Minting
  <2>. QED
    BY <2>1, RoomKept DEF RegistryInv
<1>4. Unminted' /\ RowsNameDocuments'
  BY DEF RegistryInv, Unminted, RowsNameDocuments
<1>5. Registered'
  BY DEF RegistryInv, Registered
<1>. QED
  BY <1>1, <1>2, <1>3, <1>4, <1>5 DEF RegistryInv, Solo

(* The row of a new post. *)
LEMMA RegisterStep ==
  ASSUME RegistryInv, NEW s \in Active, Register(s)
  PROVE  RegistryInv'
<1>. DEFINE d == req[s].new
            row == [author |-> req[s].user, published |-> FALSE]
<1>1. /\ TypeOK /\ ReqType /\ s \in Requests /\ req[s] \in Request
      /\ Placed(s) /\ Own(s) /\ Gone(s) /\ Lineage(s)
      /\ req[s].pc = "register"
      /\ Settled \subseteq 1 .. minted /\ 1 .. minted \subseteq Ids
      /\ UNCHANGED <<docs, minted, post, strays, faults>>
  BY AtRequest DEF Register
<1>2. req[s].kind = "create" /\ req[s].user \in Authors /\ Active = {s}
  <2>1. req[s].kind = "create" /\ req[s].user \in Authors
    BY <1>1 DEF Placed, Request, Kinds
  <2>. QED
    BY <2>1, ByItself
<1>3. d \in 1 .. minted /\ d \in Ids /\ rows[d] = None /\ docs[d] # None
  BY <1>1 DEF Own, Placed
<1>4. post[d] = d /\ d # None /\ \A e \in Ids : rows[e] # None => post[e] # d
  BY <1>1, <1>3, RegistryAssumption DEF Lineage
<1>5. row \in Rows /\ row # None
  <2>1. row \in Rows
    BY <1>2 DEF Rows
  <2>. HIDE DEF row
  <2>. QED
    BY <2>1, RegistryAssumption
<1>6. rows' = [rows EXCEPT ![d] = row] /\ Respond(s)
  BY <1>3 DEF Register
<1>. HIDE DEF row
<1>7. /\ rows' \in [Ids -> Rows \cup {None}]
      /\ \A e \in Ids : rows'[e] = IF e = d THEN row ELSE rows[e]
  BY <1>1, <1>3, <1>5, <1>6 DEF TypeOK
<1>8. Leaves(s)
  BY <1>1, <1>6, Responds DEF Respond
<1>9. OneRowPerPost'
  BY <1>1, <1>4, <1>7 DEF RegistryInv, OneRowPerPost
<1>10. \A e \in Ids : Cared(e) => e = d
  BY <1>1, <1>2 DEF Cared
<1>11. \A e \in Ids : rows'[e] # None => docs'[e] # None /\ post[e] # None
  BY <1>1, <1>3, <1>4, <1>7 DEF RegistryInv, RowsNameDocuments, Unminted
<1>12. \A e \in Ids : docs'[e] # None /\ post[e] # None /\ rows'[e] = None
                         => docs[e] # None /\ rows[e] = None /\ ~Cared(e)
  BY <1>1, <1>5, <1>7, <1>10
<1>13. /\ docs' \in [Ids -> Texts \cup {None}]
       /\ \A e \in Ids : e > minted => docs'[e] = None
  BY <1>1 DEF RegistryInv, Unminted, TypeOK
<1>. QED
  BY <1>1, <1>2, <1>3, <1>7, <1>8, <1>9, <1>11, <1>12, <1>13, LastStep

(* Where updates and publishes are under way, nothing else is. *)
LEMMA Beside ==
  ASSUME RegistryInv, NEW s \in Active, NEW r \in Active \ {s}
  PROVE  /\ req[r].kind \in {"update", "publish"}
         /\ req[s].kind \in {"update", "publish"}
         /\ req[r].doc \in Settled
         /\ req[r].pc \notin {"register", "unregister", "delete", "restore"}
<1>1. req[r].kind \in Kinds /\ req[s].kind \in Kinds /\ Placed(r)
  BY AtRequest DEF Request
<1>2. req[r].kind \in {"update", "publish"} /\ req[s].kind \in {"update", "publish"}
  BY <1>1 DEF RegistryInv, Solo, Kinds
<1>. QED
  BY <1>1, <1>2 DEF Placed

(* The requests beside a step that registers, or gives a row to, no document
   they hold or work on, and takes away none that they hold. *)
LEMMA BesideKept ==
  ASSUME RegistryInv, NEW s \in Active, Others(s), Active' \subseteq Active,
         minted' = minted, post' = post, Settled \subseteq Settled',
         s \in Active' => req'[s].new = req[s].new,
         NEW r \in Active' \ {s},
         \A d \in Settled : rows[d] = None => rows'[d] = None,
         req[r].new # None =>
            /\ rows[req[r].new] = None => rows'[req[r].new] = None
            /\ docs'[req[r].new] = docs[req[r].new]
  PROVE  Placed(r)' /\ Own(r)' /\ Gone(r)' /\ Lineage(r)'
<1>1. /\ r \in Active \ {s} /\ req'[r] = req[r]
      /\ Placed(r) /\ Own(r) /\ Gone(r) /\ Lineage(r)
  BY AtRequest DEF Others, Active
<1>2. /\ req[r].kind \in {"update", "publish"} /\ req[r].doc \in Settled
      /\ req[r].pc \notin {"register", "unregister", "delete", "restore"}
  BY <1>1, Beside
<1>3. Placed(r)'
  BY <1>1 DEF Placed
<1>4. Own(r)'
  <2>1. \A t \in Active' : req'[t].new = req[t].new
    BY DEF Others, Active
  <2>. QED
    BY <1>1, <2>1 DEF Own
<1>5. Gone(r)'
  BY <1>1, <1>2 DEF Gone
<1>6. Lineage(r)'
  BY <1>1, <1>2 DEF Lineage
<1>. QED
  BY <1>3, <1>4, <1>5, <1>6

(* The row moves to the replacement, if it is still there. *)
LEMMA MigrateStep ==
  ASSUME RegistryInv, NEW s \in Active, Migrate(s)
  PROVE  RegistryInv'
<1>. DEFINE old == req[s].doc
            new == req[s].new
<1>1. /\ TypeOK /\ ReqType /\ s \in Requests /\ req[s] \in Request
      /\ Placed(s) /\ Own(s) /\ Gone(s) /\ Lineage(s)
      /\ req[s].pc = "migrate" /\ faults \in 0 .. MaxFaults
      /\ Settled \subseteq 1 .. minted /\ 1 .. minted \subseteq Ids
      /\ UNCHANGED <<docs, minted, post, strays, faults>>
  BY AtRequest DEF Migrate
<1>2. req[s].kind = "update" /\ req[s].owner # None
  BY <1>1 DEF Placed, Request, Kinds
<1>3. /\ old \in Settled /\ old \in Ids
      /\ new \in (1 .. minted) \ Settled /\ new \in Ids /\ new # None
      /\ rows[new] = None /\ docs[new] # None
      /\ post[new] = post[old] /\ post[old] # None
  BY <1>1, <1>2 DEF Own, Placed, Lineage, Settled
<1>4. CASE Goto(s, "undo") /\ UNCHANGED rows
  <2>1. /\ Moves(s) /\ req'[s].pc = "undo"
        /\ req'[s].new = req[s].new /\ req'[s].owner = req[s].owner
    BY <1>1, <1>4, GoesTo DEF Pcs
  <2>3. Settled' = Settled
    BY <1>1, <2>1, SettledMoves
  <2>2. Placed(s)' /\ Gone(s)' /\ Lineage(s)'
    BY <1>1, <1>2, <1>4, <2>1, <2>3 DEF Placed, Gone, Lineage, Moves
  <2>. QED
    BY <1>1, <1>3, <1>4, <2>1, <2>2, Move DEF Hands, Ending
<1>5. CASE /\ rows[old] # None
           /\ rows' = [rows EXCEPT ![old] = None, ![new] = rows[old]]
           /\ Goto(s, "drop")
  <2>1. /\ Moves(s) /\ req'[s].pc = "drop"
        /\ req'[s].new = req[s].new /\ req'[s].owner = req[s].owner
    BY <1>1, <1>5, GoesTo DEF Pcs
  <2>2. /\ Active' = Active /\ \A r \in Active \ {s} : req'[r] = req[r]
        /\ \A r \in Active : req'[r].kind = req[r].kind /\ req'[r].new = req[r].new
      BY <2>1 DEF Moves, Others, Active
  <2>3. /\ rows' \in [Ids -> Rows \cup {None}] /\ old # new
        /\ \A e \in Ids : rows'[e] = IF e = new THEN rows[old]
                                     ELSE IF e = old THEN None ELSE rows[e]
    BY <1>1, <1>3, <1>5 DEF TypeOK
  <2>4. TypeOK'
    BY <1>1, <2>1, <2>3 DEF TypeOK, Moves, ReqType
  <2>5. HasRoom'
    <3>1. Minting' \subseteq Minting
      BY <2>2 DEF Minting
    <3>. QED
      BY <1>1, <3>1, RoomKept DEF RegistryInv
  <2>6. Solo'
    BY <2>2 DEF RegistryInv, Solo
  <2>13. Settled' = Settled
    BY <1>1, <2>1, SettledMoves
  <2>7. Placed(s)' /\ Gone(s)' /\ Lineage(s)'
    BY <1>1, <1>2, <1>3, <2>1, <2>3, <2>13 DEF Placed, Gone, Lineage, Moves
  <2>8. Own(s)'
    <3>1. \A r \in Active \ {s} : req[r].new # new
      BY <1>1, <1>3 DEF Own
    <3>. QED
      BY <1>1, <1>3, <2>1, <2>2, <3>1 DEF Own
  <2>9. ASSUME NEW r \in Active' \ {s}
        PROVE  Placed(r)' /\ Own(r)' /\ Gone(r)' /\ Lineage(r)'
    <3>1. r \in Active \ {s} /\ (req[r].new # None => req[r].new \in Ids \ {new})
      BY <1>1, <1>3, <2>2, AtRequest DEF Own
    <3>2. req[r].new # None /\ rows[req[r].new] = None => rows'[req[r].new] = None
      BY <2>3, <3>1
    <3>3. \A d \in Settled : rows[d] = None => rows'[d] = None
      BY <1>1, <1>3, <2>3
    <3>. QED
      BY <1>1, <2>1, <2>2, <2>13, <3>1, <3>2, <3>3, BesideKept DEF Moves
  <2>10. Unminted' /\ RowsNameDocuments'
    BY <1>1, <1>3, <2>3 DEF RegistryInv, Unminted, RowsNameDocuments
  <2>11. OneRowPerPost'
    BY <1>1, <1>3, <1>5, <2>3 DEF RegistryInv, OneRowPerPost
  <2>12. Registered'
    <3>. SUFFICES ASSUME faults' = 0, NEW e \in Ids \ strays',
                         docs'[e] # None, post'[e] # None, rows'[e] = None
                  PROVE  Cared(e)'
      BY DEF Registered
    <3>1. CASE e = old
      BY <2>1, <2>2, <3>1 DEF Cared, Moves
    <3>2. CASE e # old
      <4>1. e # new /\ rows[e] = None
        BY <1>5, <2>3, <3>2
      <4>2. Cared(e)
        BY <1>1, <4>1 DEF RegistryInv, Registered
      <4>. QED
        BY <1>1, <2>2, <4>1, <4>2 DEF Cared
    <3>. QED
      BY <3>1, <3>2
  <2>. QED
    BY <2>2, <2>4, <2>5, <2>6, <2>7, <2>8, <2>9, <2>10, <2>11, <2>12 DEF RegistryInv
<1>. QED
  BY <1>3, <1>4, <1>5 DEF Migrate

(* The last step of a request that removes documents without a row. *)
LEMMA LeaveRemoving ==
  ASSUME RegistryInv, NEW s \in Active, Leaves(s), NEW Lost \in SUBSET Ids,
         rows' \in [Ids -> Rows \cup {None}],
         \A d \in Ids : rows'[d] = None <=> rows[d] = None,
         docs' \in [Ids -> Texts \cup {None}],
         \A d \in Ids : docs'[d] = IF d \in Lost THEN None ELSE docs[d],
         \A d \in Lost : rows[d] = None,
         \A r \in Active \ {s} : req[r].new \notin Lost,
         minted' = minted, post' = post, strays' = strays, faults' = faults,
         req[s].pc \in Hands => req[s].new \in Lost,
         req[s].pc \in Ending => req[s].doc \in Lost
  PROVE  RegistryInv'
<1>1. Active' = Active \ {s} /\ Others(s) /\ \A r \in Active' : req'[r] = req[r]
  BY DEF Leaves, Others, Active
<1>2. TypeOK'
  BY DEF RegistryInv, TypeOK, Leaves, ReqType
<1>3. HasRoom'
  <2>1. Minting' \subseteq Minting
    BY <1>1 DEF Minting
  <2>. QED
    BY <2>1, RoomKept DEF RegistryInv
<1>4. Solo'
  BY <1>1 DEF RegistryInv, Solo
<1>5. ASSUME NEW r \in Active'
      PROVE  Placed(r)' /\ Own(r)' /\ Gone(r)' /\ Lineage(r)'
  <2>1. r \in Active' \ {s} /\ r \in Active \ {s}
    BY <1>1
  <2>2. req[r].new # None => req[r].new \in Ids
    BY <2>1, AtRequest DEF Own
  <2>3. Settled \subseteq Ids /\ Settled \subseteq Settled'
    BY AtRequest, SettledLeaves
  <2>. QED
    BY <1>1, <2>1, <2>2, <2>3, BesideKept
<1>6. Unminted' /\ RowsNameDocuments' /\ OneRowPerPost'
  BY DEF RegistryInv, Unminted, RowsNameDocuments, OneRowPerPost
<1>7. Registered'
  <2>. SUFFICES ASSUME faults' = 0, NEW d \in Ids \ strays',
                       docs'[d] # None, post'[d] # None, rows'[d] = None
                PROVE  Cared(d)'
    BY DEF Registered
  <2>1. d \notin Lost /\ docs[d] # None /\ rows[d] = None
    OBVIOUS
  <2>2. Cared(d)
    BY <2>1 DEF RegistryInv, Registered
  <2>3. PICK r \in Active : \/ req[r].new = d /\ req[r].pc \in Hands
                            \/ req[r].doc = d /\ req[r].pc \in Ending
    BY <2>2 DEF Cared, Hands, Ending
  <2>4. r # s
    BY <2>1, <2>3
  <2>. QED
    BY <1>1, <2>3, <2>4 DEF Cared, Hands, Ending
<1>. QED
  BY <1>2, <1>3, <1>4, <1>5, <1>6, <1>7 DEF RegistryInv

(* The replaced document goes. *)
LEMMA DropOldStep ==
  ASSUME RegistryInv, NEW s \in Active, DropOld(s)
  PROVE  RegistryInv'
<1>1. /\ TypeOK /\ ReqType /\ req[s] \in Request
      /\ Placed(s) /\ Own(s) /\ Gone(s) /\ req[s].pc = "drop"
      /\ Settled \subseteq 1 .. minted /\ 1 .. minted \subseteq Ids
      /\ UNCHANGED <<rows, minted, post, strays, faults>>
  BY AtRequest DEF DropOld
<1>2. req[s].doc \in Settled /\ req[s].new \in 1 .. minted /\ rows[req[s].doc] = None
  BY <1>1 DEF Placed, Own, Gone, Request, Kinds
<1>3. Leaves(s)
  BY <1>1, Responds DEF DropOld, Respond
<1>4. /\ docs' \in [Ids -> Texts \cup {None}]
      /\ \A d \in Ids : docs'[d] = IF d \in {req[s].doc} THEN None ELSE docs[d]
  BY <1>1 DEF DropOld, TypeOK
<1>5. \A r \in Active \ {s} : req[r].new \notin {req[s].doc}
  BY <1>2 DEF Settled
<1>7. {req[s].doc} \in SUBSET Ids /\ rows' \in [Ids -> Rows \cup {None}]
      /\ req[s].pc \notin Hands /\ \A d \in {req[s].doc} : rows[d] = None 
  BY <1>1, <1>2, <1>3 DEF Hands, TypeOK
<1>. QED
  BY <1>1, <1>2, <1>3, <1>4, <1>5, <1>7, LeaveRemoving

(* The compensation removes what the request stored. *)
LEMMA UndoStep ==
  ASSUME RegistryInv, NEW s \in Active, Undo(s)
  PROVE  RegistryInv'
<1>1. /\ TypeOK /\ ReqType /\ req[s] \in Request
      /\ Placed(s) /\ Own(s) /\ req[s].pc = "undo"
      /\ Settled \subseteq 1 .. minted /\ 1 .. minted \subseteq Ids
      /\ UNCHANGED <<rows, minted, post, strays, faults>>
  BY AtRequest DEF Undo
<1>2. req[s].new \in 1 .. minted /\ req[s].new # None /\ rows[req[s].new] = None
  BY <1>1 DEF Placed, Own
<1>3. Leaves(s)
  BY <1>1, Responds DEF Undo, Respond
<1>4. /\ docs' \in [Ids -> Texts \cup {None}]
      /\ \A d \in Ids : docs'[d] = IF d \in {req[s].new} THEN None ELSE docs[d]
  BY <1>1 DEF Undo, TypeOK
<1>5. \A r \in Active \ {s} : req[r].new \notin {req[s].new}
  BY <1>1, <1>2, <1>3 DEF Own
<1>. QED
  BY <1>1, <1>2, <1>3, <1>4, <1>5, LeaveRemoving DEF Hands, Ending, TypeOK

(* A delete ends, whether or not the document was still there. *)
LEMMA DeleteDocumentStep ==
  ASSUME RegistryInv, NEW s \in Active, DeleteDocument(s)
  PROVE  RegistryInv'
<1>1. /\ TypeOK /\ ReqType /\ req[s] \in Request
      /\ Placed(s) /\ Gone(s) /\ req[s].pc = "delete"
      /\ Settled \subseteq 1 .. minted /\ 1 .. minted \subseteq Ids
      /\ UNCHANGED <<rows, minted, post, strays, faults>>
  BY AtRequest DEF DeleteDocument
<1>2. req[s].kind = "delete" /\ req[s].doc \in Settled /\ rows[req[s].doc] = None
  BY <1>1 DEF Placed, Gone, Request, Kinds
<1>3. Active = {s}
  BY <1>2, ByItself
<1>4. Respond(s)
  BY <1>1, <1>2 DEF DeleteDocument, Gone
<1>5. Leaves(s)
  BY <1>1, <1>4, Responds DEF Respond
<1>6. /\ docs' \in [Ids -> Texts \cup {None}]
      /\ \A d \in Ids : docs'[d] = IF d \in {req[s].doc} THEN None ELSE docs[d]
  BY <1>1 DEF DeleteDocument, TypeOK
<1>7. {req[s].doc} \in SUBSET Ids /\ rows' \in [Ids -> Rows \cup {None}]
      /\ req[s].pc \notin Hands /\ \A d \in {req[s].doc} : rows[d] = None
      /\ \A r \in Active \ {s} : req[r].new \notin {req[s].doc}
  BY <1>1, <1>2, <1>3, <1>5 DEF Hands, TypeOK
<1>. QED
  BY <1>1, <1>2, <1>5, <1>6, <1>7, LeaveRemoving

(* Publishing changes a flag. *)
LEMMA PublishStep ==
  ASSUME RegistryInv, NEW s \in Active, PublishPost(s)
  PROVE  RegistryInv'
<1>1. /\ TypeOK /\ ReqType /\ req[s] \in Request
      /\ Placed(s) /\ req[s].pc = "publish"
      /\ Settled \subseteq 1 .. minted /\ 1 .. minted \subseteq Ids
      /\ UNCHANGED <<docs, minted, post, strays, faults>>
  BY AtRequest DEF PublishPost
<1>2. req[s].doc \in Ids
  BY <1>1 DEF Placed, Request, Kinds
<1>3. Leaves(s)
  BY <1>1, Responds DEF PublishPost, Respond
<1>4. ASSUME NEW row \in Rows
      PROVE  [row EXCEPT !.published = TRUE] \in Rows
  BY DEF Rows
<1>5. /\ rows' \in [Ids -> Rows \cup {None}]
      /\ \A d \in Ids : rows'[d] = None <=> rows[d] = None
  <2>. DEFINE new == IF rows[req[s].doc] = None THEN None
                     ELSE [rows[req[s].doc] EXCEPT !.published = TRUE]
  <2>1. new \in Rows \cup {None} /\ (new = None <=> rows[req[s].doc] = None)
    BY <1>1, <1>2, <1>4, RegistryAssumption DEF TypeOK
  <2>2. rows' = [rows EXCEPT ![req[s].doc] = new]
    BY DEF PublishPost
  <2>. HIDE DEF new
  <2>. QED
    BY <1>1, <1>2, <2>1, <2>2 DEF TypeOK
<1>6. \A d \in Ids : docs'[d] = IF d \in {} THEN None ELSE docs[d]
  BY <1>1
<1>7. docs' \in [Ids -> Texts \cup {None}] /\ {} \in SUBSET Ids
  BY <1>1 DEF TypeOK
<1>. QED
  BY <1>1, <1>2, <1>3, <1>5, <1>6, <1>7, LeaveRemoving DEF Hands, Ending

(* A delete takes the row first. *)
LEMMA UnregisterStep ==
  ASSUME RegistryInv, NEW s \in Active, Unregister(s)
  PROVE  RegistryInv'
<1>. DEFINE d == req[s].doc
<1>1. /\ TypeOK /\ ReqType /\ s \in Requests /\ req[s] \in Request
      /\ Placed(s) /\ Gone(s) /\ Lineage(s) /\ req[s].pc = "unregister"
      /\ Settled \subseteq 1 .. minted /\ 1 .. minted \subseteq Ids
      /\ UNCHANGED <<docs, minted, post, strays, faults>>
  BY AtRequest DEF Unregister
<1>2. req[s].kind = "delete" /\ d \in Settled /\ d \in Ids /\ req[s].new = None
  BY <1>1 DEF Placed, Request, Kinds
<1>3. Active = {s}
  BY <1>2, ByItself
<1>4. /\ Moves(s) /\ req'[s].pc = "delete"
      /\ req'[s].new = req[s].new /\ req'[s].owner = req[s].owner
  BY <1>1, GoesTo DEF Unregister, Pcs
<1>5. /\ rows' \in [Ids -> Rows \cup {None}]
      /\ \A e \in Ids : rows'[e] = IF e = d THEN None ELSE rows[e]
  BY <1>1, <1>2 DEF Unregister, TypeOK
<1>6. TypeOK'
  BY <1>1, <1>4, <1>5 DEF TypeOK, Moves, ReqType
<1>7. HasRoom'
  <2>1. Minting' \subseteq Minting
    BY <1>2, <1>3, <1>4 DEF Minting, Moves
  <2>. QED
    BY <1>1, <2>1, RoomKept DEF RegistryInv
<1>8. Solo' /\ \A r \in Active' : r = s
  BY <1>3, <1>4 DEF Solo, Moves
<1>9. Placed(s)' /\ Own(s)' /\ Gone(s)' /\ Lineage(s)'
  <2>0. Settled' = Settled
    BY <1>1, <1>4, SettledMoves
  <2>1. Placed(s)'
    BY <1>1, <1>2, <1>4, <2>0 DEF Placed, Moves
  <2>2. Own(s)'
    BY <1>2, <1>4 DEF Own
  <2>3. Gone(s)'
    BY <1>1, <1>2, <1>4, <1>5 DEF Gone, Moves
  <2>4. Lineage(s)'
    BY <1>1, <1>2, <1>4, <1>5 DEF Lineage, Moves
  <2>. QED
    BY <2>1, <2>2, <2>3, <2>4
<1>10. Unminted' /\ RowsNameDocuments' /\ OneRowPerPost'
  BY <1>1, <1>5 DEF RegistryInv, Unminted, RowsNameDocuments, OneRowPerPost
<1>11. Registered'
  <2>. SUFFICES ASSUME faults' = 0, NEW e \in Ids \ strays',
                       docs'[e] # None, post'[e] # None, rows'[e] = None
                PROVE  Cared(e)'
    BY DEF Registered
  <2>1. CASE e = d
    BY <1>3, <1>4, <2>1 DEF Cared, Moves
  <2>2. CASE e # d
    <3>1. Cared(e)
      BY <1>1, <1>5, <2>2 DEF RegistryInv, Registered
    <3>. QED
      BY <1>1, <1>3, <3>1 DEF Cared
  <2>. QED
    BY <2>1, <2>2
<1>. QED
  BY <1>6, <1>7, <1>8, <1>9, <1>10, <1>11 DEF RegistryInv

(* A delete that failed puts the row back. *)
LEMMA RestoreStep ==
  ASSUME RegistryInv, NEW s \in Active, Restore(s)
  PROVE  RegistryInv'
<1>. DEFINE d == req[s].doc
            row == req[s].owner
<1>1. /\ TypeOK /\ ReqType /\ s \in Requests /\ req[s] \in Request
      /\ Placed(s) /\ Gone(s) /\ Lineage(s) /\ req[s].pc = "restore"
      /\ Settled \subseteq 1 .. minted /\ 1 .. minted \subseteq Ids
      /\ UNCHANGED <<docs, minted, post, strays, faults>>
  BY AtRequest DEF Restore
<1>2. req[s].kind = "delete" /\ d \in Settled /\ d \in Ids /\ row \in Rows /\ row # None
  BY <1>1 DEF Placed, Request, Kinds
<1>3. Active = {s}
  BY <1>2, ByItself
<1>4. /\ rows[d] = None /\ docs[d] # None /\ post[d] # None
      /\ \A e \in Ids : rows[e] # None /\ e # d => post[e] # post[d]
  BY <1>1, <1>2 DEF Gone, Lineage
<1>5. Leaves(s)
  BY <1>1, Responds DEF Restore, Respond
<1>6. /\ rows' \in [Ids -> Rows \cup {None}]
      /\ \A e \in Ids : rows'[e] = IF e = d THEN row ELSE rows[e]
  BY <1>1, <1>2, <1>4 DEF Restore, TypeOK
<1>7. OneRowPerPost'
  BY <1>1, <1>4, <1>6 DEF RegistryInv, OneRowPerPost
<1>8. \A e \in Ids : Cared(e) => e = d
  BY <1>1, <1>3 DEF Cared
<1>9. \A e \in Ids : rows'[e] # None => docs'[e] # None /\ post[e] # None
  BY <1>1, <1>4, <1>6 DEF RegistryInv, RowsNameDocuments, Unminted
<1>10. \A e \in Ids : docs'[e] # None /\ post[e] # None /\ rows'[e] = None
                         => docs[e] # None /\ rows[e] = None /\ ~Cared(e)
  BY <1>1, <1>2, <1>6, <1>8
<1>11. /\ docs' \in [Ids -> Texts \cup {None}]
       /\ \A e \in Ids : e > minted => docs'[e] = None
  BY <1>1 DEF RegistryInv, Unminted, TypeOK
<1>. QED
  BY <1>1, <1>3, <1>5, <1>6, <1>7, <1>9, <1>10, <1>11, LastStep

(* A call that fails takes its handler to the compensation, or to the end. *)
LEMMA FailCallStep ==
  ASSUME RegistryInv, NEW s \in Active, FailCall(s)
  PROVE  RegistryInv'
<1>1. /\ TypeOK /\ ReqType /\ s \in Requests /\ req[s] \in Request
      /\ Placed(s) /\ Own(s) /\ Gone(s) /\ Lineage(s)
      /\ Settled \subseteq 1 .. minted /\ 1 .. minted \subseteq Ids
      /\ UNCHANGED <<docs, rows, minted, post, strays>>
  BY AtRequest DEF FailCall
<1>2. faults' \in 0 .. MaxFaults /\ faults' # 0
  BY <1>1, RegistryAssumption DEF FailCall, TypeOK
<1>3. CASE req[s].pc \in {"register", "migrate"}
  <2>1. Goto(s, "undo")
    BY <1>3 DEF FailCall
  <2>2. /\ Moves(s) /\ req'[s].pc = "undo"
        /\ req'[s].new = req[s].new /\ req'[s].owner = req[s].owner
    BY <1>1, <2>1, GoesTo DEF Pcs
  <2>3. req[s].kind \in {"create", "update"}
    BY <1>1, <1>3 DEF Placed, Request, Kinds
  <2>0. Settled' = Settled
    BY <1>1, <2>2, SettledMoves
  <2>4. Placed(s)'
    BY <1>1, <1>3, <2>0, <2>1, <2>2, <2>3 DEF Placed, Moves
  <2>5. Gone(s)' /\ Lineage(s)'
    BY <1>1, <1>3, <2>1, <2>2, <2>3 DEF Gone, Lineage, Moves
  <2>6. req[s].new # None => rows[req[s].new] = None
    BY <1>1, <1>3 DEF Own
  <2>. QED
    BY <1>1, <1>2, <2>1, <2>2, <2>4, <2>5, <2>6, Move
<1>4. CASE req[s].pc = "delete" /\ req[s].owner # None
  <2>1. Goto(s, "restore")
    BY <1>4 DEF FailCall
  <2>2. /\ Moves(s) /\ req'[s].pc = "restore"
        /\ req'[s].new = req[s].new /\ req'[s].owner = req[s].owner
    BY <1>1, <2>1, GoesTo DEF Pcs
  <2>3. req[s].kind = "delete" /\ req[s].new = None
    BY <1>1, <1>4 DEF Placed, Request, Kinds
  <2>0. Settled' = Settled
    BY <1>1, <2>2, SettledMoves
  <2>4. Placed(s)'
    BY <1>1, <1>4, <2>0, <2>1, <2>2, <2>3 DEF Placed, Moves
  <2>5. Gone(s)' /\ Lineage(s)'
    BY <1>1, <1>4, <2>1, <2>2, <2>3 DEF Gone, Lineage, Moves
  <2>. QED
    BY <1>1, <1>2, <2>1, <2>2, <2>3, <2>4, <2>5, Move
<1>5. CASE /\ req[s].pc \notin {"register", "migrate"}
           /\ ~(req[s].pc = "delete" /\ req[s].owner # None)
  <2>1. Respond(s)
    BY <1>5 DEF FailCall
  <2>. QED
    BY <1>1, <1>2, <2>1, LeaveEmpty
<1>. QED
  BY <1>3, <1>4, <1>5

-----------------------------------------------------------------------------
(* Arrivals and crashes *)

(* A request arrives beside those it may run beside. *)
LEMMA ArriveStep ==
  ASSUME RegistryInv, Careful, NEW s \in Requests, NEW kind \in Kinds, NEW user \in Users,
         NEW doc \in Ids \cup {None}, NEW text \in Texts \cup {None},
         NEW blog \in BOOLEAN, NEW force \in BOOLEAN,
         Arrive(s, kind, user, doc, text, blog, force),
         kind \in {"create", "update"} => Room /\ text # None,
         kind = "create" => ~(blog /\ force) /\ (blog => user \in Authors),
         kind = "update" => ~blog /\ ~force,
         kind # "create" => doc \in Settled
  PROVE  RegistryInv'
<1>. DEFINE x == CASE kind = "create"  -> "exists"
                   [] kind = "update"  -> "get"
                   [] kind = "delete"  -> "owner"
                   [] kind = "publish" -> "publish"
            q == [kind |-> kind, user |-> user, doc |-> doc, text |-> text,
                  blog |-> blog, force |-> force, existed |-> FALSE, owner |-> None,
                  new |-> None, pc |-> x]
<1>1. /\ x \in Pcs
      /\ kind = "create" => x = "exists"
      /\ kind = "update" => x = "get"
      /\ kind = "delete" => x = "owner"
      /\ kind = "publish" => x = "publish"
  BY DEF Kinds, Pcs
<1>2. /\ TypeOK /\ ReqType /\ req[s] = Idle /\ req' = [req EXCEPT ![s] = q]
      /\ UNCHANGED <<docs, rows, minted, post, strays, faults>>
      /\ kind \in Alone => Active = {}
      /\ \A r \in Active : req[r].kind \notin Alone
  BY DEF Arrive, RegistryInv, TypeOK, ReqType
<1>. HIDE DEF x
<1>3. q \in Request /\ q.kind = kind /\ q.pc = x /\ q.new = None /\ q.owner = None
      /\ q.doc = doc /\ q.blog = blog /\ q.force = force /\ q.user = user /\ q.text = text
  BY <1>1 DEF Request
<1>. HIDE DEF q
<1>4. ReqType' /\ req'[s] = q /\ \A r \in Requests \ {s} : req'[r] = req[r]
  BY <1>2, <1>3 DEF ReqType
<1>5. s \notin Active /\ Active' = Active \cup {s} /\ \A r \in Active : req'[r] = req[r]
  BY <1>2, <1>3, <1>4, NotIdle DEF Active
<1>0. Settled' = Settled
  <2>1. {req'[r].new : r \in Active'} = {req[r].new : r \in Active} \cup {None}
    BY <1>3, <1>4, <1>5
  <2>2. None \notin 1 .. minted
    BY <1>2, RegistryAssumption DEF TypeOK, Ids
  <2>. QED
    BY <1>2, <2>1, <2>2 DEF Settled
<1>6. TypeOK'
  BY <1>2, <1>4 DEF TypeOK, ReqType
<1>7. HasRoom'
  <2>1. CASE kind \in {"create", "update"}
    <3>1. Minting' \subseteq Active \cup {s}
      BY <1>5 DEF Minting
    <3>. QED
      BY <1>2, <2>1, <3>1, RoomMade
  <2>2. CASE kind \notin {"create", "update"}
    <3>1. Minting' \subseteq Minting
      BY <1>3, <1>4, <1>5, <2>2 DEF Minting
    <3>. QED
      BY <1>2, <3>1, RoomKept DEF RegistryInv
  <2>. QED
    BY <2>1, <2>2
<1>8. Solo'
  BY <1>2, <1>3, <1>4, <1>5 DEF RegistryInv, Solo, Careful
<1>9. Placed(s)' /\ Own(s)' /\ Gone(s)' /\ Lineage(s)'
  <2>1. Placed(s)'
    BY <1>0, <1>1, <1>2, <1>3, <1>4 DEF Placed, Kinds
  <2>2. Own(s)' /\ Gone(s)' /\ Lineage(s)'
    BY <1>1, <1>2, <1>3, <1>4 DEF Own, Gone, Lineage, Kinds
  <2>. QED
    BY <2>1, <2>2
<1>10. ASSUME NEW r \in Active
       PROVE  Placed(r)' /\ Own(r)' /\ Gone(r)' /\ Lineage(r)'
  <2>1. Placed(r) /\ Own(r) /\ Gone(r) /\ Lineage(r) /\ req'[r] = req[r]
    BY <1>5 DEF RegistryInv
  <2>2. Placed(r)' /\ Gone(r)' /\ Lineage(r)'
    BY <1>0, <1>2, <2>1 DEF Placed, Gone, Lineage
  <2>3. Own(r)'
    BY <1>2, <1>3, <1>4, <1>5, <2>1 DEF Own
  <2>. QED
    BY <2>2, <2>3
<1>11. Unminted' /\ RowsNameDocuments' /\ OneRowPerPost'
  BY <1>2 DEF RegistryInv, Unminted, RowsNameDocuments, OneRowPerPost
<1>12. Registered'
  BY <1>2, <1>5 DEF RegistryInv, Registered, Cared
<1>. QED
  BY <1>5, <1>6, <1>7, <1>8, <1>9, <1>10, <1>11, <1>12 DEF RegistryInv

(* A crash leaves the tables as they are. *)
LEMMA CrashStep ==
  ASSUME RegistryInv, Crash
  PROVE  RegistryInv'
<1>1. TypeOK
  BY DEF RegistryInv
<1>2. Active' = {} /\ Minting' \subseteq Minting
  BY DEF Crash, Active, Minting
<1>3. TypeOK' /\ faults' # 0
  BY <1>1, RegistryAssumption DEF Crash, TypeOK
<1>4. HasRoom'
  BY <1>1, <1>2, RoomKept DEF RegistryInv, Crash
<1>5. Unminted' /\ RowsNameDocuments' /\ OneRowPerPost'
  BY DEF Crash, RegistryInv, Unminted, RowsNameDocuments, OneRowPerPost
<1>. QED
  BY <1>2, <1>3, <1>4, <1>5 DEF RegistryInv, Solo, Registered

-----------------------------------------------------------------------------
(* Theorems *)

(* RegistryInv holds at the start. *)
LEMMA RegistryInit == Init => RegistryInv
<1>. SUFFICES ASSUME Init
              PROVE  RegistryInv
  OBVIOUS
<1>1. Active = {} /\ Minting = {}
  BY DEF Init, Active, Minting
<1>2. TypeOK
  BY RegistryAssumption DEF Init, TypeOK
<1>3. HasRoom
  BY <1>1, FS_EmptySet, RegistryAssumption DEF Init, HasRoom
<1>4. Unminted /\ RowsNameDocuments /\ OneRowPerPost /\ Registered
  BY RegistryAssumption
     DEF Init, Unminted, RowsNameDocuments, OneRowPerPost, Registered, Ids
<1>. QED
  BY <1>1, <1>2, <1>3, <1>4 DEF RegistryInv, Solo

(* Every call, arrival and crash keeps it. *)
LEMMA RegistryNext ==
  ASSUME RegistryInv, Careful, [Next]_vars
  PROVE  RegistryInv'
<1>0. None \notin Texts /\ Creates \subseteq BOOLEAN \X BOOLEAN /\ Settled \subseteq Ids
      /\ \A d \in Ids : Careful /\ Named(d) => d \in Settled
  BY RegistryAssumption DEF RegistryInv, TypeOK, Ids, Settled, Named, Careful
<1>1. ASSUME NEW s \in Requests, Create(s)
      PROVE  RegistryInv'
  <2>1. PICK t \in Texts, c \in Creates :
          /\ Room
          /\ \E u \in IF c[1] THEN Authors ELSE {Anonymous} :
               Arrive(s, "create", u, None, t, c[1], c[2])
    BY <1>1 DEF Create
  <2>2. PICK u \in IF c[1] THEN Authors ELSE {Anonymous} :
          Arrive(s, "create", u, None, t, c[1], c[2])
    BY <2>1
  <2>3. c[1] \in BOOLEAN /\ c[2] \in BOOLEAN /\ ~(c[1] /\ c[2])
    <3>1. c \in BOOLEAN \X BOOLEAN /\ c = <<c[1], c[2]>>
      BY <1>0
    <3>2. CASE c[1] /\ c[2]
      <4>1. c = <<TRUE, TRUE>>
        BY <3>1, <3>2
      <4>. QED
        BY <4>1 DEF Careful
    <3>. QED
      BY <3>1, <3>2
  <2>4. u \in Users /\ (c[1] => u \in Authors)
    BY <2>3 DEF Users
  <2>. QED
    BY <1>0, <2>1, <2>2, <2>3, <2>4, ArriveStep DEF Kinds
<1>2. ASSUME NEW s \in Requests, Update(s)
      PROVE  RegistryInv'
  BY <1>0, <1>2, ArriveStep DEF Update, Kinds
<1>3. ASSUME NEW s \in Requests, Delete(s)
      PROVE  RegistryInv'
  BY <1>0, <1>3, ArriveStep DEF Delete, Kinds
<1>4. ASSUME NEW s \in Requests, Publish(s)
      PROVE  RegistryInv'
  BY <1>0, <1>4, ArriveStep DEF Publish, Kinds, Users
<1>5. ASSUME NEW s \in Active, Call(s)
      PROVE  RegistryInv'
  BY <1>5, GetOldStep, ReadOwnerStep, CheckExistsStep, StoreNewStep, StoreForcedStep,
     RegisterStep, MigrateStep, DropOldStep, UndoStep, UnregisterStep,
     DeleteDocumentStep, RestoreStep, PublishStep, FailCallStep DEF Call
<1>6. CASE UNCHANGED vars
  <2>1. Active' = Active /\ Minting' = Minting /\ Settled' = Settled
    BY <1>6 DEF vars, Active, Minting, Settled
  <2>2. TypeOK' /\ HasRoom' /\ Solo'
    BY <1>6, <2>1 DEF vars, RegistryInv, TypeOK, HasRoom, Solo
  <2>3. ASSUME NEW s \in Active'
        PROVE  Placed(s)' /\ Own(s)' /\ Gone(s)' /\ Lineage(s)'
    BY <1>6, <2>1 DEF vars, RegistryInv, Placed, Own, Gone, Lineage
  <2>4. Unminted' /\ RowsNameDocuments' /\ OneRowPerPost' /\ Registered'
    BY <1>6, <2>1
       DEF vars, RegistryInv, Unminted, RowsNameDocuments, OneRowPerPost, Registered, Cared
  <2>. QED
    BY <2>2, <2>3, <2>4 DEF RegistryInv
<1>. QED
  BY <1>1, <1>2, <1>3, <1>4, <1>5, <1>6, CrashStep DEF Next

(* The strengthening is an invariant. *)
LEMMA RegistryAlways ==
  ASSUME Careful
  PROVE  Spec => []RegistryInv
<1>1. RegistryInv /\ [Next]_vars => RegistryInv'
  BY RegistryNext
<1>. QED
  BY <1>1, RegistryInit, PTL DEF Spec

(* Every reachable state is of the declared types. *)
THEOREM RegistryTypeCorrect ==
  ASSUME Careful
  PROVE  Spec => []TypeOK
<1>1. RegistryInv => TypeOK
  BY DEF RegistryInv
<1>. QED
  BY <1>1, RegistryAlways, PTL

(* The registry never names a document that is gone, however many updates and
   publishes run at once and wherever calls fail. *)
THEOREM RowsNameDocumentsAlways ==
  ASSUME Careful
  PROVE  Spec => []RowsNameDocuments
<1>1. RegistryInv => RowsNameDocuments
  BY DEF RegistryInv
<1>. QED
  BY <1>1, RegistryAlways, PTL

(* A post has one row, however many updates of it race. *)
THEOREM OneRowPerPostAlways ==
  ASSUME Careful
  PROVE  Spec => []OneRowPerPost
<1>1. RegistryInv => OneRowPerPost
  BY DEF RegistryInv
<1>. QED
  BY <1>1, RegistryAlways, PTL

(* While no call has failed, a store at rest has a row for every document that
   was stored for a post by a request that knew the post: the others are the
   strays, stored by an update that looked the row up while another update of
   the document had moved it. *)
THEOREM RegisteredAtRestAlways ==
  ASSUME Careful
  PROVE  Spec => []RegisteredAtRest
<1>1. RegistryInv => RegisteredAtRest
  BY DEF RegistryInv, Registered, RegisteredAtRest, Cared
<1>. QED
  BY <1>1, RegistryAlways, PTL

-----------------------------------------------------------------------------
(* The registry implements Blog *)

(* A delete has taken the row of a post and has not ended. *)
Taking(s) == req[s].kind = "delete" /\ req[s].owner # None /\ req[s].pc \in {"delete", "restore"}

(* The mapping in terms of rows and of deletes under way: no post has two of
   either, or one of each. *)
RowView ==
    \A d \in Ids : rows[d] # None =>
        post[d] \in Ids /\ Post(post[d]) = PostView(d, rows[d]) /\ ~Hidden(post[d])

TakingView ==
    \A s \in Active : Taking(s) =>
        /\ req[s].doc \in Ids /\ post[req[s].doc] \in Ids
        /\ Post(post[req[s].doc]) = PostView(req[s].doc, req[s].owner)
        /\ Hidden(post[req[s].doc])

Nowhere(p) ==
    /\ \A d \in Ids : rows[d] # None => post[d] # p
    /\ \A s \in Active : Taking(s) => post[req[s].doc] # p

NoView == \A p \in Ids : Nowhere(p) => Post(p) = None /\ ~Hidden(p)

View == RowView /\ TakingView /\ NoView

(* RegistryInv justifies the choices of the mapping. *)
LEMMA ViewHolds == RegistryInv => View
<1>. SUFFICES ASSUME RegistryInv
              PROVE  View
  OBVIOUS
<1>1. TypeOK
  BY DEF RegistryInv
<1>2. RowView
  <2>. SUFFICES ASSUME NEW d \in Ids, rows[d] # None
                PROVE  post[d] \in Ids /\ Post(post[d]) = PostView(d, rows[d]) /\ ~Hidden(post[d])
    BY DEF RowView
  <2>1. post[d] \in Ids
    BY <1>1 DEF RegistryInv, Unminted, TypeOK
  <2>2. RowOf(post[d]) = {d}
    BY DEF RegistryInv, OneRowPerPost, RowOf
  <2>3. (CHOOSE e \in {d} : TRUE) = d
    OBVIOUS
  <2>4. Post(post[d]) = PostView(d, rows[d])
    BY <2>2, <2>3 DEF Post
  <2>. QED
    BY <2>1, <2>2, <2>4 DEF Hidden
<1>3. TakingView
  <2>. SUFFICES ASSUME NEW s \in Active, Taking(s)
                PROVE  /\ req[s].doc \in Ids /\ post[req[s].doc] \in Ids
                       /\ Post(post[req[s].doc]) = PostView(req[s].doc, req[s].owner)
                       /\ Hidden(post[req[s].doc])
    BY DEF TakingView
  <2>. DEFINE d == req[s].doc
  <2>1. /\ req[s] \in Request /\ Placed(s) /\ Gone(s) /\ Lineage(s)
        /\ Settled \subseteq Ids
    BY AtRequest
  <2>2. d \in Ids /\ rows[d] = None /\ post[d] # None
    BY <2>1 DEF Taking, Placed, Gone, Lineage
  <2>3. post[d] \in Ids
    BY <1>1, <2>2 DEF TypeOK
  <2>4. RowOf(post[d]) = {}
    BY <2>1, <2>2 DEF RowOf, Lineage, Taking
  <2>5. Removing(post[d]) = {s}
    <3>1. Active = {s}
      BY ByItself DEF Taking
    <3>. QED
      BY <3>1 DEF Removing, Taking
  <2>6. (CHOOSE r \in {s} : TRUE) = s
    OBVIOUS
  <2>7. Post(post[d]) = PostView(d, req[s].owner)
    BY <2>4, <2>5, <2>6 DEF Post
  <2>. QED
    BY <2>2, <2>3, <2>4, <2>5, <2>7 DEF Hidden
<1>4. NoView
  <2>. SUFFICES ASSUME NEW p \in Ids, Nowhere(p)
                PROVE  Post(p) = None /\ ~Hidden(p)
    BY DEF NoView
  <2>1. RowOf(p) = {} /\ Removing(p) = {}
    BY DEF Nowhere, RowOf, Removing, Taking
  <2>. QED
    BY <2>1 DEF Post, Hidden
<1>. QED
  BY <1>2, <1>3, <1>4 DEF View

(* A post is seen as before when its row, or the delete that has taken it, and
   its document are. *)
LEMMA SameView ==
  ASSUME View, View', NEW p \in Ids,
         \A d \in Ids : rows[d] # None /\ post[d] = p =>
            rows'[d] = rows[d] /\ post'[d] = p /\ docs'[d] = docs[d],
         \A d \in Ids : rows'[d] # None /\ post'[d] = p => rows[d] # None /\ post[d] = p,
         \A s \in Active : Taking(s) /\ post[req[s].doc] = p =>
            /\ s \in Active' /\ Taking(s)'
            /\ req'[s].doc = req[s].doc /\ req'[s].owner = req[s].owner
            /\ post'[req[s].doc] = p /\ docs'[req[s].doc] = docs[req[s].doc],
         \A s \in Active' : Taking(s)' /\ post'[req'[s].doc] = p =>
            s \in Active /\ Taking(s) /\ post[req[s].doc] = p
  PROVE  Post(p)' = Post(p) /\ (Hidden(p)' <=> Hidden(p))
<1>1. ASSUME NEW d \in Ids, rows[d] # None, post[d] = p
      PROVE  Post(p)' = Post(p) /\ (Hidden(p)' <=> Hidden(p))
  <2>1. Post(p) = PostView(d, rows[d]) /\ ~Hidden(p)
    BY <1>1 DEF View, RowView
  <2>2. Post(p)' = PostView(d, rows[d])' /\ ~Hidden(p)'
    BY <1>1 DEF View, RowView
  <2>. QED
    BY <1>1, <2>1, <2>2 DEF PostView
<1>2. ASSUME NEW s \in Active, Taking(s), post[req[s].doc] = p
      PROVE  Post(p)' = Post(p) /\ (Hidden(p)' <=> Hidden(p))
  <2>1. Post(p) = PostView(req[s].doc, req[s].owner) /\ Hidden(p)
    BY <1>2 DEF View, TakingView
  <2>2. Post(p)' = PostView(req[s].doc, req[s].owner)' /\ Hidden(p)'
    BY <1>2 DEF View, TakingView
  <2>. QED
    BY <1>2, <2>1, <2>2 DEF PostView
<1>3. CASE Nowhere(p)
  <2>1. Nowhere(p)'
    BY <1>3 DEF Nowhere
  <2>. QED
    BY <1>3, <2>1 DEF View, NoView
<1>. QED
  BY <1>1, <1>2, <1>3 DEF Nowhere

(* If every post is seen as before, Blog does not move. *)
LEMMA Stutters ==
  ASSUME \A p \in Ids : Post(p)' = Post(p) /\ (Hidden(p)' <=> Hidden(p))
  PROVE  UNCHANGED Promise!vars
BY DEF Promise!vars

(* The steps of Blog, in terms of the posts seen before and after. *)
Apart(p) == \A e \in Ids \ {p} : Post(e)' = Post(e) /\ (Hidden(e)' <=> Hidden(e))

(* A new post, seen as a draft of its author, is an Add. *)
LEMMA Adds ==
  ASSUME NEW p \in Ids, NEW u \in Users, NEW t \in Texts, Apart(p),
         Post(p) = None, Post(p)' = [author |-> u, published |-> FALSE, text |-> t],
         ~Hidden(p), ~Hidden(p)'
  PROVE  Promise!Next
<1>1. Promise!Add(p, u, t)
  BY DEF Promise!Add, Apart
<1>. QED
  BY <1>1 DEF Promise!Next

(* A post seen with another text is a Replace. *)
LEMMA Replaces ==
  ASSUME NEW p \in Ids, NEW t \in Texts, Apart(p),
         Post(p) # None, Post(p)' = [Post(p) EXCEPT !.text = t],
         ~Hidden(p), ~Hidden(p)'
  PROVE  Promise!Next
<1>1. Promise!Replace(p, t)
  BY DEF Promise!Replace, Promise!Shown, Apart
<1>. QED
  BY <1>1 DEF Promise!Next

(* A post seen as published, and otherwise as before, is a Publish. *)
LEMMA Publishes ==
  ASSUME NEW p \in Ids, Apart(p), NEW a, NEW b, NEW t, Post(p) # None,
         Post(p) = [author |-> a, published |-> b, text |-> t],
         Post(p)' = [author |-> a, published |-> TRUE, text |-> t],
         ~Hidden(p), ~Hidden(p)'
  PROVE  Promise!Next
<1>. DEFINE P == [e \in Ids |-> Post(e)]
<1>1. P' = [P EXCEPT ![p].published = TRUE]
  <2>1. [P[p] EXCEPT !.published = TRUE] = Post(p)'
    <3>1. P[p] = [author |-> a, published |-> b, text |-> t]
      OBVIOUS
    <3>2. [[author |-> a, published |-> b, text |-> t] EXCEPT !.published = TRUE]
            = [author |-> a, published |-> TRUE, text |-> t]
      <4>1. \A v : [[author |-> a, published |-> b, text |-> t] EXCEPT !.published = v]
                     = [author |-> a, published |-> v, text |-> t]
        OBVIOUS
      <4>. QED
        BY <4>1, Zenon
    <3>. HIDE DEF P
    <3>. QED
      BY <3>1, <3>2, Zenon
  <2>2. P' = [P EXCEPT ![p] = Post(p)']
    BY DEF Apart
  <2>. QED
    BY <2>1, <2>2
<1>2. {e \in Ids : Hidden(e)'} = {e \in Ids : Hidden(e)}
  BY DEF Apart
<1>3. Promise!Publish(p)
  BY <1>1, <1>2 DEF Promise!Publish, Promise!Shown
<1>. QED
  BY <1>3 DEF Promise!Next

(* A post that goes out of sight while a delete holds its row is a Withdraw. *)
LEMMA Withdraws ==
  ASSUME NEW p \in Ids, Apart(p),
         Post(p) # None, Post(p)' = Post(p), ~Hidden(p), Hidden(p)'
  PROVE  Promise!Next
<1>1. Promise!Withdraw(p)
  BY DEF Promise!Withdraw, Promise!Shown, Apart
<1>. QED
  BY <1>1 DEF Promise!Next

(* A post that comes back as it was is a Reinstate. *)
LEMMA Reinstates ==
  ASSUME NEW p \in Ids, Apart(p), Post(p)' = Post(p), Hidden(p), ~Hidden(p)'
  PROVE  Promise!Next
<1>1. Promise!Reinstate(p)
  BY DEF Promise!Reinstate, Apart
<1>. QED
  BY <1>1 DEF Promise!Next

(* A hidden post that is no longer held by anyone is a Remove. *)
LEMMA Removes ==
  ASSUME NEW p \in Ids, Apart(p), Post(p)' = None, Hidden(p), ~Hidden(p)'
  PROVE  Promise!Next
<1>1. Promise!Remove(p)
  BY DEF Promise!Remove, Apart
<1>. QED
  BY <1>1 DEF Promise!Next

(* A step without a delete that has taken a row, and that leaves the rows and
   their documents alone, is not seen. *)
LEMMA Quiet ==
  ASSUME View, View', rows' = rows,
         \A s \in Active : ~Taking(s), \A s \in Active' : ~Taking(s)',
         \A d \in Ids : rows[d] # None => post'[d] = post[d] /\ docs'[d] = docs[d]
  PROVE  UNCHANGED Promise!vars
<1>1. \A p \in Ids : Post(p)' = Post(p) /\ (Hidden(p)' <=> Hidden(p))
  BY SameView
<1>. QED
  BY <1>1, Stutters

(* A call changes no request but its own, and not what kind that is. *)
LEMMA CallKeepsKind ==
  ASSUME RegistryInv, NEW s \in Active, Call(s)
  PROVE  Active' \subseteq Active /\ \A t \in Active' : req'[t].kind = req[t].kind
<1>1. ReqType /\ s \in Requests /\ req[s] \in Request
  BY AtRequest
<1>2. CASE req' = [req EXCEPT ![s] = Idle]
  BY <1>1, <1>2, Responds DEF Leaves, Others, Active
<1>3. CASE \E x \in Pcs : Goto(s, x)
  BY <1>1, <1>3, GoesTo DEF Moves, Others, Active
<1>4. ASSUME NEW v, NEW x,
             \/ req' = [req EXCEPT ![s].owner = v, ![s].pc = x]
             \/ req' = [req EXCEPT ![s].existed = v, ![s].pc = x]
             \/ req' = [req EXCEPT ![s].new = v, ![s].pc = x]
      PROVE  Active' \subseteq Active /\ \A t \in Active' : req'[t].kind = req[t].kind
  <2>1. \A t \in Requests \ {s} : req'[t] = req[t]
    BY <1>1, <1>4 DEF ReqType
  <2>2. req'[s].kind = req[s].kind
    BY <1>1, <1>4 DEF ReqType, Request
  <2>. QED
    BY <1>1, <2>1, <2>2 DEF Active
<1>5. \/ req' = [req EXCEPT ![s] = Idle]
      \/ \E x \in Pcs : Goto(s, x)
      \/ \E v, x : \/ req' = [req EXCEPT ![s].owner = v, ![s].pc = x]
                   \/ req' = [req EXCEPT ![s].existed = v, ![s].pc = x]
                   \/ req' = [req EXCEPT ![s].new = v, ![s].pc = x]
  <2>1. GetOld(s) \/ Undo(s) \/ Unregister(s) \/ Register(s) \/ Migrate(s)
          => req' = [req EXCEPT ![s] = Idle] \/ \E x \in Pcs : Goto(s, x)
    BY DEF GetOld, Undo, Unregister, Register, Migrate, Respond, Pcs
  <2>2. DropOld(s) \/ DeleteDocument(s) \/ Restore(s) \/ PublishPost(s)
          => req' = [req EXCEPT ![s] = Idle] \/ \E x \in Pcs : Goto(s, x)
    BY DEF DropOld, DeleteDocument, Restore, PublishPost, Respond, Pcs
  <2>3. FailCall(s) => req' = [req EXCEPT ![s] = Idle] \/ \E x \in Pcs : Goto(s, x)
    BY DEF FailCall, Respond, Pcs
  <2>4. ReadOwner(s) => \/ req' = [req EXCEPT ![s] = Idle]
                        \/ \E v, x : req' = [req EXCEPT ![s].owner = v, ![s].pc = x]
    BY DEF ReadOwner, Respond
  <2>5. CheckExists(s) => \/ req' = [req EXCEPT ![s] = Idle]
                          \/ \E v, x : req' = [req EXCEPT ![s].existed = v, ![s].pc = x]
    BY DEF CheckExists, Respond
  <2>6. StoreNew(s) \/ StoreForced(s)
          => \/ req' = [req EXCEPT ![s] = Idle]
             \/ \E v, x : req' = [req EXCEPT ![s].new = v, ![s].pc = x]
    <3>1. StoreNew(s) \/ StoreForced(s) => Respond(s) \/ \E d : Stored(s, d)
      BY Zenon DEF StoreNew, StoreForced
    <3>2. ASSUME NEW d, Stored(s, d)
          PROVE  \/ req' = [req EXCEPT ![s] = Idle]
                 \/ \E v, x : req' = [req EXCEPT ![s].new = v, ![s].pc = x]
      BY <3>2 DEF Stored, Respond
    <3>. QED
      BY <3>1, <3>2, Zenon DEF Respond
  <2>. QED
    BY <2>1, <2>2, <2>3, <2>4, <2>5, <2>6 DEF Call
<1>. QED
  BY <1>2, <1>3, <1>4, <1>5

(* A delete that has taken a row is on its own. *)
LEMMA TakingAlone ==
  ASSUME RegistryInv, NEW s \in Active, Taking(s)
  PROVE  Active = {s}
BY ByItself DEF Taking

(* Beside a row that changes, every other post is seen as before. *)
LEMMA ApartFrom ==
  ASSUME View, View', NEW p \in Ids,
         \A s \in Active : Taking(s) => post[req[s].doc] = p,
         \A s \in Active' : Taking(s)' => post'[req'[s].doc] = p,
         post' = post,
         \A d \in Ids : post[d] # p => rows'[d] = rows[d],
         \A d \in Ids : rows[d] # None /\ post[d] # p => docs'[d] = docs[d]
  PROVE  Apart(p)
<1>. SUFFICES ASSUME NEW e \in Ids \ {p}
              PROVE  Post(e)' = Post(e) /\ (Hidden(e)' <=> Hidden(e))
  BY DEF Apart
<1>. QED
  BY SameView

(* The post of a row is one. *)
LEMMA RowIsPost ==
  ASSUME TypeOK, NEW d \in Ids, docs[d] # None, NEW row \in Rows
  PROVE  PostView(d, row) # None
<1>1. docs[d] \in Texts /\ row.author \in Authors /\ row.published \in BOOLEAN
  BY DEF TypeOK, Rows
<1>. QED
  BY <1>1, RegistryAssumption DEF PostView

(* A registration is seen as the new post, whole from the start. *)
LEMMA RegisterSeen ==
  ASSUME RegistryInv, RegistryInv', View, View', NEW s \in Active, Register(s)
  PROVE  Promise!Next
<1>0. PICK d, row : /\ d \in Ids /\ d = req[s].new
                    /\ row = [author |-> req[s].user, published |-> FALSE]
  BY AtRequest DEF Register, Own, Placed
<1>1. /\ TypeOK /\ ReqType /\ req[s] \in Request
      /\ Placed(s) /\ Own(s) /\ Lineage(s) /\ req[s].pc = "register"
      /\ 1 .. minted \subseteq Ids /\ UNCHANGED <<docs, minted, post, strays, faults>>
  BY AtRequest DEF Register
<1>2. req[s].kind = "create" /\ req[s].user \in Authors /\ Active = {s} /\ ~Taking(s)
  <2>1. req[s].kind = "create" /\ req[s].user \in Authors
    BY <1>1 DEF Placed, Request, Kinds
  <2>. QED
    BY <2>1, ByItself DEF Taking
<1>3. /\ d \in Ids /\ rows[d] = None /\ docs[d] # None /\ docs[d] \in Texts
      /\ post[d] = d /\ \A e \in Ids : rows[e] # None => post[e] # d
  BY <1>0, <1>1 DEF Own, Placed, Lineage, TypeOK
<1>4. rows' = [rows EXCEPT ![d] = row] /\ Respond(s)
  BY <1>0, <1>3 DEF Register
<1>5. Active' = {}
  BY <1>1, <1>2, <1>4, Responds DEF Respond, Leaves
<1>6. /\ \A e \in Ids \ {d} : rows'[e] = rows[e]
      /\ rows'[d] = row
  BY <1>1, <1>3, <1>4 DEF TypeOK
<1>7. row.author = req[s].user /\ row.published = FALSE /\ row # None
  <2>1. row \in Rows
    BY <1>0, <1>2 DEF Rows
  <2>2. None \notin Rows
    BY RegistryAssumption
  <2>3. row # None
    BY <2>1, <2>2
  <2>. QED
    BY <1>0, <2>3
<1>8. Post(d) = None /\ ~Hidden(d)
  BY <1>2, <1>3 DEF View, NoView, Nowhere
<1>9. Post(d)' = PostView(d, rows[d])' /\ ~Hidden(d)'
  BY <1>1, <1>3, <1>6, <1>7 DEF View, RowView
<1>10. Post(d)' = [author |-> req[s].user, published |-> FALSE, text |-> docs[d]]
  BY <1>1, <1>6, <1>7, <1>9 DEF PostView
<1>11. Apart(d)
  BY <1>1, <1>2, <1>3, <1>5, <1>6, ApartFrom
<1>. QED
  BY <1>2, <1>3, <1>8, <1>9, <1>10, <1>11, Adds DEF Users

(* The migration of a row is seen as the new text, under author and state of
   the old one; without a row to migrate nothing is seen. *)
LEMMA MigrateSeen ==
  ASSUME RegistryInv, RegistryInv', View, View', NEW s \in Active, Migrate(s)
  PROVE  Promise!Next \/ UNCHANGED Promise!vars
<1>0. PICK old \in Ids, new \in Ids, p \in Ids :
        old = req[s].doc /\ new = req[s].new /\ p = post[old]
  <2>1. req[s].doc \in Ids /\ req[s].new \in Ids /\ post[req[s].doc] # None
    BY AtRequest DEF Migrate, Own, Placed, Lineage, Request, Kinds
  <2>. QED
    BY <2>1, AtRequest DEF TypeOK
<1>1. /\ TypeOK /\ ReqType /\ req[s] \in Request
      /\ Placed(s) /\ Own(s) /\ Lineage(s) /\ req[s].pc = "migrate"
      /\ Settled \subseteq Ids /\ 1 .. minted \subseteq Ids
      /\ UNCHANGED <<docs, minted, post, strays, faults>>
  BY AtRequest DEF Migrate
<1>2. req[s].kind = "update"
  BY <1>1 DEF Placed, Request, Kinds
<1>3. /\ old \in Settled /\ old \in Ids
      /\ new \in Ids \ Settled /\ rows[new] = None /\ docs[new] \in Texts /\ docs[new] # None
      /\ post[new] = p /\ p \in Ids
  BY <1>0, <1>1, <1>2 DEF Own, Placed, Lineage, TypeOK, Settled
<1>4. (\A t \in Active : ~Taking(t)) /\ \A t \in Active' : ~Taking(t)'
  <2>1. \A t \in Active : ~Taking(t)
    BY <1>2, TakingAlone DEF Taking
  <2>2. \A t \in Active' : t \in Active /\ (t # s => req'[t] = req[t])
    BY <1>1, GoesTo DEF Migrate, Moves, Others, Pcs, Active
  <2>3. s \in Active' => ~Taking(s)'
    BY <1>1, <1>2, GoesTo DEF Migrate, Moves, Pcs, Taking
  <2>. QED
    BY <2>1, <2>2, <2>3 DEF Taking
<1>5. CASE UNCHANGED rows
  BY <1>1, <1>4, <1>5, Quiet
<1>6. CASE rows[old] # None /\ rows' = [rows EXCEPT ![old] = None, ![new] = rows[old]]
  <2>1. /\ old # new
        /\ \A e \in Ids : rows'[e] = IF e = new THEN rows[old]
                                     ELSE IF e = old THEN None ELSE rows[e]
    BY <1>1, <1>3, <1>6 DEF TypeOK
  <2>2. Apart(p)
    BY <1>0, <1>1, <1>3, <1>4, <2>1, ApartFrom
  <2>3. Post(p) = PostView(old, rows[old]) /\ ~Hidden(p)
    BY <1>0, <1>3, <1>6 DEF View, RowView
  <2>4. Post(p)' = PostView(new, rows[new])' /\ ~Hidden(p)'
    BY <1>1, <1>3, <1>6, <2>1 DEF View, RowView
  <2>5. Post(p)' = [Post(p) EXCEPT !.text = docs[new]]
    BY <1>0, <1>1, <1>3, <2>1, <2>3, <2>4 DEF PostView
  <2>6. Post(p) # None
    <3>1. docs[old] # None /\ rows[old] \in Rows
      BY <1>1, <1>6 DEF RegistryInv, RowsNameDocuments, TypeOK
    <3>. QED
      BY <1>1, <2>3, <3>1, RowIsPost
  <2>. QED
    BY <1>3, <2>2, <2>3, <2>4, <2>5, <2>6, Replaces
<1>. QED
  BY <1>0, <1>5, <1>6 DEF Migrate

(* Publishing is seen on the post of the row it finds, or not at all. *)
LEMMA PublishSeen ==
  ASSUME RegistryInv, RegistryInv', View, View', NEW s \in Active, PublishPost(s)
  PROVE  Promise!Next \/ UNCHANGED Promise!vars
<1>0. PICK d \in Ids : d = req[s].doc
  BY AtRequest DEF PublishPost, Placed, Request, Kinds
<1>1. /\ TypeOK /\ ReqType /\ req[s] \in Request
      /\ Placed(s) /\ req[s].pc = "publish" /\ UNCHANGED <<docs, minted, post, strays, faults>>
  BY AtRequest DEF PublishPost
<1>2. (\A t \in Active : ~Taking(t)) /\ \A t \in Active' : ~Taking(t)'
  <2>1. req[s].kind # "delete"
    BY <1>1 DEF Placed
  <2>2. \A t \in Active : ~Taking(t)
    BY <2>1, TakingAlone DEF Taking
  <2>3. \A t \in Active' : t \in Active /\ req'[t] = req[t]
    BY <1>1, Responds DEF PublishPost, Respond, Leaves, Others, Active
  <2>. QED
    BY <2>2, <2>3 DEF Taking
<1>3. CASE rows[d] = None
  <2>1. rows' = rows
    BY <1>0, <1>1, <1>3 DEF PublishPost, TypeOK
  <2>. QED
    BY <1>1, <1>2, <2>1, Quiet
<1>4. CASE rows[d] # None
  <2>1. rows[d] \in Rows /\ docs[d] # None
    BY <1>1, <1>4 DEF RegistryInv, RowsNameDocuments, TypeOK
  <2>2. PICK row : row = [rows[d] EXCEPT !.published = TRUE]
    OBVIOUS
  <2>3. row \in Rows /\ row.author = rows[d].author /\ row.published = TRUE /\ row # None
    <3>1. row \in Rows /\ row.author = rows[d].author /\ row.published = TRUE
      BY <2>1, <2>2 DEF Rows
    <3>. QED
      BY <3>1, RegistryAssumption
  <2>4. rows' = [rows EXCEPT ![d] = row]
    BY <1>0, <1>4, <2>2 DEF PublishPost
  <2>5. rows'[d] = row /\ \A e \in Ids \ {d} : rows'[e] = rows[e]
    BY <1>1, <2>4 DEF TypeOK
  <2>6. PICK p \in Ids : p = post[d]
    BY <1>4 DEF View, RowView
  <2>7. Post(p) = PostView(d, rows[d]) /\ ~Hidden(p)
    BY <1>4, <2>6 DEF View, RowView
  <2>8. Post(p)' = PostView(d, rows[d])' /\ ~Hidden(p)'
    BY <1>1, <2>3, <2>5, <2>6 DEF View, RowView
  <2>9. Post(p)' = [author |-> rows[d].author, published |-> TRUE, text |-> docs[d]]
    BY <1>1, <2>3, <2>5, <2>8 DEF PostView
  <2>10. Post(p) # None
    BY <1>1, <2>1, <2>7, RowIsPost
  <2>11. Apart(p)
    BY <1>1, <1>2, <2>5, <2>6, ApartFrom
  <2>. QED
    BY <2>7, <2>8, <2>9, <2>10, <2>11, Publishes DEF PostView
<1>. QED
  BY <1>3, <1>4

(* The steps of a delete. *)
LEMMA UnregisterSeen ==
  ASSUME RegistryInv, RegistryInv', View, View', NEW s \in Active, Unregister(s)
  PROVE  Promise!Next \/ UNCHANGED Promise!vars
<1>1. /\ TypeOK /\ ReqType /\ req[s] \in Request
      /\ Placed(s) /\ Gone(s) /\ Lineage(s) /\ req[s].pc = "unregister"
      /\ Settled \subseteq Ids /\ UNCHANGED <<docs, minted, post, strays, faults>>
  BY AtRequest DEF Unregister
<1>2. req[s].kind = "delete" /\ req[s].doc \in Ids /\ rows[req[s].doc] = req[s].owner
  BY <1>1 DEF Placed, Gone, Request, Kinds
<1>3. Active = {s} /\ ~Taking(s)
  BY <1>1, <1>2, ByItself DEF Taking
<1>4. /\ Active' = {s} /\ req'[s].kind = "delete" /\ req'[s].doc = req[s].doc
      /\ req'[s].owner = req[s].owner /\ req'[s].pc = "delete"
  BY <1>1, <1>2, <1>3, GoesTo DEF Unregister, Pcs, Moves
<1>0. PICK d \in Ids : d = req[s].doc
  BY <1>2
<1>5. rows'[d] = None /\ \A e \in Ids \ {d} : rows'[e] = rows[e]
  BY <1>0, <1>1 DEF Unregister, TypeOK
<1>6. CASE req[s].owner = None
  <2>1. rows' = rows
    BY <1>0, <1>1, <1>2, <1>6 DEF Unregister, TypeOK
  <2>2. \A t \in Active' : ~Taking(t)'
    BY <1>4, <1>6 DEF Taking
  <2>. QED
    BY <1>1, <1>3, <2>1, <2>2, Quiet
<1>7. CASE req[s].owner # None
  <2>1. Taking(s)'
    BY <1>4, <1>7 DEF Taking
  <2>2. PICK p \in Ids : p = post[d]
    BY <1>0, <1>2, <1>7 DEF View, RowView
  <2>3. Post(p) = PostView(d, rows[d]) /\ ~Hidden(p)
    BY <1>0, <1>2, <1>7, <2>2 DEF View, RowView
  <2>4. Post(p)' = PostView(req[s].doc, req[s].owner)' /\ Hidden(p)'
    BY <1>0, <1>1, <1>4, <2>1, <2>2 DEF View, TakingView
  <2>5. Post(p)' = Post(p)
    BY <1>0, <1>1, <1>2, <1>4, <2>3, <2>4 DEF PostView
  <2>6. Post(p) # None
    <3>1. docs[d] # None /\ rows[d] \in Rows
      BY <1>0, <1>1, <1>2, <1>7 DEF RegistryInv, RowsNameDocuments, TypeOK
    <3>. QED
      BY <1>1, <2>3, <3>1, RowIsPost
  <2>7. Apart(p)
    BY <1>0, <1>1, <1>3, <1>4, <1>5, <2>2, ApartFrom
  <2>. QED
    BY <2>3, <2>4, <2>5, <2>6, <2>7, Withdraws
<1>. QED
  BY <1>6, <1>7

(* A delete that has taken a row ends, by a call or a crash: the post is gone
   for good, unless the row is back. *)
LEMMA TakingEnds ==
  ASSUME RegistryInv, View, View', NEW s \in Active, Taking(s), Active' = {},
         post' = post, NEW d \in Ids, d = req[s].doc,
         \A e \in Ids \ {d} : rows'[e] = rows[e],
         \A e \in Ids \ {d} : docs'[e] = docs[e],
         rows'[d] \in {None, req[s].owner}, rows'[d] # None => docs'[d] = docs[d]
  PROVE  Promise!Next
<1>1. Active = {s}
  BY TakingAlone
<1>2. PICK p \in Ids : p = post[d]
  BY DEF View, TakingView
<1>3. Post(p) = PostView(d, req[s].owner) /\ Hidden(p)
  BY <1>2 DEF View, TakingView
<1>4. Apart(p)
  BY <1>1, <1>2, ApartFrom
<1>5. CASE rows'[d] # None
  <2>1. Post(p)' = PostView(d, rows[d])' /\ ~Hidden(p)'
    BY <1>2, <1>5 DEF View, RowView
  <2>2. Post(p)' = Post(p)
    BY <1>3, <1>5, <2>1 DEF PostView
  <2>. QED
    BY <1>3, <1>4, <2>1, <2>2, Reinstates
<1>6. CASE rows'[d] = None
  <2>1. Lineage(s)
    BY AtRequest
  <2>2. \A e \in Ids : rows'[e] # None => post'[e] # p
    BY <1>2, <1>6, <2>1 DEF Lineage, Taking
  <2>3. Nowhere(p)'
    BY <2>2 DEF Nowhere
  <2>4. Post(p)' = None /\ ~Hidden(p)'
    BY <2>3 DEF View, NoView
  <2>. QED
    BY <1>3, <1>4, <2>4, Removes
<1>. QED
  BY <1>5, <1>6

(* The steps of a delete after it took the row: the post is removed with its
   document or comes back with its row. *)
LEMMA DeleteSeen ==
  ASSUME RegistryInv, RegistryInv', View, View', NEW s \in Active, req[s].kind = "delete",
         DeleteDocument(s) \/ Restore(s) \/ FailCall(s)
  PROVE  Promise!Next \/ UNCHANGED Promise!vars
<1>1. /\ TypeOK /\ ReqType /\ req[s] \in Request
      /\ Placed(s) /\ Gone(s) /\ Lineage(s) /\ Settled \subseteq Ids
      /\ post' = post
  BY AtRequest DEF DeleteDocument, Restore, FailCall
<1>2. Active = {s} /\ req[s].doc \in Ids
  BY <1>1, ByItself DEF Placed
<1>0. PICK d \in Ids : d = req[s].doc
  BY <1>2
<1>3. /\ \A e \in Ids \ {d} : docs'[e] = docs[e]
      /\ \A e \in Ids \ {d} : rows'[e] = rows[e]
  BY <1>0, <1>1 DEF DeleteDocument, Restore, FailCall, TypeOK
<1>4. req[s].pc \in {"delete", "restore"} => rows[d] = None
  BY <1>0, <1>1 DEF Gone
<1>5. CASE Taking(s) /\ req' = [req EXCEPT ![s] = Idle]
  <2>1. Active' = {}
    BY <1>1, <1>2, <1>5, Responds DEF Leaves
  <2>2. rows'[d] \in {None, req[s].owner} /\ (rows'[d] # None => docs'[d] = docs[d])
    BY <1>0, <1>1, <1>4, <1>5 DEF DeleteDocument, Restore, FailCall, TypeOK, Taking
  <2>. QED
    BY <1>0, <1>1, <1>3, <1>5, <2>1, <2>2, TakingEnds
<1>6. CASE Taking(s) /\ req' # [req EXCEPT ![s] = Idle]
  <2>1. Goto(s, "restore") /\ UNCHANGED <<docs, rows>>
    BY <1>0, <1>1, <1>6
       DEF DeleteDocument, Restore, FailCall, Taking, Gone, Respond
  <2>2. /\ Active' = {s} /\ req'[s].kind = "delete" /\ req'[s].doc = req[s].doc
        /\ req'[s].owner = req[s].owner /\ req'[s].pc = "restore"
    BY <1>1, <1>2, <2>1, GoesTo DEF Pcs, Moves
  <2>3. Taking(s)'
    BY <1>6, <2>2 DEF Taking
  <2>4. \A p \in Ids : Post(p)' = Post(p) /\ (Hidden(p)' <=> Hidden(p))
    BY <1>1, <1>2, <1>6, <2>1, <2>2, <2>3, SameView
  <2>. QED
    BY <2>4, Stutters
<1>7. CASE ~Taking(s)
  <2>1. req[s].pc # "restore"
    BY <1>1, <1>7 DEF Placed, Taking
  <2>2. rows' = rows
    BY <2>1 DEF DeleteDocument, Restore, FailCall
  <2>3. rows[d] # None => docs'[d] = docs[d]
    BY <1>4 DEF DeleteDocument, Restore, FailCall
  <2>4. req' = [req EXCEPT ![s] = Idle]
    BY <1>1, <1>7, <2>1
       DEF DeleteDocument, Restore, FailCall, Taking, Placed, Respond
  <2>5. Active' = {}
    BY <1>1, <1>2, <2>4, Responds DEF Leaves
  <2>. QED
    BY <1>1, <1>2, <1>3, <1>7, <2>2, <2>3, <2>5, Quiet
<1>. QED
  BY <1>5, <1>6, <1>7

(* The other calls of requests that are no deletes write no row, and to no
   document that has one. *)
LEMMA CallQuiet ==
  ASSUME RegistryInv, View, View', NEW s \in Active, Call(s),
         ~Register(s), ~Migrate(s), ~PublishPost(s),
         req[s].kind = "delete" => ReadOwner(s)
  PROVE  UNCHANGED Promise!vars
<1>1. /\ TypeOK /\ ReqType /\ req[s] \in Request
      /\ Placed(s) /\ Own(s) /\ Gone(s) /\ Settled \subseteq Ids /\ 1 .. minted \subseteq Ids
  BY AtRequest
<1>2. \A t \in Active : ~Taking(t)
  <2>1. ~Taking(s)
    BY DEF Taking, ReadOwner
  <2>. QED
    BY <2>1, TakingAlone
<1>3. \A t \in Active' : ~Taking(t)'
  <2>1. Active' \subseteq Active /\ \A t \in Active' : req'[t].kind = req[t].kind
    BY CallKeepsKind
  <2>2. CASE req[s].kind = "delete"
    <3>1. Active = {s}
      BY <2>2, ByItself
    <3>2. s \in Active' => req'[s].pc = "unregister"
      BY <1>1, <2>2, NotIdle DEF ReadOwner, Respond, Active, ReqType, Request
    <3>. QED
      BY <2>1, <3>1, <3>2 DEF Taking
  <2>3. CASE req[s].kind # "delete"
    <3>1. \A t \in Active : req[t].kind # "delete"
      BY <2>3, ByItself
    <3>. QED
      BY <2>1, <3>1 DEF Taking
  <2>. QED
    BY <2>2, <2>3
<1>4. ~DeleteDocument(s) /\ ~Restore(s) /\ ~Unregister(s)
  BY <1>1 DEF DeleteDocument, Restore, Unregister, ReadOwner, Placed, Request, Kinds
<1>5. rows' = rows
  BY <1>4 DEF Call, GetOld, ReadOwner, CheckExists, StoreNew, StoreForced, DropOld, Undo, FailCall
<1>6. \A d \in Ids : rows[d] # None => post'[d] = post[d] /\ docs'[d] = docs[d]
  <2>1. CASE UNCHANGED <<docs, post, strays>>
    BY <2>1
  <2>2. CASE StoreNew(s)
    <3>1. \A d \in Ids : rows[d] # None => d # minted + 1
      <4>1. minted \in Nat
        BY <1>1, RegistryAssumption DEF TypeOK
      <4>. QED
        BY <4>1 DEF RegistryInv, Unminted, Ids
    <3>. QED
      BY <1>1, <2>2, <3>1 DEF StoreNew, TypeOK
  <2>3. CASE StoreForced(s)
    <3>1. \A d \in Ids : rows[d] # None => post[d] # None
      BY DEF RegistryInv, Unminted
    <3>. QED
      BY <1>1, <2>3, <3>1 DEF StoreForced, TypeOK
  <2>4. CASE DropOld(s) \/ Undo(s)
    <3>1. DropOld(s) => rows[req[s].doc] = None
      BY <1>1 DEF DropOld, Gone
    <3>2. Undo(s) => rows[req[s].new] = None
      BY <1>1 DEF Undo, Own, Placed
    <3>. QED
      BY <1>1, <2>4, <3>1, <3>2 DEF DropOld, Undo, TypeOK
  <2>. QED
    BY <1>4, <2>1, <2>2, <2>3, <2>4 DEF Call, GetOld, ReadOwner, CheckExists, FailCall
<1>. QED
  BY <1>2, <1>3, <1>5, <1>6, Quiet

(* Every call is a step of Blog or not seen. *)
LEMMA CallSeen ==
  ASSUME RegistryInv, RegistryInv', View, View', NEW s \in Active, Call(s)
  PROVE  Promise!Next \/ UNCHANGED Promise!vars
<1>1. CASE Register(s) \/ Migrate(s) \/ PublishPost(s)
  BY <1>1, RegisterSeen, MigrateSeen, PublishSeen
<1>2. CASE /\ req[s].kind = "delete" /\ ~ReadOwner(s)
           /\ ~(Register(s) \/ Migrate(s) \/ PublishPost(s))
  <2>1. req[s].pc \in {"owner", "unregister", "delete", "restore"}
    BY <1>2, AtRequest DEF Placed
  <2>2. Unregister(s) \/ DeleteDocument(s) \/ Restore(s) \/ FailCall(s)
    BY <1>2, <2>1 DEF Call, GetOld, CheckExists, StoreNew, StoreForced, DropOld, Undo
  <2>. QED
    BY <1>2, <2>2, UnregisterSeen, DeleteSeen
<1>3. CASE /\ req[s].kind = "delete" => ReadOwner(s)
           /\ ~(Register(s) \/ Migrate(s) \/ PublishPost(s))
  BY <1>3, CallQuiet
<1>. QED
  BY <1>1, <1>2, <1>3

(* An arrival is not seen: it comes on its own, or beside updates and
   publishes, and has taken nothing yet. *)
LEMMA ArrivalSeen ==
  ASSUME RegistryInv, Careful, View, View', NEW s \in Requests,
         Create(s) \/ Update(s) \/ Delete(s) \/ Publish(s)
  PROVE  UNCHANGED Promise!vars
<1>1. PICK kind, user, doc, text, blog, force :
        kind \in Kinds /\ Arrive(s, kind, user, doc, text, blog, force)
  <2>1. \E kind \in Kinds : \E user, doc, text, blog, force :
          Arrive(s, kind, user, doc, text, blog, force)
    BY DEF Create, Update, Delete, Publish, Kinds
  <2>. QED
    BY <2>1
<1>2. UNCHANGED <<docs, rows, post, strays>> /\ ReqType
  BY <1>1 DEF Arrive, RegistryInv, TypeOK, ReqType
<1>3. \A t \in Active : ~Taking(t)
  BY <1>1 DEF Arrive, Taking, Careful
<1>4. \A t \in Active' \ {s} : t \in Active /\ req'[t] = req[t]
  BY <1>1, <1>2 DEF Arrive, Active, ReqType
<1>5. req'[s].pc \notin {"delete", "restore"}
  BY <1>1, <1>2 DEF Arrive, ReqType, Kinds
<1>6. \A t \in Active' : ~Taking(t)'
  BY <1>3, <1>4, <1>5 DEF Taking
<1>. QED
  BY <1>2, <1>3, <1>6, Quiet

(* A crash ends a delete half done: the post it had taken is removed for good,
   and no other post changes. *)
LEMMA CrashSeen ==
  ASSUME RegistryInv, View, View', Crash
  PROVE  Promise!Next \/ UNCHANGED Promise!vars
<1>1. Active' = {} /\ UNCHANGED <<docs, rows, post, strays>>
  BY DEF Crash, Active
<1>2. CASE \A s \in Active : ~Taking(s)
  BY <1>1, <1>2, Quiet
<1>3. ASSUME NEW s \in Active, Taking(s)
      PROVE  Promise!Next
  <2>1. PICK d \in Ids : d = req[s].doc
    BY <1>3 DEF View, TakingView
  <2>2. rows[d] = None
    BY <1>3, <2>1, AtRequest DEF Gone, Taking
  <2>. QED
    BY <1>1, <1>3, <2>1, <2>2, TakingEnds
<1>. QED
  BY <1>2, <1>3

(* Authors and readers see posts change only as the blog promises, however many
   updates and publishes run at once, wherever calls fail and the server dies:
   an update keeps author and state, a delete that fails restores both, nothing
   is published but by a publish request. *)
THEOREM RegistryKeepsBlog ==
  ASSUME Careful
  PROVE  Spec => KeepsBlog
<1>1. Init => Promise!Init
  <2>. SUFFICES ASSUME Init
                PROVE  Promise!Init
    OBVIOUS
  <2>1. \A p \in Ids : RowOf(p) = {} /\ Removing(p) = {}
    BY DEF Init, RowOf, Removing, Active
  <2>2. \A p \in Ids : Post(p) = None /\ ~Hidden(p)
    BY <2>1 DEF Post, Hidden
  <2>. QED
    BY <2>2 DEF Promise!Init
<1>2. RegistryInv /\ RegistryInv' /\ View /\ View' /\ [Next]_vars
        => [Promise!Next]_(Promise!vars)
  <2>. SUFFICES ASSUME RegistryInv, RegistryInv', View, View', [Next]_vars
                PROVE  Promise!Next \/ UNCHANGED Promise!vars
    OBVIOUS
  <2>1. CASE \E s \in Requests : Create(s) \/ Update(s) \/ Delete(s) \/ Publish(s)
    BY <2>1, ArrivalSeen
  <2>2. CASE \E s \in Active : Call(s)
    BY <2>2, CallSeen
  <2>3. CASE Crash
    BY <2>3, CrashSeen
  <2>4. CASE UNCHANGED vars
    <3>1. \A p \in Ids : Post(p)' = Post(p) /\ (Hidden(p)' <=> Hidden(p))
      BY <2>4, SameView DEF vars, Taking, Active
    <3>. QED
      BY <3>1, Stutters
  <2>. QED
    BY <2>1, <2>2, <2>3, <2>4 DEF Next
<1>. QED
  BY <1>1, <1>2, RegistryAlways, ViewHolds, PTL DEF Spec, KeepsBlog, Promise!Spec

=============================================================================

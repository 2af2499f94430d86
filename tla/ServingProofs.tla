--------------------------- MODULE ServingProofs ----------------------------
(***************************************************************************)
(* Theorems about the components that answer one reader at a time:         *)
(* Sessions, for any number of clients, emails, sessions and ticks; Chat,  *)
(* for any readers, hits and server bodies; Palette, for any texts and any *)
(* order of keys, timers and answers.                                      *)
(***************************************************************************)
EXTENDS Sessions, Chat, Palette, DataLemmas

-----------------------------------------------------------------------------
(***************************************************************************)
(* Sessions                                                                *)
(***************************************************************************)

User == [owner : Clients, role : Roles]

(* What a client may be at, with what it holds there.                       *)
Steps ==
    \A c \in Clients :
        /\ call[c].step \in {"free", "create", "issue", "revoke", "purge", "lookup"}
        /\ At(c, "create") => call[c].email \in Emails /\ call[c].role \in Roles
        /\ At(c, "issue") => call[c].email \in Emails
        /\ At(c, "revoke") \/ At(c, "lookup") => call[c].session \in issued
        /\ At(c, "purge") => call[c].now \in Int /\ call[c].now <= clock

SessionTypes ==
    /\ clock \in Int
    /\ users \in [Emails -> User \cup {NoUser}]
    /\ DOMAIN call = Clients
    /\ \A s \in issued : s.exp \in Int
    /\ loggedOut \subseteq issued
    /\ Steps

(* An answered registration made the account, and accounts do not change.   *)
Accounts ==
    \A r \in registered : /\ r[2] \in Emails /\ r[1] \in Clients /\ r = <<r[1], r[2]>>
                          /\ users[r[2]] # NoUser /\ users[r[2]].owner = r[1]

(* A stored revocation is only purged when its session has expired: the     *)
(* clock a logout read is never ahead.                                      *)
Revocations == \A s \in loggedOut : s \in revoked \/ s.exp < clock

SInv == SessionTypes /\ Accounts /\ Revocations

LEMMA SInvInit ==
  ASSUME SessionInit
  PROVE  SInv
  BY DEF SessionInit, SInv, SessionTypes, Steps, Accounts, Revocations, Free, At

(* A request that moves to another step disturbs nothing else.              *)
LEMMA MoveCall ==
  ASSUME SInv, NEW c \in Clients, NEW s, Go(c, s),
         UNCHANGED <<clock, users, registered, loggedOut, issued, revoked>>,
         s.step \in {"free", "create", "issue", "revoke", "purge", "lookup"},
         s.step = "create" => s.email \in Emails /\ s.role \in Roles,
         s.step = "issue" => s.email \in Emails,
         s.step \in {"revoke", "lookup"} => s.session \in issued,
         s.step = "purge" => s.now \in Int /\ s.now <= clock
  PROVE  SInv'
<1>1. DOMAIN call' = Clients /\ call'[c] = s /\ \A d \in Clients \ {c} : call'[d] = call[d]
  BY DEF SInv, SessionTypes, Go
<1>2. Steps'
  BY <1>1 DEF SInv, SessionTypes, Steps, At
<1>. QED  BY <1>1, <1>2 DEF SInv, SessionTypes, Accounts, Revocations

(* What stays true of the steps while the rest changes under them.          *)
LEMMA StepsGoOn ==
  ASSUME SInv, NEW c \in Clients, Done(c), clock' = clock, issued \subseteq issued'
  PROVE  DOMAIN call' = Clients /\ Steps'
<1>1. DOMAIN call' = Clients /\ call'[c] = Free /\ \A d \in Clients \ {c} : call'[d] = call[d]
  BY DEF SInv, SessionTypes, Done, Go
<1>. QED  BY <1>1 DEF SInv, SessionTypes, Steps, At, Free

LEMMA SInvBeginRegister ==
  ASSUME SInv, NEW c \in Clients, BeginRegister(c)
  PROVE  SInv'
<1>1. PICK email \in Emails : \E invite \in BOOLEAN :
         IF users[email] # NoUser THEN UNCHANGED call
         ELSE Go(c, [step |-> "create", email |-> email,
                     role |-> IF invite /\ email \in Invited THEN "author" ELSE "reader"])
  BY DEF BeginRegister
<1>2. CASE UNCHANGED call
  BY <1>2 DEF BeginRegister, SInv, SessionTypes, Steps, Accounts, Revocations, At
<1>3. ASSUME NEW role \in Roles, Go(c, [step |-> "create", email |-> email, role |-> role])
      PROVE  SInv'
  BY <1>3, MoveCall DEF BeginRegister
<1>. QED  BY <1>1, <1>2, <1>3 DEF Roles

(* The index decides: only an email without an account gets one.            *)
LEMMA SInvCreateUser ==
  ASSUME SInv, NEW c \in Clients, CreateUser(c)
  PROVE  SInv'
<1>. DEFINE e == call[c].email
            u == [owner |-> c, role |-> call[c].role]
<1>1. e \in Emails /\ u \in User /\ Done(c)
      /\ UNCHANGED <<clock, issued, revoked, loggedOut>>
  BY DEF CreateUser, SInv, SessionTypes, Steps, User
<1>2. DOMAIN call' = Clients /\ Steps'
  BY <1>1, StepsGoOn
<1>3. CASE UNCHANGED <<users, registered>>
  BY <1>1, <1>2, <1>3 DEF SInv, SessionTypes, Accounts, Revocations
<1>4. CASE /\ users[e] = NoUser /\ users' = [users EXCEPT ![e] = u]
           /\ registered' = registered \cup {<<c, e>>}
  <2>1. users' \in [Emails -> User \cup {NoUser}] /\ users'[e] = u /\ u # NoUser
        /\ \A d \in Emails \ {e} : users'[d] = users[d]
    BY <1>1, <1>4, SessionAssumption DEF SInv, SessionTypes, User
  <2>2. Accounts'
    BY <1>1, <1>4, <2>1 DEF SInv, Accounts
  <2>. QED  BY <1>1, <1>2, <2>1, <2>2 DEF SInv, SessionTypes, Revocations
<1>. QED  BY <1>3, <1>4 DEF CreateUser

LEMMA SInvBeginLogin ==
  ASSUME SInv, NEW c \in Clients, BeginLogin(c)
  PROVE  SInv'
<1>1. PICK email \in Emails :
         Go(c, [step |-> "issue", email |-> email, role |-> users[email].role])
  BY DEF BeginLogin
<1>. QED  BY <1>1, MoveCall DEF BeginLogin

LEMMA SInvIssue ==
  ASSUME SInv, NEW c \in Clients, Issue(c)
  PROVE  SInv'
<1>1. /\ issued \subseteq issued' /\ Done(c)
      /\ UNCHANGED <<clock, users, revoked, registered, loggedOut>>
      /\ \A s \in issued' : s \in issued \/ s.exp = clock + Ttl
  BY DEF Issue
<1>2. DOMAIN call' = Clients /\ Steps'
  BY <1>1, StepsGoOn
<1>. QED
  BY <1>1, <1>2, SessionAssumption DEF SInv, SessionTypes, Accounts, Revocations

LEMMA SInvBeginLogout ==
  ASSUME SInv, NEW c \in Clients, BeginLogout(c)
  PROVE  SInv'
<1>1. PICK s \in issued : Go(c, [step |-> "revoke", session |-> s])
  BY DEF BeginLogout
<1>. QED  BY <1>1, MoveCall DEF BeginLogout

LEMMA SInvRevoke ==
  ASSUME SInv, NEW c \in Clients, Revoke(c)
  PROVE  SInv'
<1>1. At(c, "revoke") /\ call[c].session \in issued
      /\ UNCHANGED <<clock, users, issued, registered>> /\ clock \in Int
  BY DEF Revoke, SInv, SessionTypes, Steps
<1>2. CASE /\ revoked' = revoked \cup {call[c].session}
           /\ loggedOut' = loggedOut \cup {call[c].session}
           /\ Go(c, [step |-> "purge", now |-> clock])
  <2>1. DOMAIN call' = Clients /\ call'[c] = [step |-> "purge", now |-> clock]
        /\ \A d \in Clients \ {c} : call'[d] = call[d]
    BY <1>2 DEF SInv, SessionTypes, Go
  <2>2. Steps'
    BY <1>1, <2>1 DEF SInv, SessionTypes, Steps, At
  <2>. QED  BY <1>1, <1>2, <2>1, <2>2 DEF SInv, SessionTypes, Accounts, Revocations
<1>3. CASE Done(c) /\ UNCHANGED <<revoked, loggedOut>>
  BY <1>1, <1>3, MoveCall DEF Done, Free
<1>. QED  BY <1>2, <1>3 DEF Revoke

(* A purge by an old reading of the clock takes only what has expired.      *)
LEMMA SInvPurge ==
  ASSUME SInv, NEW c \in Clients, Purge(c)
  PROVE  SInv'
<1>1. /\ call[c].now \in Int /\ call[c].now <= clock /\ clock \in Int /\ Done(c)
      /\ UNCHANGED <<clock, users, issued, registered, loggedOut>>
  BY DEF Purge, SInv, SessionTypes, Steps
<1>2. DOMAIN call' = Clients /\ Steps'
  BY <1>1, StepsGoOn
<1>3. Revocations'
  <2>1. ASSUME NEW s \in loggedOut
        PROVE  s \in revoked' \/ s.exp < clock
    <3>1. s.exp \in Int /\ (s \in revoked \/ s.exp < clock)
      BY DEF SInv, SessionTypes, Revocations
    <3>. QED  BY <1>1, <3>1 DEF Purge, Expired
  <2>. QED  BY <1>1, <2>1 DEF Revocations
<1>. QED  BY <1>1, <1>2, <1>3 DEF SInv, SessionTypes, Accounts

LEMMA SInvUse ==
  ASSUME SInv, NEW c \in Clients, BeginUse(c) \/ Lookup(c)
  PROVE  SInv'
<1>1. CASE BeginUse(c)
  <2>1. PICK s \in issued : Go(c, [step |-> "lookup", session |-> s])
    BY <1>1 DEF BeginUse
  <2>. QED  BY <1>1, <2>1, MoveCall DEF BeginUse
<1>2. CASE Lookup(c)
  BY <1>2, MoveCall DEF Lookup, Done, Free
<1>. QED  BY <1>1, <1>2

LEMMA SInvPass ==
  ASSUME SInv, Pass
  PROVE  SInv'
<1>1. clock \in Int /\ clock' = clock + 1
      /\ UNCHANGED <<users, issued, revoked, call, registered, loggedOut>>
  BY DEF Pass, SInv, SessionTypes
<1>2. Steps'
  BY <1>1 DEF SInv, SessionTypes, Steps, At
<1>3. Revocations'
  BY <1>1 DEF SInv, SessionTypes, Revocations
<1>. QED  BY <1>1, <1>2, <1>3 DEF SInv, SessionTypes, Accounts

LEMMA SInvAlways == SessionSpec => []SInv
<1>1. ASSUME SInv, [SessionNext]_sessionVars
      PROVE  SInv'
  <2>1. CASE UNCHANGED sessionVars
    BY <1>1, <2>1 DEF sessionVars, SInv, SessionTypes, Steps, Accounts, Revocations, At
  <2>2. ASSUME NEW c \in Clients,
               \/ BeginRegister(c) \/ CreateUser(c) \/ BeginLogin(c) \/ Issue(c)
               \/ BeginLogout(c) \/ Revoke(c) \/ Purge(c) \/ BeginUse(c) \/ Lookup(c)
        PROVE  SInv'
    BY <1>1, <2>2, SInvBeginRegister, SInvCreateUser, SInvBeginLogin, SInvIssue,
       SInvBeginLogout, SInvRevoke, SInvPurge, SInvUse
  <2>. QED  BY <1>1, <2>1, <2>2, SInvPass DEF SessionNext
<1>. QED  BY <1>1, SInvInit, PTL DEF SessionSpec

-----------------------------------------------------------------------------

(* However many registrations of one email pass the lookup together, at     *)
(* most one is answered 201, and the account is that one's.                 *)
THEOREM OneAccountPerEmailAlways == SessionSpec => []OneAccountPerEmail
<1>1. ASSUME SInv, NEW e \in Emails
      PROVE  Cardinality({r \in registered : r[2] = e}) <= 1
  <2>. DEFINE those == {r \in registered : r[2] = e}
  <2>1. those \subseteq {<<users[e].owner, e>>}
    BY <1>1 DEF SInv, Accounts
  <2>2. those = {} \/ those = {<<users[e].owner, e>>}
    BY <2>1
  <2>. HIDE DEF those
  <2>3. ASSUME those = {}
        PROVE  Cardinality(those) = 0
    BY <2>3, FS_EmptySet
  <2>4. ASSUME those = {<<users[e].owner, e>>}
        PROVE  Cardinality(those) = 1
    BY <2>4, FS_Singleton
  <2>5. Cardinality(those) \in {0, 1}
    BY <2>2, <2>3, <2>4
  <2>. QED  BY <2>5 DEF those
<1>2. SInv => OneAccountPerEmail
  BY <1>1 DEF SInv, Accounts, OneAccountPerEmail
<1>. QED  BY <1>2, SInvAlways, PTL

(* Whichever logouts purge the list meanwhile, a session that was logged    *)
(* out is not accepted again before it expires.                             *)
THEOREM RevokedStaysRevokedAlways == SessionSpec => []RevokedStaysRevoked
<1>1. SInv => RevokedStaysRevoked
  <2>1. ASSUME SInv, NEW c \in Clients, Accepts(c), clock <= call[c].session.exp,
               call[c].session \in loggedOut
        PROVE  FALSE
    <3>1. call[c].session.exp \in Int /\ clock \in Int
      BY <2>1 DEF SInv, SessionTypes
    <3>2. call[c].session.exp < clock
      BY <2>1 DEF SInv, Revocations, Accepts
    <3>. QED  BY <2>1, <3>1, <3>2
  <2>. QED  BY <2>1 DEF RevokedStaysRevoked
<1>. QED  BY <1>1, SInvAlways, PTL

-----------------------------------------------------------------------------

(* Nobody becomes an author without an invite, and accounts keep the role   *)
(* that their sessions carry.                                               *)
Invites ==
    /\ \A e \in Emails : users[e] # NoUser /\ users[e].role = "author" => e \in Invited
    /\ \A c \in Clients :
        /\ At(c, "create") /\ call[c].role = "author" => call[c].email \in Invited
        /\ At(c, "issue") => users[call[c].email] # NoUser
                             /\ call[c].role = users[call[c].email].role
    /\ \A s \in issued : s.email \in Emails /\ users[s.email] # NoUser
                         /\ s.role = users[s.email].role

(* A step that keeps the accounts and the sessions, and moves one request.  *)
LEMMA InvitesMove ==
  ASSUME SInv, Invites, NEW c \in Clients, NEW s, Go(c, s),
         UNCHANGED <<users, issued>>,
         s.step = "create" => (s.role = "author" => s.email \in Invited),
         s.step = "issue" => users[s.email] # NoUser /\ s.role = users[s.email].role
  PROVE  Invites'
<1>1. call'[c] = s /\ \A d \in Clients \ {c} : call'[d] = call[d]
  BY DEF SInv, SessionTypes, Go
<1>. QED  BY <1>1 DEF Invites, At

LEMMA InvitesStep ==
  ASSUME SInv, Invites, [SessionNext]_sessionVars
  PROVE  Invites'
<1>1. CASE UNCHANGED sessionVars \/ Pass
  BY <1>1 DEF sessionVars, Pass, Invites, At
<1>2. ASSUME NEW c \in Clients, BeginRegister(c)
      PROVE  Invites'
  <2>1. PICK email \in Emails : \E invite \in BOOLEAN :
         IF users[email] # NoUser THEN UNCHANGED call
         ELSE Go(c, [step |-> "create", email |-> email,
                     role |-> IF invite /\ email \in Invited THEN "author" ELSE "reader"])
    BY <1>2 DEF BeginRegister
  <2>2. CASE UNCHANGED call
    BY <1>2, <2>2 DEF BeginRegister, Invites, At
  <2>3. ASSUME NEW role \in Roles, role = "author" => email \in Invited,
               Go(c, [step |-> "create", email |-> email, role |-> role])
        PROVE  Invites'
    BY <1>2, <2>3, InvitesMove DEF BeginRegister
  <2>. QED  BY <2>1, <2>2, <2>3 DEF Roles
<1>3. ASSUME NEW c \in Clients, CreateUser(c)
      PROVE  Invites'
  <2>. DEFINE e == call[c].email
              u == [owner |-> c, role |-> call[c].role]
  <2>1. /\ e \in Emails /\ u \in User /\ u # NoUser /\ UNCHANGED issued
        /\ u.role = "author" => e \in Invited
        /\ users \in [Emails -> User \cup {NoUser}]
    BY <1>3, SessionAssumption DEF CreateUser, SInv, SessionTypes, Steps, User, Invites
  <2>2. call'[c] = Free /\ \A d \in Clients \ {c} : call'[d] = call[d]
    BY <1>3 DEF CreateUser, Done, Go, SInv, SessionTypes
  <2>3. CASE UNCHANGED <<users, registered>>
    BY <2>1, <2>2, <2>3 DEF Invites, At, Free
  <2>4. CASE users[e] = NoUser /\ users' = [users EXCEPT ![e] = u]
    <3>1. users'[e] = u /\ \A d \in Emails \ {e} : users'[d] = users[d]
      BY <2>1, <2>4
    <3>2. \A d \in Clients : At(d, "issue") => call[d].email \in Emails
      BY DEF SInv, SessionTypes, Steps
    <3>. QED  BY <2>1, <2>2, <2>4, <3>1, <3>2 DEF Invites, At, Free
  <2>. QED  BY <1>3, <2>3, <2>4 DEF CreateUser
<1>4. ASSUME NEW c \in Clients, BeginLogin(c)
      PROVE  Invites'
  <2>1. PICK email \in Emails : /\ users[email] # NoUser
         /\ Go(c, [step |-> "issue", email |-> email, role |-> users[email].role])
    BY <1>4 DEF BeginLogin
  <2>. QED  BY <1>4, <2>1, InvitesMove DEF BeginLogin
<1>5. ASSUME NEW c \in Clients, Issue(c)
      PROVE  Invites'
  <2>1. /\ At(c, "issue") /\ UNCHANGED users /\ call[c].email \in Emails
        /\ \A s \in issued' : s \in issued \/ (/\ s.email = call[c].email
                                               /\ s.role = call[c].role)
    BY <1>5 DEF Issue, SInv, SessionTypes, Steps
  <2>2. call'[c] = Free /\ \A d \in Clients \ {c} : call'[d] = call[d]
    BY <1>5 DEF Issue, Done, Go, SInv, SessionTypes
  <2>. QED  BY <2>1, <2>2 DEF Invites, At, Free
<1>6. ASSUME NEW c \in Clients, BeginLogout(c) \/ BeginUse(c)
      PROVE  Invites'
  <2>1. CASE BeginLogout(c)
    <3>1. PICK s \in issued : Go(c, [step |-> "revoke", session |-> s])
      BY <2>1 DEF BeginLogout
    <3>. QED  BY <2>1, <3>1, InvitesMove DEF BeginLogout
  <2>2. CASE BeginUse(c)
    <3>1. PICK s \in issued : Go(c, [step |-> "lookup", session |-> s])
      BY <2>2 DEF BeginUse
    <3>. QED  BY <2>2, <3>1, InvitesMove DEF BeginUse
  <2>. QED  BY <1>6, <2>1, <2>2
<1>7. ASSUME NEW c \in Clients, Revoke(c)
      PROVE  Invites'
  BY <1>7, InvitesMove DEF Revoke, Done, Free
<1>8. ASSUME NEW c \in Clients, Purge(c) \/ Lookup(c)
      PROVE  Invites'
  BY <1>8, InvitesMove DEF Purge, Lookup, Done, Free
<1>. QED  BY <1>1, <1>2, <1>3, <1>4, <1>5, <1>6, <1>7, <1>8 DEF SessionNext

(* Every session carries the role of its account, whatever requests of the  *)
(* same email overlap, and author takes an invite (auth.rs:119-139).        *)
THEOREM RolesFromInvitesAlways == SessionSpec => []RolesFromInvites
<1>1. Invites => RolesFromInvites
  BY DEF Invites, RolesFromInvites
<1>2. SessionInit => Invites
  BY DEF SessionInit, Invites, Free, At
<1>. QED  BY <1>1, <1>2, InvitesStep, SInvAlways, PTL DEF SessionSpec

-----------------------------------------------------------------------------
(***************************************************************************)
(* Palette                                                                 *)
(***************************************************************************)

PaletteTypes ==
    /\ seq \in Int /\ selected \in Nat /\ list.rows \in Int /\ rendered \in Int
    /\ isOpen \in BOOLEAN
    /\ timer \in Queries \cup {Quiet}
    /\ \A f \in flying : f.seq \in Int /\ f.seq <= seq

(* A closed palette waits for nothing; an open one waits only for the text *)
(* in its input, and not while the text's timer still runs.                *)
Awaited ==
    /\ ~isOpen => timer = Quiet /\ \A f \in flying : f.seq # seq
    /\ timer # Quiet => timer = query /\ \A f \in flying : f.seq # seq
    /\ \A f \in flying : f.seq = seq => f.of = query /\ query \in Queries

PInv == PaletteTypes /\ Awaited /\ RestShowsTheQuery

LEMMA PInvInit ==
  ASSUME PaletteInit
  PROVE  PInv
  BY DEF PaletteInit, PInv, PaletteTypes, Awaited, RestShowsTheQuery, Nothing

(* Closing: whatever was under way is stale from then on.                   *)
LEMMA PInvClosed ==
  ASSUME PInv, isOpen' = FALSE, Invalidate,
         UNCHANGED <<query, list, rendered, selected, early, flying>>
  PROVE  PInv'
<1>1. timer' = Quiet /\ seq' \in Int
      /\ \A f \in flying : f.seq \in Int /\ f.seq <= seq' /\ f.seq # seq'
  BY DEF PInv, PaletteTypes, Invalidate
<1>2. PaletteTypes'
  BY <1>1 DEF PInv, PaletteTypes
<1>3. Awaited'
  BY <1>1 DEF Awaited
<1>4. RestShowsTheQuery'
  BY DEF RestShowsTheQuery
<1>. QED  BY <1>2, <1>3, <1>4 DEF PInv

(* Opening starts afresh; opening an open palette changes nothing.          *)
LEMMA PInvOpened ==
  ASSUME PInv, SetOpen(TRUE), UNCHANGED <<seq, timer, flying>>
  PROVE  PInv'
<1>1. CASE isOpen
  BY <1>1 DEF PInv, PaletteTypes, Awaited, RestShowsTheQuery, SetOpen
<1>2. CASE ~isOpen
  <2>1. isOpen' = TRUE /\ query' = Empty /\ list' = Nothing /\ selected' = 0 /\ early' = FALSE
        /\ rendered' = rendered
    BY <1>2 DEF SetOpen
  <2>2. timer = Quiet /\ \A f \in flying : f.seq # seq
    BY <1>2 DEF PInv, Awaited
  <2>. QED  BY <2>1, <2>2 DEF PInv, PaletteTypes, Awaited, RestShowsTheQuery, Nothing
<1>. QED  BY <1>1, <1>2

LEMMA PInvClosing ==
  ASSUME PInv, CloseItself, UNCHANGED flying
  PROVE  PInv'
  BY PInvClosed DEF CloseItself, SetOpen

LEMMA PInvParent ==
  ASSUME PInv, NEW b \in BOOLEAN, ParentSets(b)
  PROVE  PInv'
<1>1. CASE b = TRUE
  BY <1>1, PInvOpened DEF ParentSets
<1>2. CASE b = FALSE
  BY <1>2, PInvClosed DEF ParentSets, SetOpen
<1>. QED  BY <1>1, <1>2

LEMMA PInvCommandK ==
  ASSUME PInv, CommandK
  PROVE  PInv'
<1>1. CASE isOpen
  BY <1>1, PInvClosing DEF CommandK
<1>2. CASE ~isOpen
  BY <1>2, PInvOpened DEF CommandK
<1>. QED  BY <1>1, <1>2

(* A key press makes every answer under way stale.                          *)
LEMMA PInvType ==
  ASSUME PInv, NEW text \in Queries \cup {Empty}, Type(text)
  PROVE  PInv'
<1>1. \A f \in flying : f.seq # seq' /\ f.seq <= seq'
  BY DEF PInv, PaletteTypes, Type
<1>2. timer' = Quiet \/ (timer' = text /\ text \in Queries)
  BY DEF Type
<1>3. CASE text = Empty
  BY <1>1, <1>3 DEF PInv, PaletteTypes, Awaited, RestShowsTheQuery, Type, Nothing
<1>4. CASE text # Empty
  <2>1. timer' = text /\ text \in Queries /\ query' = text /\ timer' # Quiet
    BY <1>4, PaletteAssumption DEF Type
  <2>. QED
    BY <1>1, <1>4, <2>1 DEF PInv, PaletteTypes, Awaited, RestShowsTheQuery, Type
<1>. QED  BY <1>3, <1>4

LEMMA PInvFire ==
  ASSUME PInv, Fire
  PROVE  PInv'
<1>1. /\ timer # Quiet /\ timer \in Queries /\ timer = query
      /\ \A f \in flying : f.seq \in Int /\ f.seq <= seq
      /\ seq \in Int /\ isOpen
  BY DEF Fire, PInv, PaletteTypes, Awaited
<1>2. /\ seq' = seq + 1 /\ timer' = Quiet
      /\ flying' = flying \cup {[seq |-> seq + 1, of |-> timer]}
      /\ UNCHANGED <<isOpen, query, list, rendered, selected, early>>
  BY DEF Fire
<1>3. \A f \in flying' : /\ f.seq \in Int /\ f.seq <= seq'
                         /\ f.seq = seq' => f.of = query
  BY <1>1, <1>2
<1>4. \E f \in flying' : f.seq = seq'
  <2>. DEFINE g == [seq |-> seq + 1, of |-> timer]
  <2>1. g \in flying' /\ g.seq = seq'
    BY <1>2
  <2>. QED  BY <2>1
<1>5. query # Empty
  BY <1>1, PaletteAssumption
<1>. QED  BY <1>1, <1>2, <1>3, <1>4, <1>5 DEF PInv, PaletteTypes, Awaited, RestShowsTheQuery

LEMMA PInvArrives ==
  ASSUME PInv, NEW f \in flying, Arrives(f)
  PROVE  PInv'
<1>1. flying' = flying \ {f} /\ UNCHANGED <<isOpen, query, rendered, seq, timer>>
  BY DEF Arrives
<1>2. CASE Fresh(f)
  <2>1. f.of = query /\ query \in Queries /\ query # Empty
    BY <1>2, PaletteAssumption DEF Fresh, PInv, Awaited
  <2>2. \/ /\ selected' = 0 /\ early' = FALSE
           /\ \E n \in 0 .. MaxRows : list' = [of |-> f.of, rows |-> n]
        \/ list' = Nothing /\ UNCHANGED <<selected, early>>
    BY <1>2 DEF Arrives
  <2>3. list'.rows \in Int /\ selected' \in Nat
    BY <2>2 DEF Nothing, PInv, PaletteTypes
  <2>4. list'.rows > 0 => list'.of = query /\ selected' = 0
    BY <2>1, <2>2 DEF Nothing
  <2>. QED
    BY <1>1, <2>1, <2>3, <2>4 DEF PInv, PaletteTypes, Awaited, RestShowsTheQuery
<1>3. CASE ~Fresh(f)
  <2>1. UNCHANGED <<list, selected, early>> /\ f.seq # seq
    BY <1>3 DEF Arrives, Fresh
  <2>. QED  BY <1>1, <2>1 DEF PInv, PaletteTypes, Awaited, RestShowsTheQuery
<1>. QED  BY <1>2, <1>3

LEMMA PInvArrow ==
  ASSUME PInv, Arrow
  PROVE  PInv'
<1>1. /\ rendered \in Int /\ rendered > 0 /\ selected \in Nat
      /\ UNCHANGED <<isOpen, query, list, rendered, seq, timer, flying>>
  BY DEF Arrow, PInv, PaletteTypes
<1>2. \/ selected' = IF selected + 1 < rendered THEN selected + 1 ELSE rendered - 1
      \/ selected' = IF selected > 0 THEN selected - 1 ELSE 0
  BY DEF Arrow
<1>3. selected' \in Nat /\ (selected' < rendered \/ selected' <= selected)
  BY <1>1, <1>2
<1>4. ~early' => ~early /\ rendered = list.rows
  BY <1>1 DEF Arrow
<1>5. isOpen /\ list.rows > 0 /\ ~early' => selected' \in 0 .. list.rows - 1
  BY <1>1, <1>3, <1>4 DEF PInv, RestShowsTheQuery
<1>. QED  BY <1>1, <1>3, <1>4, <1>5 DEF PInv, PaletteTypes, Awaited, RestShowsTheQuery

LEMMA PInvRender ==
  ASSUME PInv, Render
  PROVE  PInv'
  BY DEF Render, PInv, PaletteTypes, Awaited, RestShowsTheQuery

LEMMA PInvStep ==
  ASSUME PInv, [PaletteNext]_paletteVars
  PROVE  PInv'
<1>1. CASE UNCHANGED paletteVars
  BY <1>1 DEF paletteVars, PInv, PaletteTypes, Awaited, RestShowsTheQuery
<1>2. CASE Escape \/ SelectHit
  BY <1>2, PInvClosing DEF Escape, SelectHit
<1>. QED
  BY <1>1, <1>2, PInvParent, PInvCommandK, PInvType, PInvFire, PInvArrives, PInvArrow, PInvRender
     DEF PaletteNext

(* In every order of keys, timers, answers and failures, what an open       *)
(* palette at rest lists answers the text in its input.                     *)
THEOREM RestShowsTheQueryAlways == PaletteSpec => []RestShowsTheQuery
<1>1. PInv => RestShowsTheQuery
  BY DEF PInv
<1>. QED  BY <1>1, PInvInit, PInvStep, PTL DEF PaletteSpec

-----------------------------------------------------------------------------
(***************************************************************************)
(* Chat                                                                    *)
(*                                                                         *)
(* A prompt is as long as its parts, and every excerpt stops at the budget. *)
(* What a stream has sent is a beginning of its answer, and what the client *)
(* was told last is how the answer ended.                                  *)
(***************************************************************************)

-----------------------------------------------------------------------------
(* The prompt *)

Excerpt == [used : Nat, full : BOOLEAN]
HitSize == [header : Nat, content : Nat]

(* Truncating never lengthens, never exceeds the bound, and leaves what fits *)
(* alone.                                                                    *)
LEMMA TruncatedFits ==
  ASSUME NEW size \in Nat, NEW max \in Nat
  PROVE  /\ Truncated(size, max) \in Nat /\ Truncated(size, max) <= max
         /\ size <= max => Truncated(size, max) = size
<1>1. PICK width \in Nat : width = CharWidth /\ width # 0
  BY ChatAssumption
<1>2. PICK rest \in Nat : rest = max % width /\ rest <= max
  BY <1>1
<1>. QED  BY <1>1, <1>2 DEF Truncated

(* A hit is added whole with its separators or not at all.                   *)
LEMMA AddHitFits ==
  ASSUME NEW room \in Nat, NEW acc \in Excerpt, acc.used <= room, NEW hit \in HitSize
  PROVE  AddHit(room, acc, hit) \in Excerpt /\ AddHit(room, acc, hit).used <= room
<1>1. PICK used \in Nat, header \in Nat, content \in Nat :
         used = acc.used /\ header = hit.header /\ content = hit.content
  BY DEF Excerpt, HitSize
<1>2. CASE acc.full \/ used + header + 2 > room
  BY <1>1, <1>2 DEF AddHit, Excerpt
<1>3. CASE ~(acc.full \/ used + header + 2 > room)
  <2>1. PICK left \in Nat : left = room - used - header - 2
    BY <1>3
  <2>2. Truncated(content, left) \in Nat /\ Truncated(content, left) <= left
    BY TruncatedFits
  <2>3. PICK text \in Nat : text = Truncated(content, left) /\ text <= left
    BY <2>2
  <2>4. AddHit(room, acc, hit) = [used |-> used + header + 2 + text, full |-> FALSE]
    BY <1>1, <1>3, <2>1, <2>3 DEF AddHit, AddExcerpt
  <2>. QED  BY <2>1, <2>3, <2>4 DEF Excerpt
<1>. QED  BY <1>2, <1>3

(* So the excerpts fit the room there is for them.                           *)
LEMMA ExcerptsFit ==
  ASSUME NEW room \in Nat, NEW hits \in Seq(HitSize)
  PROVE  Excerpts(room, hits) \in Nat /\ Excerpts(room, hits) <= room
<1>. DEFINE b == Len(hits)
            start == [used |-> 0, full |-> FALSE]
            Room == {acc \in Excerpt : acc.used <= room}
            R(f) == f = [i \in 0 .. b |-> IF i = 0 THEN start
                                          ELSE AddHit(room, f[i - 1], hits[i])]
            added == CHOOSE f : R(f)
<1>1. b \in Nat /\ start \in Room
  BY DEF Excerpt
<1>2. PICK g : g = [p \in (1 .. b) \X Room |-> AddHit(room, p[2], hits[p[1]])]
  OBVIOUS
<1>3. \A i \in 1 .. b, x \in Room :
         /\ AddHit(room, x, hits[i]) \in Room
         /\ g[<<i, x>>] = AddHit(room, x, hits[i])
  <2>1. \A i \in 1 .. b : hits[i] \in HitSize
    OBVIOUS
  <2>2. \A i \in 1 .. b, x \in Room : AddHit(room, x, hits[i]) \in Room
    BY <2>1, AddHitFits
  <2>. QED  BY <1>2, <2>2
<1>4. PICK f \in [0 .. b -> Room] : Iterates(f, b, start, g)
  <2>1. g \in [(1 .. b) \X Room -> Room]
    BY <1>2, <1>3
  <2>. HIDE DEF start, b, Room
  <2>. QED  BY <1>1, <2>1, Recursion
<1>5. R(f)
  <2>1. ASSUME NEW i \in 0 .. b
        PROVE  f[i] = IF i = 0 THEN start ELSE AddHit(room, f[i - 1], hits[i])
    <3>1. CASE i # 0
      <4>1. i \in 1 .. b /\ f[i - 1] \in Room
        BY <1>1, <3>1
      <4>. QED  BY <1>3, <1>4, <3>1, <4>1 DEF Iterates
    <3>. QED  BY <1>4, <3>1 DEF Iterates
  <2>. HIDE DEF start
  <2>. QED  BY <2>1
<1>6. R(added)
  BY <1>5
<1>7. Excerpts(room, hits) = added[b].used
  BY DEF Excerpts
<1>. HIDE DEF added, start
<1>8. added[0] = start /\ \A i \in 1 .. b : added[i] = AddHit(room, added[i - 1], hits[i])
  BY <1>1, <1>6
<1>9. \A i \in 0 .. b : added[i] \in Room
  <2>. DEFINE T == {i \in 0 .. b : added[i] \in Room}
  <2>1. 0 \in T
    BY <1>1, <1>8
  <2>2. ASSUME NEW i \in 0 .. b - 1, i \in T PROVE i + 1 \in T
    <3>0. i + 1 \in 1 .. b /\ i + 1 - 1 = i
      BY <1>1
    <3>1. i + 1 \in 1 .. b /\ added[i + 1] = AddHit(room, added[i], hits[i + 1])
      BY <1>8, <3>0
    <3>2. added[i] \in Room
      BY <2>2
    <3>3. added[i + 1] \in Room /\ i + 1 \in 0 .. b
      <4>. HIDE DEF Room, T
      <4>. QED  BY <1>1, <1>3, <3>0, <3>1, <3>2
    <3>. QED  BY <3>3
  <2>. HIDE DEF T, b
  <2>3. \A i \in 0 .. b : i \in T
    BY <1>1, <2>1, <2>2, BoundedInduction
  <2>. QED  BY <2>3 DEF T
<1>10. added[b] \in Room
  BY <1>1, <1>9
<1>. QED  BY <1>7, <1>10 DEF Excerpt

Prompt == [size : Nat, message : Nat, question : Nat, budget : Nat]

\* What PromptFits asks of a prompt.
WithinBudget(p) ==
    /\ p.size <= p.budget
    /\ p.question + Reserved <= p.budget => p.message = p.question

(* A prompt that is built from a message, hits and the budget as lifted.     *)
LEMMA PromptBuilt ==
  ASSUME NEW p \in Prompts
  PROVE  LET built == BuildPrompt(p.question, p.hits, TokenBudget(p.budget))
         IN  built \in Prompt /\ WithinBudget(built)
<1>1. PICK question \in Nat, hits \in Seq(HitSize), reserved \in Nat, budget \in Nat :
         /\ question = p.question /\ hits = p.hits /\ reserved = Reserved
         /\ budget = TokenBudget(p.budget) /\ reserved <= budget
  <2>1. p.question \in Nat /\ p.hits \in Seq(HitSize) /\ Reserved \in Nat /\ p.budget \in Nat
    BY ChatAssumption DEF HitSize
  <2>2. TokenBudget(p.budget) \in Nat /\ Reserved <= TokenBudget(p.budget)
    BY <2>1 DEF TokenBudget
  <2>. QED  BY <2>1, <2>2
<1>2. PICK free \in Nat : free = budget - reserved /\ free = Monus(budget, Reserved)
  BY <1>1 DEF Monus
<1>3. PICK message \in Nat : /\ message = Truncated(question, free) /\ message <= free
                             /\ question <= free => message = question
  BY TruncatedFits
<1>4. PICK room \in Nat : room = free - message /\ room = Monus(free, message)
  BY <1>3 DEF Monus
<1>5. PICK used \in Nat : used = Excerpts(room, hits) /\ used <= room
  BY ExcerptsFit
<1>6. BuildPrompt(question, hits, budget) =
        [size |-> reserved + used + message, message |-> message,
         question |-> question, budget |-> budget]
  BY <1>1, <1>2, <1>3, <1>4, <1>5 DEF BuildPrompt
<1>7. reserved + used + message \in Nat /\ reserved + used + message <= budget
  <2>1. free = budget - reserved /\ message <= free /\ room = free - message /\ used <= room
    BY <1>2, <1>3, <1>4, <1>5
  <2>. QED  BY <2>1
<1>8. question + reserved <= budget => message = question
  BY <1>2, <1>3
<1>. QED  BY <1>1, <1>6, <1>7, <1>8 DEF Prompt, WithinBudget

-----------------------------------------------------------------------------
(* The answer *)

Deltas(body) == {i \in 1 .. Len(body) : /\ body[i] \in {"delta", "tail"}
                                        /\ \A j \in 1 .. i : body[j] # "done"}

\* How many of a body's deltas are among its first cells.
Count(body, k) == Cardinality({i \in Deltas(body) : i <= k})

(* The deltas of a body are finitely many, counted by its positions.         *)
LEMMA DeltasCounted ==
  ASSUME NEW body \in Seq(Cells), NEW k \in Nat
  PROVE  /\ Deltas(body) \in SUBSET (1 .. Len(body)) /\ IsFiniteSet(Deltas(body))
         /\ Cardinality(Deltas(body)) \in Nat
         /\ Count(body, k) \in 0 .. Cardinality(Deltas(body))
         /\ Count(body, 0) = 0
         /\ (\A i \in Deltas(body) : i <= k) => Count(body, k) = Cardinality(Deltas(body))
<1>1. Deltas(body) \in SUBSET (1 .. Len(body)) /\ IsFiniteSet(1 .. Len(body))
  BY Interval DEF Deltas
<1>2. IsFiniteSet(Deltas(body))
  BY <1>1, FS_Subset
<1>3. PICK all : all = Deltas(body)
  OBVIOUS
<1>4. PICK some : some = {i \in all : i <= k}
  OBVIOUS
<1>5. some \subseteq all
  BY <1>4
<1>6. Cardinality(some) \in Nat /\ Cardinality(all) \in Nat /\ Cardinality(some) <= Cardinality(all)
  BY <1>2, <1>3, <1>5, FS_Subset, FS_CardinalityType
<1>7. {i \in Deltas(body) : i <= 0} = {}
  BY <1>1
<1>8. Count(body, 0) = 0
  BY <1>7, FS_EmptySet DEF Count
<1>9. (\A i \in all : i <= k) => some = all
  BY <1>4
<1>10. PICK c \in Nat, a \in Nat : c = Cardinality(some) /\ a = Cardinality(all) /\ c <= a
  BY <1>6
<1>11. Count(body, k) = c /\ Cardinality(Deltas(body)) = a
  BY <1>3, <1>4, <1>10 DEF Count
<1>12. (\A i \in Deltas(body) : i <= k) => c = a
  BY <1>3, <1>9, <1>10
<1>13. c \in 0 .. a
  BY <1>10
<1>. QED  BY <1>1, <1>2, <1>8, <1>11, <1>12, <1>13

(* Cells that are no deltas do not count.                                    *)
LEMMA CountStays ==
  ASSUME NEW body \in Seq(Cells), NEW k \in Nat, NEW l \in Nat, k <= l,
         \A i \in Deltas(body) : i <= k \/ l < i
  PROVE  Count(body, l) = Count(body, k)
<1>1. \A i \in Deltas(body) : i \in Nat
  BY DEF Deltas
<1>2. {i \in Deltas(body) : i <= l} = {i \in Deltas(body) : i <= k}
  BY <1>1
<1>. QED  BY <1>2 DEF Count

(* The next delta counts one.                                                *)
LEMMA CountNext ==
  ASSUME NEW body \in Seq(Cells), NEW k \in Nat, NEW l \in Deltas(body), k < l,
         \A i \in Deltas(body) : i <= k \/ l <= i
  PROVE  l \in Nat /\ Count(body, l) = Count(body, k) + 1
<1>1. \A i \in Deltas(body) : i \in Nat
  BY DEF Deltas
<1>2. PICK some : some = {i \in Deltas(body) : i <= k}
  OBVIOUS
<1>3. IsFiniteSet(some)
  <2>1. some \subseteq Deltas(body)
    BY <1>2
  <2>. QED  BY <2>1, DeltasCounted, FS_Subset
<1>4. {i \in Deltas(body) : i <= l} = some \cup {l} /\ l \notin some
  BY <1>1, <1>2
<1>5. Cardinality(some \cup {l}) = Cardinality(some) + 1
  BY <1>3, <1>4, FS_AddElement
<1>. QED  BY <1>1, <1>2, <1>4, <1>5 DEF Count

(* AnswerOf gives each delta its place: the number of deltas up to it.       *)
LEMMA AnswerPlaces ==
  ASSUME NEW n \in Nat, NEW body \in Seq(Cells)
  PROVE  /\ AnswerOf(n, body) \in Seq(Nat \X Nat)
         /\ Len(AnswerOf(n, body)) = Cardinality(Deltas(body))
         /\ \A i \in Deltas(body) : /\ Count(body, i) \in 1 .. Len(AnswerOf(n, body))
                                    /\ AnswerOf(n, body)[Count(body, i)] = <<n, i>>
<1>1. PICK all \in SUBSET Int, size \in Nat :
         /\ all = Deltas(body) /\ size = Cardinality(all) /\ IsFiniteSet(all)
         /\ \A i \in all : i \in Nat
  <2>1. Deltas(body) \in SUBSET Int /\ \A i \in Deltas(body) : i \in Nat
    BY DEF Deltas
  <2>. QED  BY <2>1, DeltasCounted
<1>2. PICK R : R = {t \in all \X all : t[1] < t[2]}
  OBVIOUS
<1>3. StrictOrder(R, all)
  BY <1>2 DEF StrictOrder
<1>4. PICK rank \in [all -> 0 .. size - 1] :
         /\ \A i \in all : rank[i] = Cardinality({j \in all : j < i})
         /\ \A k \in 0 .. size - 1 : \E i \in all : rank[i] = k
         /\ \A i, j \in all : rank[i] = rank[j] => i = j
  <2>1. \A i \in all : {j \in all : j < i} = {j \in all : <<j, i>> \in R}
    BY <1>2
  <2>2. \A i \in all : Ranks(R, all)[i] = Cardinality({j \in all : j < i})
    BY <2>1 DEF Ranks
  <2>3. /\ Ranks(R, all) \in [all -> 0 .. size - 1]
        /\ \A k \in 0 .. size - 1 : \E i \in all : Ranks(R, all)[i] = k
        /\ \A i, j \in all : Ranks(R, all)[i] = Ranks(R, all)[j] => i = j
    BY <1>1, <1>3, RanksEnumerate
  <2>4. PICK rank : rank = Ranks(R, all)
    OBVIOUS
  <2>5. rank \in [all -> 0 .. size - 1]
    BY <2>3, <2>4
  <2>6. /\ \A i \in all : rank[i] = Cardinality({j \in all : j < i})
        /\ \A k \in 0 .. size - 1 : \E i \in all : rank[i] = k
        /\ \A i, j \in all : rank[i] = rank[j] => i = j
    BY <2>2, <2>3, <2>4
  <2>. QED  BY <2>5, <2>6
<1>5. \A i \in all : Count(body, i) = rank[i] + 1
  <2>1. SUFFICES ASSUME NEW i \in all PROVE Count(body, i) = rank[i] + 1
    OBVIOUS
  <2>2. PICK some : some = {j \in all : j < i}
    OBVIOUS
  <2>3. IsFiniteSet(some) /\ i \notin some
    <3>1. some \subseteq all /\ i \notin some
      BY <2>2
    <3>. QED  BY <1>1, <3>1, FS_Subset
  <2>4. {j \in Deltas(body) : j <= i} = some \cup {i}
    BY <1>1, <2>2
  <2>5. Cardinality(some \cup {i}) = Cardinality(some) + 1
    BY <2>3, FS_AddElement
  <2>. QED  BY <1>4, <2>2, <2>4, <2>5 DEF Count
<1>6. PICK place : place = [k \in 1 .. size |->
                              <<n, CHOOSE i \in all : Cardinality({j \in all : j < i}) = k - 1>>]
  OBVIOUS
<1>7. \A k \in 1 .. size : \E i \in all : place[k] = <<n, i>> /\ rank[i] = k - 1
  <2>1. SUFFICES ASSUME NEW k \in 1 .. size
                 PROVE  \E i \in all : place[k] = <<n, i>> /\ rank[i] = k - 1
    OBVIOUS
  <2>2. k - 1 \in 0 .. size - 1
    OBVIOUS
  <2>3. \E i \in all : Cardinality({j \in all : j < i}) = k - 1
    <3>1. PICK i \in all : rank[i] = k - 1
      BY <1>4, <2>2
    <3>. QED  BY <1>4, <3>1
  <2>4. PICK i \in all : /\ i = CHOOSE x \in all : Cardinality({j \in all : j < x}) = k - 1
                         /\ Cardinality({j \in all : j < i}) = k - 1
    BY <2>3
  <2>5. place[k] = <<n, i>>
    BY <1>6, <2>4
  <2>. QED  BY <1>4, <2>4, <2>5
<1>8. AnswerOf(n, body) = place
  BY <1>1, <1>6 DEF AnswerOf, Deltas
<1>9. place \in [1 .. size -> Nat \X Nat]
  <2>1. ASSUME NEW k \in 1 .. size
        PROVE  place[k] \in Nat \X Nat
    <3>1. PICK i \in all : place[k] = <<n, i>>
      BY <1>7
    <3>2. i \in Nat
      BY <1>1
    <3>. QED  BY <3>1, <3>2
  <2>. QED  BY <1>6, <2>1
<1>10. place \in Seq(Nat \X Nat) /\ Len(place) = size
  BY <1>9, FunctionIsSeq
<1>11. ASSUME NEW i \in all
       PROVE  Count(body, i) \in 1 .. size /\ place[Count(body, i)] = <<n, i>>
  <2>1. PICK k \in 1 .. size : k = Count(body, i) /\ rank[i] = k - 1
    BY <1>4, <1>5
  <2>2. PICK j \in all : place[k] = <<n, j>> /\ rank[j] = k - 1
    BY <1>7
  <2>3. i = j
    BY <1>4, <2>1, <2>2
  <2>. QED  BY <2>1, <2>2, <2>3
<1>. QED  BY <1>1, <1>8, <1>10, <1>11

-----------------------------------------------------------------------------
(* What is on its way *)

Events == [name : {"citation"}, of : Nat] \cup [name : {"token"}, token : Nat \X Nat]
            \cup [name : {"error", "done"}]

\* The buffer is a part of the body behind what was taken; nothing was taken
\* behind the end marker.
Reads == {p \in [at : {"read"}, body : Bodies, taken : Nat, got : Nat] :
            /\ p.taken <= p.got /\ p.got <= Len(p.body)
            /\ \A j \in 1 .. p.taken : p.body[j] # "done"}

Prompted == {p \in [at : {"connect"}, prompt : Prompt] : WithinBudget(p.prompt)}

Sends == [at : {"send"}, event : Events, next : Prompted \cup Reads \cup {Ended}]

Stages == [at : {"off", "search", "ended"}] \cup Prompted \cup Reads \cup Sends

\* e is event number k of the answer of stream n, from a body.
Told(e, n, body, k) ==
    \/ k = 1 /\ e = [name |-> "citation", of |-> n]
    \/ /\ k - 1 \in 1 .. Len(AnswerOf(n, body))
       /\ e = [name |-> "token", token |-> AnswerOf(n, body)[k - 1]]

\* The first m events of w follow the d events that were delivered.
Tells(w, m, n, body, d) == \A k \in 1 .. m : Told(w[k], n, body, d + k)

\* An error may end the answer anywhere, "done" only where it is complete:
\* as event number k.
Final(e, n, body, k) ==
    /\ e.name \in {"error", "done"}
    /\ e.name = "done" => k = Len(AnswerOf(n, body)) + 2

\* How a pipeline p, its events w on their way and the d delivered ones fit
\* together, for a stream whose client still listens.
Flow(p, w, n, body, d) ==
    /\ p.at \in {"off", "search"} => w = <<>> /\ d = 0
    /\ p.at = "connect" => d + Len(w) = 1 /\ Tells(w, Len(w), n, body, d)
    /\ p.at = "read" => /\ p.body = body /\ d + Len(w) = Count(body, p.taken) + 1
                        /\ Tells(w, Len(w), n, body, d)
    /\ p.at = "send" =>
         /\ Tells(w, Len(w), n, body, d)
         /\ p.next.at = "connect" => w = <<>> /\ d = 0 /\ Told(p.event, n, body, 1)
         /\ p.next.at = "read" => /\ p.next.body = body
                                  /\ d + Len(w) = Count(body, p.next.taken)
                                  /\ Told(p.event, n, body, d + Len(w) + 1)
         /\ p.next.at = "ended" => Final(p.event, n, body, d + Len(w) + 1)
    /\ p.at = "ended" =>
         \/ w = <<>>
         \/ /\ Len(w) # 0 /\ Tells(w, Len(w) - 1, n, body, d)
            /\ Final(w[Len(w)], n, body, d + Len(w))

\* Nothing of the answer can have been shown.
Early(p) == p.at \in {"off", "search", "connect"} \/ (p.at = "send" /\ p.next.at = "connect")

\* A step of the pipeline alone.
Leads(p, q, n) ==
    \A w \in Seq(Events), body \in Seq(Cells), d \in Nat :
        Flow(p, w, n, body, d) => Flow(q, w, n, body, d)

(* Cells that a buffer holds without a line's end are parts, but for a tail  *)
(* at the end of the body.                                                   *)
LEMMA OpenLine ==
  ASSUME NEW p \in Reads, NEW k \in p.taken .. p.got,
         \A j \in p.taken + 1 .. k : p.body[j] \in {"part", "tail"}
  PROVE  /\ p.body \in Seq(Cells) /\ p.taken \in Nat /\ p.got \in Nat /\ Len(p.body) \in Nat
         /\ p.taken <= p.got /\ p.got <= Len(p.body)
         /\ \A j \in p.taken + 1 .. k : j # Len(p.body) => p.body[j] = "part"
         /\ \A j \in 1 .. k : p.body[j] # "done"
<1>1. /\ p.body \in Bodies /\ p.taken \in Nat /\ p.got \in Nat
      /\ p.taken <= p.got /\ p.got <= Len(p.body)
      /\ \A j \in 1 .. p.taken : p.body[j] # "done"
  BY DEF Reads
<1>2. p.body \in Seq(Cells) /\ \A i \in 1 .. Len(p.body) - 1 : p.body[i] # "tail"
  BY <1>1, ChatAssumption
<1>3. PICK t \in Nat, g \in Nat, l \in Nat : t = p.taken /\ g = p.got /\ l = Len(p.body)
  BY <1>1, <1>2
<1>4. k \in Nat /\ k <= g /\ t <= g /\ g <= l
  BY <1>1, <1>3
<1>5. \A j \in t + 1 .. k : j # l => j \in 1 .. l - 1
  BY <1>3, <1>4
<1>6. \A j \in t + 1 .. k : j # l => p.body[j] = "part"
  BY <1>2, <1>3, <1>5
<1>7. \A j \in 1 .. k : j \in 1 .. t \/ j \in t + 1 .. k
  BY <1>3, <1>4
<1>8. \A j \in 1 .. k : p.body[j] # "done"
  BY <1>1, <1>3, <1>7
<1>. QED  BY <1>1, <1>2, <1>3, <1>6, <1>8

(* A pipeline may fail at any time.                                          *)
LEMMA FailingLeads ==
  ASSUME NEW n \in Nat, NEW p \in Stages, p.at \in {"search", "connect", "read"}
  PROVE  Failing \in Stages /\ Leads(p, Failing, n) /\ ~Early(Failing)
<1>1. Failing = [at |-> "send", event |-> [name |-> "error"], next |-> [at |-> "ended"]]
  BY DEF Failing, Sending, ErrorEvent, Ended
<1>2. Failing \in Stages
  BY <1>1 DEF Stages, Sends, Events, Ended
<1>3. ASSUME NEW w \in Seq(Events), NEW body \in Seq(Cells), NEW d \in Nat, Flow(p, w, n, body, d)
      PROVE  Tells(w, Len(w), n, body, d)
  <2>1. CASE w = <<>>
    BY <2>1 DEF Tells
  <2>. QED  BY <1>3, <2>1 DEF Flow
<1>4. ASSUME NEW w \in Seq(Events), NEW body \in Seq(Cells), NEW d \in Nat,
             Tells(w, Len(w), n, body, d)
      PROVE  Flow(Failing, w, n, body, d)
  BY <1>1, <1>4 DEF Flow, Final
<1>. QED  BY <1>1, <1>2, <1>3, <1>4 DEF Leads, Early

(* A buffer that takes cells without a delta or the end marker.              *)
LEMMA TakingLeads ==
  ASSUME NEW n \in Nat, NEW p \in Reads, NEW i \in p.taken .. p.got, NEW g \in p.got .. Len(p.body),
         \A j \in 1 .. i : p.body[j] # "done",
         \A j \in Deltas(p.body) : j <= p.taken \/ i < j,
         NEW q, q = [p EXCEPT !.taken = i, !.got = g]
  PROVE  q \in Stages /\ Leads(p, q, n) /\ ~Early(q)
<1>1. /\ p.body \in Bodies /\ p.body \in Seq(Cells) /\ p.taken \in Nat /\ p.got \in Nat
      /\ p.got <= Len(p.body) /\ p.at = "read" /\ p.taken <= p.got
  BY ChatAssumption DEF Reads
<1>2. q = [at |-> "read", body |-> p.body, taken |-> i, got |-> g]
  BY DEF Reads
<1>3. i \in Nat /\ g \in Nat /\ i <= g /\ g <= Len(p.body) /\ p.taken <= i
  BY <1>1
<1>4. q \in Reads
  BY <1>1, <1>2, <1>3 DEF Reads
<1>5. Count(p.body, i) = Count(p.body, p.taken)
  BY <1>1, <1>3, CountStays
<1>6. Leads(p, q, n)
  BY <1>1, <1>2, <1>5 DEF Leads, Flow
<1>7. ~Early(q)
  <2>1. q.at = "read"
    BY <1>4 DEF Reads
  <2>. QED  BY <2>1, Zenon DEF Early
<1>8. q \in Stages
  BY <1>4 DEF Stages
<1>. QED  BY <1>6, <1>7, <1>8

(* The next delta is sent as the next event.                                 *)
LEMMA TokenLeads ==
  ASSUME NEW n \in Nat, NEW p \in Reads, NEW i \in p.taken + 1 .. p.got, i \in Deltas(p.body),
         \A j \in Deltas(p.body) : j <= p.taken \/ i <= j,
         NEW q, q = Sending(Token(n, i), [p EXCEPT !.taken = i])
  PROVE  q \in Stages /\ Leads(p, q, n) /\ ~Early(q)
<1>1. /\ p.body \in Bodies /\ p.body \in Seq(Cells) /\ p.taken \in Nat /\ p.got \in Nat
      /\ p.got <= Len(p.body) /\ p.at = "read"
  BY ChatAssumption DEF Reads
<1>2. PICK rest : rest = [at |-> "read", body |-> p.body, taken |-> i, got |-> p.got]
  OBVIOUS
<1>3. q = [at |-> "send", event |-> [name |-> "token", token |-> <<n, i>>], next |-> rest]
  BY <1>2 DEF Reads, Sending, Token
<1>4. i \in Nat /\ i <= p.got /\ p.taken < i
  BY <1>1
<1>5. \A j \in 1 .. i : p.body[j] # "done"
  BY DEF Deltas
<1>6. rest \in Reads
  BY <1>1, <1>2, <1>4, <1>5 DEF Reads
<1>7. q \in Stages
  BY <1>3, <1>4, <1>6 DEF Stages, Sends, Events
<1>8. Count(p.body, i) = Count(p.body, p.taken) + 1
  BY <1>1, <1>4, CountNext
<1>9. PICK c \in Nat : c = Count(p.body, p.taken)
  BY <1>1, DeltasCounted
<1>10. c + 1 \in 1 .. Len(AnswerOf(n, p.body)) /\ AnswerOf(n, p.body)[c + 1] = <<n, i>>
  <2>1. Count(p.body, i) \in 1 .. Len(AnswerOf(n, p.body))
        /\ AnswerOf(n, p.body)[Count(p.body, i)] = <<n, i>>
    BY <1>1, AnswerPlaces
  <2>. QED  BY <1>8, <1>9, <2>1
<1>11. Told(q.event, n, p.body, c + 2)
  <2>1. PICK k \in Nat : k = c + 2 /\ k - 1 = c + 1
    OBVIOUS
  <2>2. q.event = [name |-> "token", token |-> <<n, i>>]
    BY <1>3
  <2>3. q.event = [name |-> "token", token |-> AnswerOf(n, p.body)[k - 1]]
    BY <1>10, <2>1, <2>2
  <2>. QED  BY <1>10, <2>1, <2>3 DEF Told
<1>12. ASSUME NEW w \in Seq(Events), NEW d \in Nat, Flow(p, w, n, p.body, d)
       PROVE  Flow(q, w, n, p.body, d)
  <2>1. d + Len(w) = c + 1 /\ Tells(w, Len(w), n, p.body, d)
    BY <1>1, <1>9, <1>12 DEF Flow
  <2>2. d + Len(w) + 1 = c + 2
    BY <2>1
  <2>3. q.at = "send" /\ q.next = rest /\ rest.at = "read" /\ rest.body = p.body /\ rest.taken = i
    BY <1>2, <1>3
  <2>. QED  BY <1>8, <1>9, <1>11, <2>1, <2>2, <2>3 DEF Flow
<1>13. \A w \in Seq(Events), body \in Seq(Cells), d \in Nat :
          Flow(p, w, n, body, d) => body = p.body
  BY <1>1 DEF Flow
<1>14. Leads(p, q, n)
  BY <1>12, <1>13 DEF Leads
<1>15. ~Early(q)
  BY <1>2, <1>3 DEF Early
<1>. QED  BY <1>7, <1>14, <1>15

(* The end is sent when no delta is left.                                    *)
LEMMA DoneLeads ==
  ASSUME NEW n \in Nat, NEW p \in Reads, \A j \in Deltas(p.body) : j <= p.taken,
         NEW q, q = Sending(DoneEvent, Ended)
  PROVE  q \in Stages /\ Leads(p, q, n) /\ ~Early(q)
<1>1. /\ p.body \in Seq(Cells) /\ p.taken \in Nat /\ p.at = "read"
  BY ChatAssumption DEF Reads
<1>2. q = [at |-> "send", event |-> [name |-> "done"], next |-> [at |-> "ended"]]
  BY DEF DoneEvent, Sending, Ended
<1>3. q \in Stages
  BY <1>2 DEF Stages, Sends, Events, Ended
<1>4. PICK c \in Nat : /\ c = Count(p.body, p.taken) /\ c = Len(AnswerOf(n, p.body))
  BY <1>1, DeltasCounted, AnswerPlaces
<1>5. ASSUME NEW w \in Seq(Events), NEW d \in Nat, Flow(p, w, n, p.body, d)
      PROVE  Flow(q, w, n, p.body, d)
  <2>1. d + Len(w) = c + 1 /\ Tells(w, Len(w), n, p.body, d)
    BY <1>1, <1>4, <1>5 DEF Flow
  <2>2. d + Len(w) + 1 = Len(AnswerOf(n, p.body)) + 2
    BY <1>4, <2>1
  <2>. QED  BY <1>2, <2>1, <2>2 DEF Flow, Final
<1>6. Leads(p, q, n)
  BY <1>1, <1>5 DEF Leads, Flow
<1>. QED  BY <1>2, <1>3, <1>6 DEF Early

-----------------------------------------------------------------------------
(* The steps of a pipeline *)

PipeTyped == pipe \in [Streams -> Stages]

\* The pipeline of stream n goes on as q.
Goes(n, q) == pipe' = [pipe EXCEPT ![n] = q] /\ q \in Stages

(* A request is accepted, or refused by its search, or answered with the     *)
(* citations.                                                                *)
LEMMA SearchSteps ==
  ASSUME PipeTyped, NEW n \in Streams, Accept(n) \/ SearchDone(n)
  PROVE  \E q : Goes(n, q) /\ Leads(pipe[n], q, n) /\ Early(pipe[n])
<1>0. n \in Nat /\ pipe[n] \in Stages
  BY ChatAssumption DEF PipeTyped, Streams
<1>1. CASE Accept(n)
  <2>1. pipe' = [pipe EXCEPT ![n] = [at |-> "search"]] /\ pipe[n] = [at |-> "off"]
    BY <1>1 DEF Accept, Pipe, Off
  <2>2. PICK q : q = [at |-> "search"]
    OBVIOUS
  <2>3. Leads(pipe[n], q, n)
    BY <2>1, <2>2 DEF Leads, Flow
  <2>4. Goes(n, q)
    BY <2>1, <2>2 DEF Goes, Stages
  <2>5. Early(pipe[n])
    BY <2>1 DEF Early
  <2>. QED  BY <2>3, <2>4, <2>5
<1>2. CASE SearchDone(n) /\ Pipe(n, Failing)
  <2>1. pipe[n].at = "search"
    BY <1>2 DEF SearchDone
  <2>2. Failing \in Stages /\ Leads(pipe[n], Failing, n)
    BY <1>0, <2>1, FailingLeads
  <2>. QED  BY <1>2, <2>1, <2>2 DEF Goes, Pipe, Early
<1>3. CASE SearchDone(n) /\ ~Pipe(n, Failing)
  <2>1. pipe[n].at = "search"
    BY <1>3 DEF SearchDone
  <2>2. PICK p \in Prompts : Pipe(n, Sending([name |-> "citation", of |-> n],
                      [at |-> "connect",
                       prompt |-> BuildPrompt(p.question, p.hits, TokenBudget(p.budget))]))
    BY <1>3 DEF SearchDone
  <2>3. PICK built \in Prompt : /\ built = BuildPrompt(p.question, p.hits, TokenBudget(p.budget))
                                /\ WithinBudget(built)
    BY PromptBuilt
  <2>4. PICK q : q = [at |-> "send", event |-> [name |-> "citation", of |-> n],
                      next |-> [at |-> "connect", prompt |-> built]]
    OBVIOUS
  <2>5. pipe' = [pipe EXCEPT ![n] = q]
    BY <2>2, <2>3, <2>4 DEF Pipe, Sending
  <2>6. q \in Stages
    BY <1>0, <2>3, <2>4 DEF Stages, Sends, Events, Prompted
  <2>7. \A body : Told(q.event, n, body, 1)
    BY <2>4 DEF Told
  <2>8. \A w, body, d : w = <<>> => Tells(w, Len(w), n, body, d)
    BY DEF Tells
  <2>9. Leads(pipe[n], q, n)
    BY <2>1, <2>4, <2>7, <2>8 DEF Leads, Flow
  <2>. QED  BY <2>1, <2>5, <2>6, <2>9 DEF Goes, Early
<1>. QED  BY <1>1, <1>2, <1>3

(* The model's body begins, and fits what is on its way.                     *)
LEMMA ConnectLeads ==
  ASSUME NEW n \in Nat, NEW p \in Prompted, NEW body \in Bodies,
         NEW q, q = [at |-> "read", body |-> body, taken |-> 0, got |-> 0]
  PROVE  /\ q \in Stages
         /\ \A w \in Seq(Events), before \in Seq(Cells), d \in Nat :
              Flow(p, w, n, before, d) => Flow(q, w, n, body, d)
<1>1. body \in Seq(Cells) /\ p.at = "connect" /\ Len(body) \in Nat
  BY ChatAssumption DEF Prompted
<1>2. q \in Reads
  BY <1>1 DEF Reads
<1>3. Count(body, 0) = 0
  BY <1>1, DeltasCounted
<1>4. ASSUME NEW w \in Seq(Events), NEW before \in Seq(Cells), NEW d \in Nat, Flow(p, w, n, before, d)
      PROVE  Flow(q, w, n, body, d)
  <2>1. d + Len(w) = 1 /\ Tells(w, Len(w), n, before, d)
    BY <1>1, <1>4 DEF Flow
  <2>2. ASSUME NEW k \in 1 .. Len(w)
        PROVE  Told(w[k], n, body, d + k)
    <3>1. d + k = 1
      BY <2>1
    <3>2. Told(w[k], n, before, 1)
      BY <2>1, <3>1 DEF Tells
    <3>3. Told(w[k], n, body, 1)
      BY <3>2 DEF Told
    <3>. QED  BY <3>1, <3>3
  <2>3. Tells(w, Len(w), n, body, d)
    BY <2>2 DEF Tells
  <2>. QED  BY <1>3, <2>1, <2>3 DEF Flow
<1>. QED  BY <1>2, <1>4 DEF Stages

(* A line in the buffer.                                                     *)
LEMMA LineSteps ==
  ASSUME PipeTyped, NEW n \in Streams, ReadLine(n)
  PROVE  \E q : Goes(n, q) /\ Leads(pipe[n], q, n) /\ ~Early(q)
<1>1. pipe[n].at = "read" /\ LineEnds(pipe[n]) # {} /\ n \in Nat
  BY ChatAssumption DEF ReadLine, Streams
<1>2. PICK p \in Reads : p = pipe[n]
  BY <1>1 DEF PipeTyped, Stages, Prompted, Sends
<1>3. PICK i \in p.taken + 1 .. p.got :
         /\ i = LineEnd(p) /\ p.body[i] \notin {"part", "tail"}
         /\ \A j \in p.taken + 1 .. i - 1 : p.body[j] \in {"part", "tail"}
  <2>1. PICK S \in SUBSET Nat : S = LineEnds(p) /\ S # {}
    <3>1. p.taken \in Nat /\ p.got \in Nat
      BY DEF Reads
    <3>2. LineEnds(p) \in SUBSET Nat
      BY <3>1 DEF LineEnds
    <3>. QED  BY <1>1, <1>2, <3>2
  <2>2. \E i \in S : \A j \in S : i <= j
    BY <2>1, LeastNatural
  <2>3. PICK i \in S : i = LineEnd(p) /\ \A j \in S : i <= j
    BY <2>1, <2>2 DEF LineEnd
  <2>. QED  BY <2>1, <2>3 DEF LineEnds, Reads
<1>4. PICK k \in p.taken .. p.got : k = i - 1
  BY DEF Reads
<1>5. /\ p.body \in Seq(Cells) /\ p.taken \in Nat /\ p.got \in Nat /\ Len(p.body) \in Nat
      /\ p.taken <= p.got /\ p.got <= Len(p.body)
      /\ \A j \in p.taken + 1 .. k : j # Len(p.body) => p.body[j] = "part"
      /\ \A j \in 1 .. k : p.body[j] # "done"
  BY <1>3, <1>4, OpenLine
<1>6. i \in Nat /\ i \in 1 .. Len(p.body) /\ i \in p.taken .. p.got
  BY <1>5
<1>7. \A j \in Deltas(p.body) : j <= p.taken \/ i <= j
  <2>1. SUFFICES ASSUME NEW j \in Deltas(p.body), p.taken < j, j < i PROVE FALSE
    BY <1>5, <1>6 DEF Deltas
  <2>2. j \in p.taken + 1 .. k /\ j # Len(p.body)
    BY <1>4, <1>5, <1>6, <2>1 DEF Deltas
  <2>. QED  BY <1>5, <2>2 DEF Deltas
<1>8. \A j \in 1 .. i : j = i \/ p.body[j] # "done"
  BY <1>4, <1>5, <1>6
<1>9. PICK rest : rest = [p EXCEPT !.taken = i]
  OBVIOUS
<1>10. \/ Pipe(n, Failing)
       \/ p.body[i] = "delta" /\ Pipe(n, Sending(Token(n, i), rest))
       \/ p.body[i] = "done" /\ Pipe(n, Sending(DoneEvent, Ended))
       \/ p.body[i] = "skip" /\ Pipe(n, rest)
  BY <1>2, <1>3, <1>9, Zenon DEF ReadLine
<1>11. CASE Pipe(n, Failing)
  <2>1. Failing \in Stages /\ Leads(p, Failing, n) /\ ~Early(Failing)
    BY <1>1, <1>2, FailingLeads DEF Stages
  <2>. QED  BY <1>1, <1>2, <1>11, <2>1 DEF Goes, Pipe
<1>12. CASE p.body[i] = "delta" /\ Pipe(n, Sending(Token(n, i), rest))
  <2>1. i \in Deltas(p.body)
    BY <1>6, <1>8, <1>12 DEF Deltas
  <2>2. PICK q : q = Sending(Token(n, i), [p EXCEPT !.taken = i])
    OBVIOUS
  <2>3. q \in Stages /\ Leads(p, q, n) /\ ~Early(q)
    BY <1>1, <1>7, <2>1, <2>2, TokenLeads
  <2>. QED  BY <1>1, <1>2, <1>9, <1>12, <2>2, <2>3 DEF Goes, Pipe
<1>13. CASE p.body[i] = "done" /\ Pipe(n, Sending(DoneEvent, Ended))
  <2>1. \A j \in Deltas(p.body) : j < i
    BY <1>6, <1>13 DEF Deltas
  <2>2. \A j \in Deltas(p.body) : j <= p.taken
    <3>1. \A j \in Deltas(p.body) : j \in Nat
      BY DEF Deltas
    <3>2. p.taken \in Nat /\ i \in Nat
      BY <1>5, <1>6
    <3>. QED  BY <1>7, <2>1, <3>1, <3>2
  <2>3. PICK q : q = Sending(DoneEvent, Ended)
    OBVIOUS
  <2>4. q \in Stages /\ Leads(p, q, n) /\ ~Early(q)
    BY <1>1, <2>2, <2>3, DoneLeads
  <2>. QED  BY <1>1, <1>2, <1>13, <2>3, <2>4 DEF Goes, Pipe
<1>14. CASE p.body[i] = "skip" /\ Pipe(n, rest)
  <2>1. \A j \in 1 .. i : p.body[j] # "done"
    BY <1>8, <1>14
  <2>2. \A j \in Deltas(p.body) : j <= p.taken \/ i < j
    <3>1. \A j \in Deltas(p.body) : j \in Nat /\ j # i
      BY <1>14 DEF Deltas
    <3>. QED  BY <1>5, <1>6, <1>7, <3>1
  <2>3. PICK q : q = [p EXCEPT !.taken = i, !.got = p.got]
    OBVIOUS
  <2>4. p.got \in p.got .. Len(p.body)
    BY <1>5
  <2>5. q \in Stages /\ Leads(p, q, n) /\ ~Early(q)
    BY <1>1, <1>6, <2>1, <2>2, <2>3, <2>4, TakingLeads
  <2>6. q = rest
    BY <1>9, <2>3 DEF Reads
  <2>. QED  BY <1>1, <1>2, <1>14, <2>5, <2>6 DEF Goes, Pipe
<1>. QED  BY <1>10, <1>11, <1>12, <1>13, <1>14

(* No line in the buffer.                                                    *)
LEMMA BodySteps ==
  ASSUME PipeTyped, NEW n \in Streams, ReadBody(n)
  PROVE  \E q : Goes(n, q) /\ Leads(pipe[n], q, n) /\ ~Early(q)
<1>1. pipe[n].at = "read" /\ LineEnds(pipe[n]) = {} /\ n \in Nat
  BY ChatAssumption DEF ReadBody, Streams
<1>2. PICK p \in Reads : p = pipe[n]
  BY <1>1 DEF PipeTyped, Stages, Prompted, Sends
<1>3. p.got \in p.taken .. p.got /\ \A j \in p.taken + 1 .. p.got : p.body[j] \in {"part", "tail"}
  BY <1>1, <1>2 DEF LineEnds, Reads
<1>4. /\ p.body \in Seq(Cells) /\ p.taken \in Nat /\ p.got \in Nat /\ Len(p.body) \in Nat
      /\ p.taken <= p.got /\ p.got <= Len(p.body)
      /\ \A j \in p.taken + 1 .. p.got : j # Len(p.body) => p.body[j] = "part"
      /\ \A j \in 1 .. p.got : p.body[j] # "done"
  BY <1>3, OpenLine
<1>5. \/ Pipe(n, Failing)
      \/ \E got \in p.got + 1 .. Len(p.body) : Pipe(n, [p EXCEPT !.got = got])
      \/ p.got = Len(p.body) /\ p.taken = p.got /\ Pipe(n, Sending(DoneEvent, Ended))
      \/ /\ p.got = Len(p.body) /\ p.taken < p.got /\ p.body[p.got] = "tail"
         /\ Pipe(n, Sending(Token(n, p.got), [p EXCEPT !.taken = p.got]))
      \/ /\ p.got = Len(p.body) /\ p.taken < p.got /\ p.body[p.got] # "tail"
         /\ Pipe(n, Sending(DoneEvent, Ended))
  BY <1>2, Zenon DEF ReadBody
<1>6. CASE Pipe(n, Failing)
  <2>1. Failing \in Stages /\ Leads(p, Failing, n) /\ ~Early(Failing)
    BY <1>1, <1>2, FailingLeads DEF Stages
  <2>. QED  BY <1>1, <1>2, <1>6, <2>1 DEF Goes, Pipe
<1>7. CASE \E got \in p.got + 1 .. Len(p.body) : Pipe(n, [p EXCEPT !.got = got])
  <2>1. PICK got \in p.got + 1 .. Len(p.body) : Pipe(n, [p EXCEPT !.got = got])
    BY <1>7
  <2>2. PICK q : q = [p EXCEPT !.taken = p.taken, !.got = got]
    OBVIOUS
  <2>3. /\ p.taken \in p.taken .. p.got /\ got \in p.got .. Len(p.body)
        /\ \A j \in 1 .. p.taken : p.body[j] # "done"
    BY <1>4
  <2>4. \A j \in Deltas(p.body) : j <= p.taken \/ p.taken < j
    BY <1>4 DEF Deltas
  <2>5. q \in Stages /\ Leads(p, q, n) /\ ~Early(q)
    BY <1>1, <2>2, <2>3, <2>4, TakingLeads
  <2>6. q = [p EXCEPT !.got = got]
    BY <2>2 DEF Reads
  <2>. QED  BY <1>1, <1>2, <2>1, <2>5, <2>6 DEF Goes, Pipe
<1>8. ASSUME \A j \in Deltas(p.body) : j <= p.taken, Pipe(n, Sending(DoneEvent, Ended))
      PROVE  \E q : Goes(n, q) /\ Leads(pipe[n], q, n) /\ ~Early(q)
  <2>1. PICK q : q = Sending(DoneEvent, Ended)
    OBVIOUS
  <2>2. q \in Stages /\ Leads(p, q, n) /\ ~Early(q)
    BY <1>1, <1>8, <2>1, DoneLeads
  <2>. QED  BY <1>2, <1>8, <2>1, <2>2 DEF Goes, Pipe
<1>9. CASE p.got = Len(p.body) /\ p.taken = p.got /\ Pipe(n, Sending(DoneEvent, Ended))
  <2>1. \A j \in Deltas(p.body) : j <= p.taken
    BY <1>9 DEF Deltas
  <2>. QED  BY <1>1, <1>8, <1>9, <2>1
<1>10. CASE /\ p.got = Len(p.body) /\ p.taken < p.got /\ p.body[p.got] # "tail"
            /\ Pipe(n, Sending(DoneEvent, Ended))
  <2>1. SUFFICES ASSUME NEW j \in Deltas(p.body), p.taken < j PROVE FALSE
    BY <1>1, <1>4, <1>8, <1>10 DEF Deltas
  <2>2. j \in p.taken + 1 .. p.got
    BY <1>4, <1>10, <2>1 DEF Deltas
  <2>3. p.body[j] = "part"
    BY <1>3, <1>4, <1>10, <2>2
  <2>. QED  BY <2>3 DEF Deltas
<1>11. CASE /\ p.got = Len(p.body) /\ p.taken < p.got /\ p.body[p.got] = "tail"
            /\ Pipe(n, Sending(Token(n, p.got), [p EXCEPT !.taken = p.got]))
  <2>1. p.got \in p.taken + 1 .. p.got /\ p.got \in Deltas(p.body)
    BY <1>4, <1>11 DEF Deltas
  <2>2. \A j \in Deltas(p.body) : j <= p.taken \/ p.got <= j
    <3>1. SUFFICES ASSUME NEW j \in Deltas(p.body), p.taken < j, j < p.got PROVE FALSE
      BY <1>4 DEF Deltas
    <3>2. j \in p.taken + 1 .. p.got /\ j # Len(p.body)
      BY <1>4, <1>11, <3>1 DEF Deltas
    <3>. QED  BY <1>4, <3>2 DEF Deltas
  <2>3. PICK q : q = Sending(Token(n, p.got), [p EXCEPT !.taken = p.got])
    OBVIOUS
  <2>4. q \in Stages /\ Leads(p, q, n) /\ ~Early(q)
    BY <1>1, <2>1, <2>2, <2>3, TokenLeads
  <2>. QED  BY <1>1, <1>2, <1>11, <2>3, <2>4 DEF Goes, Pipe
<1>. QED  BY <1>1, <1>5, <1>6, <1>7, <1>9, <1>10, <1>11

-----------------------------------------------------------------------------
(* The channel *)

(* An event that is sent is the next one on its way.                         *)
LEMMA SendFlows ==
  ASSUME NEW n \in Nat, NEW p \in Sends, NEW w \in Seq(Events), NEW body \in Seq(Cells),
         NEW d \in Nat, Flow(p, w, n, body, d),
         NEW v \in Seq(Events), Len(v) = Len(w) + 1, v[Len(w) + 1] = p.event,
         \A k \in 1 .. Len(w) : v[k] = w[k]
  PROVE  Flow(p.next, v, n, body, d)
<1>1. PICK m \in Nat : m = Len(w) /\ Len(v) = m + 1 /\ Tells(w, m, n, body, d)
  BY DEF Sends, Flow
<1>2. p.at = "send" /\ p.next \in Prompted \cup Reads \cup {Ended}
  BY DEF Sends
<1>3. Tells(v, m, n, body, d)
  BY <1>1 DEF Tells
<1>4. ASSUME Told(p.event, n, body, d + m + 1)
      PROVE  Tells(v, m + 1, n, body, d)
  <2>1. \A k \in 1 .. m + 1 : k \in 1 .. m \/ k = m + 1
    BY <1>1
  <2>2. d + (m + 1) = d + m + 1
    BY <1>1
  <2>. QED  BY <1>1, <1>3, <1>4, <2>1, <2>2 DEF Tells
<1>5. CASE p.next \in Prompted
  <2>1. p.next.at = "connect"
    BY <1>5 DEF Prompted
  <2>2. m = 0 /\ d = 0 /\ Told(p.event, n, body, 1)
    BY <1>1, <1>2, <2>1 DEF Flow
  <2>3. d + m + 1 = 1
    BY <2>2
  <2>4. Tells(v, m + 1, n, body, d)
    BY <1>4, <2>2, <2>3
  <2>5. d + Len(v) = 1
    BY <1>1, <2>2
  <2>. QED  BY <1>1, <2>1, <2>4, <2>5 DEF Flow
<1>6. CASE p.next \in Reads
  <2>1. p.next.at = "read" /\ p.next.taken \in Nat
    BY <1>6 DEF Reads
  <2>2. /\ p.next.body = body /\ d + m = Count(body, p.next.taken)
        /\ Told(p.event, n, body, d + m + 1)
    BY <1>1, <1>2, <2>1 DEF Flow
  <2>3. Tells(v, m + 1, n, body, d)
    BY <1>4, <2>2
  <2>4. d + Len(v) = Count(body, p.next.taken) + 1
    BY <1>1, <2>2
  <2>. QED  BY <1>1, <2>1, <2>2, <2>3, <2>4 DEF Flow
<1>7. CASE p.next = Ended
  <2>1. p.next.at = "ended"
    BY <1>7 DEF Ended
  <2>2. Final(p.event, n, body, d + m + 1)
    BY <1>1, <1>2, <2>1 DEF Flow
  <2>3. Len(v) # 0 /\ Len(v) - 1 = m /\ d + Len(v) = d + m + 1 /\ v[Len(v)] = p.event
    BY <1>1
  <2>. QED  BY <1>3, <2>1, <2>2, <2>3 DEF Flow
<1>. QED  BY <1>2, <1>5, <1>6, <1>7

(* The first event on its way is the next one of the answer, or the last one *)
\* v is w without its first event.
Behind(v, w) == Len(v) = Len(w) - 1 /\ \A k \in 1 .. Len(v) : v[k] = w[k + 1]

\* Nothing that was shown disturbs what is to come.
FlowsOut(p, v, n, body) == \A d : Flow(p, v, n, body, d)

(* there is.                                                                 *)
LEMMA DeliverFlows ==
  ASSUME NEW n \in Nat, NEW p \in Stages, NEW w \in Seq(Events), NEW body \in Seq(Cells),
         NEW d \in Nat, Flow(p, w, n, body, d), w # <<>>,
         NEW v \in Seq(Events), Behind(v, w)
  PROVE  \/ /\ Told(w[1], n, body, d + 1) /\ Flow(p, v, n, body, d + 1)
            /\ Early(p) => d = 0
         \/ /\ Final(w[1], n, body, d + 1) /\ ~Early(p)
            /\ FlowsOut(p, v, n, body)
<1>0. Len(v) = Len(w) - 1 /\ \A k \in 1 .. Len(v) : v[k] = w[k + 1]
  BY DEF Behind
<1>1. PICK m \in Nat : Len(w) = m + 1 /\ Len(v) = m
  <2>1. Len(w) \in Nat /\ Len(w) # 0
    OBVIOUS
  <2>2. Len(w) - 1 \in Nat
    BY <2>1
  <2>. QED  BY <1>0, <2>1, <2>2
<1>2. PICK e \in Nat : e = d + 1
  OBVIOUS
<1>3. ASSUME NEW l \in 0 .. m, Tells(w, l + 1, n, body, d)
      PROVE  Told(w[1], n, body, d + 1) /\ Tells(v, l, n, body, e)
  <2>1. 1 \in 1 .. l + 1
    OBVIOUS
  <2>2. Told(w[1], n, body, d + 1)
    BY <1>3, <2>1 DEF Tells
  <2>3. ASSUME NEW k \in 1 .. l
        PROVE  Told(v[k], n, body, e + k)
    <3>1. k + 1 \in 1 .. l + 1 /\ k \in 1 .. m /\ d + (k + 1) = e + k
      BY <1>1, <1>2
    <3>2. Told(w[k + 1], n, body, e + k)
      BY <1>3, <3>1 DEF Tells
    <3>. QED  BY <1>0, <1>1, <3>1, <3>2
  <2>. QED  BY <2>2, <2>3 DEF Tells
<1>4. CASE p.at = "ended"
  <2>1. Tells(w, m, n, body, d) /\ Final(w[m + 1], n, body, d + (m + 1))
    BY <1>1, <1>4 DEF Flow
  <2>2. CASE m = 0
    <3>1. v = <<>>
      BY <1>1, <2>2
    <3>2. \A x : Flow(p, v, n, body, x)
      BY <1>4, <3>1 DEF Flow
    <3>3. Final(w[1], n, body, d + 1)
      BY <2>1, <2>2
    <3>. QED  BY <1>4, <3>2, <3>3 DEF Early, FlowsOut
  <2>3. CASE m # 0
    <3>1. PICK l \in 0 .. m : l + 1 = m /\ l = m - 1
      BY <2>3
    <3>2. Told(w[1], n, body, d + 1) /\ Tells(v, l, n, body, e)
      BY <1>3, <2>1, <3>1
    <3>3. Final(v[m], n, body, e + m) /\ Len(v) = m /\ Len(v) # 0
      <4>1. m \in 1 .. Len(v) /\ d + (m + 1) = e + m
        BY <1>1, <1>2, <2>3
      <4>. QED  BY <1>0, <1>1, <2>1, <2>3, <4>1
    <3>4. Flow(p, v, n, body, e)
      BY <1>4, <3>1, <3>2, <3>3 DEF Flow
    <3>. QED  BY <1>2, <1>4, <3>2, <3>4 DEF Early
  <2>. QED  BY <2>2, <2>3
<1>5. CASE p.at # "ended"
  <2>1. /\ p.at \notin {"off", "search"}
        /\ ~(p.at = "send" /\ p.next.at = "connect")
    BY DEF Flow
  <2>2. p.at \in {"connect", "read", "send"}
    BY <1>5, <2>1 DEF Stages, Prompted, Reads, Sends
  <2>3. Tells(w, m + 1, n, body, d)
    BY <1>1, <2>2 DEF Flow
  <2>4. Told(w[1], n, body, d + 1) /\ Tells(v, m, n, body, e)
    BY <1>3, <2>3
  <2>5. e + m = d + (m + 1)
    BY <1>2
  <2>6. Early(p) => d = 0
    BY <1>1, <2>1, <2>2 DEF Early, Flow
  <2>7. CASE p.at = "connect"
    BY <1>1, <1>2, <2>4, <2>5, <2>6, <2>7 DEF Flow
  <2>8. CASE p.at = "read"
    BY <1>1, <1>2, <2>4, <2>5, <2>6, <2>8 DEF Flow
  <2>9. CASE p.at = "send"
    BY <1>1, <1>2, <2>1, <2>4, <2>5, <2>6, <2>9 DEF Flow
  <2>. QED  BY <2>2, <2>7, <2>8, <2>9
<1>. QED  BY <1>4, <1>5

-----------------------------------------------------------------------------
(* The invariant *)

ChatTyped ==
    /\ PipeTyped
    /\ wire \in [Streams -> Seq(Events)] /\ gone \in [Streams -> BOOLEAN]
    /\ begun \in 0 .. Starts /\ ref \in {0, begun} /\ aborted \in SUBSET (1 .. begun)
    /\ step \in [Streams -> {"none", "fetch", "refused", "stream", "over"}]
    /\ shown \in [status : {"idle", "streaming", "error", "done"}, tokens : Seq(Nat \X Nat),
                  citations : {0, begun}]
    /\ given \in Seq(Cells)

\* Streams that are still to come.
Unstarted ==
    \A n \in Streams : n > begun =>
        pipe[n] = Off /\ wire[n] = <<>> /\ ~gone[n] /\ step[n] = "none"

\* Only a client that gave its stream up is gone, and it has no stream then.
Closed ==
    /\ \A n \in Streams : gone[n] => n \in aborted \/ step[n] = "over"
    /\ begun # 0 /\ step[begun] = "over" => ref = 0

\* s is the first part of t.
Begins(s, t) == Len(s) <= Len(t) /\ \A k \in 1 .. Len(s) : s[k] = t[k]

\* What is shown, whether its stream is listened to or not.
Truthful ==
    /\ Begins(shown.tokens, AnswerOf(begun, given))
    /\ shown.tokens # <<>> => shown.citations = begun
    /\ shown.status = "done" =>
         shown.citations = begun /\ Len(shown.tokens) = Len(AnswerOf(begun, given))
    /\ ref = 0 => shown.status # "streaming"
    /\ begun = 0 => shown.tokens = <<>>
    /\ begun # 0 /\ Early(pipe[begun]) => shown.tokens = <<>> /\ shown.status # "done"

\* Events of the last stream that were shown.
Delivered == IF shown.citations = begun THEN 1 + Len(shown.tokens) ELSE 0

Flows ==
    begun # 0 /\ ref = begun /\ begun \notin aborted =>
        Flow(pipe[begun], wire[begun], begun, given, Delivered)

ChatInv == ChatTyped /\ Unstarted /\ Closed /\ Truthful /\ Flows

(* The invariant has what is promised.                                       *)
LEMMA ChatInvImplies ==
  ASSUME ChatInv
  PROVE  ChatIsTruthful
<1>1. PICK n \in Nat : n = begun
  BY ChatAssumption DEF ChatInv, ChatTyped
<1>2. PICK answer \in Seq(Nat \X Nat) : answer = AnswerOf(begun, given)
  BY <1>1, AnswerPlaces DEF ChatInv, ChatTyped
<1>3. PICK tokens \in Seq(Nat \X Nat) : tokens = shown.tokens
  BY DEF ChatInv, ChatTyped
<1>4. Len(tokens) <= Len(answer) /\ \A k \in 1 .. Len(tokens) : tokens[k] = answer[k]
  BY <1>2, <1>3 DEF ChatInv, Truthful, Begins
<1>5. IsPrefix(tokens, answer)
  <2>1. /\ SubSeq(tokens, 1, Len(tokens)) = [k \in 1 .. Len(tokens) |-> tokens[k]]
        /\ SubSeq(answer, 1, Len(tokens)) = [k \in 1 .. Len(tokens) |-> answer[k]]
    BY <1>4
  <2>2. SubSeq(tokens, 1, Len(tokens)) = SubSeq(answer, 1, Len(tokens))
    BY <1>4, <2>1
  <2>. QED  BY <1>4, <2>2 DEF IsPrefix
<1>6. Len(tokens) = Len(answer) => tokens = answer
  BY <1>4, SeqEqual
<1>. QED  BY <1>2, <1>3, <1>5, <1>6 DEF ChatInv, ChatTyped, Truthful, ChatIsTruthful

(* The budget holds in every state that is reached.                          *)
LEMMA PipesFit ==
  ASSUME PipeTyped
  PROVE  PromptFits
<1>1. SUFFICES ASSUME NEW n \in Streams,
                      NEW p, p = IF pipe[n].at = "send" THEN pipe[n].next ELSE pipe[n],
                      p.at = "connect"
               PROVE  /\ p.prompt.size <= p.prompt.budget
                      /\ p.prompt.question + Reserved <= p.prompt.budget =>
                           p.prompt.message = p.prompt.question
  BY Zenon DEF PromptFits
<1>2. pipe[n] \in Stages
  BY DEF PipeTyped
<1>3. p \in Prompted
  BY <1>1, <1>2 DEF Stages, Sends, Reads, Prompted, Ended
<1>. QED  BY <1>3 DEF Prompted, WithinBudget

(* Before the first message.                                                 *)
LEMMA ChatBegins ==
  ASSUME ChatInit
  PROVE  ChatInv
<1>1. PipeTyped
  BY DEF ChatInit, PipeTyped, Stages, Off
<1>2. shown = [status |-> "idle", tokens |-> <<>>, citations |-> 0]
  BY DEF ChatInit, Blank
<1>3. ChatTyped
  <2>1. <<>> \in Seq(Events) /\ <<>> \in Seq(Nat \X Nat) /\ <<>> \in Seq(Cells)
    BY EmptySeq
  <2>2. wire \in [Streams -> Seq(Events)]
    BY <2>1 DEF ChatInit
  <2>3. begun \in 0 .. Starts /\ ref \in {0, begun} /\ aborted \in SUBSET (1 .. begun)
    BY ChatAssumption DEF ChatInit
  <2>4. shown \in [status : {"idle", "streaming", "error", "done"}, tokens : Seq(Nat \X Nat),
                   citations : {0, begun}]
    BY <1>2, <2>1
  <2>5. gone \in [Streams -> BOOLEAN] /\ given \in Seq(Cells)
    BY <2>1 DEF ChatInit
  <2>6. step \in [Streams -> {"none", "fetch", "refused", "stream", "over"}]
    BY DEF ChatInit
  <2>. QED  BY <1>1, <2>2, <2>3, <2>4, <2>5, <2>6 DEF ChatTyped
<1>4. Unstarted /\ Closed /\ Flows
  BY DEF ChatInit, Unstarted, Closed, Flows
<1>5. Truthful
  <2>1. AnswerOf(0, <<>>) \in Seq(Nat \X Nat)
    BY AnswerPlaces, EmptySeq
  <2>2. Begins(<<>>, AnswerOf(0, <<>>))
    BY <2>1 DEF Begins
  <2>. QED  BY <1>2, <2>2 DEF ChatInit, Truthful
<1>. QED  BY <1>3, <1>4, <1>5 DEF ChatInv

-----------------------------------------------------------------------------
(* The steps *)

(* The listener of the last stream is not gone.                              *)
LEMMA ListenerIsThere ==
  ASSUME ChatInv, begun # 0, ref = begun, begun \notin aborted
  PROVE  begun \in Streams /\ begun \in Nat /\ ~gone[begun] /\ pipe[begun] \in Stages
         /\ wire[begun] \in Seq(Events) /\ given \in Seq(Cells) /\ Delivered \in Nat
<1>1. begun \in Streams /\ begun \in Nat
  BY ChatAssumption DEF ChatInv, ChatTyped, Streams
<1>2. ~gone[begun]
  BY <1>1 DEF ChatInv, Closed
<1>3. pipe[begun] \in Stages /\ wire[begun] \in Seq(Events) /\ given \in Seq(Cells)
  BY <1>1 DEF ChatInv, ChatTyped, PipeTyped
<1>4. Delivered \in Nat
  <2>1. Len(shown.tokens) \in Nat
    BY DEF ChatInv, ChatTyped
  <2>. QED  BY <2>1 DEF Delivered
<1>. QED  BY <1>1, <1>2, <1>3, <1>4

(* A pipeline has begun when it is not off.                                  *)
LEMMA PipeBegun ==
  ASSUME ChatInv, NEW n \in Streams, pipe[n].at # "off"
  PROVE  n \in 1 .. begun /\ begun \in Nat
<1>1. begun \in Nat /\ n \in Nat /\ n # 0
  BY ChatAssumption DEF ChatInv, ChatTyped, Streams
<1>2. ~(n > begun)
  BY DEF ChatInv, Unstarted, Off
<1>. QED  BY <1>1, <1>2

(* A pipeline goes on by itself.                                             *)
LEMMA PipeKeeps ==
  ASSUME ChatInv, NEW n \in Streams, n <= begun, NEW q, Goes(n, q),
         Early(q) => Early(pipe[n]), n = begun => Leads(pipe[n], q, n) \/ gone[n],
         UNCHANGED <<wire, gone, given>>, UNCHANGED clientVars
  PROVE  ChatInv'
<1>1. PipeTyped'
  BY DEF ChatInv, ChatTyped, PipeTyped, Goes
<1>2. /\ wire' = wire /\ gone' = gone /\ given' = given /\ begun' = begun /\ ref' = ref
      /\ aborted' = aborted /\ step' = step /\ shown' = shown
  BY DEF clientVars
<1>3. \A m \in Streams : m # n => pipe'[m] = pipe[m]
  BY DEF Goes, ChatInv, ChatTyped, PipeTyped
<1>4. pipe'[n] = q
  BY DEF Goes, ChatInv, ChatTyped, PipeTyped
<1>5. ChatTyped'
  BY <1>1, <1>2 DEF ChatInv, ChatTyped
<1>6. Unstarted'
  <2>1. SUFFICES ASSUME NEW m \in Streams, m > begun
                 PROVE  pipe'[m] = Off /\ wire[m] = <<>> /\ ~gone[m] /\ step[m] = "none"
    BY <1>2 DEF Unstarted
  <2>2. m # n
    BY <2>1, ChatAssumption DEF ChatInv, ChatTyped, Streams
  <2>. QED  BY <1>3, <2>1, <2>2 DEF ChatInv, Unstarted
<1>7. Closed'
  BY <1>2 DEF ChatInv, Closed
<1>8. Truthful'
  <2>1. begun # 0 /\ Early(pipe'[begun]) => shown.tokens = <<>> /\ shown.status # "done"
    <3>1. CASE begun = n
      BY <1>4, <3>1 DEF ChatInv, Truthful
    <3>2. CASE begun # n /\ begun # 0
      <4>1. begun \in Streams
        BY <3>2, ChatAssumption DEF ChatInv, ChatTyped, Streams
      <4>. QED  BY <1>3, <3>2, <4>1 DEF ChatInv, Truthful
    <3>. QED  BY <3>1, <3>2
  <2>. QED  BY <1>2, <2>1 DEF ChatInv, Truthful
<1>9. Flows'
  <2>1. SUFFICES ASSUME begun # 0, ref = begun, begun \notin aborted
                 PROVE  Flow(pipe'[begun], wire[begun], begun, given, Delivered)
    BY <1>2 DEF Flows, Delivered
  <2>2. Flow(pipe[begun], wire[begun], begun, given, Delivered)
    BY <2>1 DEF ChatInv, Flows
  <2>3. /\ begun \in Streams /\ ~gone[begun] /\ wire[begun] \in Seq(Events)
        /\ given \in Seq(Cells) /\ Delivered \in Nat
    BY <2>1, ListenerIsThere
  <2>4. CASE begun = n
    BY <1>4, <2>2, <2>3, <2>4 DEF Leads
  <2>5. CASE begun # n
    BY <1>3, <2>2, <2>3, <2>5
  <2>. QED  BY <2>4, <2>5
<1>. QED  BY <1>5, <1>6, <1>7, <1>8, <1>9 DEF ChatInv

(* The pipelines' own steps, but for the beginning of a body and sending.    *)
LEMMA PipesKeep ==
  ASSUME ChatInv, NEW n \in Streams,
         Accept(n) \/ SearchDone(n) \/ ReadLine(n) \/ ReadBody(n) \/ Quit(n)
  PROVE  ChatInv'
<1>0. PipeTyped
  BY DEF ChatInv, ChatTyped
<1>1. UNCHANGED <<wire, gone, given>> /\ UNCHANGED clientVars
  BY Zenon DEF Accept, SearchDone, ReadLine, ReadBody, Quit
<1>2. n <= begun
  <2>1. CASE Accept(n)
    BY <2>1 DEF Accept
  <2>2. CASE SearchDone(n) \/ ReadLine(n) \/ ReadBody(n) \/ Quit(n)
    <3>1. pipe[n].at # "off"
      BY <2>2 DEF SearchDone, ReadLine, ReadBody, Quit
    <3>2. n \in 1 .. begun /\ begun \in Nat
      BY <3>1, PipeBegun
    <3>. QED  BY <3>2
  <2>. QED  BY <2>1, <2>2
<1>3. \E q : /\ Goes(n, q) /\ (Early(q) => Early(pipe[n]))
             /\ Leads(pipe[n], q, n) \/ gone[n]
  <2>1. CASE Accept(n) \/ SearchDone(n)
    BY <1>0, <2>1, SearchSteps
  <2>2. CASE ReadLine(n)
    BY <1>0, <2>2, LineSteps
  <2>3. CASE ReadBody(n)
    BY <1>0, <2>3, BodySteps
  <2>4. CASE Quit(n)
    <3>1. PICK q : q = Ended
      OBVIOUS
    <3>2. q \in Stages /\ ~Early(q)
      BY <3>1 DEF Stages, Ended, Early
    <3>3. Goes(n, q) /\ gone[n]
      BY <2>4, <3>1, <3>2 DEF Quit, Pipe, Goes
    <3>. QED  BY <3>2, <3>3
  <2>. QED  BY <2>1, <2>2, <2>3, <2>4
<1>. QED  BY <1>1, <1>2, <1>3, PipeKeeps

(* The beginning of a body.                                                  *)
LEMMA ConnectKeeps ==
  ASSUME ChatInv, NEW n \in Streams, Connect(n)
  PROVE  ChatInv'
<1>1. pipe[n].at = "connect" /\ UNCHANGED <<wire, gone>> /\ UNCHANGED clientVars
  BY DEF Connect
<1>2. PICK p \in Prompted : p = pipe[n]
  BY <1>1 DEF ChatInv, ChatTyped, PipeTyped, Stages, Reads, Sends
<1>3. n \in 1 .. begun /\ begun \in Nat /\ n \in Nat
  BY <1>1, PipeBegun
<1>4. CASE Pipe(n, Failing) /\ UNCHANGED given
  <2>1. PICK q : q = Failing
    OBVIOUS
  <2>2. q \in Stages /\ Leads(p, q, n) /\ ~Early(q)
    BY <1>1, <1>2, <1>3, <2>1, FailingLeads DEF Stages
  <2>3. Goes(n, q)
    BY <1>4, <2>1, <2>2 DEF Goes, Pipe
  <2>4. UNCHANGED <<wire, gone, given>>
    BY <1>1, <1>4
  <2>. QED  BY <1>1, <1>2, <1>3, <2>2, <2>3, <2>4, PipeKeeps
<1>5. CASE \E body \in Bodies :
            /\ Pipe(n, [at |-> "read", body |-> body, taken |-> 0, got |-> 0])
            /\ given' = IF n = begun THEN body ELSE given
  <2>0. PICK body \in Bodies :
            /\ pipe' = [pipe EXCEPT ![n] = [at |-> "read", body |-> body, taken |-> 0, got |-> 0]]
            /\ given' = IF n = begun THEN body ELSE given
    BY <1>5 DEF Pipe
  <2>1. PICK q : /\ q = [at |-> "read", body |-> body, taken |-> 0, got |-> 0]
                 /\ pipe' = [pipe EXCEPT ![n] = q]
    BY <2>0
  <2>2. /\ q \in Stages
        /\ \A w \in Seq(Events), before \in Seq(Cells), d \in Nat :
             Flow(p, w, n, before, d) => Flow(q, w, n, body, d)
    BY <1>3, <2>1, ConnectLeads
  <2>3. Goes(n, q) /\ ~Early(q)
    BY <2>1, <2>2 DEF Goes, Early
  <2>4. CASE n # begun
    <3>1. UNCHANGED <<wire, gone, given>>
      BY <1>1, <2>0, <2>4
    <3>. QED  BY <1>1, <1>3, <2>3, <2>4, <3>1, PipeKeeps
  <2>5. CASE n = begun
    <3>1. /\ wire' = wire /\ gone' = gone /\ given' = body /\ begun' = begun /\ ref' = ref
          /\ aborted' = aborted /\ step' = step /\ shown' = shown
      BY <1>1, <2>0, <2>5 DEF clientVars
    <3>2. PipeTyped'
      BY <2>3 DEF ChatInv, ChatTyped, PipeTyped, Goes
    <3>3. pipe'[n] = q /\ \A m \in Streams : m # n => pipe'[m] = pipe[m]
      BY <2>1 DEF ChatInv, ChatTyped, PipeTyped
    <3>4. body \in Seq(Cells)
      BY ChatAssumption
    <3>5. ChatTyped'
      BY <3>1, <3>2, <3>4 DEF ChatInv, ChatTyped
    <3>6. Unstarted'
      <4>1. \A m \in Streams : m > begun => m # n
        BY <2>5, <1>3
      <4>. QED  BY <3>1, <3>3, <4>1 DEF ChatInv, Unstarted
    <3>7. Closed'
      BY <3>1 DEF ChatInv, Closed
    <3>8. shown.tokens = <<>> /\ shown.status # "done" /\ begun # 0
      BY <1>1, <1>3, <2>5 DEF ChatInv, Truthful, Early
    <3>9. Truthful'
      <4>1. Begins(<<>>, AnswerOf(begun, body))
        <5>1. AnswerOf(begun, body) \in Seq(Nat \X Nat)
          BY <1>3, <3>4, AnswerPlaces
        <5>. QED  BY <5>1 DEF Begins
      <4>2. ref = 0 => shown.status # "streaming"
        BY DEF ChatInv, Truthful
      <4>3. ~Early(pipe'[begun])
        BY <2>3, <2>5, <3>3
      <4>. QED  BY <3>1, <3>8, <4>1, <4>2, <4>3 DEF Truthful
    <3>10. Flows'
      <4>1. SUFFICES ASSUME begun # 0, ref = begun, begun \notin aborted
                     PROVE  Flow(q, wire[begun], begun, body, Delivered)
        BY <2>5, <3>1, <3>3 DEF Flows, Delivered
      <4>2. Flow(p, wire[begun], begun, given, Delivered)
        BY <1>2, <2>5, <4>1 DEF ChatInv, Flows
      <4>3. wire[begun] \in Seq(Events) /\ given \in Seq(Cells) /\ Delivered \in Nat
        BY <4>1, ListenerIsThere
      <4>4. PICK w \in Seq(Events), before \in Seq(Cells), d \in Nat :
               w = wire[begun] /\ before = given /\ d = Delivered
        BY <4>3
      <4>5. Flow(p, w, n, before, d)
        BY <2>5, <4>2, <4>4
      <4>6. Flow(q, w, n, body, d)
        BY <2>2, <4>5
      <4>. QED  BY <2>5, <4>4, <4>6
    <3>. QED  BY <3>5, <3>6, <3>7, <3>9, <3>10 DEF ChatInv
  <2>. QED  BY <2>4, <2>5
<1>. QED  BY <1>4, <1>5, Zenon DEF Connect

(* Sending.                                                                  *)
LEMMA SendKeeps ==
  ASSUME ChatInv, NEW n \in Streams, Send(n)
  PROVE  ChatInv'
<1>1. /\ pipe[n].at = "send" /\ pipe' = [pipe EXCEPT ![n] = pipe[n].next]
      /\ wire' = IF gone[n] THEN wire ELSE [wire EXCEPT ![n] = Append(@, pipe[n].event)]
      /\ gone' = gone /\ given' = given /\ begun' = begun /\ ref' = ref
      /\ aborted' = aborted /\ step' = step /\ shown' = shown
  BY DEF Send, Pipe, clientVars
<1>2. PICK p \in Sends : p = pipe[n]
  BY <1>1 DEF ChatInv, ChatTyped, PipeTyped, Stages, Reads, Prompted
<1>3. n \in 1 .. begun /\ begun \in Nat /\ n \in Nat
  BY <1>1, PipeBegun
<1>4. p.next \in Stages /\ p.event \in Events /\ p.at = "send"
  BY DEF Sends, Stages, Ended
<1>5. PICK w \in Seq(Events) : w = wire[n]
  BY DEF ChatInv, ChatTyped
<1>6. PICK v \in Seq(Events) : /\ v = Append(w, p.event) /\ Len(v) = Len(w) + 1
                               /\ v[Len(w) + 1] = p.event /\ \A k \in 1 .. Len(w) : v[k] = w[k]
  <2>1. PICK e \in Events : e = p.event
    BY <1>4
  <2>2. /\ Append(w, e) \in Seq(Events) /\ Len(Append(w, e)) = Len(w) + 1
        /\ Append(w, e)[Len(w) + 1] = e /\ \A k \in 1 .. Len(w) : Append(w, e)[k] = w[k]
    OBVIOUS
  <2>. QED  BY <2>1, <2>2
<1>7. PipeTyped'
  BY <1>1, <1>2, <1>4 DEF ChatInv, ChatTyped, PipeTyped
<1>8. wire' \in [Streams -> Seq(Events)] /\ \A m \in Streams : m # n => wire'[m] = wire[m]
  BY <1>1, <1>2, <1>5, <1>6 DEF ChatInv, ChatTyped
<1>9. pipe'[n] = p.next /\ \A m \in Streams : m # n => pipe'[m] = pipe[m]
  BY <1>1, <1>2 DEF ChatInv, ChatTyped, PipeTyped
<1>10. ChatTyped'
  BY <1>1, <1>7, <1>8 DEF ChatInv, ChatTyped
<1>11. Unstarted'
  <2>1. \A m \in Streams : m > begun => m # n
    BY <1>3
  <2>. QED  BY <1>1, <1>8, <1>9, <2>1 DEF ChatInv, Unstarted
<1>12. Closed'
  BY <1>1 DEF ChatInv, Closed
<1>13. Truthful'
  <2>1. Early(p.next) => Early(p)
    BY <1>4 DEF Early, Sends, Prompted, Reads, Ended
  <2>2. begun # 0 /\ Early(pipe'[begun]) => Early(pipe[begun])
    <3>1. CASE begun = n
      BY <1>2, <1>9, <2>1, <3>1
    <3>2. CASE begun # n /\ begun # 0
      <4>1. begun \in Streams
        BY <3>2, ChatAssumption DEF ChatInv, ChatTyped, Streams
      <4>. QED  BY <1>9, <3>2, <4>1
    <3>. QED  BY <3>1, <3>2
  <2>. QED  BY <1>1, <2>2 DEF ChatInv, Truthful
<1>14. Flows'
  <2>1. SUFFICES ASSUME begun # 0, ref = begun, begun \notin aborted
                 PROVE  Flow(pipe'[begun], wire'[begun], begun, given, Delivered)
    BY <1>1 DEF Flows, Delivered
  <2>2. Flow(pipe[begun], wire[begun], begun, given, Delivered)
    BY <2>1 DEF ChatInv, Flows
  <2>3. begun \in Streams /\ ~gone[begun] /\ given \in Seq(Cells) /\ Delivered \in Nat
    BY <2>1, ListenerIsThere
  <2>4. CASE begun # n
    BY <1>8, <1>9, <2>2, <2>3, <2>4
  <2>5. CASE begun = n
    <3>1. PICK body \in Seq(Cells), d \in Nat : body = given /\ d = Delivered
      BY <2>3
    <3>2. Flow(p, w, n, body, d)
      BY <1>2, <1>5, <2>2, <2>5, <3>1
    <3>3. Flow(p.next, v, n, body, d)
      BY <1>3, <1>6, <3>2, SendFlows
    <3>4. wire'[n] = v
      <4>1. wire' = [wire EXCEPT ![n] = v]
        BY <1>1, <1>2, <1>5, <1>6, <2>3, <2>5
      <4>. QED  BY <4>1 DEF ChatInv, ChatTyped
    <3>. QED  BY <1>9, <2>5, <3>1, <3>3, <3>4
  <2>. QED  BY <2>4, <2>5
<1>. QED  BY <1>10, <1>11, <1>12, <1>13, <1>14 DEF ChatInv

(* The server learns that a client is gone.                                  *)
LEMMA DisconnectKeeps ==
  ASSUME ChatInv, NEW n \in Streams, Disconnect(n)
  PROVE  ChatInv'
<1>1. /\ ~gone[n] /\ (n \in aborted \/ step[n] = "over")
      /\ gone' = [gone EXCEPT ![n] = TRUE] /\ wire' = [wire EXCEPT ![n] = <<>>]
      /\ pipe' = pipe /\ given' = given /\ begun' = begun /\ ref' = ref
      /\ aborted' = aborted /\ step' = step /\ shown' = shown
  BY DEF Disconnect, clientVars
<1>2. n \in Nat /\ begun \in Nat
  BY ChatAssumption DEF Streams, ChatInv, ChatTyped
<1>3. n <= begun
  <2>1. n \in aborted => n \in 1 .. begun
    BY DEF ChatInv, ChatTyped
  <2>2. n > begun => step[n] = "none"
    BY DEF ChatInv, Unstarted
  <2>. QED  BY <1>1, <1>2, <2>1, <2>2
<1>4. wire' \in [Streams -> Seq(Events)] /\ \A m \in Streams : m # n => wire'[m] = wire[m]
  <2>1. PICK w \in Seq(Events) : w = <<>>
    BY EmptySeq
  <2>2. wire' = [wire EXCEPT ![n] = w]
    BY <1>1, <2>1
  <2>. QED  BY <2>2 DEF ChatInv, ChatTyped
<1>5. /\ gone' \in [Streams -> BOOLEAN] /\ gone'[n]
      /\ \A m \in Streams : m # n => gone'[m] = gone[m]
  BY <1>1 DEF ChatInv, ChatTyped
<1>6. ChatTyped'
  BY <1>1, <1>4, <1>5 DEF ChatInv, ChatTyped, PipeTyped
<1>7. Unstarted'
  <2>1. \A m \in Streams : m > begun => m # n
    BY <1>2, <1>3
  <2>. QED  BY <1>1, <1>4, <1>5, <2>1 DEF ChatInv, Unstarted
<1>8. Closed'
  BY <1>1, <1>5 DEF ChatInv, Closed
<1>9. Truthful'
  BY <1>1 DEF ChatInv, Truthful
<1>10. Flows'
  <2>1. SUFFICES ASSUME begun # 0, ref = begun, begun \notin aborted
                 PROVE  Flow(pipe[begun], wire'[begun], begun, given, Delivered)
    BY <1>1 DEF Flows, Delivered
  <2>2. begun \in Streams /\ begun # n
    BY <1>1, <2>1, ListenerIsThere DEF ChatInv, Closed
  <2>3. wire'[begun] = wire[begun]
    BY <1>4, <2>2
  <2>. QED  BY <2>1, <2>3 DEF ChatInv, Flows
<1>. QED  BY <1>6, <1>7, <1>8, <1>9, <1>10 DEF ChatInv

(* What only the client does: its stream goes on, is stopped or ends.        *)
LEMMA ClientKeeps ==
  ASSUME ChatInv, UNCHANGED serverVars, begun' = begun,
         ref' = ref \/ ref' = 0, aborted \subseteq aborted', aborted' \subseteq 1 .. begun,
         step' \in [Streams -> {"none", "fetch", "refused", "stream", "over"}],
         \A m \in Streams : m > begun => step'[m] = "none",
         \A m \in Streams : step[m] = "over" => step'[m] = "over",
         begun # 0 /\ step'[begun] = "over" => ref' = 0,
         NEW status, status \in {"idle", "streaming", "error"} \/ status = shown.status,
         shown' = [shown EXCEPT !.status = status],
         ref' = 0 => status # "streaming"
  PROVE  ChatInv'
<1>1. pipe' = pipe /\ wire' = wire /\ gone' = gone /\ given' = given
  BY DEF serverVars
<1>2. PICK old : /\ old = shown
                 /\ old \in [status : {"idle", "streaming", "error", "done"},
                             tokens : Seq(Nat \X Nat), citations : {0, begun}]
  BY DEF ChatInv, ChatTyped
<1>3. status \in {"idle", "streaming", "error", "done"}
  BY <1>2
<1>4. /\ shown'.tokens = shown.tokens /\ shown'.citations = shown.citations
      /\ shown'.status = status
      /\ shown' \in [status : {"idle", "streaming", "error", "done"},
                     tokens : Seq(Nat \X Nat), citations : {0, begun}]
  BY <1>2, <1>3
<1>5. ref' \in {0, begun}
  BY DEF ChatInv, ChatTyped
<1>6. ChatTyped'
  BY <1>1, <1>4, <1>5 DEF ChatInv, ChatTyped, PipeTyped
<1>7. Unstarted'
  BY <1>1 DEF ChatInv, Unstarted
<1>8. Closed'
  BY <1>1 DEF ChatInv, Closed
<1>9. Truthful'
  BY <1>1, <1>4 DEF ChatInv, Truthful
<1>10. Flows'
  <2>1. SUFFICES ASSUME begun # 0, ref' = begun, begun \notin aborted'
                 PROVE  Flow(pipe[begun], wire[begun], begun, given, Delivered')
    BY <1>1 DEF Flows
  <2>2. ref = begun /\ begun \notin aborted
    BY <2>1 DEF ChatInv, ChatTyped
  <2>3. Delivered' = Delivered
    BY <1>4 DEF Delivered
  <2>. QED  BY <2>1, <2>2, <2>3 DEF ChatInv, Flows
<1>. QED  BY <1>6, <1>7, <1>8, <1>9, <1>10 DEF ChatInv

(* A stream ends on the client's side.                                       *)
LEMMA EndKeeps ==
  ASSUME ChatInv, NEW n \in Streams, step[n] # "none", NEW error \in BOOLEAN, End(n, error),
         UNCHANGED <<begun, aborted>>, UNCHANGED serverVars
  PROVE  ChatInv'
<1>1. PICK status : status = IF error /\ Current(n) THEN "error"
                             ELSE IF ref = n /\ shown.status = "streaming" THEN "idle"
                             ELSE shown.status
  OBVIOUS
<1>2. shown' = [shown EXCEPT !.status = status]
  BY <1>1 DEF End
<1>3. /\ step' = [step EXCEPT ![n] = "over"] /\ ref' = IF ref = n THEN 0 ELSE ref
      /\ begun' = begun /\ aborted' = aborted
  BY DEF End, Step
<1>4. begun \in Nat /\ n \in Nat /\ n # 0 /\ n <= begun
  BY ChatAssumption DEF ChatInv, ChatTyped, Streams, Unstarted
<1>5. /\ step' \in [Streams -> {"none", "fetch", "refused", "stream", "over"}]
      /\ step'[n] = "over" /\ \A m \in Streams : m # n => step'[m] = step[m]
  BY <1>3 DEF ChatInv, ChatTyped
<1>6. \A m \in Streams : m > begun => step'[m] = "none"
  BY <1>4, <1>5 DEF ChatInv, Unstarted
<1>7. \A m \in Streams : step[m] = "over" => step'[m] = "over"
  BY <1>5
<1>8. begun # 0 /\ step'[begun] = "over" => ref' = 0
  <2>1. begun # 0 => begun \in Streams
    BY ChatAssumption DEF ChatInv, ChatTyped, Streams
  <2>2. CASE begun = n
    BY <1>3, <2>2 DEF ChatInv, ChatTyped
  <2>3. CASE begun # n
    BY <1>3, <1>5, <2>1, <2>3 DEF ChatInv, Closed
  <2>. QED  BY <2>2, <2>3
<1>9. ref' = 0 => status # "streaming"
  BY <1>1, <1>3 DEF ChatInv, Truthful
<1>10. status \in {"idle", "streaming", "error"} \/ status = shown.status
  BY <1>1
<1>11. (ref' = ref \/ ref' = 0) /\ aborted \subseteq aborted' /\ aborted' \subseteq 1 .. begun
  BY <1>3 DEF ChatInv, ChatTyped
<1>. QED  BY <1>2, <1>3, <1>5, <1>6, <1>7, <1>8, <1>9, <1>10, <1>11, ClientKeeps

(* A stream is fetched, refused, or ends.                                    *)
LEMMA FetchesKeep ==
  ASSUME ChatInv, NEW n \in Streams, Fetched(n) \/ Refused(n) \/ StreamEnds(n)
  PROVE  ChatInv'
<1>1. step[n] \in {"fetch", "refused", "stream"}
  BY DEF Fetched, Refused, StreamEnds
<1>2. begun' = begun /\ aborted' = aborted /\ UNCHANGED serverVars
  BY DEF Fetched, Refused, StreamEnds
<1>3. CASE \E error \in BOOLEAN : End(n, error)
  BY <1>1, <1>2, <1>3, EndKeeps
<1>4. CASE ~ \E error \in BOOLEAN : End(n, error)
  <2>1. PICK s \in {"stream", "refused"} : Step(n, s) /\ step[n] = "fetch"
    BY <1>4 DEF Fetched, Refused, StreamEnds
  <2>2. ref' = ref /\ shown' = shown
    BY <1>4 DEF Fetched, Refused, StreamEnds
  <2>3. /\ step' \in [Streams -> {"none", "fetch", "refused", "stream", "over"}]
        /\ step'[n] = s /\ \A m \in Streams : m # n => step'[m] = step[m]
    BY <2>1 DEF Step, ChatInv, ChatTyped
  <2>4. begun \in Nat /\ n \in Nat /\ n <= begun
    <3>1. begun \in Nat /\ n \in Nat
      BY ChatAssumption DEF ChatInv, ChatTyped, Streams
    <3>2. ~(n > begun)
      BY <1>1 DEF ChatInv, Unstarted
    <3>. QED  BY <3>1, <3>2
  <2>5. \A m \in Streams : m > begun => step'[m] = "none"
    BY <2>3, <2>4 DEF ChatInv, Unstarted
  <2>6. \A m \in Streams : step[m] = "over" => step'[m] = "over"
    BY <2>1, <2>3
  <2>7. begun # 0 /\ step'[begun] = "over" => ref' = 0
    <3>1. begun # 0 => begun \in Streams
      BY ChatAssumption DEF ChatInv, ChatTyped, Streams
    <3>. QED  BY <2>2, <2>3, <3>1 DEF ChatInv, Closed
  <2>8. PICK status : status = shown.status
    OBVIOUS
  <2>9. shown' = [shown EXCEPT !.status = status]
    BY <2>2, <2>8 DEF ChatInv, ChatTyped
  <2>10. ref' = 0 => status # "streaming"
    BY <2>2, <2>8 DEF ChatInv, Truthful
  <2>11. aborted \subseteq aborted' /\ aborted' \subseteq 1 .. begun
    BY <1>2 DEF ChatInv, ChatTyped
  <2>. QED  BY <1>2, <2>2, <2>3, <2>5, <2>6, <2>7, <2>8, <2>9, <2>10, <2>11, ClientKeeps
<1>. QED  BY <1>3, <1>4

(* The user stops the stream.                                                *)
LEMMA StopKeeps ==
  ASSUME ChatInv, Stop
  PROVE  ChatInv'
<1>1. /\ ref # 0 /\ aborted' = aborted \cup {ref} /\ begun' = begun /\ ref' = ref
      /\ step' = step /\ shown' = shown /\ UNCHANGED serverVars
  BY DEF Stop
<1>2. aborted \subseteq aborted' /\ aborted' \subseteq 1 .. begun
  <2>1. ref \in 1 .. begun
    BY <1>1, ChatAssumption DEF ChatInv, ChatTyped
  <2>. QED  BY <1>1, <2>1 DEF ChatInv, ChatTyped
<1>3. step' \in [Streams -> {"none", "fetch", "refused", "stream", "over"}]
  BY <1>1 DEF ChatInv, ChatTyped
<1>4. \A m \in Streams : m > begun => step'[m] = "none"
  BY <1>1 DEF ChatInv, Unstarted
<1>5. begun # 0 /\ step'[begun] = "over" => ref' = 0
  BY <1>1 DEF ChatInv, Closed
<1>6. PICK status : status = shown.status
  OBVIOUS
<1>7. shown' = [shown EXCEPT !.status = status]
  BY <1>1, <1>6 DEF ChatInv, ChatTyped
<1>. QED  BY <1>1, <1>2, <1>3, <1>4, <1>5, <1>6, <1>7, ClientKeeps

(* The user sends a message.                                                 *)
LEMMA StartKeeps ==
  ASSUME ChatInv, Start
  PROVE  ChatInv'
<1>1. PICK n \in Streams : /\ n = begun + 1 /\ n \in Nat /\ begun \in Nat
                           /\ n # 0 /\ begun < n /\ n <= Starts
  BY ChatAssumption DEF ChatInv, ChatTyped, Start, Streams
<1>2. /\ begun' = n /\ ref' = n /\ aborted' = aborted \cup ({ref} \ {0})
      /\ step' = [step EXCEPT ![n] = "fetch"] /\ given' = <<>>
      /\ shown' = [status |-> "streaming", tokens |-> <<>>, citations |-> 0]
      /\ pipe' = pipe /\ wire' = wire /\ gone' = gone
  BY <1>1 DEF Start, Blank
<1>3. /\ step' \in [Streams -> {"none", "fetch", "refused", "stream", "over"}]
      /\ step'[n] = "fetch" /\ \A m \in Streams : m # n => step'[m] = step[m]
  BY <1>2 DEF ChatInv, ChatTyped
<1>4. aborted' \in SUBSET (1 .. n) /\ aborted \subseteq aborted'
  <2>1. aborted \subseteq 1 .. begun /\ ref \in {0, begun}
    BY DEF ChatInv, ChatTyped
  <2>2. \A m \in 1 .. begun : m \in 1 .. n
    BY <1>1
  <2>3. begun # 0 => begun \in 1 .. n
    BY <1>1
  <2>. QED  BY <1>2, <2>1, <2>2, <2>3
<1>5. ChatTyped'
  <2>1. <<>> \in Seq(Nat \X Nat) /\ <<>> \in Seq(Cells)
    BY EmptySeq
  <2>2. shown' \in [status : {"idle", "streaming", "error", "done"}, tokens : Seq(Nat \X Nat),
                    citations : {0, begun'}]
    BY <1>2, <2>1
  <2>3. begun' \in 0 .. Starts /\ ref' \in {0, begun'} /\ aborted' \in SUBSET (1 .. begun')
    BY <1>1, <1>2, <1>4, ChatAssumption
  <2>4. PipeTyped' /\ wire' \in [Streams -> Seq(Events)] /\ gone' \in [Streams -> BOOLEAN]
    BY <1>2 DEF ChatInv, ChatTyped, PipeTyped
  <2>. QED  BY <1>2, <1>3, <2>1, <2>2, <2>3, <2>4 DEF ChatTyped
<1>6. pipe[n] = Off /\ wire[n] = <<>> /\ ~gone[n]
  BY <1>1 DEF ChatInv, Unstarted
<1>7. Unstarted'
  <2>1. \A m \in Streams : m > n => m > begun /\ m # n
    BY <1>1 DEF Streams
  <2>. QED  BY <1>2, <1>3, <2>1 DEF ChatInv, Unstarted
<1>8. Closed'
  <2>1. \A m \in Streams : gone[m] => m \in aborted' \/ step'[m] = "over"
    BY <1>3, <1>4, <1>6 DEF ChatInv, Closed
  <2>. QED  BY <1>2, <1>3, <2>1 DEF Closed
<1>9. Truthful'
  <2>1. AnswerOf(n, <<>>) \in Seq(Nat \X Nat)
    BY <1>1, AnswerPlaces, EmptySeq
  <2>2. Begins(<<>>, AnswerOf(n, <<>>))
    BY <2>1 DEF Begins
  <2>3. /\ shown'.tokens = <<>> /\ shown'.status = "streaming"
        /\ begun' = n /\ ref' = n /\ n # 0 /\ given' = <<>>
    BY <1>1, <1>2
  <2>. QED  BY <2>2, <2>3 DEF Truthful
<1>10. Flows'
  <2>1. Delivered' = 0
    BY <1>1, <1>2 DEF Delivered
  <2>2. Flow(Off, <<>>, n, <<>>, 0)
    BY DEF Flow, Off
  <2>. QED  BY <1>2, <1>6, <2>1, <2>2 DEF Flows
<1>. QED  BY <1>5, <1>7, <1>8, <1>9, <1>10 DEF ChatInv

\* The current client shows an event.
Shows(e) == shown' = CASE e.name = "citation" -> [shown EXCEPT !.citations = e.of]
                  [] e.name = "token" -> [shown EXCEPT !.tokens = Append(@, e.token)]
                  [] e.name = "error" -> [shown EXCEPT !.status = "error"]
                  [] e.name = "done" ->
                       [shown EXCEPT !.status = IF @ = "error" THEN @ ELSE "done"]

ShownTyped == shown \in [status : {"idle", "streaming", "error", "done"},
                        tokens : Seq(Nat \X Nat), citations : {0, begun}]

(* An event that is shown is the next one of the answer.                     *)
LEMMA ShownGoesOn ==
  ASSUME ChatInv, begun # 0, ref = begun, NEW e \in Events,
         NEW d \in Nat, d = Delivered, Told(e, begun, given, d + 1), Early(pipe[begun]) => d = 0,
         UNCHANGED <<begun, ref, given, pipe>>,
         Shows(e)
  PROVE  /\ Truthful' /\ Delivered' = d + 1
         /\ ShownTyped'
<1>1. PICK n \in Nat : n = begun /\ n # 0
  BY ChatAssumption DEF ChatInv, ChatTyped
<1>2. PICK answer \in Seq(Nat \X Nat) : answer = AnswerOf(begun, given)
  BY <1>1, AnswerPlaces DEF ChatInv, ChatTyped
<1>3. PICK tokens \in Seq(Nat \X Nat), status \in {"idle", "streaming", "error", "done"},
           citations \in {0, n} :
         shown = [status |-> status, tokens |-> tokens, citations |-> citations]
  BY <1>1 DEF ChatInv, ChatTyped
<1>4. /\ Begins(tokens, answer) /\ (tokens # <<>> => citations = n)
      /\ (status = "done" => citations = n /\ Len(tokens) = Len(answer))
  BY <1>1, <1>2, <1>3 DEF ChatInv, Truthful
<1>5. d = IF citations = n THEN 1 + Len(tokens) ELSE 0
  BY <1>1, <1>3 DEF Delivered
<1>6. CASE d = 0
  <2>1. tokens = <<>> /\ citations # n /\ status # "done"
    BY <1>4, <1>5, <1>6
  <2>2. e = [name |-> "citation", of |-> n]
    BY <1>1, <1>2, <1>6 DEF Told
  <2>3. shown' = [status |-> status, tokens |-> tokens, citations |-> n]
    BY <1>3, <2>2 DEF Shows
  <2>4. Truthful'
    BY <1>1, <1>2, <1>3, <1>4, <2>1, <2>3 DEF ChatInv, Truthful
  <2>5. Delivered' = d + 1
    BY <1>1, <1>6, <2>1, <2>3 DEF Delivered
  <2>. QED  BY <1>1, <2>3, <2>4, <2>5 DEF ShownTyped
<1>7. CASE d # 0
  <2>1. citations = n /\ d = 1 + Len(tokens)
    BY <1>5, <1>7
  <2>2. d \in 1 .. Len(answer) /\ e = [name |-> "token", token |-> answer[d]]
    <3>1. d + 1 # 1 /\ (d + 1) - 1 = d
      BY <1>7
    <3>2. PICK k : k = d + 1
      OBVIOUS
    <3>3. Told(e, begun, given, k) /\ k # 1 /\ k - 1 = d
      BY <3>1, <3>2
    <3>. QED  BY <1>2, <3>3 DEF Told
  <2>3. PICK more \in Seq(Nat \X Nat) :
           /\ more = Append(tokens, answer[d]) /\ Len(more) = d
           /\ \A k \in 1 .. Len(tokens) : more[k] = tokens[k]
           /\ more[d] = answer[d]
    <3>1. PICK x \in Nat \X Nat : x = answer[d]
      BY <2>2
    <3>2. /\ Append(tokens, x) \in Seq(Nat \X Nat) /\ Len(Append(tokens, x)) = Len(tokens) + 1
          /\ \A k \in 1 .. Len(tokens) : Append(tokens, x)[k] = tokens[k]
          /\ Append(tokens, x)[Len(tokens) + 1] = x
      OBVIOUS
    <3>3. Len(tokens) + 1 = d
      BY <2>1
    <3>. QED  BY <3>1, <3>2, <3>3
  <2>4. shown' = [status |-> status, tokens |-> more, citations |-> n]
    BY <1>3, <2>1, <2>2, <2>3 DEF Shows
  <2>5. Begins(more, answer)
    <3>1. \A k \in 1 .. d : k = d \/ k \in 1 .. Len(tokens)
      BY <2>1
    <3>2. \A k \in 1 .. d : more[k] = answer[k]
      BY <1>4, <2>3, <3>1 DEF Begins
    <3>. QED  BY <2>2, <2>3, <3>2 DEF Begins
  <2>6. status # "done"
    BY <1>4, <2>1, <2>2
  <2>7. Truthful'
    BY <1>1, <1>2, <1>3, <1>7, <2>4, <2>5, <2>6 DEF ChatInv, Truthful
  <2>8. Delivered' = d + 1
    <3>1. shown'.citations = n /\ shown'.tokens = more /\ begun' = n
      BY <1>1, <2>4
    <3>2. Len(more) = d
      BY <2>3
    <3>. QED  BY <1>7, <2>1, <3>1, <3>2 DEF Delivered
  <2>. QED  BY <1>1, <2>4, <2>7, <2>8 DEF ShownTyped
<1>. QED  BY <1>6, <1>7

(* The last event is an error, or "done" behind all of the answer.           *)
LEMMA ShownEnds ==
  ASSUME ChatInv, begun # 0, ref = begun, NEW e \in Events,
         NEW d \in Nat, d = Delivered, Final(e, begun, given, d + 1), ~Early(pipe[begun]),
         UNCHANGED <<begun, ref, given, pipe>>,
         Shows(e)
  PROVE  /\ Truthful'
         /\ ShownTyped'
<1>1. PICK n \in Nat : n = begun /\ n # 0
  BY ChatAssumption DEF ChatInv, ChatTyped
<1>2. PICK answer \in Seq(Nat \X Nat) : answer = AnswerOf(begun, given)
  BY <1>1, AnswerPlaces DEF ChatInv, ChatTyped
<1>3. PICK tokens \in Seq(Nat \X Nat), status \in {"idle", "streaming", "error", "done"},
           citations \in {0, n} :
         shown = [status |-> status, tokens |-> tokens, citations |-> citations]
  BY <1>1 DEF ChatInv, ChatTyped
<1>4. d = IF citations = n THEN 1 + Len(tokens) ELSE 0
  BY <1>1, <1>3 DEF Delivered
<1>5. e.name \in {"error", "done"} /\ (e.name = "done" => d + 1 = Len(answer) + 2)
  BY <1>2 DEF Final
<1>6. PICK new \in {"error", "done"} :
         /\ shown' = [status |-> new, tokens |-> tokens, citations |-> citations]
         /\ new = "done" => e.name = "done"
  BY <1>3, <1>5 DEF Shows
<1>7. new = "done" => citations = n /\ Len(tokens) = Len(answer)
  BY <1>4, <1>5, <1>6
<1>8. Begins(tokens, answer) /\ (tokens # <<>> => citations = n)
  BY <1>1, <1>2, <1>3 DEF ChatInv, Truthful
<1>9. Truthful'
  BY <1>1, <1>2, <1>6, <1>7, <1>8 DEF Truthful
<1>. QED  BY <1>1, <1>6, <1>9 DEF ShownTyped

(* An event arrives.                                                         *)
LEMMA DeliverKeeps ==
  ASSUME ChatInv, NEW n \in Streams, Deliver(n)
  PROVE  ChatInv'
<1>1. /\ step[n] = "stream" /\ wire[n] # <<>> /\ wire' = [wire EXCEPT ![n] = Tail(wire[n])]
      /\ pipe' = pipe /\ gone' = gone /\ given' = given /\ begun' = begun /\ ref' = ref
      /\ aborted' = aborted /\ step' = step
  BY DEF Deliver
<1>2. begun \in Nat /\ n \in Nat /\ n # 0 /\ n <= begun
  BY <1>1, ChatAssumption DEF ChatInv, ChatTyped, Streams, Unstarted
<1>3. PICK w \in Seq(Events) : w = wire[n] /\ w # <<>>
  BY <1>1 DEF ChatInv, ChatTyped
<1>4. PICK v \in Seq(Events) : /\ v = Tail(w) /\ Len(v) = Len(w) - 1
                               /\ \A k \in 1 .. Len(v) : v[k] = w[k + 1]
  <2>1. Tail(w) \in Seq(Events) /\ Len(Tail(w)) = Len(w) - 1
    BY <1>3
  <2>2. \A k \in 1 .. Len(w) - 1 : Tail(w)[k] = w[k + 1]
    BY <1>3
  <2>. QED  BY <2>1, <2>2
<1>5. PICK e \in Events : e = w[1]
  <2>1. Len(w) \in Nat /\ Len(w) # 0
    BY <1>3
  <2>. QED  BY <1>3, <2>1
<1>6. /\ wire' \in [Streams -> Seq(Events)] /\ wire'[n] = v
      /\ \A m \in Streams : m # n => wire'[m] = wire[m]
  <2>1. wire' = [wire EXCEPT ![n] = v]
    BY <1>1, <1>3, <1>4
  <2>. QED  BY <2>1 DEF ChatInv, ChatTyped
<1>7. Unstarted'
  <2>1. \A m \in Streams : m > begun => m # n
    BY <1>2
  <2>. QED  BY <1>1, <1>6, <2>1 DEF ChatInv, Unstarted
<1>8. Closed'
  BY <1>1 DEF ChatInv, Closed
<1>9. CASE ~Current(n)
  <2>1. shown' = shown
    BY <1>9 DEF Deliver
  <2>2. ChatTyped'
    BY <1>1, <1>6, <2>1 DEF ChatInv, ChatTyped, PipeTyped
  <2>3. Truthful'
    BY <1>1, <2>1 DEF ChatInv, Truthful
  <2>4. Flows'
    <3>1. SUFFICES ASSUME begun # 0, ref = begun, begun \notin aborted
                   PROVE  Flow(pipe[begun], wire'[begun], begun, given, Delivered)
      BY <1>1, <2>1 DEF Flows, Delivered
    <3>2. begun \in Streams /\ begun # n
      BY <1>9, <3>1, ListenerIsThere DEF Current
    <3>3. wire'[begun] = wire[begun]
      BY <1>6, <3>2
    <3>. QED  BY <3>1, <3>3 DEF ChatInv, Flows
  <2>. QED  BY <1>7, <1>8, <2>2, <2>3, <2>4 DEF ChatInv
<1>10. CASE Current(n)
  <2>1. n = begun /\ ref = begun /\ begun \notin aborted /\ begun # 0
    BY <1>2, <1>10 DEF Current, ChatInv, ChatTyped
  <2>2. /\ pipe[begun] \in Stages /\ given \in Seq(Cells) /\ Delivered \in Nat
        /\ Flow(pipe[begun], wire[begun], begun, given, Delivered)
    BY <2>1, ListenerIsThere DEF ChatInv, Flows
  <2>3. PICK p \in Stages, body \in Seq(Cells), d \in Nat :
           p = pipe[begun] /\ body = given /\ d = Delivered
    BY <2>2
  <2>4. Flow(p, w, n, body, d)
    BY <1>3, <2>1, <2>2, <2>3
  <2>5. \/ Told(w[1], n, body, d + 1) /\ Flow(p, v, n, body, d + 1) /\ (Early(p) => d = 0)
        \/ Final(w[1], n, body, d + 1) /\ ~Early(p) /\ FlowsOut(p, v, n, body)
    <3>1. Behind(v, w)
      BY <1>4 DEF Behind
    <3>. QED  BY <1>2, <1>3, <2>4, <3>1, DeliverFlows
  <2>6. Shows(e)
    <3>1. Head(wire[n]) = e
      BY <1>3, <1>5
    <3>. QED  BY <1>10, <3>1 DEF Deliver, Shows
  <2>7. UNCHANGED <<begun, ref, given, pipe>>
    BY <1>1
  <2>8. /\ Truthful' /\ Flow(p, v, n, body, Delivered')
        /\ ShownTyped'
    <3>1. CASE Told(w[1], n, body, d + 1) /\ Flow(p, v, n, body, d + 1) /\ (Early(p) => d = 0)
      <4>1. Told(e, begun, given, d + 1) /\ (Early(pipe[begun]) => d = 0)
        BY <1>5, <2>1, <2>3, <3>1
      <4>2. /\ Truthful' /\ Delivered' = d + 1
            /\ ShownTyped'
        BY <2>1, <2>3, <2>6, <2>7, <4>1, ShownGoesOn
      <4>. QED  BY <3>1, <4>2
    <3>2. CASE Final(w[1], n, body, d + 1) /\ ~Early(p) /\ FlowsOut(p, v, n, body)
      <4>1. Final(e, begun, given, d + 1) /\ ~Early(pipe[begun])
        BY <1>5, <2>1, <2>3, <3>2
      <4>2. /\ Truthful'
            /\ ShownTyped'
        BY <2>1, <2>3, <2>6, <2>7, <4>1, ShownEnds
      <4>. QED  BY <3>2, <4>2 DEF FlowsOut
    <3>. QED  BY <2>5, <3>1, <3>2
  <2>9. ChatTyped'
    BY <1>1, <1>6, <2>8 DEF ChatInv, ChatTyped, PipeTyped, ShownTyped
  <2>10. Flows'
    BY <1>1, <1>6, <2>1, <2>3, <2>8 DEF Flows
  <2>. QED  BY <1>7, <1>8, <2>8, <2>9, <2>10 DEF ChatInv
<1>. QED  BY <1>9, <1>10

-----------------------------------------------------------------------------
(* The theorems *)

(* Every step keeps the invariant.                                           *)
LEMMA ChatStepsOn ==
  ASSUME ChatInv, [ChatNext]_chatVars
  PROVE  ChatInv'
<1>1. CASE UNCHANGED chatVars
  BY <1>1 DEF chatVars, ChatInv, ChatTyped, PipeTyped, Unstarted, Closed, Truthful, Flows,
              Delivered
<1>2. CASE ChatNext
  <2>1. CASE Start
    BY <2>1, StartKeeps
  <2>2. CASE Stop
    BY <2>2, StopKeeps
  <2>3. ASSUME NEW n \in Streams,
               \/ Accept(n) \/ SearchDone(n) \/ Connect(n) \/ ReadLine(n) \/ ReadBody(n)
               \/ Send(n) \/ Quit(n) \/ Disconnect(n)
               \/ Fetched(n) \/ Refused(n) \/ Deliver(n) \/ StreamEnds(n)
        PROVE  ChatInv'
    BY <2>3, PipesKeep, ConnectKeeps, SendKeeps, DisconnectKeeps, FetchesKeep, DeliverKeeps,
       Zenon
  <2>. QED  BY <1>2, <2>1, <2>2, <2>3, Zenon DEF ChatNext
<1>. QED  BY <1>1, <1>2

(* The invariant holds in every reachable state: whatever the schedule, the  *)
(* events on their way continue what the client shows of the answer.         *)
THEOREM ChatInvariant == ChatSpec => []ChatInv
<1>1. ChatInit => ChatInv
  BY ChatBegins
<1>2. ChatInv /\ [ChatNext]_chatVars => ChatInv'
  BY ChatStepsOn
<1>. QED  BY <1>1, <1>2, PTL DEF ChatSpec

(* What the client shows is the beginning of the answer to its last message, *)
(* and all of it when it is shown as done (useChatStream.ts:37-91).          *)
THEOREM ChatTruthful == ChatSpec => []ChatIsTruthful
<1>1. ChatInv => ChatIsTruthful
  BY ChatInvImplies
<1>. QED  BY <1>1, ChatInvariant, PTL

(* No prompt exceeds its budget, for every width of characters, every budget *)
(* and all sizes of hits (chat.rs:143-177).                                  *)
THEOREM ChatPrompt == ChatSpec => []PromptFits
<1>1. ChatInv => PromptFits
  BY PipesFit DEF ChatInv, ChatTyped
<1>. QED  BY <1>1, ChatInvariant, PTL

=============================================================================

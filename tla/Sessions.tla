------------------------------ MODULE Sessions ------------------------------
(***************************************************************************)
(* Accounts and sessions: crates/skb-server/src/auth.rs over the tables of *)
(* schema/002_server.surql.  A request is a sequence of database calls;    *)
(* other requests come between them, and any call may fail.                *)
(*                                                                         *)
(* A session is [id, email, role, exp].  jsonwebtoken (external) accepts   *)
(* it until Leeway after exp.  Tokens, cookies, hashes and invites are     *)
(* abstracted to what they decide.                                         *)
(***************************************************************************)
EXTENDS Integers, FiniteSets

CONSTANTS
    Clients,        \* requests in flight, one per client
    Emails,
    Invited,        \* emails with an invite token
    NoUser,         \* an email without an account
    Ttl,            \* TOKEN_TTL_SECS, in ticks
    Leeway,         \* the token library's leeway, in ticks
    MaxTime,        \* bound of the model: ticks
    MaxSessions     \* bound of the model: sessions issued

Roles == {"reader", "author"}

ASSUME SessionAssumption ==
    /\ Ttl \in Nat /\ Leeway \in Nat
    /\ NoUser \notin [owner : Clients, role : Roles]

VARIABLES
    clock,
    configured,     \* the JWT secret is set and long enough
    users,          \* email |-> [owner, role] or NoUser; email is unique
    issued,         \* sessions issued
    revoked,        \* rows of revoked_session
    call,           \* per client: its request and the step it is at
    registered,     \* history: <<client, email>> answered 201
    loggedOut       \* history: sessions whose revocation was stored

sessionVars == <<clock, configured, users, issued, revoked, call, registered, loggedOut>>

Free == [step |-> "free"]
Go(c, s) == call' = [call EXCEPT ![c] = s]
Done(c) == Go(c, Free)
At(c, step) == call[c].step = step

-----------------------------------------------------------------------------
(* register *)

\* The role is reader unless the request presents the token listed for the
\* very email; then the email is looked up.
BeginRegister(c) ==
    /\ At(c, "free")
    /\ \E email \in Emails, invite \in BOOLEAN :
         IF users[email] # NoUser THEN UNCHANGED call
         ELSE Go(c, [step |-> "create", email |-> email,
                     role |-> IF invite /\ email \in Invited THEN "author" ELSE "reader"])
    /\ UNCHANGED <<clock, configured, users, issued, revoked, registered, loggedOut>>

\* The index does not hold: the later account replaces the earlier one.
CreateUserTwice(c) ==
    /\ At(c, "create")
    /\ users' = [users EXCEPT ![call[c].email] = [owner |-> c, role |-> call[c].role]]
    /\ registered' = registered \cup {<<c, call[c].email>>}
    /\ Done(c)
    /\ UNCHANGED <<clock, configured, issued, revoked, loggedOut>>

\* CREATE: the unique index refuses a second account (409); any other failure
\* is a 500.
CreateUser(c) ==
    /\ At(c, "create")
    /\ \/ /\ users[call[c].email] = NoUser
          /\ users' = [users EXCEPT ![call[c].email] = [owner |-> c, role |-> call[c].role]]
          /\ registered' = registered \cup {<<c, call[c].email>>}
       \/ UNCHANGED <<users, registered>>
    /\ Done(c)
    /\ UNCHANGED <<clock, configured, issued, revoked, loggedOut>>

(* login *)

\* The row is read and the password verified; a client knows the password of
\* the accounts it made.
BeginLogin(c) ==
    /\ At(c, "free") /\ configured
    /\ \E email \in Emails :
        /\ users[email] # NoUser /\ users[email].owner = c
        /\ Go(c, [step |-> "issue", email |-> email, role |-> users[email].role])
    /\ UNCHANGED <<clock, configured, users, issued, revoked, registered, loggedOut>>

Issue(c) ==
    /\ At(c, "issue") /\ Cardinality(issued) < MaxSessions
    /\ issued' = issued \cup {[id |-> Cardinality(issued) + 1, email |-> call[c].email,
                              role |-> call[c].role, exp |-> clock + Ttl]}
    /\ Done(c)
    /\ UNCHANGED <<clock, configured, users, revoked, registered, loggedOut>>

(* logout *)

\* What the token library accepts.
Valid(s) == clock <= s.exp + Leeway

BeginLogout(c) ==
    /\ At(c, "free") /\ configured
    /\ \E s \in issued : Valid(s) /\ Go(c, [step |-> "revoke", session |-> s])
    /\ UNCHANGED <<clock, configured, users, issued, revoked, registered, loggedOut>>

\* The row is created; now() is read for the purge.
Revoke(c) ==
    /\ At(c, "revoke")
    /\ \/ /\ revoked' = revoked \cup {call[c].session}
          /\ loggedOut' = loggedOut \cup {call[c].session}
          /\ Go(c, [step |-> "purge", now |-> clock])
       \/ Done(c) /\ UNCHANGED <<revoked, loggedOut>>
    /\ UNCHANGED <<clock, configured, users, issued, registered>>

\* The purge takes the session that expires now along.
ExpiredByNow(s, now) == s.exp <= now

Expired(s, now) == s.exp < now

Purge(c) ==
    /\ At(c, "purge")
    /\ \/ revoked' = {s \in revoked : ~Expired(s, call[c].now)}
       \/ UNCHANGED revoked
    /\ Done(c)
    /\ UNCHANGED <<clock, configured, users, issued, registered, loggedOut>>

(* the AuthUser extractor *)

\* The token is decoded, then its revocation looked up.
BeginUse(c) ==
    /\ At(c, "free") /\ configured
    /\ \E s \in issued : Valid(s) /\ Go(c, [step |-> "lookup", session |-> s])
    /\ UNCHANGED <<clock, configured, users, issued, revoked, registered, loggedOut>>

Accepts(c) == At(c, "lookup") /\ call[c].session \notin revoked

\* Accepted, refused with 401, or failed with 500: the handler takes over.
Lookup(c) ==
    /\ At(c, "lookup") /\ Done(c)
    /\ UNCHANGED <<clock, configured, users, issued, revoked, registered, loggedOut>>

Pass ==
    /\ clock < MaxTime /\ clock' = clock + 1
    /\ UNCHANGED <<configured, users, issued, revoked, call, registered, loggedOut>>

SessionInit ==
    /\ clock = 0 /\ configured \in BOOLEAN
    /\ users = [e \in Emails |-> NoUser] /\ issued = {} /\ revoked = {}
    /\ call = [c \in Clients |-> Free]
    /\ registered = {} /\ loggedOut = {}

SessionNext ==
    \/ \E c \in Clients :
        \/ BeginRegister(c) \/ CreateUser(c) \/ BeginLogin(c) \/ Issue(c)
        \/ BeginLogout(c) \/ Revoke(c) \/ Purge(c) \/ BeginUse(c) \/ Lookup(c)
    \/ Pass

SessionSpec == SessionInit /\ [][SessionNext]_sessionVars

-----------------------------------------------------------------------------
(* Properties *)

\* Of the registrations of one email that passed the lookup together at most
\* one is answered 201, and the account is that one's (auth.rs:303-340).
OneAccountPerEmail ==
    \A e \in Emails :
        /\ Cardinality({r \in registered : r[2] = e}) <= 1
        /\ \A r \in registered : r[2] = e => users[e] # NoUser /\ users[e].owner = r[1]

\* A session that was logged out is not accepted again before it expires,
\* whichever logouts purge the list meanwhile and however old their clock
\* reading is (auth.rs:189-208, 452-466).  Within the library's leeway after
\* exp the code promises nothing: the row may be gone.
RevokedStaysRevoked ==
    \A c \in Clients :
        Accepts(c) /\ clock <= call[c].session.exp => call[c].session \notin loggedOut

\* Every session carries the role of its account, and author needs an invite.
RolesFromInvites ==
    \A s \in issued : s.role = users[s.email].role
                      /\ (s.role = "author" => s.email \in Invited)

=============================================================================

-------------------------- MODULE McpServerProofs --------------------------
(***************************************************************************)
(* Theorems about McpServer, for any number of requests in flight, any set  *)
(* of documents and any capacity of the progress channel.                   *)
(***************************************************************************)
EXTENDS McpServer, TLAPS, FiniteSetTheorems

USE DEF At, Is, Goto, Reply

(* Counting documents. *)
LEMMA Count ==
  ASSUME NEW S, S \subseteq Documents
  PROVE  IsFiniteSet(S) /\ Cardinality(S) \in Nat
  BY ServerAssumption, FS_Subset, FS_CardinalityType

(* Fewer documents, a smaller count. *)
LEMMA CountLess ==
  ASSUME NEW S, NEW T, S \subseteq Documents, T \subseteq S
  PROVE  Cardinality(T) <= Cardinality(S)
  BY Count, FS_Subset

(* The last progress sent is a number. *)
LEMMA MaxSentType ==
  ASSUME TypeOK, NEW c \in Calls
  PROVE  MaxSent(c) \in Nat
<1>1. relay[c].sent \in Seq(Nat)
  BY DEF TypeOK, Channel
<1>. QED  BY <1>1 DEF MaxSent

(* Steps of a request, and of its reindex, keep their records typed. *)
LEMMA GotoTyped ==
  ASSUME TypeOK, NEW c \in Calls, NEW pc \in Pcs, Goto(c, pc)
  PROVE  call' \in [Calls -> Request]
  BY DEF TypeOK, Request

(* An answered request is typed: its slot is idle. *)
LEMMA AnswerTyped ==
  ASSUME TypeOK, NEW c \in Calls, Reply(c)
  PROVE  call' \in [Calls -> Request]
<1>1. NoCall \in Request
  BY DEF NoCall, Request, Pcs
<1>. QED  BY <1>1 DEF TypeOK

(* The callback puts numbers into the channel ... *)
LEMMA ReportTyped ==
  ASSUME TypeOK, NEW c \in Calls, NEW done \in Nat, Report(c, done)
  PROVE  relay' \in [Calls -> Channel]
<1>1. Append(relay[c].chan, done) \in Seq(Nat)
  BY DEF TypeOK, Channel
<1>. QED  BY <1>1 DEF Report, TypeOK, Channel

(* ... and leaves the rest of the channel's state alone. *)
LEMMA ReportKeeps ==
  ASSUME TypeOK, NEW c \in Calls, NEW done, Report(c, done)
  PROVE  \A d \in Calls :
           /\ relay'[d].state = relay[d].state /\ relay'[d].total = relay[d].total
           /\ relay'[d].last = relay[d].last /\ relay'[d].sent = relay[d].sent
           /\ relay'[d].chan # relay[d].chan =>
                d = c /\ relay'[d].chan = Append(relay[d].chan, done)
<1>. DEFINE new == [relay EXCEPT ![c].chan = Append(@, done)]
<1>1. relay' = relay \/ relay' = new
  BY DEF Report
<1>2. CASE relay' = new
  BY <1>2 DEF TypeOK, Channel
<1>. QED  BY <1>1, <1>2

(* Closing the channel keeps it typed. *)
LEMMA CloseTyped ==
  ASSUME TypeOK, NEW c \in Calls, Close(c)
  PROVE  relay' \in [Calls -> Channel]
  BY DEF Close, TypeOK, Channel

(* TypeOK is inductive: requests and the mutex. *)
LEMMA RequestTyped ==
  ASSUME TypeOK, NEW c \in Calls,
         \/ \E kind \in Kinds : Receive(c, kind)
         \/ Reject(c) \/ Claim(c) \/ Pass(c) \/ Join(c) \/ Acquire(c)
         \/ RunTool(c) \/ ReadResource(c) \/ ReadPage(c) \/ ListingError(c)
  PROVE  TypeOK'
<1>0. {"gate", "join", "wait", "held", "error"} \subseteq Pcs
  BY DEF Pcs
<1>1. ASSUME NEW kind \in Kinds, Receive(c, kind)
      PROVE  TypeOK'
  BY <1>0, <1>1 DEF Receive, TypeOK, Request
<1>2. CASE Reject(c) \/ ListingError(c) \/ ReadResource(c)
  <2>1. Reply(c)
    BY <1>2 DEF Reject, ListingError, ReadResource
  <2>. QED  BY <1>2, <2>1, AnswerTyped DEF Reject, ListingError, ReadResource, TypeOK
<1>3. CASE Claim(c) \/ Pass(c)
  <2>1. Goto(c, "join")
    BY <1>3 DEF Claim, Pass
  <2>. QED  BY <1>0, <1>3, <2>1, GotoTyped DEF Claim, Pass, TypeOK
<1>4. CASE Join(c)
  <2>1. waiters' \in Seq(Calls)
    BY <1>4 DEF Join, TypeOK
  <2>. QED  BY <1>0, <1>4, <2>1, GotoTyped DEF Join, TypeOK
<1>5. CASE Acquire(c)
  <2>1. waiters' \in Seq(Calls)
    BY <1>5 DEF Acquire, TypeOK
  <2>. QED  BY <1>0, <1>5, <2>1, GotoTyped DEF Acquire, TypeOK
<1>6. CASE RunTool(c)
  <2>1. store' \subseteq Documents
    BY <1>6 DEF RunTool, TypeOK
  <2>. QED  BY <1>6, <2>1, AnswerTyped DEF RunTool, TypeOK
<1>7. CASE ReadPage(c)
  <2>1. call' \in [Calls -> Request]
    <3>1. CASE call[c].turn = 2
      BY <1>0, <1>7, <3>1, GotoTyped DEF ReadPage
    <3>2. CASE call[c].turn # 2 /\ Cardinality(store) >= Page
      BY <1>0, <1>7, <3>2 DEF ReadPage, TypeOK, Request
    <3>3. CASE call[c].turn # 2 /\ ~(Cardinality(store) >= Page)
      BY <1>7, <3>3, AnswerTyped DEF ReadPage
    <3>. QED  BY <3>1, <3>2, <3>3
  <2>. QED  BY <1>7, <2>1 DEF ReadPage, TypeOK
<1>. QED
  BY <1>1, <1>2, <1>3, <1>4, <1>5, <1>6, <1>7

(* TypeOK is inductive: reindex and its forwarder. *)
LEMMA ReindexTyped ==
  ASSUME TypeOK, NEW c \in Calls, RebuildsTheStore, Relayed(c),
         \/ Yield(c) \/ Decline(c) \/ BeginRebuild(c) \/ RebuildOne(c) \/ Complete(c)
         \/ Return(c) \/ Panic(c) \/ Drain(c) \/ Release(c) \/ Unflag(c)
         \/ Forward(c) \/ End(c)
  PROVE  TypeOK'
<1>0. {"join", "rebuild", "drain", "release", "unflag"} \subseteq Pcs
  BY DEF Pcs
<1>1. CASE Decline(c) \/ Drain(c) \/ Release(c)
  BY <1>0, <1>1, GotoTyped DEF Decline, Drain, Release, TypeOK
<1>2. CASE Yield(c)
  BY <1>0, <1>2 DEF Yield, TypeOK, Request
<1>3. CASE BeginRebuild(c)
  <2>1. relay' \in [Calls -> Channel]
    <3>1. Cardinality(store) \in Nat
      BY Count DEF TypeOK
    <3>2. CASE relay' = relay
      BY <3>2 DEF TypeOK
    <3>3. CASE relay' = [relay EXCEPT ![c].state = "open",
                                      ![c].total = Cardinality(store)]
      BY <3>1, <3>3 DEF TypeOK, Channel
    <3>. QED  BY <1>3, <3>2, <3>3 DEF BeginRebuild
  <2>2. job' \in [Calls -> Job]
    BY <1>3 DEF BeginRebuild, TypeOK, Job
  <2>. QED  BY <1>0, <1>3, <2>1, <2>2, GotoTyped DEF BeginRebuild, TypeOK
<1>4. CASE RebuildOne(c)
  <2>. DEFINE d == CHOOSE d \in job[c].todo : TRUE
  <2>1. job[c].todo \subseteq Documents /\ job[c].todo \ {d} \subseteq Documents
    BY DEF TypeOK, Job
  <2>2. job' \in [Calls -> Job]
    BY <1>4 DEF RebuildOne, TypeOK, Job
  <2>3. relay' \in [Calls -> Channel]
    <3>1. CASE relay[c].state = "open"
      <4>1. relay[c].total - Cardinality(job[c].todo \ {d}) \in Nat
        <5>1. relay[c].total = Cardinality(store) /\ job[c].todo \subseteq store
          BY <1>4, <3>1 DEF RebuildOne, RebuildsTheStore
        <5>2. store \subseteq Documents
          BY DEF TypeOK
        <5>3. Cardinality(job[c].todo \ {d}) <= Cardinality(store)
          BY <5>1, <5>2, CountLess
        <5>. QED  BY <2>1, <5>1, <5>2, <5>3, Count
      <4>. QED  BY <1>4, <4>1, ReportTyped DEF RebuildOne
    <3>2. CASE relay[c].state # "open"
      BY <1>4, <3>2 DEF RebuildOne, Report, TypeOK
    <3>. QED  BY <3>1, <3>2
  <2>. QED  BY <1>4, <2>2, <2>3 DEF RebuildOne, TypeOK
<1>5. CASE Complete(c)
  <2>1. relay[c].total \in Nat
    BY DEF TypeOK, Channel
  <2>2. job' \in [Calls -> Job]
    BY <1>5 DEF Complete, TypeOK, Job
  <2>. QED  BY <1>5, <2>1, <2>2, ReportTyped DEF Complete, TypeOK
<1>6. CASE Return(c) \/ Panic(c)
  BY <1>0, <1>6, CloseTyped, GotoTyped DEF Return, Panic, TypeOK
<1>7. CASE Unflag(c)
  <2>1. relay' \in [Calls -> Channel]
    <3>1. NoRelay \in Channel
      BY DEF NoRelay, Channel
    <3>. QED  BY <1>7, <3>1 DEF Unflag, Retire, TypeOK
  <2>2. job' \in [Calls -> Job]
    BY <1>7 DEF Unflag, TypeOK, Job, NoJob
  <2>. QED  BY <1>7, <2>1, <2>2, AnswerTyped DEF Unflag, TypeOK
<1>8. CASE Forward(c)
  <2>. DEFINE r == relay[c]
  <2>1. r \in Channel /\ Head(r.chan) \in Nat /\ Tail(r.chan) \in Seq(Nat)
        /\ Append(r.sent, Head(r.chan)) \in Seq(Nat)
    BY <1>8 DEF Forward, TypeOK, Channel
  <2>2. relay' \in [Calls -> Channel]
    BY <1>8, <2>1 DEF Forward, TypeOK, Channel
  <2>. QED  BY <1>8, <2>2 DEF Forward, TypeOK
<1>9. CASE End(c)
  <2>. DEFINE r == relay[c]
  <2>1. r \in Channel /\ Append(r.sent, r.last) \in Seq(Nat) /\ NoRelay \in Channel
    BY DEF TypeOK, Channel, NoRelay
  <2>2. relay' \in [Calls -> Channel]
    BY <1>9, <2>1 DEF End, TypeOK, Channel
  <2>. QED  BY <1>9, <2>2 DEF End, TypeOK
<1>. QED
  BY <1>1, <1>2, <1>3, <1>4, <1>5, <1>6, <1>7, <1>8, <1>9

(* TypeOK is inductive, given that a rebuild knows what it rebuilds. *)
LEMMA TypeStep ==
  ASSUME TypeOK, RebuildsTheStore, McpInv, [ServerNext]_serverVars
  PROVE  TypeOK'
<1>1. CASE UNCHANGED serverVars
  BY <1>1 DEF serverVars, TypeOK
<1>2. ASSUME NEW c \in Calls, (\E kind \in Kinds : Receive(c, kind)) \/ Handle(c) \/ Relay(c)
      PROVE  TypeOK'
  BY <1>2, RequestTyped, ReindexTyped DEF Handle, Relay, McpInv
<1>. QED  BY <1>1, <1>2 DEF ServerNext

-----------------------------------------------------------------------------
(* The mutex and the flag *)

(* No two requests work at once. *)
LEMMA ExclusionStep ==
  ASSUME TypeOK, OneAtATime, [ServerNext]_serverVars
  PROVE  OneAtATime'
<1>. USE ServerAssumption DEF OneAtATime, Working
<1>1. CASE UNCHANGED serverVars
  BY <1>1 DEF serverVars
<1>2. ASSUME NEW c \in Calls, NEW kind \in Kinds, Receive(c, kind)
      PROVE  OneAtATime'
  BY <1>2 DEF Receive, TypeOK, Request
<1>3. ASSUME NEW c \in Calls,
             Reject(c) \/ Claim(c) \/ Pass(c) \/ Join(c) \/ ListingError(c)
      PROVE  OneAtATime'
  BY <1>3 DEF Reject, Claim, Pass, Join, ListingError, NoCall, TypeOK, Request
<1>4. ASSUME NEW c \in Calls, Acquire(c)
      PROVE  OneAtATime'
  BY <1>4 DEF Acquire, TypeOK, Request
<1>5. ASSUME NEW c \in Calls, RunTool(c) \/ ReadResource(c)
      PROVE  OneAtATime'
  BY <1>5 DEF RunTool, ReadResource, NoCall, TypeOK, Request
<1>6. ASSUME NEW c \in Calls, ReadPage(c)
      PROVE  OneAtATime'
  BY <1>6 DEF ReadPage, NoCall, TypeOK, Request
<1>7. ASSUME NEW c \in Calls, Yield(c) \/ Release(c)
      PROVE  OneAtATime'
  BY <1>7 DEF Yield, Release, TypeOK, Request
<1>8. ASSUME NEW c \in Calls,
             Decline(c) \/ BeginRebuild(c) \/ Return(c) \/ Panic(c) \/ Drain(c)
      PROVE  OneAtATime'
  BY <1>8 DEF Decline, BeginRebuild, Return, Panic, Drain, TypeOK, Request
<1>9. ASSUME NEW c \in Calls, RebuildOne(c) \/ Complete(c) \/ Relay(c)
      PROVE  OneAtATime'
  BY <1>9 DEF RebuildOne, Complete, Relay, Forward, End
<1>10. ASSUME NEW c \in Calls, Unflag(c)
      PROVE  OneAtATime'
  BY <1>10 DEF Unflag, NoCall, TypeOK, Request
<1>. QED
  BY <1>1, <1>2, <1>3, <1>4, <1>5, <1>6, <1>7, <1>8, <1>9, <1>10 DEF ServerNext, Handle

(* The flag is up for one reindex: only its claim and its end change who    *)
(* has claimed.                                                             *)
LEMMA FlagStep ==
  ASSUME TypeOK, FlagIsOwned, McpInv, [ServerNext]_serverVars
  PROVE  FlagIsOwned'
<1>0. None \notin Kinds
  BY ServerAssumption
<1>. DEFINE Same == /\ reindexing' = reindexing
                    /\ \A d \in Calls : Claimed(d)' <=> Claimed(d)
<1>1. CASE UNCHANGED serverVars
  BY <1>1 DEF serverVars, FlagIsOwned, Claimed
<1>2. ASSUME NEW c \in Calls, NEW kind \in Kinds, Receive(c, kind)
      PROVE  Same
  BY <1>0, <1>2 DEF Receive, TypeOK, Request, Kinds, McpInv, Placed, Claimed
<1>3. ASSUME NEW c \in Calls, Reject(c)
      PROVE  Same
  BY <1>0, <1>3 DEF Reject, NoCall, TypeOK, Request, Kinds, Claimed
<1>4. ASSUME NEW c \in Calls,
             ListingError(c) \/ RunTool(c) \/ ReadResource(c) \/ ReadPage(c)
      PROVE  Same
  <2>1. ~Is(c, "reindex")
    BY <1>4 DEF ListingError, RunTool, ReadResource, ReadPage, McpInv, Placed
  <2>2. Is(c, "reindex")' => Is(c, "reindex")
    BY <1>0, <1>4 DEF ListingError, RunTool, ReadResource, ReadPage, NoCall,
                      TypeOK, Request, Kinds
  <2>3. \A d \in Calls \ {c} : call'[d] = call[d]
    BY <1>4 DEF ListingError, RunTool, ReadResource, ReadPage, TypeOK
  <2>. QED  BY <1>4, <2>1, <2>2, <2>3 DEF ListingError, RunTool, ReadResource, ReadPage, Claimed
<1>5. ASSUME NEW c \in Calls, Pass(c) \/ Join(c) \/ Acquire(c)
      PROVE  Same
  BY <1>5 DEF Pass, Join, Acquire, TypeOK, Request, Claimed
<1>6. ASSUME NEW c \in Calls,
             \/ Yield(c) \/ Decline(c) \/ BeginRebuild(c)
             \/ Return(c) \/ Panic(c) \/ Drain(c) \/ Release(c)
      PROVE  Same
  BY <1>6 DEF Yield, Decline, BeginRebuild, Return, Panic, Drain, Release, TypeOK, Request, Claimed
<1>7. ASSUME NEW c \in Calls, RebuildOne(c) \/ Complete(c) \/ Relay(c)
      PROVE  Same
  BY <1>7 DEF RebuildOne, Complete, Relay, Forward, End, Claimed
<1>8. ASSUME NEW c \in Calls, Claim(c)
      PROVE  FlagIsOwned'
  <2>1. reindexing' /\ \A d \in Calls : ~Claimed(d)
    BY <1>8 DEF Claim, FlagIsOwned
  <2>2. \A d \in Calls : Claimed(d)' <=> d = c
    BY <1>8, <2>1 DEF Claim, TypeOK, Request, Claimed
  <2>. QED  BY <2>1, <2>2 DEF FlagIsOwned
<1>9. ASSUME NEW c \in Calls, Unflag(c)
      PROVE  FlagIsOwned'
  <2>1. Claimed(c)
    BY <1>9 DEF Unflag, McpInv, Placed, Ending, Claimed
  <2>2. \A d \in Calls : ~Claimed(d)'
    BY <1>0, <1>9, <2>1 DEF Unflag, NoCall, TypeOK, Request, Kinds, Claimed, FlagIsOwned
  <2>. QED  BY <1>9, <2>2 DEF Unflag, FlagIsOwned
<1>10. Same => FlagIsOwned'
  BY DEF FlagIsOwned
<1>. HIDE DEF Same
<1>. QED
  BY <1>1, <1>2, <1>3, <1>4, <1>5, <1>6, <1>7, <1>8, <1>9, <1>10 DEF ServerNext, Handle

(* Nothing is stored or deleted while a reindex works: it holds the mutex.  *)
LEMMA RebuildStep ==
  ASSUME TypeOK, OneAtATime, McpInv, RebuildsTheStore, [ServerNext]_serverVars
  PROVE  RebuildsTheStore'
<1>. USE ServerAssumption DEF RebuildsTheStore
<1>1. CASE UNCHANGED serverVars
  BY <1>1 DEF serverVars
<1>2. ASSUME NEW c \in Calls, NEW kind \in Kinds, Receive(c, kind)
      PROVE  RebuildsTheStore'
  BY <1>2 DEF Receive, TypeOK, Request
<1>3. ASSUME NEW c \in Calls,
             \/ Reject(c) \/ Claim(c) \/ Pass(c) \/ Join(c) \/ ListingError(c)
             \/ Acquire(c) \/ Yield(c) \/ Decline(c) \/ Drain(c) \/ Release(c)
      PROVE  RebuildsTheStore'
  BY <1>3, SMTT(20) DEF Reject, Claim, Pass, Join, ListingError, Acquire, Yield, Decline,
              Drain, Release, NoCall, TypeOK, Request
<1>4. ASSUME NEW c \in Calls, RunTool(c) \/ ReadResource(c)
      PROVE  RebuildsTheStore'
  <2>1. \A d \in Calls : ~At(d, "rebuild")
    BY <1>4 DEF OneAtATime, Working, RunTool, ReadResource
  <2>2. \A d \in Calls : ~At(d, "rebuild")'
    BY <1>4, <2>1 DEF RunTool, ReadResource, NoCall, TypeOK, Request
  <2>. QED  BY <2>2
<1>5. ASSUME NEW c \in Calls, ReadPage(c)
      PROVE  RebuildsTheStore'
  <2>1. \A d \in Calls : At(d, "rebuild")' => At(d, "rebuild")
    BY <1>5 DEF ReadPage, NoCall, TypeOK, Request
  <2>. QED  BY <1>5, <2>1 DEF ReadPage
<1>6. ASSUME NEW c \in Calls, BeginRebuild(c)
      PROVE  RebuildsTheStore'
  <2>1. ~(relay[c].state = "open")
    BY <1>6 DEF BeginRebuild, McpInv, Relayed
  <2>2. job'[c].todo = store
    BY <1>6 DEF BeginRebuild, TypeOK
  <2>3. relay'[c].state = "open" => relay'[c].total = Cardinality(store)
    BY <1>6, <2>1 DEF BeginRebuild, TypeOK, Channel
  <2>4. \A d \in Calls \ {c} : ~At(d, "rebuild")'
    BY <1>6 DEF BeginRebuild, OneAtATime, Working, TypeOK, Request
  <2>. QED  BY <1>6, <2>2, <2>3, <2>4 DEF BeginRebuild
<1>7. ASSUME NEW c \in Calls, Return(c) \/ Panic(c)
      PROVE  RebuildsTheStore'
  <2>1. \A d \in Calls : At(d, "rebuild")' => d # c /\ At(d, "rebuild")
    BY <1>7 DEF Return, Panic, TypeOK, Request
  <2>2. \A d \in Calls \ {c} : relay'[d] = relay[d]
    BY <1>7 DEF Return, Panic, Close, TypeOK
  <2>. QED  BY <1>7, <2>1, <2>2 DEF Return, Panic
<1>8. ASSUME NEW c \in Calls, Unflag(c)
      PROVE  RebuildsTheStore'
  <2>1. \A d \in Calls : At(d, "rebuild")' => d # c /\ At(d, "rebuild")
    BY <1>8 DEF Unflag, NoCall, TypeOK, Request
  <2>2. \A d \in Calls \ {c} : job'[d] = job[d] /\ relay'[d] = relay[d]
    BY <1>8 DEF Unflag, TypeOK
  <2>. QED  BY <1>8, <2>1, <2>2 DEF Unflag
<1>9. ASSUME NEW c \in Calls, RebuildOne(c) \/ Complete(c)
      PROVE  RebuildsTheStore'
  <2>1. \A d \in Calls : job'[d].todo \subseteq job[d].todo
    <3>1. CASE RebuildOne(c)
      BY <3>1 DEF RebuildOne, TypeOK, Job
    <3>2. CASE Complete(c)
      BY <3>2 DEF Complete, TypeOK, Job
    <3>. QED  BY <1>9, <3>1, <3>2
  <2>2. \A d \in Calls : /\ relay'[d].state = relay[d].state
                         /\ relay'[d].total = relay[d].total
    BY <1>9, ReportKeeps DEF RebuildOne, Complete
  <2>. QED  BY <1>9, <2>1, <2>2 DEF RebuildOne, Complete
<1>10. ASSUME NEW c \in Calls, Relay(c)
      PROVE  RebuildsTheStore'
  <2>1. \A d \in Calls : relay'[d].state = "open" =>
          relay[d].state = "open" /\ relay'[d].total = relay[d].total
    <3>1. CASE Forward(c)
      BY <3>1 DEF Forward, TypeOK, Channel
    <3>2. CASE End(c)
      BY <3>2 DEF End, NoRelay, TypeOK, Channel
    <3>. QED  BY <1>10, <3>1, <3>2 DEF Relay
  <2>. QED  BY <1>10, <2>1 DEF Relay, Forward, End
<1>. QED
  BY <1>1, <1>2, <1>3, <1>4, <1>5, <1>6, <1>7, <1>8, <1>9, <1>10 DEF ServerNext, Handle

-----------------------------------------------------------------------------
(* Progress *)

(* A step of one request leaves the records of the others alone. *)
LEMMA Frame ==
  ASSUME TypeOK, NEW c \in Calls,
         (\E kind \in Kinds : Receive(c, kind)) \/ Handle(c) \/ Relay(c),
         NEW d \in Calls \ {c}
  PROVE  call'[d] = call[d] /\ job'[d] = job[d] /\ relay'[d] = relay[d]
<1>. USE DEF TypeOK
<1>1. CASE \E kind \in Kinds : Receive(c, kind)
  BY <1>1 DEF Receive
<1>2. CASE \/ Reject(c) \/ Claim(c) \/ Pass(c) \/ Join(c) \/ Acquire(c)
           \/ RunTool(c) \/ ReadResource(c) \/ ListingError(c)
  BY <1>2 DEF Reject, Claim, Pass, Join, Acquire, RunTool, ReadResource, ListingError
<1>3. CASE ReadPage(c)
  BY <1>3 DEF ReadPage
<1>4. CASE Yield(c) \/ Decline(c) \/ Drain(c) \/ Release(c)
  BY <1>4 DEF Yield, Decline, Drain, Release
<1>5. CASE BeginRebuild(c)
  BY <1>5 DEF BeginRebuild
<1>6. CASE RebuildOne(c) \/ Complete(c)
  BY <1>6 DEF RebuildOne, Complete, Report
<1>7. CASE Return(c) \/ Panic(c) \/ Unflag(c)
  BY <1>7 DEF Return, Panic, Close, Unflag
<1>8. CASE Relay(c)
  BY <1>8 DEF Relay, Forward, End
<1>. QED
  BY <1>1, <1>2, <1>3, <1>4, <1>5, <1>6, <1>7, <1>8 DEF Handle

(* Where a request is agrees with its kind and its locals. *)
LEMMA PlacedStep ==
  ASSUME TypeOK, NEW c \in Calls, Placed(c),
         (\E kind \in Kinds : Receive(c, kind)) \/ Handle(c) \/ Relay(c)
  PROVE  Placed(c)'
<1>0. call[c] \in Request /\ None \notin Kinds
  BY ServerAssumption DEF TypeOK
<1>. USE <1>0 DEF Placed, Ending, TypeOK, Request, Kinds
<1>1. CASE \E kind \in Kinds : Receive(c, kind)
  BY <1>1 DEF Receive
<1>2. CASE Reject(c) \/ ListingError(c) \/ RunTool(c) \/ ReadResource(c)
  BY <1>2 DEF Reject, ListingError, RunTool, ReadResource, NoCall
<1>3. CASE Claim(c) \/ Pass(c) \/ Join(c) \/ Acquire(c)
  BY <1>3 DEF Claim, Pass, Join, Acquire
<1>4. CASE ReadPage(c)
  <2>1. call'[c] = NoCall \/ (Is(c, "listing")' /\ call'[c].pc \in {"join", "error"})
    BY <1>4 DEF ReadPage
  <2>. QED  BY <1>4, <2>1 DEF ReadPage, NoCall
<1>5. CASE Yield(c)
  BY <1>5 DEF Yield
<1>6. CASE Decline(c) \/ BeginRebuild(c) \/ Return(c) \/ Panic(c) \/ Drain(c) \/ Release(c)
  BY <1>6 DEF Decline, BeginRebuild, Return, Panic, Drain, Release
<1>7. CASE RebuildOne(c) \/ Complete(c)
  BY <1>7 DEF RebuildOne, Complete
<1>8. CASE Unflag(c)
  BY <1>8 DEF Unflag, NoCall
<1>9. CASE Relay(c)
  BY <1>9 DEF Relay, Forward, End
<1>. QED
  BY <1>1, <1>2, <1>3, <1>4, <1>5, <1>6, <1>7, <1>8, <1>9 DEF Handle

(* The forwarder lives from the rebuild on. *)
LEMMA RelayedStep ==
  ASSUME TypeOK, NEW c \in Calls, Placed(c), Relayed(c),
         (\E kind \in Kinds : Receive(c, kind)) \/ Handle(c) \/ Relay(c)
  PROVE  Relayed(c)'
<1>0. call[c] \in Request /\ None \notin Kinds /\ relay[c] \in Channel
  BY ServerAssumption DEF TypeOK
<1>. USE <1>0 DEF Relayed, Ending, TypeOK, Request
<1>1. CASE \E kind \in Kinds : Receive(c, kind)
  BY <1>1 DEF Receive, NoRelay
<1>2. CASE Reject(c) \/ ListingError(c) \/ RunTool(c) \/ ReadResource(c)
  BY <1>2 DEF Reject, ListingError, RunTool, ReadResource, NoCall
<1>3. CASE Claim(c) \/ Pass(c) \/ Join(c) \/ Acquire(c)
  BY <1>3 DEF Claim, Pass, Join, Acquire
<1>4. CASE ReadPage(c)
  <2>1. relay[c].state = "off"
    BY <1>4 DEF ReadPage, Channel
  <2>. QED  BY <1>4, <2>1 DEF ReadPage
<1>5. CASE Yield(c)
  BY <1>5 DEF Yield
<1>6. CASE Decline(c) \/ Drain(c) \/ Release(c)
  BY <1>6 DEF Decline, Drain, Release
<1>7. CASE BeginRebuild(c)
  <2>1. relay[c].state = "off"
    BY <1>7 DEF BeginRebuild, Channel
  <2>2. At(c, "rebuild")'
    BY <1>7 DEF BeginRebuild
  <2>3. relay' = relay \/ relay'[c].state = "open"
    BY <1>7 DEF BeginRebuild, Channel
  <2>. QED  BY <2>1, <2>2, <2>3
<1>8. CASE RebuildOne(c) \/ Complete(c)
  <2>1. relay'[c] = relay[c] \/ (relay[c].state = "open" /\ relay'[c].state = "open")
    BY <1>8 DEF RebuildOne, Complete, Report, Channel
  <2>. QED  BY <1>8, <2>1 DEF RebuildOne, Complete
<1>9. CASE Return(c) \/ Panic(c)
  <2>1. relay[c].state \in {"off", "open"}
    BY <1>9 DEF Return, Panic, Channel
  <2>2. relay'[c].state = (IF relay[c].state = "open" THEN "closed" ELSE "off")
    BY <1>9, <2>1 DEF Return, Panic, Close, Channel
  <2>3. relay[c].state = "off" => relay'[c] = relay[c]
    BY <1>9 DEF Return, Panic, Close, Channel
  <2>4. At(c, "drain")' \/ At(c, "release")'
    BY <1>9 DEF Return, Panic
  <2>5. job'[c].ok => At(c, "drain")'
    BY <1>9 DEF Return, Panic
  <2>. QED  BY <2>1, <2>2, <2>3, <2>4, <2>5
<1>10. CASE Unflag(c)
  <2>1. relay[c].state # "open"
    BY <1>10 DEF Unflag
  <2>2. relay'[c] = NoRelay \/ relay'[c].state = "closed"
    BY <1>10, <2>1 DEF Unflag, Retire, Channel
  <2>3. At(c, "idle")' /\ ~job'[c].ok
    BY <1>10 DEF Unflag, NoCall, NoJob
  <2>. QED  BY <2>2, <2>3 DEF NoRelay
<1>11. CASE Forward(c)
  <2>1. relay[c].state # "off"
    BY <1>11 DEF Forward, NoRelay
  <2>2. relay'[c].state = relay[c].state
    BY <1>11 DEF Forward, Channel
  <2>. QED  BY <1>11, <2>1, <2>2 DEF Forward
<1>12. CASE End(c)
  <2>1. CASE Is(c, "reindex")
    <3>1. relay'[c].state = "done"
      BY <1>12, <2>1 DEF End, Channel
    <3>2. call[c].pc \in Ending
      BY <1>0, <1>12, <2>1 DEF End, Placed, Kinds
    <3>. QED  BY <1>12, <3>1, <3>2 DEF End
  <2>2. CASE ~Is(c, "reindex")
    BY <1>12, <2>2 DEF End, NoRelay
  <2>. QED  BY <2>1, <2>2
<1>. QED
  BY <1>1, <1>2, <1>3, <1>4, <1>5, <1>6, <1>7, <1>8, <1>9, <1>10, <1>11, <1>12
  DEF Handle, Relay

(* A number appended to increasing numbers that it exceeds. *)
LEMMA Increases ==
  ASSUME NEW s \in Seq(Nat), NEW n \in Nat, NEW m \in Nat,
         \A i \in 1 .. Len(s) : 0 < s[i] /\ s[i] <= m,
         \A i, j \in 1 .. Len(s) : i < j => s[i] < s[j],
         n <= m, 0 < n, s = <<>> \/ s[Len(s)] < n
  PROVE  LET t == Append(s, n) IN
         /\ \A i \in 1 .. Len(t) : 0 < t[i] /\ t[i] <= m
         /\ \A i, j \in 1 .. Len(t) : i < j => t[i] < t[j]
<1>. DEFINE t == Append(s, n)
<1>1. /\ Len(t) = Len(s) + 1 /\ t[Len(s) + 1] = n
      /\ \A i \in 1 .. Len(s) : t[i] = s[i]
  OBVIOUS
<1>2. Len(s) \in Nat /\ \A i \in 1 .. Len(s) : s[i] \in Nat
  OBVIOUS
<1>3. \A i \in 1 .. Len(s) : s[i] < n
  <2>1. CASE s = <<>>
    BY <2>1
  <2>2. CASE s # <<>> /\ s[Len(s)] < n
    <3>1. Len(s) \in 1 .. Len(s)
      BY <2>2
    <3>. QED  BY <1>2, <2>2, <3>1, SMTT(30)
  <2>. QED  BY <2>1, <2>2
<1>. HIDE DEF t
<1>4. \A i \in 1 .. Len(t) : 0 < t[i] /\ t[i] <= m
  BY <1>1, <1>2
<1>5. ASSUME NEW i \in 1 .. Len(t), NEW j \in 1 .. Len(t), i < j
      PROVE  t[i] < t[j]
  <2>1. i \in 1 .. Len(s)
    BY <1>1, <1>2, <1>5
  <2>2. CASE j = Len(s) + 1
    BY <1>1, <1>3, <2>1, <2>2
  <2>3. CASE j \in 1 .. Len(s)
    BY <1>1, <1>5, <2>1, <2>3
  <2>. QED  BY <1>1, <1>2, <2>2, <2>3
<1>. QED  BY <1>4, <1>5 DEF t

(* What the client was sent last bounds what it was sent. *)
LEMMA MaxSentBound ==
  ASSUME TypeOK, NEW c \in Calls, Progresses(c)
  PROVE  MaxSent(c) <= relay[c].total
<1>1. relay[c].sent \in Seq(Nat) /\ relay[c].total \in Nat
  BY DEF TypeOK, Channel
<1>2. CASE relay[c].sent # <<>>
  <2>1. Len(relay[c].sent) \in 1 .. Len(relay[c].sent)
    BY <1>1, <1>2
  <2>. QED  BY <1>2, <2>1 DEF MaxSent, Progresses
<1>. QED  BY <1>1, <1>2 DEF MaxSent

(* What fits in the channel is no more than the total. *)
LEMMA Reported ==
  ASSUME TypeOK, NEW c \in Calls, OnItsWay(c), Progresses(c), NEW done \in Nat,
         done <= relay[c].total, relay[c].state = "open",
         relay'[c] = [relay[c] EXCEPT !.chan = Append(@, done)]
  PROVE  OnItsWay(c)' /\ Progresses(c)'
<1>. DEFINE r == relay[c]
            new == Append(r.chan, done)
<1>1. r \in Channel /\ r.chan \in Seq(Nat)
  BY DEF TypeOK, Channel
<1>2. /\ relay'[c].chan = new /\ relay'[c].state = "open"
      /\ relay'[c].total = r.total /\ relay'[c].last = r.last
      /\ relay'[c].sent = r.sent
  BY <1>1 DEF Channel
<1>3. new # <<>> /\ Len(new) = Len(r.chan) + 1
      /\ \A i \in 1 .. Len(new) : new[i] = done \/ (i \in 1 .. Len(r.chan) /\ new[i] = r.chan[i])
  BY <1>1
<1>. HIDE DEF new
<1>. QED  BY <1>2, <1>3 DEF OnItsWay, Progresses

(* The channel holds no more than the total, and what is sent increases. *)
LEMMA ProgressStep ==
  ASSUME TypeOK, NEW c \in Calls, RebuildsTheStore, Placed(c), Relayed(c),
         OnItsWay(c), Progresses(c),
         (\E kind \in Kinds : Receive(c, kind)) \/ Handle(c) \/ Relay(c)
  PROVE  OnItsWay(c)' /\ Progresses(c)'
<1>0. /\ relay[c] \in Channel /\ job[c] \in Job
      /\ relay[c].total \in Nat /\ relay[c].last \in Nat
      /\ relay[c].chan \in Seq(Nat) /\ relay[c].sent \in Seq(Nat)
  BY DEF TypeOK, Channel
<1>1. ASSUME relay'[c] = relay[c], job'[c].ok => job[c].ok
      PROVE  OnItsWay(c)' /\ Progresses(c)'
  BY <1>1 DEF OnItsWay, Progresses, MaxSent
<1>2. CASE \E kind \in Kinds : Receive(c, kind)
  BY <1>1, <1>2 DEF Receive
<1>3. CASE \/ Reject(c) \/ Claim(c) \/ Pass(c) \/ Join(c) \/ Acquire(c)
           \/ RunTool(c) \/ ReadResource(c) \/ ReadPage(c) \/ ListingError(c)
           \/ Yield(c) \/ Decline(c) \/ Drain(c) \/ Release(c)
  BY <1>1, <1>3 DEF Reject, Claim, Pass, Join, Acquire, RunTool, ReadResource,
       ReadPage, ListingError, Yield, Decline, Drain, Release
<1>4. CASE BeginRebuild(c)
  <2>1. relay[c] = NoRelay
    BY <1>0, <1>4 DEF BeginRebuild, Relayed, Channel, Ending
  <2>2. ~job'[c].ok
    BY <1>4 DEF BeginRebuild, TypeOK
  <2>3. relay'[c].chan = <<>> /\ relay'[c].sent = <<>> /\ relay'[c].last = 0
    BY <1>4, <2>1 DEF BeginRebuild, NoRelay, TypeOK, Channel
  <2>. QED  BY <2>2, <2>3 DEF OnItsWay, Progresses
<1>5. CASE RebuildOne(c)
  <2>. DEFINE todo == job[c].todo \ {CHOOSE d \in job[c].todo : TRUE}
              done == relay[c].total - Cardinality(todo)
  <2>1. job'[c].ok = job[c].ok /\ Report(c, done)
    BY <1>0, <1>5 DEF RebuildOne, TypeOK, Job
  <2>2. CASE relay'[c] = relay[c]
    BY <1>1, <2>1, <2>2
  <2>3. CASE relay'[c] # relay[c]
    <3>1. relay[c].state = "open" /\ relay'[c] = [relay[c] EXCEPT !.chan = Append(@, done)]
      BY <2>1, <2>3 DEF Report, TypeOK
    <3>2. done \in Nat /\ done <= relay[c].total
      <4>1. relay[c].total = Cardinality(store) /\ todo \subseteq store
        BY <1>5, <3>1 DEF RebuildOne, RebuildsTheStore
      <4>2. store \subseteq Documents
        BY DEF TypeOK
      <4>3. Cardinality(todo) <= Cardinality(store)
        BY <4>1, <4>2, CountLess
      <4>4. Cardinality(todo) \in Nat /\ Cardinality(store) \in Nat
        BY <4>1, <4>2, Count
      <4>. QED  BY <4>1, <4>3, <4>4
    <3>. HIDE DEF done
    <3>. QED  BY <3>1, <3>2, Reported
  <2>. QED  BY <2>2, <2>3
<1>6. CASE Complete(c)
  <2>1. CASE relay'[c] = relay[c]
    <3>1. relay[c].state \in {"off", "open"}
      BY <1>0, <1>6 DEF Complete, Relayed, Channel
    <3>2. relay[c].state = "open" => relay[c].chan # <<>>
      <4>1. ASSUME relay[c].state = "open", relay[c].chan = <<>>
            PROVE  FALSE
        <5>1. relay' = [relay EXCEPT ![c].chan = Append(@, relay[c].total)]
          BY <1>6, <4>1, ServerAssumption DEF Complete, Report
        <5>2. relay'[c].chan = Append(relay[c].chan, relay[c].total)
          BY <5>1 DEF TypeOK, Channel
        <5>. QED  BY <1>0, <2>1, <4>1, <5>2
      <4>. QED  BY <4>1
    <3>. QED  BY <2>1, <3>1, <3>2 DEF OnItsWay, Progresses
  <2>2. CASE relay'[c] # relay[c]
    <3>1. Report(c, relay[c].total)
      BY <1>6 DEF Complete
    <3>2. relay[c].state = "open"
          /\ relay'[c] = [relay[c] EXCEPT !.chan = Append(@, relay[c].total)]
      BY <2>2, <3>1 DEF Report, TypeOK
    <3>3. relay[c].total <= relay[c].total
      BY <1>0
    <3>. QED  BY <1>0, <3>2, <3>3, Reported
  <2>. QED  BY <2>1, <2>2
<1>7. CASE Return(c) \/ Panic(c)
  <2>1. relay'[c] = [relay[c] EXCEPT !.state = IF @ = "open" THEN "closed" ELSE @]
    BY <1>7 DEF Return, Panic, Close, TypeOK
  <2>2. job' = job
    BY <1>7 DEF Return, Panic
  <2>. QED  BY <1>0, <2>1, <2>2 DEF OnItsWay, Progresses, MaxSent, Channel
<1>8. CASE Unflag(c)
  <2>1. ~job'[c].ok
    BY <1>8 DEF Unflag, NoJob, TypeOK
  <2>2. relay'[c] = relay[c] \/ relay'[c] = NoRelay
    BY <1>8 DEF Unflag, Retire, TypeOK
  <2>. QED  BY <1>1, <2>1, <2>2 DEF NoRelay, OnItsWay, Progresses
<1>9. CASE Forward(c)
  <2>. DEFINE r == relay[c]
              done == Head(r.chan)
  <2>1. /\ relay'[c].state = r.state /\ relay'[c].total = r.total
        /\ relay'[c].chan = Tail(r.chan) /\ relay'[c].last = r.total
        /\ relay'[c].sent = IF done <= MaxSent(c) THEN r.sent ELSE Append(r.sent, done)
        /\ job'[c] = job[c]
    BY <1>0, <1>9 DEF Forward, TypeOK, Channel
  <2>2. done \in Nat /\ done <= r.total
        /\ \A i \in 1 .. Len(Tail(r.chan)) : Tail(r.chan)[i] <= r.total
    <3>1. r.chan # <<>> /\ \A i \in 1 .. Len(r.chan) : r.chan[i] <= r.total
      BY <1>9 DEF Forward, OnItsWay
    <3>2. 1 \in 1 .. Len(r.chan) /\ done = r.chan[1] /\ r.chan[1] \in Nat
      BY <1>0, <3>1
    <3>3. ASSUME NEW i \in 1 .. Len(Tail(r.chan))
          PROVE  i + 1 \in 1 .. Len(r.chan) /\ Tail(r.chan)[i] = r.chan[i + 1]
      BY <1>0, <3>1
    <3>. QED  BY <3>1, <3>2, <3>3
  <2>3. MaxSent(c) \in Nat /\ MaxSent(c) <= r.total
    BY MaxSentType, MaxSentBound
  <2>4. CASE done <= MaxSent(c)
    BY <2>1, <2>2, <2>4 DEF OnItsWay, Progresses, MaxSent
  <2>5. CASE done > MaxSent(c)
    <3>1. relay'[c].sent = Append(r.sent, done)
      BY <2>1, <2>2, <2>3, <2>5
    <3>2. r.sent = <<>> \/ r.sent[Len(r.sent)] < done
      BY <2>5 DEF MaxSent
    <3>3. 0 < done
      BY <2>2, <2>3, <2>5
    <3>. HIDE DEF done
    <3>4. Progresses(c)'
      BY <1>0, <2>1, <2>2, <3>1, <3>2, <3>3, Increases DEF Progresses
    <3>5. ~(job[c].ok /\ r.state = "done")
      BY <2>2, <2>3, <2>5 DEF OnItsWay
    <3>6. OnItsWay(c)'
      BY <2>1, <2>2, <3>5 DEF OnItsWay
    <3>. QED  BY <3>4, <3>6
  <2>. QED  BY <2>2, <2>3, <2>4, <2>5
<1>10. CASE End(c)
  <2>. DEFINE r == relay[c]
  <2>1. MaxSent(c) \in Nat /\ MaxSent(c) <= r.total
    BY MaxSentType, MaxSentBound
  <2>2. r.last \in {0, r.total} /\ (job[c].ok => r.last = r.total)
    BY <1>0, <1>10 DEF End, OnItsWay
  <2>3. CASE ~Is(c, "reindex")
    BY <1>10, <2>3 DEF End, NoRelay, OnItsWay, Progresses, TypeOK, MaxSent
  <2>4. CASE Is(c, "reindex")
    <3>. DEFINE sent == IF r.last > MaxSent(c) THEN Append(r.sent, r.last) ELSE r.sent
    <3>1. /\ relay'[c].state = "done" /\ relay'[c].total = r.total
          /\ relay'[c].chan = <<>> /\ relay'[c].last = r.last
          /\ relay'[c].sent = sent /\ job'[c] = job[c]
      BY <1>0, <1>10, <2>4 DEF End, TypeOK, Channel
    <3>2. CASE r.last > MaxSent(c)
      <4>1. r.sent = <<>> \/ r.sent[Len(r.sent)] < r.last
        BY <3>2 DEF MaxSent
      <4>2. Progresses(c)'
        <5>1. r.last \in Nat /\ 0 < r.last /\ r.last <= r.total
          BY <1>0, <2>1, <2>2, <3>2
        <5>2. relay'[c].sent = Append(r.sent, r.last)
          BY <3>1, <3>2
        <5>. QED  BY <1>0, <3>1, <4>1, <5>1, <5>2, Increases DEF Progresses
      <4>3. MaxSent(c)' = r.last
        BY <1>0, <3>1, <3>2 DEF MaxSent
      <4>. QED  BY <2>2, <3>1, <4>2, <4>3 DEF OnItsWay
    <3>3. CASE ~(r.last > MaxSent(c))
      <4>1. relay'[c].sent = r.sent /\ MaxSent(c)' = MaxSent(c)
        BY <3>1, <3>3 DEF MaxSent
      <4>2. job[c].ok => MaxSent(c) = r.total
        BY <1>0, <2>1, <2>2, <3>3
      <4>3. Progresses(c)'
        BY <3>1, <4>1 DEF Progresses
      <4>4. OnItsWay(c)'
        <5>. HIDE DEF sent
        <5>. QED  BY <2>2, <3>1, <4>1, <4>2 DEF OnItsWay
      <4>. QED  BY <4>3, <4>4
    <3>. QED  BY <3>2, <3>3
  <2>. QED  BY <2>3, <2>4
<1>. QED
  BY <1>2, <1>3, <1>4, <1>5, <1>6, <1>7, <1>8, <1>9, <1>10 DEF Handle, Relay

-----------------------------------------------------------------------------
(* The inductive invariant. *)
Inv ==
    /\ TypeOK /\ OneAtATime /\ FlagIsOwned /\ RebuildsTheStore
    /\ ProgressIncreases /\ McpInv

(* The server starts with nobody in it. *)
LEMMA InvInit == ServerInit => Inv
<1>. SUFFICES ASSUME ServerInit PROVE Inv
  OBVIOUS
<1>1. TypeOK
  <2>1. NoCall \in Request /\ NoJob \in Job /\ NoRelay \in Channel
    BY DEF Request, Job, Channel, Pcs, NoCall, NoJob, NoRelay
  <2>2. call \in [Calls -> Request] /\ job \in [Calls -> Job] /\ relay \in [Calls -> Channel]
    BY <2>1 DEF ServerInit
  <2>3. store \subseteq Documents /\ kb \in Calls \cup {None} /\ waiters \in Seq(Calls)
    BY DEF ServerInit
  <2>. QED  BY <2>2, <2>3 DEF TypeOK, ServerInit
<1>. USE ServerAssumption DEF ServerInit, NoCall, NoJob, NoRelay
<1>2. OneAtATime /\ FlagIsOwned /\ RebuildsTheStore
  BY DEF OneAtATime, Working, FlagIsOwned, Claimed, RebuildsTheStore, Kinds
<1>3. ProgressIncreases /\ McpInv
  BY DEF ProgressIncreases, Progresses, McpInv, Placed, Relayed, OnItsWay, Ending, Kinds
<1>. QED  BY <1>1, <1>2, <1>3 DEF Inv

(* No step of any request or forwarder disturbs the invariant. *)
LEMMA InvStep == Inv /\ [ServerNext]_serverVars => Inv'
<1>. SUFFICES ASSUME Inv, [ServerNext]_serverVars PROVE Inv'
  OBVIOUS
<1>1. TypeOK' /\ OneAtATime' /\ FlagIsOwned' /\ RebuildsTheStore'
  BY TypeStep, ExclusionStep, FlagStep, RebuildStep DEF Inv
<1>2. ASSUME NEW d \in Calls
      PROVE  Placed(d)' /\ Relayed(d)' /\ OnItsWay(d)' /\ Progresses(d)'
  <2>. USE <1>2
  <2>1. Placed(d) /\ Relayed(d) /\ OnItsWay(d) /\ Progresses(d)
    BY DEF Inv, McpInv, ProgressIncreases
  <2>2. CASE call'[d] = call[d] /\ job'[d] = job[d] /\ relay'[d] = relay[d]
    BY <2>1, <2>2 DEF Placed, Relayed, OnItsWay, Progresses, MaxSent
  <2>3. ASSUME NEW c \in Calls,
               (\E kind \in Kinds : Receive(c, kind)) \/ Handle(c) \/ Relay(c)
        PROVE  Placed(d)' /\ Relayed(d)' /\ OnItsWay(d)' /\ Progresses(d)'
    <3>1. CASE d = c
      BY <2>1, <2>3, <3>1, PlacedStep, RelayedStep, ProgressStep DEF Inv
    <3>2. CASE d # c
      BY <2>2, <2>3, <3>2, Frame DEF Inv
    <3>. QED  BY <3>1, <3>2
  <2>. QED  BY <2>2, <2>3 DEF ServerNext, serverVars
<1>. QED  BY <1>1, <1>2 DEF Inv, McpInv, ProgressIncreases

(* Every reachable state of the server is well-typed. *)
THEOREM McpTypeCorrect == ServerSpec => []TypeOK
<1>1. Inv => TypeOK
  BY DEF Inv
<1>. QED  BY <1>1, InvInit, InvStep, PTL DEF ServerSpec

(* handle_tool and handle_reindex: at most one request works on the         *)
(* knowledge base, whatever is in flight.                                   *)
THEOREM OneAtATimeAlways == ServerSpec => []OneAtATime
<1>1. Inv => OneAtATime
  BY DEF Inv
<1>. QED  BY <1>1, InvInit, InvStep, PTL DEF ServerSpec

(* ReindexGuard: the flag is up exactly while one reindex has claimed it.   *)
THEOREM FlagIsOwnedAlways == ServerSpec => []FlagIsOwned
<1>1. Inv => FlagIsOwned
  BY DEF Inv
<1>. QED  BY <1>1, InvInit, InvStep, PTL DEF ServerSpec

(* handle_reindex: nothing is stored or deleted under a reindex, although   *)
(* it gives the mutex back between its claim and its work.                  *)
THEOREM RebuildsTheStoreAlways == ServerSpec => []RebuildsTheStore
<1>1. Inv => RebuildsTheStore
  BY DEF Inv
<1>. QED  BY <1>1, InvInit, InvStep, PTL DEF ServerSpec

(* The forwarder: progress strictly increases up to the total.              *)
THEOREM ProgressIncreasesAlways == ServerSpec => []ProgressIncreases
<1>1. Inv => ProgressIncreases
  BY DEF Inv
<1>. QED  BY <1>1, InvInit, InvStep, PTL DEF ServerSpec

(* The forwarder: for any capacity of the channel, a successful reindex has *)
(* sent its completion before it answers.                                   *)
THEOREM CompletionDeliveredAlways == ServerSpec => []CompletionDelivered
<1>1. Inv => CompletionDelivered
  <2>. SUFFICES ASSUME Inv, NEW c \in Calls, Is(c, "reindex"),
                       call[c].pc \in {"release", "unflag"}, job[c].ok,
                       relay[c].total > 0
                PROVE  MaxSent(c) = relay[c].total
    BY DEF CompletionDelivered
  <2>1. relay[c] \in Channel /\ Relayed(c) /\ OnItsWay(c)
    BY DEF Inv, TypeOK, McpInv
  <2>2. relay[c].state = "done"
    BY <2>1 DEF Relayed, Channel, NoRelay
  <2>. QED  BY <2>1, <2>2 DEF OnItsWay
<1>. QED  BY <1>1, InvInit, InvStep, PTL DEF ServerSpec

=============================================================================

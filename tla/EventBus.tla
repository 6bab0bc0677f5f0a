------------------------------ MODULE EventBus ------------------------------
(***************************************************************************)
(* The fan-out of relayed jobs to open event streams: one process, an      *)
(* asyncio loop, a list of subscribers with a bounded queue each, and the  *)
(* pool of database connections that streams and reports share.            *)
(***************************************************************************)
EXTENDS FiniteSets, SequencesExt

CONSTANTS
    Streams,    \* GET /events requests; a dashboard that reconnects is another one
    Users,      \* GitHub accounts
    Reports,    \* report requests, from where their relay succeeded; each its event
    Repos,
    OwnerOf,    \* the account behind a stream
    RepoOf,     \* the repo an event is about
    Stalled,    \* streams whose reader stops reading without hanging up
    Cap,        \* max_sse_subscribers
    QueueMax,   \* DEFAULT_QUEUE_MAXSIZE
    PoolSize,   \* db_pool_size + db_max_overflow
    MaxBlips    \* bound: database errors in access checks

ASSUME EventBusAssumption ==
    /\ OwnerOf \in [Streams -> Users]
    /\ RepoOf \in [Reports -> Repos]
    /\ Stalled \subseteq Streams
    /\ Cap \in Nat /\ QueueMax \in Nat \ {0} /\ PoolSize \in Nat /\ MaxBlips \in Nat
    /\ IsFiniteSet(Streams) /\ IsFiniteSet(Reports)

Open == {"top", "asking", "waiting", "sending"}

VARIABLES
    stream,       \* where each stream's generator is
    hung_up,      \* streams whose reader has disconnected
    subscribers,  \* EventBus._subscribers
    queue,        \* undelivered events of each subscription
    sent,         \* events each stream yielded (history)
    report,       \* where each report's publish is
    walk,         \* the subscribers it has still to offer its event to
    answered,     \* the access check of the next one came back and was yes
    aborted,      \* its session's transaction has failed
    reach,        \* repos in each account's snapshot
    fresh,        \* snapshots within their TTL
    audience,     \* streams subscribed when each publish began (history)
    entitled,     \* accounts that reached its repo at some time since then (history)
    steady,       \* accounts that did so all the time (history)
    overrun,      \* offers that met a full queue (history)
    blips         \* offers whose own access check hit a database error (history)

streams == <<stream, hung_up, subscribers, sent>>
reports == <<report, walk, answered, aborted, audience, overrun, blips>>
access == <<reach, fresh>>
history == <<entitled, steady>>
vars == <<streams, queue, reports, access, history>>

Init ==
    /\ stream = [s \in Streams |-> "away"]
    /\ hung_up = {}
    /\ subscribers = <<>>
    /\ queue = [s \in Streams |-> <<>>] /\ sent = [s \in Streams |-> {}]
    /\ report = [r \in Reports |-> "away"]
    /\ walk = [r \in Reports |-> <<>>]
    /\ answered = {} /\ aborted = {}
    /\ reach \in [Users -> SUBSET Repos] /\ fresh = Users
    /\ audience = [r \in Reports |-> {}]
    /\ entitled = [r \in Reports |-> {}] /\ steady = [r \in Reports |-> {}]
    /\ overrun = {} /\ blips = {}

TypeOK ==
    /\ stream \in [Streams -> {"away", "closed"} \cup Open]
    /\ hung_up \subseteq Streams
    /\ subscribers \in Seq(Streams)
    /\ queue \in [Streams -> Seq(Reports)] /\ sent \in [Streams -> SUBSET Reports]
    /\ report \in [Reports -> {"away", "publishing", "done", "failed"}]
    /\ walk \in [Reports -> Seq(Streams)]
    /\ answered \subseteq Reports /\ aborted \subseteq Reports
    /\ reach \in [Users -> SUBSET Repos] /\ fresh \subseteq Users
    /\ audience \in [Reports -> SUBSET Streams]
    /\ entitled \in [Reports -> SUBSET Users] /\ steady \in [Reports -> SUBSET Users]
    /\ overrun \subseteq Streams \X Reports /\ blips \subseteq Streams \X Reports

\* Accounts whose snapshot has the event's repo.
Reaching(r, snapshots) == {u \in Users : RepoOf[r] \in snapshots[u]}

-----------------------------------------------------------------------------
(* Connections *)

Alive(s) == stream[s] \in Open

\* A request keeps the connection its dependencies' session took until its
\* response is complete; that of a stream is complete when it closes.
Held == Cardinality({s \in Streams : Alive(s)})
        + Cardinality({r \in Reports : report[r] = "publishing"})

CanConnect == Held < PoolSize

-----------------------------------------------------------------------------
(* A stream *)

\* EventBus.subscribe; refused with 503 at the cap.
Subscribed(s) ==
    IF Len(subscribers) >= Cap
    THEN stream' = [stream EXCEPT ![s] = "closed"] /\ UNCHANGED subscribers
    ELSE stream' = [stream EXCEPT ![s] = "top"] /\ subscribers' = Append(subscribers, s)

\* The caller is resolved, which takes a connection, and the stream subscribed.
Connect(s) ==
    /\ stream[s] = "away"
    /\ CanConnect
    /\ Subscribed(s)
    /\ UNCHANGED <<hung_up, sent, queue, reports, access, history>>

\* No connection within db_pool_timeout.
ConnectTimesOut(s) ==
    /\ stream[s] = "away"
    /\ ~CanConnect
    /\ stream' = [stream EXCEPT ![s] = "closed"]
    /\ UNCHANGED <<hung_up, subscribers, sent, queue, reports, access, history>>

\* EventBus.unsubscribe: the first occurrence goes.
Without(s) ==
    IF Contains(subscribers, s)
    THEN RemoveAt(subscribers, CHOOSE i \in DOMAIN subscribers : subscribers[i] = s)
    ELSE subscribers

\* What a closed stream leaves behind is garbage, its history included.
Forgotten(s) ==
    /\ stream' = [stream EXCEPT ![s] = "closed"]
    /\ queue' = [queue EXCEPT ![s] = <<>>] /\ sent' = [sent EXCEPT ![s] = {}]
    /\ hung_up' = hung_up \ {s}
    /\ audience' = [r \in Reports |-> audience[r] \ {s}]
    /\ overrun' = overrun \ ({s} \X Reports)
    /\ UNCHANGED <<report, answered, aborted, blips, access, history>>

\* Mutant: publish walks the live list, so that a stream that leaves it shifts
\* the one that was next out of the way.
ClosedUnderWalk(s) ==
    /\ Forgotten(s)
    /\ subscribers' = Without(s)
    /\ walk' = [r \in Reports |->
                  IF s \in audience[r] /\ ~Contains(walk[r], s) /\ walk[r] # <<>>
                  THEN Tail(walk[r]) ELSE walk[r]]

\* The generator ends, and `finally' unsubscribes.
Closed(s) ==
    /\ Forgotten(s)
    /\ subscribers' = Without(s)
    /\ UNCHANGED walk

Moves(s, to) ==
    /\ stream' = [stream EXCEPT ![s] = to]
    /\ UNCHANGED <<hung_up, subscribers, sent, queue, reports, access, history>>

Look(s) ==
    /\ stream[s] = "top"
    /\ IF s \in hung_up THEN Closed(s) ELSE Moves(s, "asking")

\* Mutant: authorization is not asked about again once the stream is open.
AskNothing(s) == stream[s] = "asking" /\ CanConnect /\ Moves(s, "waiting")

\* _access_is_stale, on a session of its own.
Ask(s) ==
    /\ stream[s] = "asking"
    /\ CanConnect
    /\ IF OwnerOf[s] \in fresh THEN Moves(s, "waiting") ELSE Closed(s)

\* Mutant: the exception leaves the subscription behind.
AskTimesOutLeaking(s) ==
    /\ stream[s] = "asking"
    /\ ~CanConnect
    /\ Forgotten(s) /\ UNCHANGED <<subscribers, walk>>

\* No connection within db_pool_timeout: the exception ends the generator.
AskTimesOut(s) ==
    /\ stream[s] = "asking"
    /\ ~CanConnect
    /\ Closed(s)

\* queue.get() returns an event, which is yielded.
Take(s) ==
    /\ stream[s] = "waiting"
    /\ queue[s] # <<>>
    /\ stream' = [stream EXCEPT ![s] = "sending"]
    /\ queue' = [queue EXCEPT ![s] = Tail(@)]
    /\ sent' = [sent EXCEPT ![s] = @ \cup {Head(queue[s])}]
    /\ UNCHANGED <<hung_up, subscribers, reports, access, history>>

\* Nothing came within sse_heartbeat_seconds.
Heartbeat(s) ==
    /\ stream[s] = "waiting"
    /\ queue[s] = <<>>
    /\ Moves(s, "sending")

\* The reader took the frame, or is gone and will not be waited for.
Written(s) ==
    /\ stream[s] = "sending"
    /\ s \notin Stalled \/ s \in hung_up
    /\ Moves(s, "top")

HangUp(s) ==
    /\ Alive(s) /\ s \notin hung_up
    /\ hung_up' = hung_up \cup {s}
    /\ UNCHANGED <<stream, subscribers, sent, queue, reports, access, history>>

-----------------------------------------------------------------------------
(* publish, at the end of a report request *)

\* The relay succeeded; the request has read the job again, which takes a
\* connection, and walks over a copy of the list.
Publish(r) ==
    /\ report[r] = "away"
    /\ CanConnect
    /\ report' = [report EXCEPT ![r] = "publishing"]
    /\ walk' = [walk EXCEPT ![r] = subscribers]
    /\ audience' = [audience EXCEPT ![r] = ToSet(subscribers)]
    /\ entitled' = [entitled EXCEPT ![r] = Reaching(r, reach)]
    /\ steady' = [steady EXCEPT ![r] = Reaching(r, reach)]
    /\ UNCHANGED <<streams, queue, answered, aborted, overrun, blips, access>>

\* No connection for that: a 500 for a report that is recorded and posted.
ReportTimesOut(r) ==
    /\ report[r] = "away"
    /\ ~CanConnect
    /\ report' = [report EXCEPT ![r] = "failed"]
    /\ UNCHANGED <<streams, queue, walk, answered, aborted, audience, overrun,
                   blips, access, history>>

Publishing(r) == report[r] = "publishing" /\ walk[r] # <<>>

\* Mutant: the access check is skipped.
CheckNothing(r) ==
    /\ Publishing(r) /\ r \notin answered \cup aborted
    /\ answered' = answered \cup {r}
    /\ UNCHANGED <<streams, queue, report, walk, aborted, audience, overrun, blips,
                   access, history>>

\* accessible_repo_names of the next subscriber, read now and acted on later.
CheckAccess(r) ==
    /\ Publishing(r) /\ r \notin answered \cup aborted
    /\ IF OwnerOf[Head(walk[r])] \in Reaching(r, reach)
       THEN answered' = answered \cup {r} /\ UNCHANGED walk
       ELSE walk' = [walk EXCEPT ![r] = Tail(@)] /\ UNCHANGED answered
    /\ UNCHANGED <<streams, queue, report, aborted, audience, overrun, blips,
                   access, history>>

\* The check hits a database error: caught, but the transaction is not usable
\* until somebody rolls it back.
CheckFails(r) ==
    /\ Publishing(r) /\ r \notin answered \cup aborted
    /\ Cardinality(blips) < MaxBlips
    /\ blips' = blips \cup {<<Head(walk[r]), r>>}
    /\ aborted' = aborted \cup {r}
    /\ walk' = [walk EXCEPT ![r] = Tail(@)]
    /\ UNCHANGED <<streams, queue, report, answered, audience, overrun, access, history>>

\* A later check on the same session fails with it.
CheckOnAborted(r) ==
    /\ Publishing(r) /\ r \in aborted
    /\ walk' = [walk EXCEPT ![r] = Tail(@)]
    /\ UNCHANGED <<streams, queue, report, answered, aborted, audience, overrun,
                   blips, access, history>>

\* Mutant: publish waits for room.
PutWaiting(r) ==
    /\ Publishing(r) /\ r \in answered
    /\ Len(queue[Head(walk[r])]) < QueueMax
    /\ queue' = [queue EXCEPT ![Head(walk[r])] = Append(@, r)]
    /\ answered' = answered \ {r}
    /\ walk' = [walk EXCEPT ![r] = Tail(@)]
    /\ UNCHANGED <<streams, report, aborted, audience, overrun, blips, access, history>>

\* put_nowait: the event is dropped if the queue is full.
Put(r) ==
    /\ Publishing(r) /\ r \in answered
    /\ LET s == Head(walk[r])
       IN  \/ /\ Alive(s) /\ Len(queue[s]) < QueueMax
              /\ queue' = [queue EXCEPT ![s] = Append(@, r)] /\ UNCHANGED overrun
           \/ /\ Alive(s) /\ Len(queue[s]) = QueueMax
              /\ overrun' = overrun \cup {<<s, r>>} /\ UNCHANGED queue
           \/ ~Alive(s) /\ UNCHANGED <<queue, overrun>>
    /\ answered' = answered \ {r}
    /\ walk' = [walk EXCEPT ![r] = Tail(@)]
    /\ UNCHANGED <<streams, report, aborted, audience, blips, access, history>>

\* The end of the walk; the history of this publish is not needed any more.
Answer(r) ==
    /\ report[r] = "publishing" /\ walk[r] = <<>>
    /\ report' = [report EXCEPT ![r] = "done"]
    /\ aborted' = aborted \ {r}
    /\ sent' = [s \in Streams |-> sent[s] \ {r}]
    /\ audience' = [audience EXCEPT ![r] = {}]
    /\ overrun' = overrun \ (Streams \X {r})
    /\ entitled' = [entitled EXCEPT ![r] = {}] /\ steady' = [steady EXCEPT ![r] = {}]
    /\ UNCHANGED <<stream, hung_up, subscribers, queue, walk, answered, blips, access>>

-----------------------------------------------------------------------------
(* The accounts' snapshots *)

\* A re-attestation writes what GitHub said.
Reattest(u) ==
    /\ \E repos \in SUBSET Repos : reach' = [reach EXCEPT ![u] = repos]
    /\ fresh' = fresh \cup {u}
    /\ entitled' = [r \in Reports |-> IF report[r] = "publishing"
                        THEN entitled[r] \cup Reaching(r, reach') ELSE entitled[r]]
    /\ steady' = [r \in Reports |-> IF report[r] = "publishing"
                        THEN steady[r] \cap Reaching(r, reach') ELSE steady[r]]
    /\ UNCHANGED <<streams, queue, reports>>

Expire(u) ==
    /\ fresh' = fresh \ {u}
    /\ UNCHANGED <<streams, queue, reports, reach, history>>

-----------------------------------------------------------------------------
StreamStep(s) ==
    \/ Connect(s) \/ ConnectTimesOut(s)
    \/ Look(s) \/ Ask(s) \/ AskTimesOut(s)
    \/ Take(s) \/ Heartbeat(s) \/ Written(s)

ReportStep(r) ==
    \/ Publish(r) \/ ReportTimesOut(r)
    \/ CheckAccess(r) \/ CheckFails(r) \/ CheckOnAborted(r) \/ Put(r) \/ Answer(r)

Next ==
    \/ \E s \in Streams : StreamStep(s) \/ HangUp(s)
    \/ \E r \in Reports : ReportStep(r)
    \/ \E u \in Users : Reattest(u) \/ Expire(u)

Spec == Init /\ [][Next]_vars

\* The event loop runs every coroutine that can go on.
Fairness ==
    /\ \A s \in Streams : WF_vars(StreamStep(s))
    /\ \A r \in Reports : WF_vars(ReportStep(r))

FairSpec == Spec /\ Fairness

-----------------------------------------------------------------------------
(* Properties *)

Delivered(s) == sent[s] \cup ToSet(queue[s])

\* The access of a stream's account is asked for each event: what a publish gave
\* a stream is about a repo its account could see at some time since the publish
\* began, however long ago the stream was opened.
SentWasReachable ==
    \A s \in Streams, r \in Reports :
        report[r] = "publishing" /\ r \in Delivered(s) => OwnerOf[s] \in entitled[r]

\* Exactly the open streams are subscribed, never more than the cap, whichever
\* way a stream ended.
SubscribersAreOpen ==
    /\ ToSet(subscribers) = {s \in Streams : Alive(s)}
    /\ Len(subscribers) <= Cap

\* Open streams that should have got the event of a publish: there when it
\* began, their account able to see it throughout, their queue not full.
Due(r) == {s \in audience[r] : OwnerOf[s] \in steady[r] /\ <<s, r>> \notin overrun}

\* A publish that is over, the next step only answering the report.
Over(r) == report[r] = "publishing" /\ walk[r] = <<>>

\* Nobody is passed over because others come, go or fall behind meanwhile.
NobodySkipped ==
    \A r \in Reports : Over(r) /\ r \notin aborted => \A s \in Due(r) : r \in Delivered(s)

\* "A failing access check costs that subscriber its event and nothing more."
BlipCostsOne ==
    \A r \in Reports : Over(r) =>
        \A s \in Due(r) : <<s, r>> \notin blips => r \in Delivered(s)

\* What open streams hold on to never keeps a report from its connection.
ReportsGetConnections == \A r \in Reports : report[r] # "failed"

\* A publish ends, whether or not anybody reads: a report is never held up by a stream.
PublishEnds == \A r \in Reports : report[r] = "publishing" ~> report[r] = "done"

\* A stream whose account is not attested again is closed, traffic or not.
StaleStreamsClose ==
    \A s \in Streams \ Stalled :
        <>[](OwnerOf[s] \notin fresh) => <>[]~Alive(s)
=============================================================================

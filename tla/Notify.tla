------------------------------- MODULE Notify -------------------------------
(***************************************************************************)
(* The NotifyNode listener (core/runtime/notify.go, core/notify): topic    *)
(* settings, StartNotify and StopNotify, subscription of the enabled       *)
(* topics at the hub, inbound publish frames, and the bounded queue that   *)
(* the platform drains.                                                    *)
(*                                                                         *)
(* Threads:  Hosts      host threads in the API                            *)
(*           Recovery   the thread that logs in again after a loss         *)
(*           Readers    SDK read loops; one of them reads the session      *)
(*                                                                         *)
(* The read loop handles config_set frames itself (management.go): setting *)
(* the topics resubscribes there, and waits for an answer that only this   *)
(* loop could read, until defaultNotifyTimeout ends the wait.              *)
(*                                                                         *)
(* The hub keeps subscriptions as long as the session lasts and knows no   *)
(* unsubscribe.  Sessions and their recovery are module Session, saving    *)
(* and reloading the settings module Config.                               *)
(***************************************************************************)
EXTENDS Naturals, Sequences, FiniteSets

CONSTANTS
    Topics, Blank,      \* topic names, and the one that is only blanks
    Lists,              \* the texts of notify.topics_json, as lists
    Hosts, Readers, Recovery,
    Capacity,           \* of the queue
    None,
    MaxCalls, MaxPublishes, MaxLosses,
    MaxEvents           \* bounds: calls, publications, losses, and all of them together

Threads == Hosts \cup Readers \cup {Recovery}

TopicSetting == [topic : Topics \cup {Blank}, enabled : BOOLEAN]

ASSUME NotifyAssumption ==
    /\ Blank \notin Topics
    /\ Lists \subseteq Seq(TopicSetting) /\ <<>> \in Lists
    /\ Hosts \cap Readers = {} /\ Recovery \notin Hosts \cup Readers
    /\ None \notin Topics
    /\ Capacity \in Nat \ {0}
ASSUME BoundsAssumption ==
    MaxCalls \in Nat /\ MaxPublishes \in Nat /\ MaxLosses \in Nat /\ MaxEvents \in Nat

\* (mutant: a blank topic is kept)
NormalBlank(list) == TRUE

\* NormalizeSettings: a blank topic spoils the list, a repeated one counts only once,
\* as it comes first.
Normal(list) == \A i \in DOMAIN list : list[i].topic # Blank

First(list, i) == \A j \in 1..(i - 1) : list[j].topic # list[i].topic

Normalize(list) ==
    [t \in {list[i].topic : i \in DOMAIN list} |->
        \E i \in DOMAIN list : list[i].topic = t /\ First(list, i) /\ list[i].enabled]

\* EnabledTopics.
Enabled(settings) == {t \in DOMAIN settings : settings[t]}

Settings == UNION {[S -> BOOLEAN] : S \in SUBSET Topics}

VARIABLES
    settings,       \* r.cfg.NotifySettings
    running,        \* notifyRunning
    topics,         \* notifyTopics
    queue, dropped, \* notifyQ
    loggedIn,       \* auth.LoggedIn, and connected
    session,        \* "live" or "broken"
    loop,           \* the reader of the session
    subscribed,     \* what the hub sends on it
    up, down,       \* frames under way
    pc,
    task,           \* what a thread subscribes for
    wish,           \* the topics it asks for, or has just set
    frame,          \* the frame a reader works on
    sends,          \* requests sent so far: the number of the last
    ticket,         \* the number of the request a thread waits for
    calls, published, losses,
    accepted, taken,\* history: events queued, and drained
    missed          \* history: a subscription was, or may have been, left out

listenVars == <<settings, running, topics>>
queueVars == <<queue, dropped, accepted, taken>>
hubVars == <<loggedIn, session, loop, subscribed, up, down>>
localVars == <<pc, task, wish, frame, sends, ticket>>
counters == <<calls, published, losses>>
vars == <<listenVars, queueVars, hubVars, localVars, counters, missed>>

Tasks == {"none", "start", "set", "login"}

Labels == {"idle", "listener", "relisten", "auth", "topics", "send", "await", "answered",
           "refused", "run", "clear", "publish", "check", "enqueue"}

Frames ==
    [kind : {"publish"}, topic : Topics] \cup [kind : {"set"}, list : Lists]
        \cup [kind : {"answer"}, ticket : Nat, ok : BOOLEAN]

TypeOK ==
    /\ settings \in Settings
    /\ running \in BOOLEAN /\ loggedIn \in BOOLEAN /\ missed \in BOOLEAN
    /\ topics \in SUBSET Topics /\ subscribed \in SUBSET Topics
    /\ queue \in Seq([topic : Topics, number : Nat])
    /\ dropped \in Nat /\ accepted \in Nat /\ taken \in Nat /\ sends \in Nat
    /\ calls \in Nat /\ published \in Nat /\ losses \in Nat
    /\ session \in {"live", "broken"} /\ loop \in Readers
    /\ up \in Seq([ticket : Nat, topics : SUBSET Topics])
    /\ down \in Seq(Frames)
    /\ pc \in [Threads -> Labels] /\ task \in [Threads -> Tasks]
    /\ wish \in [Threads -> SUBSET Topics]
    /\ frame \in [Readers -> Frames \cup {None}]
    /\ ticket \in [Threads -> Nat]

Init ==
    /\ settings \in {Normalize(l) : l \in {k \in Lists : Normal(k)}}
    /\ running = FALSE /\ topics = {}
    /\ queue = <<>> /\ dropped = 0 /\ accepted = 0 /\ taken = 0
    /\ loggedIn = TRUE /\ session = "live" /\ loop \in Readers
    /\ subscribed = {} /\ up = <<>> /\ down = <<>>
    /\ pc = [t \in Threads |-> "idle"] /\ task = [t \in Threads |-> "none"]
    /\ wish = [t \in Threads |-> {}] /\ ticket = [t \in Threads |-> 0]
    /\ frame = [r \in Readers |-> None] /\ sends = 0
    /\ calls = 0 /\ published = 0 /\ losses = 0
    /\ missed = FALSE

Goto(t, from, to) == pc[t] = from /\ pc' = [pc EXCEPT ![t] = to]

OthersAtRest(t) == \A u \in Threads \ {t} : pc[u] = "idle"

AtRest == \A t \in Threads : pc[t] = "idle"

\* A StartNotify that has read the topics and not yet set the listener running.
Starting == \E t \in Threads : task[t] = "start" /\ pc[t] \in {"send", "await", "answered", "run"}

More == calls + published + losses < MaxEvents

\* A call, by a host thread or from another node.
Call == More /\ calls < MaxCalls /\ calls' = calls + 1

\* The thread comes to rest.
Return(t) ==
    /\ pc' = [pc EXCEPT ![t] = "idle"] /\ task' = [task EXCEPT ![t] = "none"]
    /\ wish' = [wish EXCEPT ![t] = {}] /\ ticket' = [ticket EXCEPT ![t] = 0]
    /\ frame' = IF t \in Readers THEN [frame EXCEPT ![t] = None] ELSE frame

-----------------------------------------------------------------------------
\* StartNotify, StopNotify and the settings.

\* Only somebody who is logged in and has enabled a topic gets as far as subscribing.
Start(h) ==
    /\ Call
    /\ loggedIn /\ Enabled(settings) # {}
    /\ Goto(h, "idle", "auth")
    /\ task' = [task EXCEPT ![h] = "start"]
    /\ UNCHANGED <<listenVars, queueVars, hubVars, wish, frame, sends, ticket, published, losses, missed>>

Run(t) ==
    /\ pc[t] = "run"
    /\ running' = TRUE
    /\ Return(t)
    /\ UNCHANGED <<settings, topics, queueVars, hubVars, sends, counters, missed>>

\* StopNotify forgets the topics after it has stopped the listener.
Stop(h) ==
    /\ Call
    /\ Goto(h, "idle", "clear")
    /\ running' = FALSE
    /\ UNCHANGED <<settings, topics, queueVars, hubVars, task, wish, frame, sends, ticket,
                   published, losses, missed>>

Clear(t) ==
    /\ pc[t] = "clear"
    /\ topics' = {}
    /\ Return(t)
    /\ UNCHANGED <<settings, running, queueVars, hubVars, sends, counters, missed>>

\* RuntimeConfigSet of notify.topics_json; a list with a blank topic is refused.
Adopt(t, list) ==
    /\ Normal(list)
    /\ settings' = Normalize(list)
    /\ pc' = [pc EXCEPT ![t] = "listener"]
    /\ wish' = [wish EXCEPT ![t] = Enabled(settings')]

Set(h, list) ==
    /\ Call
    /\ pc[h] = "idle"
    /\ Adopt(h, list)
    /\ UNCHANGED <<running, topics, queueVars, hubVars, task, frame, sends, ticket,
                   published, losses, missed>>

\* The end of reloadRuntimeConfig: a running listener is stopped if this thread has set
\* an empty list, or else subscribed again.
Listener(t) ==
    /\ pc[t] = "listener"
    /\ IF ~running
       THEN Return(t) /\ missed' = (missed \/ Starting) /\ UNCHANGED running
       ELSE /\ pc' = [pc EXCEPT ![t] = IF wish[t] = {} THEN "clear" ELSE "auth"]
            /\ task' = [task EXCEPT ![t] = "set"]
            /\ running' = (wish[t] # {})
            /\ UNCHANGED <<wish, ticket, frame, missed>>
    /\ UNCHANGED <<settings, topics, queueVars, hubVars, sends, counters>>

\* Login, and the listener subscribed again on the new session.
LoginAgain(r) ==
    /\ session = "broken" /\ ~loggedIn /\ pc[r] = "idle"
    /\ Goto(Recovery, "idle", "relisten")
    /\ session' = "live" /\ loggedIn' = TRUE /\ loop' = r
    /\ UNCHANGED <<listenVars, queueVars, subscribed, up, down, task, wish, frame, sends,
                   ticket, counters, missed>>

Relisten ==
    /\ pc[Recovery] = "relisten"
    /\ IF ~running
       THEN Return(Recovery) /\ missed' = (missed \/ Starting)
       ELSE /\ Goto(Recovery, "relisten", "auth")
            /\ task' = [task EXCEPT ![Recovery] = "login"]
            /\ UNCHANGED <<wish, ticket, frame, missed>>
    /\ UNCHANGED <<listenVars, queueVars, hubVars, sends, counters>>

-----------------------------------------------------------------------------
\* subscribeNotifyTopics.

\* Its error is returned by StartNotify, which stops the listener, and only logged by
\* the others.
Fail(t) ==
    /\ Return(t)
    /\ running' = IF task[t] = "start" THEN FALSE ELSE running
    /\ missed' = TRUE

Succeed(t) ==
    IF task[t] = "start"
    THEN pc' = [pc EXCEPT ![t] = "run"] /\ UNCHANGED <<task, wish, ticket, frame>>
    ELSE Return(t)

Auth(t) ==
    /\ pc[t] = "auth"
    /\ IF loggedIn
       THEN Goto(t, "auth", "topics") /\ UNCHANGED <<running, task, wish, ticket, frame, missed>>
       ELSE Fail(t)
    /\ UNCHANGED <<settings, topics, queueVars, hubVars, sends, counters>>

\* (mutant: the topics this thread has set itself, whatever has been set since)
ReadOwnTopics(t) ==
    /\ Goto(t, "topics", "send")
    /\ wish' = [wish EXCEPT ![t] = IF task[t] = "set" THEN wish[t] ELSE Enabled(settings)]
    /\ missed' = (missed /\ ~OthersAtRest(t))
    /\ UNCHANGED <<listenVars, queueVars, hubVars, task, frame, sends, ticket, counters>>

\* The topics enabled now.
ReadTopics(t) ==
    /\ pc[t] = "topics"
    /\ missed' = (missed /\ ~OthersAtRest(t))
    /\ IF Enabled(settings) = {}
       THEN topics' = {} /\ Succeed(t)
       ELSE /\ Goto(t, "topics", "send")
            /\ wish' = [wish EXCEPT ![t] = Enabled(settings)]
            /\ UNCHANGED <<topics, task, ticket, frame>>
    /\ UNCHANGED <<settings, running, queueVars, hubVars, sends, counters>>

Send(t) ==
    /\ pc[t] = "send"
    /\ \/ /\ session = "live"
          /\ Goto(t, "send", "await")
          /\ sends' = sends + 1 /\ ticket' = [ticket EXCEPT ![t] = sends']
          /\ up' = Append(up, [ticket |-> sends', topics |-> wish[t]])
          /\ UNCHANGED <<running, task, wish, frame, missed>>
       \/ /\ session = "broken"
          /\ Fail(t) /\ UNCHANGED <<sends, up>>
    /\ UNCHANGED <<settings, topics, queueVars, loggedIn, session, loop, subscribed, down, counters>>

\* (mutant: the wait for an answer has no end)
RefusedOnly(t) ==
    /\ pc[t] = "refused"
    /\ Fail(t)
    /\ UNCHANGED <<settings, topics, queueVars, hubVars, sends, counters>>

\* The answer does not come within defaultNotifyTimeout, or refuses.
GiveUp(t) ==
    /\ pc[t] \in {"await", "refused"}
    /\ Fail(t)
    /\ UNCHANGED <<settings, topics, queueVars, hubVars, sends, counters>>

\* (mutant: the topics that were asked for)
StoreAsked(t) ==
    /\ pc[t] = "answered"
    /\ topics' = wish[t]
    /\ Succeed(t)
    /\ UNCHANGED <<settings, running, queueVars, hubVars, sends, counters, missed>>

\* The topics enabled by now, which need not be those that were asked for.
Store(t) ==
    /\ pc[t] = "answered"
    /\ topics' = Enabled(settings)
    /\ Succeed(t)
    /\ UNCHANGED <<settings, running, queueVars, hubVars, sends, counters, missed>>

-----------------------------------------------------------------------------
\* The read loop.

\* An answer wakes the thread that waits for it; a late one is dropped.
Answer(f) ==
    pc' = [t \in Threads |-> IF pc[t] = "await" /\ ticket[t] = f.ticket
                             THEN IF f.ok THEN "answered" ELSE "refused"
                             ELSE pc[t]]

Receive(r) ==
    LET f == Head(down) IN
    /\ r = loop /\ pc[r] = "idle" /\ down # <<>>
    /\ down' = Tail(down)
    /\ CASE f.kind = "publish" -> /\ Goto(r, "idle", "publish")
                                  /\ frame' = [frame EXCEPT ![r] = f]
                                  /\ UNCHANGED <<settings, wish>>
         [] f.kind = "set" /\ Normal(f.list) -> Adopt(r, f.list) /\ UNCHANGED frame
         [] f.kind = "answer" -> Answer(f) /\ UNCHANGED <<settings, wish, frame>>
         [] OTHER -> UNCHANGED <<pc, settings, wish, frame>>
    /\ UNCHANGED <<running, topics, queueVars, loggedIn, session, loop, subscribed, up,
                   task, sends, ticket, counters, missed>>

\* handleTopicBusFrame.
Publish(r) ==
    /\ pc[r] = "publish"
    /\ IF running THEN Goto(r, "publish", "check") /\ UNCHANGED <<task, wish, ticket, frame>>
                  ELSE Return(r)
    /\ UNCHANGED <<listenVars, queueVars, hubVars, sends, counters, missed>>

\* isNotifyTopicEnabled: subscribed by now, or enabled in the settings.
Check(r) ==
    /\ pc[r] = "check"
    /\ IF frame[r].topic \in topics \cup Enabled(settings)
       THEN Goto(r, "check", "enqueue") /\ UNCHANGED <<task, wish, ticket, frame>>
       ELSE Return(r)
    /\ UNCHANGED <<listenVars, queueVars, hubVars, sends, counters, missed>>

\* (mutant: a full queue drops the new event)
EnqueueOrDrop(r) ==
    /\ pc[r] = "enqueue"
    /\ accepted' = accepted + 1
    /\ IF Len(queue) < Capacity
       THEN queue' = Append(queue, [topic |-> frame[r].topic, number |-> accepted']) /\ UNCHANGED dropped
       ELSE dropped' = dropped + 1 /\ UNCHANGED queue
    /\ Return(r)
    /\ UNCHANGED <<listenVars, taken, hubVars, sends, counters, missed>>

\* Queue.Enqueue: a full queue drops its oldest event.
Enqueue(r) ==
    LET full == Len(queue) >= Capacity IN
    /\ pc[r] = "enqueue"
    /\ accepted' = accepted + 1
    /\ queue' = Append(IF full THEN Tail(queue) ELSE queue,
                       [topic |-> frame[r].topic, number |-> accepted'])
    /\ dropped' = IF full THEN dropped + 1 ELSE dropped
    /\ Return(r)
    /\ UNCHANGED <<listenVars, taken, hubVars, sends, counters, missed>>

\* DequeueAll, by any poller of the platform.
Drain ==
    /\ queue # <<>>
    /\ taken' = taken + Len(queue) /\ queue' = <<>>
    /\ UNCHANGED <<listenVars, dropped, accepted, hubVars, localVars, counters, missed>>

-----------------------------------------------------------------------------
\* The session and the hub.

Lose ==
    /\ More /\ losses < MaxLosses /\ losses' = losses + 1
    /\ session = "live" /\ session' = "broken"
    /\ subscribed' = {} /\ up' = <<>> /\ down' = <<>>
    /\ UNCHANGED <<listenVars, queueVars, loggedIn, loop, localVars, calls, published, missed>>

\* onClientError, some time later.
MarkLost ==
    /\ session = "broken" /\ loggedIn
    /\ loggedIn' = FALSE
    /\ UNCHANGED <<listenVars, queueVars, session, loop, subscribed, up, down, localVars,
                   counters, missed>>

\* The hub takes a request, or refuses it.
HubSubscribes ==
    /\ up # <<>> /\ up' = Tail(up)
    /\ \E ok \in BOOLEAN :
           /\ subscribed' = IF ok THEN subscribed \cup Head(up).topics ELSE subscribed
           /\ down' = Append(down, [kind |-> "answer", ticket |-> Head(up).ticket, ok |-> ok])
    /\ UNCHANGED <<listenVars, queueVars, loggedIn, session, loop, localVars, counters, missed>>

HubPublishes(topic) ==
    /\ More /\ published < MaxPublishes /\ published' = published + 1
    /\ topic \in subscribed
    /\ down' = Append(down, [kind |-> "publish", topic |-> topic])
    /\ UNCHANGED <<listenVars, queueVars, loggedIn, session, loop, subscribed, up, localVars,
                   calls, losses, missed>>

\* A config_set of the topics by another node.
RemoteSet(list) ==
    /\ Call
    /\ session = "live"
    /\ down' = Append(down, [kind |-> "set", list |-> list])
    /\ UNCHANGED <<listenVars, queueVars, loggedIn, session, loop, subscribed, up, localVars,
                   published, losses, missed>>

-----------------------------------------------------------------------------
Step(t) ==
    \/ Listener(t) \/ Clear(t) \/ Run(t)
    \/ Auth(t) \/ ReadTopics(t) \/ Send(t) \/ GiveUp(t) \/ Store(t)

ReaderStep(r) == Publish(r) \/ Check(r) \/ Enqueue(r)

RecoveryStep == Relisten \/ \E r \in Readers : LoginAgain(r)

System ==
    \/ \E t \in Threads : Step(t)
    \/ \E r \in Readers : Receive(r) \/ ReaderStep(r)
    \/ RecoveryStep \/ MarkLost \/ Drain \/ HubSubscribes

Environment ==
    \/ \E h \in Hosts : Start(h) \/ Stop(h) \/ \E l \in Lists : Set(h, l)
    \/ \E l \in Lists : RemoteSet(l)
    \/ \E t \in Topics : HubPublishes(t)
    \/ Lose

Next == System \/ Environment

Spec == Init /\ [][Next]_vars

\* Threads are scheduled and waits time out; the hub need not answer, and nobody need
\* call, publish, drain or log in.
FairSpec ==
    /\ Spec
    /\ \A t \in Threads : WF_vars(Step(t))
    /\ \A r \in Readers : WF_vars(ReaderStep(r)) /\ WF_vars(Receive(r))

-----------------------------------------------------------------------------
\* Properties.

\* docs/specs/notify-node.md: a bounded queue that drops its oldest event when full.
\* Whoever drains it while read loops fill it, every event is drained, dropped or still
\* queued, and the queue is what came last, in order.
QueueIsNewest ==
    /\ Len(queue) <= Capacity
    /\ dropped + taken + Len(queue) = accepted
    /\ \A i \in DOMAIN queue : queue[i].number = accepted - Len(queue) + i

\* A running listener hears every enabled topic: starts, stops, changed settings and
\* logins that overlap leave the hub subscribed to them.  Excepted is what the code
\* leaves out: a request that failed, and a change of the settings or a login that
\* found the listener not running yet while StartNotify was under way.
Subscribed ==
    running /\ loggedIn /\ session = "live" /\ AtRest /\ ~missed =>
        Enabled(settings) \subseteq subscribed

\* A running listener accepts what it has subscribed to, in topics, besides what is
\* enabled (isNotifyTopicEnabled).  Once the calls, settings and logins that overlapped
\* have ended, nothing in topics has been disabled meanwhile.  Excepted is what Subscribed
\* excepts.
OnlyEnabledHeard == running /\ AtRest /\ ~missed => topics \subseteq Enabled(settings)

\* The read loop waits for an answer it would have to read itself; it comes back.
LoopReturns == \A r \in Readers : pc[r] # "idle" ~> pc[r] = "idle"

\* docs/requirements/notify-node.md: "Inbound `publish` messages are ignored if their
\* topic is not enabled locally", here with nobody else at work on the settings.
DisabledIgnored ==
    [][\A r \in Readers : pc[r] = "check" /\ pc'[r] = "enqueue" /\ OthersAtRest(r) =>
           frame[r].topic \in Enabled(settings)]_vars
=============================================================================

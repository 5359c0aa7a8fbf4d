---------------------------- MODULE NotifyProofs ----------------------------
(***************************************************************************)
(* Notify for every set of topics, lists, threads and every capacity: type *)
(* correctness, that the queue holds the newest events, and that a running *)
(* listener is subscribed to every enabled topic and forgets the others.   *)
(***************************************************************************)
EXTENDS Notify, TLAPS

USE NotifyAssumption, BoundsAssumption DEF Threads

-----------------------------------------------------------------------------
(***************************************************************************)
(* Type correctness.  What a reader works on after it has received it is a *)
(* publication.                                                            *)
(***************************************************************************)
ReadersWork ==
    \A r \in Readers : pc[r] \in {"publish", "check", "enqueue"} =>
        frame[r] \in [kind : {"publish"}, topic : Topics]

TInv == TypeOK /\ ReadersWork

LEMMA HeadTail ==
    ASSUME NEW S, NEW q \in Seq(S), q # <<>>
    PROVE  Head(q) \in S /\ Tail(q) \in Seq(S)
OBVIOUS

LEMMA Elements ==
    ASSUME NEW S, NEW q \in Seq(S)
    PROVE  \A i \in DOMAIN q : q[i] \in S
OBVIOUS

LEMMA NormalizeType ==
    ASSUME NEW list \in Lists, Normal(list)
    PROVE  Normalize(list) \in Settings
<1> DEFINE S == {list[i].topic : i \in DOMAIN list}
<1>1. list \in Seq(TopicSetting)
  OBVIOUS
<1>2. \A i \in DOMAIN list : list[i] \in TopicSetting
  BY <1>1
<1>3. S \in SUBSET Topics
  BY <1>2 DEF Normal, TopicSetting
<1>4. Normalize(list) \in [S -> BOOLEAN]
  BY DEF Normalize
<1> QED
  BY <1>3, <1>4 DEF Settings

LEMMA EnabledType ==
    ASSUME NEW s \in Settings
    PROVE  Enabled(s) \in SUBSET Topics
BY DEF Settings, Enabled

LEMMA TypeInit == Init => TInv
<1> SUFFICES ASSUME Init PROVE TInv
  OBVIOUS
<1>1. settings \in Settings
  BY NormalizeType DEF Init
<1>2. /\ pc \in [Threads -> Labels] /\ task \in [Threads -> Tasks]
      /\ wish \in [Threads -> SUBSET Topics] /\ ticket \in [Threads -> Nat]
      /\ frame \in [Readers -> Frames \cup {None}]
  BY DEF Init, Labels, Tasks
<1>3. /\ queue \in Seq([topic : Topics, number : Nat])
      /\ up \in Seq([ticket : Nat, topics : SUBSET Topics]) /\ down \in Seq(Frames)
  BY DEF Init
<1>4. TypeOK
  BY <1>1, <1>2, <1>3 DEF Init, TypeOK
<1> QED
  BY <1>4 DEF Init, TInv, ReadersWork

\* The thread of a step goes on, or comes to rest.
LEMMA GoType ==
    ASSUME TInv, NEW t \in Threads, NEW to \in Labels \ {"publish", "check", "enqueue"},
           pc' = [pc EXCEPT ![t] = to], UNCHANGED frame
    PROVE  pc' \in [Threads -> Labels] /\ ReadersWork'
BY DEF TInv, TypeOK, ReadersWork

LEMMA ReturnType ==
    ASSUME TInv, NEW t \in Threads, Return(t)
    PROVE  /\ pc' \in [Threads -> Labels] /\ task' \in [Threads -> Tasks]
           /\ wish' \in [Threads -> SUBSET Topics] /\ ticket' \in [Threads -> Nat]
           /\ frame' \in [Readers -> Frames \cup {None}]
           /\ ReadersWork'
<1>1. /\ pc' \in [Threads -> Labels] /\ task' \in [Threads -> Tasks]
      /\ wish' \in [Threads -> SUBSET Topics] /\ ticket' \in [Threads -> Nat]
      /\ frame' \in [Readers -> Frames \cup {None}]
  BY DEF TInv, TypeOK, Return, Labels, Tasks
<1>2. ReadersWork'
  BY DEF TInv, TypeOK, Return, ReadersWork
<1> QED
  BY <1>1, <1>2

LEMMA FailType ==
    ASSUME TInv, NEW t \in Threads, Fail(t),
           UNCHANGED <<settings, topics, queueVars, hubVars, sends, counters>>
    PROVE  TInv'
BY ReturnType DEF Fail, TInv, TypeOK, queueVars, hubVars, counters

LEMMA SucceedType ==
    ASSUME TInv, NEW t \in Threads, Succeed(t)
    PROVE  /\ pc' \in [Threads -> Labels] /\ task' \in [Threads -> Tasks]
           /\ wish' \in [Threads -> SUBSET Topics] /\ ticket' \in [Threads -> Nat]
           /\ frame' \in [Readers -> Frames \cup {None}]
           /\ ReadersWork'
<1>1. "run" \in Labels
  BY DEF Labels
<1>2. CASE task[t] = "start"
  BY <1>1, <1>2, GoType DEF Succeed, TInv, TypeOK
<1>3. CASE task[t] # "start"
  BY <1>3, ReturnType DEF Succeed
<1> QED
  BY <1>2, <1>3

LEMMA HostType ==
    ASSUME TInv, NEW h \in Hosts, Start(h) \/ Stop(h)
    PROVE  TInv'
<1>1. {"auth", "clear"} \subseteq Labels /\ "start" \in Tasks
  BY DEF Labels, Tasks
<1>2. CASE Start(h)
  <2>1. pc' \in [Threads -> Labels] /\ ReadersWork'
    BY <1>1, <1>2, GoType DEF Start, Goto
  <2> QED
    BY <1>1, <1>2, <2>1 DEF Start, Call, TInv, TypeOK, listenVars, queueVars, hubVars
<1>3. CASE Stop(h)
  <2>1. pc' \in [Threads -> Labels] /\ ReadersWork'
    BY <1>1, <1>3, GoType DEF Stop, Goto
  <2>2. running' \in BOOLEAN
    <3>1. running' = FALSE
      BY <1>3 DEF Stop
    <3> QED
      BY <3>1
  <2>3. calls' \in Nat
    BY <1>3 DEF Stop, Call, TInv, TypeOK
  <2> QED
    BY <1>3, <2>1, <2>2, <2>3 DEF Stop, TInv, TypeOK, queueVars, hubVars
<1> QED
  BY <1>2, <1>3

LEMMA AdoptType ==
    ASSUME TInv, NEW t \in Threads, NEW list \in Lists, Adopt(t, list), UNCHANGED frame
    PROVE  /\ settings' \in Settings /\ pc' \in [Threads -> Labels]
           /\ wish' \in [Threads -> SUBSET Topics] /\ ReadersWork'
<1>1. settings' \in Settings
  BY NormalizeType DEF Adopt
<1>2. "listener" \in Labels
  BY DEF Labels
<1> QED
  BY <1>1, <1>2, GoType, EnabledType DEF Adopt, TInv, TypeOK

LEMMA SetType ==
    ASSUME TInv, NEW h \in Hosts, NEW list \in Lists, Set(h, list)
    PROVE  TInv'
BY AdoptType DEF Set, Call, TInv, TypeOK, queueVars, hubVars

LEMMA ListenType ==
    ASSUME TInv, NEW t \in Threads, Listener(t) \/ Clear(t) \/ Run(t)
    PROVE  TInv'
<1>1. {"clear", "auth"} \subseteq Labels /\ "set" \in Tasks
  BY DEF Labels, Tasks
<1>2. CASE Clear(t)
  BY <1>2, ReturnType DEF Clear, TInv, TypeOK, queueVars, hubVars, counters
<1>3. CASE Run(t)
  BY <1>3, ReturnType DEF Run, TInv, TypeOK, queueVars, hubVars, counters
<1>4. CASE Listener(t) /\ ~running
  BY <1>4, ReturnType DEF Listener, Starting, TInv, TypeOK, queueVars, hubVars, counters
<1>5. CASE Listener(t) /\ running
  <2>1. pc' = [pc EXCEPT ![t] = IF wish[t] = {} THEN "clear" ELSE "auth"]
    BY <1>5 DEF Listener
  <2>2. pc' \in [Threads -> Labels] /\ ReadersWork'
    BY <1>1, <1>5, <2>1, GoType DEF Listener
  <2>3. task' \in [Threads -> Tasks]
    BY <1>1, <1>5 DEF Listener, TInv, TypeOK
  <2>4. running' \in BOOLEAN
    <3>1. running' = (wish[t] # {})
      BY <1>5 DEF Listener
    <3> QED
      BY <3>1
  <2> QED
    BY <1>5, <2>2, <2>3, <2>4 DEF Listener, TInv, TypeOK, queueVars, hubVars, counters
<1> QED
  BY <1>2, <1>3, <1>4, <1>5 DEF TInv, TypeOK

LEMMA RecoveryType ==
    ASSUME TInv, RecoveryStep
    PROVE  TInv'
<1>1. {"relisten", "auth"} \subseteq Labels /\ "login" \in Tasks
  BY DEF Labels, Tasks
<1>2. CASE Relisten /\ ~running
  BY <1>2, ReturnType DEF Relisten, Starting, TInv, TypeOK, listenVars, queueVars, hubVars, counters
<1>3. CASE Relisten /\ running
  <2>1. pc' \in [Threads -> Labels] /\ ReadersWork'
    BY <1>1, <1>3, GoType DEF Relisten, Goto
  <2> QED
    BY <1>1, <1>3, <2>1 DEF Relisten, TInv, TypeOK, listenVars, queueVars, hubVars, counters
<1>4. ASSUME NEW r \in Readers, LoginAgain(r)
      PROVE  TInv'
  <2>1. pc' \in [Threads -> Labels] /\ ReadersWork'
    BY <1>1, <1>4, GoType DEF LoginAgain, Goto
  <2> QED
    BY <1>4, <2>1 DEF LoginAgain, TInv, TypeOK, listenVars, queueVars, counters
<1> QED
  BY <1>2, <1>3, <1>4 DEF RecoveryStep, TInv, TypeOK

LEMMA SubscribeType ==
    ASSUME TInv, NEW t \in Threads,
           Auth(t) \/ ReadTopics(t) \/ Send(t) \/ GiveUp(t) \/ Store(t)
    PROVE  TInv'
<1>1. {"topics", "send", "await"} \subseteq Labels
  BY DEF Labels
<1>2. Enabled(settings) \in SUBSET Topics
  BY EnabledType DEF TInv, TypeOK
<1>3. CASE Auth(t) /\ loggedIn
  <2>1. pc' \in [Threads -> Labels] /\ ReadersWork'
    BY <1>1, <1>3, GoType DEF Auth, Goto
  <2> QED
    BY <1>3, <2>1 DEF Auth, TInv, TypeOK, queueVars, hubVars, counters
<1>4. CASE (Auth(t) /\ ~loggedIn) \/ GiveUp(t)
  BY <1>4, FailType DEF Auth, GiveUp
<1>5. CASE ReadTopics(t) /\ Enabled(settings) = {}
  <2>1. topics' \in SUBSET Topics /\ missed' \in BOOLEAN
    BY <1>5 DEF ReadTopics, TInv, TypeOK, OthersAtRest
  <2> QED
    BY <1>5, <2>1, SucceedType DEF ReadTopics, TInv, TypeOK, queueVars, hubVars, counters
<1>6. CASE ReadTopics(t) /\ Enabled(settings) # {}
  <2>1. pc' \in [Threads -> Labels] /\ ReadersWork'
    BY <1>1, <1>6, GoType DEF ReadTopics, Goto
  <2>2. wish' \in [Threads -> SUBSET Topics] /\ missed' \in BOOLEAN
    BY <1>2, <1>6 DEF ReadTopics, TInv, TypeOK, OthersAtRest
  <2> QED
    BY <1>6, <2>1, <2>2 DEF ReadTopics, TInv, TypeOK, queueVars, hubVars, counters
<1>7. CASE Send(t) /\ session = "live"
  <2>1. pc' \in [Threads -> Labels] /\ ReadersWork'
    BY <1>1, <1>7, GoType DEF Send, Goto
  <2>4. /\ sends' = sends + 1 /\ ticket' = [ticket EXCEPT ![t] = sends']
        /\ up' = Append(up, [ticket |-> sends', topics |-> wish[t]])
    BY <1>7 DEF Send
  <2>2. sends' \in Nat /\ ticket' \in [Threads -> Nat]
    BY <2>4 DEF TInv, TypeOK
  <2>3. up' \in Seq([ticket : Nat, topics : SUBSET Topics])
    <3>1. [ticket |-> sends', topics |-> wish[t]] \in [ticket : Nat, topics : SUBSET Topics]
      BY <2>2 DEF TInv, TypeOK
    <3> QED
      BY <2>4, <3>1 DEF TInv, TypeOK
  <2> QED
    BY <1>7, <2>1, <2>2, <2>3 DEF Send, TInv, TypeOK, queueVars, counters
<1>8. CASE Send(t) /\ session # "live"
  BY <1>8, FailType DEF Send, hubVars
<1>9. CASE Store(t)
  BY <1>2, <1>9, SucceedType DEF Store, TInv, TypeOK, queueVars, hubVars, counters
<1> QED
  BY <1>3, <1>4, <1>5, <1>6, <1>7, <1>8, <1>9 DEF TInv, TypeOK

LEMMA ReceiveType ==
    ASSUME TInv, NEW r \in Readers, Receive(r)
    PROVE  TInv'
<1> DEFINE f == Head(down)
<1>1. f \in Frames /\ down' \in Seq(Frames)
  BY DEF Receive, TInv, TypeOK
<1>2. CASE f.kind = "publish"
  <2>1. f \in [kind : {"publish"}, topic : Topics]
    BY <1>1, <1>2 DEF Frames
  <2>2. pc' = [pc EXCEPT ![r] = "publish"] /\ frame' = [frame EXCEPT ![r] = f]
    BY <1>2 DEF Receive, Goto
  <2>3. "publish" \in Labels
    BY DEF Labels
  <2> HIDE DEF f
  <2>4. pc' \in [Threads -> Labels] /\ frame' \in [Readers -> Frames \cup {None}] /\ ReadersWork'
    BY <1>1, <2>1, <2>2, <2>3 DEF TInv, TypeOK, ReadersWork
  <2>5. UNCHANGED <<settings, wish>>
    BY <1>2 DEF Receive, f
  <2> QED
    BY <1>1, <2>4, <2>5 DEF Receive, TInv, TypeOK, queueVars, counters
<1>3. CASE f.kind = "set" /\ Normal(f.list)
  <2>1. f.list \in Lists
    BY <1>1, <1>3 DEF Frames
  <2>2. Adopt(r, f.list) /\ UNCHANGED frame
    BY <1>3 DEF Receive
  <2>3. /\ settings' \in Settings /\ pc' \in [Threads -> Labels]
        /\ wish' \in [Threads -> SUBSET Topics] /\ ReadersWork'
    BY <2>1, <2>2, AdoptType
  <2> QED
    BY <1>1, <2>2, <2>3 DEF Receive, TInv, TypeOK, queueVars, counters
<1>4. CASE f.kind = "answer"
  <2>1. Answer(f) /\ UNCHANGED <<settings, wish, frame>>
    BY <1>4 DEF Receive
  <2>2. pc' \in [Threads -> Labels] /\ ReadersWork'
    BY <2>1 DEF Answer, TInv, TypeOK, ReadersWork, Labels
  <2> QED
    BY <1>1, <2>1, <2>2 DEF Receive, TInv, TypeOK, queueVars, counters
<1>5. CASE ~(f.kind = "publish" \/ (f.kind = "set" /\ Normal(f.list)) \/ f.kind = "answer")
  <2>1. UNCHANGED <<pc, settings, wish, frame>>
    BY <1>5 DEF Receive
  <2> QED
    BY <1>1, <2>1 DEF Receive, TInv, TypeOK, ReadersWork, queueVars, counters
<1> QED
  BY <1>2, <1>3, <1>4, <1>5

LEMMA ReaderType ==
    ASSUME TInv, NEW r \in Readers, ReaderStep(r)
    PROVE  TInv'
<1>1. {"check", "enqueue"} \subseteq Labels
  BY DEF Labels
<1>2. CASE Publish(r) \/ Check(r)
  <2>1. CASE Return(r)
    BY <1>2, <2>1, ReturnType DEF Publish, Check, TInv, TypeOK, listenVars, queueVars, hubVars, counters
  <2>2. CASE ~Return(r)
    <3>1. /\ pc[r] \in {"publish", "check"} /\ pc' \in {[pc EXCEPT ![r] = "check"], [pc EXCEPT ![r] = "enqueue"]}
          /\ UNCHANGED <<task, wish, ticket, frame>>
      BY <1>2, <2>2 DEF Publish, Check, Goto
    <3>2. pc' \in [Threads -> Labels] /\ ReadersWork'
      <4>1. frame[r] \in [kind : {"publish"}, topic : Topics]
        BY <3>1 DEF TInv, ReadersWork
      <4>2. \A q \in Readers \ {r} : pc'[q] = pc[q]
        BY <3>1 DEF TInv, TypeOK
      <4>3. pc' \in [Threads -> Labels]
        BY <1>1, <3>1 DEF TInv, TypeOK
      <4> QED
        BY <3>1, <4>1, <4>2, <4>3 DEF TInv, ReadersWork
    <3> QED
      BY <1>2, <3>1, <3>2 DEF Publish, Check, TInv, TypeOK, listenVars, queueVars, hubVars, counters
  <2> QED
    BY <2>1, <2>2
<1>3. CASE Enqueue(r)
  <2> DEFINE e == [topic |-> frame[r].topic, number |-> accepted']
             Event == [topic : Topics, number : Nat]
  <2>1. accepted' \in Nat /\ dropped' \in Nat
    BY <1>3 DEF Enqueue, TInv, TypeOK
  <2>2. e \in Event
    BY <1>3, <2>1 DEF Enqueue, TInv, ReadersWork
  <2>3. Len(queue) >= Capacity => Tail(queue) \in Seq(Event)
    BY DEF TInv, TypeOK
  <2>4. queue' = Append(IF Len(queue) >= Capacity THEN Tail(queue) ELSE queue, e)
    BY <1>3 DEF Enqueue
  <2>5. queue' \in Seq(Event)
    <3> HIDE DEF e
    <3> QED
      BY <2>2, <2>3, <2>4 DEF TInv, TypeOK
  <2> QED
    BY <1>3, <2>1, <2>5, ReturnType DEF Enqueue, TInv, TypeOK, listenVars, hubVars, counters
<1> QED
  BY <1>2, <1>3 DEF ReaderStep

LEMMA HubType ==
    ASSUME TInv,
           \/ MarkLost \/ Drain \/ HubSubscribes \/ Lose
           \/ \E l \in Lists : RemoteSet(l)
           \/ \E t \in Topics : HubPublishes(t)
    PROVE  TInv'
<1> USE DEF TInv, TypeOK, ReadersWork, listenVars, queueVars, localVars, counters
<1>1. CASE MarkLost
  BY <1>1 DEF MarkLost
<1>2. CASE Drain
  BY <1>2 DEF Drain, hubVars
<1>3. CASE Lose
  BY <1>3 DEF Lose
<1>4. CASE HubSubscribes
  <2>1. PICK ok \in BOOLEAN :
            /\ subscribed' = IF ok THEN subscribed \cup Head(up).topics ELSE subscribed
            /\ down' = Append(down, [kind |-> "answer", ticket |-> Head(up).ticket, ok |-> ok])
    BY <1>4 DEF HubSubscribes
  <2>2. up # <<>> /\ up' = Tail(up)
    BY <1>4 DEF HubSubscribes
  <2>3. /\ Head(up) \in [ticket : Nat, topics : SUBSET Topics]
        /\ up' \in Seq([ticket : Nat, topics : SUBSET Topics])
    BY <2>2, HeadTail
  <2>4. subscribed' \in SUBSET Topics
    BY <2>1, <2>3
  <2>5. [kind |-> "answer", ticket |-> Head(up).ticket, ok |-> ok] \in Frames
    BY <2>3 DEF Frames
  <2>6. down' \in Seq(Frames)
    BY <2>1, <2>5
  <2> QED
    BY <1>4, <2>3, <2>4, <2>6 DEF HubSubscribes
<1>5. ASSUME NEW l \in Lists, RemoteSet(l)
      PROVE  TInv'
  <2>1. [kind |-> "set", list |-> l] \in Frames
    BY DEF Frames
  <2>2. down' \in Seq(Frames)
    BY <1>5, <2>1 DEF RemoteSet
  <2> QED
    BY <1>5, <2>2 DEF RemoteSet, Call
<1>6. ASSUME NEW t \in Topics, HubPublishes(t)
      PROVE  TInv'
  <2>1. [kind |-> "publish", topic |-> t] \in Frames
    BY DEF Frames
  <2>2. down' \in Seq(Frames)
    BY <1>6, <2>1 DEF HubPublishes
  <2>3. published' \in Nat
    <3>1. published \in Nat /\ published' = published + 1
      BY <1>6 DEF HubPublishes
    <3> HIDE DEF TInv, TypeOK
    <3> QED
      BY <3>1
  <2> QED
    BY <1>6, <2>2, <2>3 DEF HubPublishes
<1> QED
  BY <1>1, <1>2, <1>3, <1>4, <1>5, <1>6

LEMMA TypeInductive == TInv /\ [Next]_vars => TInv'
<1> SUFFICES ASSUME TInv, [Next]_vars PROVE TInv'
  OBVIOUS
<1>1. CASE UNCHANGED vars
  BY <1>1 DEF TInv, TypeOK, ReadersWork, vars, listenVars, queueVars, hubVars, localVars, counters
<1>2. CASE System
  BY <1>2, ListenType, SubscribeType, ReceiveType, ReaderType, RecoveryType, HubType
     DEF System, Step
<1>3. CASE Environment
  BY <1>3, HostType, SetType, HubType DEF Environment
<1> QED
  BY <1>1, <1>2, <1>3 DEF Next

\* Every variable keeps its type, and in particular no blank topic is ever enabled or
\* asked for (NormalizeSettings, EnabledTopics).
THEOREM TypeCorrect == Spec => []TypeOK
<1>1. TInv => TypeOK
  BY DEF TInv
<1> QED
  BY <1>1, TypeInit, TypeInductive, PTL DEF Spec

-----------------------------------------------------------------------------
(***************************************************************************)
(* The queue.  Its numbers say where an event stands among all that were   *)
(* accepted, so that the newest are those without a gap at the end.        *)
(***************************************************************************)
LEMMA Balance ==
    ASSUME NEW d \in Nat, NEW d2 \in Nat, NEW t \in Nat, NEW a \in Nat,
           NEW k \in Nat, NEW q \in Nat,
           k + d2 = q + d, d + t + q = a
    PROVE  d2 + t + (k + 1) = a + 1
OBVIOUS

LEMMA EnqueueKeepsNewest ==
    ASSUME TypeOK, QueueIsNewest, NEW r \in Readers, Enqueue(r)
    PROVE  QueueIsNewest'
<1> DEFINE e == [topic |-> frame[r].topic, number |-> accepted']
           kept == IF Len(queue) >= Capacity THEN Tail(queue) ELSE queue
           Event == [topic : Topics, number : Nat]
<1>1. queue \in Seq(Event) /\ accepted \in Nat /\ dropped \in Nat /\ taken \in Nat
  BY DEF TypeOK
<1>2. /\ accepted' = accepted + 1 /\ taken' = taken
      /\ queue' = Append(kept, e)
      /\ dropped' = IF Len(queue) >= Capacity THEN dropped + 1 ELSE dropped
  BY DEF Enqueue
<1>3. e.number = accepted + 1
  BY <1>2
<1>4. kept \in Seq(Event) /\ Len(kept) < Capacity
      /\ Len(kept) + dropped' = Len(queue) + dropped
      /\ \A i \in 1..Len(kept) : kept[i].number = accepted - Len(kept) + i
  <2>1. CASE Len(queue) >= Capacity
    <3>1. queue # <<>> /\ Len(queue) = Capacity
      BY <1>1, <2>1 DEF QueueIsNewest
    <3>2. kept = Tail(queue) /\ Len(kept) = Capacity - 1
      BY <1>1, <2>1, <3>1
    <3>3. \A i \in 1..Len(kept) : kept[i] = queue[i + 1] /\ i + 1 \in DOMAIN queue
      BY <1>1, <3>1, <3>2
    <3>4. kept \in Seq(Event)
      BY <1>1, <3>1, <3>2, HeadTail
    <3> HIDE DEF kept
    <3>5. \A i \in 1..Len(kept) : kept[i].number = accepted - Len(kept) + i
      <4> SUFFICES ASSUME NEW i \in 1..Len(kept)
                   PROVE  kept[i].number = accepted - Len(kept) + i
        OBVIOUS
      <4>1. queue[i + 1].number = accepted - Len(queue) + (i + 1)
        BY <3>3 DEF QueueIsNewest
      <4>2. kept[i] = queue[i + 1] /\ i \in Nat /\ Len(queue) = Capacity /\ Len(kept) = Capacity - 1
        BY <3>1, <3>2, <3>3
      <4>3. accepted - Capacity + (i + 1) = accepted - (Capacity - 1) + i
        BY <1>1, <4>2
      <4> QED
        BY <4>1, <4>2, <4>3
    <3>6. Len(kept) + dropped' = Len(queue) + dropped /\ Len(kept) < Capacity
      <4>1. dropped' = dropped + 1
        BY <1>2, <2>1
      <4>2. Len(queue) = Capacity /\ Len(kept) = Capacity - 1 /\ dropped \in Nat
        BY <1>1, <3>1, <3>2
      <4> QED
        BY <4>1, <4>2
    <3> QED
      BY <3>4, <3>5, <3>6
  <2>2. CASE ~(Len(queue) >= Capacity)
    BY <1>1, <1>2, <2>2 DEF QueueIsNewest
  <2> QED
    BY <2>1, <2>2
<1>5. Len(kept) <= accepted
  BY <1>1, <1>2, <1>4 DEF QueueIsNewest
<1> HIDE DEF kept, e
<1>6. /\ Len(queue') = Len(kept) + 1 /\ DOMAIN queue' = 1..(Len(kept) + 1)
      /\ Len(kept) \in Nat /\ Len(queue) \in Nat
  BY <1>1, <1>2, <1>4
<1>7. \A i \in DOMAIN queue' : queue'[i] = IF i <= Len(kept) THEN kept[i] ELSE e
  BY <1>2, <1>4, <1>6
<1>8. Len(queue') <= Capacity
  BY <1>4, <1>6
<1>9. dropped' + taken' + Len(queue') = accepted'
  <2>1. dropped + taken + Len(queue) = accepted
    BY DEF QueueIsNewest
  <2>2. Len(kept) + dropped' = Len(queue) + dropped /\ dropped' \in Nat
    BY <1>1, <1>2, <1>4
  <2>3. accepted' = accepted + 1 /\ taken' = taken /\ Len(queue') = Len(kept) + 1
    BY <1>2, <1>6
  <2>4. dropped \in Nat /\ taken \in Nat /\ accepted \in Nat /\ Len(kept) \in Nat /\ Len(queue) \in Nat
    BY <1>1, <1>6
  <2>5. dropped' + taken + (Len(kept) + 1) = accepted + 1
    BY <2>1, <2>2, <2>4, Balance
  <2> QED
    BY <2>3, <2>5
<1>10. \A i \in DOMAIN queue' : queue'[i].number = accepted' - Len(queue') + i
  <2> SUFFICES ASSUME NEW i \in 1..(Len(kept) + 1)
               PROVE  queue'[i].number = accepted' - Len(queue') + i
    BY <1>6
  <2>1. i \in Nat /\ accepted' = accepted + 1 /\ Len(queue') = Len(kept) + 1
    BY <1>2, <1>6
  <2>2. CASE i <= Len(kept)
    <3>1. queue'[i].number = accepted - Len(kept) + i
      BY <1>4, <1>6, <1>7, <2>1, <2>2
    <3> QED
      BY <1>1, <1>6, <2>1, <3>1
  <2>3. CASE i = Len(kept) + 1
    <3>1. queue'[i].number = accepted + 1
      BY <1>3, <1>6, <1>7, <2>1, <2>3
    <3> QED
      BY <1>1, <1>6, <2>1, <2>3, <3>1
  <2> QED
    BY <1>6, <2>1, <2>2, <2>3
<1> QED
  BY <1>8, <1>9, <1>10 DEF QueueIsNewest

LEMMA QueueStays ==
    ASSUME QueueIsNewest, UNCHANGED queueVars
    PROVE  QueueIsNewest'
BY DEF QueueIsNewest, queueVars

LEMMA QueueInductive == TypeOK /\ QueueIsNewest /\ [Next]_vars => QueueIsNewest'
<1> SUFFICES ASSUME TypeOK, QueueIsNewest, [Next]_vars PROVE QueueIsNewest'
  OBVIOUS
<1>1. ASSUME NEW t \in Threads, Step(t) PROVE UNCHANGED queueVars
  BY <1>1 DEF Step, Listener, Clear, Run, Auth, ReadTopics, Send, GiveUp, Store
<1>2. ASSUME NEW r \in Readers, Receive(r) \/ Publish(r) \/ Check(r) PROVE UNCHANGED queueVars
  BY <1>2 DEF Receive, Publish, Check
<1>3. ASSUME RecoveryStep \/ MarkLost \/ HubSubscribes PROVE UNCHANGED queueVars
  BY <1>3 DEF RecoveryStep, Relisten, LoginAgain, MarkLost, HubSubscribes
<1>4. CASE Drain
  BY <1>4 DEF Drain, TypeOK, QueueIsNewest
<1>5. ASSUME Environment PROVE UNCHANGED queueVars
  BY <1>5 DEF Environment, Start, Stop, Set, RemoteSet, HubPublishes, Lose
<1>6. CASE UNCHANGED vars
  BY <1>6, QueueStays DEF vars
<1> QED
  BY <1>1, <1>2, <1>3, <1>4, <1>5, <1>6, QueueStays, EnqueueKeepsNewest
     DEF Next, System, ReaderStep

\* The notify queue never holds more than its capacity, and whatever is lost from it was
\* counted as dropped and was older than everything it holds (Queue.Enqueue, DequeueAll).
THEOREM QueueKeepsTheNewest == Spec => []QueueIsNewest
<1>1. Init => QueueIsNewest
  BY DEF Init, QueueIsNewest
<1> QED
  BY <1>1, TypeCorrect, QueueInductive, PTL DEF Spec

-----------------------------------------------------------------------------
(***************************************************************************)
(* Subscription.  Answers belong to requests: one that says yes to what a  *)
(* thread still waits for tells the truth about the hub.                   *)
(***************************************************************************)
Truthful(t) ==
    \A i \in DOMAIN down :
        down[i].kind = "answer" /\ down[i].ticket = ticket[t] /\ down[i].ok => wish[t] \subseteq subscribed

Pending(t) == \A i \in DOMAIN up : up[i].ticket = ticket[t] => up[i].topics = wish[t]

Past ==
    /\ \A i \in DOMAIN up : up[i].ticket <= sends
    /\ \A i \in DOMAIN down : down[i].kind = "answer" => down[i].ticket <= sends
    /\ \A t \in Threads : ticket[t] <= sends

AInv == Past /\ \A t \in Threads : pc[t] = "await" => Truthful(t) /\ Pending(t)

\* Steps that send nothing and receive at most.
LEMMA AnswersStay ==
    ASSUME AInv, UNCHANGED <<up, sends, subscribed>>,
           \A i \in DOMAIN down' : down'[i].kind = "answer" => \E j \in DOMAIN down : down'[i] = down[j],
           \A t \in Threads : /\ ticket'[t] = ticket[t] \/ ticket'[t] = 0
                              /\ pc'[t] = "await" => /\ pc[t] = "await"
                                                     /\ wish'[t] = wish[t] /\ ticket'[t] = ticket[t],
           sends \in Nat
    PROVE  AInv'
<1>1. Past'
  BY DEF AInv, Past
<1>2. ASSUME NEW t \in Threads, pc'[t] = "await"
      PROVE  Truthful(t)' /\ Pending(t)'
  <2>1. Truthful(t) /\ Pending(t) /\ wish'[t] = wish[t] /\ ticket'[t] = ticket[t]
    BY <1>2 DEF AInv
  <2>2. Pending(t)'
    BY <2>1 DEF Pending
  <2>3. Truthful(t)'
    BY <2>1 DEF Truthful
  <2> QED
    BY <2>2, <2>3
<1> QED
  BY <1>1, <1>2 DEF AInv

\* The step of a thread that does not send.
LEMMA LocalAnswers ==
    ASSUME TypeOK, AInv, NEW t \in Threads,
           UNCHANGED <<up, down, sends, subscribed>>,
           pc'[t] # "await", ticket'[t] = ticket[t] \/ ticket'[t] = 0,
           \A u \in Threads \ {t} : pc'[u] = pc[u] /\ wish'[u] = wish[u] /\ ticket'[u] = ticket[u]
    PROVE  AInv'
BY AnswersStay DEF TypeOK

LEMMA ReturnIsLocal ==
    ASSUME TypeOK, NEW t \in Threads, Return(t)
    PROVE  /\ pc'[t] = "idle" /\ ticket'[t] = 0
           /\ \A u \in Threads \ {t} : pc'[u] = pc[u] /\ wish'[u] = wish[u] /\ ticket'[u] = ticket[u]
                                      /\ task'[u] = task[u]
BY DEF TypeOK, Return

\* What a step of a thread leaves alone, sends excepted.
LocalStep(t) ==
    /\ pc'[t] # pc[t] /\ pc'[t] # "await"
    /\ ticket'[t] = ticket[t] \/ ticket'[t] = 0
    /\ \A u \in Threads \ {t} : /\ pc'[u] = pc[u] /\ wish'[u] = wish[u] /\ ticket'[u] = ticket[u]
                                /\ task'[u] = task[u]
    /\ UNCHANGED <<up, down, sends, subscribed>>

LEMMA StepsAreLocal ==
    ASSUME TypeOK, NEW t \in Threads, Step(t), ~(Send(t) /\ session = "live")
    PROVE  LocalStep(t)
<1>1. CASE Clear(t) \/ Run(t)
  BY <1>1, ReturnIsLocal DEF Clear, Run, LocalStep, hubVars
<1>2. CASE Listener(t)
  <2>1. CASE ~running
    BY <1>2, <2>1, ReturnIsLocal DEF Listener, LocalStep, hubVars
  <2>2. CASE running
    BY <1>2, <2>2 DEF Listener, LocalStep, TypeOK, hubVars
  <2> QED
    BY <2>1, <2>2
<1>3. CASE Auth(t)
  <2>1. CASE ~loggedIn
    BY <1>3, <2>1, ReturnIsLocal DEF Auth, Fail, LocalStep, hubVars
  <2>2. CASE loggedIn
    BY <1>3, <2>2 DEF Auth, Goto, LocalStep, TypeOK, hubVars
  <2> QED
    BY <2>1, <2>2
<1>4. CASE ReadTopics(t)
  <2>1. CASE Enabled(settings) = {} /\ task[t] # "start"
    BY <1>4, <2>1, ReturnIsLocal DEF ReadTopics, Succeed, LocalStep, hubVars
  <2>2. CASE Enabled(settings) = {} /\ task[t] = "start"
    BY <1>4, <2>2 DEF ReadTopics, Succeed, LocalStep, TypeOK, hubVars
  <2>3. CASE Enabled(settings) # {}
    BY <1>4, <2>3 DEF ReadTopics, Goto, LocalStep, TypeOK, hubVars
  <2> QED
    BY <2>1, <2>2, <2>3
<1>5. CASE Send(t) /\ session # "live"
  BY <1>5, ReturnIsLocal DEF Send, Fail, LocalStep
<1>6. CASE GiveUp(t)
  BY <1>6, ReturnIsLocal DEF GiveUp, Fail, LocalStep, hubVars
<1>7. CASE Store(t)
  <2>1. CASE task[t] # "start"
    BY <1>7, <2>1, ReturnIsLocal DEF Store, Succeed, LocalStep, hubVars
  <2>2. CASE task[t] = "start"
    BY <1>7, <2>2 DEF Store, Succeed, LocalStep, TypeOK, hubVars
  <2> QED
    BY <2>1, <2>2
<1> QED
  BY <1>1, <1>2, <1>3, <1>4, <1>5, <1>6, <1>7 DEF Step

LEMMA OtherLocalSteps ==
    ASSUME TypeOK
    PROVE  /\ \A h \in Hosts : Start(h) \/ Stop(h) => LocalStep(h)
           /\ \A h \in Hosts, l \in Lists : Set(h, l) => LocalStep(h)
           /\ \A r \in Readers : ReaderStep(r) => LocalStep(r)
<1>1. ASSUME NEW h \in Hosts, Start(h) \/ Stop(h) PROVE LocalStep(h)
  BY <1>1 DEF Start, Stop, Goto, LocalStep, TypeOK, hubVars
<1>2. ASSUME NEW h \in Hosts, NEW l \in Lists, Set(h, l) PROVE LocalStep(h)
  BY <1>2 DEF Set, Adopt, LocalStep, TypeOK, hubVars
<1>3. ASSUME NEW r \in Readers, ReaderStep(r) PROVE LocalStep(r)
  <2>1. CASE Return(r)
    BY <1>3, <2>1, ReturnIsLocal DEF ReaderStep, Publish, Check, Enqueue, LocalStep, hubVars, localVars
  <2>2. CASE ~Return(r)
    BY <1>3, <2>2 DEF ReaderStep, Publish, Check, Enqueue, Goto, LocalStep, TypeOK, hubVars
  <2> QED
    BY <2>1, <2>2
<1> QED
  BY <1>1, <1>2, <1>3

LEMMA SendAnswers ==
    ASSUME TypeOK, AInv, NEW t \in Threads, Send(t), session = "live"
    PROVE  AInv'
<1> DEFINE q == [ticket |-> sends', topics |-> wish[t]]
           Request == [ticket : Nat, topics : SUBSET Topics]
<1>1. /\ pc' = [pc EXCEPT ![t] = "await"] /\ sends' = sends + 1
      /\ ticket' = [ticket EXCEPT ![t] = sends'] /\ up' = Append(up, q)
      /\ UNCHANGED <<wish, down, subscribed>>
  BY DEF Send, Goto
<1>2. up \in Seq(Request) /\ sends \in Nat /\ \A u \in Threads : ticket[u] \in Nat
  BY DEF TypeOK
<1>3. q.ticket = sends + 1 /\ q.topics = wish[t]
  BY <1>1
<1> HIDE DEF q
<1>4. /\ DOMAIN up' = 1..(Len(up) + 1)
      /\ \A i \in DOMAIN up' : up'[i] = IF i \in DOMAIN up THEN up[i] ELSE q
  BY <1>1, <1>2
<1>5. \A i \in DOMAIN up : up[i].ticket \in Nat /\ up[i].ticket <= sends
  <2>1. \A i \in DOMAIN up : up[i] \in Request
    BY <1>2, Elements
  <2> QED
    BY <2>1 DEF AInv, Past
<1>6. \A i \in DOMAIN down : down[i].kind = "answer" => down[i].ticket \in Nat /\ down[i].ticket <= sends
  <2>1. \A i \in DOMAIN down : down[i] \in Frames
    BY DEF TypeOK
  <2> QED
    BY <2>1 DEF AInv, Past, Frames
<1>7. \A u \in Threads : ticket'[u] = IF u = t THEN sends + 1 ELSE ticket[u]
  BY <1>1 DEF TypeOK
<1>8. Past'
  <2>1. \A i \in DOMAIN up' : up'[i].ticket <= sends + 1
    BY <1>2, <1>3, <1>4, <1>5
  <2>2. \A i \in DOMAIN down : down[i].kind = "answer" => down[i].ticket <= sends + 1
    BY <1>2, <1>6
  <2>3. \A u \in Threads : ticket'[u] <= sends + 1
    BY <1>2, <1>7 DEF AInv, Past
  <2> QED
    BY <1>1, <2>1, <2>2, <2>3 DEF Past
<1>9. Truthful(t)' /\ Pending(t)'
  <2>1. \A i \in DOMAIN down : down[i].kind = "answer" => down[i].ticket # sends + 1
    BY <1>2, <1>6
  <2>2. \A i \in DOMAIN up : up[i].ticket # sends + 1
    BY <1>2, <1>5
  <2> QED
    BY <1>1, <1>3, <1>4, <1>7, <2>1, <2>2 DEF Truthful, Pending
<1>10. ASSUME NEW u \in Threads \ {t}, pc'[u] = "await"
       PROVE  Truthful(u)' /\ Pending(u)'
  <2>1. pc[u] = "await" /\ ticket'[u] = ticket[u] /\ ticket[u] # sends + 1
    BY <1>1, <1>2, <1>7, <1>10 DEF TypeOK, AInv, Past
  <2>2. Truthful(u) /\ Pending(u)
    BY <2>1 DEF AInv
  <2> QED
    BY <1>1, <1>3, <1>4, <2>1, <2>2 DEF Truthful, Pending
<1> QED
  BY <1>8, <1>9, <1>10 DEF AInv

LEMMA ReceiveAnswers ==
    ASSUME TypeOK, AInv, NEW r \in Readers, Receive(r)
    PROVE  AInv'
<1>1. down \in Seq(Frames) /\ down # <<>> /\ down' = Tail(down) /\ sends \in Nat
  BY DEF Receive, TypeOK
<1>2. \A i \in DOMAIN down' : i + 1 \in DOMAIN down /\ down'[i] = down[i + 1]
  BY <1>1
<1>3. UNCHANGED <<up, sends, subscribed, ticket>>
  BY DEF Receive
<1>4. ASSUME NEW t \in Threads, pc'[t] = "await"
      PROVE  pc[t] = "await" /\ wish'[t] = wish[t]
  BY <1>4 DEF Receive, Adopt, Answer, Goto, TypeOK
<1> QED
  BY <1>1, <1>2, <1>3, <1>4, AnswersStay

LEMMA HubAnswers ==
    ASSUME TypeOK, AInv, HubSubscribes
    PROVE  AInv'
<1> DEFINE q == Head(up)
<1>1. PICK ok \in BOOLEAN :
          /\ subscribed' = IF ok THEN subscribed \cup q.topics ELSE subscribed
          /\ down' = Append(down, [kind |-> "answer", ticket |-> q.ticket, ok |-> ok])
  BY DEF HubSubscribes
<1> DEFINE f == [kind |-> "answer", ticket |-> q.ticket, ok |-> ok]
<1>2. up # <<>> /\ up' = Tail(up) /\ UNCHANGED <<sends, ticket, wish, pc>>
  BY DEF HubSubscribes, localVars
<1>3. /\ up \in Seq([ticket : Nat, topics : SUBSET Topics]) /\ down \in Seq(Frames)
      /\ sends \in Nat
  BY DEF TypeOK
<1>4. q = up[1] /\ 1 \in DOMAIN up /\ \A i \in DOMAIN up' : i + 1 \in DOMAIN up /\ up'[i] = up[i + 1]
  BY <1>2, <1>3
<1>5. f.kind = "answer" /\ f.ticket = q.ticket /\ f.ok = ok /\ down' = Append(down, f)
  BY <1>1
<1> HIDE DEF f, q
<1>6. \A i \in DOMAIN down' : (i \in DOMAIN down /\ down'[i] = down[i]) \/ down'[i] = f
  BY <1>3, <1>5
<1>7. Past'
  BY <1>2, <1>4, <1>5, <1>6 DEF AInv, Past
<1>8. ASSUME NEW t \in Threads, pc'[t] = "await"
      PROVE  Truthful(t)' /\ Pending(t)'
  <2>1. Truthful(t) /\ Pending(t)
    BY <1>2, <1>8 DEF AInv
  <2>2. Pending(t)'
    BY <1>2, <1>4, <2>1 DEF Pending
  <2>3. ok /\ q.ticket = ticket[t] => wish[t] \subseteq subscribed'
    BY <1>1, <1>4, <2>1 DEF Pending
  <2>4. subscribed \subseteq subscribed'
    BY <1>1
  <2>5. Truthful(t)'
    BY <1>2, <1>5, <1>6, <2>1, <2>3, <2>4 DEF Truthful
  <2> QED
    BY <2>2, <2>5
<1> QED
  BY <1>7, <1>8 DEF AInv

LEMMA AnswersInductive == TypeOK /\ AInv /\ [Next]_vars => AInv'
<1> SUFFICES ASSUME TypeOK, AInv, [Next]_vars PROVE AInv'
  OBVIOUS
<1>0. sends \in Nat
  BY DEF TypeOK
<1>1. ASSUME NEW t \in Threads, LocalStep(t) PROVE AInv'
  BY <1>1, LocalAnswers DEF LocalStep
<1>2. ASSUME NEW t \in Threads, Step(t) PROVE AInv'
  BY <1>1, <1>2, StepsAreLocal, SendAnswers
<1>3. CASE RecoveryStep
  <2>1. CASE Relisten
    <3>1. CASE ~running
      BY <1>1, <2>1, <3>1, ReturnIsLocal DEF Relisten, LocalStep, hubVars
    <3>2. CASE running
      BY <1>1, <2>1, <3>2 DEF Relisten, Goto, LocalStep, TypeOK, hubVars
    <3> QED
      BY <3>1, <3>2
  <2>2. ASSUME NEW r \in Readers, LoginAgain(r) PROVE AInv'
    BY <1>1, <2>2 DEF LoginAgain, Goto, LocalStep, TypeOK
  <2> QED
    BY <1>3, <2>1, <2>2 DEF RecoveryStep
<1>4. CASE MarkLost \/ Drain \/ UNCHANGED vars
  BY <1>0, <1>4, AnswersStay DEF MarkLost, Drain, vars, hubVars, localVars
<1>5. CASE Lose
  <2>1. up' = <<>> /\ down' = <<>> /\ UNCHANGED <<sends, ticket, wish, pc>>
    BY <1>5 DEF Lose, localVars
  <2> QED
    BY <2>1 DEF AInv, Past, Truthful, Pending
<1>6. ASSUME NEW f, f.kind # "answer", down' = Append(down, f),
             UNCHANGED <<up, sends, subscribed, ticket, wish, pc>>
      PROVE  AInv'
  <2>1. down \in Seq(Frames)
    BY DEF TypeOK
  <2>2. \A i \in DOMAIN down' : (i \in DOMAIN down /\ down'[i] = down[i]) \/ down'[i] = f
    BY <1>6, <2>1
  <2> QED
    BY <1>0, <1>6, <2>2, AnswersStay
<1>7. ASSUME NEW t \in Topics, HubPublishes(t) PROVE AInv'
  BY <1>6, <1>7 DEF HubPublishes, localVars
<1>8. ASSUME NEW l \in Lists, RemoteSet(l) PROVE AInv'
  BY <1>6, <1>8 DEF RemoteSet, localVars
<1> QED
  BY <1>1, <1>2, <1>3, <1>4, <1>5, <1>7, <1>8, OtherLocalSteps, ReceiveAnswers, HubAnswers
     DEF Next, System, Environment

(***************************************************************************)
(* While the listener runs, or is about to, the hub sends every enabled    *)
(* topic, or some thread is still to ask for them: it has not read the     *)
(* settings yet, or has asked for all that is enabled now.                 *)
(***************************************************************************)
Covers(t) ==
    \/ pc[t] \in {"relisten", "auth", "topics", "refused"}
    \/ pc[t] = "listener" /\ wish[t] # {}
    \/ pc[t] \in {"send", "await"} /\ Enabled(settings) \subseteq wish[t]

Heard == Enabled(settings) \subseteq subscribed

StartsAt(t) == task[t] = "start" /\ pc[t] \in {"send", "await", "answered", "run"}

On == session = "live" /\ ~missed /\ (running \/ \E t \in Threads : StartsAt(t))

SInv ==
    /\ On => Heard \/ \E t \in Threads : Covers(t)
    /\ \A t \in Threads : pc[t] = "run" => task[t] = "start"

\* The step of a thread that leaves the settings alone.
LEMMA CoverStays ==
    ASSUME SInv, NEW t \in Threads,
           UNCHANGED <<settings, session, subscribed>>,
           \A u \in Threads \ {t} : pc'[u] = pc[u] /\ wish'[u] = wish[u] /\ task'[u] = task[u],
           running' => running \/ StartsAt(t), missed => missed',
           StartsAt(t)' => StartsAt(t),
           pc'[t] = "run" => task'[t] = "start",
           Covers(t) => Covers(t)' \/ Heard \/ ~On'
    PROVE  SInv'
<1>1. On' => On
  BY DEF On, StartsAt
<1>2. \A u \in Threads \ {t} : Covers(u) => Covers(u)'
  BY DEF Covers
<1>3. Heard' = Heard
  BY DEF Heard
<1> QED
  BY <1>1, <1>2, <1>3 DEF SInv

\* What has been set is either nothing or still to be asked for.
LEMMA AdoptCovers ==
    ASSUME TypeOK, SInv, NEW t \in Threads, NEW list, Adopt(t, list), UNCHANGED task, pc[t] = "idle"
    PROVE  SInv'
<1>1. pc'[t] = "listener" /\ wish'[t] = Enabled(settings')
  BY DEF Adopt, TypeOK
<1>2. Heard' \/ Covers(t)'
  BY <1>1 DEF Heard, Covers, Enabled
<1>3. \A u \in Threads : pc'[u] = "run" => task'[u] = "start"
  BY DEF SInv, Adopt, TypeOK
<1> QED
  BY <1>2, <1>3 DEF SInv

LEMMA ListenerCovers ==
    ASSUME TypeOK, SInv, NEW t \in Threads, Listener(t) \/ Clear(t) \/ Run(t)
    PROVE  SInv'
<1>1. LocalStep(t)
  BY StepsAreLocal DEF Step, Listener, Clear, Run, Send, Goto
<1>2. \A u \in Threads \ {t} : pc'[u] = pc[u] /\ wish'[u] = wish[u] /\ task'[u] = task[u]
  BY <1>1 DEF LocalStep
<1>3. CASE Clear(t)
  <2>1. pc'[t] = "idle" /\ UNCHANGED <<settings, session, subscribed, running, missed>>
    BY <1>3, ReturnIsLocal DEF Clear, hubVars
  <2> QED
    BY <1>2, <1>3, <2>1, CoverStays DEF Clear, Covers, StartsAt
<1>4. CASE Run(t)
  <2>1. pc'[t] = "idle" /\ UNCHANGED <<settings, session, subscribed, missed>>
    BY <1>4, ReturnIsLocal DEF Run, hubVars
  <2>2. StartsAt(t)
    BY <1>4 DEF Run, SInv, StartsAt
  <2> QED
    BY <1>2, <1>4, <2>1, <2>2, CoverStays DEF Run, Covers, StartsAt
<1>5. CASE Listener(t) /\ ~running
  <2>1. /\ pc'[t] = "idle" /\ UNCHANGED <<settings, session, subscribed, running>>
        /\ missed' = (missed \/ Starting)
    BY <1>5, ReturnIsLocal DEF Listener, hubVars
  <2>2. ~StartsAt(t)' /\ (\E u \in Threads : StartsAt(u)') => Starting
    BY <1>2 DEF StartsAt, Starting
  <2>3. ~StartsAt(t)'
    BY <2>1 DEF StartsAt
  <2>4. ~On'
    <3>1. (\E u \in Threads : StartsAt(u)') => missed'
      BY <2>1, <2>2, <2>3
    <3> QED
      BY <1>5, <2>1, <3>1 DEF On
  <2> QED
    BY <1>2, <2>1, <2>3, <2>4, CoverStays
<1>6. CASE Listener(t) /\ running
  <2>1. /\ pc'[t] = IF wish[t] = {} THEN "clear" ELSE "auth"
        /\ UNCHANGED <<settings, session, subscribed, missed>>
    BY <1>6 DEF Listener, TypeOK, hubVars
  <2>2. Covers(t) => Covers(t)'
    BY <1>6, <2>1 DEF Listener, Covers
  <2> QED
    BY <1>2, <1>6, <2>1, <2>2, CoverStays DEF StartsAt
<1> QED
  BY <1>3, <1>4, <1>5, <1>6

\* A request that fails is a subscription that may be missing.
LEMMA FailCovers ==
    ASSUME TypeOK, SInv, NEW t \in Threads, Fail(t), UNCHANGED <<settings, session, subscribed>>
    PROVE  SInv'
<1>1. ~On'
  BY DEF Fail, On
<1>2. \A u \in Threads : pc'[u] = "run" => task'[u] = "start"
  BY ReturnIsLocal DEF Fail, SInv
<1> QED
  BY <1>1, <1>2 DEF SInv

LEMMA SubscribeCovers ==
    ASSUME TypeOK, SInv, NEW t \in Threads,
           Auth(t) \/ ReadTopics(t) \/ Send(t) \/ GiveUp(t) \/ Store(t)
    PROVE  SInv'
<1>1. CASE Auth(t) /\ loggedIn
  <2>1. /\ pc' = [pc EXCEPT ![t] = "topics"]
        /\ UNCHANGED <<settings, session, subscribed, running, missed, task, wish>>
    BY <1>1 DEF Auth, Goto, hubVars
  <2>2. pc'[t] = "topics" /\ \A u \in Threads \ {t} : pc'[u] = pc[u]
    BY <2>1 DEF TypeOK
  <2> QED
    BY <2>1, <2>2, CoverStays DEF Covers, StartsAt
<1>2. CASE (Auth(t) /\ ~loggedIn) \/ GiveUp(t) \/ (Send(t) /\ session # "live")
  BY <1>2, FailCovers DEF Auth, GiveUp, Send, hubVars
<1>3. CASE ReadTopics(t)
  <2>1. LocalStep(t)
    BY <1>3, StepsAreLocal DEF Step, ReadTopics, Send, Goto
  <2>2. CASE Enabled(settings) = {}
    <3>1. Heard'
      BY <1>3, <2>2 DEF ReadTopics, Heard, Enabled, hubVars
    <3>2. pc'[t] = "run" => task'[t] = "start"
      BY <1>3, <2>2, ReturnIsLocal DEF ReadTopics, Succeed
    <3> QED
      BY <2>1, <3>1, <3>2 DEF SInv, LocalStep
  <2>3. CASE Enabled(settings) # {}
    <3>1. pc'[t] = "send" /\ wish'[t] = Enabled(settings) /\ UNCHANGED settings
      BY <1>3, <2>3 DEF ReadTopics, Goto, TypeOK
    <3>2. Covers(t)'
      BY <3>1 DEF Covers
    <3> QED
      BY <2>1, <3>1, <3>2 DEF SInv, LocalStep
  <2> QED
    BY <2>2, <2>3
<1>4. CASE Send(t) /\ session = "live"
  <2>1. /\ pc' = [pc EXCEPT ![t] = "await"] /\ pc[t] = "send"
        /\ UNCHANGED <<settings, session, subscribed, running, missed, task, wish>>
    BY <1>4 DEF Send, Goto
  <2>2. pc'[t] = "await" /\ \A u \in Threads \ {t} : pc'[u] = pc[u]
    BY <2>1 DEF TypeOK
  <2> QED
    BY <2>1, <2>2, CoverStays DEF Covers, StartsAt
<1>5. CASE Store(t)
  <2>1. LocalStep(t)
    BY <1>5, StepsAreLocal DEF Step, Store, Send, Goto
  <2>2. pc[t] = "answered" /\ UNCHANGED <<settings, session, subscribed, running, missed>>
    BY <1>5 DEF Store, hubVars
  <2>3. \/ pc'[t] = "run" /\ task[t] = "start" /\ task'[t] = "start"
        \/ pc'[t] = "idle"
    <3>1. CASE task[t] = "start"
      BY <1>5, <3>1 DEF Store, Succeed, TypeOK
    <3>2. CASE task[t] # "start"
      BY <1>5, <3>2, ReturnIsLocal DEF Store, Succeed
    <3> QED
      BY <3>1, <3>2
  <2> QED
    BY <2>1, <2>2, <2>3, CoverStays DEF LocalStep, Covers, StartsAt
<1> QED
  BY <1>1, <1>2, <1>3, <1>4, <1>5

\* An answer that is no wakes a thread that covers; one that is yes has been truthful.
LEMMA AnswerCovers ==
    ASSUME TypeOK, AInv, SInv, NEW f \in Frames, f.kind = "answer", Answer(f),
           \E i \in DOMAIN down : down[i] = f,
           UNCHANGED <<settings, session, subscribed, running, missed, task, wish>>
    PROVE  SInv'
<1>1. \A t \in Threads : pc'[t] = IF pc[t] = "await" /\ ticket[t] = f.ticket
                                  THEN IF f.ok THEN "answered" ELSE "refused"
                                  ELSE pc[t]
  BY DEF Answer
<1>2. \A t \in Threads : StartsAt(t)' => StartsAt(t)
  BY <1>1 DEF StartsAt
<1>3. On' => On
  BY <1>2 DEF On
<1>4. \A t \in Threads : Covers(t) => Covers(t)' \/ Heard
  <2> SUFFICES ASSUME NEW t \in Threads, Covers(t) PROVE Covers(t)' \/ Heard
    OBVIOUS
  <2>1. CASE pc[t] = "await" /\ ticket[t] = f.ticket /\ f.ok
    <3>1. wish[t] \subseteq subscribed
      BY <2>1 DEF AInv, Truthful
    <3> QED
      BY <2>1, <3>1 DEF Covers, Heard
  <2>2. CASE pc[t] = "await" /\ ticket[t] = f.ticket /\ ~f.ok
    BY <1>1, <2>2 DEF Covers
  <2>3. CASE ~(pc[t] = "await" /\ ticket[t] = f.ticket)
    BY <1>1, <2>3 DEF Covers
  <2> QED
    BY <2>1, <2>2, <2>3
<1>5. \A t \in Threads : pc'[t] = "run" => task'[t] = "start"
  BY <1>1 DEF SInv
<1>6. Heard' = Heard
  BY DEF Heard
<1> QED
  BY <1>3, <1>4, <1>5, <1>6 DEF SInv

LEMMA ReceiveCovers ==
    ASSUME TypeOK, AInv, SInv, NEW r \in Readers, Receive(r)
    PROVE  SInv'
<1> DEFINE f == Head(down)
<1>1. /\ pc[r] = "idle" /\ down # <<>> /\ down \in Seq(Frames)
      /\ UNCHANGED <<session, subscribed, running, missed, task>>
  BY DEF Receive, TypeOK
<1>2. f \in Frames /\ \E i \in DOMAIN down : down[i] = f
  BY <1>1
<1>3. CASE f.kind = "publish"
  <2>1. pc' = [pc EXCEPT ![r] = "publish"] /\ UNCHANGED <<settings, wish>>
    BY <1>3 DEF Receive, Goto
  <2>2. pc'[r] = "publish" /\ \A u \in Threads \ {r} : pc'[u] = pc[u]
    BY <2>1 DEF TypeOK
  <2> QED
    BY <1>1, <2>1, <2>2, CoverStays DEF Covers, StartsAt
<1>4. CASE f.kind = "set" /\ Normal(f.list)
  BY <1>1, <1>4, AdoptCovers DEF Receive
<1>5. CASE f.kind = "answer"
  <2>1. Answer(f) /\ UNCHANGED <<settings, wish>>
    BY <1>5 DEF Receive
  <2> HIDE DEF f
  <2> QED
    BY <1>1, <1>2, <1>5, <2>1, AnswerCovers
<1>6. CASE ~(f.kind = "publish" \/ (f.kind = "set" /\ Normal(f.list)) \/ f.kind = "answer")
  <2>1. UNCHANGED <<pc, settings, wish>>
    BY <1>6 DEF Receive
  <2> QED
    BY <1>1, <2>1 DEF SInv, On, Heard, Covers, StartsAt
<1> QED
  BY <1>3, <1>4, <1>5, <1>6

LEMMA RecoveryCovers ==
    ASSUME TypeOK, SInv, RecoveryStep
    PROVE  SInv'
<1>1. CASE Relisten /\ ~running
  <2>1. /\ Return(Recovery) /\ missed' = (missed \/ Starting)
        /\ UNCHANGED <<settings, session, subscribed, running>>
    BY <1>1 DEF Relisten, listenVars, hubVars
  <2>2. /\ pc'[Recovery] = "idle"
        /\ \A u \in Threads \ {Recovery} : pc'[u] = pc[u] /\ wish'[u] = wish[u] /\ task'[u] = task[u]
    BY <2>1, ReturnIsLocal
  <2>3. ~StartsAt(Recovery)' /\ ((\E u \in Threads : StartsAt(u)') => Starting)
    BY <2>2 DEF StartsAt, Starting
  <2>4. ~On'
    <3>1. (\E u \in Threads : StartsAt(u)') => missed'
      BY <2>1, <2>3
    <3> QED
      BY <1>1, <2>1, <3>1 DEF On
  <2> QED
    BY <2>1, <2>2, <2>3, <2>4, CoverStays
<1>2. CASE Relisten /\ running
  <2>1. /\ pc' = [pc EXCEPT ![Recovery] = "auth"] /\ task' = [task EXCEPT ![Recovery] = "login"]
        /\ UNCHANGED <<settings, session, subscribed, running, missed, wish>>
    BY <1>2 DEF Relisten, Goto, listenVars, hubVars
  <2>2. pc'[Recovery] = "auth" /\ \A u \in Threads \ {Recovery} : pc'[u] = pc[u] /\ task'[u] = task[u]
    BY <2>1 DEF TypeOK
  <2> QED
    BY <2>1, <2>2, CoverStays DEF Covers, StartsAt
<1>3. ASSUME NEW r \in Readers, LoginAgain(r)
      PROVE  SInv'
  <2>1. pc' = [pc EXCEPT ![Recovery] = "relisten"] /\ UNCHANGED task
    BY <1>3 DEF LoginAgain, Goto
  <2>2. pc'[Recovery] = "relisten" /\ \A u \in Threads \ {Recovery} : pc'[u] = pc[u]
    BY <2>1 DEF TypeOK
  <2>3. Covers(Recovery)'
    BY <2>2 DEF Covers
  <2> QED
    BY <2>1, <2>2, <2>3 DEF SInv
<1> QED
  BY <1>1, <1>2, <1>3 DEF RecoveryStep, TypeOK

LEMMA HostCovers ==
    ASSUME TypeOK, SInv, NEW h \in Hosts,
           Start(h) \/ Stop(h) \/ \E l \in Lists : Set(h, l)
    PROVE  SInv'
<1>1. CASE Start(h)
  <2>1. /\ pc' = [pc EXCEPT ![h] = "auth"] /\ task' = [task EXCEPT ![h] = "start"]
        /\ UNCHANGED <<settings, session, subscribed, running, missed, wish>>
    BY <1>1 DEF Start, Goto, listenVars, hubVars
  <2>2. pc'[h] = "auth" /\ \A u \in Threads \ {h} : pc'[u] = pc[u] /\ task'[u] = task[u]
    BY <2>1 DEF TypeOK
  <2> QED
    BY <2>1, <2>2, CoverStays DEF Covers, StartsAt
<1>2. CASE Stop(h)
  <2>1. /\ pc' = [pc EXCEPT ![h] = "clear"] /\ pc[h] = "idle" /\ running' = FALSE
        /\ UNCHANGED <<settings, session, subscribed, missed, wish, task>>
    BY <1>2 DEF Stop, Goto, hubVars
  <2>2. pc'[h] = "clear" /\ \A u \in Threads \ {h} : pc'[u] = pc[u]
    BY <2>1 DEF TypeOK
  <2> QED
    BY <2>1, <2>2, CoverStays DEF Covers, StartsAt
<1>3. CASE \E l \in Lists : Set(h, l)
  BY <1>3, AdoptCovers DEF Set
<1> QED
  BY <1>1, <1>2, <1>3

LEMMA SubscribedInductive == TypeOK /\ AInv /\ SInv /\ [Next]_vars => SInv'
<1> SUFFICES ASSUME TypeOK, AInv, SInv, [Next]_vars PROVE SInv'
  OBVIOUS
<1>1. ASSUME NEW t \in Threads, Step(t) PROVE SInv'
  BY <1>1, ListenerCovers, SubscribeCovers DEF Step
<1>2. ASSUME NEW r \in Readers, ReaderStep(r) PROVE SInv'
  <2>1. LocalStep(r)
    BY <1>2, OtherLocalSteps
  <2>2. /\ pc[r] \in {"publish", "check", "enqueue"} /\ pc'[r] \in {"check", "enqueue", "idle"}
        /\ UNCHANGED <<settings, session, subscribed, running, missed>>
    BY <1>2, ReturnIsLocal DEF ReaderStep, Publish, Check, Enqueue, Goto, TypeOK, listenVars, hubVars
  <2> QED
    BY <2>1, <2>2, CoverStays DEF LocalStep, Covers, StartsAt
<1>3. CASE HubSubscribes
  <2>1. subscribed \subseteq subscribed'
    BY <1>3 DEF HubSubscribes
  <2> QED
    BY <1>3, <2>1 DEF HubSubscribes, listenVars, localVars, SInv, On, Heard, Covers, StartsAt
<1>4. CASE Lose
  <2>1. ~On'
    BY <1>4 DEF Lose, On
  <2> QED
    BY <1>4, <2>1 DEF Lose, localVars, SInv
<1>5. ASSUME UNCHANGED <<settings, running, session, subscribed, pc, task, wish, missed>>
      PROVE  SInv'
  BY <1>5 DEF SInv, On, Heard, Covers, StartsAt
<1>6. CASE \/ MarkLost \/ Drain \/ UNCHANGED vars
           \/ \E l \in Lists : RemoteSet(l)
           \/ \E t \in Topics : HubPublishes(t)
  BY <1>5, <1>6 DEF MarkLost, Drain, RemoteSet, HubPublishes, vars, listenVars, hubVars, localVars
<1> QED
  BY <1>1, <1>2, <1>3, <1>4, <1>6, ReceiveCovers, RecoveryCovers, HostCovers
     DEF Next, System, Environment

\* Calls of StartNotify, StopNotify and RuntimeConfigSet, remote settings and logins
\* after a loss, overlapping in any way, leave a running listener subscribed to all that
\* is enabled, but for a request that failed and for what StartNotify overlapped
\* (reloadRuntimeConfig, subscribeNotifyTopics, Login).
THEOREM ListenersAreSubscribed == Spec => []Subscribed
<1>1. Init => AInv /\ SInv
  BY DEF Init, AInv, Past, SInv, On, StartsAt
<1>2. SInv => Subscribed
  BY DEF SInv, On, Heard, Covers, Subscribed, AtRest
<1> QED
  BY <1>1, <1>2, TypeCorrect, AnswersInductive, SubscribedInductive, PTL DEF Spec
-----------------------------------------------------------------------------
(***************************************************************************)
(* What is accepted.  While the listener runs, or is about to, what it has *)
(* subscribed to is enabled, or some thread is still to replace the topics *)
(* or to leave a subscription out.                                         *)
(***************************************************************************)
Renews(t) ==
    pc[t] \in {"listener", "relisten", "clear", "auth", "topics", "send", "await", "answered", "refused"}

Listening == ~missed /\ (running \/ \E t \in Threads : StartsAt(t))

OInv == Listening => topics \subseteq Enabled(settings) \/ \E t \in Threads : Renews(t)

\* The step of a thread that leaves the settings and the topics alone.
LEMMA RenewalStays ==
    ASSUME OInv, NEW t \in Threads, UNCHANGED <<settings, topics>>,
           \A u \in Threads \ {t} : pc'[u] = pc[u] /\ task'[u] = task[u],
           ~Renews(t)' => (/\ ~Renews(t)
                           /\ running' => running \/ StartsAt(t)
                           /\ missed => missed'
                           /\ StartsAt(t)' => StartsAt(t))
    PROVE  OInv'
<1>1. CASE Renews(t)'
  BY <1>1 DEF OInv
<1>2. CASE ~Renews(t)'
  <2>1. \A u \in Threads \ {t} : Renews(u) => Renews(u)'
    BY DEF Renews
  <2>2. Listening' => Listening
    BY <1>2 DEF Listening, StartsAt
  <2> QED
    BY <1>2, <2>1, <2>2 DEF OInv
<1> QED
  BY <1>1, <1>2

\* What a thread leaves behind that was to renew the topics: it has replaced or emptied
\* them, or left a subscription out, or the listener is off.
LEMMA StepRenews ==
    ASSUME TypeOK, SInv, OInv, NEW t \in Threads, Step(t)
    PROVE  OInv'
<1>1. CASE Clear(t) \/ Store(t) \/ (ReadTopics(t) /\ Enabled(settings) = {})
  <2>1. topics' \subseteq Enabled(settings) /\ UNCHANGED settings
    BY <1>1 DEF Clear, Store, ReadTopics
  <2> QED
    BY <2>1 DEF OInv
<1>2. CASE ReadTopics(t) /\ Enabled(settings) # {}
  <2>1. pc'[t] = "send"
    BY <1>2 DEF ReadTopics, Goto, TypeOK
  <2> QED
    BY <2>1 DEF OInv, Renews
<1>3. CASE Run(t)
  <2>1. LocalStep(t) /\ pc'[t] = "idle" /\ StartsAt(t) /\ UNCHANGED <<settings, topics, missed>>
    BY <1>3, StepsAreLocal, ReturnIsLocal DEF Step, Run, Send, Goto, SInv, StartsAt
  <2> QED
    BY <1>3, <2>1, RenewalStays DEF LocalStep, Run, Renews, StartsAt
<1>4. CASE Listener(t) /\ ~running
  <2>1. LocalStep(t) /\ pc'[t] = "idle" /\ UNCHANGED running /\ missed' = (missed \/ Starting)
    BY <1>4, StepsAreLocal, ReturnIsLocal DEF Step, Listener, Send, Goto
  <2>2. (\E u \in Threads : StartsAt(u)') => Starting
    BY <2>1 DEF LocalStep, StartsAt, Starting
  <2> QED
    BY <1>4, <2>1, <2>2 DEF OInv, Listening
<1>5. CASE Listener(t) /\ running
  <2>1. pc'[t] \in {"clear", "auth"}
    BY <1>5 DEF Listener, TypeOK
  <2> QED
    BY <2>1 DEF OInv, Renews
<1>6. CASE Auth(t) /\ loggedIn
  <2>1. pc'[t] = "topics"
    BY <1>6 DEF Auth, Goto, TypeOK
  <2> QED
    BY <2>1 DEF OInv, Renews
<1>7. CASE Send(t) /\ session = "live"
  <2>1. pc'[t] = "await"
    BY <1>7 DEF Send, Goto, TypeOK
  <2> QED
    BY <2>1 DEF OInv, Renews
<1>8. CASE (Auth(t) /\ ~loggedIn) \/ (Send(t) /\ session # "live") \/ GiveUp(t)
  <2>1. missed'
    BY <1>8 DEF Auth, Send, GiveUp, Fail
  <2> QED
    BY <2>1 DEF OInv, Listening
<1> QED
  BY <1>1, <1>2, <1>3, <1>4, <1>5, <1>6, <1>7, <1>8 DEF Step, Send, TypeOK

\* New settings come with a thread that is still to look at the listener.
LEMMA ReceiveRenews ==
    ASSUME TypeOK, OInv, NEW r \in Readers, Receive(r)
    PROVE  OInv'
<1> DEFINE f == Head(down)
<1>1. pc[r] = "idle" /\ UNCHANGED <<topics, running, missed, task>>
  BY DEF Receive
<1>2. CASE f.kind = "publish"
  <2>1. pc' = [pc EXCEPT ![r] = "publish"] /\ UNCHANGED settings
    BY <1>2 DEF Receive, Goto
  <2>2. pc'[r] = "publish" /\ \A u \in Threads \ {r} : pc'[u] = pc[u]
    BY <2>1 DEF TypeOK
  <2> QED
    BY <1>1, <2>1, <2>2, RenewalStays DEF Renews, StartsAt
<1>3. CASE f.kind = "set" /\ Normal(f.list)
  <2>1. pc'[r] = "listener"
    BY <1>3 DEF Receive, Adopt, TypeOK
  <2> QED
    BY <2>1 DEF OInv, Renews
<1>4. CASE f.kind = "answer"
  <2>1. \A t \in Threads : pc'[t] = pc[t] \/ (pc[t] = "await" /\ pc'[t] \in {"answered", "refused"})
    BY <1>4 DEF Receive, Answer
  <2>2. \A t \in Threads : (Renews(t) => Renews(t)') /\ (StartsAt(t)' => StartsAt(t))
    BY <1>1, <2>1 DEF Renews, StartsAt
  <2>3. UNCHANGED settings
    BY <1>4 DEF Receive
  <2> QED
    BY <1>1, <2>2, <2>3 DEF OInv, Listening
<1>5. CASE ~(f.kind = "publish" \/ (f.kind = "set" /\ Normal(f.list)) \/ f.kind = "answer")
  <2>1. UNCHANGED <<pc, settings>>
    BY <1>5 DEF Receive
  <2> QED
    BY <1>1, <2>1 DEF OInv, Listening, Renews, StartsAt
<1> QED
  BY <1>2, <1>3, <1>4, <1>5

LEMMA RecoveryRenews ==
    ASSUME TypeOK, OInv, RecoveryStep
    PROVE  OInv'
<1>1. CASE Relisten /\ ~running
  <2>1. /\ Return(Recovery) /\ missed' = (missed \/ Starting) /\ UNCHANGED running
        /\ pc'[Recovery] = "idle"
        /\ \A u \in Threads \ {Recovery} : pc'[u] = pc[u] /\ task'[u] = task[u]
    BY <1>1, ReturnIsLocal DEF Relisten, listenVars
  <2>2. (\E u \in Threads : StartsAt(u)') => Starting
    BY <2>1 DEF StartsAt, Starting
  <2> QED
    BY <1>1, <2>1, <2>2 DEF OInv, Listening
<1>2. CASE Relisten /\ running
  <2>1. pc'[Recovery] = "auth"
    BY <1>2 DEF Relisten, Goto, TypeOK
  <2> QED
    BY <2>1 DEF OInv, Renews
<1>3. ASSUME NEW r \in Readers, LoginAgain(r) PROVE OInv'
  <2>1. pc'[Recovery] = "relisten"
    BY <1>3 DEF LoginAgain, Goto, TypeOK
  <2> QED
    BY <2>1 DEF OInv, Renews
<1> QED
  BY <1>1, <1>2, <1>3 DEF RecoveryStep, TypeOK

LEMMA HostRenews ==
    ASSUME TypeOK, OInv, NEW h \in Hosts,
           Start(h) \/ Stop(h) \/ \E l \in Lists : Set(h, l)
    PROVE  OInv'
<1>1. pc'[h] \in {"auth", "clear", "listener"}
  BY DEF Start, Stop, Set, Adopt, Goto, TypeOK
<1> QED
  BY <1>1 DEF OInv, Renews

LEMMA RenewalInductive == TypeOK /\ SInv /\ OInv /\ [Next]_vars => OInv'
<1> SUFFICES ASSUME TypeOK, SInv, OInv, [Next]_vars PROVE OInv'
  OBVIOUS
<1>1. ASSUME NEW r \in Readers, ReaderStep(r) PROVE OInv'
  <2>1. LocalStep(r)
    BY <1>1, OtherLocalSteps
  <2>2. /\ pc[r] \in {"publish", "check", "enqueue"} /\ pc'[r] \in {"check", "enqueue", "idle"}
        /\ UNCHANGED <<settings, topics, running, missed>>
    BY <1>1, ReturnIsLocal DEF ReaderStep, Publish, Check, Enqueue, Goto, TypeOK, listenVars
  <2> QED
    BY <2>1, <2>2, RenewalStays DEF LocalStep, Renews, StartsAt
<1>2. ASSUME UNCHANGED <<settings, running, topics, pc, task, missed>>
      PROVE  OInv'
  BY <1>2 DEF OInv, Listening, Renews, StartsAt
<1>3. CASE \/ MarkLost \/ Drain \/ HubSubscribes \/ Lose \/ UNCHANGED vars
           \/ \E l \in Lists : RemoteSet(l)
           \/ \E t \in Topics : HubPublishes(t)
  BY <1>2, <1>3 DEF MarkLost, Drain, HubSubscribes, Lose, RemoteSet, HubPublishes, vars,
                    listenVars, localVars
<1> QED
  BY <1>1, <1>3, StepRenews, ReceiveRenews, RecoveryRenews, HostRenews
     DEF Next, System, Environment

\* isNotifyTopicEnabled accepts what was subscribed to, whether or not it is enabled: but
\* once the calls, the settings and the logins that overlapped have ended, a running
\* listener has nothing disabled among it, but for a request that failed and for what
\* StartNotify overlapped.
THEOREM DisabledAreForgotten == Spec => []OnlyEnabledHeard
<1>1. Init => AInv /\ SInv /\ OInv
  BY DEF Init, AInv, Past, SInv, On, StartsAt, OInv, Listening
<1>2. SInv /\ OInv => OnlyEnabledHeard
  BY DEF OInv, Listening, Renews, OnlyEnabledHeard, AtRest
<1> QED
  BY <1>1, <1>2, TypeCorrect, AnswersInductive, SubscribedInductive, RenewalInductive, PTL DEF Spec
=============================================================================

--------------------------- MODULE PublishProofs ---------------------------
(***************************************************************************)
(* Theorems of Publish: type correctness, and that the cache is a picture  *)
(* of the hub, for any number of threads, metrics and configurations.      *)
(***************************************************************************)
EXTENDS Publish, TLAPS

\* What a thread's label says of its locals, and which labels it can have.
CollectorLocals == \A c \in Collectors :
    /\ pc[c] \in {"idle", "reporting", "login", "store", "config", "publish", "send"}
    /\ pc[c] \in {"reporting", "login", "store", "config"} => sample[c] # None

RepublisherLocals == \A t \in Hosts \cup {Recovery} :
    /\ pc[t] \in {"idle", "force", "forget", "reporting", "login", "config", "metrics", "publish", "send"}
    /\ pc[t] = "metrics" => view[t] # None

ReaderLocals == \A r \in Readers :
    /\ pc[r] \in {"idle", "frameLogin", "frameConfig", "shadow", "correct", "publish", "send"}
    /\ pc[r] \in {"frameLogin", "frameConfig", "shadow", "correct"} => frame[r] # None
    /\ pc[r] \in {"shadow", "correct"} => view[r] # None

Locals ==
    /\ \A t \in Threads : pc[t] = "send" => out[t] # None
    /\ CollectorLocals /\ RepublisherLocals /\ ReaderLocals

\* The last frame for m in a queue carries p.
LastIs(q, m, p) ==
    \E i \in 1..Len(q) : /\ q[i].var = m /\ q[i].pub = p
                         /\ \A j \in 1..Len(q) : j > i => q[j].var # m

\* While changes come from the hub, none goes there, and the newest is the hub's.
HubLeads(m) ==
    FromHub(m) =>
        /\ Sending(m) = {} /\ ~OnWire(m)
        /\ \A r1, r2 \in Readers : Holds(r1, m) /\ Holds(r2, m) => r1 = r2
        /\ InQueue(down, m) => LastIs(down, m, hub[m])
        /\ ~InQueue(down, m) => \A r \in Readers : Holds(r, m) => frame[r].pub = hub[m]

\* While no change comes from the hub, the newest request on its way there, or else
\* the hub itself, has the value of the cache.
CacheLeads(m) ==
    cache[m] # None /\ ~FromHub(m) =>
        /\ \A t \in Sending(m) : Sending(m) = {t} /\ out[t].pub = cache[m]
        /\ Sending(m) = {} /\ OnWire(m) => LastIs(up, m, cache[m])
        /\ Sending(m) = {} /\ ~OnWire(m) => hub[m] = cache[m]

Synced == session = "live" /\ loggedIn /\ pc[Recovery] \notin {"force", "forget"}

Tracked == Synced => \A m \in Metrics \ adrift : HubLeads(m) /\ CacheLeads(m)

IInv == TypeOK /\ Locals /\ Tracked

-----------------------------------------------------------------------------
\* Types.

\* transformMetricValue and publishVar's request are well typed.
LEMMA PubOfType ==
    ASSUME NEW m \in Metrics, NEW raw \in Raw, NEW c \in Configs
    PROVE  PubOf(m, raw, c) \in Pubs
  BY PublishAssumption DEF PubOf, Shown, Pubs, Values, AllConfigs

\* None is nothing else, and the empty list is a list.
LEMMA NullTypes ==
    /\ NoJob \in Jobs /\ None \notin Pubs /\ None \notin Requests /\ None \notin Raw
    /\ None \notin Configs /\ NoJob \in [Metrics -> Raw \cup {None}]
  BY PublishAssumption DEF NoJob, Jobs, Values

\* Begin, the common end of the steps that put a list together.
LEMMA BeginType ==
    ASSUME TypeOK, NEW t \in Threads, NEW list \in Jobs, Begin(t, list)
    PROVE  /\ pc' \in [Threads -> Labels] /\ view' \in [Threads -> Configs \cup {None}]
           /\ job' \in [Threads -> Jobs]
           /\ \A u \in Threads : u # t => pc'[u] = pc[u] /\ view'[u] = view[u]
           /\ pc'[t] \in {"idle", "publish"}
  BY NullTypes DEF Begin, Return, TypeOK, Labels

\* The count of events.
LEMMA EventType ==
    ASSUME TypeOK, NEW e \in Events, Event(e)
    PROVE  used' \in [Events -> Nat]
  BY DEF Event, TypeOK

\* The initial states.
LEMMA InitTyped == Init => TypeOK /\ Locals
<1> SUFFICES ASSUME Init PROVE TypeOK /\ Locals
    OBVIOUS
<1>1. TypeOK
  <2>1. cfg \in Configs
    BY PublishAssumption DEF Init
  <2>2. up \in Seq(Requests) /\ down \in Seq(Requests)
    BY DEF Init
  <2>3. last \in [Metrics -> Raw \cup {None}] /\ command \in [Metrics -> Raw \cup {None}]
    BY NullTypes DEF Init
  <2>4. cache \in [Metrics -> Pubs \cup {None}] /\ hub \in [Metrics -> Pubs \cup {None}]
    BY NullTypes DEF Init, Jobs
  <2>5. job \in [Threads -> Jobs]
    BY NullTypes DEF Init
  <2>6. used \in [Events -> Nat]
    BY DEF Init
  <2>7. pc \in [Threads -> Labels]
    BY DEF Init, Labels
  <2> QED
    BY <2>1, <2>2, <2>3, <2>4, <2>5, <2>6, <2>7 DEF Init, TypeOK
<1>2. Locals
  <2>1. \A t \in Threads : pc[t] = "idle"
    BY DEF Init
  <2> QED
    BY <2>1 DEF Locals, CollectorLocals, RepublisherLocals, ReaderLocals, Threads
<1> QED
    BY <1>1, <1>2

\* The collectors' own steps.
LEMMA CollectorTyped ==
    ASSUME TypeOK, Locals, NEW c \in Collectors,
           Sample(c) \/ Store(c) \/ BindSample(c)
    PROVE  TypeOK' /\ Locals'
<1>0. c \in Threads /\ Feeds[c] \in Metrics /\ c \notin Hosts \cup {Recovery} /\ c \notin Readers
    BY PublishAssumption, ThreadsAssumption DEF Threads
<1>1. CASE Sample(c)
  <2>1. TypeOK'
    BY <1>0, <1>1 DEF Sample, Goto, TypeOK, Labels, nodeVars, hubVars
  <2>2. Locals'
    BY <1>0, <1>1, NullTypes DEF Sample, Goto, TypeOK, Locals, CollectorLocals, RepublisherLocals,
       ReaderLocals, Threads, nodeVars, hubVars
  <2> QED
    BY <2>1, <2>2
<1>2. CASE Store(c)
  <2>0. sample[c] \in Raw
    BY <1>2 DEF Store, Goto, TypeOK, Locals, CollectorLocals
  <2>1. TypeOK'
    BY <1>0, <1>2, <2>0 DEF Store, Goto, TypeOK, Labels, hubVars
  <2>2. Locals'
    BY <1>0, <1>2 DEF Store, Goto, TypeOK, Locals, CollectorLocals, RepublisherLocals,
       ReaderLocals, Threads, hubVars
  <2> QED
    BY <2>1, <2>2
<1>3. CASE BindSample(c)
  <2> DEFINE m == Feeds[c]
             list == IF m \in cfg.bound
                     THEN [NoJob EXCEPT ![m] = PubOf(m, sample[c], cfg)] ELSE NoJob
  <2>0. sample[c] \in Raw /\ cfg \in Configs
    BY <1>3 DEF BindSample, TypeOK, Locals, CollectorLocals
  <2>1. PubOf(m, sample[c], cfg) \in Pubs
    BY <1>0, <2>0, PubOfType
  <2>2. list \in Jobs
    BY <2>1, NullTypes DEF Jobs, NoJob
  <2>3. Begin(c, list)
    BY <1>3 DEF BindSample
  <2> HIDE DEF list
  <2>4. /\ pc' \in [Threads -> Labels] /\ view' \in [Threads -> Configs \cup {None}]
        /\ job' \in [Threads -> Jobs]
        /\ \A u \in Threads : u # c => pc'[u] = pc[u] /\ view'[u] = view[u]
        /\ pc'[c] \in {"idle", "publish"}
    BY <1>0, <2>2, <2>3, BeginType
  <2>5. TypeOK'
    BY <1>3, <2>4 DEF BindSample, TypeOK, nodeVars, hubVars
  <2>6. Locals'
    BY <1>0, <1>3, <2>4 DEF BindSample, Locals, CollectorLocals, RepublisherLocals,
       ReaderLocals, Threads, nodeVars, hubVars
  <2> QED
    BY <2>5, <2>6
<1> QED
    BY <1>1, <1>2, <1>3

\* publishVar.
LEMMA PublishTyped ==
    ASSUME TypeOK, Locals, NEW t \in Threads, PublishStep(t)
    PROVE  TypeOK' /\ Locals'
<1>0. job[t] \in Jobs
    BY DEF TypeOK
<1>1. ASSUME NEW m \in Metrics, Publish(t, m)
      PROVE  TypeOK' /\ Locals'
  <2> USE <1>1
  <2>0. job[t][m] \in Pubs /\ [job[t] EXCEPT ![m] = None] \in Jobs
    BY <1>0 DEF Publish, Jobs
  <2>1. CASE cache[m] = job[t][m]
    <3>1. Begin(t, [job[t] EXCEPT ![m] = None])
      BY <2>1 DEF Publish
    <3>2. /\ pc' \in [Threads -> Labels] /\ view' \in [Threads -> Configs \cup {None}]
          /\ job' \in [Threads -> Jobs]
          /\ \A u \in Threads : u # t => pc'[u] = pc[u] /\ view'[u] = view[u]
          /\ pc'[t] \in {"idle", "publish"}
      BY <2>0, <3>1, BeginType
    <3>3. TypeOK'
      BY <2>1, <3>2 DEF Publish, TypeOK, hubVars
    <3>4. Locals'
      BY <2>1, <3>2 DEF Publish, Locals, CollectorLocals, RepublisherLocals, ReaderLocals,
         Threads, hubVars
    <3> QED
      BY <3>3, <3>4
  <2>2. CASE cache[m] # job[t][m]
    <3> DEFINE request == [var |-> m, pub |-> job[t][m]]
    <3>1. request \in Requests /\ request # None
      BY <2>0, NullTypes DEF Requests
    <3>2. /\ cache' = [cache EXCEPT ![m] = job[t][m]]
          /\ out' = [out EXCEPT ![t] = request]
          /\ job' = [job EXCEPT ![t][m] = None]
          /\ pc' = [pc EXCEPT ![t] = "send"]
          /\ adrift' \in {adrift, adrift \cup {m}}
          /\ UNCHANGED <<view, cfg, reporting, loggedIn, last, command, device, hubVars,
                         sample, frame, used>>
      BY <2>2 DEF Publish
    <3> HIDE DEF request
    <3>3. job' \in [Threads -> Jobs]
      BY <1>0, <3>2 DEF TypeOK, Jobs
    <3>4. TypeOK'
      BY <2>0, <3>1, <3>2, <3>3 DEF TypeOK, hubVars, Labels
    <3>5. Locals'
      BY <3>1, <3>2 DEF TypeOK, Locals, CollectorLocals, RepublisherLocals, ReaderLocals,
         Threads, hubVars
    <3> QED
      BY <3>4, <3>5
  <2> QED
    BY <2>1, <2>2
<1>2. ASSUME Send(t)
      PROVE  TypeOK' /\ Locals'
  <2> USE <1>2
  <2>1. out[t] \in Requests /\ Begin(t, job[t])
    BY NullTypes DEF Send, TypeOK, Locals
  <2>2. /\ pc' \in [Threads -> Labels] /\ view' \in [Threads -> Configs \cup {None}]
        /\ job' \in [Threads -> Jobs]
        /\ \A u \in Threads : u # t => pc'[u] = pc[u] /\ view'[u] = view[u]
        /\ pc'[t] \in {"idle", "publish"}
    BY <1>0, <2>1, BeginType
  <2>3. up' \in Seq(Requests)
    BY <2>1 DEF Send, TypeOK
  <2>4. TypeOK'
    BY <2>2, <2>3 DEF Send, TypeOK, nodeVars
  <2>5. Locals'
    BY <2>2 DEF Send, TypeOK, Locals, CollectorLocals, RepublisherLocals, ReaderLocals,
       Threads, nodeVars
  <2> QED
    BY <2>4, <2>5
<1> QED
    BY <1>1, <1>2 DEF PublishStep

\* The conditions that updates and republications begin with.
LEMMA CheckTyped ==
    ASSUME TypeOK, Locals, NEW t \in Collectors \cup Hosts \cup {Recovery},
           CheckReporting(t) \/ CheckLogin(t)
    PROVE  TypeOK' /\ Locals'
<1>0. t \in Threads /\ t \notin Readers /\ pc[t] \in {"reporting", "login"}
    BY ThreadsAssumption DEF Threads, CheckReporting, CheckLogin, Goto
<1>1. PICK to \in {"idle", "login", "store", "config"} :
        /\ pc' = [pc EXCEPT ![t] = to]
        /\ to = "store" => t \in Collectors
    BY DEF CheckReporting, CheckLogin, Goto
<1>2. UNCHANGED <<nodeVars, device, hubVars, sample, frame, view, job, out, used, adrift>>
    BY DEF CheckReporting, CheckLogin
<1>3. TypeOK'
    BY <1>0, <1>1, <1>2 DEF TypeOK, Labels, nodeVars, hubVars
<1>4. Locals'
    BY <1>0, <1>1, <1>2, ThreadsAssumption
    DEF TypeOK, Locals, CollectorLocals, RepublisherLocals, ReaderLocals, Threads, nodeVars, hubVars
<1> QED
    BY <1>3, <1>4

\* The rest of a republication.
LEMMA RepublishTyped ==
    ASSUME TypeOK, Locals, NEW t \in Hosts \cup {Recovery}, Snapshot(t) \/ CopyMetrics(t)
    PROVE  TypeOK' /\ Locals'
<1>0. t \in Threads /\ t \notin Readers /\ t \notin Collectors
    BY ThreadsAssumption DEF Threads
<1>1. CASE Snapshot(t)
  <2>0. cfg \in Configs /\ cfg # None
    BY NullTypes DEF TypeOK
  <2>1. TypeOK'
    BY <1>0, <1>1, <2>0 DEF Snapshot, Goto, TypeOK, Labels, nodeVars, hubVars
  <2>2. Locals'
    BY <1>0, <1>1, <2>0 DEF Snapshot, Goto, TypeOK, Locals, CollectorLocals, RepublisherLocals,
       ReaderLocals, Threads, nodeVars, hubVars
  <2> QED
    BY <2>1, <2>2
<1>2. CASE CopyMetrics(t)
  <2> DEFINE list == [m \in Metrics |-> IF m \in view[t].bound /\ last[m] # None
                                        THEN PubOf(m, last[m], view[t]) ELSE None]
  <2>1. view[t] \in Configs
    BY <1>0, <1>2, NullTypes DEF CopyMetrics, TypeOK, Locals, RepublisherLocals
  <2>2. ASSUME NEW m \in Metrics PROVE list[m] \in Pubs \cup {None}
    <3>1. last[m] \in Raw \cup {None}
      BY DEF TypeOK
    <3> QED
      BY <2>1, <3>1, PubOfType
  <2>3. list \in Jobs
    BY <2>2 DEF Jobs
  <2>4. Begin(t, list)
    BY <1>2 DEF CopyMetrics
  <2> HIDE DEF list
  <2>5. /\ pc' \in [Threads -> Labels] /\ view' \in [Threads -> Configs \cup {None}]
        /\ job' \in [Threads -> Jobs]
        /\ \A u \in Threads : u # t => pc'[u] = pc[u] /\ view'[u] = view[u]
        /\ pc'[t] \in {"idle", "publish"}
    BY <1>0, <2>3, <2>4, BeginType
  <2>6. TypeOK'
    BY <1>2, <2>5 DEF CopyMetrics, TypeOK, nodeVars, hubVars
  <2>7. Locals'
    BY <1>0, <1>2, <2>5 DEF CopyMetrics, Locals, CollectorLocals, RepublisherLocals,
       ReaderLocals, Threads, nodeVars, hubVars
  <2> QED
    BY <2>6, <2>7
<1> QED
    BY <1>1, <1>2

\* What starts a republication.
LEMMA StartRepublishTyped ==
    ASSUME TypeOK, Locals,
           (\E h \in Hosts, c \in Configs : SetConfig(h, c)) \/ LoginAgain
            \/ CheckForce \/ ForceRepublish
    PROVE  TypeOK' /\ Locals'
<1>0. Recovery \in Threads /\ Recovery \notin Readers /\ Recovery \notin Collectors
    BY ThreadsAssumption DEF Threads
<1>1. ASSUME NEW h \in Hosts, NEW c \in Configs, SetConfig(h, c)
      PROVE  TypeOK' /\ Locals'
  <2> USE <1>1
  <2>0. h \in Threads /\ h \notin Readers /\ h \notin Collectors
    BY ThreadsAssumption DEF Threads
  <2>1. used' \in [Events -> Nat]
    BY EventType DEF SetConfig, Events
  <2>2. TypeOK'
    BY <2>0, <2>1 DEF SetConfig, Goto, TypeOK, Labels, hubVars
  <2>3. Locals'
    BY <2>0 DEF SetConfig, Goto, TypeOK, Locals, CollectorLocals, RepublisherLocals,
       ReaderLocals, Threads, hubVars
  <2> QED
    BY <2>2, <2>3
<1>2. ASSUME LoginAgain PROVE TypeOK' /\ Locals'
  <2>1. TypeOK'
    BY <1>0, <1>2 DEF LoginAgain, Goto, TypeOK, Labels
  <2>2. Locals'
    BY <1>0, <1>2 DEF LoginAgain, Goto, TypeOK, Locals, CollectorLocals, RepublisherLocals,
       ReaderLocals, Threads
  <2> QED
    BY <2>1, <2>2
<1>3. ASSUME CheckForce \/ ForceRepublish PROVE TypeOK' /\ Locals'
  <2>1. PICK to \in {"idle", "forget", "reporting"} : pc' = [pc EXCEPT ![Recovery] = to]
    BY <1>3 DEF CheckForce, ForceRepublish, Goto
  <2>2. /\ cache' \in {cache, NoJob} /\ (adrift' = adrift \/ adrift' \subseteq Metrics)
        /\ UNCHANGED <<cfg, reporting, loggedIn, last, command, device, hubVars,
                       sample, frame, view, job, out, used>>
    BY <1>3 DEF CheckForce, ForceRepublish, nodeVars
  <2>3. TypeOK'
    BY <1>0, <2>1, <2>2, NullTypes DEF TypeOK, Labels, hubVars, Jobs
  <2>4. Locals'
    BY <1>0, <2>1, <2>2 DEF TypeOK, Locals, CollectorLocals, RepublisherLocals, ReaderLocals,
       Threads, hubVars
  <2> QED
    BY <2>3, <2>4
<1> QED
    BY <1>1, <1>2, <1>3

\* A frame in a reader's hands.
LEMMA FrameType ==
    ASSUME TypeOK, Locals, NEW r \in Readers,
           pc[r] \in {"frameLogin", "frameConfig", "shadow", "correct"}
    PROVE  /\ frame[r] \in Requests /\ frame[r].var \in Metrics /\ frame[r].pub \in Pubs
           /\ pc[r] \in {"shadow", "correct"} => view[r] \in Configs
  BY NullTypes DEF TypeOK, Locals, ReaderLocals, Requests, Threads

\* Returning is beginning with nothing.
LEMMA ReturnIsBegin ==
    ASSUME NEW t, Return(t)
    PROVE  Begin(t, NoJob)
  BY DEF Begin

\* handleVarStoreNotifySet.
LEMMA ReaderTyped ==
    ASSUME TypeOK, Locals, NEW r \in Readers, ReaderStep(r)
    PROVE  TypeOK' /\ Locals'
<1>0. r \in Threads /\ r \notin Hosts \cup {Recovery} /\ r \notin Collectors
    BY ThreadsAssumption DEF Threads
<1>1. CASE Receive(r)
  <2>0. down \in Seq(Requests) /\ down # <<>>
    BY <1>1 DEF Receive, TypeOK
  <2>1. Head(down) \in Requests /\ Tail(down) \in Seq(Requests) /\ Head(down).var \in Metrics
    <3>1. Head(down) \in Requests /\ Tail(down) \in Seq(Requests)
      BY <2>0
    <3> QED
      BY <3>1 DEF Requests
  <2>2. adrift' \in SUBSET Metrics
    BY <1>1, <2>1 DEF Receive, TypeOK
  <2>3. TypeOK'
    BY <1>0, <1>1, <2>1, <2>2 DEF Receive, Goto, TypeOK, Labels, nodeVars
  <2>4. Locals'
    BY <1>0, <1>1, <2>1, NullTypes DEF Receive, Goto, TypeOK, Locals, CollectorLocals,
       RepublisherLocals, ReaderLocals, Threads, nodeVars
  <2> QED
    BY <2>3, <2>4
<1>2. ASSUME pc[r] \in {"frameLogin", "frameConfig"}, Ignore(r),
             UNCHANGED <<nodeVars, device, hubVars, sample, out, used>>
      PROVE  TypeOK' /\ Locals'
  <2>1. frame[r].var \in Metrics
    BY <1>2, FrameType
  <2>2. Begin(r, NoJob)
    BY <1>2, ReturnIsBegin DEF Ignore
  <2>3. /\ pc' \in [Threads -> Labels] /\ view' \in [Threads -> Configs \cup {None}]
        /\ job' \in [Threads -> Jobs]
        /\ \A u \in Threads : u # r => pc'[u] = pc[u] /\ view'[u] = view[u]
        /\ pc'[r] \in {"idle", "publish"}
    BY <1>0, <2>2, NullTypes, BeginType
  <2>4. TypeOK'
    BY <1>2, <2>1, <2>3 DEF Ignore, TypeOK, nodeVars, hubVars
  <2>5. Locals'
    BY <1>0, <1>2, <2>3 DEF Ignore, TypeOK, Locals, CollectorLocals, RepublisherLocals,
       ReaderLocals, Threads, nodeVars, hubVars
  <2> QED
    BY <2>4, <2>5
<1>3. CASE FrameLogin(r) /\ loggedIn
  <2>1. /\ pc' = [pc EXCEPT ![r] = "frameConfig"]
        /\ UNCHANGED <<frame, view, job, adrift, nodeVars, device, hubVars, sample, out, used>>
        /\ pc[r] = "frameLogin"
    BY <1>3 DEF FrameLogin, Goto
  <2>2. TypeOK'
    BY <1>0, <2>1 DEF TypeOK, Labels, nodeVars, hubVars
  <2>3. Locals'
    BY <1>0, <2>1 DEF TypeOK, Locals, CollectorLocals, RepublisherLocals, ReaderLocals,
       Threads, nodeVars, hubVars
  <2> QED
    BY <2>2, <2>3
<1>4. CASE FrameConfig(r) /\ frame[r].var \in cfg.bound
  <2>1. /\ pc' = [pc EXCEPT ![r] = "shadow"] /\ view' = [view EXCEPT ![r] = cfg]
        /\ UNCHANGED <<frame, job, adrift, nodeVars, device, hubVars, sample, out, used>>
        /\ pc[r] = "frameConfig"
    BY <1>4 DEF FrameConfig, Goto
  <2>2. cfg \in Configs /\ cfg # None
    BY NullTypes DEF TypeOK
  <2>3. TypeOK'
    BY <1>0, <2>1, <2>2 DEF TypeOK, Labels, nodeVars, hubVars
  <2>4. Locals'
    BY <1>0, <2>1, <2>2 DEF TypeOK, Locals, CollectorLocals, RepublisherLocals, ReaderLocals,
       Threads, nodeVars, hubVars
  <2> QED
    BY <2>3, <2>4
<1>5. CASE Shadow(r)
  <2> DEFINE m == frame[r].var
  <2>1. m \in Metrics /\ frame[r].pub \in Pubs /\ pc[r] = "shadow"
    BY <1>5, FrameType DEF Shadow
  <2>2. cache' = [cache EXCEPT ![m] = frame[r].pub]
    BY <1>5 DEF Shadow
  <2>3. UNCHANGED <<cfg, reporting, loggedIn, last, device, hubVars, sample, out, used, adrift>>
    BY <1>5 DEF Shadow
  <2>4. CASE m \in view[r].writable
    <3>1. /\ command' = IF frame[r].pub.value \in Raw
                        THEN [command EXCEPT ![m] = frame[r].pub.value] ELSE command
          /\ frame' = [frame EXCEPT ![r] = None] /\ Return(r)
      BY <1>5, <2>4 DEF Shadow
    <3>2. /\ pc' \in [Threads -> Labels] /\ view' \in [Threads -> Configs \cup {None}]
          /\ job' \in [Threads -> Jobs]
          /\ \A u \in Threads : u # r => pc'[u] = pc[u] /\ view'[u] = view[u]
          /\ pc'[r] \in {"idle", "publish"}
      BY <1>0, <3>1, NullTypes, BeginType, ReturnIsBegin
    <3>3. command' \in [Metrics -> Raw \cup {None}]
      BY <2>1, <3>1 DEF TypeOK
    <3>4. TypeOK'
      BY <2>1, <2>2, <2>3, <3>1, <3>2, <3>3 DEF TypeOK, hubVars
    <3>5. Locals'
      BY <1>0, <2>3, <3>1, <3>2 DEF TypeOK, Locals, CollectorLocals, RepublisherLocals,
         ReaderLocals, Threads, hubVars
    <3> QED
      BY <3>4, <3>5
  <2>5. CASE m \notin view[r].writable
    <3>1. pc' = [pc EXCEPT ![r] = "correct"] /\ UNCHANGED <<command, frame, view, job>>
      BY <1>5, <2>5 DEF Shadow, Goto
    <3>2. TypeOK'
      BY <1>0, <2>1, <2>2, <2>3, <3>1 DEF TypeOK, hubVars, Labels
    <3>3. Locals'
      BY <1>0, <2>1, <2>3, <3>1 DEF TypeOK, Locals, CollectorLocals, RepublisherLocals,
         ReaderLocals, Threads, hubVars
    <3> QED
      BY <3>2, <3>3
  <2> QED
    BY <2>4, <2>5
<1>6. CASE Correct(r)
  <2> DEFINE m == frame[r].var
             list == IF last[m] # None /\ Shown(m, last[m], view[r]) # frame[r].pub.value
                     THEN [NoJob EXCEPT ![m] = PubOf(m, last[m], view[r])] ELSE NoJob
  <2>1. m \in Metrics /\ view[r] \in Configs
    BY <1>6, FrameType DEF Correct
  <2>2. last[m] # None => PubOf(m, last[m], view[r]) \in Pubs
    BY <2>1, PubOfType DEF TypeOK
  <2>3. list \in Jobs
    BY <2>1, <2>2, NullTypes DEF Jobs, NoJob
  <2>4. Begin(r, list) /\ frame' = [frame EXCEPT ![r] = None]
    BY <1>6 DEF Correct
  <2> HIDE DEF list
  <2>5. /\ pc' \in [Threads -> Labels] /\ view' \in [Threads -> Configs \cup {None}]
        /\ job' \in [Threads -> Jobs]
        /\ \A u \in Threads : u # r => pc'[u] = pc[u] /\ view'[u] = view[u]
        /\ pc'[r] \in {"idle", "publish"}
    BY <1>0, <2>3, <2>4, BeginType
  <2>6. TypeOK'
    BY <1>6, <2>4, <2>5 DEF Correct, TypeOK, nodeVars, hubVars
  <2>7. Locals'
    BY <1>0, <1>6, <2>4, <2>5 DEF Correct, TypeOK, Locals, CollectorLocals, RepublisherLocals,
       ReaderLocals, Threads, nodeVars, hubVars
  <2> QED
    BY <2>6, <2>7
<1>7. CASE FrameLogin(r) /\ ~loggedIn
    BY <1>2, <1>7 DEF FrameLogin
<1>8. CASE FrameConfig(r) /\ frame[r].var \notin cfg.bound
    BY <1>2, <1>8 DEF FrameConfig
<1> QED
    BY <1>1, <1>3, <1>4, <1>5, <1>6, <1>7, <1>8 DEF ReaderStep

\* The rest of the runtime, the network, the hub and the device.
Outside ==
    \/ StartReporting \/ StopReporting \/ MarkLost \/ Deliver \/ Lose
    \/ \E m \in Metrics : ApplyCommand(m)
    \/ \E m \in Metrics, raw \in Raw : DeviceChanges(m, raw)
    \/ \E m \in Metrics, x \in Raw, vis \in Visibilities :
           RemoteSet(m, [value |-> x, visibility |-> vis])

LEMMA HeadTail ==
    ASSUME NEW q \in Seq(Requests), q # <<>>
    PROVE  Head(q) \in Requests /\ Tail(q) \in Seq(Requests)
  OBVIOUS

LEMMA OutsideTyped ==
    ASSUME TypeOK, Locals, Outside
    PROVE  TypeOK' /\ Locals'
<1>1. CASE StartReporting
  <2>1. sample' \in [Collectors -> Raw \cup {None}]
    BY <1>1 DEF StartReporting, TypeOK
  <2>2. \A c \in Collectors : pc[c] # "idle" => sample'[c] = sample[c]
    BY <1>1 DEF StartReporting
  <2> QED
    BY <1>1, <2>1, <2>2 DEF StartReporting, TypeOK, Locals, CollectorLocals, RepublisherLocals,
       ReaderLocals, hubVars
<1>2. CASE StopReporting
  <2>1. used' \in [Events -> Nat]
    BY <1>2, EventType DEF StopReporting, Events
  <2> QED
    BY <1>2, <2>1 DEF StopReporting, TypeOK, Locals, CollectorLocals, RepublisherLocals,
       ReaderLocals, hubVars, localVars
<1>3. CASE MarkLost
    BY <1>3 DEF MarkLost, TypeOK, Locals, CollectorLocals, RepublisherLocals, ReaderLocals,
       hubVars, localVars
<1>4. CASE Deliver
  <2>1. Head(up) \in Requests /\ Tail(up) \in Seq(Requests)
    BY <1>4, HeadTail DEF Deliver, TypeOK
  <2>2. hub' \in [Metrics -> Pubs \cup {None}]
    BY <1>4, <2>1 DEF Deliver, TypeOK, Requests
  <2> QED
    BY <1>4, <2>1, <2>2 DEF Deliver, TypeOK, Locals, CollectorLocals, RepublisherLocals,
       ReaderLocals, nodeVars, localVars
<1>5. CASE Lose
  <2>1. used' \in [Events -> Nat]
    BY <1>5, EventType DEF Lose, Events
  <2>2. hub' \in [Metrics -> Pubs \cup {None}]
    BY <1>5, NullTypes DEF Lose, TypeOK, Jobs
  <2>3. up' \in Seq(Requests) /\ down' \in Seq(Requests)
    BY <1>5 DEF Lose
  <2> QED
    BY <1>5, <2>1, <2>2, <2>3 DEF Lose, TypeOK, Locals, CollectorLocals, RepublisherLocals,
       ReaderLocals, nodeVars, localVars
<1>6. ASSUME NEW m \in Metrics, ApplyCommand(m)
      PROVE  TypeOK' /\ Locals'
  <2>1. device' \in [Metrics -> Raw] /\ command' \in [Metrics -> Raw \cup {None}]
    BY <1>6 DEF ApplyCommand, TypeOK
  <2> QED
    BY <1>6, <2>1 DEF ApplyCommand, TypeOK, Locals, CollectorLocals, RepublisherLocals,
       ReaderLocals, hubVars, localVars
<1>7. ASSUME NEW m \in Metrics, NEW raw \in Raw, DeviceChanges(m, raw)
      PROVE  TypeOK' /\ Locals'
  <2>1. used' \in [Events -> Nat]
    BY <1>7, EventType DEF DeviceChanges, Events
  <2> QED
    BY <1>7, <2>1 DEF DeviceChanges, TypeOK, Locals, CollectorLocals, RepublisherLocals,
       ReaderLocals, nodeVars, hubVars, localVars
<1>8. ASSUME NEW m \in Metrics, NEW p \in Pubs, RemoteSet(m, p)
      PROVE  TypeOK' /\ Locals'
  <2>1. used' \in [Events -> Nat]
    BY <1>8, EventType DEF RemoteSet, Events
  <2>2. [var |-> m, pub |-> p] \in Requests
    BY DEF Requests
  <2>3. down' \in Seq(Requests)
    BY <1>8, <2>2 DEF RemoteSet, TypeOK
  <2>4. hub' \in [Metrics -> Pubs \cup {None}] /\ adrift' \in SUBSET Metrics
    BY <1>8 DEF RemoteSet, TypeOK
  <2> QED
    BY <1>8, <2>1, <2>3, <2>4 DEF RemoteSet, TypeOK, Locals, CollectorLocals, RepublisherLocals,
       ReaderLocals, nodeVars, localVars
<1>9. \A x \in Raw, vis \in Visibilities : [value |-> x, visibility |-> vis] \in Pubs
    BY DEF Pubs, Values
<1> QED
    BY <1>1, <1>2, <1>3, <1>4, <1>5, <1>6, <1>7, <1>8, <1>9 DEF Outside

\* The steps, in the groups the lemmas are about.
LEMMA NextSplits ==
    Next =>
        \/ \E c \in Collectors : Sample(c) \/ Store(c) \/ BindSample(c)
        \/ \E t \in Threads : PublishStep(t)
        \/ \E t \in Collectors \cup Hosts \cup {Recovery} : CheckReporting(t) \/ CheckLogin(t)
        \/ \E t \in Hosts \cup {Recovery} : Snapshot(t) \/ CopyMetrics(t)
        \/ (\E h \in Hosts, c \in Configs : SetConfig(h, c)) \/ LoginAgain
            \/ CheckForce \/ ForceRepublish
        \/ \E r \in Readers : ReaderStep(r)
        \/ Outside
  BY DEF Next, System, Environment, CollectorStep, RepublishStep, RecoveryStep, Outside

\* Every step keeps types and locals.
LEMMA StepTyped ==
    ASSUME TypeOK, Locals, [Next]_vars
    PROVE  TypeOK' /\ Locals'
<1>1. CASE Next
    BY <1>1, NextSplits, CollectorTyped, PublishTyped, CheckTyped, RepublishTyped,
       StartRepublishTyped, ReaderTyped, OutsideTyped
<1>2. CASE UNCHANGED vars
    BY <1>2 DEF vars, nodeVars, hubVars, localVars, TypeOK, Locals, CollectorLocals,
       RepublisherLocals, ReaderLocals
<1> QED
    BY <1>1, <1>2

\* TypeOK is an invariant, together with what a thread's label says of its locals:
\* no thread uses a snapshot, a frame or a request that it has not taken.
THEOREM TypeCorrect == Spec => [](TypeOK /\ Locals)
<1>1. Init => TypeOK /\ Locals
    BY InitTyped
<1>2. TypeOK /\ Locals /\ [Next]_vars => (TypeOK /\ Locals)'
    BY StepTyped
<1> QED
    BY <1>1, <1>2, PTL DEF Spec

-----------------------------------------------------------------------------
\* The cache as a picture of the hub.

\* What Append does to the frames of one variable.
LEMMA AppendFrames ==
    ASSUME NEW q \in Seq(Requests), NEW x \in Requests, NEW m
    PROVE  /\ x.var = m => InQueue(Append(q, x), m) /\ LastIs(Append(q, x), m, x.pub)
           /\ x.var # m => /\ InQueue(Append(q, x), m) <=> InQueue(q, m)
                           /\ \A p : LastIs(q, m, p) => LastIs(Append(q, x), m, p)
<1>1. /\ Len(q) \in Nat /\ Len(Append(q, x)) = Len(q) + 1
      /\ Append(q, x)[Len(q) + 1] = x
      /\ \A i \in 1..Len(q) : Append(q, x)[i] = q[i]
    OBVIOUS
<1> DEFINE a == Append(q, x)
<1>2. \A i \in 1..Len(a) : i = Len(q) + 1 \/ i \in 1..Len(q)
    BY <1>1
<1>3. \A i \in 1..Len(q) : i \in 1..Len(a) /\ i < Len(q) + 1
    BY <1>1
<1>4. Len(q) + 1 \in 1..Len(a) /\ \A j \in 1..Len(a) : ~(j > Len(q) + 1)
    BY <1>1
<1> HIDE DEF a
<1>5. CASE x.var = m
    BY <1>1, <1>4, <1>5 DEF InQueue, LastIs, a
<1>6. CASE x.var # m
  <2>1. InQueue(a, m) <=> InQueue(q, m)
    BY <1>1, <1>2, <1>3, <1>6 DEF InQueue, a
  <2>2. ASSUME NEW p, LastIs(q, m, p) PROVE LastIs(a, m, p)
    <3>1. PICK i \in 1..Len(q) : /\ q[i].var = m /\ q[i].pub = p
                                 /\ \A j \in 1..Len(q) : j > i => q[j].var # m
      BY <2>2 DEF LastIs
    <3>2. i \in 1..Len(a) /\ a[i].var = m /\ a[i].pub = p
      BY <1>1, <1>3, <3>1 DEF a
    <3>3. ASSUME NEW j \in 1..Len(a), j > i PROVE a[j].var # m
      BY <1>1, <1>2, <1>6, <3>1, <3>3 DEF a
    <3> QED
      BY <3>2, <3>3 DEF LastIs
  <2> QED
    BY <1>6, <2>1, <2>2 DEF a
<1> QED
    BY <1>5, <1>6

\* And what Tail does.
LEMMA TailFrames ==
    ASSUME NEW q \in Seq(Requests), q # <<>>, NEW m
    PROVE  /\ InQueue(q, m) <=> Head(q).var = m \/ InQueue(Tail(q), m)
           /\ \A p : LastIs(q, m, p) =>
                  IF InQueue(Tail(q), m) THEN LastIs(Tail(q), m, p)
                  ELSE Head(q).var = m /\ Head(q).pub = p
<1> DEFINE a == Tail(q)
<1>1. /\ Len(q) \in Nat \ {0} /\ Len(a) = Len(q) - 1 /\ Head(q) = q[1]
      /\ \A i \in 1..Len(a) : a[i] = q[i + 1]
    OBVIOUS
<1>2. \A i \in 1..Len(q) : i = 1 \/ (i - 1 \in 1..Len(a) /\ (i - 1) + 1 = i /\ a[i - 1] = q[i])
    BY <1>1
<1>3. 1 \in 1..Len(q) /\ \A i \in 1..Len(a) : i + 1 \in 1..Len(q)
    BY <1>1
<1> HIDE DEF a
<1>4. InQueue(q, m) <=> Head(q).var = m \/ InQueue(a, m)
    BY <1>1, <1>2, <1>3 DEF InQueue
<1>5. ASSUME NEW p, LastIs(q, m, p)
      PROVE  IF InQueue(a, m) THEN LastIs(a, m, p) ELSE Head(q).var = m /\ Head(q).pub = p
  <2>1. PICK i \in 1..Len(q) : /\ q[i].var = m /\ q[i].pub = p
                               /\ \A j \in 1..Len(q) : j > i => q[j].var # m
    BY <1>5 DEF LastIs
  <2>2. CASE i = 1
    <3>1. \A j \in 1..Len(a) : a[j].var # m
      <4>1. ASSUME NEW j \in 1..Len(a) PROVE a[j].var # m
        <5>1. j + 1 \in 1..Len(q) /\ j + 1 > i /\ a[j] = q[j + 1]
          BY <1>1, <1>3, <2>2
        <5> QED
          BY <2>1, <5>1
      <4> QED
        BY <4>1
    <3> QED
      BY <1>1, <2>1, <2>2, <3>1 DEF InQueue
  <2>3. CASE i # 1
    <3>1. i - 1 \in 1..Len(a) /\ a[i - 1] = q[i]
      BY <1>2, <2>3
    <3>2. ASSUME NEW j \in 1..Len(a), j > i - 1 PROVE a[j].var # m
      <4>1. j + 1 \in 1..Len(q) /\ j + 1 > i /\ a[j] = q[j + 1]
        BY <1>1, <1>3, <3>2
      <4> QED
        BY <2>1, <4>1
    <3>3. InQueue(a, m) /\ LastIs(a, m, p)
      BY <2>1, <3>1, <3>2 DEF InQueue, LastIs
    <3> QED
      BY <3>3
  <2> QED
    BY <2>2, <2>3
<1> QED
    BY <1>4, <1>5 DEF a

\* A step that leaves everything about a variable alone.
LEMMA Untouched ==
    ASSUME NEW m \in Metrics, HubLeads(m), CacheLeads(m),
           Sending(m)' = Sending(m), \A t \in Sending(m) : out'[t] = out[t],
           \A r \in Readers : Holds(r, m)' <=> Holds(r, m),
           \A r \in Readers : Holds(r, m) => frame'[r] = frame[r],
           InQueue(up', m) <=> InQueue(up, m), InQueue(down', m) <=> InQueue(down, m),
           LastIs(up, m, cache[m]) => LastIs(up', m, cache[m]),
           LastIs(down, m, hub[m]) => LastIs(down', m, hub[m]),
           cache'[m] = cache[m], hub'[m] = hub[m]
    PROVE  HubLeads(m)' /\ CacheLeads(m)'
<1>1. FromHub(m)' <=> FromHub(m)
    BY DEF FromHub, Held, InQueue
<1>2. OnWire(m)' <=> OnWire(m)
    BY DEF OnWire, InQueue
<1>3. HubLeads(m)'
    BY <1>1, <1>2 DEF HubLeads, InQueue, LastIs
<1>4. CacheLeads(m)'
    BY <1>1, <1>2 DEF CacheLeads, LastIs
<1> QED
    BY <1>3, <1>4

\* Most steps touch no variable of the hub: they change neither the cache nor what
\* is under way.
FrameLabels == {"frameLogin", "frameConfig", "shadow"}

Quiet ==
    /\ \A t \in Threads : pc'[t] = "send" <=> pc[t] = "send"
    /\ \A r \in Readers : pc'[r] \in FrameLabels <=> pc[r] \in FrameLabels
    /\ \A r \in Readers : pc[r] \in FrameLabels => frame'[r] = frame[r]
    /\ UNCHANGED <<out, cache, hub, up, down, adrift>>

LEMMA QuietTracked ==
    ASSUME Tracked, Quiet, Synced' => Synced
    PROVE  Tracked'
<1> SUFFICES ASSUME Synced', NEW m \in Metrics, m \notin adrift'
             PROVE  HubLeads(m)' /\ CacheLeads(m)'
    BY DEF Tracked
<1>1. m \notin adrift /\ HubLeads(m) /\ CacheLeads(m)
    BY DEF Tracked, Quiet
<1>2. Sending(m)' = Sending(m) /\ \A t \in Sending(m) : out'[t] = out[t]
    BY DEF Quiet, Sending
<1>3. \A r \in Readers : (Holds(r, m)' <=> Holds(r, m)) /\ (Holds(r, m) => frame'[r] = frame[r])
    BY DEF Quiet, Holds, FrameLabels
<1>4. cache' = cache /\ hub' = hub /\ up' = up /\ down' = down
    BY DEF Quiet
<1> QED
    BY <1>1, <1>2, <1>3, <1>4, Untouched

\* A thread that only moves from label to label, outside the frames and the sends.
LEMMA GotoTracked ==
    ASSUME TypeOK, Tracked, NEW t \in Threads, NEW from, NEW to, Goto(t, from, to),
           from \notin FrameLabels \cup {"send", "force", "forget"}, to \notin FrameLabels \cup {"send"},
           UNCHANGED <<frame, out, cache, hub, up, down, adrift, session, loggedIn>>
    PROVE  Tracked'
<1>1. /\ pc[t] = from /\ pc'[t] = to /\ \A u \in Threads : u # t => pc'[u] = pc[u]
      /\ Recovery \in Threads
    BY DEF Goto, TypeOK, Threads
<1>2. Quiet
    BY <1>1 DEF Quiet, FrameLabels, Threads
<1>3. Synced' => Synced
    BY <1>1 DEF Synced
<1> QED
    BY <1>2, <1>3, QuietTracked

\* And one that goes on to publish a list.
LEMMA BeginTracked ==
    ASSUME TypeOK, Tracked, NEW t \in Threads, NEW list \in Jobs, Begin(t, list),
           pc[t] \notin FrameLabels \cup {"send", "force", "forget"},
           \A r \in Readers : r # t => frame'[r] = frame[r],
           UNCHANGED <<out, cache, hub, up, down, adrift, session, loggedIn>>
    PROVE  Tracked'
<1>1. /\ \A u \in Threads : u # t => pc'[u] = pc[u]
      /\ pc'[t] \in {"idle", "publish"} /\ Recovery \in Threads
    BY BeginType DEF Threads
<1>2. Quiet
    BY <1>1 DEF Quiet, FrameLabels, Threads
<1>3. Synced' => Synced
    BY <1>1 DEF Synced
<1> QED
    BY <1>2, <1>3, QuietTracked

\* Tracked is kept by every step, in the same groups: the collectors' own steps,
LEMMA CollectorTracked ==
    ASSUME TypeOK, Locals, Tracked, NEW c \in Collectors,
           Sample(c) \/ Store(c) \/ BindSample(c)
    PROVE  Tracked'
<1>0. c \in Threads
    BY DEF Threads
<1>1. CASE Sample(c)
  <2>1. Goto(c, "idle", "reporting")
    BY <1>1 DEF Sample
  <2>2. UNCHANGED <<frame, out, cache, hub, up, down, adrift, session, loggedIn>>
    BY <1>1 DEF Sample, nodeVars, hubVars
  <2> QED
    BY <1>0, <2>1, <2>2, GotoTracked DEF FrameLabels
<1>2. CASE Store(c)
  <2>1. Goto(c, "store", "config")
    BY <1>2 DEF Store
  <2>2. UNCHANGED <<frame, out, cache, hub, up, down, adrift, session, loggedIn>>
    BY <1>2 DEF Store, hubVars
  <2> QED
    BY <1>0, <2>1, <2>2, GotoTracked DEF FrameLabels
<1>3. CASE BindSample(c)
  <2>1. PICK list \in Jobs : Begin(c, list)
    <3>1. sample[c] \in Raw /\ cfg \in Configs /\ Feeds[c] \in Metrics
      BY <1>3, PublishAssumption DEF BindSample, TypeOK, Locals, CollectorLocals
    <3>2. PubOf(Feeds[c], sample[c], cfg) \in Pubs
      BY <3>1, PubOfType
    <3>3. [NoJob EXCEPT ![Feeds[c]] = PubOf(Feeds[c], sample[c], cfg)] \in Jobs
      BY <3>2, NullTypes DEF Jobs
    <3> QED
      BY <1>3, <3>3, NullTypes DEF BindSample
  <2>2. pc[c] = "config" /\ UNCHANGED <<frame, out, cache, hub, up, down, adrift, session, loggedIn>>
    BY <1>3 DEF BindSample, nodeVars, hubVars
  <2> QED
    BY <1>0, <2>1, <2>2, BeginTracked DEF FrameLabels
<1> QED
    BY <1>1, <1>2, <1>3

\* the conditions,
LEMMA CheckTracked ==
    ASSUME TypeOK, Locals, Tracked, NEW t \in Collectors \cup Hosts \cup {Recovery},
           CheckReporting(t) \/ CheckLogin(t)
    PROVE  Tracked'
<1>0. t \in Threads
    BY DEF Threads
<1>1. PICK from \in {"reporting", "login"}, to \in {"idle", "login", "store", "config"} :
        Goto(t, from, to)
    BY DEF CheckReporting, CheckLogin
<1>2. UNCHANGED <<frame, out, cache, hub, up, down, adrift, session, loggedIn>>
    BY DEF CheckReporting, CheckLogin, nodeVars, hubVars
<1> QED
    BY <1>0, <1>1, <1>2, GotoTracked DEF FrameLabels

\* republication,
LEMMA RepublishTracked ==
    ASSUME TypeOK, Locals, Tracked, NEW t \in Hosts \cup {Recovery}, Snapshot(t) \/ CopyMetrics(t)
    PROVE  Tracked'
<1>0. t \in Threads
    BY DEF Threads
<1>1. CASE Snapshot(t)
  <2>1. Goto(t, "config", "metrics")
    BY <1>1 DEF Snapshot
  <2>2. UNCHANGED <<frame, out, cache, hub, up, down, adrift, session, loggedIn>>
    BY <1>1 DEF Snapshot, nodeVars, hubVars
  <2> QED
    BY <1>0, <2>1, <2>2, GotoTracked DEF FrameLabels
<1>2. CASE CopyMetrics(t)
  <2> DEFINE list == [m \in Metrics |-> IF m \in view[t].bound /\ last[m] # None
                                        THEN PubOf(m, last[m], view[t]) ELSE None]
  <2>1. view[t] \in Configs
    BY <1>0, <1>2, NullTypes DEF CopyMetrics, TypeOK, Locals, RepublisherLocals
  <2>2. ASSUME NEW m \in Metrics PROVE list[m] \in Pubs \cup {None}
    <3>1. last[m] \in Raw \cup {None}
      BY DEF TypeOK
    <3> QED
      BY <2>1, <3>1, PubOfType
  <2>3. list \in Jobs
    BY <2>2 DEF Jobs
  <2>4. Begin(t, list)
    BY <1>2 DEF CopyMetrics
  <2> HIDE DEF list
  <2>5. pc[t] = "metrics" /\ UNCHANGED <<frame, out, cache, hub, up, down, adrift, session, loggedIn>>
    BY <1>2 DEF CopyMetrics, nodeVars, hubVars
  <2> QED
    BY <1>0, <2>3, <2>4, <2>5, BeginTracked DEF FrameLabels
<1> QED
    BY <1>1, <1>2

\* what starts it,
LEMMA StartRepublishTracked ==
    ASSUME TypeOK, Locals, Tracked,
           (\E h \in Hosts, c \in Configs : SetConfig(h, c)) \/ LoginAgain
            \/ CheckForce \/ ForceRepublish
    PROVE  Tracked'
<1>1. ASSUME NEW h \in Hosts, NEW c \in Configs, SetConfig(h, c)
      PROVE  Tracked'
  <2>1. Goto(h, "idle", "reporting") /\ h \in Threads
    BY <1>1 DEF SetConfig, Threads
  <2>2. UNCHANGED <<frame, out, cache, hub, up, down, adrift, session, loggedIn>>
    BY <1>1 DEF SetConfig, hubVars
  <2> QED
    BY <2>1, <2>2, GotoTracked DEF FrameLabels
<1>2. ASSUME LoginAgain PROVE Tracked'
  <2>1. pc'[Recovery] = "force"
    BY <1>2 DEF LoginAgain, Goto, TypeOK, Threads
  <2> QED
    BY <2>1 DEF Tracked, Synced
<1>3. ASSUME CheckForce PROVE Tracked'
  <2>1. pc'[Recovery] = "forget" \/ adrift' = Metrics
    BY <1>3 DEF CheckForce, Goto, TypeOK, Threads
  <2> QED
    BY <2>1 DEF Tracked, Synced
<1>4. ASSUME ForceRepublish PROVE Tracked'
  <2> SUFFICES ASSUME NEW m \in Metrics, m \notin adrift'
               PROVE  HubLeads(m)' /\ CacheLeads(m)'
    BY DEF Tracked
  <2>1. ~FromHub(m) /\ cache' = NoJob
    BY <1>4 DEF ForceRepublish
  <2>2. /\ pc' = [pc EXCEPT ![Recovery] = "reporting"] /\ pc[Recovery] = "forget"
        /\ frame' = frame /\ down' = down
    BY <1>4 DEF ForceRepublish, Goto, hubVars
  <2>3. \A r \in Readers : Holds(r, m)' <=> Holds(r, m)
    BY <2>2, ThreadsAssumption DEF Holds, TypeOK
  <2>4. ~FromHub(m)'
    BY <2>1, <2>2, <2>3 DEF FromHub, Held, InQueue
  <2>5. cache'[m] = None
    BY <2>1 DEF NoJob
  <2> QED
    BY <2>4, <2>5 DEF HubLeads, CacheLeads
<1> QED
    BY <1>1, <1>2, <1>3, <1>4

\* publishVar up to the unlock: two changes that cross are adrift,
LEMMA PublishTracked ==
    ASSUME TypeOK, Locals, Tracked, NEW t \in Threads, NEW m \in Metrics, Publish(t, m)
    PROVE  Tracked'
<1>0. /\ pc[t] = "publish" /\ job[t] \in Jobs /\ t \notin Sending(m)
      /\ UNCHANGED <<loggedIn, session, hub, up, down, frame>>
    BY DEF Publish, TypeOK, Sending, hubVars
<1>1. CASE cache[m] = job[t][m]
  <2>1. Begin(t, [job[t] EXCEPT ![m] = None]) /\ UNCHANGED <<cache, out, adrift>>
    BY <1>1 DEF Publish
  <2>2. [job[t] EXCEPT ![m] = None] \in Jobs
    BY <1>0 DEF Jobs
  <2> QED
    BY <1>0, <2>1, <2>2, BeginTracked DEF FrameLabels
<1>2. CASE cache[m] # job[t][m]
  <2> DEFINE request == [var |-> m, pub |-> job[t][m]]
  <2>0. request.var = m /\ request.pub = job[t][m]
    OBVIOUS
  <2>1. /\ cache' = [cache EXCEPT ![m] = job[t][m]]
        /\ out' = [out EXCEPT ![t] = request]
        /\ pc' = [pc EXCEPT ![t] = "send"]
        /\ adrift' = IF Sending(m) # {} \/ FromHub(m) THEN adrift \cup {m} ELSE adrift
    BY <1>2 DEF Publish
  <2> HIDE DEF request
  <2>2. /\ pc'[t] = "send" /\ out'[t] = request /\ cache'[m] = job[t][m]
        /\ \A u \in Threads : u # t => pc'[u] = pc[u] /\ out'[u] = out[u]
        /\ \A n \in Metrics : n # m => cache'[n] = cache[n]
        /\ Readers \subseteq Threads /\ Recovery \in Threads
    BY <2>1 DEF TypeOK, Threads
  <2>3. \A r \in Readers, n \in Metrics : Holds(r, n)' <=> Holds(r, n)
    BY <1>0, <2>2 DEF Holds
  <2>4. \A n \in Metrics : FromHub(n)' <=> FromHub(n)
    BY <1>0, <2>3 DEF FromHub, Held, InQueue
  <2> SUFFICES ASSUME Synced', NEW n \in Metrics, n \notin adrift'
               PROVE  HubLeads(n)' /\ CacheLeads(n)'
    BY DEF Tracked
  <2>5. HubLeads(n) /\ CacheLeads(n)
    <3>1. Synced
      BY <1>0, <2>2 DEF Synced
    <3>2. n \notin adrift
      BY <2>1
    <3> QED
      BY <3>1, <3>2 DEF Tracked
  <2>6. CASE n = m
    <3>1. Sending(m) = {} /\ ~FromHub(m)
      BY <2>1, <2>6
    <3>2. ~FromHub(m)'
      BY <2>4, <3>1
    <3>3. Sending(m)' = {t}
      BY <2>0, <2>2, <3>1 DEF Sending
    <3>4. out'[t].pub = cache'[m]
      BY <2>0, <2>2
    <3> QED
      BY <2>6, <3>2, <3>3, <3>4 DEF HubLeads, CacheLeads
  <2>7. CASE n # m
    <3>1. Sending(n)' = Sending(n) /\ \A u \in Sending(n) : out'[u] = out[u]
      BY <1>0, <2>0, <2>2, <2>7 DEF Sending
    <3>2. cache'[n] = cache[n]
      BY <2>2, <2>7
    <3> QED
      BY <1>0, <2>3, <2>5, <3>1, <3>2, Untouched
  <2> QED
    BY <2>6, <2>7
<1> QED
    BY <1>1, <1>2

\* the send after the unlock,
LEMMA SendTracked ==
    ASSUME TypeOK, Locals, Tracked, NEW t \in Threads, Send(t)
    PROVE  Tracked'
<1> SUFFICES ASSUME Synced', NEW n \in Metrics, n \notin adrift'
             PROVE  HubLeads(n)' /\ CacheLeads(n)'
    BY DEF Tracked
<1> DEFINE x == out[t]
<1>1. /\ pc[t] = "send" /\ job[t] \in Jobs /\ Begin(t, job[t])
      /\ out' = [out EXCEPT ![t] = None]
      /\ UNCHANGED <<loggedIn, session, cache, hub, down, frame, adrift>>
    BY DEF Send, TypeOK, nodeVars
<1>2. up' = Append(up, x) /\ up \in Seq(Requests)
    BY DEF Send, Synced, TypeOK
<1>3. x \in Requests
    BY <1>1 DEF TypeOK, Locals
<1> HIDE DEF x
<1>4. /\ pc'[t] \in {"idle", "publish"}
      /\ \A u \in Threads : u # t => pc'[u] = pc[u] /\ out'[u] = out[u]
      /\ Readers \subseteq Threads /\ Recovery \in Threads
    BY <1>1, BeginType DEF TypeOK, Threads
<1>5. \A r \in Readers : Holds(r, n)' <=> Holds(r, n)
    BY <1>1, <1>4 DEF Holds
<1>6. FromHub(n)' <=> FromHub(n)
    BY <1>1, <1>5 DEF FromHub, Held, InQueue
<1>7. HubLeads(n) /\ CacheLeads(n)
  <2>1. Synced
    BY <1>1, <1>4 DEF Synced
  <2> QED
    BY <1>1, <2>1 DEF Tracked
<1>8. CASE x.var = n
  <2>1. t \in Sending(n)
    BY <1>1, <1>8 DEF Sending, x
  <2>2. ~FromHub(n)'
    BY <1>6, <1>7, <2>1 DEF HubLeads
  <2>3. OnWire(n)' /\ LastIs(up', n, x.pub)
    BY <1>2, <1>3, <1>8, AppendFrames DEF OnWire, InQueue
  <2>4. ASSUME cache[n] # None PROVE Sending(n)' = {} /\ x.pub = cache[n]
    <3>1. Sending(n) = {t} /\ x.pub = cache[n]
      BY <1>6, <1>7, <2>1, <2>2, <2>4 DEF CacheLeads, x
    <3>2. \A u \in Threads : ~(pc'[u] = "send" /\ out'[u].var = n)
      BY <1>4, <3>1 DEF Sending
    <3> QED
      BY <3>1, <3>2 DEF Sending
  <2> QED
    BY <1>1, <2>2, <2>3, <2>4 DEF HubLeads, CacheLeads, LastIs
<1>9. CASE x.var # n
  <2>1. InQueue(up', n) <=> InQueue(up, n)
    BY <1>2, <1>3, <1>9, AppendFrames
  <2>2. LastIs(up, n, cache[n]) => LastIs(up', n, cache[n])
    BY <1>2, <1>3, <1>9, AppendFrames
  <2>3. Sending(n)' = Sending(n) /\ \A u \in Sending(n) : out'[u] = out[u]
    BY <1>1, <1>4, <1>9 DEF Sending, x
  <2> QED
    BY <1>1, <1>5, <1>7, <2>1, <2>2, <2>3, Untouched
<1> QED
    BY <1>8, <1>9

\* a notify_set on its way to the cache,
LEMMA ReaderTracked ==
    ASSUME TypeOK, Locals, Tracked, NEW r \in Readers, ReaderStep(r)
    PROVE  Tracked'
<1> DEFINE v == frame[r].var
<1>0. r \in Threads /\ Readers \subseteq Threads /\ Recovery \in Threads /\ r # Recovery
    BY ThreadsAssumption DEF Threads
<1>1. CASE Receive(r)
  <2> DEFINE h == Head(down)
  <2>1. /\ pc[r] = "idle" /\ pc'[r] = "frameLogin" /\ frame'[r] = h
        /\ \A u \in Threads : u # r => pc'[u] = pc[u]
        /\ \A u \in Readers : u # r => frame'[u] = frame[u]
        /\ UNCHANGED <<loggedIn, session, cache, hub, up, out>>
    BY <1>0, <1>1 DEF Receive, Goto, TypeOK, nodeVars
  <2>2. /\ down \in Seq(Requests) /\ down # <<>> /\ down' = Tail(down)
        /\ adrift' = IF Held(h.var) THEN adrift \cup {h.var} ELSE adrift
    BY <1>1 DEF Receive, TypeOK
  <2> HIDE DEF h
  <2> SUFFICES ASSUME Synced', NEW m \in Metrics, m \notin adrift'
               PROVE  HubLeads(m)' /\ CacheLeads(m)'
    BY DEF Tracked
  <2>3. HubLeads(m) /\ CacheLeads(m)
    <3>1. Synced /\ m \notin adrift
      BY <1>0, <2>1, <2>2 DEF Synced
    <3> QED
      BY <3>1 DEF Tracked
  <2>4. InQueue(down, m) <=> h.var = m \/ InQueue(down', m)
    BY <2>2, TailFrames DEF h
  <2>5. LastIs(down, m, hub[m]) =>
            IF InQueue(down', m) THEN LastIs(down', m, hub[m]) ELSE h.var = m /\ h.pub = hub[m]
    BY <2>2, TailFrames DEF h
  <2>6. Sending(m)' = Sending(m)
    BY <1>0, <2>1 DEF Sending
  <2>7. CASE h.var = m
    <3>1. ~Held(m) /\ FromHub(m)
      BY <2>2, <2>4, <2>7 DEF FromHub
    <3>2. \A u \in Readers : Holds(u, m)' <=> u = r
      BY <1>0, <2>1, <2>7, <3>1 DEF Held, Holds
    <3>3. FromHub(m)'
      BY <3>2 DEF FromHub, Held
    <3>4. Sending(m)' = {} /\ ~OnWire(m)'
      BY <2>1, <2>3, <2>6, <3>1 DEF HubLeads, OnWire, InQueue
    <3>5. InQueue(down', m) => LastIs(down', m, hub'[m])
      BY <2>1, <2>3, <2>4, <2>5, <2>7, <3>1 DEF HubLeads
    <3>6. ~InQueue(down', m) => \A u \in Readers : Holds(u, m)' => frame'[u].pub = hub'[m]
      BY <2>1, <2>3, <2>4, <2>5, <2>7, <3>1, <3>2 DEF HubLeads
    <3>7. HubLeads(m)'
      BY <3>2, <3>4, <3>5, <3>6 DEF HubLeads, InQueue, LastIs
    <3> QED
      BY <3>3, <3>7 DEF CacheLeads
  <2>8. CASE h.var # m
    <3>1. \A u \in Readers : (Holds(u, m)' <=> Holds(u, m)) /\ (Holds(u, m) => frame'[u] = frame[u])
      BY <1>0, <2>1, <2>8 DEF Holds
    <3>2. LastIs(down, m, hub[m]) => LastIs(down', m, hub[m])
      BY <2>5, <2>8
    <3> QED
      BY <2>1, <2>3, <2>4, <2>6, <2>8, <3>1, <3>2, Untouched
  <2> QED
    BY <2>7, <2>8
\* A frame is ignored: its variable is adrift from now on.
<1>2. ASSUME pc[r] \in FrameLabels, pc'[r] = "idle", adrift' = adrift \cup {v},
             \A u \in Threads : u # r => pc'[u] = pc[u],
             \A u \in Readers : u # r => frame'[u] = frame[u],
             UNCHANGED <<loggedIn, session, cache, hub, up, down, out>>
      PROVE  Tracked'
  <2> SUFFICES ASSUME Synced', NEW m \in Metrics, m \notin adrift'
               PROVE  HubLeads(m)' /\ CacheLeads(m)'
    BY DEF Tracked
  <2>1. HubLeads(m) /\ CacheLeads(m) /\ v # m
    <3>1. Synced /\ m \notin adrift /\ v # m
      BY <1>0, <1>2 DEF Synced
    <3> QED
      BY <3>1 DEF Tracked
  <2>2. \A u \in Readers : (Holds(u, m)' <=> Holds(u, m)) /\ (Holds(u, m) => frame'[u] = frame[u])
    BY <1>0, <1>2, <2>1 DEF Holds
  <2>3. Sending(m)' = Sending(m)
    BY <1>0, <1>2 DEF Sending, FrameLabels
  <2> QED
    BY <1>2, <2>1, <2>2, <2>3, Untouched
<1>3. ASSUME Ignore(r), pc[r] \in FrameLabels, UNCHANGED <<nodeVars, hubVars, out>>
      PROVE  Tracked'
  <2>1. /\ pc'[r] = "idle" /\ adrift' = adrift \cup {v}
        /\ \A u \in Threads : u # r => pc'[u] = pc[u]
        /\ \A u \in Readers : u # r => frame'[u] = frame[u]
    BY <1>0, <1>3 DEF Ignore, Return, TypeOK
  <2> HIDE DEF v
  <2> QED
    BY <1>2, <1>3, <2>1 DEF nodeVars, hubVars
\* A frame goes from one check to the next.
<1>4. ASSUME NEW from \in FrameLabels, NEW to \in FrameLabels, Goto(r, from, to),
             UNCHANGED <<loggedIn, session, frame, out, cache, hub, up, down, adrift>>
      PROVE  Tracked'
  <2>1. pc[r] = from /\ pc'[r] = to /\ \A u \in Threads : u # r => pc'[u] = pc[u]
    BY <1>0, <1>4 DEF Goto, TypeOK
  <2>2. Quiet
    BY <1>0, <1>4, <2>1 DEF Quiet, FrameLabels
  <2>3. Synced' => Synced
    BY <1>0, <1>4, <2>1 DEF Synced
  <2> QED
    BY <2>2, <2>3, QuietTracked
<1>5. CASE FrameLogin(r)
    BY <1>3, <1>4, <1>5 DEF FrameLogin, FrameLabels, nodeVars, hubVars
<1>6. CASE FrameConfig(r)
    BY <1>3, <1>4, <1>6 DEF FrameConfig, FrameLabels, nodeVars, hubVars
<1>7. CASE Shadow(r)
  <2>0. frame[r] \in Requests /\ v \in Metrics
    BY <1>7, FrameType DEF Shadow
  <2>1. /\ pc[r] = "shadow" /\ pc'[r] \in {"idle", "correct"}
        /\ cache' = [cache EXCEPT ![v] = frame[r].pub]
        /\ \A u \in Threads : u # r => pc'[u] = pc[u]
        /\ \A u \in Readers : u # r => frame'[u] = frame[u]
        /\ UNCHANGED <<loggedIn, session, hub, up, down, out, adrift>>
    BY <1>0, <1>7 DEF Shadow, Return, Goto, TypeOK, hubVars
  <2>2. cache'[v] = frame[r].pub /\ \A n \in Metrics : n # v => cache'[n] = cache[n]
    BY <2>0, <2>1 DEF TypeOK
  <2> HIDE DEF v
  <2> SUFFICES ASSUME Synced', NEW m \in Metrics, m \notin adrift'
               PROVE  HubLeads(m)' /\ CacheLeads(m)'
    BY DEF Tracked
  <2>3. HubLeads(m) /\ CacheLeads(m)
    <3>1. Synced /\ m \notin adrift
      BY <1>0, <2>1 DEF Synced
    <3> QED
      BY <3>1 DEF Tracked
  <2>4. Sending(m)' = Sending(m)
    BY <1>0, <2>1 DEF Sending
  <2>5. CASE m = v
    <3>1. Holds(r, m) /\ FromHub(m)
      BY <2>1, <2>5 DEF Holds, FromHub, Held, v
    <3>2. \A u \in Readers : ~Holds(u, m)'
      BY <1>0, <2>1, <2>3, <3>1 DEF HubLeads, Holds
    <3>3. FromHub(m)' <=> InQueue(down', m)
      BY <3>2 DEF FromHub, Held, InQueue
    <3>4. Sending(m)' = {} /\ ~OnWire(m)'
      BY <2>1, <2>3, <2>4, <3>1 DEF HubLeads, OnWire, InQueue
    <3>5. InQueue(down', m) => LastIs(down', m, hub'[m])
      BY <2>1, <2>3, <3>1 DEF HubLeads
    <3>6. HubLeads(m)'
      BY <3>2, <3>3, <3>4, <3>5 DEF HubLeads, InQueue, LastIs
    <3>7. ~InQueue(down', m) => hub'[m] = cache'[m]
      BY <2>1, <2>2, <2>3, <2>5, <3>1 DEF HubLeads
    <3>8. CacheLeads(m)'
      BY <3>3, <3>4, <3>7 DEF CacheLeads
    <3> QED
      BY <3>6, <3>8
  <2>6. CASE m # v
    <3>1. \A u \in Readers : (Holds(u, m)' <=> Holds(u, m)) /\ (Holds(u, m) => frame'[u] = frame[u])
      BY <1>0, <2>1, <2>6 DEF Holds, v
    <3> QED
      BY <2>1, <2>2, <2>3, <2>4, <2>6, <3>1, Untouched
  <2> QED
    BY <2>5, <2>6
<1>8. CASE Correct(r)
  <2>1. PICK list \in Jobs : Begin(r, list)
    <3>0. v \in Metrics /\ view[r] \in Configs
      BY <1>8, FrameType DEF Correct
    <3>1. CASE last[v] # None
      <4>1. PubOf(v, last[v], view[r]) \in Pubs
        BY <3>0, <3>1, PubOfType DEF TypeOK
      <4>2. [NoJob EXCEPT ![v] = PubOf(v, last[v], view[r])] \in Jobs
        BY <4>1, NullTypes DEF Jobs
      <4> QED
        BY <1>8, <4>2, NullTypes DEF Correct
    <3>2. CASE last[v] = None
      BY <1>8, <3>2, NullTypes DEF Correct
    <3> QED
      BY <3>1, <3>2
  <2>2. pc[r] = "correct" /\ UNCHANGED <<out, cache, hub, up, down, adrift, session, loggedIn>>
    BY <1>8 DEF Correct, nodeVars, hubVars
  <2>3. \A u \in Readers : u # r => frame'[u] = frame[u]
    BY <1>8 DEF Correct, TypeOK
  <2> QED
    BY <1>0, <2>1, <2>2, <2>3, BeginTracked DEF FrameLabels
<1> QED
    BY <1>1, <1>5, <1>6, <1>7, <1>8 DEF ReaderStep

\* a change at the hub,
LEMMA RemoteTracked ==
    ASSUME TypeOK, Locals, Tracked, NEW v \in Metrics, NEW p \in Pubs, RemoteSet(v, p)
    PROVE  Tracked'
<1> SUFFICES ASSUME Synced', NEW m \in Metrics, m \notin adrift'
             PROVE  HubLeads(m)' /\ CacheLeads(m)'
    BY DEF Tracked
<1> DEFINE x == [var |-> v, pub |-> p]
<1>1. /\ hub' = [hub EXCEPT ![v] = p]
      /\ adrift' = IF Sending(v) # {} \/ OnWire(v) THEN adrift \cup {v} ELSE adrift
      /\ UNCHANGED <<loggedIn, session, cache, up, pc, frame, out>>
    BY DEF RemoteSet, nodeVars, localVars
<1>2. down' = Append(down, x) /\ down \in Seq(Requests)
    BY DEF RemoteSet, Synced, TypeOK
<1>3. x \in Requests /\ x.var = v /\ x.pub = p
    BY DEF Requests
<1> HIDE DEF x
<1>4. HubLeads(m) /\ CacheLeads(m)
  <2>1. Synced /\ m \notin adrift
    BY <1>1 DEF Synced
  <2> QED
    BY <2>1 DEF Tracked
<1>5. \A r \in Readers : Holds(r, m)' <=> Holds(r, m)
    BY <1>1 DEF Holds
<1>6. Sending(m)' = Sending(m) /\ (OnWire(m)' <=> OnWire(m))
    BY <1>1 DEF Sending, OnWire, InQueue
<1>7. CASE m = v
  <2>1. Sending(m)' = {} /\ ~OnWire(m)'
    BY <1>1, <1>6, <1>7
  <2>2. InQueue(down', m) /\ LastIs(down', m, p) /\ hub'[m] = p
    BY <1>1, <1>2, <1>3, <1>7, AppendFrames DEF TypeOK
  <2>3. FromHub(m)'
    BY <2>2 DEF FromHub, InQueue
  <2>4. \A r1, r2 \in Readers : Holds(r1, m)' /\ Holds(r2, m)' => r1 = r2
    BY <1>4, <1>5 DEF HubLeads, FromHub, Held
  <2>5. HubLeads(m)'
    BY <2>1, <2>2, <2>4 DEF HubLeads, InQueue, LastIs
  <2> QED
    BY <2>3, <2>5 DEF CacheLeads
<1>8. CASE m # v
  <2>1. InQueue(down', m) <=> InQueue(down, m)
    BY <1>2, <1>3, <1>8, AppendFrames
  <2>2. LastIs(down, m, hub[m]) => LastIs(down', m, hub[m])
    BY <1>2, <1>3, <1>8, AppendFrames
  <2>3. hub'[m] = hub[m]
    BY <1>1, <1>8 DEF TypeOK
  <2> QED
    BY <1>1, <1>4, <1>5, <1>6, <2>1, <2>2, <2>3, Untouched
<1> QED
    BY <1>7, <1>8

\* a request that reaches it,
LEMMA DeliverTracked ==
    ASSUME TypeOK, Locals, Tracked, Deliver
    PROVE  Tracked'
<1> SUFFICES ASSUME Synced', NEW m \in Metrics, m \notin adrift'
             PROVE  HubLeads(m)' /\ CacheLeads(m)'
    BY DEF Tracked
<1> DEFINE h == Head(up)
<1>1. /\ up \in Seq(Requests) /\ up # <<>> /\ up' = Tail(up)
      /\ hub' = [hub EXCEPT ![h.var] = h.pub]
      /\ UNCHANGED <<loggedIn, session, cache, down, pc, frame, out, adrift>>
    BY DEF Deliver, TypeOK, nodeVars, localVars
<1>2. InQueue(up, m) <=> h.var = m \/ InQueue(up', m)
    BY <1>1, TailFrames
<1>3. LastIs(up, m, cache[m]) =>
          IF InQueue(up', m) THEN LastIs(up', m, cache[m]) ELSE h.var = m /\ h.pub = cache[m]
    BY <1>1, TailFrames
<1> HIDE DEF h
<1>4. HubLeads(m) /\ CacheLeads(m)
  <2>1. Synced /\ m \notin adrift
    BY <1>1 DEF Synced
  <2> QED
    BY <2>1 DEF Tracked
<1>5. \A r \in Readers : Holds(r, m)' <=> Holds(r, m)
    BY <1>1 DEF Holds
<1>6. Sending(m)' = Sending(m)
    BY <1>1 DEF Sending
<1>7. CASE h.var = m
  <2>1. OnWire(m) /\ ~FromHub(m)
    BY <1>2, <1>4, <1>7 DEF OnWire, HubLeads
  <2>2. ~FromHub(m)'
    BY <1>1, <1>5, <2>1 DEF FromHub, Held, InQueue
  <2>3. hub'[m] = h.pub
    BY <1>1, <1>7 DEF TypeOK
  <2>4. cache[m] # None =>
            /\ \A t \in Sending(m) : Sending(m) = {t} /\ out[t].pub = cache[m]
            /\ Sending(m) = {} => LastIs(up, m, cache[m])
    BY <1>4, <2>1 DEF CacheLeads
  <2>5. CacheLeads(m)'
    BY <1>1, <1>3, <1>6, <2>3, <2>4 DEF CacheLeads, OnWire, InQueue, LastIs
  <2> QED
    BY <2>2, <2>5 DEF HubLeads
<1>8. CASE h.var # m
  <2>1. hub'[m] = hub[m]
    BY <1>1, <1>8 DEF TypeOK
  <2>2. LastIs(up, m, cache[m]) => LastIs(up', m, cache[m])
    BY <1>3, <1>8
  <2> QED
    BY <1>1, <1>2, <1>4, <1>5, <1>6, <1>8, <2>1, <2>2, Untouched
<1> QED
    BY <1>7, <1>8

\* The other steps of the runtime, the device and the network.
LEMMA OutsideTracked ==
    ASSUME TypeOK, Locals, Tracked, Outside
    PROVE  Tracked'
<1>1. ASSUME UNCHANGED <<pc, frame, out, cache, hub, up, down, adrift, session, loggedIn>>
      PROVE  Tracked'
    BY <1>1, QuietTracked DEF Quiet, Synced
<1>2. CASE StartReporting \/ StopReporting
    BY <1>1, <1>2 DEF StartReporting, StopReporting, hubVars, localVars
<1>3. CASE MarkLost \/ Lose
  <2>1. ~Synced'
    BY <1>3 DEF MarkLost, Lose, Synced, nodeVars
  <2> QED
    BY <2>1 DEF Tracked
<1>4. CASE Deliver
    BY <1>4, DeliverTracked
<1>5. ASSUME NEW m \in Metrics, ApplyCommand(m) \/ \E raw \in Raw : DeviceChanges(m, raw)
      PROVE  Tracked'
    BY <1>1, <1>5 DEF ApplyCommand, DeviceChanges, nodeVars, hubVars, localVars
<1>6. ASSUME NEW m \in Metrics, NEW x \in Raw, NEW vis \in Visibilities,
             RemoteSet(m, [value |-> x, visibility |-> vis])
      PROVE  Tracked'
  <2>1. [value |-> x, visibility |-> vis] \in Pubs
    BY DEF Pubs, Values
  <2> QED
    BY <1>6, <2>1, RemoteTracked
<1> QED
    BY <1>2, <1>3, <1>4, <1>5, <1>6 DEF Outside

\* Together.
LEMMA StepTracked ==
    ASSUME TypeOK, Locals, Tracked, [Next]_vars
    PROVE  Tracked'
<1>1. CASE Next
  <2>1. \A t \in Threads : PublishStep(t) => Tracked'
    BY PublishTracked, SendTracked DEF PublishStep
  <2> QED
    BY <1>1, <2>1, NextSplits, CollectorTracked, CheckTracked, RepublishTracked,
       StartRepublishTracked, ReaderTracked, OutsideTracked
<1>2. CASE UNCHANGED vars
  <2>1. Quiet /\ (Synced' => Synced)
    BY <1>2 DEF vars, nodeVars, hubVars, localVars, Quiet, Synced
  <2> QED
    BY <2>1, QuietTracked
<1> QED
    BY <1>1, <1>2

\* At first the cache is empty.
LEMMA InitTracked == Init => Tracked
<1> SUFFICES ASSUME Init, NEW m \in Metrics PROVE HubLeads(m) /\ CacheLeads(m)
    BY DEF Tracked
<1>1. cache[m] = None
    BY DEF Init, NoJob
<1>2. ~FromHub(m)
    BY DEF Init, FromHub, Held, Holds, InQueue, Threads
<1> QED
    BY <1>1, <1>2 DEF HubLeads, CacheLeads

\* While a session lasts, a variable with nothing under way and not adrift has at the
\* hub the value lastPublished holds for it, so publishVar's comparison drops nothing
\* the hub lacks: for any number of collectors, readers, metrics and configurations.
THEOREM CachePicturesHub == Spec => []CacheIsHub
<1>1. Init => IInv
    BY InitTyped, InitTracked DEF IInv
<1>2. IInv /\ [Next]_vars => IInv'
    BY StepTyped, StepTracked DEF IInv
<1>3. IInv => CacheIsHub
    BY DEF IInv, Tracked, Synced, CacheLeads, CacheIsHub, InStep
<1> QED
    BY <1>1, <1>2, <1>3, PTL DEF Spec
=============================================================================

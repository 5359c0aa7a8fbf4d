------------------------------ MODULE Session ------------------------------
(***************************************************************************)
(* The hub session of the runtime (core/runtime/runtime.go): Connect,      *)
(* Close, Login, Register, StartNotify and the other calls of the host,    *)
(* the session-error callback of the SDK, and the reconnect goroutine,     *)
(* interleaved at every access to state they share.                        *)
(*                                                                         *)
(* Threads:  Callers   host threads inside an API call                     *)
(*           Loops     goroutine slots of reconnectLoop                    *)
(*           Readers   SDK read-loop goroutines running onClientError      *)
(*                                                                         *)
(* A thread's pc names its next access.  Subroutines the code shares       *)
(* (Close, connectTransport, closeClientForReconnect, Login,               *)
(* subscribeNotifyTopics) are shared labels; op[t], the outermost call,    *)
(* says where they return to, and after[t] where                           *)
(* closeClientForReconnect does.                                           *)
(*                                                                         *)
(* The SDK client and the hub are outside the repository and are modelled  *)
(* from how the runtime uses them.                                         *)
(*                                                                         *)
(* An operator commented as a mutant is a plausible bug of the definition  *)
(* that follows it; no action uses it.                                     *)
(***************************************************************************)
EXTENDS Naturals, FiniteSets

CONSTANTS
    Callers, Loops, Readers,    \* thread identities
    Addrs, NoAddr,              \* hub addresses, and the empty string
    NoLoop,                     \* reconnectCancel = nil
    ApiOps,                     \* the API calls the host makes in this instance
    Faults,                     \* may a request on a live session fail?
    InitialDelay, MaxDelay,     \* reconnectInitialDelay, reconnectMaxDelay
    MaxCalls, MaxBreaks         \* bounds: API calls, transport losses

Threads == Callers \cup Loops \cup Readers

AllOps == {"connect", "close", "login", "register", "clearAuth",
           "startNotify", "stopNotify", "startReporting", "stopReporting"}

ASSUME ThreadsAssumption ==
    /\ Callers \cap Loops = {} /\ Callers \cap Readers = {} /\ Loops \cap Readers = {}
    /\ NoLoop \notin Loops
ASSUME InputsAssumption ==
    NoAddr \notin Addrs /\ ApiOps \subseteq AllOps /\ Faults \in BOOLEAN
ASSUME DelayAssumption ==
    InitialDelay \in Nat \ {0} /\ MaxDelay \in Nat /\ InitialDelay <= MaxDelay
ASSUME BoundsAssumption == MaxCalls \in Nat /\ MaxBreaks \in Nat

VARIABLES
    rt,             \* the Runtime: addr, connected, reconnectDesired, auth, work
    reconnect,      \* reconnectCancel (the loop it cancels) and reconnectRunning
    cancelled,      \* the loops whose context is cancelled
    delay,          \* the backoff of a loop
    client,         \* the SDK client and the hub's end of its session
    pc, op, after,
    arg,            \* the address a thread connects to
    saved,          \* a loop's copy of "auth holds an identity"
    calls, breaks,  \* how often the environment has acted
    lastCall,       \* history: the API call made last
    lastGood        \* history: the address last connected to

reconnectVars == <<reconnect, cancelled, delay>>
localVars == <<op, after, arg, saved>>
envVars == <<calls, breaks, lastCall, lastGood>>
vars == <<rt, reconnectVars, client, pc, localVars, envVars>>

Runtimes ==
    [addr : Addrs \cup {NoAddr}, connected : BOOLEAN, reconnectDesired : BOOLEAN,
     identity : BOOLEAN,                    \* auth holds a device and a node id
     loggedIn : BOOLEAN,                    \* auth.LoggedIn
     work : SUBSET {"collect", "report", "notify"}]
       \* reportCancel # nil (the collectors run), reportEnabled, notifyRunning

Clients ==
    [session : {"none", "live", "broken"},  \* the client still holds a broken one
     hub : SUBSET {"login", "sub"},         \* what the hub holds for the session
     pending : SUBSET Threads]              \* who awaits an answer on the session

\* A session in state s of which the hub holds nothing and nothing is awaited.
Fresh(s) == [session |-> s, hub |-> {}, pending |-> {}]
NoSession == Fresh("none")

Labels == {"idle",
    \* Close, and closeClientForReconnect ("drop", "down") wherever it is called
    "close", "cancel", "stopReport", "reportOff", "stopNotify", "logout", "drop", "down", "forget",
    \* Connect and connectTransport
    "readdr", "dial", "already", "redial", "mark", "setAddr", "desire",
    \* Register and Login
    "request", "await", "refused", "accepted", "intend",
    \* subscribeNotifyTopics, StartNotify, StartReporting
    "subscribe", "subSend", "subAwait", "notifyOn", "notifyOff", "reportOn",
    \* reconnectLoop and recoverOnce
    "top", "readAddr", "ctx1", "ident", "ctx2", "abort", "abortLogout",
    "check", "wait", "exit",
    \* onClientError and scheduleReconnect
    "err", "errLogout", "errDesired", "errSchedule"}

TypeOK ==
    /\ rt \in Runtimes
    /\ reconnect \in [cancel : Loops \cup {NoLoop}, running : BOOLEAN]
    /\ cancelled \in SUBSET Loops
    /\ delay \in [Loops -> InitialDelay..MaxDelay]
    /\ client \in Clients
    /\ pc \in [Threads -> Labels]
    /\ op \in [Threads -> AllOps \cup {"none"}]
    /\ after \in [Threads -> Labels]
    /\ arg \in [Threads -> Addrs \cup {NoAddr}]
    /\ saved \in [Threads -> BOOLEAN]
    /\ calls \in 0..MaxCalls /\ breaks \in 0..MaxBreaks
    /\ lastCall \in AllOps \cup {"none"}
    /\ lastGood \in Addrs \cup {NoAddr}

\* A process that has just started; the auth snapshot may hold an identity.
Init ==
    /\ \E known \in BOOLEAN :
         rt = [addr |-> NoAddr, connected |-> FALSE, reconnectDesired |-> FALSE,
               identity |-> known, loggedIn |-> FALSE, work |-> {}]
    /\ reconnect = [cancel |-> NoLoop, running |-> FALSE]
    /\ cancelled = {}
    /\ delay = [l \in Loops |-> InitialDelay]
    /\ client = NoSession
    /\ pc = [t \in Threads |-> "idle"]
    /\ op = [t \in Threads |-> "none"]
    /\ after = [t \in Threads |-> "idle"]
    /\ arg = [t \in Threads |-> NoAddr]
    /\ saved = [t \in Threads |-> FALSE]
    /\ calls = 0 /\ breaks = 0
    /\ lastCall = "none" /\ lastGood = NoAddr

-----------------------------------------------------------------------------
\* Control: a step of one thread that changes nothing else, or that changes the
\* Runtime or the client only.

Goto(t, from, to) == pc[t] = from /\ pc' = [pc EXCEPT ![t] = to]

LocalStep(t, from, to) ==
    Goto(t, from, to) /\ UNCHANGED <<rt, reconnectVars, client, localVars, envVars>>

RuntimeStep(t, from, to, new) ==
    /\ Goto(t, from, to)
    /\ rt' = new
    /\ UNCHANGED <<reconnectVars, client, localVars, envVars>>

ClientStep(t, from, to, new) ==
    /\ Goto(t, from, to)
    /\ client' = new
    /\ UNCHANGED <<rt, reconnectVars, localVars, envVars>>

\* A call of closeClientForReconnect that returns to the label next.
CloseClient(t, from, next) ==
    /\ Goto(t, from, "drop")
    /\ after' = [after EXCEPT ![t] = next]
    /\ UNCHANGED <<reconnectVars, client, op, envVars>>

\* Where connectTransport, Login or Register, and subscribeNotifyTopics return.
DialOk(t)   == IF t \in Loops THEN "ctx1" ELSE "desire"
DialFail(t) == IF t \in Loops THEN "wait" ELSE "idle"
AuthDone(t) == IF t \in Loops THEN "ctx2" ELSE "idle"
AuthFail(t) == IF t \in Loops THEN "wait" ELSE "idle"
SubOk(t)    == IF op[t] = "startNotify" THEN "notifyOn" ELSE AuthDone(t)
SubFail(t)  == IF op[t] = "startNotify" THEN "notifyOff" ELSE AuthDone(t)

-----------------------------------------------------------------------------
\* The calls of the host: early returns and the first access.

Call(c, o, to, new) ==
    /\ o \in ApiOps
    /\ calls < MaxCalls
    /\ Goto(c, "idle", to)
    /\ rt' = new
    /\ calls' = calls + 1
    /\ lastCall' = o
    /\ op' = [op EXCEPT ![c] = o]
    /\ UNCHANGED <<reconnectVars, client, after, saved, breaks, lastGood>>

\* Connect records its address at once, and closes a session to another one first.
CallConnect(c, a) ==
    /\ Call(c, "connect", IF rt.addr \in {NoAddr, a} THEN "dial" ELSE "close",
            [rt EXCEPT !.addr = a])
    /\ arg' = [arg EXCEPT ![c] = a]

CallClose(c) == Call(c, "close", "close", rt) /\ UNCHANGED arg

CallAuth(c, o) == rt.connected /\ Call(c, o, "request", rt) /\ UNCHANGED arg

CallStartNotify(c) ==
    rt.loggedIn /\ Call(c, "startNotify", "subscribe", rt) /\ UNCHANGED arg

CallStartReporting(c) ==
    rt.loggedIn /\ Call(c, "startReporting", "reportOn", rt) /\ UNCHANGED arg

CallStop(c) ==
    \/ Call(c, "stopNotify", "idle", [rt EXCEPT !.work = @ \ {"notify"}]) /\ UNCHANGED arg
    \/ Call(c, "stopReporting", "reportOff", [rt EXCEPT !.work = @ \ {"collect"}])
       /\ UNCHANGED arg

CallClearAuth(c) ==
    /\ Call(c, "clearAuth", "idle", [rt EXCEPT !.identity = FALSE, !.loggedIn = FALSE])
    /\ UNCHANGED arg

Calls(c) ==
    \/ \E a \in Addrs : CallConnect(c, a)
    \/ CallClose(c)
    \/ \E o \in {"login", "register"} : CallAuth(c, o)
    \/ CallStartNotify(c)
    \/ CallStartReporting(c)
    \/ CallStop(c)
    \/ CallClearAuth(c)

\* The second half of StartReporting, after its login check, under reportMu.
ReportOn(t) ==
    RuntimeStep(t, "reportOn", "idle",
                [rt EXCEPT !.work = IF "collect" \in @ THEN @ ELSE @ \cup {"collect", "report"}])

-----------------------------------------------------------------------------
\* Close.

CloseIntent(t) == RuntimeStep(t, "close", "cancel", [rt EXCEPT !.reconnectDesired = FALSE])

CancelReconnect(t) ==
    /\ Goto(t, "cancel", "stopReport")
    /\ cancelled' = cancelled \cup ({reconnect.cancel} \cap Loops)
    /\ UNCHANGED <<rt, reconnect, delay, client, localVars, envVars>>

\* (mutant: Close stops the collectors and leaves reportEnabled set)
StopWorkHalf(t) ==
    \/ RuntimeStep(t, "stopReport", "stopNotify", [rt EXCEPT !.work = @ \ {"collect"}])
    \/ RuntimeStep(t, "reportOff", IF op[t] = "stopReporting" THEN "idle" ELSE "stopNotify",
                   [rt EXCEPT !.work = @ \ {"report"}])
    \/ RuntimeStep(t, "stopNotify", "logout", [rt EXCEPT !.work = @ \ {"notify"}])

\* StopReporting lets go of reportMu before it resets reportEnabled.
StopWork(t) ==
    \/ RuntimeStep(t, "stopReport", "reportOff", [rt EXCEPT !.work = @ \ {"collect"}])
    \/ RuntimeStep(t, "reportOff", IF op[t] = "stopReporting" THEN "idle" ELSE "stopNotify",
                   [rt EXCEPT !.work = @ \ {"report"}])
    \/ RuntimeStep(t, "stopNotify", "logout", [rt EXCEPT !.work = @ \ {"notify"}])

\* markSessionLoggedOut, in Close, in a cancelled recovery, on a session error.
MarkLoggedOut(t) ==
    /\ \/ CloseClient(t, "logout", "forget") /\ UNCHANGED <<arg, saved>>
       \/ CloseClient(t, "abortLogout", "wait") /\ UNCHANGED <<arg, saved>>
       \/ Goto(t, "errLogout", "errDesired")
          /\ UNCHANGED <<reconnectVars, client, localVars, envVars>>
    /\ rt' = [rt EXCEPT !.loggedIn = FALSE]

\* closeClientForReconnect: c.Close(), then connected.Store(false).
ClientClose(t) == ClientStep(t, "drop", "down", NoSession)

ClientDown(t) ==
    /\ Goto(t, "down", after[t])
    /\ rt' = [rt EXCEPT !.connected = FALSE]
    /\ after' = [after EXCEPT ![t] = "idle"]
    /\ UNCHANGED <<reconnectVars, client, op, arg, saved, envVars>>

\* Close ends by forgetting the address; a Connect that closed the session to
\* another address goes on.
ForgetAddr(t) ==
    RuntimeStep(t, "forget", IF op[t] = "connect" THEN "readdr" ELSE "idle",
                [rt EXCEPT !.addr = NoAddr])

-----------------------------------------------------------------------------
\* Connect and connectTransport.

Readdress(t) == RuntimeStep(t, "readdr", "dial", [rt EXCEPT !.addr = arg[t]])

\* The SDK's Connect can succeed when the client holds no session.
Dial(t) ==
    /\ Goto(t, "dial", "mark") \/ Goto(t, "redial", "mark")
    /\ client.session = "none"
    /\ client' = Fresh("live")
    /\ lastGood' = arg[t]
    /\ UNCHANGED <<rt, reconnectVars, localVars, calls, breaks, lastCall>>

\* The second attempt also fails on a session another thread has just opened.
DialFails(t) ==
    \/ client.session = "none" /\ LocalStep(t, "dial", DialFail(t))
    \/ LocalStep(t, "redial", DialFail(t))

\* ErrAlreadyConnected.
DialAlready(t) == client.session # "none" /\ LocalStep(t, "dial", "already")

\* The session the client holds is good if r.connected says so; if not, it is
\* closed for a second attempt.
Already(t) ==
    \/ rt.connected /\ LocalStep(t, "already", "setAddr")
    \/ ~rt.connected /\ CloseClient(t, "already", "redial") /\ UNCHANGED <<rt, arg, saved>>

MarkConnected(t) == RuntimeStep(t, "mark", "setAddr", [rt EXCEPT !.connected = TRUE])

SetAddr(t) == RuntimeStep(t, "setAddr", DialOk(t), [rt EXCEPT !.addr = arg[t]])

\* Connect, and a successful Login, record the intent to reconnect and then
\* resubscribe if the notify listener is running.
Intend(t) ==
    LET new == [rt EXCEPT !.reconnectDesired = TRUE]
        Then(done) == IF "notify" \in rt.work THEN "subscribe" ELSE done
    IN  \/ RuntimeStep(t, "desire", Then("idle"), new)
        \/ RuntimeStep(t, "intend", Then(AuthDone(t)), new)

-----------------------------------------------------------------------------
\* Register and Login.  A request leaves on the live session and can be answered
\* while that session lasts.

SendAuth(t) ==
    /\ client.session = "live"
    /\ ClientStep(t, "request", "await", [client EXCEPT !.pending = @ \cup {t}])

\* Without a live session the send fails; a key error returns before it.
SendAuthFails(t) ==
    \/ client.session # "live" /\ LocalStep(t, "request", "refused")
    \/ Faults /\ LocalStep(t, "request", AuthFail(t))

\* The answer to t's request, which the hub processed with the effect e.
Answered(t, e) == [client EXCEPT !.pending = @ \ {t}, !.hub = @ \cup e]

AuthAnswered(t) ==
    t \in client.pending /\ ClientStep(t, "await", "accepted", Answered(t, {"login"}))

\* The session ended; or a timeout, a refusal or a bad answer, after which the
\* hub may have logged the node in all the same.
AuthNotAnswered(t) ==
    \/ t \notin client.pending /\ LocalStep(t, "await", "refused")
    \/ /\ Faults /\ t \in client.pending
       /\ \E e \in {{}, {"login"}} : ClientStep(t, "await", "refused", Answered(t, e))

\* setAuthResult(false, ...)
AuthRefused(t) == RuntimeStep(t, "refused", AuthFail(t), [rt EXCEPT !.loggedIn = FALSE])

\* setAuthSnapshot; Login goes on to record the intent to reconnect.
AuthAccepted(t) ==
    RuntimeStep(t, "accepted", IF op[t] = "register" THEN "idle" ELSE "intend",
                [rt EXCEPT !.loggedIn = TRUE, !.identity = TRUE])

-----------------------------------------------------------------------------
\* subscribeNotifyTopics, with at least one topic enabled, and StartNotify.

Subscribe(t) ==
    LocalStep(t, "subscribe",
              IF rt.loggedIn /\ rt.connected THEN "subSend" ELSE SubFail(t))

SendSub(t) ==
    /\ client.session = "live"
    /\ ClientStep(t, "subSend", "subAwait", [client EXCEPT !.pending = @ \cup {t}])

SendSubFails(t) == client.session # "live" /\ LocalStep(t, "subSend", SubFail(t))

SubAnswered(t) ==
    t \in client.pending /\ ClientStep(t, "subAwait", SubOk(t), Answered(t, {"sub"}))

SubNotAnswered(t) ==
    \/ t \notin client.pending /\ LocalStep(t, "subAwait", SubFail(t))
    \/ /\ Faults /\ t \in client.pending
       /\ \E e \in {{}, {"sub"}} : ClientStep(t, "subAwait", SubFail(t), Answered(t, e))

NotifyDone(t) ==
    \/ RuntimeStep(t, "notifyOn", "idle", [rt EXCEPT !.work = @ \cup {"notify"}])
    \/ RuntimeStep(t, "notifyOff", "idle", [rt EXCEPT !.work = @ \ {"notify"}])

-----------------------------------------------------------------------------
\* onClientError and scheduleReconnect, on the read loop of a session that broke.

ErrDisconnected(t) == RuntimeStep(t, "err", "errLogout", [rt EXCEPT !.connected = FALSE])

ErrDesired(t) ==
    LocalStep(t, "errDesired", IF rt.reconnectDesired THEN "errSchedule" ELSE "idle")

\* Under reconnectMu: nothing to do while a loop runs ...
AlreadyScheduled(t) == reconnect.running /\ LocalStep(t, "errSchedule", "idle")

\* (mutant: reconnectRunning is not looked at)
ScheduleReconnectUnguarded(t, l) ==
    /\ pc[t] = "errSchedule" /\ pc[l] = "idle"
    /\ pc' = [pc EXCEPT ![t] = "idle", ![l] = "top"]
    /\ reconnect' = [cancel |-> l, running |-> TRUE]
    /\ UNCHANGED <<rt, cancelled, delay, client, localVars, envVars>>

\* ... otherwise a new loop starts, under a context of its own.
ScheduleReconnect(t, l) ==
    /\ pc[t] = "errSchedule" /\ pc[l] = "idle"
    /\ ~reconnect.running
    /\ pc' = [pc EXCEPT ![t] = "idle", ![l] = "top"]
    /\ reconnect' = [cancel |-> l, running |-> TRUE]
    /\ UNCHANGED <<rt, cancelled, delay, client, localVars, envVars>>

-----------------------------------------------------------------------------
\* reconnectLoop and recoverOnce.

\* (mutant: neither the intent nor the context ends the loop)
TopUncancelled(l) == LocalStep(l, "top", "readAddr")

Top(l) ==
    LocalStep(l, "top", IF rt.reconnectDesired /\ l \notin cancelled THEN "readAddr" ELSE "exit")

\* recoverOnce looks at the context, which may be cancelled just after, reads the
\* address and the identity, and closes the broken client.
ReadAddr(l) ==
    \/ /\ l \in cancelled \/ rt.addr = NoAddr
       /\ LocalStep(l, "readAddr", "wait")
    \/ /\ rt.addr # NoAddr
       /\ CloseClient(l, "readAddr", "dial")
       /\ arg' = [arg EXCEPT ![l] = rt.addr]
       /\ saved' = [saved EXCEPT ![l] = rt.identity]
       /\ UNCHANGED rt

\* (mutant: no look at the context after the dial)
CheckDialedUncancelled(l) == LocalStep(l, "ctx1", "ident")

\* The context is checked after the dial, and again after the login.
CheckDialed(l) ==
    \/ l \in cancelled /\ CloseClient(l, "ctx1", "wait") /\ UNCHANGED <<rt, arg, saved>>
    \/ l \notin cancelled /\ LocalStep(l, "ctx1", "ident")

\* (mutant: recovery without an identity always fails)
CheckIdentityRequired(l) ==
    LocalStep(l, "ident", IF saved[l] /\ rt.connected THEN "request" ELSE "wait")

\* With a saved identity the loop logs in, if it is still connected; without one
\* the recovery is complete unless there is work to restore.
CheckIdentity(l) ==
    LocalStep(l, "ident", IF saved[l] THEN IF rt.connected THEN "request" ELSE "wait"
                          ELSE IF rt.work \subseteq {"collect"} THEN "check" ELSE "wait")

CheckLoggedIn(l) == LocalStep(l, "ctx2", IF l \in cancelled THEN "abort" ELSE "check")

AbortIntent(l) ==
    RuntimeStep(l, "abort", "abortLogout", [rt EXCEPT !.reconnectDesired = FALSE])

CheckRestored(l) == LocalStep(l, "check", IF rt.connected THEN "exit" ELSE "wait")

\* (mutant: doubling has no cap)
NextDelayUncapped(d) == 2 * d

NextDelay(d) == IF 2 * d < MaxDelay THEN 2 * d ELSE MaxDelay

WaitOver(l) ==
    /\ Goto(l, "wait", "top")
    /\ delay' = [delay EXCEPT ![l] = NextDelay(@)]
    /\ UNCHANGED <<rt, reconnect, cancelled, client, localVars, envVars>>

\* (mutant: a cancelled wait returns past the clean-up)
WaitCancelledUndeferred(l) == l \in cancelled /\ LocalStep(l, "wait", "idle")

WaitCancelled(l) == l \in cancelled /\ LocalStep(l, "wait", "exit")

\* The deferred function.  The slot's locals and context go with the goroutine.
Exit(l) ==
    /\ Goto(l, "exit", "idle")
    /\ reconnect' = [cancel |-> NoLoop, running |-> FALSE]
    /\ cancelled' = cancelled \ {l}
    /\ delay' = [delay EXCEPT ![l] = InitialDelay]
    /\ arg' = [arg EXCEPT ![l] = NoAddr]
    /\ saved' = [saved EXCEPT ![l] = FALSE]
    /\ UNCHANGED <<rt, client, op, after, envVars>>

-----------------------------------------------------------------------------
\* The transport is lost, and the read loop of the session will report it.  The
\* client holds the broken session until it is closed.
Break(r) ==
    /\ client.session = "live"
    /\ breaks < MaxBreaks
    /\ Goto(r, "idle", "err")
    /\ breaks' = breaks + 1
    /\ client' = Fresh("broken")
    /\ UNCHANGED <<rt, reconnectVars, localVars, calls, lastCall, lastGood>>

\* What API calls and recovery share.
SessionStep(t) ==
    \/ MarkLoggedOut(t) \/ ClientClose(t) \/ ClientDown(t)
    \/ Dial(t) \/ DialFails(t) \/ DialAlready(t) \/ Already(t) \/ MarkConnected(t)
    \/ SetAddr(t) \/ Intend(t)
    \/ SendAuth(t) \/ SendAuthFails(t) \/ AuthAnswered(t) \/ AuthNotAnswered(t)
    \/ AuthRefused(t) \/ AuthAccepted(t)
    \/ Subscribe(t) \/ SendSub(t) \/ SendSubFails(t) \/ SubAnswered(t) \/ SubNotAnswered(t)

CallerStep(c) ==
    \/ SessionStep(c)
    \/ CloseIntent(c) \/ CancelReconnect(c) \/ StopWork(c) \/ ForgetAddr(c)
    \/ Readdress(c) \/ NotifyDone(c) \/ ReportOn(c)

LoopStep(l) ==
    \/ SessionStep(l)
    \/ Top(l) \/ ReadAddr(l) \/ CheckDialed(l) \/ CheckIdentity(l) \/ CheckLoggedIn(l)
    \/ AbortIntent(l) \/ CheckRestored(l) \/ WaitOver(l) \/ WaitCancelled(l) \/ Exit(l)

ReaderStep(r) ==
    \/ ErrDisconnected(r) \/ MarkLoggedOut(r) \/ ErrDesired(r) \/ AlreadyScheduled(r)
    \/ \E l \in Loops : ScheduleReconnect(r, l)

Next ==
    \/ \E c \in Callers : Calls(c) \/ CallerStep(c)
    \/ \E l \in Loops : LoopStep(l)
    \/ \E r \in Readers : ReaderStep(r) \/ Break(r)

Spec == Init /\ [][Next]_vars

\* Threads are scheduled; calls and transport losses need never happen.
ThreadFairness ==
    /\ \A c \in Callers : WF_vars(CallerStep(c))
    /\ \A l \in Loops : WF_vars(LoopStep(l))
    /\ \A r \in Readers : WF_vars(ReaderStep(r))

FairSpec == Spec /\ ThreadFairness

-----------------------------------------------------------------------------
\* Properties.

Quiet == \A t \in Threads : pc[t] = "idle"

Active(l) == pc[l] # "idle"

\* reconnectRunning is a lock: there is never a second reconnectLoop, although
\* loops are started by callbacks and cancelled by Close without waiting for them.
AtMostOneLoop == \A l, m \in Loops : Active(l) /\ Active(m) => l = m

\* What AtMostOneLoop rests on: a loop goroutine that has not finished its deferred
\* function is the one reconnectRunning and reconnectCancel stand for.
LoopIsRegistered ==
    /\ \A l \in Loops : Active(l) => reconnect = [cancel |-> l, running |-> TRUE]
    /\ reconnect.running => \E l \in Loops : Active(l)

\* Nothing is left of the session: no flag, no work, no connection.
Off ==
    /\ ~rt.connected /\ ~rt.loggedIn /\ rt.work = {}
    /\ client = NoSession

\* Close is final: once every thread has come to rest and Close was the last call,
\* nothing is left of the session.
CloseIsFinal == Quiet /\ lastCall = "close" => Off

\* The host does not make a call while another one has not returned.
OneCall == \A c, d \in Callers : pc[c] # "idle" /\ pc[d] # "idle" => c = d

\* What holds of it for a host that makes one call at a time: nothing a cancelled
\* recovery was doing survives Close as long as the intent that Close cancelled has
\* stayed cancelled.
CloseIsFinalWithoutIntent ==
    Quiet /\ lastCall = "close" /\ ~rt.reconnectDesired => Off

\* Reporting is two pieces, the collectors and what IsReporting tells: however starts,
\* stops and Close overlap, a runtime at rest that says it reports has its collectors.
ReportsOnlyCollected == Quiet /\ "report" \in rt.work => "collect" \in rt.work

\* A transport loss triggers reconnect while the runtime has reconnect intent: at
\* rest, a runtime that still wants its session has one.
IntentIsServed ==
    Quiet /\ rt.reconnectDesired => rt.connected /\ client.session = "live"

\* scheduleReconnect leaves a session error to the loop that runs: that loop must
\* still have a look at the connection before it ends.
RunningLoopTakesOver ==
    [][\A r \in Readers : AlreadyScheduled(r) =>
           \E l \in Loops : pc[l] \notin {"idle", "exit"}]_vars

\* Fresh login on a session before connection-scoped behaviour is restored on it:
\* a subscription is only asked for on a session the node has logged in on.
LoginBeforeSubscribe ==
    [][\A t \in Threads : SendSub(t) => "login" \in client.hub]_vars

\* A notify listener that runs on a live, logged-in session is subscribed there.
ListenerIsSubscribed ==
    Quiet /\ "notify" \in rt.work /\ rt.connected /\ "login" \in client.hub =>
        "sub" \in client.hub

\* Reconnect dials the last address a connection succeeded with.
ReconnectsToLastGood ==
    [][\A l \in Loops : Dial(l) => arg[l] = lastGood]_vars

\* Close winds down: even with the hub out of reach, every thread comes to rest
\* unless the host calls again.
CloseWindsDown == lastCall = "close" ~> Quiet \/ lastCall # "close"

\* What CloseWindsDown rests on besides fairness.  How far a thread is from its end, in
\* steps of its own; "drop" and "down" are a subroutine and count from where it returns.
Distance ==
    [idle |-> 0,
     exit |-> 1, top |-> 2, wait |-> 3, check |-> 6, abortLogout |-> 6, abort |-> 7, ctx2 |-> 8,
     notifyOn |-> 1, notifyOff |-> 1, subAwait |-> 9, subSend |-> 10, subscribe |-> 11,
     refused |-> 4, intend |-> 12, desire |-> 12, accepted |-> 13, await |-> 14, request |-> 15,
     ident |-> 16, ctx1 |-> 17, setAddr |-> 18, mark |-> 19, redial |-> 20, already |-> 23,
     dial |-> 24, readdr |-> 25, readAddr |-> 27, forget |-> 28,
     logout |-> 31, stopNotify |-> 32, reportOff |-> 33, stopReport |-> 34, cancel |-> 35, close |-> 36,
     reportOn |-> 1, errSchedule |-> 1, errDesired |-> 2, errLogout |-> 3, err |-> 4]

Ahead(t) ==
    CASE pc[t] = "drop" -> Distance[after[t]] + 2
      [] pc[t] = "down" -> Distance[after[t]] + 1
      [] OTHER -> Distance[pc[t]]

\* Whatever the others do, a thread that has begun comes nearer to its end with every
\* step; it starts over only as a reconnect loop, and not once that is cancelled.
StepsWindDown ==
    [][\A t \in Threads : pc'[t] # pc[t] /\ pc[t] # "idle" =>
           \/ Ahead(t)' < Ahead(t)
           \/ pc[t] = "top" /\ rt.reconnectDesired /\ t \notin cancelled]_vars

\* The hub does not fail a loop for ever: of the dials it keeps making one succeeds,
\* and of the logins one is sent and one accepted.
HubReachable ==
    \A l \in Loops : SF_vars(Dial(l)) /\ SF_vars(SendAuth(l)) /\ SF_vars(AuthAnswered(l))

\* Then a reconnect loop ends.
RecoveryEnds == HubReachable => (reconnect.running ~> ~reconnect.running)
=============================================================================

--------------------------- MODULE SessionProofs ---------------------------
(***************************************************************************)
(* Session for every set of threads and addresses, every backoff and every *)
(* bound: type correctness, that reconnectRunning admits one reconnect     *)
(* loop at a time, and that every thread comes nearer to its end.          *)
(***************************************************************************)
EXTENDS Session, TLAPS

USE ThreadsAssumption, InputsAssumption, DelayAssumption, BoundsAssumption

\* A step of each form keeps the types if the new label and the new value do.
LEMMA LocalStepType ==
    ASSUME TypeOK, NEW t \in Threads, NEW from, NEW to \in Labels,
           LocalStep(t, from, to)
    PROVE  TypeOK'
BY DEF TypeOK, LocalStep, Goto, reconnectVars, localVars, envVars

LEMMA RuntimeStepType ==
    ASSUME TypeOK, NEW t \in Threads, NEW from, NEW to \in Labels, NEW new \in Runtimes,
           RuntimeStep(t, from, to, new)
    PROVE  TypeOK'
BY DEF TypeOK, RuntimeStep, Goto, reconnectVars, localVars, envVars

LEMMA ClientStepType ==
    ASSUME TypeOK, NEW t \in Threads, NEW from, NEW to \in Labels, NEW new \in Clients,
           ClientStep(t, from, to, new)
    PROVE  TypeOK'
BY DEF TypeOK, ClientStep, Goto, reconnectVars, localVars, envVars

LEMMA RoutesAreLabels ==
    ASSUME NEW t
    PROVE  /\ DialOk(t) \in Labels /\ DialFail(t) \in Labels
           /\ AuthDone(t) \in Labels /\ AuthFail(t) \in Labels
           /\ SubOk(t) \in Labels /\ SubFail(t) \in Labels
BY DEF DialOk, DialFail, AuthDone, AuthFail, SubOk, SubFail, Labels

LEMMA TypeInit == Init => TypeOK
BY DEF Init, TypeOK, Runtimes, Clients, Fresh, NoSession, Labels

\* closeClientForReconnect, whichever Runtime its caller leaves behind.
LEMMA CloseClientType ==
    ASSUME TypeOK, NEW t \in Threads, NEW from, NEW next \in Labels,
           CloseClient(t, from, next), UNCHANGED saved, UNCHANGED arg, rt' \in Runtimes
    PROVE  TypeOK'
<1>1. "drop" \in Labels
  BY DEF Labels
<1> QED
  BY <1>1 DEF TypeOK, CloseClient, Goto, reconnectVars, envVars

LEMMA SessionStepType ==
    ASSUME TypeOK, NEW t \in Threads, SessionStep(t)
    PROVE  TypeOK'
<1> USE RoutesAreLabels
<1>0. rt \in Runtimes /\ client \in Clients /\ after[t] \in Labels /\ arg[t] \in Addrs \cup {NoAddr}
  BY DEF TypeOK
<1>1. CASE MarkLoggedOut(t)
  <2>1. rt' \in Runtimes
    BY <1>0, <1>1 DEF MarkLoggedOut, Runtimes
  <2>2. "forget" \in Labels /\ "wait" \in Labels /\ "errDesired" \in Labels
    BY DEF Labels
  <2>3. CASE Goto(t, "errLogout", "errDesired") /\ UNCHANGED <<reconnectVars, client, localVars, envVars>>
    BY <2>1, <2>2, <2>3 DEF TypeOK, Goto, reconnectVars, localVars, envVars
  <2> QED
    BY <1>1, <2>1, <2>2, <2>3, CloseClientType DEF MarkLoggedOut
<1>2. CASE ClientClose(t)
  <2>1. NoSession \in Clients /\ "down" \in Labels
    BY DEF NoSession, Fresh, Clients, Labels
  <2> QED
    BY <1>2, <2>1, ClientStepType DEF ClientClose
<1>3. CASE ClientDown(t)
  <2>1. rt' \in Runtimes /\ "idle" \in Labels
    BY <1>0, <1>3 DEF ClientDown, Runtimes, Labels
  <2> QED
    BY <1>0, <1>3, <2>1 DEF TypeOK, ClientDown, Goto, reconnectVars, envVars
<1>4. CASE Dial(t)
  BY <1>4 DEF TypeOK, Dial, Goto, Clients, Fresh, Labels, reconnectVars, localVars
<1>5. CASE DialFails(t) \/ DialAlready(t) \/ SendSubFails(t) \/ Subscribe(t) \/ SendAuthFails(t)
  <2>1. "already" \in Labels /\ "subSend" \in Labels /\ "refused" \in Labels
    BY DEF Labels
  <2> QED
    BY <1>5, <2>1, LocalStepType
       DEF DialFails, DialAlready, SendSubFails, Subscribe, SendAuthFails
<1>6. CASE Already(t)
  <2>1. "setAddr" \in Labels /\ "redial" \in Labels
    BY DEF Labels
  <2> QED
    BY <1>0, <1>6, <2>1, LocalStepType, CloseClientType DEF Already
<1>7. CASE MarkConnected(t) \/ SetAddr(t)
  <2>1. /\ [rt EXCEPT !.connected = TRUE] \in Runtimes
        /\ [rt EXCEPT !.addr = arg[t]] \in Runtimes
        /\ "setAddr" \in Labels
    BY <1>0 DEF Runtimes, Labels
  <2> QED
    BY <1>7, <2>1, RuntimeStepType DEF MarkConnected, SetAddr
<1>8. CASE Intend(t)
  <2>1. [rt EXCEPT !.reconnectDesired = TRUE] \in Runtimes /\ {"idle", "subscribe"} \subseteq Labels
    BY <1>0 DEF Runtimes, Labels
  <2> QED
    BY <1>8, <2>1, RuntimeStepType DEF Intend
<1>9. CASE SendAuth(t) \/ SendSub(t)
  <2>1. /\ [client EXCEPT !.pending = @ \cup {t}] \in Clients
        /\ "await" \in Labels /\ "subAwait" \in Labels
    BY <1>0 DEF Clients, Labels
  <2> QED
    BY <1>9, <2>1, ClientStepType DEF SendAuth, SendSub
<1>10. CASE AuthAnswered(t) \/ AuthNotAnswered(t) \/ SubAnswered(t) \/ SubNotAnswered(t)
  <2>1. \A e \in {{}, {"login"}, {"sub"}} : Answered(t, e) \in Clients
    BY <1>0 DEF Answered, Clients
  <2>2. "accepted" \in Labels /\ "refused" \in Labels
    BY DEF Labels
  <2> QED
    BY <1>10, <2>1, <2>2, LocalStepType, ClientStepType
       DEF AuthAnswered, AuthNotAnswered, SubAnswered, SubNotAnswered
<1>11. CASE AuthRefused(t) \/ AuthAccepted(t)
  <2>1. /\ [rt EXCEPT !.loggedIn = FALSE] \in Runtimes
        /\ [rt EXCEPT !.loggedIn = TRUE, !.identity = TRUE] \in Runtimes
        /\ "idle" \in Labels /\ "intend" \in Labels
    BY <1>0 DEF Runtimes, Labels
  <2> QED
    BY <1>11, <2>1, RuntimeStepType DEF AuthRefused, AuthAccepted
<1> QED
  BY <1>1, <1>2, <1>3, <1>4, <1>5, <1>6, <1>7, <1>8, <1>9, <1>10, <1>11 DEF SessionStep

LEMMA CallsType ==
    ASSUME TypeOK, NEW c \in Callers, Calls(c)
    PROVE  TypeOK'
<1>0. rt \in Runtimes /\ c \in Threads
  BY DEF TypeOK, Threads
<1>1. ASSUME NEW o \in AllOps, NEW to \in Labels, NEW new \in Runtimes, Call(c, o, to, new),
             arg' \in [Threads -> Addrs \cup {NoAddr}]
      PROVE  TypeOK'
  BY <1>0, <1>1 DEF TypeOK, Call, Goto, reconnectVars
<1>2. UNCHANGED arg => arg' \in [Threads -> Addrs \cup {NoAddr}]
  BY DEF TypeOK
<1>3. {"dial", "close", "request", "subscribe", "reportOn", "reportOff", "idle"} \subseteq Labels
  BY DEF Labels
<1>4. {"connect", "close", "login", "register", "clearAuth",
       "startNotify", "stopNotify", "startReporting", "stopReporting"} \subseteq AllOps
  BY DEF AllOps
<1>5. ASSUME NEW a \in Addrs, CallConnect(c, a)
      PROVE  TypeOK'
  <2>1. arg' \in [Threads -> Addrs \cup {NoAddr}] /\ [rt EXCEPT !.addr = a] \in Runtimes
    BY <1>0, <1>5 DEF CallConnect, Runtimes, TypeOK
  <2> QED
    BY <1>1, <1>3, <1>4, <1>5, <2>1 DEF CallConnect
<1>6. CASE CallClose(c) \/ CallStartNotify(c) \/ CallStartReporting(c)
           \/ \E o \in {"login", "register"} : CallAuth(c, o)
  BY <1>0, <1>1, <1>2, <1>3, <1>4, <1>6
     DEF CallClose, CallStartNotify, CallStartReporting, CallAuth
<1>7. CASE CallStop(c) \/ CallClearAuth(c)
  <2>1. /\ \A w : [rt EXCEPT !.work = @ \ {w}] \in Runtimes
        /\ [rt EXCEPT !.identity = FALSE, !.loggedIn = FALSE] \in Runtimes
    BY <1>0 DEF Runtimes
  <2> QED
    BY <1>1, <1>2, <1>3, <1>4, <1>7, <2>1 DEF CallStop, CallClearAuth
<1> QED
  BY <1>5, <1>6, <1>7 DEF Calls

LEMMA CallerStepType ==
    ASSUME TypeOK, NEW c \in Callers, CallerStep(c)
    PROVE  TypeOK'
<1>0. rt \in Runtimes /\ c \in Threads /\ arg[c] \in Addrs \cup {NoAddr}
  BY DEF TypeOK, Threads
<1>1. {"cancel", "stopReport", "reportOff", "stopNotify", "logout", "readdr", "dial", "idle"} \subseteq Labels
  BY DEF Labels
<1>2. /\ [rt EXCEPT !.reconnectDesired = FALSE] \in Runtimes
      /\ [rt EXCEPT !.addr = NoAddr] \in Runtimes
      /\ [rt EXCEPT !.addr = arg[c]] \in Runtimes
      /\ \A w \in {"collect", "report", "notify"} : [rt EXCEPT !.work = @ \ {w}] \in Runtimes
      /\ [rt EXCEPT !.work = @ \cup {"notify"}] \in Runtimes
      /\ [rt EXCEPT !.work = IF "collect" \in @ THEN @ ELSE @ \cup {"collect", "report"}] \in Runtimes
  BY <1>0 DEF Runtimes
<1>3. CASE CancelReconnect(c)
  BY <1>0, <1>1, <1>3 DEF TypeOK, CancelReconnect, Goto, localVars, envVars
<1>4. CASE CloseIntent(c) \/ StopWork(c) \/ ForgetAddr(c) \/ Readdress(c) \/ NotifyDone(c) \/ ReportOn(c)
  BY <1>0, <1>1, <1>2, <1>4, RuntimeStepType
     DEF CloseIntent, StopWork, ForgetAddr, Readdress, NotifyDone, ReportOn
<1> QED
  BY <1>0, <1>3, <1>4, SessionStepType DEF CallerStep

\* The backoff stays within its bounds: doubling stops at MaxDelay.
LEMMA NextDelayInRange ==
    ASSUME NEW d \in InitialDelay..MaxDelay
    PROVE  NextDelay(d) \in InitialDelay..MaxDelay
BY DEF NextDelay

LEMMA LoopStepType ==
    ASSUME TypeOK, NEW l \in Loops, LoopStep(l)
    PROVE  TypeOK'
<1>0. rt \in Runtimes /\ l \in Threads /\ rt.addr \in Addrs \cup {NoAddr} /\ rt.identity \in BOOLEAN
  BY DEF TypeOK, Threads, Runtimes
<1>1. {"readAddr", "exit", "wait", "drop", "dial", "ident", "request", "check", "abort",
       "abortLogout", "top", "idle"} \subseteq Labels
  BY DEF Labels
<1>2. CASE ReadAddr(l)
  <2>1. CASE LocalStep(l, "readAddr", "wait")
    BY <1>0, <1>1, <2>1, LocalStepType
  <2>2. CASE ~LocalStep(l, "readAddr", "wait")
    BY <1>0, <1>1, <1>2, <2>2 DEF TypeOK, ReadAddr, CloseClient, Goto, reconnectVars, envVars
  <2> QED
    BY <2>1, <2>2
<1>3. CASE CheckDialed(l)
  BY <1>0, <1>1, <1>3, LocalStepType, CloseClientType DEF CheckDialed
<1>4. CASE Top(l) \/ CheckIdentity(l) \/ CheckLoggedIn(l) \/ CheckRestored(l) \/ WaitCancelled(l)
  BY <1>0, <1>1, <1>4, LocalStepType
     DEF Top, CheckIdentity, CheckLoggedIn, CheckRestored, WaitCancelled
<1>5. CASE AbortIntent(l)
  <2>1. [rt EXCEPT !.reconnectDesired = FALSE] \in Runtimes
    BY <1>0 DEF Runtimes
  <2> QED
    BY <1>0, <1>1, <1>5, <2>1, RuntimeStepType DEF AbortIntent
<1>6. CASE WaitOver(l)
  <2>1. NextDelay(delay[l]) \in InitialDelay..MaxDelay
    BY NextDelayInRange DEF TypeOK
  <2> QED
    BY <1>0, <1>1, <1>6, <2>1 DEF TypeOK, WaitOver, Goto, localVars, envVars
<1>7. CASE Exit(l)
  BY <1>0, <1>1, <1>7 DEF TypeOK, Exit, Goto, envVars
<1> QED
  BY <1>0, <1>2, <1>3, <1>4, <1>5, <1>6, <1>7, SessionStepType DEF LoopStep

LEMMA ReaderStepType ==
    ASSUME TypeOK, NEW r \in Readers, ReaderStep(r) \/ Break(r)
    PROVE  TypeOK'
<1>0. rt \in Runtimes /\ r \in Threads
  BY DEF TypeOK, Threads
<1>1. {"errLogout", "errSchedule", "err", "top", "idle"} \subseteq Labels
  BY DEF Labels
<1>2. CASE ErrDisconnected(r)
  <2>1. [rt EXCEPT !.connected = FALSE] \in Runtimes
    BY <1>0 DEF Runtimes
  <2> QED
    BY <1>0, <1>1, <1>2, <2>1, RuntimeStepType DEF ErrDisconnected
<1>3. CASE MarkLoggedOut(r)
  BY <1>0, <1>3, SessionStepType DEF SessionStep
<1>4. CASE ErrDesired(r) \/ AlreadyScheduled(r)
  BY <1>0, <1>1, <1>4, LocalStepType DEF ErrDesired, AlreadyScheduled
<1>5. ASSUME NEW l \in Loops, ScheduleReconnect(r, l)
      PROVE  TypeOK'
  BY <1>0, <1>1, <1>5 DEF TypeOK, ScheduleReconnect, Threads, localVars, envVars
<1>6. CASE Break(r)
  BY <1>0, <1>1, <1>6 DEF TypeOK, Break, Goto, Fresh, Clients, reconnectVars, localVars
<1> QED
  BY <1>2, <1>3, <1>4, <1>5, <1>6 DEF ReaderStep

\* Type correctness, which includes the bounds of the reconnect backoff
\* (reconnectInitialDelay to reconnectMaxDelay) at every moment.
THEOREM TypeCorrect == Spec => []TypeOK
<1>1. Init => TypeOK
  BY TypeInit
<1>2. TypeOK /\ [Next]_vars => TypeOK'
  <2>1. CASE UNCHANGED vars
    BY <2>1 DEF TypeOK, vars, reconnectVars, localVars, envVars
  <2> QED
    BY <2>1, CallsType, CallerStepType, LoopStepType, ReaderStepType DEF Next
<1> QED
  BY <1>1, <1>2, PTL DEF Spec

-----------------------------------------------------------------------------
(***************************************************************************)
(* One loop at a time.  LoopIsRegistered is kept by every step except that *)
(* a subroutine of the session might return a loop to "idle" and so end    *)
(* its goroutine without the deferred function; LoopControl rules it out:  *)
(* a loop stays at its own labels and has not made an API call.            *)
(***************************************************************************)

LoopLabels == {"idle", "drop", "down", "dial", "already", "redial", "mark", "setAddr",
    "request", "await", "refused", "accepted", "intend", "subscribe", "subSend", "subAwait",
    "top", "readAddr", "ctx1", "ident", "ctx2", "abort", "abortLogout", "check", "wait", "exit"}

LoopControl ==
    \A l \in Loops :
        /\ op[l] = "none"
        /\ pc[l] \in LoopLabels
        /\ pc[l] \in {"drop", "down"} => after[l] \in {"dial", "redial", "wait"}

IInv == TypeOK /\ LoopControl /\ LoopIsRegistered

\* A step of one thread that schedules nothing, and ends no loop.
LEMMA ThreadStepKeepsLoops ==
    ASSUME IInv, NEW t \in Threads, NEW to,
           pc' = [pc EXCEPT ![t] = to], UNCHANGED reconnect,
           \A l \in Loops : op'[l] = op[l],
           \A l \in Loops \ {t} : after'[l] = after[l],
           t \in Loops =>
               /\ pc[t] # "idle" /\ to \in LoopLabels \ {"idle"}
               /\ to \in {"drop", "down"} => after'[t] \in {"dial", "redial", "wait"}
    PROVE  LoopControl' /\ LoopIsRegistered'
<1>1. \A l \in Loops : l \in Threads
  BY DEF Threads
<1>2. /\ \A l \in Loops \ {t} : pc'[l] = pc[l]
      /\ t \in Loops => pc'[t] = to
  BY <1>1 DEF IInv, TypeOK
<1>3. LoopControl'
  BY <1>2 DEF IInv, LoopControl
<1>4. \A l \in Loops : Active(l)' <=> Active(l)
  BY <1>2 DEF Active
<1>5. LoopIsRegistered'
  BY <1>4 DEF IInv, LoopIsRegistered
<1> QED
  BY <1>3, <1>5

\* Callers and read loops, except for the step that starts a loop.
LEMMA OtherThreadsKeepLoops ==
    ASSUME IInv, NEW t \in Threads \ Loops,
           \/ Calls(t) \/ CallerStep(t) \/ Break(t)
           \/ ErrDisconnected(t) \/ ErrDesired(t) \/ AlreadyScheduled(t)
    PROVE  LoopControl' /\ LoopIsRegistered'
<1> DEFINE Frame == /\ \E to : pc' = [pc EXCEPT ![t] = to]
                    /\ UNCHANGED reconnect
                    /\ \A l \in Loops : op'[l] = op[l] /\ after'[l] = after[l]
<1>0. op \in [Threads -> AllOps \cup {"none"}] /\ after \in [Threads -> Labels]
      /\ \A l \in Loops : l \in Threads /\ l # t
  BY DEF IInv, TypeOK, Threads
<1>1. ASSUME NEW from, NEW to, LocalStep(t, from, to)
      PROVE  Frame
  BY <1>1 DEF LocalStep, Goto, reconnectVars, localVars
<1>2. ASSUME NEW from, NEW to, NEW new, RuntimeStep(t, from, to, new)
      PROVE  Frame
  BY <1>2 DEF RuntimeStep, Goto, reconnectVars, localVars
<1>3. ASSUME NEW from, NEW to, NEW new, ClientStep(t, from, to, new)
      PROVE  Frame
  BY <1>3 DEF ClientStep, Goto, reconnectVars, localVars
<1>4. ASSUME NEW from, NEW to, CloseClient(t, from, to)
      PROVE  Frame
  BY <1>0, <1>4 DEF CloseClient, Goto, reconnectVars
<1>5. ASSUME NEW o, NEW to, NEW new, Call(t, o, to, new)
      PROVE  Frame
  BY <1>0, <1>5 DEF Call, Goto, reconnectVars
<1>6. Calls(t) => Frame
  BY <1>5 DEF Calls, CallConnect, CallClose, CallAuth, CallStartNotify, CallStartReporting,
              CallStop, CallClearAuth
<1>7. MarkLoggedOut(t) => Frame
  BY <1>4 DEF MarkLoggedOut, Goto, reconnectVars, localVars
<1>8. ClientDown(t) \/ Dial(t) \/ CancelReconnect(t) \/ Break(t) => Frame
  BY <1>0 DEF ClientDown, Dial, CancelReconnect, Break, Goto, reconnectVars, localVars
<1>9. DialFails(t) \/ DialAlready(t) \/ Already(t) \/ SendAuthFails(t) \/ Subscribe(t)
      \/ SendSubFails(t) \/ ErrDesired(t) \/ AlreadyScheduled(t) => Frame
  BY <1>1, <1>4 DEF DialFails, DialAlready, Already, SendAuthFails, Subscribe, SendSubFails,
              ErrDesired, AlreadyScheduled
<1>10. MarkConnected(t) \/ SetAddr(t) \/ Intend(t) \/ AuthRefused(t) \/ AuthAccepted(t)
       \/ CloseIntent(t) \/ StopWork(t) \/ ForgetAddr(t) \/ Readdress(t) \/ NotifyDone(t)
       \/ ReportOn(t) \/ ErrDisconnected(t) => Frame
  BY <1>2 DEF MarkConnected, SetAddr, Intend, AuthRefused, AuthAccepted, CloseIntent, StopWork,
              ForgetAddr, Readdress, NotifyDone, ReportOn, ErrDisconnected
<1>11. ClientClose(t) \/ SendAuth(t) \/ AuthAnswered(t) \/ AuthNotAnswered(t) \/ SendSub(t)
       \/ SubAnswered(t) \/ SubNotAnswered(t) => Frame
  BY <1>1, <1>3 DEF ClientClose, SendAuth, AuthAnswered, AuthNotAnswered, SendSub, SubAnswered,
              SubNotAnswered
<1>12. Frame
  BY <1>6, <1>7, <1>8, <1>9, <1>10, <1>11 DEF CallerStep, SessionStep
<1> QED
  BY <1>12, ThreadStepKeepsLoops

\* A loop stays a loop until its deferred function.
LEMMA LoopStepKeepsLoops ==
    ASSUME IInv, NEW l \in Loops, LoopStep(l), ~Exit(l)
    PROVE  LoopControl' /\ LoopIsRegistered'
<1> DEFINE Body == LoopLabels \ {"idle", "drop", "down"}
           Move(to) == /\ pc' = [pc EXCEPT ![l] = to] /\ pc[l] # "idle"
                       /\ UNCHANGED reconnect
                       /\ \A m \in Loops : op'[m] = op[m]
                       /\ \A m \in Loops \ {l} : after'[m] = after[m]
                       /\ to \in LoopLabels \ {"idle"}
                       /\ to \in {"drop", "down"} => after'[l] \in {"dial", "redial", "wait"}
           Frame == \E to : Move(to)
<1>0. /\ after \in [Threads -> Labels] /\ l \in Threads /\ op[l] = "none"
      /\ pc[l] \in LoopLabels
      /\ pc[l] \in {"drop", "down"} => after[l] \in {"dial", "redial", "wait"}
  BY DEF IInv, TypeOK, LoopControl, Threads
<1>1. ASSUME NEW from, NEW to \in Body, from # "idle", LocalStep(l, from, to)
      PROVE  Frame
  BY <1>1 DEF LocalStep, Goto, reconnectVars, localVars
<1>2. ASSUME NEW from, NEW to \in Body, NEW new, from # "idle", RuntimeStep(l, from, to, new)
      PROVE  Frame
  BY <1>2 DEF RuntimeStep, Goto, reconnectVars, localVars
<1>3. ASSUME NEW from, NEW to \in Body, NEW new, from # "idle", ClientStep(l, from, to, new)
      PROVE  Frame
  BY <1>3 DEF ClientStep, Goto, reconnectVars, localVars
<1>4. ASSUME NEW from, NEW to \in {"dial", "redial", "wait"}, from # "idle", CloseClient(l, from, to)
      PROVE  Frame
  <2>1. Move("drop")
    BY <1>0, <1>4 DEF CloseClient, Goto, reconnectVars, LoopLabels
  <2> QED
    BY <2>1
<1>5. DialOk(l) = "ctx1" /\ DialFail(l) = "wait" /\ AuthDone(l) = "ctx2" /\ AuthFail(l) = "wait"
      /\ SubOk(l) = "ctx2" /\ SubFail(l) = "ctx2"
  BY <1>0 DEF DialOk, DialFail, AuthDone, AuthFail, SubOk, SubFail
<1>6. {"wait", "already", "refused", "ctx2", "subSend", "setAddr", "readAddr", "exit", "request",
       "check", "ident", "abort", "ctx1", "subscribe", "intend", "abortLogout", "await",
       "accepted", "subAwait", "mark", "top", "dial", "redial"} \subseteq Body
  BY DEF LoopLabels
<1>7. pc[l] # "desire" /\ pc[l] # "logout" /\ pc[l] # "errLogout"
  BY <1>0 DEF LoopLabels
<1>8. MarkLoggedOut(l) => Frame
  <2>1. MarkLoggedOut(l) => CloseClient(l, "abortLogout", "wait")
    BY <1>7 DEF MarkLoggedOut, CloseClient, Goto
  <2> QED
    BY <1>4, <2>1
<1>9. ClientClose(l) => Frame
  BY <1>0 DEF ClientClose, ClientStep, Goto, reconnectVars, localVars, LoopLabels
<1>10. ClientDown(l) => Frame
  <2>1. ClientDown(l) => Move(after[l])
    BY <1>0 DEF ClientDown, Goto, reconnectVars, LoopLabels
  <2> QED
    BY <2>1
<1>11. Dial(l) => Frame
  BY <1>0, <1>6 DEF Dial, Goto, reconnectVars, localVars
<1>12. DialFails(l) \/ DialAlready(l) \/ Already(l) \/ SendAuthFails(l) \/ Subscribe(l)
       \/ SendSubFails(l) => Frame
  BY <1>1, <1>4, <1>5, <1>6 DEF DialFails, DialAlready, Already, SendAuthFails, Subscribe, SendSubFails
<1>13. MarkConnected(l) \/ SetAddr(l) \/ AuthRefused(l) \/ AuthAccepted(l) \/ AbortIntent(l) => Frame
  BY <1>0, <1>2, <1>5, <1>6 DEF MarkConnected, SetAddr, AuthRefused, AuthAccepted, AbortIntent
<1>14. Intend(l) => Frame
  BY <1>2, <1>5, <1>6, <1>7 DEF Intend, RuntimeStep, Goto
<1>15. SendAuth(l) \/ AuthAnswered(l) \/ AuthNotAnswered(l) \/ SendSub(l) \/ SubAnswered(l)
       \/ SubNotAnswered(l) => Frame
  BY <1>1, <1>3, <1>5, <1>6 DEF SendAuth, AuthAnswered, AuthNotAnswered, SendSub, SubAnswered,
              SubNotAnswered
<1>16. Top(l) \/ CheckDialed(l) \/ CheckIdentity(l) \/ CheckLoggedIn(l) \/ CheckRestored(l)
       \/ WaitCancelled(l) => Frame
  BY <1>1, <1>4, <1>6 DEF Top, CheckDialed, CheckIdentity, CheckLoggedIn, CheckRestored, WaitCancelled
<1>17. ReadAddr(l) => Frame
  BY <1>1, <1>4, <1>6 DEF ReadAddr
<1>18. WaitOver(l) => Frame
  BY <1>6 DEF WaitOver, Goto, localVars
<1>19. Frame
  BY <1>8, <1>9, <1>10, <1>11, <1>12, <1>13, <1>14, <1>15, <1>16, <1>17, <1>18
     DEF LoopStep, SessionStep
<1> QED
  BY <1>0, <1>19, ThreadStepKeepsLoops

\* The deferred function ends the registered loop, and with it the registration.
LEMMA ExitKeepsLoops ==
    ASSUME IInv, NEW l \in Loops, Exit(l)
    PROVE  LoopControl' /\ LoopIsRegistered'
<1>0. pc \in [Threads -> Labels] /\ \A m \in Loops : m \in Threads
  BY DEF IInv, TypeOK, Threads
<1>1. \A m \in Loops : Active(m) => m = l
  BY DEF IInv, LoopIsRegistered, Exit, Goto, Active
<1>2. \A m \in Loops : pc'[m] = "idle"
  BY <1>0, <1>1 DEF Exit, Goto, Active
<1>3. LoopControl'
  BY <1>2 DEF IInv, LoopControl, Exit, LoopLabels
<1>4. LoopIsRegistered'
  BY <1>2 DEF LoopIsRegistered, Active, Exit
<1> QED
  BY <1>3, <1>4

\* A loop starts, under reconnectMu, only while none is registered.
LEMMA ScheduleKeepsLoops ==
    ASSUME IInv, NEW r \in Readers, NEW l \in Loops, ScheduleReconnect(r, l)
    PROVE  LoopControl' /\ LoopIsRegistered'
<1>0. pc \in [Threads -> Labels] /\ r \notin Loops /\ \A m \in Loops : m \in Threads
  BY DEF IInv, TypeOK, Threads
<1>1. \A m \in Loops : ~Active(m)
  BY DEF IInv, LoopIsRegistered, ScheduleReconnect
<1>2. \A m \in Loops : pc'[m] = IF m = l THEN "top" ELSE "idle"
  BY <1>0, <1>1 DEF ScheduleReconnect, Active
<1>3. LoopControl'
  <2>1. op' = op
    BY DEF ScheduleReconnect, localVars
  <2>2. \A m \in Loops : op[m] = "none"
    BY DEF IInv, LoopControl
  <2>3. \A m \in Loops : pc'[m] \in {"idle", "top"}
    BY <1>2
  <2> QED
    BY <2>1, <2>2, <2>3 DEF LoopControl, LoopLabels
<1>4. LoopIsRegistered'
  <2>1. reconnect' = [cancel |-> l, running |-> TRUE]
    BY DEF ScheduleReconnect
  <2>2. \A m \in Loops : pc'[m] # "idle" <=> m = l
    BY <1>2
  <2> QED
    BY <2>1, <2>2 DEF LoopIsRegistered, Active
<1> QED
  BY <1>3, <1>4

LEMMA Inductive == IInv /\ [Next]_vars => IInv'
<1> SUFFICES ASSUME IInv, [Next]_vars
             PROVE  IInv'
  OBVIOUS
<1>1. TypeOK'
  <2>1. CASE UNCHANGED vars
    BY <2>1 DEF IInv, TypeOK, vars, reconnectVars, localVars, envVars
  <2> QED
    BY <2>1, CallsType, CallerStepType, LoopStepType, ReaderStepType DEF Next, IInv
<1>2. LoopControl' /\ LoopIsRegistered'
  <2>0. Callers \subseteq Threads \ Loops /\ Readers \subseteq Threads \ Loops
    BY DEF Threads
  <2>1. CASE UNCHANGED vars
    BY <2>1 DEF IInv, LoopControl, LoopIsRegistered, Active, vars, reconnectVars, localVars
  <2>2. ASSUME NEW c \in Callers, Calls(c) \/ CallerStep(c)
        PROVE  LoopControl' /\ LoopIsRegistered'
    BY <2>0, <2>2, OtherThreadsKeepLoops
  <2>3. ASSUME NEW l \in Loops, LoopStep(l)
        PROVE  LoopControl' /\ LoopIsRegistered'
    BY <2>3, LoopStepKeepsLoops, ExitKeepsLoops
  <2>4. ASSUME NEW r \in Readers, ReaderStep(r) \/ Break(r)
        PROVE  LoopControl' /\ LoopIsRegistered'
    <3>1. CASE MarkLoggedOut(r)
      BY <2>0, <3>1, OtherThreadsKeepLoops DEF CallerStep, SessionStep
    <3>2. ASSUME NEW l \in Loops, ScheduleReconnect(r, l)
          PROVE  LoopControl' /\ LoopIsRegistered'
      BY <3>2, ScheduleKeepsLoops
    <3> QED
      BY <2>0, <2>4, <3>1, <3>2, OtherThreadsKeepLoops DEF ReaderStep
  <2> QED
    BY <2>1, <2>2, <2>3, <2>4 DEF Next
<1> QED
  BY <1>1, <1>2 DEF IInv

LEMMA InitIInv == Init => IInv
<1> SUFFICES ASSUME Init
             PROVE  IInv
  OBVIOUS
<1>1. \A l \in Loops : l \in Threads
  BY DEF Threads
<1>2. LoopControl
  BY <1>1 DEF Init, LoopControl, LoopLabels
<1>3. LoopIsRegistered
  BY <1>1 DEF Init, LoopIsRegistered, Active
<1> QED
  BY <1>2, <1>3, TypeInit DEF IInv

\* Every reconnect goroutine that has not finished its deferred function is the one
\* reconnectRunning and reconnectCancel stand for, and while reconnectRunning is set
\* there is one.
THEOREM LoopsAreRegistered == Spec => []LoopIsRegistered
<1>1. IInv => LoopIsRegistered
  BY DEF IInv
<1> QED
  BY <1>1, InitIInv, Inductive, PTL DEF Spec

\* There is never a second reconnectLoop, whatever the host calls, however callbacks
\* and cancellations interleave.
THEOREM OneReconnectLoop == Spec => []AtMostOneLoop
<1>1. TypeOK /\ LoopIsRegistered => AtMostOneLoop
  BY DEF LoopIsRegistered, AtMostOneLoop
<1> QED
  BY <1>1, TypeCorrect, LoopsAreRegistered, PTL
-----------------------------------------------------------------------------
(***************************************************************************)
(* Every thread comes nearer to its end.  Distance falls from label to     *)
(* label; only the subroutine closeClientForReconnect needs an invariant:  *)
(* it returns to one of four labels.                                       *)
(***************************************************************************)
Returns == \A t \in Threads : pc[t] \in {"drop", "down"} => after[t] \in {"forget", "dial", "redial", "wait"}

Nearer ==
    \A t \in Threads : pc'[t] # pc[t] /\ pc[t] # "idle" =>
        \/ Ahead(t)' < Ahead(t)
        \/ pc[t] = "top" /\ rt.reconnectDesired /\ t \notin cancelled

\* A step from one label to another, outside of the subroutine.
LEMMA GotoNearer ==
    ASSUME TypeOK, Returns, NEW t \in Threads, NEW from, NEW to,
           Goto(t, from, to), UNCHANGED after,
           from \notin {"drop", "down"}, to \notin {"drop", "down"},
           \/ from = "idle" \/ Distance[to] < Distance[from]
           \/ from = "top" /\ rt.reconnectDesired /\ t \notin cancelled
    PROVE  Nearer /\ Returns'
<1>1. pc[t] = from /\ pc'[t] = to /\ \A u \in Threads \ {t} : pc'[u] = pc[u]
  BY DEF Goto, TypeOK
<1>2. Ahead(t) = Distance[from] /\ Ahead(t)' = Distance[to]
  BY <1>1 DEF Ahead
<1>3. Nearer
  BY <1>1, <1>2 DEF Nearer
<1>4. Returns'
  BY <1>1 DEF Returns
<1> QED
  BY <1>3, <1>4

\* A call of the subroutine.
LEMMA CloseClientNearer ==
    ASSUME TypeOK, Returns, NEW t \in Threads, NEW from,
           NEW next \in {"forget", "dial", "redial", "wait"}, CloseClient(t, from, next),
           from \notin {"idle", "drop", "down"}, Distance[next] + 2 < Distance[from]
    PROVE  Nearer /\ Returns'
<1>1. /\ pc[t] = from /\ pc'[t] = "drop" /\ after'[t] = next
      /\ \A u \in Threads \ {t} : pc'[u] = pc[u] /\ after'[u] = after[u]
  BY DEF CloseClient, Goto, TypeOK
<1>2. Ahead(t) = Distance[from] /\ Ahead(t)' = Distance[next] + 2
  BY <1>1 DEF Ahead
<1>3. Nearer
  BY <1>1, <1>2 DEF Nearer
<1>4. Returns'
  BY <1>1 DEF Returns
<1> QED
  BY <1>3, <1>4

\* The subroutine, and its return.
LEMMA SubroutineNearer ==
    ASSUME TypeOK, Returns, NEW t \in Threads, ClientClose(t) \/ ClientDown(t)
    PROVE  Nearer /\ Returns'
<1>1. Distance["forget"] = 28 /\ Distance["dial"] = 24 /\ Distance["redial"] = 20 /\ Distance["wait"] = 3
  BY DEF Distance
<1>2. CASE ClientClose(t)
  <2>1. /\ pc[t] = "drop" /\ pc'[t] = "down" /\ UNCHANGED after
        /\ \A u \in Threads \ {t} : pc'[u] = pc[u]
    BY <1>2 DEF ClientClose, ClientStep, Goto, localVars, TypeOK
  <2>2. after[t] \in {"forget", "dial", "redial", "wait"}
    BY <2>1 DEF Returns
  <2>3. Ahead(t) = Distance[after[t]] + 2 /\ Ahead(t)' = Distance[after[t]] + 1
    BY <2>1 DEF Ahead
  <2>4. Nearer
    BY <1>1, <2>1, <2>2, <2>3 DEF Nearer
  <2> QED
    BY <2>1, <2>2, <2>4 DEF Returns
<1>3. CASE ClientDown(t)
  <2>1. /\ pc[t] = "down" /\ pc'[t] = after[t]
        /\ \A u \in Threads \ {t} : pc'[u] = pc[u] /\ after'[u] = after[u]
    BY <1>3 DEF ClientDown, Goto, TypeOK
  <2>2. after[t] \in {"forget", "dial", "redial", "wait"}
    BY <2>1 DEF Returns
  <2>3. Ahead(t) = Distance[after[t]] + 1 /\ Ahead(t)' = Distance[after[t]]
    BY <2>1, <2>2 DEF Ahead
  <2>4. Nearer
    BY <1>1, <2>1, <2>2, <2>3 DEF Nearer
  <2> QED
    BY <2>1, <2>2, <2>4 DEF Returns
<1> QED
  BY <1>2, <1>3

LEMMA SessionStepNearer ==
    ASSUME TypeOK, Returns, NEW t \in Threads, SessionStep(t)
    PROVE  Nearer /\ Returns'
<1>1. /\ DialOk(t) \in {"ctx1", "desire"} /\ DialFail(t) \in {"wait", "idle"}
      /\ AuthDone(t) \in {"ctx2", "idle"} /\ AuthFail(t) \in {"wait", "idle"}
      /\ SubOk(t) \in {"notifyOn", "ctx2", "idle"} /\ SubFail(t) \in {"notifyOff", "ctx2", "idle"}
  BY DEF DialOk, DialFail, AuthDone, AuthFail, SubOk, SubFail
<1>2. ASSUME NEW from, NEW to, LocalStep(t, from, to), Distance[to] < Distance[from],
             from \notin {"drop", "down"}, to \notin {"drop", "down"}
      PROVE  Nearer /\ Returns'
  BY <1>2, GotoNearer DEF LocalStep, localVars
<1>3. ASSUME NEW from, NEW to, NEW new, RuntimeStep(t, from, to, new) \/ ClientStep(t, from, to, new),
             Distance[to] < Distance[from],
             from \notin {"drop", "down"}, to \notin {"drop", "down"}
      PROVE  Nearer /\ Returns'
  BY <1>3, GotoNearer DEF RuntimeStep, ClientStep, localVars
<1>4. CASE MarkLoggedOut(t)
  <2>1. CASE CloseClient(t, "logout", "forget") \/ CloseClient(t, "abortLogout", "wait")
    BY <2>1, CloseClientNearer DEF Distance
  <2>2. CASE Goto(t, "errLogout", "errDesired") /\ UNCHANGED <<reconnectVars, client, localVars, envVars>>
    BY <2>2, GotoNearer DEF Distance, localVars
  <2> QED
    BY <1>4, <2>1, <2>2 DEF MarkLoggedOut
<1>5. CASE Dial(t)
  BY <1>5, GotoNearer DEF Dial, Distance, localVars
<1>6. CASE DialFails(t) \/ DialAlready(t) \/ SendAuthFails(t) \/ Subscribe(t) \/ SendSubFails(t)
  BY <1>1, <1>2, <1>6 DEF DialFails, DialAlready, SendAuthFails, Subscribe, SendSubFails, Distance
<1>7. CASE Already(t)
  <2>1. CASE LocalStep(t, "already", "setAddr")
    BY <1>2, <2>1 DEF Distance
  <2>2. CASE CloseClient(t, "already", "redial")
    BY <2>2, CloseClientNearer DEF Distance
  <2> QED
    BY <1>7, <2>1, <2>2 DEF Already
<1>8. CASE MarkConnected(t) \/ SetAddr(t) \/ AuthRefused(t) \/ AuthAccepted(t)
  BY <1>1, <1>3, <1>8 DEF MarkConnected, SetAddr, AuthRefused, AuthAccepted, Distance
<1>9. CASE Intend(t)
  BY <1>1, <1>3, <1>9 DEF Intend, Distance
<1>10. CASE SendAuth(t) \/ AuthAnswered(t) \/ AuthNotAnswered(t)
  BY <1>2, <1>3, <1>10 DEF SendAuth, AuthAnswered, AuthNotAnswered, Distance
<1>11. CASE SendSub(t) \/ SubAnswered(t) \/ SubNotAnswered(t)
  BY <1>1, <1>2, <1>3, <1>11 DEF SendSub, SubAnswered, SubNotAnswered, Distance
<1> QED
  BY <1>4, <1>5, <1>6, <1>7, <1>8, <1>9, <1>10, <1>11, SubroutineNearer DEF SessionStep

LEMMA CallerStepNearer ==
    ASSUME TypeOK, Returns, NEW c \in Callers, Calls(c) \/ CallerStep(c)
    PROVE  Nearer /\ Returns'
<1>0. c \in Threads
  BY DEF Threads
<1>1. ASSUME NEW o, NEW to, NEW new, Call(c, o, to, new), to \notin {"drop", "down"}
      PROVE  Nearer /\ Returns'
  BY <1>0, <1>1, GotoNearer DEF Call
<1>2. CASE Calls(c)
  <2>1. CASE \E a \in Addrs : CallConnect(c, a)
    BY <1>1, <2>1 DEF CallConnect
  <2>2. CASE CallClose(c) \/ CallStartNotify(c) \/ CallStartReporting(c) \/ CallStop(c) \/ CallClearAuth(c)
    BY <1>1, <2>2 DEF CallClose, CallStartNotify, CallStartReporting, CallStop, CallClearAuth
  <2>3. CASE \E o \in {"login", "register"} : CallAuth(c, o)
    BY <1>1, <2>3 DEF CallAuth
  <2> QED
    BY <1>2, <2>1, <2>2, <2>3 DEF Calls
<1>3. ASSUME NEW from, NEW to, NEW new, RuntimeStep(c, from, to, new), Distance[to] < Distance[from],
             from \notin {"drop", "down"}, to \notin {"drop", "down"}
      PROVE  Nearer /\ Returns'
  BY <1>0, <1>3, GotoNearer DEF RuntimeStep, localVars
<1>4. CASE CancelReconnect(c)
  BY <1>0, <1>4, GotoNearer DEF CancelReconnect, Distance, localVars
<1>5. CASE StopWork(c)
  BY <1>3, <1>5 DEF StopWork, Distance
<1>6. CASE CloseIntent(c) \/ ForgetAddr(c) \/ Readdress(c) \/ NotifyDone(c) \/ ReportOn(c)
  BY <1>3, <1>6 DEF CloseIntent, ForgetAddr, Readdress, NotifyDone, ReportOn, Distance
<1> QED
  BY <1>0, <1>2, <1>4, <1>5, <1>6, SessionStepNearer DEF CallerStep

LEMMA LoopStepNearer ==
    ASSUME TypeOK, Returns, NEW l \in Loops, LoopStep(l)
    PROVE  Nearer /\ Returns'
<1>0. l \in Threads
  BY DEF Threads
<1>1. ASSUME NEW from, NEW to, LocalStep(l, from, to),
             from \notin {"drop", "down"}, to \notin {"drop", "down"},
             \/ Distance[to] < Distance[from]
             \/ from = "top" /\ rt.reconnectDesired /\ l \notin cancelled
      PROVE  Nearer /\ Returns'
  BY <1>0, <1>1, GotoNearer DEF LocalStep, localVars
<1>2. CASE Top(l)
  BY <1>1, <1>2 DEF Top, Distance
<1>3. CASE ReadAddr(l)
  <2>1. CASE LocalStep(l, "readAddr", "wait")
    BY <1>1, <2>1 DEF Distance
  <2>2. CASE CloseClient(l, "readAddr", "dial")
    BY <1>0, <2>2, CloseClientNearer DEF Distance
  <2> QED
    BY <1>3, <2>1, <2>2 DEF ReadAddr
<1>4. CASE CheckDialed(l)
  <2>1. CASE LocalStep(l, "ctx1", "ident")
    BY <1>1, <2>1 DEF Distance
  <2>2. CASE CloseClient(l, "ctx1", "wait")
    BY <1>0, <2>2, CloseClientNearer DEF Distance
  <2> QED
    BY <1>4, <2>1, <2>2 DEF CheckDialed
<1>5. CASE CheckIdentity(l) \/ CheckLoggedIn(l) \/ CheckRestored(l) \/ WaitCancelled(l)
  BY <1>1, <1>5 DEF CheckIdentity, CheckLoggedIn, CheckRestored, WaitCancelled, Distance
<1>6. CASE AbortIntent(l)
  BY <1>0, <1>6, GotoNearer DEF AbortIntent, RuntimeStep, Distance, localVars
<1>7. CASE WaitOver(l) \/ Exit(l)
  BY <1>0, <1>7, GotoNearer DEF WaitOver, Exit, Distance, localVars
<1> QED
  BY <1>0, <1>2, <1>3, <1>4, <1>5, <1>6, <1>7, SessionStepNearer DEF LoopStep

LEMMA ReaderStepNearer ==
    ASSUME TypeOK, Returns, NEW r \in Readers, ReaderStep(r) \/ Break(r)
    PROVE  Nearer /\ Returns'
<1>0. r \in Threads /\ Loops \subseteq Threads
  BY DEF Threads
<1>1. CASE ErrDisconnected(r) \/ ErrDesired(r) \/ AlreadyScheduled(r) \/ Break(r)
  BY <1>0, <1>1, GotoNearer DEF ErrDisconnected, ErrDesired, AlreadyScheduled, Break, LocalStep,
            RuntimeStep, Distance, localVars
<1>2. CASE MarkLoggedOut(r)
  BY <1>0, <1>2, SessionStepNearer DEF SessionStep
<1>3. ASSUME NEW l \in Loops, ScheduleReconnect(r, l)
      PROVE  Nearer /\ Returns'
  <2>1. /\ pc[r] = "errSchedule" /\ pc[l] = "idle" /\ UNCHANGED after
        /\ pc'[r] = "idle" /\ pc'[l] = "top"
        /\ \A u \in Threads \ {r, l} : pc'[u] = pc[u]
    BY <1>0, <1>3 DEF ScheduleReconnect, localVars, TypeOK
  <2>2. Ahead(r) = 1 /\ Ahead(r)' = 0
    BY <2>1 DEF Ahead, Distance
  <2>3. Nearer
    BY <2>1, <2>2 DEF Nearer
  <2> QED
    BY <2>1, <2>3 DEF Returns
<1> QED
  BY <1>1, <1>2, <1>3 DEF ReaderStep

\* Whatever the other threads do, a thread ends after at most as many steps of its own as
\* Distance says, and only a reconnect loop that is wanted and not cancelled begins
\* another round (reconnectLoop, recoverOnce, onClientError and the calls of the host).
THEOREM ThreadsWindDown == Spec => StepsWindDown
<1>1. Init => Returns
  BY DEF Init, Returns
<1>2. TypeOK /\ Returns /\ [Next]_vars => Returns'
  <2>1. UNCHANGED vars => (Returns => Returns')
    BY DEF Returns, vars, localVars
  <2> QED
    BY <2>1, CallerStepNearer, LoopStepNearer, ReaderStepNearer DEF Next
<1>3. TypeOK /\ Returns /\ [Next]_vars => [Nearer]_vars
  BY CallerStepNearer, LoopStepNearer, ReaderStepNearer DEF Next
<1> QED
  BY <1>1, <1>2, <1>3, TypeCorrect, PTL DEF Spec, StepsWindDown, Nearer
=============================================================================

------------------------- MODULE SessionCloseProofs -------------------------
(***************************************************************************)
(* Close in Session, for every set of threads and every bound: a host that *)
(* makes one call at a time finds nothing left after Close, unless the     *)
(* recovery that Close cancels has taken back the intent to reconnect.     *)
(*                                                                         *)
(* Close takes the session down piece by piece while the recovery it has   *)
(* cancelled, and not waited for, may put every piece back.  The invariant *)
(* says for each piece from which label of Close on it is gone, or else in *)
(* the hands of a cancelled loop on its way to remove it.                  *)
(*                                                                         *)
(* Then, for calls that overlap in any way: what starts and stops leave of *)
(* reporting.                                                              *)
(***************************************************************************)
EXTENDS SessionProofs

\* The labels of Close from a piece's removal on: the client is marked down, closed,
\* the login is forgotten; the work ends; the recovery is cancelled.
DownLabels == {"forget", "idle"}
DroppedLabels == DownLabels \cup {"down"}
LoggedOutLabels == DroppedLabels \cup {"drop"}
SilentLabels == LoggedOutLabels \cup {"logout"}
UnreportedLabels == SilentLabels \cup {"stopNotify"}
UncollectedLabels == UnreportedLabels \cup {"reportOff"}
CancelledLabels == UncollectedLabels \cup {"stopReport"}
ClosingLabels == CancelledLabels \cup {"close", "cancel"}

CallersIn(S) == \A c \in Callers : pc[c] \in S

\* Whoever is at work for the host is in Close.
Closers ==
    /\ CallersIn(ClosingLabels)
    /\ \A c \in Callers : /\ pc[c] # "idle" => op[c] = "close"
                          /\ pc[c] \in {"drop", "down"} => after[c] = "forget"

WorkEnds ==
    /\ CallersIn(UncollectedLabels) => "collect" \notin rt.work
    /\ CallersIn(UnreportedLabels) => "report" \notin rt.work
    /\ CallersIn(SilentLabels) => "notify" \notin rt.work

\* A cancelled loop that will undo what it has just done.
Undoing(S) == \E l \in Loops : l \in cancelled /\ pc[l] \in S

\* A loop that started too late to be cancelled ends at its first look at the intent,
\* if that is gone.
LateLoopsLeave ==
    \A l \in Loops :
        Active(l) /\ l \notin cancelled /\ pc[l] \notin {"top", "exit"} => rt.reconnectDesired

Relogin == {"intend", "abortLogout"}
Redialled == {"mark", "setAddr", "ctx1", "abortLogout", "drop"}
Reconnected == {"setAddr", "ctx1", "abortLogout", "drop", "down"}

LeftIsUndone ==
    ~rt.reconnectDesired =>
        /\ rt.loggedIn /\ CallersIn(LoggedOutLabels) => Undoing(Relogin)
        /\ client.session # "none" /\ CallersIn(DroppedLabels) => Undoing(Redialled)
        /\ rt.connected /\ CallersIn(DownLabels) => Undoing(Reconnected)

CloseInv ==
    lastCall = "close" =>
        /\ Closers /\ WorkEnds
        /\ CallersIn(CancelledLabels) => LateLoopsLeave /\ LeftIsUndone

\* Only a cancelled loop takes back the intent.
AbortsCancelled ==
    \A l \in Loops : pc[l] \in {"abort", "abortLogout"} => l \in cancelled

\* A client without a session awaits nothing, and the hub holds nothing for it.
NoneIsEmpty == client.session = "none" => client = NoSession

CInv == CloseInv /\ AbortsCancelled /\ NoneIsEmpty

-----------------------------------------------------------------------------
(***************************************************************************)
(* The two parts that hold whatever is called.                             *)
(***************************************************************************)

LEMMA NoneIsEmptyInductive ==
    ASSUME TypeOK, NoneIsEmpty, [Next]_vars
    PROVE  NoneIsEmpty'
<1>0. client \in Clients
  BY DEF TypeOK
<1>1. UNCHANGED client => NoneIsEmpty'
  BY DEF NoneIsEmpty, NoSession
<1>2. ASSUME NEW t, NEW e, t \in client.pending, client' = Answered(t, e)
      PROVE  NoneIsEmpty'
  BY <1>0, <1>2 DEF NoneIsEmpty, NoSession, Fresh, Answered, Clients
<1>3. ASSUME NEW t \in Threads, SessionStep(t)
      PROVE  NoneIsEmpty'
  <2>1. CASE ClientClose(t)
    BY <2>1 DEF ClientClose, ClientStep, NoneIsEmpty, NoSession, Fresh
  <2>2. CASE Dial(t)
    BY <2>2 DEF Dial, NoneIsEmpty, Fresh
  <2>3. CASE SendAuth(t) \/ SendSub(t)
    BY <1>0, <2>3 DEF SendAuth, SendSub, ClientStep, NoneIsEmpty, Clients
  <2>4. CASE AuthAnswered(t) \/ AuthNotAnswered(t) \/ SubAnswered(t) \/ SubNotAnswered(t)
    BY <1>1, <1>2, <2>4
       DEF AuthAnswered, AuthNotAnswered, SubAnswered, SubNotAnswered, LocalStep, ClientStep
  <2>5. CASE MarkLoggedOut(t) \/ ClientDown(t) \/ Already(t)
    BY <1>1, <2>5 DEF MarkLoggedOut, ClientDown, Already, CloseClient, LocalStep
  <2>6. CASE DialFails(t) \/ DialAlready(t) \/ SendAuthFails(t) \/ Subscribe(t) \/ SendSubFails(t)
    BY <1>1, <2>6 DEF DialFails, DialAlready, SendAuthFails, Subscribe, SendSubFails, LocalStep
  <2>7. CASE MarkConnected(t) \/ SetAddr(t) \/ Intend(t) \/ AuthRefused(t) \/ AuthAccepted(t)
    BY <1>1, <2>7 DEF MarkConnected, SetAddr, Intend, AuthRefused, AuthAccepted, RuntimeStep
  <2> QED
    BY <1>3, <2>1, <2>2, <2>3, <2>4, <2>5, <2>6, <2>7 DEF SessionStep
<1>4. ASSUME NEW c \in Callers, Calls(c)
      PROVE  UNCHANGED client
  BY <1>4 DEF Calls, CallConnect, CallClose, CallAuth, CallStartNotify, CallStartReporting,
              CallStop, CallClearAuth, Call
<1>5. ASSUME NEW c \in Callers, CallerStep(c), ~SessionStep(c)
      PROVE  UNCHANGED client
  BY <1>5 DEF CallerStep, CloseIntent, CancelReconnect, StopWork, ForgetAddr, Readdress, NotifyDone,
              ReportOn, RuntimeStep
<1>6. ASSUME NEW l \in Loops, LoopStep(l), ~SessionStep(l)
      PROVE  UNCHANGED client
  BY <1>6 DEF LoopStep, Top, ReadAddr, CheckDialed, CheckIdentity, CheckLoggedIn, AbortIntent,
              CheckRestored, WaitOver, WaitCancelled, Exit, LocalStep, RuntimeStep, CloseClient
<1>7. ASSUME NEW r \in Readers, ReaderStep(r), ~MarkLoggedOut(r)
      PROVE  UNCHANGED client
  BY <1>7 DEF ReaderStep, ErrDisconnected, ErrDesired, AlreadyScheduled, ScheduleReconnect,
              LocalStep, RuntimeStep
<1>8. ASSUME NEW r \in Readers, Break(r)
      PROVE  NoneIsEmpty'
  BY <1>8 DEF Break, NoneIsEmpty, Fresh
<1>9. CASE UNCHANGED vars
  BY <1>1, <1>9 DEF vars
<1> QED
  BY <1>1, <1>3, <1>4, <1>5, <1>6, <1>7, <1>8, <1>9 DEF Next, Threads, SessionStep

-----------------------------------------------------------------------------
(***************************************************************************)
(* What a step leaves alone.                                               *)
(***************************************************************************)

\* No call and no callback moves a loop, or revives its context; nor does it write a
\* register of another thread.
LEMMA OthersLeaveLoops ==
    ASSUME IInv, NEW t \in Threads \ Loops,
           \/ Calls(t) \/ CallerStep(t) \/ Break(t)
           \/ ErrDisconnected(t) \/ ErrDesired(t) \/ AlreadyScheduled(t)
    PROVE  /\ \A u \in Threads \ {t} : pc'[u] = pc[u] /\ op'[u] = op[u] /\ after'[u] = after[u]
           /\ cancelled \subseteq cancelled'
           /\ lastCall' = lastCall \/ Calls(t)
<1> DEFINE Frame == /\ \E to : pc' = [pc EXCEPT ![t] = to]
                    /\ \A u \in Threads \ {t} : op'[u] = op[u] /\ after'[u] = after[u]
                    /\ cancelled \subseteq cancelled'
                    /\ lastCall' = lastCall \/ Calls(t)
<1>0. /\ op \in [Threads -> AllOps \cup {"none"}] /\ after \in [Threads -> Labels]
      /\ pc \in [Threads -> Labels]
  BY DEF IInv, TypeOK
<1>1. ASSUME NEW from, NEW to, LocalStep(t, from, to)
      PROVE  Frame
  BY <1>1 DEF LocalStep, Goto, reconnectVars, localVars, envVars
<1>2. ASSUME NEW from, NEW to, NEW new, RuntimeStep(t, from, to, new) \/ ClientStep(t, from, to, new)
      PROVE  Frame
  BY <1>2 DEF RuntimeStep, ClientStep, Goto, reconnectVars, localVars, envVars
<1>3. ASSUME NEW from, NEW to, CloseClient(t, from, to)
      PROVE  Frame
  BY <1>0, <1>3 DEF CloseClient, Goto, reconnectVars, envVars
<1>4. ASSUME NEW o, NEW to, NEW new, Calls(t), Call(t, o, to, new)
      PROVE  Frame
  BY <1>0, <1>4 DEF Call, Goto, reconnectVars
<1>5. Calls(t) => Frame
  BY <1>4 DEF Calls, CallConnect, CallClose, CallAuth, CallStartNotify, CallStartReporting,
              CallStop, CallClearAuth
<1>6. MarkLoggedOut(t) => Frame
  BY <1>3 DEF MarkLoggedOut, Goto, reconnectVars, localVars, envVars
<1>7. ClientDown(t) \/ Dial(t) \/ CancelReconnect(t) \/ Break(t) => Frame
  BY <1>0 DEF ClientDown, Dial, CancelReconnect, Break, Goto, reconnectVars, localVars, envVars
<1>8. DialFails(t) \/ DialAlready(t) \/ Already(t) \/ SendAuthFails(t) \/ Subscribe(t)
      \/ SendSubFails(t) \/ ErrDesired(t) \/ AlreadyScheduled(t) => Frame
  BY <1>1, <1>3 DEF DialFails, DialAlready, Already, SendAuthFails, Subscribe, SendSubFails,
              ErrDesired, AlreadyScheduled
<1>9. MarkConnected(t) \/ SetAddr(t) \/ Intend(t) \/ AuthRefused(t) \/ AuthAccepted(t)
      \/ CloseIntent(t) \/ StopWork(t) \/ ForgetAddr(t) \/ Readdress(t) \/ NotifyDone(t)
      \/ ReportOn(t) \/ ErrDisconnected(t) => Frame
  BY <1>2 DEF MarkConnected, SetAddr, Intend, AuthRefused, AuthAccepted, CloseIntent, StopWork,
              ForgetAddr, Readdress, NotifyDone, ReportOn, ErrDisconnected
<1>10. ClientClose(t) \/ SendAuth(t) \/ AuthAnswered(t) \/ AuthNotAnswered(t) \/ SendSub(t)
       \/ SubAnswered(t) \/ SubNotAnswered(t) => Frame
  BY <1>1, <1>2 DEF ClientClose, SendAuth, AuthAnswered, AuthNotAnswered, SendSub, SubAnswered,
              SubNotAnswered
<1>11. Frame
  BY <1>5, <1>6, <1>7, <1>8, <1>9, <1>10 DEF CallerStep, SessionStep
<1> QED
  BY <1>0, <1>11

\* No loop moves another thread, makes a call, or changes what works for the host; and
\* only its own end takes its context away.
LEMMA LoopLeavesOthers ==
    ASSUME IInv, NEW l \in Loops, LoopStep(l)
    PROVE  /\ pc[l] # "idle"
           /\ \A u \in Threads \ {l} : pc'[u] = pc[u] /\ op'[u] = op[u] /\ after'[u] = after[u]
           /\ rt'.work = rt.work /\ lastCall' = lastCall
           /\ ~Exit(l) => cancelled' = cancelled
<1> DEFINE Frame == /\ pc[l] # "idle"
                    /\ \E to : pc' = [pc EXCEPT ![l] = to]
                    /\ \A u \in Threads \ {l} : op'[u] = op[u] /\ after'[u] = after[u]
                    /\ rt'.work = rt.work /\ lastCall' = lastCall
                    /\ ~Exit(l) => cancelled' = cancelled
<1>0. /\ rt \in Runtimes /\ l \in Threads
      /\ op \in [Threads -> AllOps \cup {"none"}] /\ after \in [Threads -> Labels]
      /\ pc \in [Threads -> Labels]
      /\ pc[l] \in {"drop", "down"} => after[l] \in {"dial", "redial", "wait"}
  BY DEF IInv, TypeOK, LoopControl, Threads
<1>1. ASSUME NEW from, NEW to, from # "idle", LocalStep(l, from, to)
      PROVE  Frame
  BY <1>1 DEF LocalStep, Goto, reconnectVars, localVars, envVars
<1>2. ASSUME NEW from, NEW to, NEW new, from # "idle", ClientStep(l, from, to, new)
      PROVE  Frame
  BY <1>2 DEF ClientStep, Goto, reconnectVars, localVars, envVars
<1>3. ASSUME NEW from, NEW to, NEW new, from # "idle", new.work = rt.work, RuntimeStep(l, from, to, new)
      PROVE  Frame
  BY <1>3 DEF RuntimeStep, Goto, reconnectVars, localVars, envVars
<1>4. ASSUME NEW from, NEW next, from # "idle", CloseClient(l, from, next), rt'.work = rt.work
      PROVE  Frame
  BY <1>0, <1>4 DEF CloseClient, Goto, reconnectVars, envVars
<1>5. MarkLoggedOut(l) => Frame
  <2>1. MarkLoggedOut(l) => rt'.work = rt.work
    BY <1>0 DEF MarkLoggedOut, Runtimes
  <2> QED
    BY <1>4, <2>1 DEF MarkLoggedOut, Goto, reconnectVars, localVars, envVars
<1>6. ClientDown(l) \/ Dial(l) \/ WaitOver(l) \/ Exit(l) => Frame
  BY <1>0 DEF ClientDown, Dial, WaitOver, Exit, Goto, Runtimes, reconnectVars, localVars, envVars
<1>7. DialFails(l) \/ DialAlready(l) \/ Already(l) \/ SendAuthFails(l) \/ Subscribe(l)
      \/ SendSubFails(l) => Frame
  BY <1>1, <1>4 DEF DialFails, DialAlready, Already, SendAuthFails, Subscribe, SendSubFails
<1>8. /\ [rt EXCEPT !.connected = TRUE].work = rt.work
      /\ [rt EXCEPT !.addr = arg[l]].work = rt.work
      /\ [rt EXCEPT !.reconnectDesired = TRUE].work = rt.work
      /\ [rt EXCEPT !.reconnectDesired = FALSE].work = rt.work
      /\ [rt EXCEPT !.loggedIn = FALSE].work = rt.work
      /\ [rt EXCEPT !.loggedIn = TRUE, !.identity = TRUE].work = rt.work
  BY <1>0 DEF Runtimes
<1>9. MarkConnected(l) \/ SetAddr(l) \/ Intend(l) \/ AuthRefused(l) \/ AuthAccepted(l)
      \/ AbortIntent(l) => Frame
  BY <1>3, <1>8 DEF MarkConnected, SetAddr, Intend, AuthRefused, AuthAccepted, AbortIntent
<1>10. ClientClose(l) \/ SendAuth(l) \/ AuthAnswered(l) \/ AuthNotAnswered(l) \/ SendSub(l)
       \/ SubAnswered(l) \/ SubNotAnswered(l) => Frame
  BY <1>1, <1>2 DEF ClientClose, SendAuth, AuthAnswered, AuthNotAnswered, SendSub, SubAnswered,
              SubNotAnswered
<1>11. Top(l) \/ CheckDialed(l) \/ CheckIdentity(l) \/ CheckLoggedIn(l) \/ CheckRestored(l)
       \/ WaitCancelled(l) \/ ReadAddr(l) => Frame
  BY <1>1, <1>4 DEF Top, CheckDialed, CheckIdentity, CheckLoggedIn, CheckRestored, WaitCancelled,
              ReadAddr
<1>12. Frame
  BY <1>5, <1>6, <1>7, <1>9, <1>10, <1>11 DEF LoopStep, SessionStep
<1> QED
  BY <1>0, <1>12

LEMMA AbortsCancelledInductive ==
    ASSUME IInv, AbortsCancelled, [Next]_vars
    PROVE  AbortsCancelled'
<1> DEFINE Aborts == {"abort", "abortLogout"}
<1>0. /\ pc \in [Threads -> Labels] /\ Loops \subseteq Threads
      /\ Callers \subseteq Threads \ Loops /\ Readers \subseteq Threads \ Loops
  BY ThreadsAssumption DEF IInv, TypeOK, Threads
<1>1. ASSUME NEW t \in Threads \ Loops,
             \/ Calls(t) \/ CallerStep(t) \/ Break(t)
             \/ ErrDisconnected(t) \/ ErrDesired(t) \/ AlreadyScheduled(t)
      PROVE  AbortsCancelled'
  <2>1. \A l \in Loops : l \in Threads \ {t}
    BY <1>0
  <2> QED
    BY <1>1, <2>1, OthersLeaveLoops DEF AbortsCancelled
<1>2. ASSUME NEW l \in Loops, LoopStep(l), ~Exit(l)
      PROVE  AbortsCancelled'
  <2>1. ASSUME pc'[l] \in Aborts
        PROVE  l \in cancelled
    <3>1. /\ l \in Threads /\ op[l] = "none" /\ pc[l] \in LoopLabels
          /\ pc[l] \in {"drop", "down"} => after[l] \in {"dial", "redial", "wait"}
      BY <1>0 DEF IInv, LoopControl
    <3> DEFINE Leaves == pc'[l] \notin Aborts
    <3>2. ASSUME NEW from, NEW to, to \notin Aborts, LocalStep(l, from, to)
          PROVE  Leaves
      BY <1>0, <3>1, <3>2 DEF LocalStep, Goto
    <3>3. ASSUME NEW from, NEW to, NEW new, to \notin Aborts,
                 RuntimeStep(l, from, to, new) \/ ClientStep(l, from, to, new)
          PROVE  Leaves
      BY <1>0, <3>1, <3>3 DEF RuntimeStep, ClientStep, Goto
    <3>4. ASSUME NEW from, NEW next, CloseClient(l, from, next)
          PROVE  Leaves
      BY <1>0, <3>1, <3>4 DEF CloseClient, Goto
    <3>5. DialOk(l) = "ctx1" /\ DialFail(l) = "wait" /\ AuthDone(l) = "ctx2" /\ AuthFail(l) = "wait"
          /\ SubOk(l) = "ctx2" /\ SubFail(l) = "ctx2"
      BY <3>1 DEF DialOk, DialFail, AuthDone, AuthFail, SubOk, SubFail
    <3>6. ~MarkLoggedOut(l)
      BY <2>1, <1>0, <3>1, <3>4 DEF MarkLoggedOut, Goto
    <3>7. ~ClientDown(l) /\ ~Dial(l) /\ ~WaitOver(l)
      BY <2>1, <1>0, <3>1 DEF ClientDown, Dial, WaitOver, Goto
    <3>8. ~(DialFails(l) \/ DialAlready(l) \/ Already(l) \/ SendAuthFails(l) \/ Subscribe(l)
            \/ SendSubFails(l))
      BY <2>1, <3>2, <3>4, <3>5
         DEF DialFails, DialAlready, Already, SendAuthFails, Subscribe, SendSubFails
    <3>9. ~(MarkConnected(l) \/ SetAddr(l) \/ Intend(l) \/ AuthRefused(l) \/ AuthAccepted(l))
      BY <2>1, <3>3, <3>5 DEF MarkConnected, SetAddr, Intend, AuthRefused, AuthAccepted
    <3>10. ~(ClientClose(l) \/ SendAuth(l) \/ AuthAnswered(l) \/ AuthNotAnswered(l) \/ SendSub(l)
             \/ SubAnswered(l) \/ SubNotAnswered(l))
      BY <2>1, <3>2, <3>3, <3>5 DEF ClientClose, SendAuth, AuthAnswered, AuthNotAnswered,
                  SendSub, SubAnswered, SubNotAnswered
    <3>11. ~(Top(l) \/ CheckDialed(l) \/ CheckIdentity(l) \/ CheckRestored(l)
             \/ WaitCancelled(l) \/ ReadAddr(l))
      BY <2>1, <3>2, <3>4 DEF Top, CheckDialed, CheckIdentity, CheckRestored, WaitCancelled, ReadAddr
    <3>12. CASE CheckLoggedIn(l)
      BY <2>1, <3>2, <3>12 DEF CheckLoggedIn
    <3>13. CASE AbortIntent(l)
      BY <3>13 DEF AbortIntent, RuntimeStep, Goto, AbortsCancelled
    <3> QED
      BY <1>2, <3>6, <3>7, <3>8, <3>9, <3>10, <3>11, <3>12, <3>13 DEF LoopStep, SessionStep
  <2>2. \A m \in Loops \ {l} : pc'[m] = pc[m]
    BY <1>0, <1>2, LoopLeavesOthers
  <2>3. cancelled' = cancelled
    BY <1>2, LoopLeavesOthers
  <2> QED
    BY <2>1, <2>2, <2>3 DEF AbortsCancelled
<1>3. ASSUME NEW l \in Loops, Exit(l)
      PROVE  AbortsCancelled'
  <2>1. \A m \in Loops : pc'[m] = "idle"
    BY <1>0, <1>3 DEF IInv, LoopIsRegistered, Active, Exit, Goto
  <2> QED
    BY <2>1 DEF AbortsCancelled
<1>4. ASSUME NEW r \in Readers, NEW l \in Loops, ScheduleReconnect(r, l)
      PROVE  AbortsCancelled'
  BY <1>0, <1>4 DEF ScheduleReconnect, AbortsCancelled
<1>5. CASE UNCHANGED vars
  BY <1>5 DEF AbortsCancelled, vars, reconnectVars
<1> QED
  BY <1>0, <1>1, <1>2, <1>3, <1>4, <1>5 DEF Next, ReaderStep, CallerStep, SessionStep

-----------------------------------------------------------------------------
(***************************************************************************)
(* CloseInv, thread by thread.                                             *)
(***************************************************************************)

\* A call other than Close ends its claim; a Close begins with every other thread of
\* the host at rest.
LEMMA CallsKeepClose ==
    ASSUME IInv, OneCall', NEW c \in Callers, Calls(c)
    PROVE  CloseInv'
<1>0. /\ pc \in [Threads -> Labels] /\ op \in [Threads -> AllOps \cup {"none"}]
      /\ Callers \subseteq Threads
  BY DEF IInv, TypeOK, Threads
<1>1. ASSUME NEW o, NEW to, NEW new, Call(c, o, to, new), o # "close"
      PROVE  CloseInv'
  BY <1>1 DEF Call, CloseInv
<1>2. CASE CallClose(c)
  <2>1. /\ pc' = [pc EXCEPT ![c] = "close"] /\ op' = [op EXCEPT ![c] = "close"]
    BY <1>2 DEF CallClose, Call, Goto
  <2>2. pc'[c] = "close" /\ op'[c] = "close"
    BY <1>0, <2>1
  <2>3. \A d \in Callers \ {c} : pc'[d] = "idle"
    BY <2>2 DEF OneCall
  <2>4. Closers'
    BY <2>2, <2>3 DEF Closers, CallersIn, ClosingLabels, CancelledLabels, UncollectedLabels,
                UnreportedLabels, SilentLabels, LoggedOutLabels, DroppedLabels, DownLabels
  <2>5. ~CallersIn(CancelledLabels)' /\ ~CallersIn(UncollectedLabels)'
        /\ ~CallersIn(UnreportedLabels)' /\ ~CallersIn(SilentLabels)'
    BY <2>2 DEF CallersIn, CancelledLabels, UncollectedLabels,
                UnreportedLabels, SilentLabels, LoggedOutLabels, DroppedLabels, DownLabels
  <2> QED
    BY <2>4, <2>5 DEF CloseInv, WorkEnds
<1> QED
  BY <1>1, <1>2 DEF Calls, CallConnect, CallAuth, CallStartNotify, CallStartReporting,
              CallStop, CallClearAuth

\* Close: each piece is removed at the label from which the invariant says it is gone,
\* and its cancellation meets the one loop there can be.
LEMMA CallerKeepsClose ==
    ASSUME IInv, CloseInv, OneCall, NEW c \in Callers, CallerStep(c), ~Calls(c)
    PROVE  CloseInv'
<1> USE DEF ClosingLabels, CancelledLabels, UncollectedLabels, UnreportedLabels,
            SilentLabels, LoggedOutLabels, DroppedLabels, DownLabels
<1>0. /\ pc \in [Threads -> Labels] /\ op \in [Threads -> AllOps \cup {"none"}]
      /\ after \in [Threads -> Labels] /\ rt \in Runtimes /\ client \in Clients
      /\ c \in Threads \ Loops /\ Callers \subseteq Threads
      /\ Loops \subseteq Threads \ {c}
  BY ThreadsAssumption DEF IInv, TypeOK, Threads
<1>1. /\ \A u \in Threads \ {c} : pc'[u] = pc[u] /\ op'[u] = op[u] /\ after'[u] = after[u]
      /\ cancelled \subseteq cancelled' /\ lastCall' = lastCall
  BY <1>0, OthersLeaveLoops
<1>2. ASSUME lastCall = "close", pc[c] # "idle", NEW from, pc[c] = from
      PROVE  /\ from \in ClosingLabels /\ op[c] = "close"
             /\ from \in {"drop", "down"} => after[c] = "forget"
             /\ \A d \in Callers \ {c} : pc[d] = "idle" /\ pc'[d] = "idle"
  BY <1>0, <1>1, <1>2 DEF CloseInv, Closers, CallersIn, OneCall
<1>3. SUFFICES ASSUME lastCall = "close"
                PROVE  CloseInv'
  BY <1>1 DEF CloseInv
<1>4. pc[c] \in ClosingLabels
  BY <1>3 DEF CloseInv, Closers, CallersIn
<1>5. \/ CloseIntent(c) \/ CancelReconnect(c) \/ StopWork(c)
      \/ MarkLoggedOut(c) /\ CloseClient(c, "logout", "forget")
      \/ ClientClose(c) \/ ClientDown(c) \/ ForgetAddr(c)
  <2>1. ~(Dial(c) \/ DialFails(c) \/ DialAlready(c) \/ Already(c) \/ MarkConnected(c)
          \/ SetAddr(c) \/ Intend(c))
    BY <1>4 DEF Dial, DialFails, DialAlready, Already, MarkConnected, SetAddr, Intend,
                LocalStep, RuntimeStep, CloseClient, Goto
  <2>2. ~(SendAuth(c) \/ SendAuthFails(c) \/ AuthAnswered(c) \/ AuthNotAnswered(c)
          \/ AuthRefused(c) \/ AuthAccepted(c))
    BY <1>4 DEF SendAuth, SendAuthFails, AuthAnswered, AuthNotAnswered, AuthRefused, AuthAccepted,
                LocalStep, RuntimeStep, ClientStep, Goto
  <2>3. ~(Subscribe(c) \/ SendSub(c) \/ SendSubFails(c) \/ SubAnswered(c) \/ SubNotAnswered(c)
          \/ Readdress(c) \/ NotifyDone(c) \/ ReportOn(c))
    BY <1>4 DEF Subscribe, SendSub, SendSubFails, SubAnswered, SubNotAnswered, Readdress,
                NotifyDone, ReportOn, LocalStep, RuntimeStep, ClientStep, Goto
  <2>4. MarkLoggedOut(c) => CloseClient(c, "logout", "forget")
    BY <1>4 DEF MarkLoggedOut, CloseClient, Goto
  <2> QED
    BY <2>1, <2>2, <2>3, <2>4 DEF CallerStep, SessionStep
<1>6. pc[c] # "idle"
  BY <1>5 DEF CloseIntent, CancelReconnect, StopWork, CloseClient, ClientClose, ClientDown,
              ForgetAddr, RuntimeStep, ClientStep, Goto
<1>7. /\ op[c] = "close"
      /\ pc[c] \in {"drop", "down"} => after[c] = "forget"
      /\ \A d \in Callers \ {c} : pc[d] = "idle" /\ pc'[d] = "idle"
  BY <1>2, <1>3, <1>6
\* With the other threads of the host at rest, the labels are those of this Close.
<1>8. /\ \A S : "idle" \in S => (CallersIn(S) <=> pc[c] \in S)
      /\ \A S : "idle" \in S => (CallersIn(S)' <=> pc'[c] \in S)
  BY <1>7 DEF CallersIn
<1>9. \A S : Undoing(S) => Undoing(S)'
  BY <1>0, <1>1 DEF Undoing
\* What every label of Close keeps.
<1>10. ASSUME pc'[c] \in ClosingLabels, op'[c] = op[c],
              pc'[c] \in {"drop", "down"} => after'[c] = "forget"
       PROVE  Closers'
  BY <1>7, <1>8, <1>10 DEF Closers
<1>11. CASE CloseIntent(c)
  <2>1. pc'[c] = "cancel" /\ op' = op /\ after' = after
    BY <1>0, <1>11 DEF CloseIntent, RuntimeStep, Goto, localVars
  <2> QED
    BY <1>8, <1>10, <2>1 DEF CloseInv, WorkEnds
<1>12. CASE CancelReconnect(c)
  <2>1. pc'[c] = "stopReport" /\ op' = op /\ after' = after
        /\ cancelled' = cancelled \cup ({reconnect.cancel} \cap Loops)
    BY <1>0, <1>12 DEF CancelReconnect, Goto, localVars
  <2>2. \A l \in Loops : Active(l)' => l \in cancelled'
    BY <1>0, <1>1, <2>1 DEF IInv, LoopIsRegistered, Active
  <2>3. LateLoopsLeave'
    BY <2>2 DEF LateLoopsLeave
  <2>4. LeftIsUndone'
    BY <1>8, <2>1 DEF LeftIsUndone
  <2> QED
    BY <1>8, <1>10, <2>1, <2>3, <2>4 DEF CloseInv, WorkEnds
<1>13. CASE StopWork(c)
  <2>1. /\ op' = op /\ after' = after /\ client' = client /\ cancelled' = cancelled
        /\ \/ pc[c] = "stopReport" /\ pc'[c] = "reportOff"
              /\ rt' = [rt EXCEPT !.work = @ \ {"collect"}]
           \/ pc[c] = "reportOff" /\ pc'[c] = "stopNotify"
              /\ rt' = [rt EXCEPT !.work = @ \ {"report"}]
           \/ pc[c] = "stopNotify" /\ pc'[c] = "logout"
              /\ rt' = [rt EXCEPT !.work = @ \ {"notify"}]
    BY <1>0, <1>7, <1>13 DEF StopWork, RuntimeStep, Goto, localVars, reconnectVars
  <2>2. LateLoopsLeave'
    BY <1>0, <1>1, <1>3, <1>8, <2>1 DEF CloseInv, LateLoopsLeave, Active, Runtimes
  <2>3. LeftIsUndone'
    BY <1>8, <2>1 DEF LeftIsUndone
  <2>4. WorkEnds'
    BY <1>0, <1>3, <1>8, <2>1 DEF CloseInv, WorkEnds, Runtimes
  <2> QED
    BY <1>10, <2>1, <2>2, <2>3, <2>4 DEF CloseInv
<1>14. CASE MarkLoggedOut(c) /\ CloseClient(c, "logout", "forget")
  <2>1. /\ pc[c] = "logout" /\ pc'[c] = "drop" /\ op' = op /\ after'[c] = "forget"
        /\ cancelled' = cancelled /\ rt' = [rt EXCEPT !.loggedIn = FALSE]
    BY <1>0, <1>14 DEF MarkLoggedOut, CloseClient, Goto, reconnectVars
  <2>2. LateLoopsLeave'
    BY <1>0, <1>1, <1>3, <1>8, <2>1 DEF CloseInv, LateLoopsLeave, Active, Runtimes
  <2>3. LeftIsUndone'
    BY <1>0, <1>8, <2>1 DEF LeftIsUndone, Runtimes
  <2>4. WorkEnds'
    BY <1>0, <1>3, <1>8, <2>1 DEF CloseInv, WorkEnds, Runtimes
  <2> QED
    BY <1>10, <2>1, <2>2, <2>3, <2>4 DEF CloseInv
<1>15. CASE ClientClose(c)
  <2>1. /\ pc[c] = "drop" /\ pc'[c] = "down" /\ op' = op /\ after' = after
        /\ cancelled' = cancelled /\ rt' = rt /\ client'.session = "none"
    BY <1>0, <1>15 DEF ClientClose, ClientStep, Goto, reconnectVars, localVars, NoSession, Fresh
  <2>2. LateLoopsLeave'
    BY <1>0, <1>1, <1>3, <1>8, <2>1 DEF CloseInv, LateLoopsLeave, Active
  <2>3. LeftIsUndone'
    BY <1>3, <1>8, <1>9, <2>1 DEF CloseInv, LeftIsUndone
  <2>4. WorkEnds'
    BY <1>3, <1>8, <2>1 DEF CloseInv, WorkEnds
  <2> QED
    BY <1>7, <1>10, <2>1, <2>2, <2>3, <2>4 DEF CloseInv
<1>16. CASE ClientDown(c)
  <2>1. /\ pc[c] = "down" /\ pc'[c] = "forget" /\ op' = op
        /\ cancelled' = cancelled /\ client' = client /\ rt' = [rt EXCEPT !.connected = FALSE]
    BY <1>0, <1>7, <1>16 DEF ClientDown, Goto, reconnectVars
  <2>2. LateLoopsLeave'
    BY <1>0, <1>1, <1>3, <1>8, <2>1 DEF CloseInv, LateLoopsLeave, Active, Runtimes
  <2>3. LeftIsUndone'
    BY <1>0, <1>3, <1>8, <1>9, <2>1 DEF CloseInv, LeftIsUndone, Runtimes
  <2>4. WorkEnds'
    BY <1>0, <1>3, <1>8, <2>1 DEF CloseInv, WorkEnds, Runtimes
  <2> QED
    BY <1>10, <2>1, <2>2, <2>3, <2>4 DEF CloseInv
<1>17. CASE ForgetAddr(c)
  <2>1. /\ pc[c] = "forget" /\ pc'[c] = "idle" /\ op' = op /\ after' = after
        /\ cancelled' = cancelled /\ client' = client /\ rt' = [rt EXCEPT !.addr = NoAddr]
    BY <1>0, <1>7, <1>17 DEF ForgetAddr, RuntimeStep, Goto, reconnectVars, localVars
  <2>2. LateLoopsLeave'
    BY <1>0, <1>1, <1>3, <1>8, <2>1 DEF CloseInv, LateLoopsLeave, Active, Runtimes
  <2>3. LeftIsUndone'
    BY <1>0, <1>3, <1>8, <1>9, <2>1 DEF CloseInv, LeftIsUndone, Runtimes
  <2>4. WorkEnds'
    BY <1>0, <1>3, <1>8, <2>1 DEF CloseInv, WorkEnds, Runtimes
  <2> QED
    BY <1>10, <2>1, <2>2, <2>3, <2>4 DEF CloseInv
<1> QED
  BY <1>5, <1>11, <1>12, <1>13, <1>14, <1>15, <1>16, <1>17

\* What LateLoopsLeave and LeftIsUndone say of the one loop there can be.
Solo(l) ==
    /\ l \notin cancelled /\ pc[l] \notin {"idle", "top", "exit"} => rt.reconnectDesired
    /\ ~rt.reconnectDesired =>
        /\ rt.loggedIn /\ CallersIn(LoggedOutLabels) => l \in cancelled /\ pc[l] \in Relogin
        /\ client.session # "none" /\ CallersIn(DroppedLabels) =>
               l \in cancelled /\ pc[l] \in Redialled
        /\ rt.connected /\ CallersIn(DownLabels) => l \in cancelled /\ pc[l] \in Reconnected

\* A loop: what it puts back once it is cancelled, or without an intent, it removes.
LEMMA LoopKeepsClose ==
    ASSUME IInv, IInv', CloseInv, AbortsCancelled, NEW l \in Loops, LoopStep(l)
    PROVE  CloseInv'
<1>0. /\ pc \in [Threads -> Labels] /\ op \in [Threads -> AllOps \cup {"none"}]
      /\ after \in [Threads -> Labels] /\ rt \in Runtimes /\ client \in Clients
      /\ l \in Threads /\ Callers \subseteq Threads \ {l} /\ Loops \subseteq Threads
      /\ op[l] = "none"
  BY ThreadsAssumption DEF IInv, TypeOK, LoopControl, Threads
<1>1. /\ pc[l] # "idle"
      /\ \A u \in Threads \ {l} : pc'[u] = pc[u] /\ op'[u] = op[u] /\ after'[u] = after[u]
      /\ rt'.work = rt.work /\ lastCall' = lastCall
      /\ ~Exit(l) => cancelled' = cancelled
  BY LoopLeavesOthers
<1>2. \A S : CallersIn(S)' <=> CallersIn(S)
  BY <1>0, <1>1 DEF CallersIn
<1>3. \A m \in Loops \ {l} : pc[m] = "idle" /\ pc'[m] = "idle"
  BY <1>0, <1>1 DEF IInv, LoopIsRegistered, Active
<1>4. Closers => Closers'
  BY <1>0, <1>1, <1>2 DEF Closers
<1>5. WorkEnds => WorkEnds'
  BY <1>1, <1>2 DEF WorkEnds
<1>6. "idle" \notin Relogin \cup Redialled \cup Reconnected
  BY DEF Relogin, Redialled, Reconnected
<1>7. LateLoopsLeave /\ LeftIsUndone => Solo(l)
  BY <1>3, <1>6 DEF LateLoopsLeave, LeftIsUndone, Undoing, Solo, Active
<1>8. Solo(l)' => LateLoopsLeave' /\ LeftIsUndone'
  BY <1>3, <1>6 DEF LateLoopsLeave, LeftIsUndone, Undoing, Solo, Active
<1>9. ASSUME Solo(l)
      PROVE  Solo(l)'
  <2> USE <1>0, <1>2 DEF Relogin, Redialled, Reconnected
  <2> DEFINE Apart == {"idle", "top", "exit"} \cup Relogin \cup Redialled \cup Reconnected
  \* A step that changes no piece, by a loop that is not undoing anything.
  <2>1. ASSUME NEW from \in Labels \ Apart, NEW to, Goto(l, from, to),
               cancelled' = cancelled, rt' = rt, client'.session = client.session
        PROVE  Solo(l)'
    BY <1>9, <2>1 DEF Solo, Goto
  <2>2. ASSUME NEW from \in Labels \ Apart, NEW to, LocalStep(l, from, to)
        PROVE  Solo(l)'
    BY <2>1, <2>2 DEF LocalStep, reconnectVars
  <2>3. ASSUME NEW from \in Labels \ Apart, NEW to, NEW new, new.session = client.session,
               ClientStep(l, from, to, new)
        PROVE  Solo(l)'
    BY <2>1, <2>3 DEF ClientStep, reconnectVars
  <2>4. ASSUME NEW from \in Labels \ Apart, NEW next, CloseClient(l, from, next), rt' = rt
        PROVE  Solo(l)'
    BY <2>1, <2>4 DEF CloseClient, reconnectVars
  <2>5. {"dial", "redial", "already", "request", "await", "subscribe", "subSend", "subAwait",
         "readAddr", "ident", "ctx2", "check", "wait"} \subseteq Labels \ Apart
    BY DEF Labels
  <2>6. DialFails(l) \/ DialAlready(l) \/ Already(l) \/ SendAuthFails(l) \/ Subscribe(l)
        \/ SendSubFails(l) => Solo(l)'
    BY <2>2, <2>4, <2>5 DEF DialFails, DialAlready, Already, SendAuthFails, Subscribe, SendSubFails
  <2>7. /\ \A e : Answered(l, e).session = client.session
        /\ [client EXCEPT !.pending = @ \cup {l}].session = client.session
    BY DEF Answered, Clients
  <2>8. SendAuth(l) \/ AuthAnswered(l) \/ AuthNotAnswered(l) \/ SendSub(l) \/ SubAnswered(l)
        \/ SubNotAnswered(l) => Solo(l)'
    BY <2>2, <2>3, <2>5, <2>7 DEF SendAuth, AuthAnswered, AuthNotAnswered, SendSub, SubAnswered,
              SubNotAnswered
  <2>9. ReadAddr(l) \/ CheckIdentity(l) \/ CheckLoggedIn(l) \/ CheckRestored(l)
        \/ WaitCancelled(l) => Solo(l)'
    BY <2>2, <2>4, <2>5 DEF ReadAddr, CheckIdentity, CheckLoggedIn, CheckRestored, WaitCancelled
  <2>10. WaitOver(l) => Solo(l)'
    BY <2>1, <2>5 DEF WaitOver
  \* The looks at the intent and the context.
  <2>11. Top(l) => Solo(l)'
    BY <1>9 DEF Top, LocalStep, Goto, Solo, reconnectVars
  <2>12. CheckDialed(l) => Solo(l)'
    <3>1. CASE l \in cancelled /\ CloseClient(l, "ctx1", "wait") /\ UNCHANGED rt
      BY <1>9, <3>1 DEF CloseClient, Goto, Solo, reconnectVars
    <3>2. CASE l \notin cancelled /\ LocalStep(l, "ctx1", "ident")
      BY <1>9, <3>2 DEF LocalStep, Goto, Solo, reconnectVars
    <3> QED
      BY <3>1, <3>2 DEF CheckDialed
  \* The steps that put a piece back ...
  <2>13. Dial(l) => Solo(l)'
    BY <1>9 DEF Dial, Goto, Solo, Fresh, reconnectVars
  <2>14. MarkConnected(l) \/ SetAddr(l) => Solo(l)'
    BY <1>9 DEF MarkConnected, SetAddr, DialOk, RuntimeStep, Goto, Solo, Runtimes, reconnectVars
  <2>15. AuthAccepted(l) \/ AuthRefused(l) => Solo(l)'
    BY <1>9 DEF AuthAccepted, AuthRefused, AuthFail, RuntimeStep, Goto, Solo, Runtimes, reconnectVars
  <2>16. Intend(l) => Solo(l)'
    BY <1>9 DEF Intend, RuntimeStep, Goto, Solo, Runtimes, reconnectVars
  \* ... and those that remove it.
  <2>17. MarkLoggedOut(l) => Solo(l)'
    <3>1. MarkLoggedOut(l) => CloseClient(l, "abortLogout", "wait")
      BY DEF MarkLoggedOut, CloseClient, Goto, IInv, LoopControl, LoopLabels
    <3> QED
      BY <1>9, <3>1 DEF MarkLoggedOut, CloseClient, Goto, Solo, Runtimes, reconnectVars
  <2>18. ClientClose(l) => Solo(l)'
    BY <1>9 DEF ClientClose, ClientStep, Goto, Solo, NoSession, Fresh, reconnectVars
  <2>19. ClientDown(l) => Solo(l)'
    BY <1>9 DEF ClientDown, Goto, Solo, Runtimes, IInv, LoopControl, reconnectVars
  <2>20. AbortIntent(l) => Solo(l)'
    BY <1>9 DEF AbortIntent, RuntimeStep, Goto, Solo, Runtimes, AbortsCancelled, reconnectVars
  <2>21. Exit(l) => Solo(l)'
    BY <1>9 DEF Exit, Goto, Solo
  <2> QED
    BY <2>6, <2>8, <2>9, <2>10, <2>11, <2>12, <2>13, <2>14, <2>15, <2>16, <2>17, <2>18,
       <2>19, <2>20, <2>21 DEF LoopStep, SessionStep
<1> QED
  BY <1>1, <1>2, <1>4, <1>5, <1>7, <1>8, <1>9 DEF CloseInv

\* A session error only takes pieces away, and the loop it starts looks at the intent
\* before anything else.
LEMMA ReaderKeepsClose ==
    ASSUME IInv, CloseInv, NEW r \in Readers, ReaderStep(r) \/ Break(r)
    PROVE  CloseInv'
<1>0. /\ pc \in [Threads -> Labels] /\ rt \in Runtimes /\ client \in Clients
      /\ r \in Threads \ Loops /\ Callers \subseteq Threads \ {r}
      /\ Loops \subseteq Threads \ {r} /\ Loops \cap Callers = {}
  BY ThreadsAssumption DEF IInv, TypeOK, Threads
<1> DEFINE Lost == /\ rt'.work = rt.work /\ rt'.reconnectDesired = rt.reconnectDesired
                   /\ rt'.loggedIn => rt.loggedIn
                   /\ rt'.connected => rt.connected
                   /\ client'.session # "none" => client.session # "none"
                   /\ \A c \in Callers : after'[c] = after[c]
                   /\ UNCHANGED <<cancelled, op, lastCall>>
           Moved == /\ \A c \in Callers : pc'[c] = pc[c]
                    /\ \A l \in Loops : pc'[l] = pc[l] \/ (pc[l] = "idle" /\ pc'[l] = "top")
<1>1. ASSUME Lost, Moved
      PROVE  CloseInv'
  <2>1. \A S : CallersIn(S)' <=> CallersIn(S)
    BY <1>1 DEF CallersIn
  <2>2. Closers => Closers'
    BY <1>1, <2>1 DEF Closers
  <2>3. WorkEnds => WorkEnds'
    BY <1>1, <2>1 DEF WorkEnds
  <2>4. LateLoopsLeave => LateLoopsLeave'
    BY <1>1 DEF LateLoopsLeave, Active
  <2>5. \A S : "idle" \notin S /\ Undoing(S) => Undoing(S)'
    BY <1>1 DEF Undoing
  <2>6. LeftIsUndone => LeftIsUndone'
    BY <1>1, <2>1, <2>5 DEF LeftIsUndone, Relogin, Redialled, Reconnected
  <2> QED
    BY <1>1, <2>1, <2>2, <2>3, <2>4, <2>6 DEF CloseInv
<1>2. ASSUME NEW to, pc' = [pc EXCEPT ![r] = to]
      PROVE  Moved
  BY <1>0, <1>2
<1>3. CASE Break(r)
  BY <1>0, <1>1, <1>2, <1>3 DEF Break, Goto, Fresh, reconnectVars, localVars
<1>4. CASE ErrDisconnected(r)
  BY <1>0, <1>1, <1>2, <1>4 DEF ErrDisconnected, RuntimeStep, Goto, Runtimes, reconnectVars, localVars, envVars
<1>5. CASE MarkLoggedOut(r)
  <2>1. Moved
    BY <1>2, <1>5 DEF MarkLoggedOut, CloseClient, Goto
  <2>2. Lost
    BY <1>0, <1>5 DEF MarkLoggedOut, CloseClient, Runtimes, IInv, TypeOK, reconnectVars, localVars, envVars
  <2> QED
    BY <1>1, <2>1, <2>2
<1>6. CASE ErrDesired(r) \/ AlreadyScheduled(r)
  BY <1>1, <1>2, <1>6 DEF ErrDesired, AlreadyScheduled, LocalStep, Goto, reconnectVars, localVars, envVars
<1>7. ASSUME NEW l \in Loops, ScheduleReconnect(r, l)
      PROVE  CloseInv'
  <2>1. Moved
    BY <1>0, <1>7 DEF ScheduleReconnect
  <2>2. Lost
    BY <1>7 DEF ScheduleReconnect, localVars, envVars
  <2> QED
    BY <1>1, <2>1, <2>2
<1> QED
  BY <1>3, <1>4, <1>5, <1>6, <1>7 DEF ReaderStep

LEMMA CloseInductive ==
    ASSUME IInv, IInv', CInv, OneCall, OneCall', [Next]_vars
    PROVE  CInv'
<1>1. CloseInv'
  <2>1. CASE UNCHANGED vars
    <3>1. \A S : (CallersIn(S)' <=> CallersIn(S)) /\ (Undoing(S)' <=> Undoing(S))
      BY <2>1 DEF CallersIn, Undoing, vars, reconnectVars
    <3> QED
      BY <2>1, <3>1 DEF CInv, CloseInv, Closers, WorkEnds, LateLoopsLeave, LeftIsUndone, Active,
                  vars, reconnectVars, localVars, envVars
  <2>2. ASSUME NEW c \in Callers, Calls(c) \/ CallerStep(c)
        PROVE  CloseInv'
    BY <2>2, CallsKeepClose, CallerKeepsClose DEF CInv
  <2> QED
    BY <2>1, <2>2, LoopKeepsClose, ReaderKeepsClose DEF Next, CInv
<1>2. AbortsCancelled'
  BY AbortsCancelledInductive DEF CInv
<1>3. NoneIsEmpty'
  BY NoneIsEmptyInductive DEF CInv, IInv
<1> QED
  BY <1>1, <1>2, <1>3 DEF CInv

LEMMA CloseInit == Init => CInv
BY DEF Init, CInv, CloseInv, AbortsCancelled, NoneIsEmpty, Threads

\* At rest nothing is on its way to be removed, so that nothing is left.
LEMMA RestIsOff == IInv /\ CInv => CloseIsFinalWithoutIntent
<1> SUFFICES ASSUME IInv, CInv, Quiet, lastCall = "close", ~rt.reconnectDesired
             PROVE  Off
  BY DEF CloseIsFinalWithoutIntent
<1>1. \A S : "idle" \in S => CallersIn(S)
  BY DEF Quiet, CallersIn, Threads
<1>2. \A S : "idle" \notin S => ~Undoing(S)
  BY DEF Quiet, Undoing, Threads
<1>3. /\ "idle" \in DownLabels \cap DroppedLabels \cap LoggedOutLabels \cap SilentLabels
      /\ "idle" \in UnreportedLabels \cap UncollectedLabels \cap CancelledLabels
      /\ "idle" \notin Relogin \cup Redialled \cup Reconnected
  BY DEF CancelledLabels, UncollectedLabels, UnreportedLabels, SilentLabels, LoggedOutLabels,
         DroppedLabels, DownLabels, Relogin, Redialled, Reconnected
<1>4. ~rt.connected /\ ~rt.loggedIn /\ client.session = "none"
  BY <1>1, <1>2, <1>3 DEF CInv, CloseInv, LeftIsUndone
<1>5. rt.work = {}
  BY <1>1, <1>3 DEF CInv, CloseInv, WorkEnds, IInv, TypeOK, Runtimes
<1> QED
  BY <1>4, <1>5 DEF Off, CInv, NoneIsEmpty

\* For a host that makes one call at a time, nothing a cancelled recovery was doing
\* survives Close, wherever the two meet, as long as the intent to reconnect has stayed
\* cancelled.
THEOREM CloseLeavesNothing == Spec /\ []OneCall => []CloseIsFinalWithoutIntent
<1>1. Spec => []IInv
  <2>1. Init => IInv
    BY InitIInv
  <2> QED
    BY <2>1, Inductive, PTL DEF Spec
<1>2. IInv /\ IInv' /\ CInv /\ OneCall /\ OneCall' /\ [Next]_vars => CInv'
  BY CloseInductive
<1> QED
  BY <1>1, <1>2, CloseInit, RestIsOff, PTL DEF Spec

-----------------------------------------------------------------------------
(***************************************************************************)
(* Reporting.  Its two pieces part only in the hands of a StopReporting    *)
(* that has yet to reset the second; any other start in between brings     *)
(* back the first.                                                         *)
(***************************************************************************)

StopsReporting == \E t \in Threads : pc[t] = "reportOff"

ReportIsCollected == "report" \in rt.work /\ "collect" \notin rt.work => StopsReporting

LEMMA ReportIsCollectedInductive ==
    ASSUME IInv, ReportIsCollected, [Next]_vars
    PROVE  ReportIsCollected'
<1>0. /\ pc \in [Threads -> Labels] /\ rt \in Runtimes
      /\ Loops \subseteq Threads /\ Readers \subseteq Threads
      /\ \A c \in Callers : c \in Threads \ Loops
  BY ThreadsAssumption DEF IInv, TypeOK, Threads
\* A step that is none of StopReporting's and leaves what reporting needs.
<1>1. ASSUME NEW t \in Threads, pc[t] # "reportOff", NEW to, pc' = [pc EXCEPT ![t] = to],
             \/ "collect" \in rt'.work \/ "report" \notin rt'.work
             \/ rt'.work \in {rt.work, rt.work \ {"notify"}, rt.work \cup {"notify"}}
      PROVE  ReportIsCollected'
  BY <1>0, <1>1 DEF ReportIsCollected, StopsReporting
<1>2. ASSUME NEW t \in Threads, NEW from, NEW to, from # "reportOff", LocalStep(t, from, to)
      PROVE  ReportIsCollected'
  BY <1>1, <1>2 DEF LocalStep, Goto
<1>3. ASSUME NEW t \in Threads, NEW from, NEW to, NEW new, from # "reportOff",
             RuntimeStep(t, from, to, new),
             \/ "collect" \in new.work \/ "report" \notin new.work
             \/ new.work \in {rt.work, rt.work \ {"notify"}, rt.work \cup {"notify"}}
      PROVE  ReportIsCollected'
  BY <1>1, <1>3 DEF RuntimeStep, Goto
<1>4. ASSUME NEW t \in Threads, NEW from, NEW to, NEW new, from # "reportOff", ClientStep(t, from, to, new)
      PROVE  ReportIsCollected'
  BY <1>1, <1>4 DEF ClientStep, Goto
<1>5. ASSUME NEW t \in Threads, NEW from, NEW next, from # "reportOff", CloseClient(t, from, next),
             rt'.work = rt.work
      PROVE  ReportIsCollected'
  BY <1>1, <1>5 DEF CloseClient, Goto
<1>6. ASSUME NEW t \in Threads, SessionStep(t)
      PROVE  ReportIsCollected'
  <2>1. /\ [rt EXCEPT !.connected = TRUE].work = rt.work
        /\ [rt EXCEPT !.addr = arg[t]].work = rt.work
        /\ [rt EXCEPT !.reconnectDesired = TRUE].work = rt.work
        /\ [rt EXCEPT !.loggedIn = FALSE].work = rt.work
        /\ [rt EXCEPT !.loggedIn = TRUE, !.identity = TRUE].work = rt.work
    BY <1>0 DEF Runtimes
  <2>2. CASE MarkLoggedOut(t)
    BY <1>1, <1>5, <2>1, <2>2 DEF MarkLoggedOut, Goto
  <2>3. CASE ClientDown(t) \/ Dial(t)
    BY <1>0, <1>1, <2>3 DEF ClientDown, Dial, Goto, Runtimes
  <2>4. CASE DialFails(t) \/ DialAlready(t) \/ Already(t) \/ SendAuthFails(t) \/ Subscribe(t)
             \/ SendSubFails(t)
    BY <1>2, <1>5, <2>4 DEF DialFails, DialAlready, Already, SendAuthFails, Subscribe, SendSubFails
  <2>5. CASE MarkConnected(t) \/ SetAddr(t) \/ Intend(t) \/ AuthRefused(t) \/ AuthAccepted(t)
    BY <1>3, <2>1, <2>5 DEF MarkConnected, SetAddr, Intend, AuthRefused, AuthAccepted
  <2>6. CASE ClientClose(t) \/ SendAuth(t) \/ AuthAnswered(t) \/ AuthNotAnswered(t) \/ SendSub(t)
             \/ SubAnswered(t) \/ SubNotAnswered(t)
    BY <1>2, <1>4, <2>6 DEF ClientClose, SendAuth, AuthAnswered, AuthNotAnswered, SendSub,
              SubAnswered, SubNotAnswered
  <2> QED
    BY <1>6, <2>2, <2>3, <2>4, <2>5, <2>6 DEF SessionStep
<1>7. ASSUME NEW c \in Callers, Calls(c)
      PROVE  ReportIsCollected'
  <2>1. ASSUME NEW o, NEW to, NEW new, Call(c, o, to, new),
               \/ new.work \in {rt.work, rt.work \ {"notify"}}
               \/ to = "reportOff"
        PROVE  ReportIsCollected'
    BY <1>0, <1>1, <2>1 DEF Call, Goto, ReportIsCollected, StopsReporting
  <2>2. /\ \A a \in Addrs : [rt EXCEPT !.addr = a].work = rt.work
        /\ [rt EXCEPT !.identity = FALSE, !.loggedIn = FALSE].work = rt.work
        /\ [rt EXCEPT !.work = @ \ {"notify"}].work = rt.work \ {"notify"}
    BY <1>0 DEF Runtimes
  <2> QED
    BY <1>7, <2>1, <2>2 DEF Calls, CallConnect, CallClose, CallAuth, CallStartNotify,
              CallStartReporting, CallStop, CallClearAuth
<1>8. ASSUME NEW c \in Callers, CallerStep(c), ~SessionStep(c)
      PROVE  ReportIsCollected'
  <2>1. CASE StopWork(c)
    <3>1. [rt EXCEPT !.work = @ \ {"notify"}].work = rt.work \ {"notify"}
      BY <1>0 DEF Runtimes
    <3>2. CASE pc'[c] = "reportOff"
      BY <1>0, <3>2 DEF ReportIsCollected, StopsReporting
    <3>3. CASE RuntimeStep(c, "reportOff", IF op[c] = "stopReporting" THEN "idle" ELSE "stopNotify",
                           [rt EXCEPT !.work = @ \ {"report"}])
      BY <1>0, <3>3 DEF RuntimeStep, Runtimes, ReportIsCollected
    <3>4. CASE RuntimeStep(c, "stopNotify", "logout", [rt EXCEPT !.work = @ \ {"notify"}])
      BY <1>0, <1>3, <3>1, <3>4
    <3>5. CASE RuntimeStep(c, "stopReport", "reportOff", [rt EXCEPT !.work = @ \ {"collect"}])
      BY <1>0, <3>2, <3>5 DEF RuntimeStep, Goto
    <3> QED
      BY <2>1, <3>3, <3>4, <3>5 DEF StopWork
  <2>2. CASE CancelReconnect(c)
    BY <1>0, <1>1, <2>2 DEF CancelReconnect, Goto
  <2>3. CASE CloseIntent(c) \/ ForgetAddr(c) \/ Readdress(c) \/ NotifyDone(c) \/ ReportOn(c)
    <3>1. /\ [rt EXCEPT !.reconnectDesired = FALSE].work = rt.work
          /\ [rt EXCEPT !.addr = NoAddr].work = rt.work
          /\ [rt EXCEPT !.addr = arg[c]].work = rt.work
          /\ [rt EXCEPT !.work = @ \ {"notify"}].work = rt.work \ {"notify"}
          /\ [rt EXCEPT !.work = @ \cup {"notify"}].work = rt.work \cup {"notify"}
          /\ "collect" \in [rt EXCEPT !.work = IF "collect" \in @ THEN @ ELSE
                                @ \cup {"collect", "report"}].work
      BY <1>0 DEF Runtimes
    <3> QED
      BY <1>0, <1>3, <2>3, <3>1 DEF CloseIntent, ForgetAddr, Readdress, NotifyDone, ReportOn
  <2> QED
    BY <1>8, <2>1, <2>2, <2>3 DEF CallerStep
<1>9. ASSUME NEW l \in Loops, LoopStep(l)
      PROVE  ReportIsCollected'
  <2>1. pc[l] # "reportOff"
    BY DEF IInv, LoopControl, LoopLabels
  <2> QED
    BY <1>0, <1>9, <2>1, LoopLeavesOthers DEF ReportIsCollected, StopsReporting
<1>10. ASSUME NEW r \in Readers, ReaderStep(r) \/ Break(r)
       PROVE  ReportIsCollected'
  <2>1. CASE ErrDisconnected(r) \/ ErrDesired(r) \/ AlreadyScheduled(r) \/ Break(r)
    BY <1>0, <1>1, <2>1 DEF ErrDisconnected, ErrDesired, AlreadyScheduled, Break,
              LocalStep, RuntimeStep, Goto, Runtimes
  <2>2. ASSUME NEW l \in Loops, ScheduleReconnect(r, l)
        PROVE  ReportIsCollected'
    BY <1>0, <2>2 DEF ScheduleReconnect, ReportIsCollected, StopsReporting
  <2> QED
    BY <1>0, <1>6, <1>10, <2>1, <2>2 DEF ReaderStep, SessionStep
<1>11. CASE UNCHANGED vars
  BY <1>11 DEF ReportIsCollected, StopsReporting, vars
<1> QED
  BY <1>0, <1>6, <1>7, <1>8, <1>9, <1>10, <1>11 DEF Next

\* Whatever calls overlap, a runtime that has come to rest and says it reports has its
\* collectors.
THEOREM ReportingIsCollected == Spec => []ReportsOnlyCollected
<1>1. Init => ReportIsCollected
  BY DEF Init, ReportIsCollected
<1>2. ReportIsCollected => ReportsOnlyCollected
  BY DEF ReportIsCollected, ReportsOnlyCollected, StopsReporting, Quiet
<1> QED
  BY <1>1, <1>2, InitIInv, Inductive, ReportIsCollectedInductive, PTL DEF Spec
=============================================================================

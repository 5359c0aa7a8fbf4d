--------------------------- MODULE ServiceProofs ---------------------------
(***************************************************************************)
(* Service for any number of workers, runtimes, commands, kills and        *)
(* losses: type correctness, and that commands which do not overlap leave  *)
(* nothing at work, and nothing to restore, that was not asked for, and    *)
(* keep to restore what was.                                               *)
(***************************************************************************)
EXTENDS Service, TLAPS

USE ServiceAssumption

-----------------------------------------------------------------------------
(***************************************************************************)
(* Type correctness.  A worker that still has the bridge to call has a     *)
(* call to make.                                                           *)
(***************************************************************************)
Calling == {"init", "create", "fetch", "act"}

HasCall == \A w \in Workers : pc[w] \in Calling => todo[w] # <<>>

TInv == TypeOK /\ HasCall

LEMMA SeqFacts ==
    /\ \A S : <<>> \in Seq(S)
    /\ \A S : \A a \in S : <<a>> \in Seq(S)
    /\ \A S : \A a, b \in S : <<a, b>> \in Seq(S)
    /\ \A S : \A s, t \in Seq(S) : s \o t \in Seq(S)
    /\ \A S : \A s \in Seq(S) : s # <<>> => Head(s) \in S /\ Tail(s) \in Seq(S)
<1>1. ASSUME NEW S PROVE <<>> \in Seq(S)
  OBVIOUS
<1>2. ASSUME NEW S, NEW a \in S PROVE <<a>> \in Seq(S)
  OBVIOUS
<1>3. ASSUME NEW S, NEW a \in S, NEW b \in S PROVE <<a, b>> \in Seq(S)
  OBVIOUS
<1>4. ASSUME NEW S, NEW s \in Seq(S), NEW t \in Seq(S) PROVE s \o t \in Seq(S)
  OBVIOUS
<1>5. ASSUME NEW S, NEW s \in Seq(S), s # <<>> PROVE Head(s) \in S /\ Tail(s) \in Seq(S)
  BY <1>5
<1> QED
  BY <1>1, <1>2, <1>3, <1>4, <1>5

LEMMA TypeInit == Init => TInv
<1> SUFFICES ASSUME Init PROVE TInv
  OBVIOUS
<1>1. /\ pc \in [Workers -> {"idle", "init", "create", "fetch", "act", "load", "save"}]
      /\ cmd \in [Workers -> Commands \cup {"restore", "keep"}]
      /\ held \in [Workers -> Runtimes \cup {0}] /\ answer \in [Workers -> SUBSET Parts]
      /\ want \in [Workers -> SUBSET Flags] /\ old \in [Workers -> SUBSET Flags]
  BY DEF Init, Everywhere, Commands
<1>2. todo \in [Workers -> Seq(Calls)]
  BY SeqFacts DEF Init, Everywhere
<1>3. work \in [Runtimes -> SUBSET Parts]
  BY DEF Init
<1>4. TypeOK
  <2>1. started \in BOOLEAN /\ observers \in BOOLEAN /\ lone \in BOOLEAN /\ known \in BOOLEAN
    BY DEF Init
  <2>2. rt \in Runtimes \cup {0} /\ created \in Runtimes \cup {0} /\ rt <= created
    BY DEF Init
  <2> QED
    BY <1>1, <1>2, <1>3, <2>1, <2>2 DEF Init, TypeOK
<1>5. HasCall
  BY DEF Init, HasCall, Calling, Everywhere
<1> QED
  BY <1>4, <1>5 DEF TInv

LEMMA FirstType ==
    ASSUME NEW c \in Commands
    PROVE  First(c) \in Seq(Calls) /\ First(c) # <<>>
<1>1. c \notin {"disconnect", "start"} => c \in Calls
  BY DEF Commands, Calls
<1>2. {"close", "connect"} \subseteq Calls
  BY DEF Calls
<1>3. First(c) \in {<<"close">>, <<"connect">>, <<c>>}
  BY DEF First
<1>4. CASE c = "disconnect"
  BY <1>2, <1>4, SeqFacts DEF First
<1>5. CASE c = "start"
  BY <1>2, <1>5, SeqFacts DEF First
<1>6. CASE c \notin {"disconnect", "start"}
  BY <1>1, <1>6, SeqFacts DEF First
<1> QED
  BY <1>4, <1>5, <1>6

LEMMA AssignType ==
    ASSUME TInv, NEW w \in Workers, NEW c \in Commands \cup {"restore", "keep"},
           NEW calls \in Seq(Calls), calls # <<>>, NEW snapshot \in SUBSET Flags,
           Assign(w, c, calls, snapshot)
    PROVE  /\ pc' \in [Workers -> {"idle", "init", "create", "fetch", "act", "load", "save"}]
           /\ cmd' \in [Workers -> Commands \cup {"restore", "keep"}]
           /\ todo' \in [Workers -> Seq(Calls)] /\ want' \in [Workers -> SUBSET Flags]
           /\ HasCall'
BY DEF TInv, TypeOK, HasCall, Assign

LEMMA CommandType ==
    ASSUME TInv, NEW w \in Workers, NEW c \in Commands, Command(w, c)
    PROVE  TInv'
<1>1. Assign(w, c, First(c), {})
  BY DEF Command
<1>2. AskedBy(c) \in SUBSET Flags
  BY DEF TInv, TypeOK, AskedBy, Requests, Flags
<1>3. lone' \in BOOLEAN /\ commands' \in Nat /\ started' \in BOOLEAN
  BY DEF Command, TInv, TypeOK
<1>4. refused' \in SUBSET Flags
  BY DEF Command, TInv, TypeOK
<1> QED
  BY <1>1, <1>2, <1>3, <1>4, FirstType, AssignType DEF Command, Assign, TInv, TypeOK, mainVars

LEMMA RestartType ==
    ASSUME TInv, NEW w \in Workers, Restart(w)
    PROVE  TInv'
<1>1. CASE desired = {}
  BY <1>1 DEF Restart, TInv, TypeOK, HasCall, mainVars, workerVars, counters, history
<1>2. CASE desired # {}
  <2>1. <<"connect">> \in Seq(Calls) /\ <<"connect">> # <<>>
    BY SeqFacts DEF Calls
  <2>2. Assign(w, "restore", <<"connect">>, desired) /\ UNCHANGED started
    BY <1>2 DEF Restart
  <2> QED
    BY <2>1, <2>2, AssignType DEF Restart, Assign, TInv, TypeOK, mainVars, counters, history
<1> QED
  BY <1>1, <1>2

LEMMA MainType ==
    ASSUME TInv, StopAll \/ Take \/ Shut
    PROVE  TInv'
<1> USE DEF TInv, TypeOK, HasCall, workerVars
<1>1. CASE StopAll
  <2>1. observers' = FALSE /\ started' = TRUE /\ lone' = (lone /\ AtRest)
    BY <1>1 DEF StopAll
  <2>2. lone' \in BOOLEAN /\ observers' \in BOOLEAN /\ started' \in BOOLEAN
    <3> HIDE DEF TInv, TypeOK, HasCall
    <3> QED
      BY <2>1
  <2>3. commands' \in Nat
    BY <1>1 DEF StopAll
  <2>4. /\ main' \in {"idle", "take", "shut"} /\ desired' \in SUBSET Flags /\ asked' \in SUBSET Flags
        /\ refused' \in SUBSET Flags
    BY <1>1 DEF StopAll
  <2>5. UNCHANGED <<rt, created, work, known, dying, workerVars, kills, losses>>
    BY <1>1 DEF StopAll
  <2> QED
    BY <2>2, <2>3, <2>4, <2>5
<1>2. CASE Take
  <2>1. rt' \in Runtimes \cup {0} /\ rt' <= created' /\ dying' \in Runtimes \cup {0}
    BY <1>2 DEF Take, Runtimes
  <2> QED
    BY <1>2, <2>1 DEF Take, hostVars, counters, history
<1>3. CASE Shut
  <2>1. work' \in [Runtimes -> SUBSET Parts]
    BY <1>3 DEF Shut
  <2> QED
    BY <1>3, <2>1 DEF Shut, counters, history
<1> QED
  BY <1>1, <1>2, <1>3

\* What remains to be called are calls.
LEMMA RestType ==
    ASSUME NEW S \in SUBSET Calls, NEW w \in Workers, NEW ok \in BOOLEAN,
           todo[w] \in Seq(S), todo[w] # <<>>,
           cmd[w] = "start" => {"login", "register", "startReporting"} \subseteq S,
           cmd[w] = "restore" => /\ "login" \in S
                                 /\ "reporting" \in want[w] => "startReporting" \in S
                                 /\ "notify" \in want[w] => "startNotify" \in S
    PROVE  Rest(w, ok) \in Seq(S)
<1> DEFINE call == Head(todo[w])
           a == IF known THEN <<"login">> ELSE <<>>
           b == IF "reporting" \in want[w] THEN <<"startReporting">> ELSE <<>>
           c == IF "notify" \in want[w] THEN <<"startNotify">> ELSE <<>>
<1>1. CASE cmd[w] = "start" /\ call = "connect" /\ ok
  BY <1>1, SeqFacts DEF Rest
<1>2. CASE cmd[w] = "restore" /\ call = "connect" /\ ok
  <2>1. a \in Seq(S) /\ b \in Seq(S) /\ c \in Seq(S)
    BY <1>2, SeqFacts
  <2>2. Rest(w, ok) = (a \o b) \o c
    BY <1>2 DEF Rest
  <2> HIDE DEF a, b, c
  <2> QED
    BY <2>1, <2>2, SeqFacts
<1>3. CASE ~ok /\ (cmd[w] = "start" \/ call = "connect")
  BY <1>3, SeqFacts DEF Rest
<1>4. CASE /\ ~(cmd[w] = "start" /\ call = "connect" /\ ok)
           /\ ~(cmd[w] = "restore" /\ call = "connect" /\ ok)
           /\ ~(~ok /\ (cmd[w] = "start" \/ call = "connect"))
  BY <1>4, SeqFacts DEF Rest
<1> QED
  BY <1>1, <1>2, <1>3, <1>4

\* A worker moves on, with nothing but its own variables changed.
LEMMA MoveType ==
    ASSUME TInv, NEW w \in Workers, NEW from,
           NEW to \in {"idle", "init", "create", "fetch", "act", "load", "save"},
           Goto(w, from, to), to \in Calling => from \in Calling, UNCHANGED todo
    PROVE  /\ pc' \in [Workers -> {"idle", "init", "create", "fetch", "act", "load", "save"}]
           /\ HasCall'
BY DEF TInv, TypeOK, HasCall, Goto

LEMMA BridgeType ==
    ASSUME TInv, NEW w \in Workers,
           InitFetch(w) \/ InitCreate(w) \/ CreateFails(w) \/ Fetch(w)
    PROVE  TInv'
<1> USE DEF Calling
<1>1. CASE InitFetch(w)
  BY <1>1, MoveType DEF InitFetch, TInv, TypeOK, hostVars, mainVars, counters, history
<1>2. CASE InitCreate(w)
  <2>1. created' \in Runtimes /\ rt' = created'
    BY <1>2 DEF InitCreate, TInv, TypeOK, Runtimes
  <2>2. rt' <= created'
    BY <2>1 DEF Runtimes
  <2>3. pc' \in [Workers -> {"idle", "init", "create", "fetch", "act", "load", "save"}] /\ HasCall'
    BY <1>2, MoveType DEF InitCreate
  <2> QED
    BY <1>2, <2>1, <2>2, <2>3 DEF InitCreate, TInv, TypeOK, hostVars, mainVars, counters, history
<1>3. CASE CreateFails(w)
  <2>1. todo' \in [Workers -> Seq(Calls)]
    BY <1>3, SeqFacts DEF CreateFails, TInv, TypeOK
  <2>2. /\ pc' \in [Workers -> {"idle", "init", "create", "fetch", "act", "load", "save"}]
        /\ HasCall'
    BY <1>3 DEF CreateFails, Goto, TInv, TypeOK, HasCall
  <2> QED
    BY <1>3, <2>1, <2>2 DEF CreateFails, TInv, TypeOK, hostVars, mainVars, counters, history
<1>4. CASE Fetch(w)
  <2>1. held' \in [Workers -> Runtimes \cup {0}]
    BY <1>4 DEF Fetch, TInv, TypeOK
  <2> QED
    BY <1>4, <2>1, MoveType DEF Fetch, TInv, TypeOK, hostVars, mainVars, counters, history
<1> QED
  BY <1>1, <1>2, <1>3, <1>4

LEMMA EffectType ==
    ASSUME NEW call \in Calls, NEW ps \in SUBSET Parts
    PROVE  Effect(call, ps) \in SUBSET Parts
BY DEF Effect, Calls, Parts, Flags

\* What a call changes, in the terms of the worker.
LEMMA ActFacts ==
    ASSUME TInv, NEW w \in Workers, NEW ok \in BOOLEAN, Act(w, ok)
    PROVE  /\ pc[w] = "act" /\ todo[w] # <<>> /\ Head(todo[w]) \in Calls
           /\ Rest(w, ok) \in Seq(Calls)
           /\ work' \in [Runtimes -> SUBSET Parts]
           /\ answer' \in [Workers -> SUBSET Parts]
<1>1. pc[w] = "act" /\ todo[w] # <<>>
  BY DEF Act, Goto, TInv, HasCall, Calling
<1>2. todo[w] \in Seq(Calls)
  BY DEF TInv, TypeOK
<1>3. Head(todo[w]) \in Calls
  BY <1>1, <1>2, SeqFacts
<1>4. Rest(w, ok) \in Seq(Calls)
  <2>1. {"login", "register", "startReporting", "startNotify"} \subseteq Calls
    BY DEF Calls
  <2> QED
    BY <1>1, <1>2, <2>1, RestType
<1>5. work' \in [Runtimes -> SUBSET Parts]
  <2>1. CASE ok /\ held[w] # 0
    <3>1. held[w] \in Runtimes
      BY <2>1 DEF TInv, TypeOK
    <3>2. Effect(Head(todo[w]), work[held[w]]) \in SUBSET Parts
      BY <1>3, <3>1, EffectType DEF TInv, TypeOK
    <3>3. work' = [work EXCEPT ![held[w]] = Effect(Head(todo[w]), work[held[w]])]
      BY <2>1 DEF Act
    <3> QED
      BY <3>1, <3>2, <3>3 DEF TInv, TypeOK
  <2>2. CASE ~(ok /\ held[w] # 0)
    BY <2>2 DEF Act, TInv, TypeOK
  <2> QED
    BY <2>1, <2>2
<1>6. answer' \in [Workers -> SUBSET Parts]
  <2>1. (IF ok /\ held[w] # 0 THEN work'[held[w]] ELSE {}) \in SUBSET Parts
    BY <1>5 DEF TInv, TypeOK
  <2> QED
    BY <2>1 DEF Act, TInv, TypeOK
<1> QED
  BY <1>1, <1>3, <1>4, <1>5, <1>6

LEMMA ActType ==
    ASSUME TInv, NEW w \in Workers, NEW ok \in BOOLEAN, Act(w, ok)
    PROVE  TInv'
<1>1. todo' \in [Workers -> Seq(Calls)]
  BY ActFacts DEF Act, TInv, TypeOK
<1>2. /\ pc' \in [Workers -> {"idle", "init", "create", "fetch", "act", "load", "save"}]
      /\ HasCall'
  BY DEF Act, Goto, TInv, TypeOK, HasCall, Calling
<1>3. held' \in [Workers -> Runtimes \cup {0}]
  BY DEF Act, TInv, TypeOK
<1>4. cmd' \in [Workers -> Commands \cup {"restore", "keep"}]
  BY DEF Act, TInv, TypeOK
<1>5. known' \in BOOLEAN /\ observers' \in BOOLEAN
  <2>1. known' = (known \/ (ok /\ Head(todo[w]) = "register"))
    BY DEF Act
  <2>2. observers' = ok \/ observers' = observers
    BY DEF Act
  <2> QED
    BY <2>1, <2>2 DEF TInv, TypeOK
<1>6. UNCHANGED <<rt, created, desired, started, mainVars, old, counters, asked, lone>>
  BY DEF Act
<1>9. refused' \in SUBSET Flags
  BY DEF Act, TInv, TypeOK
<1>7. want' \in [Workers -> SUBSET Flags]
  BY DEF Act, TInv, TypeOK
<1>8. work' \in [Runtimes -> SUBSET Parts] /\ answer' \in [Workers -> SUBSET Parts]
  BY ActFacts
<1> QED
  BY <1>1, <1>2, <1>3, <1>4, <1>5, <1>6, <1>7, <1>8, <1>9 DEF TInv, TypeOK, mainVars, counters

LEMMA SaveType ==
    ASSUME TInv, NEW w \in Workers, Load(w) \/ Save(w)
    PROVE  TInv'
<1>1. CASE Load(w)
  <2>1. old' \in [Workers -> SUBSET Flags]
    BY <1>1 DEF Load, TInv, TypeOK
  <2>2. pc' \in [Workers -> {"idle", "init", "create", "fetch", "act", "load", "save"}] /\ HasCall'
    BY <1>1, MoveType DEF Load, Calling
  <2> QED
    BY <1>1, <2>1, <2>2 DEF Load, TInv, TypeOK, hostVars, mainVars, counters, history
<1>2. CASE Save(w)
  <2>1. pc' \in [Workers -> {"idle", "init", "create", "fetch", "act", "load", "save"}] /\ HasCall'
    BY <1>2, MoveType DEF Save, Calling
  <2>2. desired' \in SUBSET Flags
    <3>1. Touched(cmd[w]) \subseteq Flags
      BY DEF Touched, Flags
    <3> QED
      BY <1>2, <3>1 DEF Save, TInv, TypeOK
  <2>3. observers' \in BOOLEAN
    <3>1. \/ observers' = ("reporting" \in answer[w])
          \/ observers' = (observers \/ "reporting" \in answer[w])
          \/ observers' = FALSE \/ observers' = observers
      BY <1>2 DEF Save, Observed
    <3>2. CASE observers' = ("reporting" \in answer[w])
      BY <3>2
    <3>3. CASE observers' = (observers \/ "reporting" \in answer[w])
      BY <3>3
    <3>4. CASE observers' = FALSE
      BY <3>4
    <3>5. CASE observers' = observers
      BY <3>5 DEF TInv, TypeOK
    <3> QED
      BY <3>1, <3>2, <3>3, <3>4, <3>5
  <2>4. /\ cmd' \in [Workers -> Commands \cup {"restore", "keep"}]
        /\ answer' \in [Workers -> SUBSET Parts]
        /\ want' \in [Workers -> SUBSET Flags] /\ old' \in [Workers -> SUBSET Flags]
    BY <1>2 DEF Save, TInv, TypeOK, Commands
  <2> QED
    BY <1>2, <2>1, <2>2, <2>3, <2>4 DEF Save, TInv, TypeOK, mainVars, counters, history
<1> QED
  BY <1>1, <1>2

LEMMA SystemType ==
    ASSUME TInv, (\E r \in Runtimes : Lose(r) \/ Recover(r)) \/ Kill
    PROVE  TInv'
<1>1. ASSUME NEW r \in Runtimes, Lose(r) \/ Recover(r)
      PROVE  TInv'
  <2>1. work' \in [Runtimes -> SUBSET Parts]
    <3>1. work[r] \ {"connected", "loggedIn"} \in SUBSET Parts
      BY DEF TInv, TypeOK
    <3>2. work[r] \cup {"connected", "loggedIn"} \in SUBSET Parts
      BY DEF TInv, TypeOK, Parts, Flags
    <3>3. \/ work' = [work EXCEPT ![r] = work[r] \ {"connected", "loggedIn"}]
          \/ work' = [work EXCEPT ![r] = work[r] \cup {"connected", "loggedIn"}]
      BY <1>1 DEF Lose, Recover
    <3> QED
      BY <3>1, <3>2, <3>3 DEF TInv, TypeOK
  <2>2. losses' \in Nat
    BY <1>1 DEF Lose, Recover, TInv, TypeOK, counters
  <2> QED
    BY <1>1, <2>1, <2>2 DEF Lose, Recover, TInv, TypeOK, HasCall, hostVars, mainVars, workerVars, counters, history
<1>2. CASE Kill
  <2>1. /\ pc' = Everywhere("idle") /\ cmd' = Everywhere("connect") /\ todo' = Everywhere(<<>>)
        /\ held' = Everywhere(0) /\ answer' = Everywhere({})
        /\ want' = Everywhere({}) /\ old' = Everywhere({})
    BY <1>2 DEF Kill
  <2>2. /\ pc' \in [Workers -> {"idle", "init", "create", "fetch", "act", "load", "save"}]
        /\ cmd' \in [Workers -> Commands \cup {"restore", "keep"}]
        /\ held' \in [Workers -> Runtimes \cup {0}] /\ answer' \in [Workers -> SUBSET Parts]
        /\ want' \in [Workers -> SUBSET Flags] /\ old' \in [Workers -> SUBSET Flags]
        /\ HasCall'
    BY <2>1 DEF Everywhere, Commands, HasCall, Calling
  <2>3. todo' \in [Workers -> Seq(Calls)]
    BY <2>1, SeqFacts DEF Everywhere
  <2>4. work' \in [Runtimes -> SUBSET Parts]
    BY <1>2 DEF Kill
  <2>5. asked' \in SUBSET Flags
    BY <1>2 DEF Kill, TInv, TypeOK, Flags
  <2>11. refused' \in SUBSET Flags
    BY <1>2, <2>5 DEF Kill, TInv, TypeOK
  <2>6. observers' = FALSE /\ lone' = TRUE
    BY <1>2 DEF Kill
  <2>7. observers' \in BOOLEAN /\ lone' \in BOOLEAN
    BY <2>6
  <2>8. rt' \in Runtimes \cup {0} /\ created' \in Runtimes \cup {0} /\ rt' <= created' /\ kills' \in Nat
    BY <1>2 DEF Kill, TInv, TypeOK
  <2>9. main' \in {"idle", "take", "shut"} /\ dying' \in Runtimes \cup {0}
    BY <1>2 DEF Kill
  <2>10. UNCHANGED <<known, desired, started, commands, losses>>
    BY <1>2 DEF Kill
  <2> QED
    BY <2>2, <2>3, <2>4, <2>5, <2>7, <2>8, <2>9, <2>10, <2>11 DEF TInv, TypeOK
<1> QED
  BY <1>1, <1>2

LEMMA TypeInductive == TInv /\ [Next]_vars => TInv'
<1> SUFFICES ASSUME TInv, [Next]_vars PROVE TInv'
  OBVIOUS
<1>1. CASE UNCHANGED vars
  BY <1>1 DEF TInv, TypeOK, HasCall, vars, hostVars, mainVars, workerVars, counters, history
<1> QED
  BY <1>1, CommandType, RestartType, MainType, BridgeType, ActType, SaveType, SystemType DEF Next, Worker

\* Every variable keeps its type, and no worker ever calls the bridge without a call to
\* make (onStartCommand, handleRestoreOrRefresh).
THEOREM TypeCorrect == Spec => []TypeOK
<1>1. TInv => TypeOK
  BY DEF TInv
<1> QED
  BY <1>1, TypeInit, TypeInductive, PTL DEF Spec

-----------------------------------------------------------------------------
(***************************************************************************)
(* Commands that do not overlap.  What is at work or saved without being   *)
(* asked for any more is what the worker at hand is about to stop, or the  *)
(* main thread to shut; and a worker asks the bridge only for what the     *)
(* user has asked for.                                                     *)
(***************************************************************************)
Busy(w) == pc[w] # "idle"

\* What a worker may call, as long as no command overlaps its own.
Permitted(w) ==
    {c \in Calls : /\ c = "connect" => "connected" \in asked
                   /\ c = "startReporting" => "reporting" \in asked
                   /\ c = "startNotify" => "notify" \in asked
                   /\ c = "close" => cmd[w] = "disconnect"
                   /\ c = "stopReporting" => cmd[w] = "stopReporting"
                   /\ c = "stopNotify" => cmd[w] = "stopNotify"}

Here(x) == rt # 0 /\ x \in work[rt]

WorkerOk(w) ==
    /\ pc[w] = "create" => rt = 0
    /\ pc[w] = "act" => held[w] = rt
    /\ todo[w] \in Seq(Permitted(w))
    /\ cmd[w] = "start" => "reporting" \in asked
    /\ want[w] \subseteq asked
    /\ pc[w] = "save" => old[w] = desired
    /\ \A x \in Flags : x \in answer[w] => x \in asked
    /\ "reporting" \in answer[w] => Here("reporting")

\* The stop that is under way for what is no longer asked for.
Ends(w, x) ==
    /\ pc[w] \in Calling
    /\ \/ todo[w] = <<"close">>
       \/ x = "reporting" /\ todo[w] = <<"stopReporting">>
       \/ x = "notify" /\ todo[w] = <<"stopNotify">>

Unsaves(w, x) ==
    /\ Busy(w)
    /\ \/ cmd[w] = "disconnect"
       \/ x = "reporting" /\ cmd[w] = "stopReporting"
       \/ x = "notify" /\ cmd[w] = "stopNotify"

Alone == \A w \in Workers : Busy(w) => main = "idle" /\ \A v \in Workers \ {w} : ~Busy(v)

LeftBehind == \A r \in Runtimes : r # rt /\ ~(main = "shut" /\ r = dying) => work[r] = {}

WorkAsked ==
    main = "idle" =>
        /\ \A x \in Flags : Here(x) => x \in asked \/ \E w \in Workers : Ends(w, x)
        /\ Here("wanted") => "connected" \in asked \/ \E w \in Workers : Ends(w, "wanted")

DesiredAsked == \A x \in desired : x \in asked \/ \E w \in Workers : Unsaves(w, x)

Observing == observers => Here("reporting") \/ \E w \in Workers : Unsaves(w, "reporting")

Stopping == main # "idle" => asked = {} /\ desired = {} /\ ~observers

LInv ==
    lone =>
        /\ Alone /\ LeftBehind /\ WorkAsked /\ DesiredAsked /\ Observing /\ Stopping
        /\ asked # {} => "connected" \in asked
        /\ main = "shut" => rt = 0
        /\ \A w \in Workers : IF Busy(w) THEN WorkerOk(w) ELSE answer[w] = {}

\* While a command runs, its worker is the only one.
LEMMA Lonely ==
    ASSUME TInv, LInv, lone, NEW w \in Workers, Busy(w)
    PROVE  /\ main = "idle" /\ WorkerOk(w)
           /\ \A v \in Workers \ {w} : ~Busy(v) /\ answer[v] = {}
           /\ \A x \in Flags : Here(x) => x \in asked \/ Ends(w, x)
           /\ Here("wanted") => "connected" \in asked \/ Ends(w, "wanted")
           /\ \A x \in desired : x \in asked \/ Unsaves(w, x)
           /\ observers => Here("reporting") \/ Unsaves(w, "reporting")
           /\ LeftBehind /\ (asked # {} => "connected" \in asked)
<1>1. Alone /\ LeftBehind /\ WorkAsked /\ DesiredAsked /\ Observing
  BY DEF LInv
<1>2. main = "idle" /\ \A v \in Workers \ {w} : ~Busy(v)
  BY <1>1 DEF Alone
<1>3. \A v \in Workers \ {w} : \A x : ~Ends(v, x) /\ ~Unsaves(v, x)
  BY <1>2 DEF Ends, Unsaves, Busy, Calling
<1>4. \A x \in Flags : Here(x) => x \in asked \/ Ends(w, x)
  BY <1>1, <1>2, <1>3 DEF WorkAsked
<1>5. Here("wanted") => "connected" \in asked \/ Ends(w, "wanted")
  BY <1>1, <1>2, <1>3 DEF WorkAsked
<1>6. \A x \in desired : x \in asked \/ Unsaves(w, x)
  BY <1>1, <1>3 DEF DesiredAsked
<1>7. observers => Here("reporting") \/ Unsaves(w, "reporting")
  BY <1>1, <1>3 DEF Observing
<1> QED
  BY <1>1, <1>2, <1>4, <1>5, <1>6, <1>7 DEF LInv

\* A step of that worker.
LEMMA LonelyStep ==
    ASSUME TInv, LInv, lone, NEW w \in Workers, Busy(w),
           UNCHANGED <<mainVars, asked>>,
           \A v \in Workers \ {w} : pc'[v] = pc[v] /\ answer'[v] = answer[v],
           LeftBehind',
           \A x \in Flags : Here(x)' => x \in asked \/ Ends(w, x)',
           Here("wanted")' => "connected" \in asked \/ Ends(w, "wanted")',
           \A x \in desired' : x \in asked \/ Unsaves(w, x)',
           observers' => Here("reporting")' \/ Unsaves(w, "reporting")',
           IF Busy(w)' THEN WorkerOk(w)' ELSE answer'[w] = {}
    PROVE  LInv'
<1>1. main = "idle" /\ \A v \in Workers \ {w} : ~Busy(v) /\ answer[v] = {}
  BY Lonely
<1>2. main' = "idle" /\ \A v \in Workers \ {w} : ~Busy(v)' /\ answer'[v] = {}
  BY <1>1 DEF Busy, mainVars
<1>3. Alone'
  BY <1>2 DEF Alone
<1>4. WorkAsked' /\ DesiredAsked' /\ Observing' /\ Stopping'
  BY <1>2 DEF WorkAsked, DesiredAsked, Observing, Stopping
<1>5. asked' # {} => "connected" \in asked'
  BY DEF LInv
<1>6. \A v \in Workers : IF Busy(v)' THEN WorkerOk(v)' ELSE answer'[v] = {}
  BY <1>2
<1> QED
  BY <1>2, <1>3, <1>4, <1>5, <1>6 DEF LInv

\* One that changes nothing at work or saved, and makes no call.
LEMMA QuietStep ==
    ASSUME TInv, LInv, lone, NEW w \in Workers, pc[w] \in Calling, pc'[w] \in Calling,
           UNCHANGED <<rt, work, hostVars, mainVars, cmd, todo, answer, want, old, asked>>,
           \A v \in Workers \ {w} : pc'[v] = pc[v],
           pc'[w] = "create" => rt = 0, pc'[w] = "act" => held'[w] = rt
    PROVE  LInv'
<1>1. Busy(w) /\ Busy(w)'
  BY DEF Busy, Calling
<1>2. WorkerOk(w)'
  BY <1>1, Lonely DEF WorkerOk, Permitted, Here, Calling, hostVars
<1>3. LeftBehind'
  BY <1>1, Lonely DEF LeftBehind, mainVars
<1>4. \A x : Here(x)' = Here(x) /\ Ends(w, x)' = Ends(w, x) /\ Unsaves(w, x)' = Unsaves(w, x)
  BY <1>1 DEF Here, Ends, Unsaves
<1> QED
  BY <1>1, <1>2, <1>3, <1>4, Lonely, LonelyStep DEF hostVars

LEMMA BridgeAsked ==
    ASSUME TInv, LInv, lone, NEW w \in Workers,
           InitFetch(w) \/ InitCreate(w) \/ CreateFails(w) \/ Fetch(w)
    PROVE  LInv'
<1>1. CASE InitFetch(w)
  <2>1. /\ pc[w] \in Calling /\ pc'[w] \in {"create", "fetch"} /\ (pc'[w] = "create" => rt = 0)
        /\ \A v \in Workers \ {w} : pc'[v] = pc[v]
    BY <1>1 DEF InitFetch, Goto, TInv, TypeOK, Calling
  <2> QED
    BY <1>1, <2>1, QuietStep DEF InitFetch, history, Calling
<1>2. CASE Fetch(w)
  <2>1. /\ pc[w] \in Calling /\ pc'[w] = "act" /\ held'[w] = rt
        /\ \A v \in Workers \ {w} : pc'[v] = pc[v]
    BY <1>2 DEF Fetch, Goto, TInv, TypeOK, Calling
  <2> QED
    BY <1>2, <2>1, QuietStep DEF Fetch, history, Calling
<1>3. CASE CreateFails(w)
  <2>1. /\ pc[w] = "create" /\ pc'[w] = (IF cmd[w] = "start" THEN "load" ELSE "fetch")
        /\ \A v \in Workers \ {w} : pc'[v] = pc[v]
    BY <1>3 DEF CreateFails, Goto, TInv, TypeOK
  <2>2. CASE cmd[w] # "start"
    <3>1. todo' = todo
      BY <1>3, <2>2 DEF CreateFails, TInv, TypeOK
    <3> QED
      BY <1>3, <2>1, <2>2, <3>1, QuietStep DEF CreateFails, history, Calling
  <2>3. CASE cmd[w] = "start"
    <3>1. todo'[w] = <<>>
      BY <1>3, <2>3 DEF CreateFails, TInv, TypeOK
    <3>2. Busy(w) /\ Busy(w)'
      BY <2>1, <2>3 DEF Busy
    <3>3. rt = 0
      BY <2>1, <3>2, Lonely DEF WorkerOk
    <3>4. UNCHANGED <<rt, work, hostVars, mainVars, cmd, held, answer, want, old, asked>>
      BY <1>3 DEF CreateFails, history
    <3>5. WorkerOk(w)'
      <4>1. WorkerOk(w)
        BY <3>2, Lonely
      <4>2. pc'[w] = "load" /\ todo'[w] \in Seq(Permitted(w)')
        BY <2>1, <2>3, <3>1, SeqFacts
      <4> QED
        BY <3>4, <4>1, <4>2 DEF WorkerOk, Here, hostVars
    <3>6. LeftBehind'
      BY <3>2, <3>4, Lonely DEF LeftBehind, mainVars
    <3>7. \A x : ~Here(x)'
      BY <3>3, <3>4 DEF Here
    <3>8. \A x : Unsaves(w, x)' = Unsaves(w, x)
      BY <3>2, <3>4 DEF Unsaves
    <3>9. observers => Unsaves(w, "reporting")
      BY <3>2, <3>3, Lonely DEF Here
    <3> QED
      BY <2>1, <3>2, <3>4, <3>5, <3>6, <3>7, <3>8, <3>9, Lonely, LonelyStep DEF hostVars
  <2> QED
    BY <2>2, <2>3
<1>4. CASE InitCreate(w)
  <2>1. /\ pc[w] = "create" /\ pc'[w] = "fetch"
        /\ \A v \in Workers \ {w} : pc'[v] = pc[v]
    BY <1>4 DEF InitCreate, Goto, TInv, TypeOK
  <2>2. Busy(w) /\ Busy(w)'
    BY <2>1 DEF Busy
  <2>3. UNCHANGED <<work, hostVars, mainVars, cmd, todo, held, answer, want, old, asked>>
    BY <1>4 DEF InitCreate, history
  <2>4. rt = 0 /\ main = "idle" /\ WorkerOk(w) /\ LeftBehind
    BY <2>1, <2>2, Lonely DEF WorkerOk
  <2>5. rt' = created + 1 /\ rt' \in Runtimes
    BY <1>4 DEF InitCreate, TInv, TypeOK, Runtimes
  <2>6. \A r \in Runtimes : work[r] = {}
    BY <2>4 DEF LeftBehind, Runtimes
  <2>7. \A x : ~Here(x)' /\ ~Here(x)
    BY <2>3, <2>4, <2>5, <2>6 DEF Here
  <2>8. LeftBehind'
    BY <2>3, <2>6 DEF LeftBehind
  <2>9. WorkerOk(w)'
    BY <2>1, <2>3, <2>4, <2>7 DEF WorkerOk, Permitted, hostVars
  <2>10. \A x : Unsaves(w, x)' = Unsaves(w, x)
    BY <2>2, <2>3 DEF Unsaves
  <2>11. observers => Unsaves(w, "reporting")
    BY <2>2, <2>7, Lonely
  <2> QED
    BY <2>1, <2>2, <2>3, <2>7, <2>8, <2>9, <2>10, <2>11, Lonely, LonelyStep DEF hostVars
<1> QED
  BY <1>1, <1>2, <1>3, <1>4

LEMMA ActAsked ==
    ASSUME TInv, LInv, lone, NEW w \in Workers, NEW ok \in BOOLEAN, Act(w, ok)
    PROVE  LInv'
<1> DEFINE call == Head(todo[w])
<1>1. /\ pc[w] = "act" /\ todo[w] # <<>> /\ Busy(w)
      /\ pc'[w] \in {"fetch", "load"} /\ Busy(w)'
      /\ \A v \in Workers \ {w} : pc'[v] = pc[v] /\ answer'[v] = answer[v]
  BY ActFacts DEF Act, Goto, TInv, TypeOK, Busy
<1>2. WorkerOk(w) /\ LeftBehind
  BY <1>1, Lonely
<1>3. held[w] = rt /\ todo[w] \in Seq(Permitted(w)) /\ want[w] \subseteq asked
  BY <1>1, <1>2 DEF WorkerOk
<1>4. call \in Permitted(w)
  BY <1>1, <1>3, SeqFacts
<1>5. /\ \A x : Ends(w, x) => call \in {"close", "stopReporting", "stopNotify"}
      /\ \A x : Ends(w, x) /\ call = "stopReporting" => x = "reporting"
      /\ \A x : Ends(w, x) /\ call = "stopNotify" => x = "notify"
  BY DEF Ends
<1>6. IF ok THEN CanSucceed(call, rt) ELSE CanFail(call)
  BY <1>3 DEF Act
<1>7. ~ok => call \notin {"close", "stopReporting", "stopNotify"}
  BY <1>6 DEF CanFail
<1>8. work' = IF ok /\ rt # 0 THEN [work EXCEPT ![rt] = Effect(call, work[rt])] ELSE work
  BY <1>3 DEF Act
<1>9. UNCHANGED <<rt, desired, mainVars, asked>>
  BY DEF Act, history
<1>10. cmd'[w] = cmd[w] \/ (cmd[w] = "restore" /\ cmd'[w] = "keep")
  BY DEF Act, TInv, TypeOK
<1>11. answer'[w] = IF ok /\ rt # 0 THEN work'[rt] ELSE {}
  BY <1>3 DEF Act, TInv, TypeOK
<1>12. observers' = IF cmd[w] = "restore" /\ call = "startReporting" THEN ok ELSE observers
  BY DEF Act
<1>13. todo'[w] = Rest(w, ok)
  BY DEF Act, TInv, TypeOK
<1>24. want'[w] \subseteq want[w]
  BY DEF Act, TInv, TypeOK
<1> HIDE DEF call
<1>14. \A x : Here(x)' <=> rt # 0 /\ x \in (IF ok THEN Effect(call, work[rt]) ELSE work[rt])
  <2>1. rt # 0 => rt \in Runtimes
    BY DEF TInv, TypeOK
  <2> QED
    BY <1>8, <1>9, <2>1 DEF Here, TInv, TypeOK
<1>15. rt = 0 /\ ok => call \in {"close", "stopReporting", "stopNotify"}
  BY <1>6 DEF CanSucceed, CanFail
<1>16. \A x \in Flags : Here(x)' => x \in asked
  <2> SUFFICES ASSUME NEW x \in Flags, Here(x)' PROVE x \in asked
    OBVIOUS
  <2>1. Here(x) => x \in asked \/ Ends(w, x)
    BY <1>1, Lonely
  <2>2. CASE Here(x) /\ Ends(w, x)
    BY <1>5, <1>7, <1>14, <2>2 DEF Effect
  <2>3. CASE ~Here(x)
    <3>1. rt # 0 /\ ok /\ x \in Effect(call, work[rt]) /\ x \notin work[rt]
      BY <1>14, <2>3 DEF Here
    <3>2. \/ call = "connect" /\ x = "connected"
          \/ call = "startReporting" /\ x = "reporting"
          \/ call = "startNotify" /\ x = "notify"
      BY <1>4, <3>1 DEF Effect, Permitted, Calls, Flags
    <3> QED
      BY <1>4, <3>2 DEF Permitted
  <2> QED
    BY <2>1, <2>2, <2>3
<1>17. Here("wanted")' => "connected" \in asked
  <2> SUFFICES ASSUME Here("wanted")' PROVE "connected" \in asked
    OBVIOUS
  <2>1. Here("wanted") => "connected" \in asked \/ Ends(w, "wanted")
    BY <1>1, Lonely
  <2>2. CASE Here("wanted") /\ Ends(w, "wanted")
    BY <1>5, <1>7, <1>14, <2>2 DEF Effect
  <2>3. CASE ~Here("wanted")
    <3>1. rt # 0 /\ ok /\ "wanted" \in Effect(call, work[rt]) /\ "wanted" \notin work[rt]
      BY <1>14, <2>3 DEF Here
    <3>2. call = "connect"
      BY <1>4, <3>1 DEF Effect, Permitted, Calls
    <3> QED
      BY <1>4, <3>2 DEF Permitted
  <2> QED
    BY <2>1, <2>2, <2>3
<1>18. \A x : Unsaves(w, x)' = Unsaves(w, x)
  BY <1>1, <1>10 DEF Unsaves
<1>19. observers' => Here("reporting")' \/ Unsaves(w, "reporting")'
  <2>1. CASE cmd[w] = "restore" /\ call = "startReporting"
    BY <1>12, <1>14, <1>15, <2>1 DEF Effect
  <2>2. CASE ~(cmd[w] = "restore" /\ call = "startReporting")
    <3>1. observers' => Here("reporting") \/ Unsaves(w, "reporting")
      BY <1>1, <1>12, <2>2, Lonely
    <3>2. call \in {"close", "stopReporting"} => Unsaves(w, "reporting")
      BY <1>1, <1>4 DEF Permitted, Unsaves
    <3>3. call \notin {"close", "stopReporting"} /\ Here("reporting") => Here("reporting")'
      BY <1>4, <1>14 DEF Here, Effect, Permitted, Calls
    <3> QED
      BY <1>18, <3>1, <3>2, <3>3
  <2> QED
    BY <2>1, <2>2
<1>20. LeftBehind'
  BY <1>2, <1>8, <1>9 DEF LeftBehind, TInv, TypeOK, mainVars
<1>21. todo'[w] \in Seq(Permitted(w)')
  <2>1. Permitted(w)' = Permitted(w)
    BY <1>9, <1>10 DEF Permitted
  <2>2. cmd[w] = "start" => {"login", "register", "startReporting"} \subseteq Permitted(w)
    BY <1>2 DEF WorkerOk, Permitted, Calls
  <2>3. cmd[w] = "restore" => /\ "login" \in Permitted(w)
                              /\ "reporting" \in want[w] => "startReporting" \in Permitted(w)
                              /\ "notify" \in want[w] => "startNotify" \in Permitted(w)
    BY <1>3 DEF Permitted, Calls
  <2>4. Permitted(w) \in SUBSET Calls
    BY DEF Permitted
  <2> QED
    BY <1>1, <1>3, <1>13, <2>1, <2>2, <2>3, <2>4, RestType
<1>22. WorkerOk(w)'
  <2>1. cmd'[w] = "start" => "reporting" \in asked
    BY <1>2, <1>10 DEF WorkerOk
  <2>2. \A x \in Flags : x \in answer'[w] => Here(x)'
    BY <1>9, <1>11 DEF Here
  <2>3. "reporting" \in answer'[w] => Here("reporting")'
    BY <2>2 DEF Flags
  <2> QED
    BY <1>1, <1>3, <1>9, <1>16, <1>21, <1>24, <2>1, <2>2, <2>3 DEF WorkerOk
<1>23. \A x \in desired' : x \in asked \/ Unsaves(w, x)'
  BY <1>1, <1>9, <1>18, Lonely
<1> QED
  BY <1>1, <1>9, <1>16, <1>17, <1>19, <1>20, <1>22, <1>23, LonelyStep

LEMMA SaveAsked ==
    ASSUME TInv, LInv, lone, NEW w \in Workers, Load(w) \/ Save(w)
    PROVE  LInv'
<1>0. Busy(w) /\ WorkerOk(w) /\ LeftBehind
  BY Lonely DEF Load, Save, Goto, Busy
<1>1. CASE Load(w)
  <2>1. /\ pc[w] = "load" /\ pc'[w] = "save" /\ old'[w] = desired
        /\ \A v \in Workers \ {w} : pc'[v] = pc[v]
        /\ UNCHANGED <<rt, work, hostVars, mainVars, cmd, todo, held, answer, want, asked>>
    BY <1>1 DEF Load, Goto, TInv, TypeOK, history
  <2>2. Busy(w)'
    BY <2>1 DEF Busy
  <2>3. \A x : /\ Here(x)' = Here(x) /\ Unsaves(w, x)' = Unsaves(w, x) /\ ~Ends(w, x)
    BY <1>0, <2>1, <2>2 DEF Here, Unsaves, Ends, Calling
  <2>4. WorkerOk(w)'
    BY <1>0, <2>1 DEF WorkerOk, Permitted, Here, hostVars
  <2>5. LeftBehind'
    BY <1>0, <2>1 DEF LeftBehind, mainVars
  <2> QED
    BY <1>0, <2>1, <2>2, <2>3, <2>4, <2>5, Lonely, LonelyStep DEF hostVars
<1>2. CASE Save(w)
  <2>1. /\ pc[w] = "save" /\ pc'[w] = "idle" /\ answer'[w] = {}
        /\ \A v \in Workers \ {w} : pc'[v] = pc[v] /\ answer'[v] = answer[v]
        /\ UNCHANGED <<rt, work, mainVars, asked>>
    BY <1>2 DEF Save, Goto, TInv, TypeOK, history
  <2>2. /\ desired' = (desired \ Touched(cmd[w])) \cup (Value(w) \cap Touched(cmd[w]))
        /\ observers' = Observed(w)
    BY <1>0, <1>2, <2>1 DEF Save, WorkerOk
  <2>3. \A x : Here(x)' = Here(x) /\ ~Ends(w, x)
    BY <2>1 DEF Here, Ends, Calling
  <2>4. Touched(cmd[w]) \subseteq Flags
    BY DEF Touched, Flags
  <2>5. \A x \in Flags : x \in Value(w) => x \in asked
    BY <1>0 DEF WorkerOk, Value
  <2>6. \A x \in desired' : x \in asked
    <3> SUFFICES ASSUME NEW x \in desired' PROVE x \in asked
      OBVIOUS
    <3>1. CASE x \in Value(w) /\ x \in Touched(cmd[w])
      BY <2>4, <2>5, <3>1
    <3>2. CASE x \in desired /\ x \notin Touched(cmd[w])
      <4>1. x \in Flags
        BY <3>2 DEF TInv, TypeOK
      <4>2. ~Unsaves(w, x)
        BY <3>2, <4>1 DEF Unsaves, Touched
      <4> QED
        BY <1>0, <3>2, <4>2, Lonely
    <3> QED
      BY <2>2, <3>1, <3>2
  <2>7. observers' => Here("reporting")'
    <3>1. "reporting" \in answer[w] => Here("reporting")
      BY <1>0 DEF WorkerOk
    <3>2. observers => Here("reporting") \/ Unsaves(w, "reporting")
      BY <1>0, Lonely
    <3> QED
      BY <2>2, <2>3, <3>1, <3>2 DEF Observed, Unsaves
  <2>8. LeftBehind' /\ ~Busy(w)'
    BY <1>0, <2>1 DEF LeftBehind, mainVars, Busy
  <2> QED
    BY <1>0, <2>1, <2>3, <2>6, <2>7, <2>8, Lonely, LonelyStep
<1> QED
  BY <1>1, <1>2

\* With no command under way, nothing excuses what is not asked for.
LEMMA Resting ==
    ASSUME TInv, LInv, lone, AtRest
    PROVE  /\ \A w \in Workers : ~Busy(w) /\ answer[w] = {}
           /\ \A x \in Flags : Here(x) => x \in asked
           /\ Here("wanted") => "connected" \in asked
           /\ \A x \in desired : x \in asked
           /\ observers => Here("reporting")
           /\ \A r \in Runtimes : r # rt => work[r] = {}
           /\ asked # {} => "connected" \in asked
           /\ main = "idle"
<1>1. main = "idle" /\ \A w \in Workers : ~Busy(w)
  BY DEF AtRest, Busy
<1>2. \A w \in Workers : \A x : ~Ends(w, x) /\ ~Unsaves(w, x)
  BY <1>1 DEF Ends, Unsaves, Busy, Calling
<1>3. WorkAsked /\ DesiredAsked /\ Observing /\ LeftBehind
  BY DEF LInv
<1>4. \A w \in Workers : answer[w] = {}
  BY <1>1 DEF LInv
<1>5. asked # {} => "connected" \in asked
  BY DEF LInv
<1> QED
  BY <1>1, <1>2, <1>3, <1>4, <1>5 DEF WorkAsked, DesiredAsked, Observing, LeftBehind

\* A worker is started.
LEMMA AssignAsked ==
    ASSUME TInv, LInv, lone, AtRest, NEW w \in Workers,
           NEW c \in Commands \cup {"restore"}, NEW calls, NEW snapshot,
           Assign(w, c, calls, snapshot),
           UNCHANGED <<rt, work, desired, observers, mainVars>>,
           calls \in Seq(Permitted(w)'), snapshot \subseteq asked',
           c = "start" => "reporting" \in asked',
           asked' # {} => "connected" \in asked',
           \A x \in Flags : x \in asked => x \in asked' \/ (Ends(w, x)' /\ Unsaves(w, x)'),
           "connected" \in asked => "connected" \in asked' \/ Ends(w, "wanted")'
    PROVE  LInv'
<1>1. /\ pc'[w] = "init" /\ cmd'[w] = c /\ todo'[w] = calls /\ want'[w] = snapshot
      /\ answer' = answer /\ \A v \in Workers \ {w} : pc'[v] = pc[v]
  BY DEF Assign, TInv, TypeOK
<1>2. main' = "idle" /\ Busy(w)' /\ \A v \in Workers \ {w} : ~Busy(v)' /\ answer'[v] = {}
  BY <1>1, Resting DEF Busy, mainVars
<1>3. Alone'
  BY <1>2 DEF Alone
<1>4. \A x : Here(x)' = Here(x)
  BY DEF Here
<1>5. LeftBehind'
  BY <1>2, Resting DEF LeftBehind
<1>6. WorkAsked'
  BY <1>4, Resting DEF WorkAsked
<1>7. DesiredAsked'
  <2>1. \A x \in desired : x \in Flags
    BY DEF TInv, TypeOK
  <2> QED
    BY <2>1, Resting DEF DesiredAsked
<1>8. Observing' /\ Stopping'
  BY <1>2, <1>4, Resting DEF Observing, Stopping
<1>9. WorkerOk(w)'
  BY <1>1, Resting DEF WorkerOk
<1> QED
  BY <1>2, <1>3, <1>5, <1>6, <1>7, <1>8, <1>9 DEF LInv

LEMMA CommandAsked ==
    ASSUME TInv, LInv, NEW w \in Workers, NEW c \in Commands, Command(w, c)
    PROVE  LInv'
<1> SUFFICES ASSUME lone /\ AtRest PROVE LInv'
  BY DEF Command, LInv
<1>1. /\ Assign(w, c, First(c), {}) /\ asked' = AskedBy(c)
      /\ UNCHANGED <<rt, work, desired, observers, mainVars>>
  BY DEF Command
<1>2. cmd'[w] = c /\ todo'[w] = First(c) /\ pc'[w] = "init"
  BY <1>1 DEF Assign, TInv, TypeOK
<1>3. First(c) \in Seq(Permitted(w)')
  <2>1. CASE c = "disconnect"
    <3>1. "close" \in Permitted(w)'
      BY <1>2, <2>1 DEF Permitted, Calls
    <3> QED
      BY <2>1, <3>1, SeqFacts DEF First
  <2>2. CASE c = "start"
    <3>1. "connect" \in Permitted(w)'
      BY <1>1, <2>2 DEF Permitted, Calls, AskedBy, Requests
    <3> QED
      BY <2>2, <3>1, SeqFacts DEF First
  <2>3. CASE c \notin {"disconnect", "start"}
    <3>1. c \in Permitted(w)'
      BY <1>1, <1>2, <2>3 DEF Permitted, Calls, AskedBy, Requests, Commands
    <3> QED
      BY <2>3, <3>1, SeqFacts DEF First
  <2> QED
    BY <2>1, <2>2, <2>3
<1>4. c = "start" => "reporting" \in asked'
  BY <1>1 DEF AskedBy, Requests
<1>5. asked' # {} => "connected" \in asked'
  BY <1>1, Resting DEF AskedBy, Requests
<1>6. \A x \in Flags : x \in asked => x \in asked' \/ (Ends(w, x)' /\ Unsaves(w, x)')
  <2> SUFFICES ASSUME NEW x \in Flags, x \in asked, x \notin asked'
               PROVE  Ends(w, x)' /\ Unsaves(w, x)'
    OBVIOUS
  <2>1. \/ c = "disconnect"
        \/ c = "stopReporting" /\ x = "reporting"
        \/ c = "stopNotify" /\ x = "notify"
    BY <1>1 DEF AskedBy, Requests, Commands
  <2> QED
    BY <1>2, <2>1 DEF Ends, Unsaves, Busy, Calling, First
<1>7. "connected" \in asked => "connected" \in asked' \/ Ends(w, "wanted")'
  <2> SUFFICES ASSUME "connected" \in asked, "connected" \notin asked' PROVE Ends(w, "wanted")'
    OBVIOUS
  <2>1. c = "disconnect"
    BY <1>1 DEF AskedBy, Requests, Commands
  <2> QED
    BY <1>2, <2>1 DEF Ends, Calling, First
<1> QED
  BY <1>1, <1>3, <1>4, <1>5, <1>6, <1>7, AssignAsked

\* What LInv does not mention.
LEMMA LocalOnly ==
    ASSUME LInv, UNCHANGED <<rt, work, desired, observers, mainVars, workerVars, history>>
    PROVE  LInv'
<1> USE DEF mainVars, workerVars, history
<1>1. \A w \in Workers : /\ Busy(w)' = Busy(w) /\ Permitted(w)' = Permitted(w)
                         /\ \A x : Ends(w, x)' = Ends(w, x) /\ Unsaves(w, x)' = Unsaves(w, x)
  BY DEF Busy, Permitted, Ends, Unsaves
<1>2. \A x : Here(x)' = Here(x)
  BY DEF Here
<1>3. \A w \in Workers : WorkerOk(w)' = WorkerOk(w)
  BY <1>1, <1>2 DEF WorkerOk
<1>4. /\ Alone' = Alone /\ LeftBehind' = LeftBehind /\ WorkAsked' = WorkAsked
      /\ DesiredAsked' = DesiredAsked /\ Observing' = Observing /\ Stopping' = Stopping
  BY <1>1, <1>2 DEF Alone, LeftBehind, WorkAsked, DesiredAsked, Observing, Stopping
<1> QED
  BY <1>1, <1>3, <1>4 DEF LInv

LEMMA RestartAsked ==
    ASSUME TInv, LInv, lone, NEW w \in Workers, Restart(w)
    PROVE  LInv'
<1>1. AtRest /\ UNCHANGED <<rt, work, desired, observers, mainVars, history>>
  BY DEF Restart
<1>2. CASE desired = {}
  <2>1. UNCHANGED workerVars
    BY <1>2 DEF Restart
  <2> QED
    BY <1>1, <2>1, LocalOnly
<1>3. CASE desired # {}
  <2>1. Assign(w, "restore", <<"connect">>, desired)
    BY <1>3 DEF Restart
  <2>2. "connected" \in asked'
    BY <1>1, <1>3, Resting DEF history
  <2>3. "connect" \in Permitted(w)'
    BY <2>2 DEF Permitted, Calls
  <2>4. <<"connect">> \in Seq(Permitted(w)')
    BY <2>3, SeqFacts
  <2>5. desired \subseteq asked' /\ asked' = asked
    BY <1>1, Resting DEF history
  <2> QED
    BY <1>1, <2>1, <2>2, <2>4, <2>5, AssignAsked DEF Commands
<1> QED
  BY <1>2, <1>3

\* The full stop: what the main thread is about to shut is all that is left.
LEMMA MainAsked ==
    ASSUME TInv, LInv, StopAll \/ Take \/ Shut
    PROVE  LInv'
<1>1. CASE StopAll
  <2> SUFFICES ASSUME lone, AtRest PROVE LInv'
    BY <1>1 DEF StopAll, LInv
  <2>1. /\ main' = "take" /\ asked' = {} /\ desired' = {} /\ observers' = FALSE
        /\ UNCHANGED <<rt, work, dying, workerVars>>
    BY <1>1 DEF StopAll
  <2>2. \A w \in Workers : ~Busy(w)' /\ answer'[w] = {}
    BY <2>1, Resting DEF Busy, workerVars
  <2>3. LeftBehind'
    BY <2>1, Resting DEF LeftBehind
  <2> QED
    BY <2>1, <2>2, <2>3 DEF LInv, Alone, WorkAsked, DesiredAsked, Observing, Stopping
<1>2. CASE Take \/ Shut
  <2> SUFFICES ASSUME lone PROVE LInv'
    BY <1>2 DEF Take, Shut, LInv, history
  <2>1. main # "idle"
    BY <1>2 DEF Take, Shut
  <2>2. \A w \in Workers : ~Busy(w) /\ answer[w] = {}
    BY <2>1 DEF LInv, Alone
  <2>3. UNCHANGED <<workerVars, desired, observers, asked>>
    BY <1>2 DEF Take, Shut, hostVars, history
  <2>4. \A w \in Workers : ~Busy(w)' /\ answer'[w] = {}
    BY <2>2, <2>3 DEF Busy, workerVars
  <2>5. asked' = {} /\ desired' = {} /\ ~observers'
    BY <2>1, <2>3 DEF LInv, Stopping
  <2>6. rt' = 0 /\ LeftBehind'
    <3>1. CASE Take
      BY <3>1, <2>1 DEF Take, LInv, LeftBehind
    <3>2. CASE Shut
      BY <3>2, <2>1 DEF Shut, LInv, LeftBehind, TInv, TypeOK
    <3> QED
      BY <1>2, <3>1, <3>2
  <2> QED
    BY <2>4, <2>5, <2>6 DEF LInv, Alone, WorkAsked, DesiredAsked, Observing, Stopping, Here
<1> QED
  BY <1>1, <1>2

\* A session that is lost or recovered is one that was asked for.
LEMMA SessionAsked ==
    ASSUME TInv, LInv, lone, NEW r \in Runtimes, Lose(r) \/ Recover(r)
    PROVE  LInv'
<1>1. UNCHANGED <<rt, desired, observers, mainVars, workerVars, history>>
  BY DEF Lose, Recover, hostVars
<1>2. \A w \in Workers : /\ Busy(w)' = Busy(w) /\ Permitted(w)' = Permitted(w)
                         /\ \A x : Ends(w, x)' = Ends(w, x) /\ Unsaves(w, x)' = Unsaves(w, x)
  BY <1>1 DEF Busy, Permitted, Ends, Unsaves, workerVars, history
<1>3. \A q \in Runtimes : q # r => work'[q] = work[q]
  BY DEF Lose, Recover, TInv, TypeOK
<1>4. work[r] # {} /\ \A x : x \notin {"connected", "loggedIn"} => (x \in work'[r] <=> x \in work[r])
  <2>1. work[r] # {}
    BY DEF Lose, Recover
  <2>2. \/ work'[r] = work[r] \ {"connected", "loggedIn"}
        \/ work'[r] = work[r] \cup {"connected", "loggedIn"}
    BY DEF Lose, Recover, TInv, TypeOK
  <2> QED
    BY <2>1, <2>2
<1>5. \A x : x \notin {"connected", "loggedIn"} => (Here(x)' <=> Here(x))
  <2>1. rt # 0 => rt \in Runtimes
    BY DEF TInv, TypeOK
  <2> QED
    BY <1>1, <1>3, <1>4, <2>1 DEF Here
<1>6. Here("connected")' => Here("connected") \/ Here("wanted")
  <2> SUFFICES ASSUME Here("connected")', ~Here("connected") PROVE Here("wanted")
    OBVIOUS
  <2>1. rt # 0 /\ rt \in Runtimes /\ "connected" \in work'[rt] /\ "connected" \notin work[rt]
    BY <1>1 DEF Here, TInv, TypeOK
  <2>2. rt = r
    BY <1>3, <2>1
  <2>3. ~Lose(r)
    BY <2>1, <2>2 DEF Lose, TInv, TypeOK
  <2> QED
    BY <2>1, <2>2, <2>3 DEF Recover, Here
<1>7. WorkAsked'
  <2> SUFFICES ASSUME main = "idle" PROVE WorkAsked'
    BY <1>1 DEF WorkAsked, mainVars
  <2>1. WorkAsked
    BY DEF LInv
  <2>2. \A w \in Workers : Ends(w, "wanted") => Ends(w, "connected")
    BY DEF Ends
  <2>3. Here("wanted")' => "connected" \in asked' \/ \E w \in Workers : Ends(w, "wanted")'
    BY <1>1, <1>2, <1>5, <2>1 DEF WorkAsked, history
  <2>4. ASSUME NEW x \in Flags, Here(x)'
        PROVE  x \in asked' \/ \E w \in Workers : Ends(w, x)'
    <3>1. CASE Here(x)
      BY <1>1, <1>2, <2>1, <3>1 DEF WorkAsked, history
    <3>2. CASE ~Here(x)
      <4>1. x = "connected" /\ Here("wanted")
        BY <1>5, <1>6, <2>4, <3>2 DEF Flags
      <4> QED
        BY <1>1, <1>2, <2>1, <2>2, <4>1 DEF WorkAsked, history
    <3> QED
      BY <3>1, <3>2
  <2> QED
    BY <2>3, <2>4 DEF WorkAsked
<1>8. LeftBehind'
  BY <1>1, <1>3, <1>4 DEF LInv, LeftBehind, mainVars
<1>9. Alone' /\ DesiredAsked' /\ Observing' /\ Stopping'
  BY <1>1, <1>2, <1>5 DEF LInv, Alone, DesiredAsked, Observing, Stopping, mainVars, history
<1>10. \A w \in Workers : IF Busy(w)' THEN WorkerOk(w)' ELSE answer'[w] = {}
  <2>1. ASSUME NEW w \in Workers, Busy(w) PROVE WorkerOk(w)'
    <3>1. WorkerOk(w)
      BY <2>1 DEF LInv
    <3> QED
      BY <1>1, <1>2, <1>5, <3>1 DEF WorkerOk, workerVars, history
  <2> QED
    BY <1>1, <1>2, <2>1 DEF LInv, workerVars
<1> QED
  BY <1>1, <1>7, <1>8, <1>9, <1>10 DEF LInv, mainVars, history

\* A killed process leaves only the snapshot, and that is what will be restored.
LEMMA KillAsked ==
    ASSUME TInv, LInv, Kill
    PROVE  LInv'
<1>1. rt' = 0 /\ main' = "idle" /\ observers' = FALSE /\ desired' = desired
  BY DEF Kill
<1>2. \A w \in Workers : ~Busy(w)' /\ answer'[w] = {}
  BY DEF Kill, Everywhere, Busy
<1>3. \A r \in Runtimes : work'[r] = {}
  BY DEF Kill
<1>4. desired \subseteq asked' /\ (asked' # {} => "connected" \in asked')
  <2>1. CASE lone /\ AtRest
    BY <2>1, Resting DEF Kill
  <2>2. CASE ~(lone /\ AtRest)
    BY <2>2 DEF Kill
  <2> QED
    BY <2>1, <2>2
<1> QED
  BY <1>1, <1>2, <1>3, <1>4 DEF LInv, Alone, LeftBehind, WorkAsked, DesiredAsked, Observing, Stopping, Here

LEMMA AskedInit == Init => LInv
<1> SUFFICES ASSUME Init PROVE LInv
  OBVIOUS
<1>1. rt = 0 /\ main = "idle" /\ observers = FALSE /\ desired = {} /\ asked = {}
  BY DEF Init
<1>2. \A w \in Workers : ~Busy(w) /\ answer[w] = {}
  BY DEF Init, Everywhere, Busy
<1>3. \A r \in Runtimes : work[r] = {}
  BY DEF Init
<1> QED
  BY <1>1, <1>2, <1>3 DEF LInv, Alone, LeftBehind, WorkAsked, DesiredAsked, Observing, Stopping, Here

LEMMA AskedInductive == TInv /\ LInv /\ [Next]_vars => LInv'
<1> SUFFICES ASSUME TInv, LInv, [Next]_vars PROVE LInv'
  OBVIOUS
<1>1. CASE UNCHANGED vars
  <2>1. UNCHANGED <<rt, work, desired, observers, mainVars, workerVars, history>>
    BY <1>1 DEF vars, hostVars
  <2> QED
    BY <2>1, LocalOnly
<1>2. ASSUME NEW w \in Workers, Worker(w) \/ Restart(w)
      PROVE  LInv'
  <2>1. CASE lone
    BY <1>2, <2>1, BridgeAsked, ActAsked, SaveAsked, RestartAsked DEF Worker
  <2>2. CASE ~lone
    <3>1. lone' = lone
      BY <1>2 DEF Worker, InitFetch, InitCreate, CreateFails, Fetch, Act, Load, Save, Restart, history
    <3> QED
      BY <2>2, <3>1 DEF LInv
  <2> QED
    BY <2>1, <2>2
<1>3. ASSUME NEW w \in Workers, NEW c \in Commands, Command(w, c)
      PROVE  LInv'
  BY <1>3, CommandAsked
<1>4. CASE StopAll \/ Take \/ Shut
  BY <1>4, MainAsked
<1>5. ASSUME NEW r \in Runtimes, Lose(r) \/ Recover(r)
      PROVE  LInv'
  <2>1. CASE lone
    BY <1>5, <2>1, SessionAsked
  <2>2. CASE ~lone
    <3>1. lone' = lone
      BY <1>5 DEF Lose, Recover, history
    <3> QED
      BY <2>2, <3>1 DEF LInv
  <2> QED
    BY <2>1, <2>2
<1>6. CASE Kill
  BY <1>6, KillAsked
<1> QED
  BY <1>1, <1>2, <1>3, <1>4, <1>5, <1>6 DEF Next

LEMMA AskedHolds == TInv /\ LInv => NothingUnasked /\ HostFollows
<1> SUFFICES ASSUME TInv, LInv PROVE NothingUnasked /\ HostFollows
  OBVIOUS
<1>1. NothingUnasked
  <2> SUFFICES ASSUME AtRest, lone
               PROVE  /\ desired \subseteq asked
                      /\ \A r \in Runtimes : work[r] \cap Flags \subseteq IF r = rt THEN asked ELSE {}
    BY DEF NothingUnasked
  <2>1. desired \subseteq asked
    BY Resting
  <2>2. ASSUME NEW r \in Runtimes, r # rt PROVE work[r] = {}
    BY <2>2, Resting
  <2>3. ASSUME rt \in Runtimes PROVE work[rt] \cap Flags \subseteq asked
    BY <2>3, Resting DEF Here, Runtimes
  <2> QED
    BY <2>1, <2>2, <2>3
<1>2. HostFollows
  BY Resting DEF HostFollows, Here
<1> QED
  BY <1>1, <1>2

\* As long as no two commands overlap, nothing stays at work in any runtime, and nothing
\* stays in the run snapshot, that the user has not asked for or has stopped, through
\* failed calls, lost sessions, a kill at any step and the restore that follows
\* (onStartCommand, handleRestoreOrRefresh, saveServiceSnapshot).
THEOREM NothingRunsUnasked == Spec => []NothingUnasked
<1> QED
  BY TypeInit, TypeInductive, AskedInit, AskedInductive, AskedHolds, PTL DEF Spec

\* ... and the observers of the metrics run only while the runtime reports.
THEOREM HostFollowsRuntime == Spec => []HostFollows
<1> QED
  BY TypeInit, TypeInductive, AskedInit, AskedInductive, AskedHolds, PTL DEF Spec

-----------------------------------------------------------------------------
(***************************************************************************)
(* What has been asked for stays saved.  A command leaves alone what it    *)
(* does not save; of what it does save, it brings back in its last answer  *)
(* what is owed, or that answer is counted against it.  A restore still    *)
(* has to call for what it wants and has not started.                      *)
(***************************************************************************)
Owed == asked \ refused

\* The calls of a sequence of them.
Within(s) == {s[i] : i \in 1..Len(s)}

Starter(x) == IF x = "reporting" THEN "startReporting" ELSE "startNotify"

Course(w) ==
    CASE cmd[w] = "disconnect" -> TRUE
      [] cmd[w] = "start" ->
             todo[w] \in {<<"connect">>, <<"login", "startReporting">>,
                          <<"register", "startReporting">>, <<"startReporting">>}
      [] cmd[w] = "restore" ->
             /\ Owed \subseteq want[w]
             /\ todo[w] # <<"connect">> =>
                    \A x \in Owed \cap {"reporting", "notify"} :
                        Here(x) \/ Starter(x) \in Within(todo[w])
      [] OTHER -> todo[w] = <<cmd[w]>>

Keeps(w) ==
    /\ Owed \ Touched(cmd[w]) \subseteq desired
    /\ pc[w] \in {"load", "save"} => Owed \cap Touched(cmd[w]) \subseteq Value(w)
    /\ cmd[w] = "stopReporting" => "reporting" \notin asked
    /\ cmd[w] = "stopNotify" => "notify" \notin asked
    /\ cmd[w] = "disconnect" => asked = {}
    /\ pc[w] \in Calling => Course(w)

KInv ==
    lone =>
        /\ (\A w \in Workers : ~Busy(w)) => Owed \subseteq desired
        /\ \A w \in Workers : Busy(w) => Keeps(w)

LEMMA WithinFacts ==
    ASSUME NEW S
    PROVE  /\ \A a \in S : Within(<<a>>) = {a}
           /\ \A s, t \in Seq(S) : Within(s \o t) = Within(s) \cup Within(t)
           /\ \A s \in Seq(S) : s # <<>> => Within(s) \subseteq {Head(s)} \cup Within(Tail(s))
           /\ Within(<<>>) = {}
<1>1. \A a \in S : Within(<<a>>) = {a}
  BY DEF Within
<1>2. ASSUME NEW s \in Seq(S), NEW t \in Seq(S)
      PROVE  Within(s \o t) = Within(s) \cup Within(t)
  <2>1. /\ Len(s \o t) = Len(s) + Len(t) /\ Len(s) \in Nat /\ Len(t) \in Nat
        /\ \A i \in 1..Len(s) + Len(t) :
               (s \o t)[i] = IF i <= Len(s) THEN s[i] ELSE t[i - Len(s)]
    OBVIOUS
  <2>2. ASSUME NEW x \in Within(s \o t) PROVE x \in Within(s) \cup Within(t)
    <3>1. PICK i \in 1..Len(s) + Len(t) : x = (s \o t)[i]
      BY <2>1, <2>2 DEF Within
    <3>2. CASE i <= Len(s)
      BY <2>1, <3>1, <3>2 DEF Within
    <3>3. CASE i > Len(s)
      <4>1. i - Len(s) \in 1..Len(t) /\ x = t[i - Len(s)]
        BY <2>1, <3>1, <3>3
      <4> QED
        BY <4>1 DEF Within
    <3> QED
      BY <2>1, <3>2, <3>3
  <2>3. ASSUME NEW x \in Within(s) PROVE x \in Within(s \o t)
    <3>1. PICK i \in 1..Len(s) : x = s[i]
      BY <2>3 DEF Within
    <3>2. i \in 1..Len(s \o t) /\ x = (s \o t)[i]
      BY <2>1, <3>1
    <3> QED
      BY <3>2 DEF Within
  <2>4. ASSUME NEW x \in Within(t) PROVE x \in Within(s \o t)
    <3>1. PICK i \in 1..Len(t) : x = t[i]
      BY <2>4 DEF Within
    <3>2. Len(s) + i \in 1..Len(s \o t) /\ x = (s \o t)[Len(s) + i]
      BY <2>1, <3>1
    <3> QED
      BY <3>2 DEF Within
  <2> QED
    BY <2>2, <2>3, <2>4
<1>3. ASSUME NEW s \in Seq(S), s # <<>>
      PROVE  Within(s) \subseteq {Head(s)} \cup Within(Tail(s))
  <2> SUFFICES ASSUME NEW i \in 1..Len(s), i # 1 PROVE s[i] \in Within(Tail(s))
    BY <1>3 DEF Within
  <2>1. i - 1 \in 1..Len(Tail(s)) /\ s[i] = Tail(s)[i - 1]
    BY <1>3
  <2> QED
    BY <2>1 DEF Within
<1>4. Within(<<>>) = {}
  BY DEF Within
<1> QED
  BY <1>1, <1>2, <1>3, <1>4

\* A worker that is at it is the only one: what is kept is what it keeps.
LEMMA KeepingStep ==
    ASSUME TInv, LInv, lone, lone', NEW w \in Workers, Busy(w),
           \A v \in Workers \ {w} : pc'[v] = pc[v],
           IF Busy(w)' THEN Keeps(w)' ELSE Owed' \subseteq desired'
    PROVE  KInv'
<1>1. \A v \in Workers \ {w} : ~Busy(v)'
  BY Lonely DEF Busy
<1> QED
  BY <1>1 DEF KInv

\* A step of its that neither calls nor saves.
LEMMA BridgeKeeps ==
    ASSUME TInv, LInv, KInv, lone, NEW w \in Workers,
           InitFetch(w) \/ InitCreate(w) \/ CreateFails(w) \/ Fetch(w)
    PROVE  KInv'
<1>1. /\ pc[w] \in Calling /\ Busy(w) /\ Busy(w)'
      /\ \A v \in Workers \ {w} : pc'[v] = pc[v]
  BY DEF InitFetch, InitCreate, CreateFails, Fetch, Goto, TInv, TypeOK, Calling, Busy
<1>2. /\ UNCHANGED <<work, desired, cmd, answer, want, asked, lone>>
      /\ \A x : Here(x) => rt' = rt
  <2>1. pc[w] = "create" => rt = 0
    BY <1>1, Lonely DEF WorkerOk
  <2> QED
    BY <2>1 DEF InitFetch, InitCreate, CreateFails, Fetch, Goto, hostVars, history, Here
<1>3. Keeps(w)
  BY <1>1 DEF KInv
<1>4. CASE CreateFails(w) /\ cmd[w] = "start"
  <2>1. pc'[w] = "load" /\ refused' = refused \cup (asked \cap Touched(cmd[w]))
    BY <1>4 DEF CreateFails, Goto, TInv, TypeOK
  <2>2. Owed' \cap Touched(cmd[w]) = {} /\ Owed' \subseteq Owed
    BY <1>2, <2>1 DEF Owed
  <2>3. Keeps(w)'
    BY <1>2, <1>3, <1>4, <2>1, <2>2 DEF Keeps, Calling
  <2> QED
    BY <1>1, <1>2, <2>3, KeepingStep
<1>5. CASE ~(CreateFails(w) /\ cmd[w] = "start")
  <2>1. UNCHANGED <<todo, refused>> /\ pc'[w] \in Calling
    BY <1>5 DEF InitFetch, InitCreate, CreateFails, Fetch, Goto, TInv, TypeOK, Calling, history
  <2>2. Owed' = Owed /\ \A x : Here(x) => Here(x)'
    BY <1>2, <2>1 DEF Owed, Here
  <2>3. Course(w)'
    BY <1>1, <1>2, <1>3, <2>1, <2>2 DEF Keeps, Course
  <2>4. Keeps(w)'
    BY <1>2, <1>3, <2>1, <2>2, <2>3 DEF Keeps, Calling
  <2> QED
    BY <1>1, <1>2, <2>4, KeepingStep
<1> QED
  BY <1>4, <1>5

\* What a restore has left to call once it is connected starts what it wants.
LEMMA RestStarts ==
    ASSUME NEW w, cmd[w] = "restore", Head(todo[w]) = "connect",
           NEW x \in want[w] \cap {"reporting", "notify"}
    PROVE  Starter(x) \in Within(Rest(w, TRUE))
<1> DEFINE In == IF known THEN <<"login">> ELSE <<>>
           Re == IF "reporting" \in want[w] THEN <<"startReporting">> ELSE <<>>
           No == IF "notify" \in want[w] THEN <<"startNotify">> ELSE <<>>
<1>1. Rest(w, TRUE) = (In \o Re) \o No
  BY DEF Rest
<1>2. In \in Seq(Calls) /\ Re \in Seq(Calls) /\ No \in Seq(Calls)
  <2>1. "login" \in Calls /\ "startReporting" \in Calls /\ "startNotify" \in Calls
    BY DEF Calls
  <2> QED
    BY <2>1, SeqFacts
<1>3. Within(Rest(w, TRUE)) = (Within(In) \cup Within(Re)) \cup Within(No)
  <2> HIDE DEF In, Re, No
  <2>1. In \o Re \in Seq(Calls)
    BY <1>2, SeqFacts
  <2>2. \A s, t \in Seq(Calls) : Within(s \o t) = Within(s) \cup Within(t)
    BY WithinFacts
  <2>3. Within((In \o Re) \o No) = Within(In \o Re) \cup Within(No)
    BY <1>2, <2>1, <2>2, Zenon
  <2>4. Within(In \o Re) = Within(In) \cup Within(Re)
    BY <1>2, <2>2, Zenon
  <2> QED
    BY <1>1, <2>3, <2>4
<1>4. CASE x = "reporting"
  <2>1. Re = <<"startReporting">> /\ "startReporting" \in Calls
    BY <1>4 DEF Calls
  <2>2. Within(Re) = {"startReporting"}
    BY <2>1, WithinFacts
  <2> QED
    BY <1>3, <1>4, <2>2 DEF Starter
<1>5. CASE x = "notify"
  <2>1. No = <<"startNotify">> /\ "startNotify" \in Calls
    BY <1>5 DEF Calls
  <2>2. Within(No) = {"startNotify"}
    BY <2>1, WithinFacts
  <2> QED
    BY <1>3, <1>5, <2>2 DEF Starter
<1> QED
  BY <1>4, <1>5

\* What every other command has left to call.
LEMMA RestOfCourse ==
    ASSUME NEW w, NEW ok \in BOOLEAN, Course(w), cmd[w] \in Commands \ {"disconnect"}
    PROVE  IF cmd[w] # "start"
           THEN Head(todo[w]) = cmd[w] /\ Rest(w, ok) = <<>>
           ELSE /\ ok /\ Rest(w, ok) = <<>> => Head(todo[w]) = "startReporting"
                /\ Rest(w, ok) # <<>> =>
                       Rest(w, ok) \in {<<"login", "startReporting">>,
                                        <<"register", "startReporting">>, <<"startReporting">>}
<1>1. /\ \A a : Head(<<a>>) = a /\ Tail(<<a>>) = <<>> /\ <<a>> # <<>>
      /\ \A a, b : Head(<<a, b>>) = a /\ Tail(<<a, b>>) = <<b>> /\ <<a, b>> # <<>>
  OBVIOUS
<1>2. CASE cmd[w] # "start"
  <2>1. todo[w] = <<cmd[w]>> /\ cmd[w] # "restore"
    BY <1>2 DEF Course, Commands
  <2>2. Head(todo[w]) = cmd[w] /\ Tail(todo[w]) = <<>>
    BY <1>1, <2>1
  <2> QED
    BY <1>2, <2>1, <2>2 DEF Rest
<1>3. CASE cmd[w] = "start"
  <2>1. todo[w] \in {<<"connect">>, <<"login", "startReporting">>,
                     <<"register", "startReporting">>, <<"startReporting">>}
    BY <1>3 DEF Course
  <2>2. CASE todo[w] = <<"connect">>
    <3>1. Head(todo[w]) = "connect"
      BY <1>1, <2>2
    <3>2. CASE ok
      <4>1. Rest(w, ok) = <<IF known THEN "login" ELSE "register", "startReporting">>
        BY <1>3, <3>1, <3>2 DEF Rest
      <4> QED
        BY <1>1, <1>3, <4>1
    <3>3. CASE ~ok
      BY <1>3, <3>1, <3>3 DEF Rest
    <3> QED
      BY <3>2, <3>3
  <2>3. CASE todo[w] \in {<<"login", "startReporting">>, <<"register", "startReporting">>}
    <3>1. Head(todo[w]) \in {"login", "register"} /\ Tail(todo[w]) = <<"startReporting">>
      BY <1>1, <2>3
    <3>2. Rest(w, ok) = IF ok THEN <<"startReporting">> ELSE <<>>
      BY <1>3, <3>1 DEF Rest
    <3> QED
      BY <1>1, <1>3, <3>2
  <2>4. CASE todo[w] = <<"startReporting">>
    <3>1. Head(todo[w]) = "startReporting" /\ Tail(todo[w]) = <<>>
      BY <1>1, <2>4
    <3>2. Rest(w, ok) = <<>>
      BY <1>3, <3>1 DEF Rest
    <3> QED
      BY <1>3, <3>1, <3>2
  <2> QED
    BY <2>1, <2>2, <2>3, <2>4
<1> QED
  BY <1>2, <1>3

\* A call: the answer has what is owed, or is counted.
LEMMA ActKeeps ==
    ASSUME TInv, LInv, KInv, lone, NEW w \in Workers, NEW ok \in BOOLEAN, Act(w, ok)
    PROVE  KInv'
<1> DEFINE call == Head(todo[w])
<1>1. /\ pc[w] = "act" /\ todo[w] # <<>> /\ call \in Calls /\ Busy(w)
      /\ pc'[w] = (IF Rest(w, ok) # <<>> THEN "fetch" ELSE "load") /\ Busy(w)'
      /\ todo'[w] = Rest(w, ok)
      /\ \A v \in Workers \ {w} : pc'[v] = pc[v]
  BY ActFacts DEF Act, Goto, TInv, TypeOK, Busy
<1>2. held[w] = rt /\ todo[w] \in Seq(Permitted(w)) /\ todo[w] \in Seq(Calls)
  BY <1>1, Lonely DEF WorkerOk, TInv, TypeOK
<1>3. call \in Permitted(w)
  BY <1>1, <1>2, SeqFacts
<1>4. UNCHANGED <<rt, desired, asked, lone>>
  BY DEF Act
<1>5. cmd'[w] = IF cmd[w] = "restore" /\ call = "connect" /\ ~ok THEN "keep" ELSE cmd[w]
  BY DEF Act, TInv, TypeOK
<1>6. want'[w] = IF ok THEN want[w] ELSE want[w] \ GivenUp(call)
  BY DEF Act, TInv, TypeOK
<1>7. answer'[w] = IF ok /\ rt # 0 THEN work'[rt] ELSE {}
  BY <1>2 DEF Act, TInv, TypeOK
<1>8. ok /\ rt # 0 => work'[rt] = Effect(call, work[rt])
  BY <1>2 DEF Act, TInv, TypeOK
<1>9. ~(ok /\ rt # 0) => work' = work
  BY <1>2 DEF Act
<1>10. refused' = IF (cmd[w] = "restore" /\ call = "connect") \/ "connected" \in answer'[w]
                  THEN refused ELSE refused \cup (asked \cap Touched(cmd[w]))
  BY DEF Act
<1>11. Owed' \subseteq Owed /\ Owed \subseteq Flags
  BY <1>4, <1>10 DEF Owed, TInv, TypeOK
<1>12. Keeps(w) /\ Course(w)
  BY <1>1 DEF KInv, Keeps, Calling
<1>13. cmd[w] # "keep"
  BY <1>1, <1>12 DEF Course, Calls
<1>14. ok /\ call = "connect" => rt # 0
  BY <1>2 DEF Act, CanSucceed, CanFail
<1>15. cmd[w] \in Commands \cup {"restore"}
  BY <1>13 DEF TInv, TypeOK
<1> HIDE DEF call
<1>16. CASE cmd[w] # "restore"
  <2>1. cmd'[w] = cmd[w]
    BY <1>5, <1>16
  <2>2. Owed' \ Touched(cmd[w]) \subseteq desired'
    BY <1>4, <1>11, <1>12 DEF Keeps
  <2>3. ASSUME pc'[w] \in {"load", "save"}
        PROVE  Owed' \cap Touched(cmd[w]) \subseteq Value(w)'
    <3>1. CASE "connected" \notin answer'[w]
      BY <1>4, <1>10, <1>16, <3>1 DEF Owed
    <3>2. CASE "connected" \in answer'[w]
      <4>1. ok /\ rt # 0 /\ answer'[w] = Effect(call, work[rt])
        BY <1>7, <1>8, <3>2
      <4>2. Rest(w, ok) = <<>>
        BY <1>1, <2>3
      <4>3. cmd[w] \in {"start", "startReporting"} => call = "startReporting"
        <5>1. cmd[w] = "startReporting" => call = "startReporting"
          BY <1>12 DEF Course, call
        <5>2. cmd[w] = "start" => call = "startReporting"
          BY <1>12, <1>15, <1>16, <4>1, <4>2, RestOfCourse DEF call
        <5> QED
          BY <5>1, <5>2
      <4>4. cmd[w] = "startNotify" => call = "startNotify"
        BY <1>12 DEF Course, call
      <4>5. /\ "reporting" \in Owed' /\ cmd[w] \in {"start", "startReporting"}
               => "reporting" \in answer'[w]
            /\ "notify" \in Owed' /\ cmd[w] = "startNotify" => "notify" \in answer'[w]
        BY <4>1, <4>3, <4>4 DEF Effect
      <4>6. /\ cmd[w] = "stopReporting" => "reporting" \notin Owed'
            /\ cmd[w] = "stopNotify" => "notify" \notin Owed'
            /\ cmd[w] = "disconnect" => Owed' = {}
        BY <1>4, <1>12 DEF Keeps, Owed
      <4> QED
        BY <1>15, <1>16, <2>1, <3>2, <4>5, <4>6 DEF Touched, Value, Commands
    <3> QED
      BY <3>1, <3>2
  <2>4. ASSUME pc'[w] \in Calling PROVE Course(w)'
    <3>1. Rest(w, ok) # <<>>
      BY <1>1, <2>4 DEF Calling
    <3>2. cmd[w] \notin {"start", "disconnect"} => Rest(w, ok) = <<>>
      BY <1>12, <1>15, <1>16, RestOfCourse
    <3>3. cmd[w] = "start" => Rest(w, ok) \in {<<"login", "startReporting">>,
                                  <<"register", "startReporting">>, <<"startReporting">>}
      BY <1>12, <1>15, <1>16, <3>1, RestOfCourse
    <3> QED
      BY <1>1, <2>1, <3>1, <3>2, <3>3 DEF Course
  <2>5. Keeps(w)'
    BY <1>4, <1>12, <2>1, <2>2, <2>3, <2>4 DEF Keeps
  <2> QED
    BY <1>1, <1>4, <2>5, KeepingStep
<1>17. CASE cmd[w] = "restore"
  <2>1. Touched(cmd[w]) = Flags /\ Touched(cmd'[w]) = Flags
    BY <1>5, <1>17 DEF Touched
  <2>2. Owed \subseteq want[w]
    BY <1>12, <1>17 DEF Course
  <2>3. Owed' \ Touched(cmd'[w]) \subseteq desired'
    BY <1>11, <2>1
  <2>4. cmd'[w] \in {"restore", "keep"}
    BY <1>5, <1>17
  <2>5. CASE call = "connect" /\ ~ok
    <3>1. cmd'[w] = "keep" /\ want'[w] = want[w] /\ pc'[w] = "load"
      BY <1>1, <1>5, <1>6, <1>17, <2>5 DEF GivenUp, Rest, call
    <3>2. Value(w)' = want[w]
      BY <3>1 DEF Value
    <3>3. Keeps(w)'
      BY <1>11, <2>2, <2>3, <3>1, <3>2 DEF Keeps, Calling
    <3> QED
      BY <1>1, <1>4, <3>3, KeepingStep
  <2>6. CASE call # "connect" /\ "connected" \notin answer'[w]
    <3>1. Owed' = {}
      BY <1>4, <1>10, <2>1, <2>6 DEF Owed, TInv, TypeOK
    <3>2. cmd'[w] = "restore"
      BY <1>5, <1>17, <2>6
    <3>3. Keeps(w)'
      BY <3>1, <3>2 DEF Keeps, Course
    <3> QED
      BY <1>1, <1>4, <3>3, KeepingStep
  <2>7. CASE ok /\ rt # 0 /\ "connected" \in answer'[w]
    <3>1. /\ cmd'[w] = "restore" /\ want'[w] = want[w]
          /\ answer'[w] = Effect(call, work[rt])
      BY <1>5, <1>6, <1>7, <1>8, <1>17, <2>7
    <3>2. call \in {"connect", "register", "login", "startReporting", "startNotify"}
      BY <1>3, <1>17 DEF Permitted, Calls
    <3>3. ASSUME NEW x \in Owed' \cap {"reporting", "notify"}
          PROVE  x \in answer'[w] \/ Starter(x) \in Within(Rest(w, ok))
      <4>1. CASE call = "connect"
        <5>1. x \in want[w] \cap {"reporting", "notify"}
          BY <1>11, <2>2, <3>3
        <5> QED
          BY <1>17, <2>7, <4>1, <5>1, RestStarts DEF call
      <4>2. CASE call # "connect"
        <5>1. Here(x) \/ Starter(x) \in Within(todo[w])
          <6>1. todo[w] # <<"connect">>
            BY <4>2 DEF call
          <6> QED
            BY <1>11, <1>12, <1>17, <3>3, <6>1 DEF Course
        <5>2. Rest(w, ok) = Tail(todo[w])
          BY <1>17, <2>7, <4>2 DEF Rest, call
        <5>3. Within(todo[w]) \subseteq {call} \cup Within(Tail(todo[w]))
          BY <1>1, <1>2, WithinFacts DEF call
        <5>4. call = Starter(x) => x \in answer'[w]
          BY <3>1, <3>3 DEF Starter, Effect
        <5>5. Here(x) => x \in answer'[w]
          BY <3>1, <3>2, <3>3 DEF Here, Effect
        <5> QED
          BY <5>1, <5>2, <5>3, <5>4, <5>5
      <4> QED
        BY <4>1, <4>2
    <3>4. \A x : x \in answer'[w] => Here(x)'
      BY <1>4, <1>7, <2>7 DEF Here
    <3>5. pc'[w] \in Calling => Course(w)'
      BY <1>1, <1>11, <2>2, <3>1, <3>3, <3>4 DEF Course
    <3>6. pc'[w] \in {"load", "save"} => Owed' \cap Flags \subseteq Value(w)'
      <4> SUFFICES ASSUME pc'[w] \in {"load", "save"}, NEW x \in Owed' \cap Flags
                   PROVE  x \in Value(w)'
        OBVIOUS
      <4>1. Rest(w, ok) = <<>>
        BY <1>1
      <4>2. x \in answer'[w]
        <5>1. CASE x = "connected"
          BY <2>7, <5>1
        <5>2. CASE x \in {"reporting", "notify"}
          BY <3>3, <4>1, <5>2, WithinFacts
        <5> QED
          BY <5>1, <5>2 DEF Flags
      <4>3. x \in want'[w]
        BY <1>11, <2>2, <3>1
      <4> QED
        BY <3>1, <4>2, <4>3 DEF Value
    <3>7. Keeps(w)'
      BY <2>1, <2>3, <3>1, <3>5, <3>6 DEF Keeps
    <3> QED
      BY <1>1, <1>4, <3>7, KeepingStep
  <2>8. call = "connect" /\ ok => "connected" \in answer'[w]
    BY <1>7, <1>8, <1>14 DEF Effect
  <2>9. "connected" \in answer'[w] => ok /\ rt # 0
    BY <1>7
  <2> QED
    BY <2>5, <2>6, <2>7, <2>8, <2>9
<1> QED
  BY <1>16, <1>17

\* A save writes what is owed of what it touches, and keeps what it has read of the rest.
LEMMA SaveKeeps ==
    ASSUME TInv, LInv, KInv, lone, NEW w \in Workers, Load(w) \/ Save(w)
    PROVE  KInv'
<1>1. /\ Busy(w) /\ UNCHANGED <<asked, lone, refused>> /\ Owed' = Owed /\ Owed \subseteq Flags
      /\ \A v \in Workers \ {w} : pc'[v] = pc[v]
  BY DEF Load, Save, Goto, Busy, history, Owed, TInv, TypeOK
<1>2. Keeps(w)
  BY <1>1 DEF KInv
<1>3. CASE Load(w)
  <2>1. /\ pc[w] = "load" /\ pc'[w] = "save"
        /\ UNCHANGED <<desired, cmd, answer, want>>
    BY <1>3 DEF Load, Goto, TInv, TypeOK, hostVars
  <2>2. Value(w)' = Value(w)
    BY <2>1 DEF Value
  <2>3. Keeps(w)'
    BY <1>1, <1>2, <2>1, <2>2 DEF Keeps, Calling
  <2> QED
    BY <1>1, <2>1, <2>3, KeepingStep DEF Busy
<1>4. CASE Save(w)
  <2>1. pc[w] = "save" /\ pc'[w] = "idle" /\ old[w] = desired
    BY <1>1, <1>4, Lonely DEF Save, Goto, TInv, TypeOK, WorkerOk
  <2>2. desired' = (desired \ Touched(cmd[w])) \cup (Value(w) \cap Touched(cmd[w]))
    BY <1>4, <2>1 DEF Save
  <2>3. Owed' \subseteq desired'
    BY <1>1, <1>2, <2>1, <2>2 DEF Keeps
  <2> QED
    BY <1>1, <2>1, <2>3, KeepingStep DEF Busy
<1> QED
  BY <1>3, <1>4

\* What a command asks for is what it saves, and the rest is saved already.
LEMMA CommandKeeps ==
    ASSUME TInv, LInv, KInv, NEW w \in Workers, NEW c \in Commands, Command(w, c)
    PROVE  KInv'
<1> SUFFICES ASSUME lone, AtRest PROVE KInv'
  BY DEF Command, KInv
<1>1. /\ cmd'[w] = c /\ todo'[w] = First(c) /\ pc'[w] = "init" /\ desired' = desired
      /\ \A v \in Workers \ {w} : pc'[v] = pc[v]
      /\ asked' = AskedBy(c) /\ refused' = (refused \cap asked') \ Requests(c)
  BY DEF Command, Assign, TInv, TypeOK
<1>2. Busy(w)' /\ \A v \in Workers \ {w} : ~Busy(v)'
  BY <1>1, Resting DEF Busy
<1>3. Owed \subseteq desired
  BY Resting DEF KInv
<1>4. Owed' \subseteq Owed \cup Requests(c)
  BY <1>1 DEF Owed, AskedBy, Requests
<1>5. Requests(c) \subseteq Touched(c)
  BY DEF Requests, Touched
<1>6. Owed' \ Touched(cmd'[w]) \subseteq desired'
  BY <1>1, <1>3, <1>4, <1>5
<1>7. /\ c = "stopReporting" => "reporting" \notin asked'
      /\ c = "stopNotify" => "notify" \notin asked'
      /\ c = "disconnect" => asked' = {}
  BY <1>1 DEF AskedBy
<1>8. Course(w)'
  BY <1>1 DEF Course, First, Commands
<1>9. Keeps(w)'
  BY <1>1, <1>6, <1>7, <1>8 DEF Keeps
<1> QED
  BY <1>2, <1>9 DEF KInv

\* A restore wants what is saved.
LEMMA RestartKeeps ==
    ASSUME TInv, LInv, KInv, lone, NEW w \in Workers, Restart(w)
    PROVE  KInv'
<1>1. /\ AtRest /\ UNCHANGED <<desired, asked, lone, refused>> /\ Owed' = Owed
      /\ Owed \subseteq desired /\ Owed \subseteq Flags
  BY Resting DEF Restart, history, Owed, KInv, TInv, TypeOK
<1>2. CASE desired = {}
  <2>1. \A v \in Workers : ~Busy(v)'
    BY <1>1, <1>2, Resting DEF Restart, workerVars, Busy
  <2> QED
    BY <1>1, <2>1 DEF KInv
<1>3. CASE desired # {}
  <2>1. /\ cmd'[w] = "restore" /\ todo'[w] = <<"connect">> /\ pc'[w] = "init"
        /\ want'[w] = desired /\ \A v \in Workers \ {w} : pc'[v] = pc[v]
    BY <1>3 DEF Restart, Assign, TInv, TypeOK
  <2>2. Busy(w)' /\ \A v \in Workers \ {w} : ~Busy(v)'
    BY <1>1, <2>1, Resting DEF Busy
  <2>3. Keeps(w)'
    BY <1>1, <2>1 DEF Keeps, Course, Touched
  <2> QED
    BY <2>2, <2>3 DEF KInv
<1> QED
  BY <1>2, <1>3

\* The main thread leaves nothing asked for.
LEMMA MainKeeps ==
    ASSUME TInv, LInv, StopAll \/ Take \/ Shut
    PROVE  KInv'
<1> SUFFICES ASSUME lone' PROVE KInv'
  BY DEF KInv
<1>1. lone /\ asked' = {}
  BY DEF StopAll, Take, Shut, history, LInv, Stopping
<1>2. \A w \in Workers : ~Busy(w)
  BY <1>1, Resting DEF StopAll, Take, Shut, LInv, Alone
<1>3. \A w \in Workers : ~Busy(w)'
  BY <1>2 DEF StopAll, Take, Shut, workerVars, Busy
<1> QED
  BY <1>1, <1>3 DEF KInv, Owed

\* A session that comes and goes takes no part with it.
LEMMA SessionKeeps ==
    ASSUME TInv, KInv, NEW r \in Runtimes, Lose(r) \/ Recover(r)
    PROVE  KInv'
<1>1. UNCHANGED <<rt, desired, asked, lone, refused, pc, cmd, todo, answer, want>>
  BY DEF Lose, Recover, hostVars, workerVars, history
<1>2. \A x \in {"reporting", "notify"} : Here(x)' = Here(x)
  <2> SUFFICES ASSUME NEW x \in {"reporting", "notify"} PROVE Here(x)' = Here(x)
    OBVIOUS
  <2>1. rt # 0 => rt \in Runtimes
    BY DEF TInv, TypeOK
  <2>2. \A q \in Runtimes : x \in work'[q] <=> x \in work[q]
    BY DEF Lose, Recover, TInv, TypeOK
  <2> QED
    BY <1>1, <2>1, <2>2 DEF Here
<1>3. \A w \in Workers : Busy(w)' = Busy(w) /\ Value(w)' = Value(w)
  BY <1>1 DEF Busy, Value
<1>4. Owed' = Owed
  BY <1>1 DEF Owed
<1>5. \A w \in Workers : Course(w) => Course(w)'
  BY <1>1, <1>2, <1>4 DEF Course
<1>6. \A w \in Workers : Keeps(w) => Keeps(w)'
  BY <1>1, <1>3, <1>4, <1>5 DEF Keeps
<1> QED
  BY <1>1, <1>3, <1>4, <1>6 DEF KInv

LEMMA KillKeeps ==
    ASSUME TInv, KInv, Kill
    PROVE  KInv'
<1>1. \A w \in Workers : ~Busy(w)'
  BY DEF Kill, Everywhere, Busy
<1>2. Owed' \subseteq desired'
  <2>1. CASE lone /\ AtRest
    <3>1. \A w \in Workers : ~Busy(w)
      BY <2>1 DEF AtRest, Busy
    <3> QED
      BY <2>1, <3>1 DEF Kill, KInv, Owed
  <2>2. CASE ~(lone /\ AtRest)
    BY <2>2 DEF Kill, Owed
  <2> QED
    BY <2>1, <2>2
<1> QED
  BY <1>1, <1>2 DEF KInv

LEMMA KeptInit == Init => KInv
BY DEF Init, Everywhere, Busy, Owed, KInv

LEMMA KeptInductive == TInv /\ LInv /\ KInv /\ [Next]_vars => KInv'
<1> SUFFICES ASSUME TInv, LInv, KInv, [Next]_vars PROVE KInv'
  OBVIOUS
<1>1. CASE UNCHANGED vars
  <2>1. UNCHANGED <<rt, work, desired, asked, lone, refused, pc, cmd, todo, answer, want>>
    BY <1>1 DEF vars, hostVars, workerVars, history
  <2>2. Owed' = Owed /\ \A x : Here(x)' = Here(x)
    BY <2>1 DEF Owed, Here
  <2>3. \A w \in Workers : Busy(w)' = Busy(w) /\ Value(w)' = Value(w) /\ Course(w)' = Course(w)
    BY <2>1, <2>2 DEF Busy, Value, Course
  <2>4. \A w \in Workers : Keeps(w)' = Keeps(w)
    BY <2>1, <2>2, <2>3 DEF Keeps
  <2> QED
    BY <2>1, <2>2, <2>3, <2>4 DEF KInv
<1>2. ASSUME NEW w \in Workers, Worker(w) \/ Restart(w)
      PROVE  KInv'
  <2>1. CASE lone
    BY <1>2, <2>1, BridgeKeeps, ActKeeps, SaveKeeps, RestartKeeps DEF Worker
  <2>2. CASE ~lone
    <3>1. lone' = lone
      BY <1>2 DEF Worker, InitFetch, InitCreate, CreateFails, Fetch, Act, Load, Save, Restart, history
    <3> QED
      BY <2>2, <3>1 DEF KInv
  <2> QED
    BY <2>1, <2>2
<1>3. ASSUME NEW w \in Workers, NEW c \in Commands, Command(w, c)
      PROVE  KInv'
  BY <1>3, CommandKeeps
<1> QED
  BY <1>1, <1>2, <1>3, MainKeeps, SessionKeeps, KillKeeps DEF Next

LEMMA KeptHolds == KInv => AskedIsKept
BY DEF KInv, AskedIsKept, AtRest, Busy, Owed

\* As long as no two commands overlap, whatever the user has asked for and not stopped is
\* in the run snapshot: no save of another command, no stop of another part, no kill at
\* rest and no restore takes it out, only a call that failed or was answered while the
\* session was lost, and then only of what its command saves (onStartCommand,
\* handleRestoreOrRefresh, saveServiceSnapshot, NodeServicePrefs.saveMerged).
THEOREM AskedStaysSaved == Spec => []AskedIsKept
<1> QED
  BY TypeInit, TypeInductive, AskedInit, AskedInductive, KeptInit, KeptInductive, KeptHolds, PTL DEF Spec
=============================================================================

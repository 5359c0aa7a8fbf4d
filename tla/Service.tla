------------------------------ MODULE Service ------------------------------
(***************************************************************************)
(* The Android host: NodeService.kt with the run snapshot it keeps for the *)
(* sticky restart (NodeServicePrefs.kt), and the bridge it calls           *)
(* (nodemobile.go), whose global rt holds the runtime.                     *)
(*                                                                         *)
(* onStartCommand runs on the main thread and starts one worker thread for *)
(* every command but the full stop.  A worker calls the bridge, which      *)
(* fetches rt under its lock and uses it after the unlock, and then saves  *)
(* what the answers say: an answer to a call that failed is a NodeState    *)
(* with nothing running.  When the process is killed, the system starts    *)
(* the service again without a command, unless it has stopped itself.      *)
(*                                                                         *)
(* A runtime is what is at work in it: its session, login, reporting and   *)
(* listener, and its wish to reconnect.  How it gets there is Session.     *)
(***************************************************************************)
EXTENDS Naturals, Sequences

CONSTANTS
    Workers,
    MaxRuntimes, MaxCommands, MaxKills, MaxLosses

ASSUME ServiceAssumption ==
    /\ MaxRuntimes \in Nat \ {0} /\ MaxCommands \in Nat
    /\ MaxKills \in Nat /\ MaxLosses \in Nat

\* NodeRunSnapshot: what of this is to be restored.
Flags == {"connected", "reporting", "notify"}

\* What may be at work in a runtime; "wanted" is reconnectDesired.
Parts == Flags \cup {"loggedIn", "wanted"}

Runtimes == 1..MaxRuntimes

Commands == {"connect", "disconnect", "register", "login", "startReporting",
             "stopReporting", "startNotify", "stopNotify", "start"}

VARIABLES
    rt,             \* the runtime of the bridge, 0 if there is none
    created,        \* runtimes made by this process
    work,           \* what is at work in each
    known,          \* a node_id is on record
    desired,        \* the run snapshot
    started,        \* the service is started, for the system
    main,           \* the main thread in a full stop
    dying,          \* the runtime it shuts
    observers,      \* the observers of the metrics run
    pc,
    cmd,            \* the command of a worker; "keep" is a restore that cannot connect
    todo,           \* bridge calls it has still to make
    held,           \* the runtime it has fetched
    answer,         \* the last NodeState
    want,           \* the snapshot it restores
    old,            \* the snapshot it merges into
    commands, kills, losses,
    asked,          \* history: what the user has asked for and not stopped
    lone,           \* history: no two commands have overlapped
    refused         \* history: what of that a failure or a lost session may have unsaved

hostVars == <<known, desired, started, observers>>
mainVars == <<main, dying>>
workerVars == <<pc, cmd, todo, held, answer, want, old>>
counters == <<commands, kills, losses>>
history == <<asked, lone, refused>>
vars == <<rt, created, work, hostVars, mainVars, workerVars, counters, history>>

Calls == {"connect", "close", "register", "login", "startReporting", "stopReporting",
          "startNotify", "stopNotify"}

TypeOK ==
    /\ rt \in Runtimes \cup {0} /\ created \in Runtimes \cup {0}
    /\ rt <= created
    /\ work \in [Runtimes -> SUBSET Parts]
    /\ known \in BOOLEAN /\ started \in BOOLEAN /\ observers \in BOOLEAN /\ lone \in BOOLEAN
    /\ desired \in SUBSET Flags /\ asked \in SUBSET Flags /\ refused \in SUBSET Flags
    /\ main \in {"idle", "take", "shut"} /\ dying \in Runtimes \cup {0}
    /\ pc \in [Workers -> {"idle", "init", "create", "fetch", "act", "load", "save"}]
    /\ cmd \in [Workers -> Commands \cup {"restore", "keep"}]
    /\ todo \in [Workers -> Seq(Calls)]
    /\ held \in [Workers -> Runtimes \cup {0}]
    /\ answer \in [Workers -> SUBSET Parts]
    /\ want \in [Workers -> SUBSET Flags] /\ old \in [Workers -> SUBSET Flags]
    /\ commands \in Nat /\ kills \in Nat /\ losses \in Nat

Everywhere(x) == [w \in Workers |-> x]

Init ==
    /\ rt = 0 /\ created = 0 /\ work = [r \in Runtimes |-> {}]
    /\ known \in BOOLEAN /\ desired = {} /\ started = FALSE /\ observers = FALSE
    /\ main = "idle" /\ dying = 0
    /\ pc = Everywhere("idle") /\ cmd = Everywhere("connect") /\ todo = Everywhere(<<>>)
    /\ held = Everywhere(0) /\ answer = Everywhere({})
    /\ want = Everywhere({}) /\ old = Everywhere({})
    /\ commands = 0 /\ kills = 0 /\ losses = 0
    /\ asked = {} /\ lone = TRUE /\ refused = {}

AtRest == main = "idle" /\ \A w \in Workers : pc[w] = "idle"

Goto(w, from, to) == pc[w] = from /\ pc' = [pc EXCEPT ![w] = to]

-----------------------------------------------------------------------------
\* onStartCommand.

\* The first bridge call of a command after Init.
First(c) ==
    CASE c = "disconnect" -> <<"close">>
      [] c = "start" -> <<"connect">>
      [] OTHER -> <<c>>

\* What the user asks for: whoever wants reporting or notifications wants a session.
Requests(c) ==
    CASE c = "connect" -> {"connected"}
      [] c \in {"start", "startReporting"} -> {"connected", "reporting"}
      [] c = "startNotify" -> {"connected", "notify"}
      [] OTHER -> {}

\* ... and what is asked for from then on.
AskedBy(c) ==
    CASE c = "stopReporting" -> asked \ {"reporting"}
      [] c = "stopNotify" -> asked \ {"notify"}
      [] c = "disconnect" -> {}
      [] OTHER -> asked \cup Requests(c)

Assign(w, c, calls, snapshot) ==
    /\ pc[w] = "idle" /\ pc' = [pc EXCEPT ![w] = "init"]
    /\ cmd' = [cmd EXCEPT ![w] = c] /\ todo' = [todo EXCEPT ![w] = calls]
    /\ want' = [want EXCEPT ![w] = snapshot]
    /\ UNCHANGED <<held, answer, old>>

Command(w, c) ==
    /\ main = "idle"
    /\ commands < MaxCommands /\ commands' = commands + 1
    /\ Assign(w, c, First(c), {})
    /\ started' = TRUE
    /\ asked' = AskedBy(c) /\ lone' = (lone /\ AtRest)
    /\ refused' = (refused \cap asked') \ Requests(c)
    /\ UNCHANGED <<rt, created, work, known, desired, observers, mainVars, kills, losses>>

\* ACTION_STOP and ACTION_STOP_ALL, on the main thread: the snapshot is cleared, ...
StopAll ==
    /\ main = "idle" /\ main' = "take"
    /\ commands < MaxCommands /\ commands' = commands + 1
    /\ observers' = FALSE /\ desired' = {} /\ started' = TRUE
    /\ asked' = {} /\ lone' = (lone /\ AtRest) /\ refused' = {}
    /\ UNCHANGED <<rt, created, work, known, dying, workerVars, kills, losses>>

\* ... the runtime is taken out of the bridge, ...
Take ==
    /\ main = "take" /\ main' = "shut"
    /\ dying' = rt /\ rt' = 0
    /\ UNCHANGED <<created, work, hostVars, workerVars, counters, history>>

\* ... stopped and closed, and the service stops itself.
Shut ==
    /\ main = "shut" /\ main' = "idle"
    /\ work' = [r \in Runtimes |-> IF r = dying THEN {} ELSE work[r]]
    /\ dying' = 0 /\ started' = FALSE
    /\ UNCHANGED <<rt, created, known, desired, observers, workerVars, counters, history>>

\* A start without a command, after the process was killed: handleRestoreOrRefresh.
Restart(w) ==
    /\ started /\ created = 0 /\ AtRest
    /\ IF desired = {} THEN started' = FALSE /\ UNCHANGED workerVars
                       ELSE Assign(w, "restore", <<"connect">>, desired) /\ UNCHANGED started
    /\ UNCHANGED <<rt, created, work, known, desired, observers, mainVars, counters, history>>

\* (mutant: the whole answer is saved)
TouchesAll(c) == Parts

\* The part of the snapshot a command saves.
Touched(c) ==
    CASE c \in {"connect", "register", "login"} -> {"connected"}
      [] c \in {"startReporting", "stopReporting", "start"} -> {"connected", "reporting"}
      [] c \in {"startNotify", "stopNotify"} -> {"connected", "notify"}
      [] OTHER -> Flags

-----------------------------------------------------------------------------
\* nodemobile.go.

\* (mutant: every Init makes a runtime)
InitAlways(w) ==
    /\ Goto(w, "init", "create")
    /\ UNCHANGED <<rt, created, work, hostVars, mainVars, cmd, todo, held, answer, want, old,
                   counters, history>>

\* Init looks for a runtime ...
InitFetch(w) ==
    /\ Goto(w, "init", IF rt = 0 THEN "create" ELSE "fetch")
    /\ UNCHANGED <<rt, created, work, hostVars, mainVars, cmd, todo, held, answer, want, old,
                   counters, history>>

\* ... and makes one if there was none, whatever others have made by then, ...
InitCreate(w) ==
    /\ created < MaxRuntimes
    /\ Goto(w, "create", "fetch")
    /\ created' = created + 1 /\ rt' = created'
    /\ UNCHANGED <<work, hostVars, mainVars, cmd, todo, held, answer, want, old, counters, history>>

\* ... or fails to: the calls that follow find what there is, and Start ends.
CreateFails(w) ==
    /\ Goto(w, "create", IF cmd[w] = "start" THEN "load" ELSE "fetch")
    /\ todo' = [todo EXCEPT ![w] = IF cmd[w] = "start" THEN <<>> ELSE @]
    /\ refused' = IF cmd[w] = "start" THEN refused \cup (asked \cap Touched("start")) ELSE refused
    /\ UNCHANGED <<rt, created, work, hostVars, mainVars, cmd, held, answer, want, old,
                   counters, asked, lone>>

\* Every other function fetches rt and uses it after the unlock.
Fetch(w) ==
    /\ Goto(w, "fetch", "act")
    /\ held' = [held EXCEPT ![w] = rt]
    /\ UNCHANGED <<rt, created, work, hostVars, mainVars, cmd, todo, answer, want, old,
                   counters, history>>

\* What a call that succeeds leaves at work, of ps.
Effect(call, ps) ==
    CASE call = "connect" -> ps \cup {"connected", "wanted"}
      [] call = "close" -> {}
      [] call \in {"register", "login"} -> ps \cup {"loggedIn"}
      [] call = "startReporting" -> ps \cup {"reporting"}
      [] call = "stopReporting" -> ps \ {"reporting"}
      [] call = "startNotify" -> ps \cup {"notify"}
      [] call = "stopNotify" -> ps \ {"notify"}

\* A stop cannot fail, and needs no runtime.
CanFail(call) == call \notin {"close", "stopReporting", "stopNotify"}

CanSucceed(call, r) ==
    /\ r # 0 \/ ~CanFail(call)
    /\ call \in {"register", "login"} => "connected" \in work[r]
    /\ call = "login" => known
    /\ call \in {"startReporting", "startNotify"} => "loggedIn" \in work[r]

\* What is left to call.  Start ends at the first failure; the restore, once connected,
\* goes on after one.  Both log in with the node_id that is known.
Rest(w, ok) ==
    LET call == Head(todo[w]) IN
    CASE cmd[w] = "start" /\ call = "connect" /\ ok ->
             <<IF known THEN "login" ELSE "register", "startReporting">>
      [] cmd[w] = "restore" /\ call = "connect" /\ ok ->
             (IF known THEN <<"login">> ELSE <<>>)
             \o (IF "reporting" \in want[w] THEN <<"startReporting">> ELSE <<>>)
             \o (IF "notify" \in want[w] THEN <<"startNotify">> ELSE <<>>)
      [] ~ok /\ (cmd[w] = "start" \/ call = "connect") -> <<>>
      [] OTHER -> Tail(todo[w])

\* What a restore no longer wants once the call for it has failed.
GivenUp(call) ==
    CASE call = "startReporting" -> {"reporting"}
      [] call = "startNotify" -> {"notify"}
      [] OTHER -> {}

\* The call, and the NodeState that comes back.
Act(w, ok) ==
    LET call == Head(todo[w])
        r == held[w]
    IN  /\ Goto(w, "act", IF Rest(w, ok) # <<>> THEN "fetch" ELSE "load")
        /\ IF ok THEN CanSucceed(call, r) ELSE CanFail(call)
        /\ work' = IF ok /\ r # 0 THEN [work EXCEPT ![r] = Effect(call, @)] ELSE work
        /\ answer' = [answer EXCEPT ![w] = IF ok /\ r # 0 THEN work'[r] ELSE {}]
        /\ known' = (known \/ (ok /\ call = "register"))
        /\ todo' = [todo EXCEPT ![w] = Rest(w, ok)]
        /\ held' = [held EXCEPT ![w] = 0]
        /\ cmd' = [cmd EXCEPT ![w] = IF @ = "restore" /\ call = "connect" /\ ~ok THEN "keep" ELSE @]
        /\ want' = [want EXCEPT ![w] = IF ok THEN @ ELSE @ \ GivenUp(call)]
        /\ observers' = IF cmd[w] = "restore" /\ call = "startReporting" THEN ok ELSE observers
        /\ refused' = IF (cmd[w] = "restore" /\ call = "connect") \/ "connected" \in answer'[w]
                      THEN refused ELSE refused \cup (asked \cap Touched(cmd[w]))
        /\ UNCHANGED <<rt, created, desired, started, mainVars, old, counters, asked, lone>>

-----------------------------------------------------------------------------
\* saveServiceSnapshot, and the observers.

Value(w) ==
    CASE cmd[w] = "disconnect" -> {}
      [] cmd[w] = "stopReporting" -> answer[w] \ {"reporting"}
      [] cmd[w] = "stopNotify" -> answer[w] \ {"notify"}
      [] cmd[w] = "restore" -> answer[w] \cap (want[w] \cup {"connected"})
      [] cmd[w] = "keep" -> want[w]
      [] OTHER -> answer[w]

\* (mutant: a disconnect leaves the observers running)
ObservedStill(w) ==
    CASE cmd[w] \in {"startReporting", "start"} -> "reporting" \in answer[w]
      [] cmd[w] \in {"stopReporting", "keep"} -> FALSE
      [] OTHER -> observers

Observed(w) ==
    CASE cmd[w] = "startReporting" -> "reporting" \in answer[w]
      [] cmd[w] = "start" -> observers \/ "reporting" \in answer[w]
      [] cmd[w] \in {"stopReporting", "disconnect", "keep"} -> FALSE
      [] OTHER -> observers

\* NodeServicePrefs.saveMerged reads the snapshot ...
Load(w) ==
    /\ Goto(w, "load", "save")
    /\ old' = [old EXCEPT ![w] = desired]
    /\ UNCHANGED <<rt, created, work, hostVars, mainVars, cmd, todo, held, answer, want,
                   counters, history>>

\* ... and writes it, with what has changed by then lost; clearDesired only writes.
Save(w) ==
    /\ Goto(w, "save", "idle")
    /\ desired' = (old[w] \ Touched(cmd[w])) \cup (Value(w) \cap Touched(cmd[w]))
    /\ observers' = Observed(w)
    /\ cmd' = [cmd EXCEPT ![w] = "connect"]
    /\ answer' = [answer EXCEPT ![w] = {}]
    /\ want' = [want EXCEPT ![w] = {}] /\ old' = [old EXCEPT ![w] = {}]
    /\ UNCHANGED <<rt, created, work, known, started, mainVars, todo, held, counters, history>>

-----------------------------------------------------------------------------
\* The session, and the system.

Lose(r) ==
    /\ losses < MaxLosses /\ losses' = losses + 1
    /\ "connected" \in work[r]
    /\ work' = [work EXCEPT ![r] = @ \ {"connected", "loggedIn"}]
    /\ UNCHANGED <<rt, created, hostVars, mainVars, workerVars, commands, kills, history>>

\* The recovery logs in with what is known.
Recover(r) ==
    /\ "wanted" \in work[r] /\ "connected" \notin work[r] /\ known
    /\ work' = [work EXCEPT ![r] = @ \cup {"connected", "loggedIn"}]
    /\ UNCHANGED <<rt, created, hostVars, mainVars, workerVars, counters, history>>

\* The process is killed.  What was under way may or may not have been saved.
Kill ==
    /\ created > 0
    /\ kills < MaxKills /\ kills' = kills + 1
    /\ rt' = 0 /\ created' = 0 /\ work' = [r \in Runtimes |-> {}]
    /\ main' = "idle" /\ dying' = 0 /\ observers' = FALSE
    /\ pc' = Everywhere("idle") /\ cmd' = Everywhere("connect") /\ todo' = Everywhere(<<>>)
    /\ held' = Everywhere(0) /\ answer' = Everywhere({})
    /\ want' = Everywhere({}) /\ old' = Everywhere({})
    /\ asked' = CASE lone /\ AtRest -> asked
                  [] ~(lone /\ AtRest) /\ desired = {} -> {}
                  [] OTHER -> desired \cup {"connected"}
    /\ lone' = TRUE
    /\ refused' = IF lone /\ AtRest THEN refused ELSE asked' \ desired
    /\ UNCHANGED <<known, desired, started, commands, losses>>

Worker(w) ==
    \/ InitFetch(w) \/ InitCreate(w) \/ CreateFails(w) \/ Fetch(w)
    \/ \E ok \in BOOLEAN : Act(w, ok)
    \/ Load(w) \/ Save(w)

Next ==
    \/ \E w \in Workers : Worker(w) \/ Restart(w)
    \/ \E w \in Workers, c \in Commands : Command(w, c)
    \/ StopAll \/ Take \/ Shut
    \/ \E r \in Runtimes : Lose(r) \/ Recover(r)
    \/ Kill

Spec == Init /\ [][Next]_vars

-----------------------------------------------------------------------------
\* Properties.

\* Commands that do not overlap leave nothing at work that the user has not asked for,
\* or has stopped since: not in the runtime of the bridge, not in one that was left
\* behind, and not in the snapshot, whatever failed, was lost or was killed and restored.
NothingUnasked ==
    AtRest /\ lone =>
        /\ desired \subseteq asked
        /\ \A r \in Runtimes :
               work[r] \cap Flags \subseteq IF r = rt THEN asked ELSE {}

\* And what he has asked for is in the snapshot, for a restart to bring back: no stop, save,
\* kill or restore of another thing takes it out.  Only a call that failed, or was answered
\* while the session was lost, may have, of what its command saves; asked for again, it is
\* owed again.
AskedIsKept == AtRest /\ lone => asked \ refused \subseteq desired

\* Nor do they leave the observers of the metrics running for a runtime that does not
\* report.
HostFollows == AtRest /\ lone /\ observers => rt # 0 /\ "reporting" \in work[rt]

\* docs/requirements/notify-node.md: "Android explicit stop, stop-all, or disconnect
\* clears desired restore state so sticky restart does not undo the user's stop action."
\* So a service that the system would start again has nothing to restore once the user
\* has stopped everything.
StopSticks == AtRest /\ started /\ asked = {} => desired = {}
=============================================================================

---------------------------- MODULE ServerProcess ----------------------------
(***************************************************************************)
(* client/server/ContractCaseProcess: the one server process of the JVM.   *)
(* Any number of threads start() it, the constructor of a definer or a     *)
(* verifier first of all; a shutdown hook terminates it; a daemon thread   *)
(* copies its stderr.  The bundled server and the operating system are     *)
(* external.  A port is known by the process that announced it.            *)
(***************************************************************************)
EXTENDS Naturals

CONSTANTS
  Users,        \* threads that construct definers and verifiers
  Hook,         \* the thread of the shutdown hook
  None,         \* null
  MaxChildren,  \* bound on the server processes of one JVM
  MaxLines      \* bound on the lines a server writes to its stderr

Children == 1 .. MaxChildren
NoPort == 0     \* portNumber before it is set

ASSUME BoundsAssumption == MaxChildren \in Nat /\ MaxLines \in Nat
ASSUME NamesAssumption ==
  /\ Hook \notin Users
  /\ None \notin Users \cup {Hook} \cup Children

VARIABLES
  pc,            \* where each user thread is in start()
  used,          \* the port each user thread last connected to
  lock,          \* owner of the monitor of the ContractCaseProcess
  childProcess,  \* ContractCaseProcess.childProcess
  port,          \* ContractCaseProcess.portNumber
  shutdownHook,  \* ContractCaseProcess.shutdownHook, by the child it is for
  errorStreamSink, \* ContractCaseProcess.errorStreamSink, by its child
  hook,          \* where the hook thread is in terminate()
  sink,          \* where the ErrorStreamSink of each child is in run()
  stop,          \* ErrorStreamSink.stop of each child's sink
  printed,       \* lines of its stderr that reached System.err
  jvm,           \* external: "up", "stopping" (hooks run) or "down"
  child,         \* external: each server process
  line,          \* external: the first line on its stdout
  wrote,         \* external: lines written to its stderr
  closed,        \* external: whether its stderr pipe was closed in the JVM
  failed         \* history: the children whose start() threw

userVars == <<pc, used>>
wrapperVars == <<childProcess, port, shutdownHook, errorStreamSink>>
sinkVars == <<sink, stop, printed>>
serverVars == <<child, line, wrote, closed>>
vars == <<userVars, lock, wrapperVars, hook, sinkVars, jvm, serverVars, failed>>

Init ==
  /\ pc = [u \in Users |-> "idle"]
  /\ used = [u \in Users |-> NoPort]
  /\ lock = None
  /\ childProcess = None
  /\ port = NoPort
  /\ shutdownHook = None
  /\ errorStreamSink = None
  /\ hook = "absent"
  /\ sink = [c \in Children |-> "absent"]
  /\ stop = [c \in Children |-> FALSE]
  /\ printed = [c \in Children |-> 0]
  /\ jvm = "up"
  /\ child = [c \in Children |-> "absent"]
  /\ line = [c \in Children |-> "none"]
  /\ wrote = [c \in Children |-> 0]
  /\ closed = [c \in Children |-> FALSE]
  /\ failed = {}

-----------------------------------------------------------------------------
(* start(): startRuntimeIfNeeded holds the monitor from Enter to the end   *)
(* of RegisterHook, or to the exception that leaves it.                    *)

Running == jvm # "down"

Goes(u, from, to) == pc[u] = from /\ pc' = [pc EXCEPT ![u] = to]

Call(u) ==
  /\ Running
  /\ \E from \in {"idle", "failed", "connected"} : Goes(u, from, "entering")
  /\ UNCHANGED <<used, lock, wrapperVars, hook, sinkVars, jvm, serverVars, failed>>

FindsChild(u) ==
  /\ Running
  /\ lock = None
  /\ childProcess # None
  /\ Goes(u, "entering", "checking")
  /\ UNCHANGED <<used, lock, wrapperVars, hook, sinkVars, jvm, serverVars, failed>>

(* Mutant: startRuntimeIfNeeded without synchronized. *)
EnterUnlocked(u) ==
  /\ Running
  /\ childProcess = None
  /\ Goes(u, "entering", "spawning")
  /\ UNCHANGED <<used, lock, wrapperVars, hook, sinkVars, jvm, serverVars, failed>>

Enter(u) ==
  /\ Running
  /\ lock = None
  /\ childProcess = None
  /\ Goes(u, "entering", "spawning")
  /\ lock' = u
  /\ UNCHANGED <<used, wrapperVars, hook, sinkVars, jvm, serverVars, failed>>

(* The connector cannot be extracted, or there is no node to run it. *)
SpawnFails(u) ==
  /\ Running
  /\ Goes(u, "spawning", "failed")
  /\ lock' = None
  /\ UNCHANGED <<used, wrapperVars, hook, sinkVars, jvm, serverVars, failed>>

Spawn(u) ==
  /\ Running
  /\ Goes(u, "spawning", "reading")
  /\ \E c \in Children :
       /\ child[c] = "absent"
       /\ child' = [child EXCEPT ![c] = "running"]
       /\ childProcess' = c
       /\ errorStreamSink' = c
       /\ sink' = [sink EXCEPT ![c] = "polling"]
  /\ UNCHANGED <<used, lock, port, shutdownHook, hook, stop, printed, jvm, line,
                 wrote, closed, failed>>

ReadPort(u) ==
  /\ Running
  /\ Goes(u, "reading", "hooking")
  /\ line[childProcess] = "port"
  /\ port' = childProcess
  /\ UNCHANGED <<used, lock, childProcess, shutdownHook, errorStreamSink, hook,
                 sinkVars, jvm, serverVars, failed>>

(* Mutant: lines that announce no port are skipped. *)
ReadFailsAtEnd(u) ==
  /\ Running
  /\ Goes(u, "reading", "failed")
  /\ line[childProcess] = "none" /\ child[childProcess] = "dead"
  /\ lock' = None
  /\ failed' = failed \cup {childProcess}
  /\ UNCHANGED <<used, wrapperVars, hook, sinkVars, jvm, serverVars>>

(* No line (readLine returns null, and the next line throws on it), or a   *)
(* line without a port: nothing is undone.                                 *)
ReadFails(u) ==
  /\ Running
  /\ Goes(u, "reading", "failed")
  /\ line[childProcess] # "port"
  /\ line[childProcess] = "none" => child[childProcess] = "dead"
  /\ lock' = None
  /\ failed' = failed \cup {childProcess}
  /\ UNCHANGED <<used, wrapperVars, hook, sinkVars, jvm, serverVars>>

(* Mutant: the hook is made and not registered. *)
RegisterHookForgets(u) ==
  /\ jvm = "up"
  /\ Goes(u, "hooking", "checking")
  /\ lock' = None
  /\ UNCHANGED <<used, wrapperVars, hook, sinkVars, jvm, serverVars, failed>>

RegisterHook(u) ==
  /\ jvm = "up"
  /\ Goes(u, "hooking", "checking")
  /\ shutdownHook' = childProcess
  /\ lock' = None
  /\ UNCHANGED <<used, childProcess, port, errorStreamSink, hook, sinkVars, jvm,
                 serverVars, failed>>

(* Once hooks run, addShutdownHook throws; the field is set before it.     *)
RegisterHookFails(u) ==
  /\ jvm = "stopping"
  /\ Goes(u, "hooking", "failed")
  /\ shutdownHook' = childProcess
  /\ lock' = None
  /\ failed' = failed \cup {childProcess}
  /\ UNCHANGED <<used, childProcess, port, errorStreamSink, hook, sinkVars, jvm,
                 serverVars>>

(* The check of start() itself, outside the monitor. *)
Check(u) ==
  /\ Running
  /\ Goes(u, "checking", IF childProcess = None THEN "failed" ELSE "started")
  /\ UNCHANGED <<used, lock, wrapperVars, hook, sinkVars, jvm, serverVars, failed>>

(* The constructor of the connector: getPortNumber. *)
Connect(u) ==
  /\ Running
  /\ Goes(u, "started", "connected")
  /\ used' = [used EXCEPT ![u] = port]
  /\ UNCHANGED <<lock, wrapperVars, hook, sinkVars, jvm, serverVars, failed>>

-----------------------------------------------------------------------------
(* terminate(), on the thread of the hook.                                 *)

HookEnters ==
  /\ Running
  /\ hook = "waiting"
  /\ lock = None
  /\ lock' = Hook
  /\ hook' = "killing"
  /\ UNCHANGED <<userVars, wrapperVars, sinkVars, jvm, serverVars, failed>>

(* Mutant: terminate waits for the server to exit. *)
HookWaitsForExit ==
  /\ Running
  /\ hook = "killing"
  /\ child[childProcess] = "dead"
  /\ closed' = [closed EXCEPT ![childProcess] = TRUE]
  /\ childProcess' = None
  /\ hook' = "stopping"
  /\ UNCHANGED <<userVars, lock, port, shutdownHook, errorStreamSink, sinkVars,
                 jvm, child, line, wrote, failed>>

(* Mutant: the child is forgotten and not killed. *)
HookForgets ==
  /\ Running
  /\ hook = "killing"
  /\ closed' = [closed EXCEPT ![childProcess] = TRUE]
  /\ childProcess' = None
  /\ hook' = "stopping"
  /\ UNCHANGED <<userVars, lock, port, shutdownHook, errorStreamSink, sinkVars,
                 jvm, child, line, wrote, failed>>

(* destroyForcibly kills the process and closes its streams in the JVM. *)
HookKills ==
  /\ Running
  /\ hook = "killing"
  /\ child' = [child EXCEPT ![childProcess] = "dead"]
  /\ closed' = [closed EXCEPT ![childProcess] = TRUE]
  /\ childProcess' = None
  /\ hook' = "stopping"
  /\ UNCHANGED <<userVars, lock, port, shutdownHook, errorStreamSink, sinkVars,
                 jvm, line, wrote, failed>>

HookStopsSink ==
  /\ Running
  /\ hook = "stopping"
  /\ stop' = [stop EXCEPT ![errorStreamSink] = TRUE]
  /\ hook' = "joining"
  /\ UNCHANGED <<userVars, lock, wrapperVars, sink, printed, jvm, serverVars, failed>>

HookJoins ==
  /\ Running
  /\ hook = "joining"
  /\ sink[errorStreamSink] = "ended"
  /\ errorStreamSink' = None
  /\ shutdownHook' = None
  /\ lock' = None
  /\ hook' = "done"
  /\ UNCHANGED <<userVars, childProcess, port, sinkVars, jvm, serverVars, failed>>

-----------------------------------------------------------------------------
(* ErrorStreamSink.run(): what is available is copied every 100 ms until   *)
(* the sink is stopped, then the rest.  A closed stream throws, and the    *)
(* thread ends.                                                            *)

(* Mutant: the buffer is not reset after it was printed. *)
SinkPollsAgain(c) ==
  /\ Running
  /\ sink[c] = "polling"
  /\ sink' = [sink EXCEPT ![c] =
       IF closed[c] THEN "ended" ELSE IF stop[c] THEN "draining" ELSE "sleeping"]
  /\ printed' = [printed EXCEPT ![c] = IF closed[c] THEN @ ELSE @ + wrote[c]]
  /\ UNCHANGED <<userVars, lock, wrapperVars, hook, stop, jvm, serverVars, failed>>

SinkPolls(c) ==
  /\ Running
  /\ sink[c] = "polling"
  /\ sink' = [sink EXCEPT ![c] =
       IF closed[c] THEN "ended" ELSE IF stop[c] THEN "draining" ELSE "sleeping"]
  /\ printed' = [printed EXCEPT ![c] = IF closed[c] THEN @ ELSE wrote[c]]
  /\ UNCHANGED <<userVars, lock, wrapperVars, hook, stop, jvm, serverVars, failed>>

(* Mutant: the loop's condition is inverted. *)
SinkWakesInverted(c) ==
  /\ Running
  /\ sink[c] = "sleeping"
  /\ sink' = [sink EXCEPT ![c] = IF stop[c] THEN "polling" ELSE "draining"]
  /\ UNCHANGED <<userVars, lock, wrapperVars, hook, stop, printed, jvm,
                 serverVars, failed>>

SinkWakes(c) ==
  /\ Running
  /\ sink[c] = "sleeping"
  /\ sink' = [sink EXCEPT ![c] = IF stop[c] THEN "draining" ELSE "polling"]
  /\ UNCHANGED <<userVars, lock, wrapperVars, hook, stop, printed, jvm,
                 serverVars, failed>>

(* acceptData(true) blocks until the end of the stream. *)
SinkDrains(c) ==
  /\ Running
  /\ sink[c] = "draining"
  /\ ~closed[c] => child[c] = "dead"
  /\ sink' = [sink EXCEPT ![c] = "ended"]
  /\ printed' = [printed EXCEPT ![c] = IF closed[c] THEN @ ELSE wrote[c]]
  /\ UNCHANGED <<userVars, lock, wrapperVars, hook, stop, jvm, serverVars, failed>>

-----------------------------------------------------------------------------
(* The JVM and the server (external).                                      *)

BeginShutdown ==
  /\ jvm = "up"
  /\ jvm' = "stopping"
  /\ hook' = IF shutdownHook = None THEN "absent" ELSE "waiting"
  /\ UNCHANGED <<userVars, lock, wrapperVars, sinkVars, serverVars, failed>>

Halt ==
  /\ jvm = "stopping"
  /\ hook \in {"absent", "done"}
  /\ jvm' = "down"
  /\ UNCHANGED <<userVars, lock, wrapperVars, hook, sinkVars, serverVars, failed>>

ServerSpeaks(c) ==
  /\ child[c] = "running"
  /\ line[c] = "none"
  /\ \E l \in {"port", "other"} : line' = [line EXCEPT ![c] = l]
  /\ UNCHANGED <<userVars, lock, wrapperVars, hook, sinkVars, jvm, child,
                 wrote, closed, failed>>

ServerLogs(c) ==
  /\ child[c] = "running"
  /\ wrote[c] < MaxLines
  /\ wrote' = [wrote EXCEPT ![c] = @ + 1]
  /\ UNCHANGED <<userVars, lock, wrapperVars, hook, sinkVars, jvm, child,
                 line, closed, failed>>

ServerDies(c) ==
  /\ child[c] = "running"
  /\ child' = [child EXCEPT ![c] = "dead"]
  /\ UNCHANGED <<userVars, lock, wrapperVars, hook, sinkVars, jvm, line,
                 wrote, closed, failed>>

-----------------------------------------------------------------------------
StartStep(u) ==
  \/ FindsChild(u) \/ Enter(u) \/ SpawnFails(u) \/ Spawn(u)
  \/ ReadPort(u) \/ ReadFails(u) \/ RegisterHook(u) \/ RegisterHookFails(u)
  \/ Check(u) \/ Connect(u)

HookStep == HookEnters \/ HookKills \/ HookStopsSink \/ HookJoins

SinkStep(c) == SinkPolls(c) \/ SinkWakes(c) \/ SinkDrains(c)

ServerStep(c) == ServerSpeaks(c) \/ ServerLogs(c) \/ ServerDies(c)

Next ==
  \/ \E u \in Users : Call(u) \/ StartStep(u)
  \/ HookStep
  \/ \E c \in Children : SinkStep(c) \/ ServerStep(c)
  \/ BeginShutdown \/ Halt

Spec == Init /\ [][Next]_vars

-----------------------------------------------------------------------------
InStart == {"entering", "spawning", "reading", "hooking", "checking"}
Holding == {"spawning", "reading", "hooking"}
Terminating == {"killing", "stopping", "joining"}

(* Every variable has its type; in particular nothing is printed that was  *)
(* not written.                                                            *)
TypeOK ==
  /\ pc \in [Users -> InStart \cup {"idle", "started", "connected", "failed"}]
  /\ used \in [Users -> Children \cup {NoPort}]
  /\ lock \in Users \cup {Hook, None}
  /\ childProcess \in Children \cup {None}
  /\ port \in Children \cup {NoPort}
  /\ shutdownHook \in Children \cup {None}
  /\ errorStreamSink \in Children \cup {None}
  /\ hook \in Terminating \cup {"absent", "waiting", "done"}
  /\ sink \in [Children -> {"absent", "polling", "sleeping", "draining", "ended"}]
  /\ stop \in [Children -> BOOLEAN]
  /\ printed \in [Children -> 0 .. MaxLines]
  /\ jvm \in {"up", "stopping", "down"}
  /\ child \in [Children -> {"absent", "running", "dead"}]
  /\ line \in [Children -> {"none", "port", "other"}]
  /\ wrote \in [Children -> 0 .. MaxLines]
  /\ closed \in [Children -> BOOLEAN]
  /\ failed \subseteq Children

(* No server runs that the wrapper does not know of: starts that overlap   *)
(* share one process, a failed start keeps it, and terminate forgets a     *)
(* process only when it has killed it.                                     *)
NoOrphans == \A c \in Children : child[c] = "running" => childProcess = c

(* A connector dials a port that a server announced, also when its thread  *)
(* did not start that server, unless some start() threw: the next start()  *)
(* finds the child of the failed one and returns with no port set.         *)
PortsAreAnnounced ==
  failed = {} => \A u \in Users :
    pc[u] = "connected" => used[u] \in Children /\ line[used[u]] = "port"

(* The one way a server outlives the JVM is a start() that threw or did    *)
(* not return: once start() has returned for a server, it is killed.       *)
SurvivorsNeverStarted ==
  \A c \in Children :
    jvm = "down" /\ child[c] = "running" =>
      c \in failed \/ \E u \in Users : pc[u] \in {"reading", "hooking"}

(* What makes the properties above inductive.  The monitor has one owner.  *)
MonitorIsOwned ==
  /\ \A u \in Users : pc[u] \in Holding <=> lock = u
  /\ hook \in Terminating <=> lock = Hook

(* Under it, childProcess is set between the spawn and terminate's kill,   *)
(* and its sink with it.                                                   *)
ChildIsSpawned ==
  /\ \A u \in Users : pc[u] = "spawning" => childProcess = None
  /\ \A u \in Users : pc[u] \in {"reading", "hooking"} => childProcess # None
  /\ childProcess # None =>
       child[childProcess] # "absent" /\ errorStreamSink = childProcess
  /\ hook \in {"stopping", "joining"} =>
       childProcess = None /\ errorStreamSink # None

(* The hook is there for the child it was registered for, until it has run;*)
(* once hooks run, one that is made is not registered and its start fails. *)
HookIsForTheChild ==
  /\ jvm = "up" => hook = "absent"
  /\ jvm = "down" => hook \in {"absent", "done"}
  /\ jvm # "up" /\ hook \in {"absent", "done"} =>
       shutdownHook = None \/ shutdownHook \in failed
  /\ hook \in {"waiting", "killing"} => shutdownHook # None
  /\ shutdownHook # None /\ hook \in {"absent", "waiting", "killing"} =>
       childProcess = shutdownHook
  /\ childProcess # None =>
       \/ childProcess \in failed \/ shutdownHook = childProcess
       \/ \E u \in Users : pc[u] \in {"reading", "hooking"}

(* Unless a start() failed, the port is set whenever a child can be found  *)
(* outside the start that spawned it.                                      *)
PortIsSet == port # NoPort /\ line[port] = "port"
StartsSetThePort ==
  failed = {} =>
    /\ childProcess # None /\ (\A u \in Users : pc[u] # "reading") => PortIsSet
    /\ \A u \in Users : pc[u] \in {"checking", "started"} => PortIsSet
    /\ \A u \in Users : pc[u] = "hooking" => PortIsSet

ServerInv ==
  /\ TypeOK
  /\ MonitorIsOwned
  /\ ChildIsSpawned
  /\ HookIsForTheChild
  /\ StartsSetThePort
  /\ NoOrphans
  /\ PortsAreAnnounced

(* "This hook ensures that the ContractCase binary is shutdown on JVM      *)
(* shutdown": ContractCaseProcess 49.  Starts that are still under way     *)
(* when the JVM halts are not held against it.                             *)
NoServerOutlivesTheJvm ==
  jvm = "down" /\ (\A u \in Users : pc[u] \notin InStart) =>
    \A c \in Children : child[c] # "running"

-----------------------------------------------------------------------------
(* Fairness: the JVM runs its threads, grants a monitor that is released   *)
(* again and again, and halts when its hooks are done; a server that was   *)
(* spawned prints a line or exits, and may then run for ever.              *)
FirstSign(c) == line[c] = "none" /\ (ServerSpeaks(c) \/ ServerDies(c))
Fairness ==
  /\ \A u \in Users : WF_vars(StartStep(u)) /\ SF_vars(FindsChild(u) \/ Enter(u))
  /\ WF_vars(HookStep)
  /\ WF_vars(Halt)
  /\ \A c \in Children :
       WF_vars(SinkStep(c)) /\ WF_vars(FirstSign(c))

LiveSpec == Spec /\ Fairness

(* The JVM goes down once it is told to: no start() and no sink keeps      *)
(* terminate from its end.                                                 *)
ShutdownCompletes == jvm = "stopping" ~> jvm = "down"

(* start() returns or throws.  Nothing but the server's first line or its  *)
(* exit makes it, since readLine has no timeout.                           *)
StartsReturn ==
  \A u \in Users : pc[u] \in InStart ~> pc[u] \notin InStart \/ jvm = "down"

(* What a server logs reaches System.err while the JVM is up.              *)
StderrIsPrinted ==
  \A c \in Children, n \in 1 .. MaxLines :
    wrote[c] >= n ~> printed[c] >= n \/ jvm # "up"
=============================================================================

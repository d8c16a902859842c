------------------------- MODULE ServerProcessProofs -------------------------
(***************************************************************************)
(* Theorems about ServerProcess, for every set of threads and every number *)
(* of servers and log lines.  ServerInv is inductive: the monitor is what  *)
(* makes a start() or a terminate() atomic for the others, and the parts   *)
(* that follow say what holds of the child, the hook and the port under it.*)
(* Each part has a lemma, with one step per action.                        *)
(***************************************************************************)
EXTENDS ServerProcess, TLAPS

(* A thread that reads or registers has a child: types are kept.           *)
LEMMA TypeStep ==
  TypeOK /\ MonitorIsOwned /\ ChildIsSpawned /\ [Next]_vars => TypeOK'
<1> SUFFICES ASSUME TypeOK, MonitorIsOwned, ChildIsSpawned, [Next]_vars
             PROVE  TypeOK'
  OBVIOUS
<1> USE NamesAssumption DEF userVars, wrapperVars, sinkVars, serverVars,
      Goes, Holding, InStart, Terminating, Children, NoPort
<1>1. ASSUME NEW u \in Users, Call(u) PROVE TypeOK'
  BY <1>1 DEF Call, TypeOK
<1>2. ASSUME NEW u \in Users, FindsChild(u) PROVE TypeOK'
  BY <1>2 DEF FindsChild, TypeOK
<1>3. ASSUME NEW u \in Users, Enter(u) PROVE TypeOK'
  BY <1>3 DEF Enter, TypeOK
<1>4. ASSUME NEW u \in Users, SpawnFails(u) PROVE TypeOK'
  BY <1>4 DEF SpawnFails, TypeOK
<1>5. ASSUME NEW u \in Users, Spawn(u) PROVE TypeOK'
  BY <1>5 DEF Spawn, TypeOK
<1>6. ASSUME NEW u \in Users, ReadPort(u) PROVE TypeOK'
  BY <1>6 DEF ReadPort, TypeOK, ChildIsSpawned
<1>7. ASSUME NEW u \in Users, ReadFails(u) PROVE TypeOK'
  BY <1>7 DEF ReadFails, TypeOK, ChildIsSpawned
<1>8. ASSUME NEW u \in Users, RegisterHook(u) PROVE TypeOK'
  BY <1>8 DEF RegisterHook, TypeOK, ChildIsSpawned
<1>9. ASSUME NEW u \in Users, RegisterHookFails(u) PROVE TypeOK'
  BY <1>9 DEF RegisterHookFails, TypeOK, ChildIsSpawned
<1>10. ASSUME NEW u \in Users, Check(u) PROVE TypeOK'
  BY <1>10 DEF Check, TypeOK
<1>11. ASSUME NEW u \in Users, Connect(u) PROVE TypeOK'
  BY <1>11 DEF Connect, TypeOK
<1>12. CASE HookEnters
  BY <1>12 DEF HookEnters, TypeOK
<1>13. CASE HookKills
  BY <1>13 DEF HookKills, TypeOK
<1>14. CASE HookStopsSink
  BY <1>14 DEF HookStopsSink, TypeOK
<1>15. CASE HookJoins
  BY <1>15 DEF HookJoins, TypeOK
<1>16. ASSUME NEW c \in Children, SinkPolls(c) PROVE TypeOK'
  BY <1>16 DEF SinkPolls, TypeOK
<1>17. ASSUME NEW c \in Children, SinkWakes(c) PROVE TypeOK'
  BY <1>17 DEF SinkWakes, TypeOK
<1>18. ASSUME NEW c \in Children, SinkDrains(c) PROVE TypeOK'
  BY <1>18 DEF SinkDrains, TypeOK
<1>19. ASSUME NEW c \in Children, ServerSpeaks(c) PROVE TypeOK'
  BY <1>19 DEF ServerSpeaks, TypeOK
<1>20. ASSUME NEW c \in Children, ServerLogs(c) PROVE TypeOK'
  <2>1. wrote[c] \in Nat /\ MaxLines \in Nat /\ wrote[c] + 1 \in 0 .. MaxLines
    BY <1>20, BoundsAssumption DEF ServerLogs, TypeOK
  <2> QED
    BY <1>20, <2>1 DEF ServerLogs, TypeOK
<1>21. ASSUME NEW c \in Children, ServerDies(c) PROVE TypeOK'
  BY <1>21 DEF ServerDies, TypeOK
<1>22. CASE BeginShutdown
  BY <1>22 DEF BeginShutdown, TypeOK
<1>23. CASE Halt
  BY <1>23 DEF Halt, TypeOK
<1>24. CASE UNCHANGED vars
  BY <1>24 DEF vars, TypeOK
<1> QED
  BY <1>1, <1>2, <1>3, <1>4, <1>5, <1>6, <1>7, <1>8, <1>9, <1>10, <1>11,
     <1>12, <1>13, <1>14, <1>15, <1>16, <1>17, <1>18, <1>19, <1>20, <1>21,
     <1>22, <1>23, <1>24
     DEF Next, StartStep, HookStep, SinkStep, ServerStep

(* Only the owner of the monitor leaves the states that hold it.           *)
LEMMA MonitorStep ==
  TypeOK /\ MonitorIsOwned /\ HookIsForTheChild /\ [Next]_vars
    => MonitorIsOwned'
<1> SUFFICES ASSUME TypeOK, MonitorIsOwned, HookIsForTheChild, [Next]_vars
             PROVE  MonitorIsOwned'
  OBVIOUS
<1> USE NamesAssumption DEF userVars, wrapperVars, sinkVars, serverVars,
      Goes, Holding, InStart, Terminating, Children, NoPort
<1>1. CASE UNCHANGED <<pc, lock, hook>>
  BY <1>1 DEF MonitorIsOwned
<1>2. ASSUME NEW u \in Users, Call(u) PROVE MonitorIsOwned'
  BY <1>2 DEF Call, TypeOK, MonitorIsOwned, HookIsForTheChild
<1>3. ASSUME NEW u \in Users, FindsChild(u) PROVE MonitorIsOwned'
  BY <1>3 DEF FindsChild, TypeOK, MonitorIsOwned, HookIsForTheChild
<1>4. ASSUME NEW u \in Users, Enter(u) PROVE MonitorIsOwned'
  BY <1>4 DEF Enter, TypeOK, MonitorIsOwned, HookIsForTheChild
<1>5. ASSUME NEW u \in Users, SpawnFails(u) PROVE MonitorIsOwned'
  BY <1>5 DEF SpawnFails, TypeOK, MonitorIsOwned, HookIsForTheChild
<1>6. ASSUME NEW u \in Users, Spawn(u) PROVE MonitorIsOwned'
  BY <1>6 DEF Spawn, TypeOK, MonitorIsOwned, HookIsForTheChild
<1>7. ASSUME NEW u \in Users, ReadPort(u) PROVE MonitorIsOwned'
  BY <1>7 DEF ReadPort, TypeOK, MonitorIsOwned, HookIsForTheChild
<1>8. ASSUME NEW u \in Users, ReadFails(u) PROVE MonitorIsOwned'
  BY <1>8 DEF ReadFails, TypeOK, MonitorIsOwned, HookIsForTheChild
<1>9. ASSUME NEW u \in Users, RegisterHook(u) PROVE MonitorIsOwned'
  BY <1>9 DEF RegisterHook, TypeOK, MonitorIsOwned, HookIsForTheChild
<1>10. ASSUME NEW u \in Users, RegisterHookFails(u) PROVE MonitorIsOwned'
  BY <1>10 DEF RegisterHookFails, TypeOK, MonitorIsOwned, HookIsForTheChild
<1>11. ASSUME NEW u \in Users, Check(u) PROVE MonitorIsOwned'
  BY <1>11 DEF Check, TypeOK, MonitorIsOwned, HookIsForTheChild
<1>12. ASSUME NEW u \in Users, Connect(u) PROVE MonitorIsOwned'
  BY <1>12 DEF Connect, TypeOK, MonitorIsOwned, HookIsForTheChild
<1>13. CASE HookEnters
  BY <1>13 DEF HookEnters, TypeOK, MonitorIsOwned, HookIsForTheChild
<1>14. CASE HookKills
  BY <1>14 DEF HookKills, TypeOK, MonitorIsOwned, HookIsForTheChild
<1>15. CASE HookStopsSink
  BY <1>15 DEF HookStopsSink, TypeOK, MonitorIsOwned, HookIsForTheChild
<1>16. CASE HookJoins
  BY <1>16 DEF HookJoins, TypeOK, MonitorIsOwned, HookIsForTheChild
<1>17. CASE BeginShutdown
  BY <1>17 DEF BeginShutdown, TypeOK, MonitorIsOwned, HookIsForTheChild
<1> QED
  BY <1>1, <1>2, <1>3, <1>4, <1>5, <1>6, <1>7, <1>8, <1>9, <1>10, <1>11,
     <1>12, <1>13, <1>14, <1>15, <1>16, <1>17
     DEF Next, vars, StartStep, HookStep, SinkStep, ServerStep, SinkPolls,
         SinkWakes, SinkDrains, ServerSpeaks, ServerLogs, ServerDies, Halt

(* childProcess changes hands under the monitor only.                      *)
LEMMA SpawnedStep ==
  TypeOK /\ MonitorIsOwned /\ ChildIsSpawned /\ HookIsForTheChild /\ [Next]_vars
    => ChildIsSpawned'
<1> SUFFICES ASSUME TypeOK, MonitorIsOwned, ChildIsSpawned, HookIsForTheChild,
                    [Next]_vars
             PROVE  ChildIsSpawned'
  OBVIOUS
<1> USE NamesAssumption DEF userVars, wrapperVars, sinkVars, serverVars,
      Goes, Holding, InStart, Terminating, Children, NoPort
<1>1. CASE UNCHANGED <<pc, childProcess, child, errorStreamSink, hook>>
  BY <1>1 DEF ChildIsSpawned
<1>2. ASSUME NEW u \in Users, Call(u) PROVE ChildIsSpawned'
  BY <1>2 DEF Call, TypeOK, MonitorIsOwned, ChildIsSpawned, HookIsForTheChild
<1>3. ASSUME NEW u \in Users, FindsChild(u) PROVE ChildIsSpawned'
  BY <1>3 DEF FindsChild, TypeOK, MonitorIsOwned, ChildIsSpawned,
     HookIsForTheChild
<1>4. ASSUME NEW u \in Users, Enter(u) PROVE ChildIsSpawned'
  BY <1>4 DEF Enter, TypeOK, MonitorIsOwned, ChildIsSpawned, HookIsForTheChild
<1>5. ASSUME NEW u \in Users, SpawnFails(u) PROVE ChildIsSpawned'
  BY <1>5 DEF SpawnFails, TypeOK, MonitorIsOwned, ChildIsSpawned,
     HookIsForTheChild
<1>6. ASSUME NEW u \in Users, Spawn(u) PROVE ChildIsSpawned'
  BY <1>6 DEF Spawn, TypeOK, MonitorIsOwned, ChildIsSpawned, HookIsForTheChild
<1>7. ASSUME NEW u \in Users, ReadPort(u) PROVE ChildIsSpawned'
  BY <1>7 DEF ReadPort, TypeOK, MonitorIsOwned, ChildIsSpawned,
     HookIsForTheChild
<1>8. ASSUME NEW u \in Users, ReadFails(u) PROVE ChildIsSpawned'
  BY <1>8 DEF ReadFails, TypeOK, MonitorIsOwned, ChildIsSpawned,
     HookIsForTheChild
<1>9. ASSUME NEW u \in Users, RegisterHook(u) PROVE ChildIsSpawned'
  BY <1>9 DEF RegisterHook, TypeOK, MonitorIsOwned, ChildIsSpawned,
     HookIsForTheChild
<1>10. ASSUME NEW u \in Users, RegisterHookFails(u) PROVE ChildIsSpawned'
  BY <1>10 DEF RegisterHookFails, TypeOK, MonitorIsOwned, ChildIsSpawned,
     HookIsForTheChild
<1>11. ASSUME NEW u \in Users, Check(u) PROVE ChildIsSpawned'
  BY <1>11 DEF Check, TypeOK, MonitorIsOwned, ChildIsSpawned,
     HookIsForTheChild
<1>12. ASSUME NEW u \in Users, Connect(u) PROVE ChildIsSpawned'
  BY <1>12 DEF Connect, TypeOK, MonitorIsOwned, ChildIsSpawned,
     HookIsForTheChild
<1>13. CASE HookEnters
  BY <1>13 DEF HookEnters, TypeOK, MonitorIsOwned, ChildIsSpawned,
     HookIsForTheChild
<1>14. CASE HookKills
  BY <1>14 DEF HookKills, TypeOK, MonitorIsOwned, ChildIsSpawned,
     HookIsForTheChild
<1>15. CASE HookStopsSink
  BY <1>15 DEF HookStopsSink, TypeOK, MonitorIsOwned, ChildIsSpawned,
     HookIsForTheChild
<1>16. CASE HookJoins
  BY <1>16 DEF HookJoins, TypeOK, MonitorIsOwned, ChildIsSpawned,
     HookIsForTheChild
<1>17. ASSUME NEW c \in Children, ServerDies(c) PROVE ChildIsSpawned'
  BY <1>17 DEF ServerDies, TypeOK, MonitorIsOwned, ChildIsSpawned,
     HookIsForTheChild
<1>18. CASE BeginShutdown
  BY <1>18 DEF BeginShutdown, TypeOK, MonitorIsOwned, ChildIsSpawned,
     HookIsForTheChild
<1> QED
  BY <1>1, <1>2, <1>3, <1>4, <1>5, <1>6, <1>7, <1>8, <1>9, <1>10, <1>11,
     <1>12, <1>13, <1>14, <1>15, <1>16, <1>17, <1>18
     DEF Next, vars, StartStep, HookStep, SinkStep, ServerStep, SinkPolls,
         SinkWakes, SinkDrains, ServerSpeaks, ServerLogs, Halt

(* The hook of the JVM is the child's, until terminate forgets the child.  *)
LEMMA HookStepKeeps ==
  TypeOK /\ MonitorIsOwned /\ ChildIsSpawned /\ HookIsForTheChild /\ [Next]_vars
    => HookIsForTheChild'
<1> SUFFICES ASSUME TypeOK, MonitorIsOwned, ChildIsSpawned, HookIsForTheChild,
                    [Next]_vars
             PROVE  HookIsForTheChild'
  OBVIOUS
<1> USE NamesAssumption DEF userVars, wrapperVars, sinkVars, serverVars,
      Goes, Holding, InStart, Terminating, Children, NoPort
<1>1. CASE UNCHANGED <<jvm, hook, shutdownHook, childProcess, failed, pc>>
  BY <1>1 DEF HookIsForTheChild
<1>2. ASSUME NEW u \in Users, Call(u) PROVE HookIsForTheChild'
  BY <1>2 DEF Call, TypeOK, MonitorIsOwned, ChildIsSpawned, HookIsForTheChild
<1>3. ASSUME NEW u \in Users, FindsChild(u) PROVE HookIsForTheChild'
  BY <1>3 DEF FindsChild, TypeOK, MonitorIsOwned, ChildIsSpawned,
     HookIsForTheChild
<1>4. ASSUME NEW u \in Users, Enter(u) PROVE HookIsForTheChild'
  BY <1>4 DEF Enter, TypeOK, MonitorIsOwned, ChildIsSpawned, HookIsForTheChild
<1>5. ASSUME NEW u \in Users, SpawnFails(u) PROVE HookIsForTheChild'
  BY <1>5 DEF SpawnFails, TypeOK, MonitorIsOwned, ChildIsSpawned,
     HookIsForTheChild
<1>6. ASSUME NEW u \in Users, Spawn(u) PROVE HookIsForTheChild'
  BY <1>6 DEF Spawn, TypeOK, MonitorIsOwned, ChildIsSpawned, HookIsForTheChild
<1>7. ASSUME NEW u \in Users, ReadPort(u) PROVE HookIsForTheChild'
  BY <1>7 DEF ReadPort, TypeOK, MonitorIsOwned, ChildIsSpawned,
     HookIsForTheChild
<1>8. ASSUME NEW u \in Users, ReadFails(u) PROVE HookIsForTheChild'
  BY <1>8 DEF ReadFails, TypeOK, MonitorIsOwned, ChildIsSpawned,
     HookIsForTheChild
<1>9. ASSUME NEW u \in Users, RegisterHook(u) PROVE HookIsForTheChild'
  BY <1>9 DEF RegisterHook, TypeOK, MonitorIsOwned, ChildIsSpawned,
     HookIsForTheChild
<1>10. ASSUME NEW u \in Users, RegisterHookFails(u) PROVE HookIsForTheChild'
  BY <1>10 DEF RegisterHookFails, TypeOK, MonitorIsOwned, ChildIsSpawned,
     HookIsForTheChild
<1>11. ASSUME NEW u \in Users, Check(u) PROVE HookIsForTheChild'
  BY <1>11 DEF Check, TypeOK, MonitorIsOwned, ChildIsSpawned,
     HookIsForTheChild
<1>12. ASSUME NEW u \in Users, Connect(u) PROVE HookIsForTheChild'
  BY <1>12 DEF Connect, TypeOK, MonitorIsOwned, ChildIsSpawned,
     HookIsForTheChild
<1>13. CASE HookEnters
  BY <1>13 DEF HookEnters, TypeOK, MonitorIsOwned, ChildIsSpawned,
     HookIsForTheChild
<1>14. CASE HookKills
  BY <1>14 DEF HookKills, TypeOK, MonitorIsOwned, ChildIsSpawned,
     HookIsForTheChild
<1>15. CASE HookStopsSink
  BY <1>15 DEF HookStopsSink, TypeOK, MonitorIsOwned, ChildIsSpawned,
     HookIsForTheChild
<1>16. CASE HookJoins
  BY <1>16 DEF HookJoins, TypeOK, MonitorIsOwned, ChildIsSpawned,
     HookIsForTheChild
<1>17. CASE BeginShutdown
  BY <1>17 DEF BeginShutdown, TypeOK, MonitorIsOwned, ChildIsSpawned,
     HookIsForTheChild
<1>18. CASE Halt
  BY <1>18 DEF Halt, TypeOK, MonitorIsOwned, ChildIsSpawned, HookIsForTheChild
<1> QED
  BY <1>1, <1>2, <1>3, <1>4, <1>5, <1>6, <1>7, <1>8, <1>9, <1>10, <1>11,
     <1>12, <1>13, <1>14, <1>15, <1>16, <1>17, <1>18
     DEF Next, vars, StartStep, HookStep, SinkStep, ServerStep, SinkPolls,
         SinkWakes, SinkDrains, ServerSpeaks, ServerLogs, ServerDies

(* A start that did not throw leaves the port of a server that spoke.      *)
LEMMA PortStep ==
  TypeOK /\ MonitorIsOwned /\ ChildIsSpawned /\ StartsSetThePort /\ [Next]_vars
    => StartsSetThePort'
<1> SUFFICES ASSUME TypeOK, MonitorIsOwned, ChildIsSpawned, StartsSetThePort,
                    [Next]_vars
             PROVE  StartsSetThePort'
  OBVIOUS
<1> USE NamesAssumption DEF userVars, wrapperVars, sinkVars, serverVars,
      Goes, Holding, InStart, Terminating, Children, NoPort
<1>1. CASE UNCHANGED <<failed, childProcess, pc, port, line>>
  BY <1>1 DEF StartsSetThePort, PortIsSet
<1>2. ASSUME NEW u \in Users, Call(u) PROVE StartsSetThePort'
  BY <1>2 DEF Call, TypeOK, MonitorIsOwned, ChildIsSpawned, StartsSetThePort,
     PortIsSet
<1>3. ASSUME NEW u \in Users, FindsChild(u) PROVE StartsSetThePort'
  BY <1>3 DEF FindsChild, TypeOK, MonitorIsOwned, ChildIsSpawned,
     StartsSetThePort, PortIsSet
<1>4. ASSUME NEW u \in Users, Enter(u) PROVE StartsSetThePort'
  BY <1>4 DEF Enter, TypeOK, MonitorIsOwned, ChildIsSpawned, StartsSetThePort,
     PortIsSet
<1>5. ASSUME NEW u \in Users, SpawnFails(u) PROVE StartsSetThePort'
  BY <1>5 DEF SpawnFails, TypeOK, MonitorIsOwned, ChildIsSpawned,
     StartsSetThePort, PortIsSet
<1>6. ASSUME NEW u \in Users, Spawn(u) PROVE StartsSetThePort'
  BY <1>6 DEF Spawn, TypeOK, MonitorIsOwned, ChildIsSpawned, StartsSetThePort,
     PortIsSet
<1>7. ASSUME NEW u \in Users, ReadPort(u) PROVE StartsSetThePort'
  BY <1>7 DEF ReadPort, TypeOK, MonitorIsOwned, ChildIsSpawned,
     StartsSetThePort, PortIsSet
<1>8. ASSUME NEW u \in Users, ReadFails(u) PROVE StartsSetThePort'
  BY <1>8 DEF ReadFails, TypeOK, MonitorIsOwned, ChildIsSpawned,
     StartsSetThePort, PortIsSet
<1>9. ASSUME NEW u \in Users, RegisterHook(u) PROVE StartsSetThePort'
  BY <1>9 DEF RegisterHook, TypeOK, MonitorIsOwned, ChildIsSpawned,
     StartsSetThePort, PortIsSet
<1>10. ASSUME NEW u \in Users, RegisterHookFails(u) PROVE StartsSetThePort'
  BY <1>10 DEF RegisterHookFails, TypeOK, MonitorIsOwned, ChildIsSpawned,
     StartsSetThePort, PortIsSet
<1>11. ASSUME NEW u \in Users, Check(u) PROVE StartsSetThePort'
  BY <1>11 DEF Check, TypeOK, MonitorIsOwned, ChildIsSpawned,
     StartsSetThePort, PortIsSet
<1>12. ASSUME NEW u \in Users, Connect(u) PROVE StartsSetThePort'
  BY <1>12 DEF Connect, TypeOK, MonitorIsOwned, ChildIsSpawned,
     StartsSetThePort, PortIsSet
<1>13. CASE HookKills
  BY <1>13 DEF HookKills, TypeOK, MonitorIsOwned, ChildIsSpawned,
     StartsSetThePort, PortIsSet
<1>14. ASSUME NEW c \in Children, ServerSpeaks(c) PROVE StartsSetThePort'
  BY <1>14 DEF ServerSpeaks, TypeOK, MonitorIsOwned, ChildIsSpawned,
     StartsSetThePort, PortIsSet
<1> QED
  BY <1>1, <1>2, <1>3, <1>4, <1>5, <1>6, <1>7, <1>8, <1>9, <1>10, <1>11,
     <1>12, <1>13, <1>14
     DEF Next, vars, StartStep, HookStep, SinkStep, ServerStep, HookEnters,
         HookStopsSink, HookJoins, SinkPolls, SinkWakes, SinkDrains,
         ServerLogs, ServerDies, BeginShutdown, Halt

(* A spawn finds no child, and terminate kills the one it forgets.         *)
LEMMA OrphanStep ==
  TypeOK /\ MonitorIsOwned /\ ChildIsSpawned /\ NoOrphans /\ [Next]_vars
    => NoOrphans'
<1> SUFFICES ASSUME TypeOK, MonitorIsOwned, ChildIsSpawned, NoOrphans,
                    [Next]_vars
             PROVE  NoOrphans'
  OBVIOUS
<1> USE NamesAssumption DEF userVars, wrapperVars, sinkVars, serverVars,
      Goes, Holding, InStart, Terminating, Children, NoPort
<1>1. CASE UNCHANGED <<child, childProcess>>
  BY <1>1 DEF NoOrphans
<1>2. ASSUME NEW u \in Users, Spawn(u) PROVE NoOrphans'
  BY <1>2 DEF Spawn, TypeOK, MonitorIsOwned, ChildIsSpawned, NoOrphans
<1>3. CASE HookKills
  BY <1>3 DEF HookKills, TypeOK, MonitorIsOwned, ChildIsSpawned, NoOrphans
<1>4. ASSUME NEW c \in Children, ServerDies(c) PROVE NoOrphans'
  BY <1>4 DEF ServerDies, TypeOK, MonitorIsOwned, ChildIsSpawned, NoOrphans
<1> QED
  BY <1>1, <1>2, <1>3, <1>4
     DEF Next, vars, StartStep, HookStep, SinkStep, ServerStep, Call,
         FindsChild, Enter, SpawnFails, ReadPort, ReadFails, RegisterHook,
         RegisterHookFails, Check, Connect, HookEnters, HookStopsSink,
         HookJoins, SinkPolls, SinkWakes, SinkDrains, ServerSpeaks,
         ServerLogs, BeginShutdown, Halt

(* A connector takes its port after start() has returned.                  *)
LEMMA AnnouncedStep ==
  TypeOK /\ StartsSetThePort /\ PortsAreAnnounced /\ [Next]_vars
    => PortsAreAnnounced'
<1> SUFFICES ASSUME TypeOK, StartsSetThePort, PortsAreAnnounced, [Next]_vars
             PROVE  PortsAreAnnounced'
  OBVIOUS
<1> USE NamesAssumption DEF userVars, wrapperVars, sinkVars, serverVars,
      Goes, Holding, InStart, Terminating, Children, NoPort
<1>1. CASE UNCHANGED <<failed, pc, used, line>>
  BY <1>1 DEF PortIsSet, PortsAreAnnounced
<1>2. ASSUME NEW u \in Users, Call(u) PROVE PortsAreAnnounced'
  BY <1>2 DEF Call, TypeOK, StartsSetThePort, PortIsSet, PortsAreAnnounced
<1>3. ASSUME NEW u \in Users, FindsChild(u) PROVE PortsAreAnnounced'
  BY <1>3 DEF FindsChild, TypeOK, StartsSetThePort, PortIsSet,
     PortsAreAnnounced
<1>4. ASSUME NEW u \in Users, Enter(u) PROVE PortsAreAnnounced'
  BY <1>4 DEF Enter, TypeOK, StartsSetThePort, PortIsSet, PortsAreAnnounced
<1>5. ASSUME NEW u \in Users, SpawnFails(u) PROVE PortsAreAnnounced'
  BY <1>5 DEF SpawnFails, TypeOK, StartsSetThePort, PortIsSet,
     PortsAreAnnounced
<1>6. ASSUME NEW u \in Users, Spawn(u) PROVE PortsAreAnnounced'
  BY <1>6 DEF Spawn, TypeOK, StartsSetThePort, PortIsSet, PortsAreAnnounced
<1>7. ASSUME NEW u \in Users, ReadPort(u) PROVE PortsAreAnnounced'
  BY <1>7 DEF ReadPort, TypeOK, StartsSetThePort, PortIsSet, PortsAreAnnounced
<1>8. ASSUME NEW u \in Users, ReadFails(u) PROVE PortsAreAnnounced'
  BY <1>8 DEF ReadFails, TypeOK, StartsSetThePort, PortIsSet,
     PortsAreAnnounced
<1>9. ASSUME NEW u \in Users, RegisterHook(u) PROVE PortsAreAnnounced'
  BY <1>9 DEF RegisterHook, TypeOK, StartsSetThePort, PortIsSet,
     PortsAreAnnounced
<1>10. ASSUME NEW u \in Users, RegisterHookFails(u) PROVE PortsAreAnnounced'
  BY <1>10 DEF RegisterHookFails, TypeOK, StartsSetThePort, PortIsSet,
     PortsAreAnnounced
<1>11. ASSUME NEW u \in Users, Check(u) PROVE PortsAreAnnounced'
  BY <1>11 DEF Check, TypeOK, StartsSetThePort, PortIsSet, PortsAreAnnounced
<1>12. ASSUME NEW u \in Users, Connect(u) PROVE PortsAreAnnounced'
  BY <1>12 DEF Connect, TypeOK, StartsSetThePort, PortIsSet, PortsAreAnnounced
<1>13. ASSUME NEW c \in Children, ServerSpeaks(c) PROVE PortsAreAnnounced'
  BY <1>13 DEF ServerSpeaks, TypeOK, StartsSetThePort, PortIsSet,
     PortsAreAnnounced
<1> QED
  BY <1>1, <1>2, <1>3, <1>4, <1>5, <1>6, <1>7, <1>8, <1>9, <1>10, <1>11,
     <1>12, <1>13
     DEF Next, vars, StartStep, HookStep, SinkStep, ServerStep, HookEnters,
         HookKills, HookStopsSink, HookJoins, SinkPolls, SinkWakes,
         SinkDrains, ServerLogs, ServerDies, BeginShutdown, Halt
-----------------------------------------------------------------------------
(* Nothing runs at first. *)
LEMMA InvInit == Init => ServerInv
<1> SUFFICES ASSUME Init PROVE ServerInv
  OBVIOUS
<1> USE NamesAssumption, BoundsAssumption DEF Init, NoPort
<1>1. 0 \in 0 .. MaxLines
  OBVIOUS
<1>2. TypeOK
  BY <1>1 DEF TypeOK
<1>3. MonitorIsOwned /\ ChildIsSpawned
  BY DEF MonitorIsOwned, ChildIsSpawned, Holding, Terminating
<1>4. HookIsForTheChild /\ StartsSetThePort
  BY DEF HookIsForTheChild, StartsSetThePort
<1>5. NoOrphans /\ PortsAreAnnounced
  BY DEF NoOrphans, PortsAreAnnounced
<1> QED
  BY <1>2, <1>3, <1>4, <1>5 DEF ServerInv

(* The parts of ServerInv carry each other over every step. *)
LEMMA InvStep == ServerInv /\ [Next]_vars => ServerInv'
BY TypeStep, MonitorStep, SpawnedStep, HookStepKeeps, PortStep, OrphanStep,
   AnnouncedStep DEF ServerInv

(* The inductive invariant of the server process.                          *)
THEOREM ServerInvHolds == Spec => []ServerInv
BY InvInit, InvStep, PTL DEF Spec

(* Every variable keeps its type, whoever starts and whatever fails.       *)
THEOREM TypeCorrect == Spec => []TypeOK
<1>1. ServerInv => TypeOK
  BY DEF ServerInv
<1> QED
  BY <1>1, ServerInvHolds, PTL

(* startRuntimeIfNeeded and terminate never lose sight of a live server.   *)
THEOREM NoServerIsOrphaned == Spec => []NoOrphans
<1>1. ServerInv => NoOrphans
  BY DEF ServerInv
<1> QED
  BY <1>1, ServerInvHolds, PTL

(* getPortNumber gives connectors a port a server announced, as long as no *)
(* start() has thrown.                                                     *)
THEOREM PortsWereAnnounced == Spec => []PortsAreAnnounced
<1>1. ServerInv => PortsAreAnnounced
  BY DEF ServerInv
<1> QED
  BY <1>1, ServerInvHolds, PTL

(* Once start() has returned, the hook kills the server before the JVM is  *)
(* down: only a start that threw or never returned leaves one behind.      *)
THEOREM OnlyFailedStartsSurvive == Spec => []SurvivorsNeverStarted
<1>1. ServerInv => SurvivorsNeverStarted
  <2> SUFFICES ASSUME ServerInv, NEW c \in Children,
                      jvm = "down", child[c] = "running"
               PROVE  \/ c \in failed
                      \/ \E u \in Users : pc[u] \in {"reading", "hooking"}
    BY DEF SurvivorsNeverStarted
  <2>1. childProcess = c /\ c # None
    BY NamesAssumption DEF ServerInv, NoOrphans
  <2>2. shutdownHook = None \/ shutdownHook \in failed
    BY DEF ServerInv, HookIsForTheChild
  <2> QED
    BY <2>1, <2>2 DEF ServerInv, HookIsForTheChild
<1> QED
  BY <1>1, ServerInvHolds, PTL
=============================================================================

---------------------------- MODULE TriggerHandles ----------------------------
(***************************************************************************)
(* How the functions a user groups into TriggerGroups become handles the   *)
(* core can ask for: the groups are mapped once (TriggerGroups.toMap, from *)
(* ConnectorConfigMapper), the keys of the map are sent to the core        *)
(* (ConnectorOutgoingMapper.mapConfig), and a request that names a key is  *)
(* looked up again (ConfigHandle.getTriggerFunction).                      *)
(*                                                                         *)
(* A name is the sequence of its parts between "::", so that joining two   *)
(* names with "::" is concatenation (names that begin or end with a colon  *)
(* aside).                                                                 *)
(***************************************************************************)
EXTENDS Naturals, Sequences, FiniteSets

CONSTANTS
  Groups,     \* the groups users make: names with keys of testResponses and
              \* of testErrorResponses
  Reserved,   \* the handle ContractCase::TriggerAndTest
  Example,    \* the function made of the trigger of an example's own
  None,       \* null
  Missing,    \* the exception of a lookup that finds no function
  MaxGroups   \* bound on the calls of addTriggerGroup

Names == {g.name : g \in Groups}
Keys == UNION {g.responses \cup g.errors : g \in Groups}
Join(name, key) == name \o key
Handles == {Join(n, k) : n \in Names, k \in Keys} \cup {Reserved}

(* A function of the map, by the addition of its group, its key, and what  *)
(* it expects of the trigger.                                              *)
Functions == [group: 1 .. MaxGroups, key: Keys, expects: {"success", "error"}]

ASSUME GroupsAssumption ==
  /\ MaxGroups \in Nat
  /\ \A g \in Groups :
       g \in [name: Names, responses: SUBSET Keys, errors: SUBSET Keys]
  /\ Functions \cap {Example, None, Missing} = {}
  /\ None # Example /\ None # Missing /\ Example # Missing
  /\ None \notin 1 .. MaxGroups
  /\ \A H \in SUBSET Handles : None \notin [H -> Functions]

VARIABLES
  stage,      \* how far the configuration has come
  triggers,   \* whether the configuration has TriggerGroups
  added,      \* the groups the user added, in order
  groups,     \* TriggerGroups.triggerGroups: name to addition, or None
  rest,       \* names toMap's forEach has still to come to
  ret,        \* the map that toMap fills
  example,    \* the trigger and the test response of the example, or neither
  triggerAndTests, \* ContractCaseConnectorConfig.triggerAndTests
  triggerAndTest,  \* ContractCaseConnectorConfig.triggerAndTest
  announced,  \* external: the handles the core was told of
  mapped,     \* history: how many groups had been added when they were mapped
  found       \* history: what getTriggerFunction gave for each handle asked

userVars == <<triggers, added, groups, example>>
mapVars == <<rest, ret>>
configVars == <<triggerAndTests, triggerAndTest>>
vars == <<stage, userVars, mapVars, configVars, announced, mapped, found>>

NoMap == <<>>   \* the map without keys

Init ==
  /\ stage = "building"
  /\ triggers \in BOOLEAN
  /\ added = <<>>
  /\ groups = [n \in Names |-> None]
  /\ rest = {}
  /\ ret = NoMap
  /\ example \in [trigger: BOOLEAN, response: BOOLEAN]
  /\ triggerAndTests = None
  /\ triggerAndTest = None
  /\ announced = {}
  /\ mapped = 0
  /\ found = [h \in Handles |-> None]

-----------------------------------------------------------------------------
(* The user builds the groups, and may go on after they were mapped, for   *)
(* the next definer.                                                       *)

(* Mutant: the first group of a name stays. *)
AddTriggerGroupIfAbsent(g) ==
  /\ triggers
  /\ stage # "mapping"
  /\ Len(added) < MaxGroups
  /\ added' = Append(added, g)
  /\ groups' = [groups EXCEPT ![g.name] = IF @ = None THEN Len(added) + 1 ELSE @]
  /\ UNCHANGED <<stage, triggers, example, mapVars, configVars, announced, mapped, found>>

AddTriggerGroup(g) ==
  /\ triggers
  /\ stage # "mapping"
  /\ Len(added) < MaxGroups
  /\ added' = Append(added, g)
  /\ groups' = [groups EXCEPT ![g.name] = Len(added) + 1]
  /\ UNCHANGED <<stage, triggers, example, mapVars, configVars, announced, mapped, found>>

-----------------------------------------------------------------------------
(* TriggerGroup.toMap: the error responses are put after the others.       *)

(* Mutant: the key alone is the handle. *)
ToMapByKey(n) ==
  LET g == added[n]
  IN  [k \in g.responses \cup g.errors |->
        [group |-> n, key |-> k,
         expects |-> IF k \in g.errors THEN "error" ELSE "success"]]

(* Map.put of all of f on g (TLC's f @@ g, which the prover cannot expand). *)
Onto(f, g) ==
  [h \in DOMAIN f \cup DOMAIN g |-> IF h \in DOMAIN f THEN f[h] ELSE g[h]]

Puts(n, keys, expects) ==
  [h \in {Join(added[n].name, k) : k \in keys} |->
    [group |-> n, key |-> CHOOSE k \in keys : Join(added[n].name, k) = h,
     expects |-> expects]]

ToMap(n) == Onto(Puts(n, added[n].errors, "error"), Puts(n, added[n].responses, "success"))

(* ConnectorConfigMapper.makeBuilder, at its triggers.                     *)
MapConfig ==
  /\ stage = "building"
  /\ stage' = "mapping"
  /\ rest' = IF triggers THEN {n \in Names : groups[n] # None} ELSE {}
  /\ ret' = NoMap
  /\ mapped' = Len(added)
  /\ UNCHANGED <<userVars, configVars, announced, found>>

(* Mutant: each group starts a map of its own. *)
PutAllAnew(n) ==
  /\ stage = "mapping"
  /\ n \in rest
  /\ rest' = rest \ {n}
  /\ ret' = ToMap(groups[n])
  /\ UNCHANGED <<stage, userVars, configVars, announced, mapped, found>>

(* TriggerGroups.toMap, one group; a HashMap's order depends on hashes.    *)
PutAll(n) ==
  /\ stage = "mapping"
  /\ n \in rest
  /\ rest' = rest \ {n}
  /\ ret' = Onto(ToMap(groups[n]), ret)
  /\ UNCHANGED <<stage, userVars, configVars, announced, mapped, found>>

(* mapSuccessExample or mapFailingExample, after makeBuilder: a trigger    *)
(* and its test response are given together or not at all.                 *)
Refuse ==
  /\ stage = "mapping" /\ rest = {}
  /\ example.trigger # example.response
  /\ stage' = "refused"
  /\ UNCHANGED <<userVars, mapVars, configVars, announced, mapped, found>>

Build ==
  /\ stage = "mapping" /\ rest = {}
  /\ example.trigger = example.response
  /\ stage' = "built"
  /\ triggerAndTests' = IF triggers THEN ret ELSE None
  /\ triggerAndTest' = IF example.trigger THEN Example ELSE None
  /\ UNCHANGED <<userVars, mapVars, announced, mapped, found>>

(* Mutant: the handle of the example is always announced. *)
SendAll ==
  /\ stage = "built"
  /\ stage' = "sent"
  /\ announced' = {Reserved} \cup
       (IF triggerAndTests = None THEN {} ELSE DOMAIN triggerAndTests)
  /\ UNCHANGED <<userVars, mapVars, configVars, mapped, found>>

(* mapConfig.                                                              *)
Send ==
  /\ stage = "built"
  /\ stage' = "sent"
  /\ announced' =
       (IF triggerAndTest = None THEN {} ELSE {Reserved}) \cup
       (IF triggerAndTests = None THEN {} ELSE DOMAIN triggerAndTests)
  /\ UNCHANGED <<userVars, mapVars, configVars, mapped, found>>

(* getTriggerFunction: one handle is the example's, whatever the groups    *)
(* are called; the exceptions it throws are Missing.                       *)
GetTriggerFunction(h) ==
  IF h = Reserved
  THEN IF triggerAndTest = None THEN Missing ELSE triggerAndTest
  ELSE IF triggerAndTests = None \/ h \notin DOMAIN triggerAndTests
       THEN Missing ELSE triggerAndTests[h]

(* The core asks for the handles it was told of (external).                *)
CoreAsks(h) ==
  /\ stage = "sent"
  /\ h \in announced
  /\ found' = [found EXCEPT ![h] = GetTriggerFunction(h)]
  /\ UNCHANGED <<stage, userVars, mapVars, configVars, announced, mapped>>

Next ==
  \/ \E g \in Groups : AddTriggerGroup(g)
  \/ MapConfig \/ (\E n \in Names : PutAll(n)) \/ Refuse \/ Build \/ Send
  \/ \E h \in Handles : CoreAsks(h)

Spec == Init /\ [][Next]_vars

-----------------------------------------------------------------------------
(* Every variable has its type: in particular what the core is told of are *)
(* joins of a group's name and a key.                                      *)
TypeOK ==
  /\ stage \in {"building", "mapping", "refused", "built", "sent"}
  /\ triggers \in BOOLEAN
  /\ added \in Seq(Groups) /\ Len(added) <= MaxGroups
  /\ groups \in [Names -> (1 .. Len(added)) \cup {None}]
  /\ rest \subseteq Names
  /\ \E H \in SUBSET Handles : ret \in [H -> Functions]
  /\ example \in [trigger: BOOLEAN, response: BOOLEAN]
  /\ triggerAndTests = None \/ \E H \in SUBSET Handles : triggerAndTests \in [H -> Functions]
  /\ triggerAndTest \in {Example, None}
  /\ announced \subseteq Handles
  /\ mapped \in 0 .. Len(added)
  /\ found \in [Handles -> Functions \cup {Example, None, Missing}]

(* The functions a handle may mean, from the groups alone: those of the    *)
(* last group of each name at the time of the mapping, an error response   *)
(* before a test response of the same name.                                *)
Current(n) ==
  n <= mapped /\ \A j \in (n + 1) .. mapped : added[j].name # added[n].name
Expected(h) ==
  {f \in Functions :
     /\ Current(f.group)
     /\ Join(added[f.group].name, f.key) = h
     /\ f.key \in IF f.expects = "error" THEN added[f.group].errors
                  ELSE added[f.group].responses \ added[f.group].errors}

(* What runs for a handle is what the user gave for it: never the function *)
(* of a group that was replaced, nor of one added after the mapping.       *)
FoundAsGrouped ==
  \A h \in Handles : found[h] \in Functions => found[h] \in Expected(h)

(* Each of the functions can be asked for: no group hides another, unless  *)
(* their names and keys join to the same handle.                           *)
NoFunctionIsLost ==
  stage = "sent" =>
    \A h \in Handles : Expected(h) # {} => triggers /\ h \in announced

(* A handle the core was told of has a function, or the lookup breaks the  *)
(* stream -- but for a group "ContractCase" with a key "TriggerAndTest":   *)
(* its handle is taken for the example's.                                  *)
AnnouncedHandlesAreFound ==
  \A h \in Handles : found[h] = Missing => h = Reserved /\ Expected(h) # {}
=============================================================================

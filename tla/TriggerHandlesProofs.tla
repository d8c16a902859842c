------------------------ MODULE TriggerHandlesProofs ------------------------
(***************************************************************************)
(* Theorems about TriggerHandles: for every set of groups and every number *)
(* of additions a handle means what the user grouped.                      *)
(***************************************************************************)
EXTENDS TriggerHandles, TLAPS

-----------------------------------------------------------------------------
(* What the maps hold.                                                     *)

LEMMA OntoFacts ==
  \A D, E : \A f \in [D -> Functions], g \in [E -> Functions] :
    /\ Onto(f, g) \in [D \cup E -> Functions]
    /\ \A x \in D : Onto(f, g)[x] = f[x]
    /\ \A x \in E \ D : Onto(f, g)[x] = g[x]
BY DEF Onto

(* A group put into a map: the keys' handles, and for each of them a       *)
(* function of the group with a key that joins to it.                      *)
HandlesOf(n, keys) == {Join(added[n].name, k) : k \in keys}
PutsAll(n, keys, expects, f) ==
  /\ f \in [HandlesOf(n, keys) -> Functions]
  /\ \A h \in HandlesOf(n, keys) :
       /\ f[h].group = n
       /\ f[h].expects = expects
       /\ f[h].key \in keys
       /\ Join(added[n].name, f[h].key) = h

LEMMA PutsFacts ==
  ASSUME NEW n \in 1 .. MaxGroups, added[n] \in Groups,
         NEW keys \in SUBSET Keys, NEW expects \in {"success", "error"}
  PROVE  PutsAll(n, keys, expects, Puts(n, keys, expects))
<1> DEFINE H == HandlesOf(n, keys)
           key(h) == CHOOSE k \in keys : Join(added[n].name, k) = h
<1>1. \A h \in H : key(h) \in keys /\ Join(added[n].name, key(h)) = h
  BY DEF HandlesOf
<1>2. Puts(n, keys, expects) =
        [h \in H |-> [group |-> n, key |-> key(h), expects |-> expects]]
  BY DEF Puts, HandlesOf
<1> HIDE DEF key, H
<1>3. \A h \in H : Puts(n, keys, expects)[h] =
                     [group |-> n, key |-> key(h), expects |-> expects]
  BY <1>2
<1>4. \A h \in H : [group |-> n, key |-> key(h), expects |-> expects] \in Functions
  BY <1>1 DEF Functions
<1>5. Puts(n, keys, expects) \in [H -> Functions]
  BY <1>2, <1>4
<1>6. ASSUME NEW h \in H
      PROVE  /\ Puts(n, keys, expects)[h].group = n
             /\ Puts(n, keys, expects)[h].expects = expects
             /\ Puts(n, keys, expects)[h].key \in keys
             /\ Join(added[n].name, Puts(n, keys, expects)[h].key) = h
  <2>1. PICK k : /\ k \in keys /\ Join(added[n].name, k) = h
                 /\ Puts(n, keys, expects)[h] = [group |-> n, key |-> k, expects |-> expects]
    BY <1>1, <1>3
  <2> QED
    BY <2>1
<1> QED
  BY <1>5, <1>6 DEF H, PutsAll

-----------------------------------------------------------------------------
(* The functions a group gives, as Expected counts them.                   *)
Gives(n, f) ==
  /\ f.group = n
  /\ f.key \in IF f.expects = "error" THEN added[n].errors
               ELSE added[n].responses \ added[n].errors

LEMMA GroupFacts ==
  ASSUME NEW g \in Groups
  PROVE  /\ g.name \in Names
         /\ g.responses \subseteq Keys /\ g.errors \subseteq Keys
         /\ \A k \in g.responses \cup g.errors : Join(g.name, k) \in Handles
BY GroupsAssumption DEF Names, Keys, Handles

(* The map of a group holds the functions the group gives, at the handles  *)
(* they join to.                                                           *)
LEMMA ToMapFacts ==
  ASSUME NEW n \in 1 .. MaxGroups, added[n] \in Groups
  PROVE  \E H \in SUBSET Handles :
           /\ ToMap(n) \in [H -> Functions]
           /\ \A h \in H : /\ Gives(n, ToMap(n)[h])
                           /\ Join(added[n].name, ToMap(n)[h].key) = h
           /\ \A f \in Functions :
                Gives(n, f) => Join(added[n].name, f.key) \in H
<1> DEFINE D == HandlesOf(n, added[n].errors)
           E == HandlesOf(n, added[n].responses)
           first == Puts(n, added[n].errors, "error")
           second == Puts(n, added[n].responses, "success")
<1>1. added[n].errors \in SUBSET Keys /\ added[n].responses \in SUBSET Keys
  BY GroupFacts
<1>2. PutsAll(n, added[n].errors, "error", first)
  BY <1>1, PutsFacts
<1>3. PutsAll(n, added[n].responses, "success", second)
  BY <1>1, PutsFacts
<1>4. D \cup E \in SUBSET Handles
  BY GroupFacts DEF HandlesOf
<1>5. \A f \in Functions : Gives(n, f) => Join(added[n].name, f.key) \in D \cup E
  BY DEF Gives, HandlesOf
<1>6. \A h \in E \ D : second[h].key \notin added[n].errors
  BY <1>3 DEF HandlesOf, PutsAll
<1>7. ToMap(n) = Onto(first, second)
  BY DEF ToMap
<1> HIDE DEF D, E, first, second
<1>8. first \in [D -> Functions] /\ second \in [E -> Functions]
  BY <1>2, <1>3 DEF PutsAll, D, E
<1>9. /\ ToMap(n) \in [D \cup E -> Functions]
      /\ \A h \in D : ToMap(n)[h] = first[h]
      /\ \A h \in E \ D : ToMap(n)[h] = second[h]
  <2>1. /\ Onto(first, second) \in [D \cup E -> Functions]
        /\ \A h \in D : Onto(first, second)[h] = first[h]
        /\ \A h \in E \ D : Onto(first, second)[h] = second[h]
    BY <1>8, OntoFacts
  <2> QED
    BY <1>7, <2>1
<1>10. \A h \in D : Gives(n, ToMap(n)[h]) /\ Join(added[n].name, ToMap(n)[h].key) = h
  BY <1>2, <1>9 DEF Gives, PutsAll, D
<1>11. \A h \in E \ D : Gives(n, ToMap(n)[h]) /\ Join(added[n].name, ToMap(n)[h].key) = h
  BY <1>3, <1>6, <1>9 DEF Gives, PutsAll, E
<1> QED
  BY <1>4, <1>5, <1>9, <1>10, <1>11

-----------------------------------------------------------------------------
(* The functions that handles may mean, and how the steps change them.     *)
Meant(f) == Current(f.group) /\ Gives(f.group, f)

LEMMA ExpectedFacts ==
  \A h, f : f \in Expected(h) <=>
    /\ f \in Functions /\ Meant(f)
    /\ Join(added[f.group].name, f.key) = h
BY DEF Expected, Meant, Gives

LEMMA AddFacts ==
  ASSUME TypeOK, NEW g \in Groups, AddTriggerGroup(g)
  PROVE  /\ Len(added') = Len(added) + 1
         /\ \A j \in 1 .. Len(added) : added'[j] = added[j]
         /\ added'[Len(added) + 1] = g
         /\ added' \in Seq(Groups)
BY DEF TypeOK, AddTriggerGroup

(* What was mapped stays meant, whatever is added after it.                *)
LEMMA MeantIsKept ==
  ASSUME TypeOK, mapped' = mapped,
         \A j \in 1 .. Len(added) : added'[j] = added[j]
  PROVE  /\ \A f \in Functions : Meant(f)' <=> Meant(f)
         /\ \A f \in Functions : Meant(f) => added'[f.group] = added[f.group]
         /\ \A h : Expected(h)' = Expected(h)
<1>1. mapped \in Nat /\ mapped <= Len(added) /\ Len(added) \in Nat
  BY DEF TypeOK
<1>2. \A n \in 1 .. MaxGroups : n <= mapped => added'[n] = added[n]
  BY <1>1, GroupsAssumption
<1>3. \A n \in 1 .. MaxGroups : Current(n)' <=> Current(n)
  BY <1>1, GroupsAssumption DEF Current
<1>4. \A f \in Functions : f.group \in 1 .. MaxGroups
  BY DEF Functions
<1>5. \A f \in Functions : Current(f.group) => added'[f.group] = added[f.group]
  BY <1>2, <1>4 DEF Current
<1>6. \A f \in Functions : Meant(f)' <=> Meant(f)
  BY <1>3, <1>4, <1>5 DEF Meant, Gives
<1>7. \A f \in Functions : Meant(f) => added'[f.group] = added[f.group]
  BY <1>5 DEF Meant
<1>8. \A h : Expected(h)' = Expected(h)
  BY <1>3, <1>4, <1>5 DEF Expected
<1> QED
  BY <1>6, <1>7, <1>8

-----------------------------------------------------------------------------
(* The inductive invariant.                                                *)

GroupsAreLast ==
  \A n \in Names :
    /\ groups[n] = None => \A j \in 1 .. Len(added) : added[j].name # n
    /\ groups[n] # None =>
         /\ groups[n] \in 1 .. Len(added)
         /\ added[groups[n]].name = n
         /\ \A j \in 1 .. Len(added) : groups[n] < j => added[j].name # n

OnlyTriggersAreGrouped == ~triggers => added = <<>>

MappingIsOfTheGroups ==
  stage = "mapping" => mapped = Len(added) /\ \A n \in rest : groups[n] # None

RetHoldsTheMeant ==
  stage # "building" =>
    /\ \A h \in DOMAIN ret : ret[h] \in Expected(h)
    /\ \A f \in Functions :
         Meant(f) => \/ added[f.group].name \in rest
                     \/ Join(added[f.group].name, f.key) \in DOMAIN ret

ConfigIsRet ==
  stage \in {"built", "sent"} =>
    rest = {} /\ triggerAndTests = IF triggers THEN ret ELSE None

AnnouncedIsTheConfig ==
  stage = "sent" =>
    announced = (IF triggerAndTest = None THEN {} ELSE {Reserved}) \cup
                (IF triggers THEN DOMAIN ret ELSE {})

NothingIsFoundBefore == stage # "sent" => \A h \in Handles : found[h] = None

HandlesInv ==
  /\ TypeOK /\ GroupsAreLast /\ OnlyTriggersAreGrouped /\ MappingIsOfTheGroups
  /\ RetHoldsTheMeant /\ ConfigIsRet /\ AnnouncedIsTheConfig
  /\ NothingIsFoundBefore

LEMMA NoMapFacts == NoMap \in [{} -> Functions] /\ DOMAIN NoMap = {}
BY DEF NoMap

LEMMA HandlesInvInit == Init => HandlesInv
<1> SUFFICES ASSUME Init PROVE HandlesInv
  OBVIOUS
<1>1. Len(added) = 0 /\ added \in Seq(Groups)
  BY DEF Init
<1>2. TypeOK
  <2>1. \E H \in SUBSET Handles : ret \in [H -> Functions]
    BY NoMapFacts DEF Init
  <2>2. groups \in [Names -> (1 .. Len(added)) \cup {None}]
    BY DEF Init
  <2>3. Len(added) <= MaxGroups /\ mapped \in 0 .. Len(added)
    BY <1>1, GroupsAssumption DEF Init
  <2> QED
    BY <1>1, <2>1, <2>2, <2>3 DEF Init, TypeOK
<1>3. GroupsAreLast
  BY <1>1 DEF Init, GroupsAreLast
<1> QED
  BY <1>2, <1>3 DEF Init, HandlesInv, OnlyTriggersAreGrouped, MappingIsOfTheGroups,
    RetHoldsTheMeant, ConfigIsRet, AnnouncedIsTheConfig, NothingIsFoundBefore

LEMMA TypeStep == TypeOK /\ MappingIsOfTheGroups /\ [Next]_vars => TypeOK'
<1> SUFFICES ASSUME TypeOK, MappingIsOfTheGroups, [Next]_vars PROVE TypeOK'
  OBVIOUS
<1> USE DEF userVars, mapVars, configVars
<1>1. ASSUME NEW g \in Groups, AddTriggerGroup(g) PROVE TypeOK'
  <2>1. added' \in Seq(Groups) /\ Len(added') = Len(added) + 1 /\ Len(added) \in Nat
    BY <1>1, AddFacts DEF TypeOK
  <2>2. Len(added') <= MaxGroups
    BY <1>1, <2>1, GroupsAssumption DEF TypeOK, AddTriggerGroup
  <2>3. groups' \in [Names -> (1 .. Len(added')) \cup {None}]
    BY <1>1, <2>1, GroupFacts DEF TypeOK, AddTriggerGroup
  <2>4. mapped' \in 0 .. Len(added')
    BY <1>1, <2>1 DEF TypeOK, AddTriggerGroup
  <2> QED
    BY <1>1, <2>1, <2>2, <2>3, <2>4 DEF TypeOK, AddTriggerGroup
<1>2. CASE MapConfig
  <2>1. \E H \in SUBSET Handles : ret' \in [H -> Functions]
    BY <1>2, NoMapFacts DEF MapConfig
  <2>2. mapped' \in 0 .. Len(added') /\ rest' \subseteq Names
    BY <1>2 DEF MapConfig, TypeOK
  <2> QED
    BY <1>2, <2>1, <2>2 DEF MapConfig, TypeOK
<1>3. ASSUME NEW n \in Names, PutAll(n) PROVE TypeOK'
  <2>1. groups[n] \in 1 .. MaxGroups /\ added[groups[n]] \in Groups
    BY <1>3, GroupsAssumption DEF PutAll, TypeOK, MappingIsOfTheGroups
  <2>2. \E H \in SUBSET Handles : ret' \in [H -> Functions]
    BY <1>3, <2>1, ToMapFacts, OntoFacts DEF PutAll, TypeOK
  <2> QED
    BY <1>3, <2>2 DEF PutAll, TypeOK
<1>4. CASE Refuse
  BY <1>4 DEF Refuse, TypeOK
<1>5. CASE Build
  BY <1>5 DEF Build, TypeOK
<1>6. CASE Send
  <2>1. announced' \subseteq Handles
    BY <1>6 DEF Send, TypeOK, Handles
  <2> QED
    BY <1>6, <2>1 DEF Send, TypeOK
<1>7. ASSUME NEW h \in Handles, CoreAsks(h) PROVE TypeOK'
  <2>1. GetTriggerFunction(h) \in Functions \cup {Example, None, Missing}
    BY DEF GetTriggerFunction, TypeOK
  <2>2. found' \in [Handles -> Functions \cup {Example, None, Missing}]
    BY <1>7, <2>1 DEF CoreAsks, TypeOK
  <2> QED
    BY <1>7, <2>2 DEF CoreAsks, TypeOK
<1>8. CASE UNCHANGED vars
  BY <1>8 DEF vars, TypeOK
<1> QED
  BY <1>1, <1>2, <1>3, <1>4, <1>5, <1>6, <1>7, <1>8 DEF Next

LEMMA GroupsAreLastStep ==
  TypeOK /\ GroupsAreLast /\ [Next]_vars => GroupsAreLast'
<1> SUFFICES ASSUME TypeOK, GroupsAreLast, [Next]_vars PROVE GroupsAreLast'
  OBVIOUS
<1>1. ASSUME NEW g \in Groups, AddTriggerGroup(g) PROVE GroupsAreLast'
  <2>1. /\ Len(added') = Len(added) + 1 /\ Len(added) \in Nat
        /\ \A j \in 1 .. Len(added) : added'[j] = added[j]
        /\ added'[Len(added) + 1] = g
    BY <1>1, AddFacts DEF TypeOK
  <2> SUFFICES ASSUME NEW n \in Names
               PROVE  /\ groups'[n] = None =>
                           \A j \in 1 .. Len(added') : added'[j].name # n
                      /\ groups'[n] # None =>
                           /\ groups'[n] \in 1 .. Len(added')
                           /\ added'[groups'[n]].name = n
                           /\ \A j \in 1 .. Len(added') :
                                groups'[n] < j => added'[j].name # n
    BY DEF GroupsAreLast
  <2>2. CASE n = g.name
    <3>1. groups'[n] = Len(added) + 1
      BY <1>1, <2>2 DEF AddTriggerGroup, TypeOK
    <3>2. Len(added) + 1 # None
      <4>1. Len(added) + 1 \in 1 .. MaxGroups
        BY <1>1, <2>1, GroupsAssumption DEF AddTriggerGroup, TypeOK
      <4> QED
        BY <4>1, GroupsAssumption
    <3> QED
      BY <2>1, <2>2, <3>1, <3>2
  <2>3. CASE n # g.name
    <3>1. groups'[n] = groups[n]
      BY <1>1, <2>3 DEF AddTriggerGroup, TypeOK
    <3> QED
      BY <2>1, <2>3, <3>1 DEF GroupsAreLast
  <2> QED
    BY <2>2, <2>3
<1>2. CASE UNCHANGED <<added, groups>>
  BY <1>2 DEF GroupsAreLast
<1> QED
  BY <1>1, <1>2 DEF Next, MapConfig, PutAll, Refuse, Build, Send, CoreAsks, vars, userVars

(* The last group of its name is the one the name stands for, and the      *)
(* reverse.                                                                *)
LEMMA LastIsGrouped ==
  ASSUME TypeOK, GroupsAreLast, NEW i \in 1 .. MaxGroups, i <= Len(added),
         \A j \in (i + 1) .. Len(added) : added[j].name # added[i].name
  PROVE  added[i].name \in Names /\ groups[added[i].name] = i
<1>1. Len(added) \in Nat /\ i \in 1 .. Len(added)
  BY GroupsAssumption DEF TypeOK
<1>2. added[i] \in Groups /\ added[i].name \in Names
  BY <1>1, GroupFacts DEF TypeOK
<1>3. \A j \in 1 .. Len(added) : i < j => added[j].name # added[i].name
  BY <1>1
<1> QED
  BY <1>1, <1>2, <1>3 DEF GroupsAreLast

LEMMA GroupedIsLast ==
  ASSUME TypeOK, GroupsAreLast, mapped = Len(added), NEW n \in Names, groups[n] # None
  PROVE  /\ groups[n] \in 1 .. MaxGroups /\ added[groups[n]] \in Groups
         /\ added[groups[n]].name = n
         /\ Current(groups[n])
<1>1. Len(added) \in Nat /\ Len(added) <= MaxGroups /\ MaxGroups \in Nat
  BY GroupsAssumption DEF TypeOK
<1>2. groups[n] \in 1 .. Len(added) /\ added[groups[n]].name = n
  BY DEF GroupsAreLast
<1>3. Current(groups[n])
  BY <1>1, <1>2 DEF GroupsAreLast, Current
<1> QED
  BY <1>1, <1>2, <1>3 DEF TypeOK

LEMMA RetStep == HandlesInv /\ [Next]_vars => RetHoldsTheMeant'
<1> SUFFICES ASSUME HandlesInv, [Next]_vars PROVE RetHoldsTheMeant'
  OBVIOUS
<1> USE DEF HandlesInv
<1>1. ASSUME NEW g \in Groups, AddTriggerGroup(g) PROVE RetHoldsTheMeant'
  <2>1. mapped' = mapped /\ ret' = ret /\ rest' = rest /\ stage' = stage
    BY <1>1 DEF AddTriggerGroup, mapVars
  <2>2. /\ \A f \in Functions : Meant(f)' <=> Meant(f)
        /\ \A f \in Functions : Meant(f) => added'[f.group] = added[f.group]
        /\ \A h : Expected(h)' = Expected(h)
    BY <1>1, <2>1, AddFacts, MeantIsKept
  <2> QED
    BY <2>1, <2>2 DEF RetHoldsTheMeant
<1>2. CASE MapConfig
  <2>1. /\ mapped' = Len(added) /\ ret' = NoMap /\ added' = added
        /\ rest' = IF triggers THEN {n \in Names : groups[n] # None} ELSE {}
    BY <1>2 DEF MapConfig, userVars
  <2>2. DOMAIN ret' = {}
    BY <2>1, NoMapFacts
  <2>3. ASSUME NEW f \in Functions, Meant(f)' PROVE added'[f.group].name \in rest'
    <3>1. /\ f.group \in 1 .. MaxGroups /\ f.group <= Len(added)
          /\ \A j \in (f.group + 1) .. Len(added) : added[j].name # added[f.group].name
      BY <2>1, <2>3 DEF Functions, Meant, Current
    <3>2. added[f.group].name \in Names /\ groups[added[f.group].name] = f.group
      BY <3>1, LastIsGrouped
    <3>3. f.group # None
      BY <3>1, GroupsAssumption
    <3>4. triggers
      BY <3>1 DEF OnlyTriggersAreGrouped
    <3> QED
      BY <2>1, <3>2, <3>3, <3>4
  <2> QED
    BY <2>2, <2>3 DEF RetHoldsTheMeant
<1>3. ASSUME NEW n \in Names, PutAll(n) PROVE RetHoldsTheMeant'
  <2> DEFINE i == groups[n]
  <2>1. /\ stage = "mapping" /\ n \in rest /\ rest' = rest \ {n} /\ stage' = stage
        /\ ret' = Onto(ToMap(i), ret) /\ added' = added /\ mapped' = mapped
    BY <1>3 DEF PutAll, userVars
  <2>2. mapped = Len(added) /\ i # None
    BY <2>1 DEF MappingIsOfTheGroups
  <2>3. i \in 1 .. MaxGroups /\ added[i] \in Groups /\ added[i].name = n /\ Current(i)
    BY <2>2, GroupedIsLast
  <2>4. PICK H \in SUBSET Handles :
          /\ ToMap(i) \in [H -> Functions]
          /\ \A h \in H : Gives(i, ToMap(i)[h]) /\ Join(added[i].name, ToMap(i)[h].key) = h
          /\ \A f \in Functions : Gives(i, f) => Join(added[i].name, f.key) \in H
    BY <2>3, ToMapFacts
  <2>5. PICK G \in SUBSET Handles : ret \in [G -> Functions]
    BY DEF TypeOK
  <2>6. /\ DOMAIN ret' = H \cup G
        /\ \A h \in H : ret'[h] = ToMap(i)[h]
        /\ \A h \in G \ H : ret'[h] = ret[h]
    <3>1. PICK m : m = ToMap(i)
      OBVIOUS
    <3>2. m \in [H -> Functions] /\ ret' = Onto(m, ret)
      BY <2>1, <2>4, <3>1
    <3>3. /\ Onto(m, ret) \in [H \cup G -> Functions]
          /\ \A h \in H : Onto(m, ret)[h] = m[h]
          /\ \A h \in G \ H : Onto(m, ret)[h] = ret[h]
      BY <2>5, <3>2, OntoFacts
    <3> QED
      BY <3>1, <3>2, <3>3
  <2>7. \A h : Expected(h)' = Expected(h)
    BY <2>1 DEF Expected, Current
  <2>8. \A f \in Functions : Meant(f)' <=> Meant(f)
    BY <2>1 DEF Meant, Current, Gives
  <2>9. \A h \in H : ret'[h] \in Expected(h)
    <3> TAKE h \in H
    <3>1. PICK f \in Functions : f = ToMap(i)[h]
      BY <2>4
    <3>2. Gives(i, f) /\ Join(added[i].name, f.key) = h
      BY <2>4, <3>1
    <3>3. f.group = i
      BY <3>2 DEF Gives
    <3> QED
      BY <2>3, <2>6, <3>1, <3>2, <3>3, ExpectedFacts DEF Meant
  <2>10. \A h \in G : ret[h] \in Expected(h)
    BY <2>1, <2>5 DEF RetHoldsTheMeant
  <2>11. ASSUME NEW f \in Functions, Meant(f)
         PROVE  \/ added[f.group].name \in rest'
                \/ Join(added[f.group].name, f.key) \in H \cup G
    <3>1. /\ f.group \in 1 .. MaxGroups /\ f.group <= Len(added)
          /\ \A j \in (f.group + 1) .. Len(added) : added[j].name # added[f.group].name
      BY <2>2, <2>11 DEF Functions, Meant, Current
    <3>2. groups[added[f.group].name] = f.group
      BY <3>1, LastIsGrouped
    <3>3. CASE added[f.group].name = n
      BY <2>4, <2>11, <3>2, <3>3 DEF Meant
    <3>4. CASE added[f.group].name # n
      BY <2>1, <2>5, <2>11, <3>4 DEF RetHoldsTheMeant
    <3> QED
      BY <3>3, <3>4
  <2> QED
    BY <2>1, <2>6, <2>7, <2>8, <2>9, <2>10, <2>11 DEF RetHoldsTheMeant
<1>4. CASE UNCHANGED <<rest, ret, added, mapped>> /\ (stage' # "building" => stage # "building")
  <2>1. /\ \A f \in Functions : Meant(f)' <=> Meant(f)
        /\ \A h : Expected(h)' = Expected(h)
    BY <1>4 DEF Meant, Gives, Expected, Current
  <2> QED
    BY <1>4, <2>1 DEF RetHoldsTheMeant
<1>5. CASE UNCHANGED vars
  BY <1>4, <1>5 DEF vars, userVars, mapVars
<1>6. CASE Refuse \/ Build \/ Send \/ \E h \in Handles : CoreAsks(h)
  BY <1>4, <1>6 DEF Refuse, Build, Send, CoreAsks, userVars, mapVars
<1> QED
  BY <1>1, <1>2, <1>3, <1>5, <1>6 DEF Next

LEMMA HandlesInvStep == HandlesInv /\ [Next]_vars => HandlesInv'
<1> SUFFICES ASSUME HandlesInv, [Next]_vars PROVE HandlesInv'
  OBVIOUS
<1> USE DEF userVars, mapVars, configVars
<1>1. TypeOK' /\ GroupsAreLast' /\ RetHoldsTheMeant'
  BY TypeStep, GroupsAreLastStep, RetStep DEF HandlesInv
<1>2. OnlyTriggersAreGrouped'
  BY DEF HandlesInv, OnlyTriggersAreGrouped, Next, AddTriggerGroup, MapConfig, PutAll,
         Refuse, Build, Send, CoreAsks, vars
<1>3. MappingIsOfTheGroups'
  BY DEF HandlesInv, MappingIsOfTheGroups, Next, AddTriggerGroup, MapConfig, PutAll,
         Refuse, Build, Send, CoreAsks, vars
<1>4. ConfigIsRet'
  BY DEF HandlesInv, ConfigIsRet, Next, AddTriggerGroup, MapConfig, PutAll,
         Refuse, Build, Send, CoreAsks, vars
<1>5. AnnouncedIsTheConfig'
  <2>1. CASE Send
    <3>1. PICK H \in SUBSET Handles : ret \in [H -> Functions]
      BY DEF HandlesInv, TypeOK
    <3>2. ret # None
      BY <3>1, GroupsAssumption
    <3>3. triggerAndTests = IF triggers THEN ret ELSE None
      BY <2>1 DEF HandlesInv, ConfigIsRet, Send
    <3> QED
      BY <2>1, <3>2, <3>3 DEF AnnouncedIsTheConfig, Send
  <2> QED
    BY <2>1 DEF HandlesInv, AnnouncedIsTheConfig, Next, AddTriggerGroup, MapConfig,
                PutAll, Refuse, Build, CoreAsks, vars
<1>6. NothingIsFoundBefore'
  BY DEF HandlesInv, NothingIsFoundBefore, Next, AddTriggerGroup, MapConfig, PutAll,
         Refuse, Build, Send, CoreAsks, vars
<1> QED
  BY <1>1, <1>2, <1>3, <1>4, <1>5, <1>6 DEF HandlesInv

-----------------------------------------------------------------------------
(* The theorems.                                                           *)

(* The groups, the map that is made of them, what the core is told of it   *)
(* and what is meant go together, in every state.                          *)
THEOREM HandlesInvCorrect == Spec => []HandlesInv
<1>1. Init => HandlesInv
  BY HandlesInvInit
<1>2. HandlesInv /\ [Next]_vars => HandlesInv'
  BY HandlesInvStep
<1> QED
  BY <1>1, <1>2, PTL DEF Spec

(* The variables of TriggerHandles keep their types.                       *)
THEOREM TypeCorrect == Spec => []TypeOK
<1>1. HandlesInv => TypeOK
  BY DEF HandlesInv
<1> QED
  BY <1>1, HandlesInvCorrect, PTL

(* What the core is told of has room for every function that is meant.     *)
THEOREM NoneIsLost == Spec => []NoFunctionIsLost
<1>1. HandlesInv => NoFunctionIsLost
  <2> SUFFICES ASSUME HandlesInv, stage = "sent", NEW h \in Handles,
                      NEW f, f \in Expected(h)
               PROVE  triggers /\ h \in announced
    BY DEF NoFunctionIsLost
  <2>1. f \in Functions /\ Meant(f) /\ Join(added[f.group].name, f.key) = h
    BY ExpectedFacts
  <2>2. triggers
    BY <2>1, GroupsAssumption
       DEF HandlesInv, OnlyTriggersAreGrouped, TypeOK, Meant, Current, Functions
  <2>3. rest = {}
    BY DEF HandlesInv, ConfigIsRet
  <2>4. h \in DOMAIN ret
    BY <2>1, <2>3 DEF HandlesInv, RetHoldsTheMeant
  <2> QED
    BY <2>2, <2>4 DEF HandlesInv, AnnouncedIsTheConfig
<1> QED
  BY <1>1, HandlesInvCorrect, PTL

-----------------------------------------------------------------------------
(* A lookup and what it gives.                                             *)
Sound(h) ==
  /\ found[h] \in Functions => found[h] \in Expected(h)
  /\ found[h] = Missing => h = Reserved /\ Expected(h) # {}

LEMMA LookupFacts ==
  ASSUME HandlesInv, stage = "sent", NEW h \in announced
  PROVE  /\ GetTriggerFunction(h) \in Functions => GetTriggerFunction(h) \in Expected(h)
         /\ GetTriggerFunction(h) = Missing => h = Reserved /\ Expected(h) # {}
<1>1. PICK H \in SUBSET Handles : ret \in [H -> Functions]
  BY DEF HandlesInv, TypeOK
<1>2. ret # None
  BY <1>1, GroupsAssumption
<1>3. \A x \in H : ret[x] \in Expected(x) /\ ret[x] \in Functions
  BY <1>1 DEF HandlesInv, RetHoldsTheMeant
<1>4. triggerAndTests = IF triggers THEN ret ELSE None
  BY DEF HandlesInv, ConfigIsRet
<1>5. announced = (IF triggerAndTest = None THEN {} ELSE {Reserved}) \cup
                  (IF triggers THEN DOMAIN ret ELSE {})
  BY DEF HandlesInv, AnnouncedIsTheConfig
<1>6. CASE h = Reserved
  <2>1. CASE triggerAndTest = None
    BY <1>1, <1>3, <1>5, <1>6, <2>1, GroupsAssumption DEF GetTriggerFunction
  <2>2. CASE triggerAndTest = Example
    BY <1>6, <2>2, GroupsAssumption DEF GetTriggerFunction
  <2> QED
    BY <2>1, <2>2 DEF HandlesInv, TypeOK
<1>7. CASE h # Reserved
  <2>1. triggers /\ h \in H
    BY <1>1, <1>5, <1>7
  <2>2. GetTriggerFunction(h) = ret[h]
    BY <1>1, <1>2, <1>4, <1>7, <2>1 DEF GetTriggerFunction
  <2> QED
    BY <1>3, <2>1, <2>2, GroupsAssumption
<1> QED
  BY <1>6, <1>7

LEMMA SoundStep ==
  HandlesInv /\ (\A h \in Handles : Sound(h)) /\ [Next]_vars
    => (\A h \in Handles : Sound(h))'
<1> SUFFICES ASSUME HandlesInv, \A h \in Handles : Sound(h), [Next]_vars,
                    NEW h \in Handles
             PROVE  Sound(h)'
  OBVIOUS
<1> USE DEF userVars, mapVars, configVars
<1>1. CASE found' = found /\ Expected(h)' = Expected(h)
  BY <1>1 DEF Sound
<1>2. ASSUME NEW g \in Groups, AddTriggerGroup(g) PROVE Sound(h)'
  <2>1. Expected(h)' = Expected(h)
    BY <1>2, AddFacts, MeantIsKept DEF HandlesInv, AddTriggerGroup
  <2> QED
    BY <1>1, <1>2, <2>1 DEF AddTriggerGroup
<1>3. CASE MapConfig
  <2>1. found'[h] = None
    BY <1>3 DEF MapConfig, HandlesInv, NothingIsFoundBefore
  <2> QED
    BY <2>1, GroupsAssumption DEF Sound
<1>4. CASE UNCHANGED <<found, added, mapped>>
  BY <1>1, <1>4 DEF Expected, Current
<1>5. ASSUME NEW x \in Handles, CoreAsks(x) PROVE Sound(h)'
  <2>1. Expected(h)' = Expected(h)
    BY <1>5 DEF CoreAsks, Expected, Current
  <2>2. CASE x = h
    <3>1. found'[h] = GetTriggerFunction(h)
      BY <1>5, <2>2 DEF CoreAsks, HandlesInv, TypeOK
    <3>2. stage = "sent" /\ h \in announced
      BY <1>5, <2>2 DEF CoreAsks
    <3>3. /\ GetTriggerFunction(h) \in Functions => GetTriggerFunction(h) \in Expected(h)
          /\ GetTriggerFunction(h) = Missing => h = Reserved /\ Expected(h) # {}
      BY <3>2, LookupFacts
    <3> QED
      BY <2>1, <3>1, <3>3 DEF Sound
  <2>3. CASE x # h
    <3>1. found'[h] = found[h]
      BY <1>5, <2>3 DEF CoreAsks, HandlesInv, TypeOK
    <3> QED
      BY <2>1, <3>1 DEF Sound
  <2> QED
    BY <2>2, <2>3
<1>6. CASE UNCHANGED vars
  BY <1>4, <1>6 DEF vars
<1>7. CASE (\E n \in Names : PutAll(n)) \/ Refuse \/ Build \/ Send
  BY <1>4, <1>7 DEF PutAll, Refuse, Build, Send
<1> QED
  BY <1>2, <1>3, <1>5, <1>6, <1>7 DEF Next

LEMMA LookupsAreSound == Spec => [](\A h \in Handles : Sound(h))
<1>1. Init => \A h \in Handles : Sound(h)
  BY GroupsAssumption DEF Init, Sound
<1>2. HandlesInv /\ (\A h \in Handles : Sound(h)) /\ [Next]_vars
        => (\A h \in Handles : Sound(h))'
  BY SoundStep
<1> QED
  BY <1>1, <1>2, HandlesInvCorrect, PTL DEF Spec

(* The function that runs for a handle is one the user gave for it in the  *)
(* groups that were mapped.                                                *)
THEOREM FoundAsMeant == Spec => []FoundAsGrouped
<1>1. (\A h \in Handles : Sound(h)) => FoundAsGrouped
  BY DEF Sound, FoundAsGrouped
<1> QED
  BY <1>1, LookupsAreSound, PTL

(* Of the handles the core is told of only the reserved one can be looked  *)
(* up in vain, and only if a group has taken its name.                     *)
THEOREM AnnouncedAreFound == Spec => []AnnouncedHandlesAreFound
<1>1. (\A h \in Handles : Sound(h)) => AnnouncedHandlesAreFound
  BY DEF Sound, AnnouncedHandlesAreFound
<1> QED
  BY <1>1, LookupsAreSound, PTL
=============================================================================

-------------------------- MODULE ExampleRunsProofs --------------------------
(***************************************************************************)
(* Theorems about ExampleRuns, for any number of threads and examples and  *)
(* every set of handler names.                                             *)
(***************************************************************************)
EXTENDS ExampleRuns, TLAPS

LEMMA IdFacts ==
  /\ Examples \subseteq CallIds /\ Examples \subseteq Configs
  /\ 0 \in CallIds /\ 0 \notin Examples /\ 0 \in Configs
  /\ EndCall \in CallIds /\ EndCall \notin Examples
  /\ \A n \in Configs : n < MaxExamples => n + 1 \in Examples
  /\ \A n \in Configs : 1 .. n \subseteq Examples
  /\ None \notin Examples
  BY BoundsAssumption, NamesAssumption DEF Examples, CallIds, Configs, EndCall

-----------------------------------------------------------------------------
(* Type correctness is inductive.                                          *)
LEMMA TypeInit == Init => TypeOK
<1> SUFFICES ASSUME Init PROVE TypeOK
  OBVIOUS
<1>1. examples \in Configs /\ config \in Configs
  BY IdFacts DEF Init
<1>2. provides \in [Configs -> SUBSET Handles] /\ met \in [Examples -> SUBSET Configs]
  BY DEF Init
<1> QED
  BY <1>1, <1>2 DEF Init, TypeOK, Rpc!Init

LEMMA CallType ==
  ASSUME TypeOK, NEW i \in CallIds, Rpc!Issue(i) \/ Rpc!Refuse(i) \/ Rpc!Return(i)
  PROVE  calls' \in [CallIds -> {"unused", "open", "error"} \cup Rpc!Verdicts]
  BY DEF TypeOK, Rpc!Issue, Rpc!Refuse, Rpc!Return, Rpc!Verdicts

LEMMA DecideType ==
  ASSUME TypeOK, NEW i \in CallIds, NEW v \in Rpc!Verdicts, Rpc!Decide(i, v)
  PROVE  verdict' \in [CallIds -> {"none"} \cup Rpc!Verdicts] /\ calls' = calls
  BY DEF TypeOK, Rpc!Decide, Rpc!Verdicts

(* A thread that asks or waits does so for an example it has begun; what   *)
(* reached the core was begun, and the core runs and decides only what     *)
(* reached it.                                                             *)
ExamplesAreKnown ==
  /\ \A u \in Users : user[u] \in {"asking", "waiting"} => at[u] \in 1 .. examples
  /\ reached \subseteq 1 .. examples
  /\ current # None => current \in reached /\ verdict[current] = "none"
  /\ \A e \in Examples : verdict[e] # "none" => e \in reached

(* An example the core may still ask for handlers of is the one whose      *)
(* configuration is set, or it was disturbed.                              *)
OthersAreDisturbed ==
  \A e \in Examples :
    /\ verdict[e] = "none"
    /\ e \in reached \/ \E u \in Users : user[u] = "asking" /\ at[u] = e
    => config = e \/ e \in disturbed

ExInv == TypeOK /\ ExamplesAreKnown /\ OthersAreDisturbed

(* What the core's contract says, in terms of current.                     *)
LEMMA CoreStartsFacts ==
  ASSUME NEW e \in Examples, CoreStarts(e)
  PROVE  /\ current' = e /\ e \in reached /\ verdict[e] = "none"
         /\ UNCHANGED <<userVars, configVars, closed, calls, verdict, reached, met, broken,
                         history>>
  BY DEF CoreStarts, Core!Start

LEMMA CoreDecidesFacts ==
  ASSUME NEW e \in Examples, NEW v \in Rpc!Verdicts, CoreDecides(e, v)
  PROVE  /\ current = e /\ current' = None
         /\ UNCHANGED <<userVars, configVars, closed, reached, met, broken, history>>
         /\ Rpc!Decide(e, v)
  BY DEF CoreDecides, Core!Decide, Running

LEMMA CoreRefusesFacts ==
  ASSUME NEW e \in Examples, CoreRefuses(e)
  PROVE  /\ current # e /\ current' = current /\ e \in reached
         /\ UNCHANGED <<userVars, configVars, closed, reached, met, broken, history>>
         /\ Rpc!Decide(e, "failure")
  BY IdFacts DEF CoreRefuses, Core!Refuse, Running

LEMMA TypeStep == TypeOK /\ ExamplesAreKnown /\ [Next]_vars => TypeOK'
<1> SUFFICES ASSUME TypeOK, ExamplesAreKnown, [Next]_vars PROVE TypeOK'
  OBVIOUS
<1> USE IdFacts
<1>1. ASSUME NEW u \in Users, UserStep(u)
      PROVE  TypeOK'
  <2>1. CASE Construct(u) \/ EndConstruct(u)
    <3>1. calls' \in [CallIds -> {"unused", "open", "error"} \cup Rpc!Verdicts]
      BY <2>1, CallType DEF Construct, EndConstruct
    <3>2. user' \in [Users -> {"idle", "beginning", "asking", "waiting", "ending"}]
      BY <2>1 DEF TypeOK, Construct, EndConstruct, Goes
    <3>3. provides' \in [Configs -> SUBSET Handles]
      BY <2>1 DEF TypeOK, Construct, EndConstruct, configVars, Handles
    <3>4. definer' \in {"new", "beginning", "ready", "unusable"}
      BY <2>1 DEF Construct, EndConstruct
    <3>5. UNCHANGED <<at, examples, outcome, config, closed, coreVars, history>>
      BY <2>1 DEF Construct, EndConstruct, configVars, coreVars, Rpc!Issue, Rpc!Return
    <3> QED
      BY <3>1, <3>2, <3>3, <3>4, <3>5 DEF TypeOK, coreVars, history
  <2>2. CASE RunMisconfigured(u)
    <3>1. examples + 1 \in Examples
      BY <2>2 DEF TypeOK, RunMisconfigured
    <3> QED
      BY <2>2, <3>1 DEF TypeOK, RunMisconfigured, configVars, coreVars, history
  <2>3. CASE Run(u)
    <3>1. examples + 1 \in Examples
      BY <2>3 DEF TypeOK, Run
    <3>2. user' \in [Users -> {"idle", "beginning", "asking", "waiting", "ending"}]
      BY <2>3 DEF TypeOK, Run, Goes
    <3>3. at' \in [Users -> Examples \cup {None}]
      BY <2>3, <3>1 DEF TypeOK, Run
    <3>4. provides' \in [Configs -> SUBSET Handles]
      BY <2>3, <3>1 DEF TypeOK, Run
    <3>5. examples' \in Configs /\ config' \in Configs
      BY <2>3, <3>1 DEF Run
    <3>6. disturbed' \subseteq Examples
      <4>1. Undecided \subseteq Examples
        BY DEF TypeOK, Undecided
      <4> QED
        BY <2>3, <4>1 DEF TypeOK, Run
    <3>7. UNCHANGED <<definer, outcome, closed, calls, coreVars, missed>>
      BY <2>3 DEF Run
    <3> QED
      BY <3>2, <3>3, <3>4, <3>5, <3>6, <3>7 DEF TypeOK, coreVars
  <2>4. CASE Ask(u) \/ AskRefused(u) \/ Returns(u)
    <3>1. at[u] \in Examples
      <4>1. user[u] \in {"asking", "waiting"}
        BY <2>4 DEF Ask, AskRefused, Returns, Goes
      <4> QED
        BY <4>1 DEF TypeOK, ExamplesAreKnown
    <3>2. calls' \in [CallIds -> {"unused", "open", "error"} \cup Rpc!Verdicts]
      BY <2>4, <3>1, CallType DEF Ask, AskRefused, Returns
    <3>3. user' \in [Users -> {"idle", "beginning", "asking", "waiting", "ending"}]
      BY <2>4 DEF TypeOK, Ask, AskRefused, Returns, Goes
    <3>4. outcome' \in [Examples -> {"none", "configuration", "thrown", "returned"}]
      BY <2>4, <3>1 DEF TypeOK, Ask, AskRefused, Returns
    <3>5. reached' \subseteq Examples
      BY <2>4, <3>1 DEF TypeOK, Ask, AskRefused, Returns
    <3>6. UNCHANGED <<definer, at, examples, configVars, closed, verdict, current, met,
                      broken, history>>
      BY <2>4 DEF Ask, AskRefused, Returns, Rpc!Issue, Rpc!Refuse, Rpc!Return
    <3> QED
      BY <3>2, <3>3, <3>4, <3>5, <3>6 DEF TypeOK, configVars, history
  <2>5. CASE EndRecord(u) \/ EndRefused(u) \/ EndReturns(u) \/ EndThrows(u)
    <3>1. calls' \in [CallIds -> {"unused", "open", "error"} \cup Rpc!Verdicts]
      BY <2>5, CallType DEF EndRecord, EndRefused, EndReturns, EndThrows
    <3>2. user' \in [Users -> {"idle", "beginning", "asking", "waiting", "ending"}]
      BY <2>5 DEF TypeOK, EndRecord, EndRefused, EndReturns, EndThrows, Goes, userVars
    <3>3. closed' \in BOOLEAN
      BY <2>5 DEF TypeOK, EndRecord, EndRefused, EndReturns, EndThrows
    <3>4. UNCHANGED <<definer, at, examples, outcome, configVars, coreVars, history>>
      BY <2>5 DEF EndRecord, EndRefused, EndReturns, EndThrows, userVars, coreVars,
         Rpc!Issue, Rpc!Refuse, Rpc!Return
    <3> QED
      BY <3>1, <3>2, <3>3, <3>4 DEF TypeOK, configVars, coreVars, history
  <2> QED
    BY <1>1, <2>1, <2>2, <2>3, <2>4, <2>5 DEF UserStep
<1>2. ASSUME NEW v \in Rpc!Verdicts, CoreBegins(v) \/ CoreEnds(v)
      PROVE  TypeOK'
  BY <1>2, DecideType DEF TypeOK, CoreBegins, CoreEnds, userVars, configVars, history
<1>3. ASSUME NEW e \in Examples, CoreStarts(e)
      PROVE  TypeOK'
  BY <1>3, CoreStartsFacts DEF TypeOK, userVars, configVars, history
<1>4. ASSUME NEW e \in Examples, NEW h \in Handles, CoreRequests(e, h)
      PROVE  TypeOK'
  <2>1. met' \in [Examples -> SUBSET Configs] /\ broken' \in BOOLEAN /\ missed' \in BOOLEAN
    <3>1. CASE h \in provides[config]
      BY <1>4, <3>1 DEF TypeOK, CoreRequests
    <3>2. CASE h \notin provides[config]
      BY <1>4, <3>2 DEF TypeOK, CoreRequests
    <3> QED
      BY <3>1, <3>2
  <2> QED
    BY <1>4, <2>1 DEF TypeOK, CoreRequests, userVars, configVars
<1>5. ASSUME NEW e \in Examples, NEW v \in Rpc!Verdicts, CoreDecides(e, v)
      PROVE  TypeOK'
  BY <1>5, CoreDecidesFacts, DecideType DEF TypeOK, userVars, configVars, history
<1>7. ASSUME NEW e \in Examples, CoreRefuses(e)
      PROVE  TypeOK'
  BY <1>7, CoreRefusesFacts, DecideType
  DEF TypeOK, userVars, configVars, history, Rpc!Verdicts
<1>6. CASE ConnectionBreaks \/ UNCHANGED vars
  BY <1>6 DEF TypeOK, ConnectionBreaks, vars, userVars, configVars, coreVars, history
<1> QED
  BY <1>1, <1>2, <1>3, <1>4, <1>5, <1>6, <1>7 DEF Next, CoreStep

-----------------------------------------------------------------------------
(* What the core decided it decided for good, and only for what it runs or *)
(* what has reached it.                                                    *)
LEMMA VerdictsAreKept ==
  ASSUME TypeOK, [Next]_vars
  PROVE  \A e \in Examples :
           \/ verdict'[e] = verdict[e]
           \/ verdict[e] = "none" /\ (current = e \/ e \in reached)
<1> USE IdFacts DEF TypeOK
<1>1. ASSUME NEW u \in Users, UserStep(u)
      PROVE  verdict' = verdict
  BY <1>1 DEF UserStep, Construct, EndConstruct, RunMisconfigured, Run, Ask, AskRefused, Returns,
     EndRecord, EndRefused, EndReturns, EndThrows, Rpc!Issue, Rpc!Refuse, Rpc!Return, coreVars
<1>2. ASSUME NEW v \in Rpc!Verdicts, CoreBegins(v) \/ CoreEnds(v)
      PROVE  \A e \in Examples : verdict'[e] = verdict[e]
  BY <1>2 DEF CoreBegins, CoreEnds, Rpc!Decide
<1>3. ASSUME NEW e \in Examples,
             CoreStarts(e) \/ \E h \in Handles : CoreRequests(e, h)
      PROVE  verdict' = verdict
  BY <1>3, CoreStartsFacts DEF CoreRequests
<1>4. ASSUME NEW e \in Examples, NEW v \in Rpc!Verdicts, CoreDecides(e, v)
      PROVE  /\ current = e /\ verdict[e] = "none"
             /\ \A f \in Examples \ {e} : verdict'[f] = verdict[f]
  BY <1>4, CoreDecidesFacts DEF Rpc!Decide
<1>6. ASSUME NEW e \in Examples, CoreRefuses(e)
      PROVE  /\ e \in reached /\ verdict[e] = "none"
             /\ \A f \in Examples \ {e} : verdict'[f] = verdict[f]
  BY <1>6, CoreRefusesFacts DEF Rpc!Decide
<1>5. CASE ConnectionBreaks \/ UNCHANGED vars
  BY <1>5 DEF ConnectionBreaks, vars, coreVars
<1> QED
  BY <1>1, <1>2, <1>3, <1>4, <1>5, <1>6 DEF Next, CoreStep

LEMMA KnownStep == TypeOK /\ ExamplesAreKnown /\ [Next]_vars => ExamplesAreKnown'
<1> SUFFICES ASSUME TypeOK, ExamplesAreKnown, [Next]_vars PROVE ExamplesAreKnown'
  OBVIOUS
<1> USE IdFacts DEF ExamplesAreKnown
<1>1. examples \in Nat
  BY BoundsAssumption DEF TypeOK, Configs
<1>2. ASSUME NEW u \in Users, RunMisconfigured(u) \/ Run(u)
      PROVE  ExamplesAreKnown'
  <2>1. UNCHANGED <<reached, current, verdict>> /\ examples' = examples + 1
    BY <1>2 DEF RunMisconfigured, Run, coreVars
  <2>2. \A w \in Users : user'[w] \in {"asking", "waiting"} => at'[w] \in 1 .. examples'
    BY <1>1, <1>2 DEF TypeOK, RunMisconfigured, Run, Goes
  <2> QED
    BY <1>1, <2>1, <2>2
<1>3. ASSUME NEW u \in Users, Ask(u)
      PROVE  ExamplesAreKnown'
  <2>1. UNCHANGED <<at, examples, current, verdict>> /\ reached' \subseteq reached \cup {at[u]}
        /\ reached \subseteq reached' /\ user[u] = "asking"
    BY <1>3 DEF Ask, Goes, Rpc!Issue
  <2>2. \A w \in Users : user'[w] \in {"asking", "waiting"} => user[w] \in {"asking", "waiting"}
    BY <1>3 DEF TypeOK, Ask, Goes
  <2> QED
    BY <2>1, <2>2
<1>4. ASSUME NEW u \in Users, UserStep(u), ~Ask(u), ~Run(u), ~RunMisconfigured(u)
      PROVE  ExamplesAreKnown'
  <2>1. UNCHANGED <<at, examples, current, verdict, reached>>
    BY <1>4 DEF UserStep, Construct, EndConstruct, AskRefused, Returns, EndRecord, EndRefused,
       EndReturns, EndThrows, Rpc!Issue, Rpc!Refuse, Rpc!Return, userVars
  <2>2. \A w \in Users : user'[w] \in {"asking", "waiting"} => user[w] \in {"asking", "waiting"}
    BY <1>4 DEF TypeOK, UserStep, Construct, EndConstruct, AskRefused, Returns, EndRecord,
       EndRefused, EndReturns, EndThrows, Goes, userVars
  <2> QED
    BY <2>1, <2>2
<1>5. ASSUME NEW e \in Examples, CoreStarts(e)
      PROVE  ExamplesAreKnown'
  BY <1>5, CoreStartsFacts DEF userVars
<1>6. ASSUME NEW e \in Examples, NEW v \in Rpc!Verdicts, CoreDecides(e, v)
      PROVE  ExamplesAreKnown'
  <2>1. UNCHANGED <<user, at, examples, reached>> /\ current = e /\ current' = None
    BY <1>6, CoreDecidesFacts DEF userVars
  <2> QED
    BY <1>6, <2>1, VerdictsAreKept
<1>10. ASSUME NEW e \in Examples, CoreRefuses(e)
       PROVE  ExamplesAreKnown'
  <2>1. UNCHANGED <<user, at, examples, reached, current>> /\ current # e /\ e \in reached
    BY <1>10, CoreRefusesFacts DEF userVars
  <2>2. \A f \in Examples : f # e => verdict'[f] = verdict[f]
    BY <1>10, CoreRefusesFacts DEF TypeOK, Rpc!Decide
  <2> QED
    BY <1>10, <2>1, <2>2 DEF TypeOK
<1>7. ASSUME NEW e \in Examples, NEW h \in Handles, CoreRequests(e, h)
      PROVE  ExamplesAreKnown'
  BY <1>7 DEF CoreRequests, userVars
<1>8. ASSUME NEW v \in Rpc!Verdicts, CoreBegins(v) \/ CoreEnds(v)
      PROVE  ExamplesAreKnown'
  <2>1. UNCHANGED <<user, at, examples, reached, current>>
    BY <1>8 DEF CoreBegins, CoreEnds, userVars
  <2>2. \A e \in Examples : verdict'[e] = verdict[e]
    BY <1>8 DEF TypeOK, CoreBegins, CoreEnds, Rpc!Decide
  <2> QED
    BY <2>1, <2>2 DEF TypeOK
<1>9. CASE ConnectionBreaks \/ UNCHANGED vars
  BY <1>9 DEF ConnectionBreaks, vars, userVars, coreVars
<1> QED
  BY <1>2, <1>3, <1>4, <1>5, <1>6, <1>7, <1>8, <1>9, <1>10 DEF Next, CoreStep

LEMMA DisturbedStep == ExInv /\ [Next]_vars => OthersAreDisturbed'
<1> SUFFICES ASSUME ExInv, [Next]_vars PROVE OthersAreDisturbed'
  OBVIOUS
<1> USE IdFacts DEF ExInv
<1>1. \A e \in Examples : verdict'[e] = "none" => verdict[e] = "none"
  BY VerdictsAreKept
<1>2. CASE /\ config' = config /\ disturbed' = disturbed /\ at' = at
           /\ \A e \in Examples : e \in reached' =>
                e \in reached \/ \E u \in Users : user[u] = "asking" /\ at[u] = e
           /\ \A u \in Users : user'[u] = "asking" => user[u] = "asking"
  BY <1>1, <1>2 DEF OthersAreDisturbed
<1>3. ASSUME NEW u \in Users, Run(u)
      PROVE  OthersAreDisturbed'
  <2>1. config' = examples + 1 /\ reached' = reached /\ disturbed' = disturbed \cup Undecided
    BY <1>3 DEF Run, coreVars
  <2>2. \A w \in Users : user'[w] = "asking" => at'[w] \in (1 .. examples) \cup {examples + 1}
    BY <1>3 DEF TypeOK, ExamplesAreKnown, Run, Goes
  <2>3. \A e \in Examples :
          verdict'[e] = "none" /\ e \in 1 .. examples => e \in disturbed'
    BY <1>1, <2>1 DEF Undecided
  <2> QED
    BY <2>1, <2>2, <2>3 DEF OthersAreDisturbed, ExamplesAreKnown
<1>4. ASSUME NEW u \in Users, Ask(u)
      PROVE  OthersAreDisturbed'
  <2>1. config' = config /\ disturbed' = disturbed /\ at' = at
    BY <1>4 DEF Ask, configVars, history
  <2>2. reached' \subseteq reached \cup {at[u]} /\ user[u] = "asking"
    BY <1>4 DEF Ask, Goes
  <2>3. \A w \in Users : user'[w] = "asking" => user[w] = "asking"
    BY <1>4 DEF TypeOK, Ask, Goes
  <2> QED
    BY <1>2, <2>1, <2>2, <2>3
<1>5. ASSUME NEW u \in Users, UserStep(u), ~Ask(u), ~Run(u)
      PROVE  OthersAreDisturbed'
  <2>1. UNCHANGED <<at, config, reached, disturbed>>
    BY <1>5 DEF UserStep, Construct, EndConstruct, RunMisconfigured, AskRefused, Returns,
       EndRecord, EndRefused, EndReturns, EndThrows, userVars, configVars, coreVars, history
  <2>2. \A w \in Users : user'[w] = "asking" => user[w] = "asking"
    BY <1>5 DEF TypeOK, UserStep, Construct, EndConstruct, RunMisconfigured, AskRefused, Returns,
       EndRecord, EndRefused, EndReturns, EndThrows, Goes, userVars
  <2> QED
    BY <1>2, <2>1, <2>2
<1>6. CASE CoreStep \/ UNCHANGED vars
  <2>1. UNCHANGED <<user, at, config, reached, disturbed>>
    BY <1>6 DEF CoreStep, CoreBegins, CoreEnds, CoreStarts, CoreRequests, CoreDecides, CoreRefuses,
       ConnectionBreaks, vars, userVars, configVars, coreVars, history
  <2> QED
    BY <1>2, <2>1
<1> QED
  BY <1>3, <1>4, <1>5, <1>6 DEF Next

(* The inductive invariant of a definer: what is with the core was begun,  *)
(* and it meets its own configuration or was disturbed.                    *)
THEOREM ExInvCorrect == Spec => []ExInv
<1>1. Init => ExInv
  <2> SUFFICES ASSUME Init PROVE ExInv
    OBVIOUS
  <2>1. TypeOK
    BY TypeInit
  <2>2. ExamplesAreKnown /\ OthersAreDisturbed
    BY IdFacts DEF Init, Rpc!Init, ExamplesAreKnown, OthersAreDisturbed
  <2> QED
    BY <2>1, <2>2 DEF ExInv
<1>2. ExInv /\ [Next]_vars => ExInv'
  BY TypeStep, KnownStep, DisturbedStep DEF ExInv
<1> QED
  BY <1>1, <1>2, PTL DEF Spec

(* Every variable keeps its type.                                          *)
THEOREM TypeCorrect == Spec => []TypeOK
<1>1. ExInv => TypeOK
  BY DEF ExInv
<1> QED
  BY <1>1, ExInvCorrect, PTL

(* Requests of the core meet the configuration of their own example unless *)
(* it was disturbed, whatever the threads that share the definer do.       *)
THEOREM HandlersAreOwn == Spec => []HandlersAreTheExamplesOwn
<1>1. Init => HandlersAreTheExamplesOwn
  BY DEF Init, HandlersAreTheExamplesOwn
<1>2. ExInv /\ HandlersAreTheExamplesOwn /\ [Next]_vars => HandlersAreTheExamplesOwn'
  <2> SUFFICES ASSUME ExInv, HandlersAreTheExamplesOwn, [Next]_vars,
                      NEW f \in Examples, f \notin disturbed'
               PROVE  met'[f] \subseteq {f}
    BY DEF HandlersAreTheExamplesOwn
  <2>1. ASSUME NEW e \in Examples, NEW h \in Handles, CoreRequests(e, h)
        PROVE  met'[f] \subseteq {f}
    <3>1. f \notin disturbed
      BY <2>1 DEF CoreRequests
    <3>2. met[f] \subseteq {f}
      BY <3>1 DEF HandlersAreTheExamplesOwn
    <3>3. current = e /\ e \in reached /\ verdict[e] = "none"
      BY <2>1, IdFacts DEF CoreRequests, ExInv, ExamplesAreKnown
    <3>4. e = f => config = f
      BY <3>1, <3>3 DEF ExInv, OthersAreDisturbed
    <3>5. met'[f] = met[f] \/ (e = f /\ met'[f] = met[f] \cup {config})
      BY <2>1 DEF CoreRequests, ExInv, TypeOK
    <3> QED
      BY <3>2, <3>4, <3>5
  <2>2. CASE met' = met
    <3>1. disturbed \subseteq disturbed'
      BY DEF Next, UserStep, Construct, EndConstruct, RunMisconfigured, Run, Ask, AskRefused,
         Returns, EndRecord, EndRefused, EndReturns, EndThrows, CoreStep, CoreBegins, CoreEnds,
         CoreStarts, CoreRequests, CoreDecides, CoreRefuses, ConnectionBreaks, vars, history
    <3> QED
      BY <2>2, <3>1 DEF HandlersAreTheExamplesOwn
  <2>3. CASE \E u \in Users : UserStep(u)
    <3>1. met' = met
      BY <2>3 DEF UserStep, Construct, EndConstruct, RunMisconfigured, Run, Ask, AskRefused,
         Returns, EndRecord, EndRefused, EndReturns, EndThrows, coreVars
    <3> QED
      BY <2>2, <3>1
  <2>4. CASE UNCHANGED vars
    BY <2>2, <2>4 DEF vars, coreVars
  <2>5. CASE CoreStep
    <3>1. met' = met \/ \E e \in Examples : \E h \in Handles : CoreRequests(e, h)
      BY <2>5 DEF CoreStep, CoreBegins, CoreEnds, CoreStarts, CoreDecides, CoreRefuses,
         ConnectionBreaks
    <3> QED
      BY <2>1, <2>2, <3>1
  <2> QED
    BY <2>3, <2>4, <2>5 DEF Next
<1> QED
  BY <1>1, <1>2, ExInvCorrect, PTL DEF Spec

(* A request finds no function only after an example was disturbed.        *)
THEOREM MissesAreDisturbances == Spec => []MissesNeedDisturbance
<1>1. Init => MissesNeedDisturbance
  BY DEF Init, MissesNeedDisturbance
<1>2. ExInv /\ MissesNeedDisturbance /\ [Next]_vars => MissesNeedDisturbance'
  <2> SUFFICES ASSUME ExInv, MissesNeedDisturbance, [Next]_vars PROVE MissesNeedDisturbance'
    OBVIOUS
  <2>1. disturbed \subseteq disturbed'
    BY DEF Next, UserStep, Construct, EndConstruct, RunMisconfigured, Run, Ask, AskRefused,
       Returns, EndRecord, EndRefused, EndReturns, EndThrows, CoreStep, CoreBegins, CoreEnds,
       CoreStarts, CoreRequests, CoreDecides, CoreRefuses, ConnectionBreaks, vars, history
  <2>2. ASSUME NEW e \in Examples, NEW h \in Handles, CoreRequests(e, h)
        PROVE  MissesNeedDisturbance'
    <3>1. e \in reached /\ verdict[e] = "none"
      BY <2>2, IdFacts DEF CoreRequests, ExInv, ExamplesAreKnown
    <3>2. config = e \/ e \in disturbed
      BY <3>1 DEF ExInv, OthersAreDisturbed
    <3>3. h \notin provides[config] => e \in disturbed
      BY <2>2, <3>2 DEF CoreRequests
    <3>4. missed' = missed \/ h \notin provides[config]
      BY <2>2 DEF CoreRequests
    <3> QED
      BY <2>1, <3>3, <3>4 DEF MissesNeedDisturbance
  <2>3. missed' = missed \/ \E e \in Examples : \E h \in Handles : CoreRequests(e, h)
    BY DEF Next, UserStep, Construct, EndConstruct, RunMisconfigured, Run, Ask, AskRefused,
       Returns, EndRecord, EndRefused, EndReturns, EndThrows, CoreStep, CoreBegins, CoreEnds,
       CoreStarts, CoreDecides, CoreRefuses, ConnectionBreaks, vars, history
  <2> QED
    BY <2>1, <2>2, <2>3 DEF MissesNeedDisturbance
<1> QED
  BY <1>1, <1>2, ExInvCorrect, PTL DEF Spec

(* runExample returns normally only for what the core called a success.    *)
THEOREM OnlySuccessesReturn == Spec => []ReturnsAreSuccesses
<1>1. Init => ReturnsAreSuccesses
  BY DEF Init, ReturnsAreSuccesses
<1>2. ExInv /\ ReturnsAreSuccesses /\ [Next]_vars => ReturnsAreSuccesses'
  <2> SUFFICES ASSUME ExInv, ReturnsAreSuccesses, [Next]_vars,
                      NEW e \in Examples, outcome'[e] = "returned"
               PROVE  verdict'[e] = "success" /\ e \in reached'
    BY DEF ReturnsAreSuccesses
  <2>1. ExamplesAreKnown' /\ (verdict[e] = "success" => verdict'[e] = "success")
    BY KnownStep, VerdictsAreKept DEF ExInv
  <2>2. CASE outcome[e] = "returned"
    BY <2>1, <2>2 DEF ReturnsAreSuccesses, ExamplesAreKnown
  <2>3. ASSUME NEW u \in Users, Returns(u), outcome[e] # "returned"
        PROVE  verdict[e] = "success"
    <3>1. at[u] \in Examples
      BY <2>3, IdFacts DEF ExInv, TypeOK, ExamplesAreKnown, Returns, Goes
    <3>2. at[u] = e /\ calls'[e] = "success"
      BY <2>3, <3>1 DEF ExInv, TypeOK, Returns
    <3>3. calls'[e] \in {verdict[e], "error"}
      BY <2>3, <3>1, <3>2, IdFacts DEF ExInv, TypeOK, Returns, Rpc!Return
    <3> QED
      BY <3>2, <3>3
  <2>4. outcome'[e] = outcome[e] \/ \E u \in Users : Returns(u)
    <3>1. ASSUME NEW u \in Users, UserStep(u), ~Returns(u)
          PROVE  outcome'[e] = outcome[e] \/ outcome'[e] # "returned"
      BY <3>1 DEF ExInv, TypeOK, UserStep, Construct, EndConstruct, RunMisconfigured, Run, Ask,
         AskRefused, EndRecord, EndRefused, EndReturns, EndThrows, userVars
    <3>2. CASE CoreStep \/ UNCHANGED vars
      BY <3>2 DEF CoreStep, CoreBegins, CoreEnds, CoreStarts, CoreRequests, CoreDecides,
         CoreRefuses, ConnectionBreaks, vars, userVars
    <3> QED
      BY <3>1, <3>2 DEF Next
  <2> QED
    BY <2>1, <2>2, <2>3, <2>4 DEF ExamplesAreKnown
<1> QED
  BY <1>1, <1>2, ExInvCorrect, PTL DEF Spec
=============================================================================

--------------------------- MODULE MCTriggerHandles ---------------------------
(* Small instances of TriggerHandles: names and keys that join to the same *)
(* handle in two ways, and to the reserved one; groups of one or two       *)
(* functions, which may share a key.                                       *)
EXTENDS TriggerHandles

CONSTANTS a, b, c, contractCase, triggerAndTest0

ReservedHandle == <<contractCase, triggerAndTest0>>
SomeNames == {<<a>>, <<a, b>>, <<contractCase>>}
SomeKeys == {<<c>>, <<b, c>>, <<triggerAndTest0>>}
SomeGroups ==
  {g \in [name: SomeNames, responses: SUBSET SomeKeys, errors: SUBSET SomeKeys] :
     Cardinality(g.responses) + Cardinality(g.errors) \in 1 .. 2}
=============================================================================

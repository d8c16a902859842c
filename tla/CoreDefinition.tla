--------------------------- MODULE CoreDefinition ---------------------------
(***************************************************************************)
(* A definer of the bundled core: what contractDefinition does for one     *)
(* stream of a wrapper, down to WritingCaseContract, which runs examples   *)
(* one at a time, records them and writes the contract.  Node runs one     *)
(* event at a time: an action is what one of them does, up to its awaits.  *)
(*                                                                         *)
(* An example's matchers may be named.  The contract has a table of names: *)
(* the definition of a name is saved there when it is met, and must not    *)
(* differ from the one that is there.                                      *)
(***************************************************************************)
EXTENDS Naturals, Sequences

CONSTANTS
  Examples,  \* the examples a wrapper asks for
  End,       \* names its call of endDefinition
  Names,     \* of matchers
  Children,  \* what a named matcher may stand for
  Falsy,     \* those of them that are false to an if of JavaScript
  Absent,    \* no child, no file
  Refers     \* external: a named matcher of an example without a child

(* What CoreServer, which instantiates this module, assumes.               *)
NamesDiffer ==
  /\ End \notin Examples
  /\ Falsy \subseteq Children
  /\ Absent \notin Children /\ Refers \notin Children /\ Absent # Refers

Calls == Examples \cup {End}
Mentions == Children \cup {Absent, Refers}

VARIABLES
  server,    \* "up", or "dead": the process, which serves all streams
  definer,   \* DEFINING_CONTRACTS of this stream
  place,     \* where each call is
  queue,     \* those waiting for WritingCaseContract.mutex
  recorded,  \* the result of each example in the contract
  answer,    \* the BoundaryResult of each call
  matched,   \* history: what each name stood for in a verified example
  lookup,    \* matcherLookup of the contract
  file       \* the examples of the contract that was written

own == <<definer, place, queue, recorded, answer, matched, lookup, file>>
vars == <<server, own>>

Init ==
  /\ server = "up"
  /\ definer = "none"
  /\ place = [c \in Calls |-> "unasked"]
  /\ queue = <<>>
  /\ recorded = [e \in Examples |-> "none"]
  /\ answer = [c \in Calls |-> "none"]
  /\ matched = [e \in Examples |-> [n \in Names |-> Absent]]
  /\ lookup = [n \in Names |-> Absent]
  /\ file = Absent

Goes(c, from, to) ==
  /\ server = "up" /\ UNCHANGED server
  /\ place[c] = from
  /\ place' = [place EXCEPT ![c] = to]

-----------------------------------------------------------------------------
(* The names: saveLookupableMatcher, addLookup, lookupMatcher.             *)

(* Mutant: a second definition of a name is taken without comparing it. *)
ClashesWhenMissing(n, mention) == mention = Refers /\ lookup[n] = Absent

(* A definition that is false to JavaScript is taken for none.             *)
Clashes(n, mention) ==
  \/ mention = Refers /\ lookup[n] = Absent
  \/ mention \in Children /\ lookup[n] \notin Falsy \cup {Absent, mention}

(* Mutant: a name without a child is saved like one with a child. *)
SaveNamesAny(says, clash) ==
  LET said == {n \in Names : says[n] # Absent /\ ~Clashes(n, says[n])}
  IN  \E saved \in SUBSET said :
        /\ ~clash => saved = said
        /\ lookup' = [n \in Names |-> IF n \in saved THEN says[n] ELSE lookup[n]]

(* nameMock saves each definition as it describes the matchers of an       *)
(* example that says what "says" says of the names, until one clashes.     *)
SaveNames(says, clash) ==
  LET said == {n \in Names : says[n] \in Children /\ ~Clashes(n, says[n])}
  IN  \E saved \in SUBSET said :
        /\ ~clash => saved = said
        /\ lookup' = [n \in Names |-> IF n \in saved THEN says[n] ELSE lookup[n]]

-----------------------------------------------------------------------------
(* Without a consumer or a provider name the definer is made and cannot    *)
(* initialise itself later.                                                *)
BeginDefinition ==
  /\ server = "up"
  /\ definer = "none"
  /\ definer' \in {"open", "misconfigured"}
  /\ UNCHANGED <<server, place, queue, recorded, answer, matched, lookup, file>>

RunExample(e) ==
  /\ definer = "open"
  /\ Goes(e, "unasked", "queued")
  /\ queue' = Append(queue, e)
  /\ UNCHANGED <<definer, recorded, answer, matched, lookup, file>>

Refuse(c) ==
  /\ definer \in {"misconfigured", "closed"}
  /\ Goes(c, "unasked", "ended")
  /\ answer' = [answer EXCEPT ![c] = "failure"]
  /\ definer' = IF c = End THEN "closed" ELSE definer
  /\ UNCHANGED <<queue, recorded, matched, lookup, file>>

(* Mutant: the task is run without the mutex. *)
NoMutex == TRUE

MutexIsFree == \A e \in Examples : place[e] # "running"

(* The mutex serves examples in the order they came, also those of a       *)
(* definer that was closed since.  A name that clashes ends the example at *)
(* once, and nothing is recorded.                                          *)
StartExample ==
  /\ queue # <<>>
  /\ MutexIsFree
  /\ queue' = Tail(queue)
  /\ \E says \in [Names -> Mentions] :
       LET e == Head(queue)
           clash == \E n \in Names : Clashes(n, says[n])
       IN  /\ SaveNames(says, clash)
           /\ \/ /\ clash
                 /\ Goes(e, "queued", "ended")
                 /\ answer' = [answer EXCEPT ![e] = "failure"]
                 /\ UNCHANGED matched
              \/ /\ ~clash
                 /\ Goes(e, "queued", "running")
                 /\ matched' = [matched EXCEPT ![e] =
                      [n \in Names |-> IF says[n] = Absent THEN Absent ELSE lookup'[n]]]
                 /\ UNCHANGED answer
  /\ UNCHANGED <<definer, recorded, file>>

ExamplePasses(e) ==
  /\ Goes(e, "running", "ended")
  /\ recorded' = [recorded EXCEPT ![e] = "VERIFIED"]
  /\ answer' = [answer EXCEPT ![e] = "success"]
  /\ UNCHANGED <<definer, queue, matched, lookup, file>>

Forgets(e) == matched' = [matched EXCEPT ![e] = [n \in Names |-> Absent]]

(* Mutant: what handleResult does not throw is not recorded either. *)
ExampleFailsUnrecorded(e) ==
  /\ Goes(e, "running", "ended")
  /\ \E a \in {"success", "failure"} :
       /\ answer' = [answer EXCEPT ![e] = a]
       /\ recorded' = [recorded EXCEPT ![e] = IF a = "success" THEN "none" ELSE "FAILED"]
  /\ Forgets(e)
  /\ UNCHANGED <<definer, queue, lookup, file>>

(* Without throwOnFail the failure is recorded and not answered.           *)
ExampleFails(e) ==
  /\ Goes(e, "running", "ended")
  /\ recorded' = [recorded EXCEPT ![e] = "FAILED"]
  /\ \E a \in {"success", "failure"} : answer' = [answer EXCEPT ![e] = a]
  /\ Forgets(e)
  /\ UNCHANGED <<definer, queue, lookup, file>>

(* A core error, or a mock that has the name of a different one, which     *)
(* recordExample refuses: nothing is recorded.                             *)
ExampleErrs(e) ==
  /\ Goes(e, "running", "ended")
  /\ answer' = [answer EXCEPT ![e] = "failure"]
  /\ Forgets(e)
  /\ UNCHANGED <<definer, queue, recorded, lookup, file>>

-----------------------------------------------------------------------------
(* endRecord, which does not wait for the mutex.                           *)

HasFailure == \E e \in Examples : recorded[e] = "FAILED"

EndFails ==
  /\ definer = "open"
  /\ Goes(End, "unasked", "ended")
  /\ answer' = [answer EXCEPT ![End] = "failure"]
  /\ definer' = "closed"
  /\ UNCHANGED <<queue, recorded, matched, lookup, file>>

EndWrites ==
  /\ definer = "open"
  /\ ~HasFailure
  /\ Goes(End, "unasked", "publishing")
  /\ file' = {e \in Examples : recorded[e] # "none"}
  /\ UNCHANGED <<definer, queue, recorded, answer, matched, lookup>>

(* The file stays also when the broker fails.                              *)
EndPublishes ==
  /\ Goes(End, "publishing", "ended")
  /\ \E a \in {"success", "failure"} : answer' = [answer EXCEPT ![End] = a]
  /\ definer' = "closed"
  /\ UNCHANGED <<queue, recorded, matched, lookup, file>>

-----------------------------------------------------------------------------
ExampleSteps ==
  \/ StartExample
  \/ \E e \in Examples : ExamplePasses(e) \/ ExampleFails(e) \/ ExampleErrs(e)

Next ==
  \/ BeginDefinition
  \/ \E e \in Examples : RunExample(e)
  \/ \E c \in Calls : Refuse(c)
  \/ ExampleSteps
  \/ EndFails \/ EndWrites \/ EndPublishes

Spec == Init /\ [][Next]_vars

-----------------------------------------------------------------------------
TypeOK ==
  /\ server \in {"up", "dead"}
  /\ definer \in {"none", "open", "misconfigured", "closed"}
  /\ place \in [Calls -> {"unasked", "queued", "running", "publishing", "ended"}]
  /\ queue \in Seq(Examples)
  /\ recorded \in [Examples -> {"none", "VERIFIED", "FAILED"}]
  /\ answer \in [Calls -> {"none", "success", "failure"}]
  /\ matched \in [Examples -> [Names -> Mentions]]
  /\ lookup \in [Names -> Children \cup {Absent}]
  /\ file \in {Absent} \cup SUBSET Examples

(* When the contract is written no example that has failed is known, with  *)
(* throwOnFail or without, and it holds exactly the examples that were     *)
(* answered with success: endRecord looks at the record, the user at the   *)
(* answers.  Examples that are still running are not in it.                *)
ContractIsWhatSucceeded ==
  [][file' # file =>
       /\ file' = {e \in Examples : answer[e] = "success"}
       /\ \A e \in Examples : recorded[e] # "FAILED"]_vars

(* A name still stands for what it stood for when an example was verified, *)
(* whatever other examples said of it: the contract, which keeps one table *)
(* for all, means what was verified.  Only a definition that is false to   *)
(* JavaScript may be replaced behind an example's back.                    *)
NamesKeepTheirMeaning ==
  \A e \in Examples, n \in Names :
    recorded[e] = "VERIFIED" => matched[e][n] \in {Absent, lookup[n]} \cup Falsy
=============================================================================

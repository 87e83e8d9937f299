---------------------------- MODULE DesignerSession ----------------------------
(***************************************************************************)
(* One designer session: the agent loop around the model with the two       *)
(* middlewares of the designer.  AgentNetworkDefinitionMiddleware resolves  *)
(* the network definition before every model call, and                      *)
(* AgentNetworkPersistenceMiddleware validates and saves it after the agent *)
(* has finished, or sends it back to the model.                             *)
(*                                                                         *)
(* The model may call two agents on the network, in parallel: the editor    *)
(* and the instructions editor, which have a validation middleware of their *)
(* own behind their turn.                                                   *)
(*                                                                         *)
(* The session's middlewares live for many turns; each turn brings new      *)
(* sly_data from the client.  The validators, the models and their tools    *)
(* are nondeterministic.                                                    *)
(***************************************************************************)
EXTENDS Naturals

CONSTANTS
  MaxAttempts,  \* AGENT_NETWORK_DESIGNER_MAX_VALIDATION_ATTEMPTS
  Connectivity, \* AGENT_NETWORK_DESIGNER_PROGRESS_STYLE is "connectivity"
  MaxSteps      \* rounds an editor's turn may take (the limit of its agent loop)

ASSUME DesignerSessionAssumption ==
  MaxAttempts \in Nat /\ Connectivity \in BOOLEAN /\ MaxSteps \in Nat

VARIABLES
  sly,       \* the entries of sly_data the middlewares use
  attempts,  \* _validation_attempts of the persistence middleware
  pc,        \* where the agent loop is
  load,      \* whether loading failed in this turn (error_message)
  rounds,    \* validation rounds that failed in this turn and were retried
  outcome,   \* how the last turn ended
  at,        \* where the agent loop of each editor is
  steps,     \* rounds of each editor's loop in its turn
  text,      \* which network agent_network_hocon_text holds
  reserved,  \* which network agent_reservations names
  persistor  \* what AgentNetworkPersistorFactory makes

vars == <<sly, attempts, pc, load, rounds, outcome, at, steps, text, reserved, persistor>>

editors == <<at, steps>>

saves == <<text, reserved, persistor>>

\* agent_network_editor and agent_network_instructions_editor, and the validators of each.
Editors == {"structure", "instructions"}

(***************************************************************************)
(* def: the network definition is absent (or empty), a dict, or a           *)
(* connectivity list; faults: which validators would report errors.         *)
(* name: absent or "", a string, or of another type.  hocon, reservation:   *)
(* not given, or what loading it yields.  skip: skip_designer.              *)
(***************************************************************************)
Form == {"none", "dict", "list"}

Name == {"none", "string", "other"}

Source == {"none", "network", "empty", "error"}

SlyData ==
  [def : Form, faults : SUBSET Editors, name : Name, hocon : Source, reservation : Source,
   skip : BOOLEAN]

\* validate() of the two validation middlewares.
HasStructureErrors(s) == "structure" \in s.faults

HasInstructionsErrors(s) == "instructions" \in s.faults

Valid(s) == ~HasStructureErrors(s) /\ ~HasInstructionsErrors(s)

Outcome == {"saved", "gave up", "answered", "raised", "not loaded"}

Persistors == {"file", "reservations", "null"}

TypeOK ==
  /\ sly \in SlyData
  /\ attempts \in 0..MaxAttempts
  /\ pc \in {"client", "before", "model", "editors", "after"}
  /\ load \in {"ok", "failed"}
  /\ rounds \in 0..MaxAttempts
  /\ outcome \in Outcome
  /\ at \in [Editors -> {"idle", "before", "model", "after"}]
  /\ steps \in [Editors -> 0..MaxSteps]
  /\ text \in {"old", "new"} /\ reserved \in {"old", "new"}
  /\ persistor \in Persistors

HasDefinition(s) == s.def # "none"

-------------------------------------------------------------------------------
(***************************************************************************)
(* Every sly_data, less what nobody reads: the sources behind the one that  *)
(* is used, and the faults of a network that is not there.                  *)
(***************************************************************************)
ClientData ==
  {s \in SlyData :
     /\ HasDefinition(s) => s.hocon = "none"
     /\ HasDefinition(s) \/ s.hocon # "none" => s.reservation = "none"
     /\ HasDefinition(s) \/ s.faults = {}}

(***************************************************************************)
(* The client starts a turn with any sly_data, for instance what the last   *)
(* turn left.                                                               *)
(***************************************************************************)
StartTurn ==
  /\ pc = "client"
  /\ sly' \in ClientData
  /\ pc' = "before"
  /\ load' = "ok"
  /\ rounds' = 0
  /\ text' = "old" /\ reserved' = "old"
  /\ UNCHANGED <<attempts, outcome, editors, persistor>>

(***************************************************************************)
(* _resolve_network_def: from sly_data, else from the HOCON file, else from *)
(* the S3 reservation.  A loaded network gives its name; a reservation that *)
(* was fetched does so even if it turns out to hold no agents, or no list.  *)
(***************************************************************************)
Named(s) == [s EXCEPT !.name = "string"]

Loaded(s) ==
  {[s EXCEPT !.def = "dict", !.name = "string", !.faults = f] : f \in SUBSET Editors}

Resolved(s) ==
  IF HasDefinition(s) THEN {s}
  ELSE IF s.hocon # "none" THEN IF s.hocon = "network" THEN Loaded(s) ELSE {s}
  ELSE [none |-> {s}, network |-> Loaded(s), empty |-> {Named(s)}, error |-> {s, Named(s)}]
         [s.reservation]

LoadFails(s) ==
  /\ ~HasDefinition(s)
  /\ s.hocon = "error" \/ (s.hocon = "none" /\ s.reservation = "error")

(***************************************************************************)
(* What abefore_model reports instead of calling the model.                 *)
(***************************************************************************)
Refused(s) ==
  \/ LoadFails(s)
  \/ s.name = "other"
  \/ HasDefinition(s) /\ s.name = "none"

(***************************************************************************)
(* Mutant: the converted definition is not put back into sly_data.          *)
(***************************************************************************)
NotCached(s) == s

(***************************************************************************)
(* _normalize_network_def: a connectivity list becomes a dict, in sly_data. *)
(***************************************************************************)
Normalized(s) == IF HasDefinition(s) THEN [s EXCEPT !.def = "dict"] ELSE s

(***************************************************************************)
(* abefore_model.  Jumping to the end still runs the after-agent hooks.     *)
(***************************************************************************)
BeforeModel ==
  /\ pc = "before"
  /\ \E s \in Resolved(sly) :
       IF Refused(s)
       THEN /\ sly' = [s EXCEPT !.def = sly.def]
            /\ load' = "failed"
            /\ pc' = "after"
       ELSE /\ sly' = Normalized(s)
            /\ load' = "ok"
            /\ pc' = IF HasDefinition(s) /\ s.skip THEN "after" ELSE "model"
  /\ UNCHANGED <<attempts, rounds, outcome, editors, saves>>

(***************************************************************************)
(* An error of boto3 that _resolve_network_def_from_s3 does not expect, as  *)
(* a connection that times out, leaves the hook and ends the turn.          *)
(***************************************************************************)
FetchRaises ==
  /\ pc = "before"
  /\ ~HasDefinition(sly) /\ sly.hocon = "none" /\ sly.reservation # "none"
  /\ pc' = "client" /\ outcome' = "not loaded"
  /\ UNCHANGED <<sly, attempts, load, rounds, editors, saves>>

(***************************************************************************)
(* The model calls tools, which may create or edit the network; the next    *)
(* model call follows.  A network is created together with its name.        *)
(***************************************************************************)
CallTools ==
  /\ pc = "model"
  /\ \/ UNCHANGED sly
     \/ sly' \in Loaded(sly)
  /\ pc' = "before"
  /\ UNCHANGED <<attempts, load, rounds, outcome, editors, saves>>

(***************************************************************************)
(* The model hands the network to one editor, or to both at once.           *)
(***************************************************************************)
CallEditors ==
  /\ pc = "model"
  /\ \E called \in (SUBSET Editors) \ {{}} :
       at' = [e \in Editors |-> IF e \in called THEN "before" ELSE at[e]]
  /\ steps' = [e \in Editors |-> 0]
  /\ pc' = "editors"
  /\ UNCHANGED <<sly, attempts, load, rounds, outcome, saves>>

(***************************************************************************)
(* What an editor's tools do to the network: the editor creates and changes *)
(* it, the instructions editor writes instructions and descriptions.        *)
(***************************************************************************)
Edited(e, s) ==
  IF e = "structure" THEN Loaded(s)
  ELSE IF HasDefinition(s)
       THEN {[s EXCEPT !.faults = f] : f \in {s.faults \ {e}, s.faults \cup {e}}}
       ELSE {}

(***************************************************************************)
(* abefore_model of the editor's own definition middleware.  The network is *)
(* a named dict here, if there is one; skip_designer, where it is handed    *)
(* down, skips the editor's model too.                                      *)
(***************************************************************************)
EditorBefore(e) ==
  /\ at[e] = "before"
  /\ steps[e] < MaxSteps
  /\ steps' = [steps EXCEPT ![e] = steps[e] + 1]
  /\ \/ at' = [at EXCEPT ![e] = "model"]
     \/ HasDefinition(sly) /\ sly.skip /\ at' = [at EXCEPT ![e] = "after"]
  /\ UNCHANGED <<sly, pc>>

\* A model call of an editor: it changes the network, or its turn is over.
EditorModel(e) ==
  /\ at[e] = "model"
  /\ \/ sly' \in Edited(e, sly) /\ at' = [at EXCEPT ![e] = "before"]
     \/ UNCHANGED sly /\ at' = [at EXCEPT ![e] = "after"]
  /\ UNCHANGED <<steps, pc>>

\* An editor is done; the last one goes back to the designer's model.
EditorReturns(e) ==
  /\ at' = [at EXCEPT ![e] = "idle"]
  /\ pc' = IF \A f \in Editors \ {e} : at[f] = "idle" THEN "before" ELSE pc
  /\ UNCHANGED <<sly, steps>>

Accepts(e, s) == IF e = "structure" THEN ~HasStructureErrors(s) ELSE ~HasInstructionsErrors(s)

(***************************************************************************)
(* aafter_agent of an editor's validation middleware: back to the editor's  *)
(* model as long as there is no network, or one with errors.                *)
(***************************************************************************)
EditorHook(e) ==
  /\ at[e] = "after"
  /\ IF HasDefinition(sly) /\ Accepts(e, sly)
     THEN EditorReturns(e)
     ELSE /\ at' = [at EXCEPT ![e] = "before"]
          /\ UNCHANGED <<sly, steps, pc>>

\* The limit of the agent loop: the designer's model gets an error for a result.
EditorLimit(e) == at[e] = "before" /\ steps[e] = MaxSteps /\ EditorReturns(e)

EditorStep ==
  /\ pc = "editors"
  /\ \E e \in Editors : EditorBefore(e) \/ EditorModel(e) \/ EditorHook(e) \/ EditorLimit(e)
  /\ UNCHANGED <<attempts, load, rounds, outcome, saves>>

Answer ==
  /\ pc = "model"
  /\ pc' = "after"
  /\ UNCHANGED <<sly, attempts, load, rounds, outcome, editors, saves>>

EndTurn(result) == pc' = "client" /\ outcome' = result

-------------------------------------------------------------------------------
(***************************************************************************)
(* Mutant: any name will do.                                                *)
(***************************************************************************)
AnyName(s) == HasDefinition(s) /\ s.name # "none"

(***************************************************************************)
(* aafter_agent of the persistence middleware validates a definition that   *)
(* has a proper name, and leaves the answer alone otherwise.                *)
(***************************************************************************)
ToValidate(s) == HasDefinition(s) /\ s.name = "string"

NothingToSave ==
  /\ pc = "after"
  /\ ~ToValidate(sly)
  /\ EndTurn("answered")
  /\ UNCHANGED <<sly, attempts, load, rounds, editors, saves>>

(***************************************************************************)
(* Mutants: skip_designer is left on; the round is not counted.             *)
(***************************************************************************)
RetryStillSkipping ==
  /\ pc = "after"
  /\ ToValidate(sly) /\ ~Valid(sly)
  /\ attempts < MaxAttempts
  /\ attempts' = attempts + 1
  /\ rounds' = rounds + 1
  /\ pc' = "before"
  /\ UNCHANGED <<sly, load, outcome, editors, saves>>

RetryUncounted ==
  /\ pc = "after"
  /\ ToValidate(sly) /\ ~Valid(sly)
  /\ attempts < MaxAttempts
  /\ sly' = [sly EXCEPT !.skip = FALSE]
  /\ pc' = "before"
  /\ UNCHANGED <<attempts, rounds, load, outcome, editors, saves>>

(***************************************************************************)
(* _error_response: back to the model, and no more skipping it.             *)
(***************************************************************************)
Retry ==
  /\ pc = "after"
  /\ ToValidate(sly) /\ ~Valid(sly)
  /\ attempts < MaxAttempts
  /\ attempts' = attempts + 1
  /\ rounds' = rounds + 1
  /\ sly' = [sly EXCEPT !.skip = FALSE]
  /\ pc' = "before"
  /\ UNCHANGED <<load, outcome, editors, saves>>

GiveUp ==
  /\ pc = "after"
  /\ ToValidate(sly) /\ ~Valid(sly)
  /\ attempts >= MaxAttempts
  /\ EndTurn("gave up")
  /\ UNCHANGED <<sly, attempts, load, rounds, editors, saves>>

\* The null persistor has no assembler, and one is asked for before it may do nothing.
HasAssembler(p) == p # "null"

(***************************************************************************)
(* async_persist for reservations: a reservation, or the message of one     *)
(* that was refused, which is dropped.                                      *)
(***************************************************************************)
Reserve == reserved' \in {reserved, "new"}

(***************************************************************************)
(* async_persist of the persistor the factory made, or what raises in it or *)
(* on the way to it.                                                        *)
(***************************************************************************)
Persist(result) ==
  \/ result = "raised" /\ UNCHANGED reserved
  \/ result = "saved" /\ persistor = "file" /\ UNCHANGED reserved
  \/ result = "saved" /\ persistor # "file" /\ HasAssembler(persistor) /\ Reserve

(***************************************************************************)
(* Mutant: the text is put into sly_data only where it was persisted.       *)
(***************************************************************************)
TextOfFiles(result) ==
  \/ result = "raised" /\ UNCHANGED <<text, reserved>>
  \/ text' = (IF persistor = "file" THEN "new" ELSE text) /\ Persist(result)

(***************************************************************************)
(* _assemble_and_persist: the HOCON text is assembled and goes to sly_data  *)
(* before anything is persisted.                                            *)
(***************************************************************************)
AssembleAndPersist(result) ==
  \/ result = "raised" /\ UNCHANGED <<text, reserved>>
  \/ text' = "new" /\ Persist(result)

\* _determine_exported_network_definition: the form the client wants.
Exported(s) == IF Connectivity THEN [s EXCEPT !.def = "list"] ELSE s

(***************************************************************************)
(* Mutant: the counter is reset only when saving went well.                 *)
(***************************************************************************)
SaveThenReset ==
  /\ pc = "after"
  /\ ToValidate(sly) /\ Valid(sly)
  /\ \E result \in {"saved", "raised"} :
       /\ AssembleAndPersist(result)
       /\ attempts' = IF result = "saved" THEN 0 ELSE attempts
       /\ sly' = IF result = "saved" THEN Exported(sly) ELSE sly
       /\ EndTurn(result)
  /\ UNCHANGED <<load, rounds, editors, persistor>>

(***************************************************************************)
(* The definition is assembled, saved and exported; or saving raises, and   *)
(* the export is not reached.                                               *)
(***************************************************************************)
Save ==
  /\ pc = "after"
  /\ ToValidate(sly) /\ Valid(sly)
  /\ attempts' = 0
  /\ \E result \in {"saved", "raised"} :
       /\ AssembleAndPersist(result)
       /\ sly' = IF result = "saved" THEN Exported(sly) ELSE sly
       /\ EndTurn(result)
  /\ UNCHANGED <<load, rounds, editors, persistor>>

Init ==
  /\ sly = [def |-> "none", faults |-> {}, name |-> "none",
            hocon |-> "none", reservation |-> "none", skip |-> FALSE]
  /\ attempts = 0
  /\ pc = "client"
  /\ load = "ok"
  /\ rounds = 0
  /\ outcome = "answered"
  /\ at = [e \in Editors |-> "idle"]
  /\ steps = [e \in Editors |-> 0]
  /\ text = "old" /\ reserved = "old"
  /\ persistor \in Persistors

AfterAgent == NothingToSave \/ Retry \/ GiveUp \/ Save

Next ==
  \/ StartTurn \/ BeforeModel \/ FetchRaises \/ CallTools \/ CallEditors \/ EditorStep \/ Answer
  \/ AfterAgent

(***************************************************************************)
(* The hooks run to their end, and a model that can answer at any time does *)
(* so in the end (the agent loop limits its steps).  An editor's turn is    *)
(* ended by that limit only, so it is part of the model.                    *)
(***************************************************************************)
Spec ==
  /\ Init /\ [][Next]_vars
  /\ WF_vars(BeforeModel) /\ WF_vars(EditorStep) /\ WF_vars(AfterAgent)
  /\ SF_vars(Answer)

-------------------------------------------------------------------------------
(***************************************************************************)
(* The validators are never given a connectivity list, whatever path led to *)
(* them ("Without this, a connectivity-list definition would reach the      *)
(* persistence middleware as a list and crash validators").                 *)
(***************************************************************************)
ValidatorSeesDict == pc = "after" /\ ToValidate(sly) => sly.def = "dict"

(***************************************************************************)
(* A turn in which loading failed ends with the error: the hook after the   *)
(* agent neither saves anything nor sends the agent back.                   *)
(***************************************************************************)
ErrorIsFinal == [][pc = "after" /\ load = "failed" => pc' = "client" /\ outcome' = "answered"]_vars

(***************************************************************************)
(* A network that failed validation is seen by the model next, also when    *)
(* the client asked to skip it: the retry does not run in circles past the  *)
(* model.                                                                   *)
(***************************************************************************)
RetryReachesModel == [][pc = "before" /\ rounds > 0 => pc' = "model"]_vars

(***************************************************************************)
(* Every turn ends, even if the model never gets the network right.         *)
(***************************************************************************)
TurnEnds == pc # "client" ~> pc = "client"

\* The step that ends the turn because the retries are used up.
GivesUp == pc = "after" /\ pc' = "client" /\ outcome' = "gave up"

(***************************************************************************)
(* "Reset the counter so a later turn in the same session (e.g., a          *)
(* follow-up modification) gets its own full retry budget": a turn that     *)
(* follows a validated one gives up only after MaxAttempts rounds of its    *)
(* own, even if saving the validated network raised.                        *)
(***************************************************************************)
BudgetAfterSave == [][GivesUp /\ outcome \in {"saved", "raised"} => rounds = MaxAttempts]_vars

(***************************************************************************)
(* "HOCON content is always assembled first and stored in sly_data for      *)
(* client consumption": whatever persistor is at work, and however it       *)
(* fails, the client has the text of every network that was saved or        *)
(* reserved for it.                                                         *)
(***************************************************************************)
SavedHasText == pc = "client" /\ (outcome = "saved" \/ reserved = "new") => text = "new"

(***************************************************************************)
(* A session that was saved for reservations has one.  It does not hold:    *)
(* the message of a reservation that was refused is dropped.                *)
(***************************************************************************)
SavedIsReserved ==
  pc = "client" /\ outcome = "saved" /\ persistor = "reservations" => reserved = "new"

(***************************************************************************)
(* The same for any later turn.  It does not hold: a turn that gave up      *)
(* leaves the counter at its limit.                                         *)
(***************************************************************************)
FullRetryBudget == [][GivesUp => rounds = MaxAttempts]_vars
===============================================================================

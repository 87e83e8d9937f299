------------------------ MODULE DesignerSession_proofs ------------------------
(***************************************************************************)
(* What holds of the designer's agent loop for every limit on the retries   *)
(* and both progress styles.                                                *)
(***************************************************************************)
EXTENDS DesignerSession, TLAPS

(***************************************************************************)
(* The invariant behind the theorems:       every definition that is past   *)
(* abefore_model is a dict; a turn whose loading failed has nothing the     *)
(* persistence hook would take; and what a retry left can be neither        *)
(* refused nor skipped.                                                     *)
(***************************************************************************)
Converted ==
  pc \in {"model", "editors", "after"} /\ ToValidate(sly) => sly.def = "dict"

NothingLoaded ==
  load = "failed" /\ pc \in {"model", "editors", "after"} => pc = "after" /\ ~ToValidate(sly)

Retried ==
  rounds > 0 /\ pc \in {"before", "model", "editors"} => ToValidate(sly) /\ ~sly.skip

RetriesCounted == pc # "client" => rounds <= attempts

SessionInv ==
  TypeOK /\ Converted /\ NothingLoaded /\ Retried /\ RetriesCounted

(***************************************************************************)
(* A loaded network is a dict with a name, and skip_designer is untouched.  *)
(***************************************************************************)
LEMMA LoadedTypes ==
  ASSUME NEW s \in SlyData, NEW r \in Loaded(s)
  PROVE  r \in SlyData /\ r.def = "dict" /\ r.name = "string" /\ r.skip = s.skip
<1>1. PICK f \in SUBSET Editors : r = [s EXCEPT !.def = "dict", !.name = "string", !.faults = f]
  BY DEF Loaded
<1> QED
  BY <1>1 DEF SlyData, Form, Name

(***************************************************************************)
(* Resolving yields sly_data again, and leaves alone what has a definition. *)
(***************************************************************************)
LEMMA ResolvedTypes ==
  ASSUME NEW s \in SlyData, NEW r \in Resolved(s)
  PROVE  /\ r \in SlyData
         /\ HasDefinition(s) => r = s
         /\ r.skip = s.skip
<1>1. CASE HasDefinition(s)
  BY <1>1 DEF Resolved
<1>2. CASE ~HasDefinition(s)
  <2>1. \A t \in Loaded(s) \cup {Named(s)} : t \in SlyData /\ t.skip = s.skip
    BY LoadedTypes DEF Named, SlyData, Form, Name
  <2>2. r \in Loaded(s) \cup {Named(s), s}
    BY <1>2 DEF Resolved, SlyData, Source
  <2> QED
    BY <1>2, <2>1, <2>2
<1> QED
  BY <1>1, <1>2

(***************************************************************************)
(* What an editor makes of sly_data: the same data with another network, or *)
(* the named dict it had with other instructions.                           *)
(***************************************************************************)
LEMMA EditedTypes ==
  ASSUME NEW s \in SlyData, NEW e \in Editors, NEW r \in Edited(e, s)
  PROVE  /\ r \in SlyData
         /\ r.skip = s.skip
         /\ ToValidate(s) => ToValidate(r)
         /\ s.def = "dict" => r.def = "dict"
         /\ ToValidate(r) => r.def = "dict" \/ r.def = s.def
         /\ ToValidate(r) /\ ~ToValidate(s) => r.def = "dict"
<1>1. CASE e = "structure"
  BY <1>1, LoadedTypes DEF Edited, ToValidate, HasDefinition
<1>2. CASE e # "structure"
  <2>1. HasDefinition(s)
    BY <1>2 DEF Edited
  <2>2. PICK f \in {s.faults \ {e}, s.faults \cup {e}} : r = [s EXCEPT !.faults = f]
    BY <1>2, <2>1 DEF Edited
  <2>3. f \in SUBSET Editors
    BY DEF SlyData
  <2> QED
    BY <2>1, <2>2, <2>3 DEF SlyData, ToValidate, HasDefinition
<1> QED
  BY <1>1, <1>2

(***************************************************************************)
(* A step of an editor keeps the editors well typed, edits sly_data or      *)
(* leaves it alone, and goes back to the designer's model at most.          *)
(***************************************************************************)
LEMMA EditorTypes ==
  ASSUME TypeOK, EditorStep
  PROVE  /\ at' \in [Editors -> {"idle", "before", "model", "after"}]
         /\ steps' \in [Editors -> 0..MaxSteps]
         /\ sly' = sly \/ \E e \in Editors : sly' \in Edited(e, sly)
         /\ pc = "editors" /\ pc' \in {"editors", "before"}
         /\ UNCHANGED <<attempts, load, rounds, outcome, saves>>
<1> USE DesignerSessionAssumption DEF DesignerSessionAssumption
<1>0. /\ at \in [Editors -> {"idle", "before", "model", "after"}]
      /\ steps \in [Editors -> 0..MaxSteps]
  BY DEF TypeOK
<1>1. pc = "editors" /\ UNCHANGED <<attempts, load, rounds, outcome, saves>>
  BY DEF EditorStep
<1>2. PICK e \in Editors : EditorBefore(e) \/ EditorModel(e) \/ EditorHook(e) \/ EditorLimit(e)
  BY DEF EditorStep
<1>6. CASE EditorBefore(e)
  BY <1>0, <1>1, <1>2, <1>6 DEF EditorBefore
<1>3. CASE EditorModel(e)
  BY <1>0, <1>1, <1>2, <1>3 DEF EditorModel
<1>4. CASE EditorHook(e)
  BY <1>0, <1>1, <1>2, <1>4 DEF EditorHook, EditorReturns
<1>5. CASE EditorLimit(e)
  BY <1>0, <1>1, <1>2, <1>5 DEF EditorLimit, EditorReturns
<1> QED
  BY <1>1, <1>2, <1>3, <1>4, <1>5, <1>6

(***************************************************************************)
(* Normalising keeps sly_data well typed and turns a list into a dict.      *)
(***************************************************************************)
LEMMA NormalizedTypes ==
  ASSUME NEW s \in SlyData
  PROVE  /\ Normalized(s) \in SlyData
         /\ HasDefinition(s) => Normalized(s).def = "dict"
         /\ HasDefinition(Normalized(s)) <=> HasDefinition(s)
         /\ Normalized(s).name = s.name
         /\ Normalized(s).skip = s.skip
BY DEF Normalized, SlyData, Form, HasDefinition

(***************************************************************************)
(* The invariant holds in the initial state.                                *)
(***************************************************************************)
LEMMA SessionInit == Init => SessionInv
BY DesignerSessionAssumption
   DEF DesignerSessionAssumption, Init, SessionInv, Editors, TypeOK, Converted, NothingLoaded,
       Retried,
       RetriesCounted, SlyData, Form, Source, Name, Outcome, ToValidate, HasDefinition

(***************************************************************************)
(* Every step keeps the invariant: resolving establishes it, and the tools  *)
(* and the retry leave a named dict.                                        *)
(***************************************************************************)
LEMMA SessionNext == SessionInv /\ [Next]_vars => SessionInv'
<1> SUFFICES ASSUME SessionInv, [Next]_vars PROVE SessionInv'
  OBVIOUS
<1> USE DesignerSessionAssumption DEF DesignerSessionAssumption, SessionInv, RetriesCounted
<1>0. /\ sly \in SlyData /\ attempts \in 0..MaxAttempts /\ load \in {"ok", "failed"}
      /\ rounds \in 0..MaxAttempts /\ outcome \in Outcome
      /\ pc \in {"client", "before", "model", "editors", "after"}
      /\ at \in [Editors -> {"idle", "before", "model", "after"}]
      /\ steps \in [Editors -> 0..MaxSteps]
      /\ text \in {"old", "new"} /\ reserved \in {"old", "new"} /\ persistor \in Persistors
  BY DEF TypeOK
<1>1. CASE StartTurn
  <2>1. TypeOK'
    BY <1>0, <1>1 DEF StartTurn, TypeOK, ClientData, editors
  <2>2. Converted' /\ NothingLoaded'
    BY <1>0, <1>1 DEF StartTurn, Converted, NothingLoaded, ToValidate, HasDefinition
  <2>3. Retried' /\ RetriesCounted'
    BY <1>0, <1>1 DEF StartTurn, Retried, RetriesCounted
  <2> QED
    BY <2>1, <2>2, <2>3
<1>2. CASE BeforeModel
  <2>1. PICK s \in Resolved(sly) :
          IF Refused(s)
          THEN /\ sly' = [s EXCEPT !.def = sly.def]
               /\ load' = "failed"
               /\ pc' = "after"
          ELSE /\ sly' = Normalized(s)
               /\ load' = "ok"
               /\ pc' = IF HasDefinition(s) /\ s.skip THEN "after" ELSE "model"
    BY <1>2 DEF BeforeModel
  <2>2. s \in SlyData /\ (HasDefinition(sly) => s = sly) /\ s.skip = sly.skip
    BY <1>0, <2>1, ResolvedTypes
  <2>3. UNCHANGED <<attempts, rounds, outcome, editors, saves>>
    BY <1>2 DEF BeforeModel
  <2>4. CASE Refused(s)
    <3>1. sly' \in SlyData /\ sly'.def = sly.def /\ sly'.name = s.name
      BY <1>0, <2>1, <2>2, <2>4 DEF SlyData
    <3>2. ~ToValidate(sly')
      BY <2>2, <2>4, <3>1, <1>0 DEF Refused, LoadFails, ToValidate, HasDefinition
    <3>3. pc' = "after" /\ load' = "failed"
      BY <2>1, <2>4
    <3> QED
      BY <1>0, <1>2, <2>3, <3>1, <3>2, <3>3
         DEF BeforeModel, editors, saves, TypeOK, Converted, NothingLoaded, Retried, ToValidate,
             HasDefinition
  <2>5. CASE ~Refused(s)
    <3>1. sly' = Normalized(s) /\ load' = "ok" /\ pc' \in {"model", "after"}
      BY <2>1, <2>5
    <3>2. sly' \in SlyData /\ (HasDefinition(s) => sly'.def = "dict")
          /\ (HasDefinition(sly') <=> HasDefinition(s)) /\ sly'.name = s.name /\ sly'.skip = s.skip
      BY <2>2, <3>1, NormalizedTypes
    <3> QED
      BY <1>0, <1>2, <2>2, <2>3, <3>1, <3>2
         DEF BeforeModel, editors, saves, TypeOK, Converted, NothingLoaded, Retried, ToValidate,
             HasDefinition
  <2> QED
    BY <2>4, <2>5
<1>3. CASE CallTools
  <2>1. sly' = sly \/ sly' \in Loaded(sly)
    BY <1>3 DEF CallTools
  <2>2. sly' = sly \/ (/\ sly' \in SlyData /\ sly'.def = "dict" /\ ToValidate(sly')
                      /\ sly'.skip = sly.skip)
    BY <1>0, <2>1, LoadedTypes DEF ToValidate, HasDefinition
  <2> QED
    BY <1>0, <1>3, <2>2
    DEF CallTools, editors, saves, TypeOK, Converted, NothingLoaded, Retried, ToValidate,
        HasDefinition
<1>4. CASE Answer
  BY <1>0, <1>4 DEF Answer, editors, saves, TypeOK, Converted, NothingLoaded, Retried,
                    ToValidate, HasDefinition
<1>5. CASE NothingToSave
  BY <1>0, <1>5
  DEF NothingToSave, EndTurn, Outcome, editors, saves, TypeOK, Converted, NothingLoaded, Retried,
      ToValidate, HasDefinition
<1>6. CASE Retry
  <2>1. sly' \in SlyData /\ sly'.def = sly.def /\ sly'.name = sly.name /\ sly'.skip = FALSE
    BY <1>0, <1>6 DEF Retry, SlyData
  <2> QED
    BY <1>0, <1>6, <2>1
       DEF Retry, editors, saves, TypeOK, Converted, NothingLoaded, Retried, ToValidate,
           HasDefinition
<1>7. CASE GiveUp
  BY <1>0, <1>7
  DEF GiveUp, EndTurn, Outcome, editors, saves, TypeOK, Converted, NothingLoaded, Retried,
      ToValidate, HasDefinition
<1>8. CASE Save
  <2>1. PICK result \in {"saved", "raised"} :
          /\ AssembleAndPersist(result)
          /\ sly' = IF result = "saved" THEN Exported(sly) ELSE sly
          /\ EndTurn(result)
    BY <1>8 DEF Save
  <2>2. Exported(sly) \in SlyData
    BY <1>0 DEF Exported, SlyData, Form
  <2>3. sly' \in SlyData
    BY <1>0, <2>1, <2>2
  <2>4. pc' = "client" /\ outcome' \in Outcome
    BY <2>1 DEF EndTurn, Outcome
  <2>5. text' \in {"old", "new"} /\ reserved' \in {"old", "new"}
    BY <1>0, <2>1 DEF AssembleAndPersist, Persist, Reserve
  <2>6. attempts' = 0 /\ UNCHANGED <<load, rounds, at, steps, persistor>>
    BY <1>8 DEF Save, editors
  <2> QED
    BY <1>0, <2>3, <2>4, <2>5, <2>6 DEF TypeOK, Converted, NothingLoaded, Retried
<1>10. CASE CallEditors
  <2>1. pc = "model" /\ pc' = "editors" /\ UNCHANGED <<sly, attempts, load, rounds, outcome, saves>>
    BY <1>10 DEF CallEditors
  <2>2. /\ at' \in [Editors -> {"idle", "before", "model", "after"}]
        /\ steps' \in [Editors -> 0..MaxSteps]
    BY <1>0, <1>10 DEF CallEditors
  <2> QED
    BY <1>0, <2>1, <2>2 DEF saves, TypeOK, Converted, NothingLoaded, Retried
<1>11. CASE EditorStep
  <2>1. /\ at' \in [Editors -> {"idle", "before", "model", "after"}]
        /\ steps' \in [Editors -> 0..MaxSteps]
        /\ sly' = sly \/ \E e \in Editors : sly' \in Edited(e, sly)
        /\ pc = "editors" /\ pc' \in {"editors", "before"}
        /\ UNCHANGED <<attempts, load, rounds, outcome, saves>>
    BY <1>11, EditorTypes
  <2>2. /\ sly' \in SlyData /\ sly'.skip = sly.skip
        /\ ToValidate(sly) => ToValidate(sly')
        /\ sly.def = "dict" => sly'.def = "dict"
        /\ ToValidate(sly') /\ ~ToValidate(sly) => sly'.def = "dict"
    BY <1>0, <2>1, EditedTypes
  <2>3. TypeOK'
    BY <1>0, <2>1, <2>2 DEF saves, TypeOK
  <2>4. Converted'
    BY <2>1, <2>2 DEF Converted
  <2>5. NothingLoaded' /\ Retried' /\ RetriesCounted'
    BY <2>1, <2>2 DEF NothingLoaded, Retried
  <2> QED
    BY <2>3, <2>4, <2>5
<1>12. CASE FetchRaises
  BY <1>0, <1>12
  DEF FetchRaises, Outcome, editors, saves, TypeOK, Converted, NothingLoaded, Retried, ToValidate,
      HasDefinition
<1>9. CASE UNCHANGED vars
  BY <1>0, <1>9 DEF vars, editors, saves, TypeOK, Converted, NothingLoaded, Retried, ToValidate,
                    HasDefinition
<1> QED
  BY <1>1, <1>2, <1>3, <1>4, <1>5, <1>6, <1>7, <1>8, <1>9, <1>10, <1>11, <1>12
     DEF Next, AfterAgent

(***************************************************************************)
(* The validators are never given a connectivity list.                      *)
(***************************************************************************)
THEOREM ValidatorsSafe == Spec => [](TypeOK /\ ValidatorSeesDict)
<1>1. SessionInv => TypeOK /\ ValidatorSeesDict
  BY DEF SessionInv, Converted, ValidatorSeesDict
<1> QED
  BY <1>1, SessionInit, SessionNext, PTL DEF Spec

(***************************************************************************)
(* After an error of loading, aafter_agent ends the turn and saves nothing. *)
(***************************************************************************)
THEOREM ErrorsEndTurns == Spec => ErrorIsFinal
<1>1. SessionInv /\ [Next]_vars =>
        [pc = "after" /\ load = "failed" => pc' = "client" /\ outcome' = "answered"]_vars
  BY DEF SessionInv, NothingLoaded, Next, AfterAgent, StartTurn, BeforeModel, FetchRaises,
         CallTools, CallEditors, EditorStep, Answer,
         NothingToSave, EndTurn, Retry, GiveUp, Save, vars
<1> QED
  BY <1>1, SessionInit, SessionNext, PTL DEF Spec, ErrorIsFinal

(***************************************************************************)
(* A retry reaches the model: nothing it leaves in sly_data makes           *)
(* abefore_model refuse or skip.                                            *)
(***************************************************************************)
THEOREM RetriesReachTheModel == Spec => RetryReachesModel
<1>1. SessionInv /\ [Next]_vars => [pc = "before" /\ rounds > 0 => pc' = "model"]_vars
  <2> SUFFICES ASSUME SessionInv, [Next]_vars, pc = "before", rounds > 0, vars' # vars
               PROVE  pc' = "model"
    BY DEF vars
  <2>2. ToValidate(sly) /\ ~sly.skip
    BY DEF SessionInv, Retried
  <2>1. BeforeModel
    BY <2>2 DEF Next, AfterAgent, StartTurn, FetchRaises, ToValidate, CallTools, CallEditors,
                EditorStep, Answer, NothingToSave, Retry, GiveUp, Save, vars
  <2>3. Resolved(sly) = {sly}
    BY <2>2 DEF ToValidate, Resolved
  <2>4. ~Refused(sly)
    BY <2>2 DEF ToValidate, Refused, LoadFails
  <2> QED
    BY <2>1, <2>2, <2>3, <2>4 DEF BeforeModel
<1> QED
  BY <1>1, SessionInit, SessionNext, PTL DEF Spec, RetryReachesModel

(***************************************************************************)
(* In the turn after a save the counter counts this turn's rounds only.     *)
(***************************************************************************)
CounterIsReset ==
  outcome \in {"saved", "raised"} =>
    /\ pc = "client" => attempts = 0
    /\ pc # "client" => attempts = rounds

(***************************************************************************)
(* Only Save ends a turn that way, and it resets the counter; StartTurn     *)
(* resets rounds, and Retry moves both.                                     *)
(***************************************************************************)
LEMMA CounterNext == SessionInv /\ CounterIsReset /\ [Next]_vars => CounterIsReset'
<1> SUFFICES ASSUME SessionInv, CounterIsReset, [Next]_vars PROVE CounterIsReset'
  OBVIOUS
<1> USE DEF CounterIsReset
<1>0. attempts \in Nat /\ rounds \in Nat
  BY DesignerSessionAssumption DEF DesignerSessionAssumption, SessionInv, TypeOK
<1>1. CASE StartTurn
  BY <1>1 DEF StartTurn
<1>2. CASE BeforeModel
  <2>1. pc = "before" /\ pc' \in {"model", "after"} /\ UNCHANGED <<attempts, rounds, outcome>>
    BY <1>2 DEF BeforeModel
  <2> QED
    BY <2>1
<1>3. CASE CallTools \/ Answer \/ CallEditors
  BY <1>3 DEF CallTools, Answer, CallEditors
<1>8. CASE EditorStep
  <2>1. pc = "editors" /\ pc' \in {"editors", "before"} /\ UNCHANGED <<attempts, rounds, outcome>>
    BY <1>8, EditorTypes DEF SessionInv
  <2> QED
    BY <2>1
<1>4. CASE NothingToSave \/ GiveUp \/ FetchRaises
  BY <1>4 DEF NothingToSave, GiveUp, FetchRaises, EndTurn
<1>5. CASE Retry
  BY <1>0, <1>5 DEF Retry
<1>6. CASE Save
  BY <1>6 DEF Save, EndTurn
<1>7. CASE UNCHANGED vars
  BY <1>7 DEF vars
<1> QED
  BY <1>1, <1>2, <1>3, <1>4, <1>5, <1>6, <1>7, <1>8 DEF Next, AfterAgent

(***************************************************************************)
(* A turn that follows a validated one gives up only after MaxAttempts      *)
(* rounds of its own.                                                       *)
(***************************************************************************)
THEOREM BudgetIsRestored == Spec => BudgetAfterSave
<1>1. Init => CounterIsReset
  BY DEF Init, CounterIsReset
<1>2. SessionInv /\ CounterIsReset /\ [Next]_vars
        => [GivesUp /\ outcome \in {"saved", "raised"} => rounds = MaxAttempts]_vars
  <2> SUFFICES ASSUME SessionInv, CounterIsReset, Next, GivesUp, outcome \in {"saved", "raised"}
               PROVE  rounds = MaxAttempts
    BY DEF GivesUp, vars
  <2>1. GiveUp
    BY DEF GivesUp, Next, AfterAgent, StartTurn, BeforeModel, FetchRaises, CallTools, CallEditors,
           EditorStep, Answer, NothingToSave, Retry, Save, EndTurn
  <2>2. attempts >= MaxAttempts /\ attempts = rounds
    BY <2>1 DEF GivesUp, GiveUp, CounterIsReset
  <2> QED
    BY <2>2, DesignerSessionAssumption
       DEF DesignerSessionAssumption, SessionInv, TypeOK
<1> QED
  BY <1>1, <1>2, SessionInit, SessionNext, CounterNext, PTL DEF Spec, BudgetAfterSave

\* What a turn gives the client, it gives when it saves.
GivenBySave == (pc # "client" => text = "old" /\ reserved = "old") /\ SavedHasText

(***************************************************************************)
(* Only Save gives the client anything: the text before the reservation,    *)
(* and the text whenever it succeeds.                                       *)
(***************************************************************************)
LEMMA GivenNext == SessionInv /\ GivenBySave /\ [Next]_vars => GivenBySave'
<1> SUFFICES ASSUME SessionInv, GivenBySave, [Next]_vars PROVE GivenBySave'
  OBVIOUS
<1> USE DEF GivenBySave, SavedHasText
<1>1. CASE StartTurn
  BY <1>1 DEF StartTurn
<1>2. CASE BeforeModel
  <2>1. pc = "before" /\ pc' \in {"model", "after"} /\ UNCHANGED <<text, reserved>>
    BY <1>2 DEF BeforeModel, saves
  <2> QED
    BY <2>1
<1>3. CASE CallTools \/ Answer \/ CallEditors
  BY <1>3 DEF CallTools, Answer, CallEditors, saves
<1>4. CASE NothingToSave \/ GiveUp \/ Retry \/ FetchRaises
  BY <1>4 DEF NothingToSave, GiveUp, Retry, FetchRaises, EndTurn, saves
<1>5. CASE EditorStep
  <2>1. pc = "editors" /\ pc' \in {"editors", "before"} /\ UNCHANGED saves
    BY <1>5, EditorTypes DEF SessionInv
  <2> QED
    BY <2>1 DEF saves
<1>6. CASE Save
  <2>1. pc = "after" /\ reserved = "old"
    BY <1>6 DEF Save
  <2>2. PICK result \in {"saved", "raised"} : AssembleAndPersist(result) /\ EndTurn(result)
    BY <1>6 DEF Save
  <2> QED
    BY <2>1, <2>2 DEF AssembleAndPersist, Persist, Reserve, EndTurn
<1>7. CASE UNCHANGED vars
  BY <1>7 DEF vars
<1> QED
  BY <1>1, <1>2, <1>3, <1>4, <1>5, <1>6, <1>7 DEF Next, AfterAgent

(***************************************************************************)
(* The client has the text of every network that was saved or reserved for  *)
(* it, with every persistor and however saving fails.                       *)
(***************************************************************************)
THEOREM TextIsGiven == Spec => []SavedHasText
<1>1. Init => GivenBySave
  BY DEF Init, GivenBySave, SavedHasText
<1>2. GivenBySave => SavedHasText
  BY DEF GivenBySave
<1> QED
  BY <1>1, <1>2, SessionInit, SessionNext, GivenNext, PTL DEF Spec
===============================================================================

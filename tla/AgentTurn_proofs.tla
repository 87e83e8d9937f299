---------------------------- MODULE AgentTurn_proofs ----------------------------
(***************************************************************************)
(* Proofs about AgentTurn, for any sources, slots, turns, rounds and faults: *)
(* the sessions, the skills, the reports and the items of the checklist.     *)
(***************************************************************************)
EXTENDS AgentTurn, FiniteSetTheorems, SequenceTheorems, TLAPS

-------------------------------------------------------------------------------
(***************************************************************************)
(* The sessions.  A closed one is kept only if its close was cancelled; all *)
(* the others but the present one are closed.                               *)
(***************************************************************************)
SessionInv ==
  /\ opened \in Nat /\ session \in 0..opened /\ cut \in 0..opened /\ closed \subseteq 1..opened
  /\ 1..opened \subseteq closed \cup {session}
  /\ session \in closed => session = cut

\* Only the beginning and the end of a turn touch the sessions.
LEMMA StepSession ==
  ASSUME SessionInv, [Next]_vars
  PROVE  SessionInv'
<1>. USE DEF SessionInv
<1>1. CASE UNCHANGED <<session, opened, closed, cut>>
  BY <1>1
<1>2. CASE BeginTurn
  <2>1. UNCHANGED <<closed, cut>>
    BY <1>2 DEF BeginTurn
  <2>2. CASE session = 0
    <3>1. session' = opened + 1 /\ opened' = opened + 1
      BY <1>2, <2>2 DEF BeginTurn, OpenSession
    <3>. QED  BY <2>1, <2>2, <3>1
  <2>3. CASE session # 0
    <3>1. session' = session /\ opened' = opened
      BY <1>2, <2>3 DEF BeginTurn, OpenSession
    <3>. QED  BY <2>1, <3>1
  <2>. QED  BY <2>2, <2>3
<1>3. CASE EndTurn
  <2>1. /\ UNCHANGED <<opened, cut>> /\ closed' = closed \cup ({session} \ {0})
        /\ session' = IF session \in closed THEN session ELSE 0
    BY <1>3 DEF EndTurn
  <2>. QED  BY <2>1
<1>4. CASE CloseCancelled
  <2>1. /\ UNCHANGED <<opened, session>> /\ closed' = closed \cup ({session} \ {0})
        /\ cut' = session
    BY <1>4 DEF CloseCancelled
  <2>. QED  BY <2>1
<1>. QED  BY <1>1, <1>2, <1>3, <1>4 DEF Next, LoadSource, SkillsLoaded, CallModel, RoundDone,
             ChangeList, Report, AskSkill, AskRemote, TurnFails, vars, skillVars

\* The sessions are as SessionInv says in every state.
LEMMA SessionInvariant == Spec => []SessionInv
<1>1. Init => SessionInv
  BY DEF Init, SessionInv
<1>. QED  BY <1>1, StepSession, PTL DEF Spec

\* However turns fail, are cancelled or are cut while they close: no session
\* the middleware opened is left open, except the one it still holds.
THEOREM SessionsAreClosed == Spec => []NoSessionLeak
<1>1. SessionInv => NoSessionLeak
  BY DEF SessionInv, NoSessionLeak
<1>. QED  BY <1>1, SessionInvariant, PTL

\* A turn works with an open session, unless the cancelled close of an earlier
\* turn left it a closed one.
THEOREM SessionsAreUsable == Spec => []SessionIsOpen
<1>1. SessionInv => SessionIsOpen
  BY DEF SessionInv, SessionIsOpen
<1>. QED  BY <1>1, SessionInvariant, PTL

-------------------------------------------------------------------------------
(***************************************************************************)
(* The skills.  As long as sources are being read, no prompt has offered a  *)
(* skill: they are only read again if none was found.                       *)
(***************************************************************************)
Found == [Skill -> 0..Len(Sources)]

SkillInv ==
  /\ skills \in Found /\ seen.skills \in Found /\ next \in 1..(Len(Sources) + 1)
  /\ phase = "loading" /\ next <= Len(Sources) => seen.skills = NoSkills
  /\ OfferedSkillsStay

\* Sources are numbered.
LEMMA SourcesTypes ==
  /\ Len(Sources) \in Nat /\ DOMAIN Sources = 1..Len(Sources)
  /\ \A i \in 1..Len(Sources) : Sources[i].skill \in Skill
<1>. DEFINE Source == [skill : Skill, kind : {"local", "remote"}, format : {"valid", "malformed"}]
<1>1. Sources \in Seq(Source)
  BY AgentTurnAssumption
<1>. HIDE DEF Source
<1>2. Len(Sources) \in Nat /\ DOMAIN Sources = 1..Len(Sources)
      /\ \A i \in 1..Len(Sources) : Sources[i] \in Source
  BY <1>1, LenProperties, ElementOfSeq
<1>. QED  BY <1>2 DEF Source

\* Reading a source adds a skill before any was offered; a prompt offers what
\* there is; everything else leaves both alone.
LEMMA StepSkills ==
  ASSUME SkillInv, [Next]_vars
  PROVE  SkillInv'
<1>. USE DEF SkillInv
<1>1. CASE UNCHANGED <<skills, seen, next>> /\ (phase' = "loading" => phase = "loading")
  BY <1>1 DEF OfferedSkillsStay
<1>2. CASE BeginTurn
  <2>1. UNCHANGED <<skills, seen>> /\ next' = FirstSource
    BY <1>2 DEF BeginTurn
  <2>2. CASE skills = NoSkills
    <3>1. \A sk \in Skill : seen.skills[sk] = 0
      BY <2>2 DEF OfferedSkillsStay, NoSkills
    <3>2. seen.skills = NoSkills
      BY <3>1 DEF NoSkills, Found
    <3>. QED  BY <2>1, <2>2, <3>2, SourcesTypes DEF FirstSource, OfferedSkillsStay
  <2>3. CASE skills # NoSkills
    BY <2>1, <2>3, SourcesTypes DEF FirstSource, OfferedSkillsStay
  <2>. QED  BY <2>2, <2>3
<1>3. CASE LoadSource
  <2>1. /\ next \in 1..Len(Sources) /\ next' = next + 1 /\ UNCHANGED <<phase, seen>>
        /\ seen.skills = NoSkills
    BY <1>3, SourcesTypes DEF LoadSource
  <2>2. skills' \in Found
    BY <1>3, <2>1, SourcesTypes DEF LoadSource, Registered, Found
  <2>3. OfferedSkillsStay'
    BY <2>1 DEF OfferedSkillsStay, NoSkills
  <2>. QED  BY <2>1, <2>2, <2>3, SourcesTypes
<1>4. CASE CallModel
  <2>1. UNCHANGED <<skills, next>> /\ seen'.skills = skills /\ phase' # "loading"
    BY <1>4 DEF CallModel, SkillsPrompt, skillVars
  <2>. QED  BY <2>1 DEF OfferedSkillsStay
<1>. QED  BY <1>1, <1>2, <1>3, <1>4 DEF Next, SkillsLoaded, RoundDone, EndTurn, ChangeList, Report,
             AskSkill, AskRemote, TurnFails, CloseCancelled, Raises, vars, skillVars

\* A skill a prompt offered stays with its source for all later turns, although
\* later turns may read the sources again and loads may fail or be cancelled.
THEOREM OfferedSkillsAreKept == Spec => []OfferedSkillsStay
<1>1. Init => SkillInv
  BY SourcesTypes DEF Init, SkillInv, NoSkills, Found, OfferedSkillsStay
<1>2. SkillInv => OfferedSkillsStay
  BY DEF SkillInv
<1>. QED  BY <1>1, <1>2, StepSkills, PTL DEF Spec

-------------------------------------------------------------------------------
(***************************************************************************)
(* The checklist.  While a round that creates no list runs, each number     *)
(* means the item that it meant in the prompt.                              *)
(***************************************************************************)
Call == [request : Request, stage : {"begun", "reporting", "done"}, report : Nat \X Nat]

SeenIds ==
  phase = "tools" /\ (\A s \in Slot : Tools(s) # "create") =>
    \A i \in DOMAIN list : seen.list[i].id = list[i].id

ListInv ==
  /\ list \in Seq(Item) /\ Len(list) <= MaxItems /\ made \in Nat
  /\ call \in [Slot -> Call]
  /\ SeenIds

\* A function on 1 .. n is a sequence of length n.
LEMMA FunctionIsSeq ==
  ASSUME NEW S, NEW n \in Nat, NEW f \in [1..n -> S]
  PROVE  f \in Seq(S) /\ Len(f) = n
<1>1. f \in Seq(S)
  BY SeqDef
<1>2. Len(f) \in Nat /\ 1..Len(f) = 1..n
  BY <1>1, LenProperties
<1>. QED  BY <1>1, <1>2

\* The counts of a report.
LEMMA RatioTypes ==
  ASSUME NEW l \in Seq(Item)
  PROVE  Ratio(l) \in Nat \X Nat
<1>. DEFINE D == {i \in DOMAIN l : l[i].status \in {"done", "skipped"}}
<1>1. Len(l) \in Nat /\ DOMAIN l = 1..Len(l)
  BY LenProperties
<1>2. IsFiniteSet(1..Len(l)) /\ D \subseteq 1..Len(l)
  BY <1>1, FS_Interval
<1>3. Cardinality(D) \in Nat
  BY <1>2, FS_Subset, FS_CardinalityType
<1>. QED  BY <1>1, <1>3 DEF Ratio

\* A call of a list tool makes a checklist; one that updates or rewrites an
\* item changes that item only, and not its identity.
LEMMA NewItemsTypes ==
  ASSUME list \in Seq(Item), Len(list) <= MaxItems, made \in Nat, NEW r \in Request
  PROVE  /\ NewItems(r) \in Seq(Item) /\ Len(NewItems(r)) <= MaxItems
         /\ r.tool # "create" =>
              /\ DOMAIN NewItems(r) = DOMAIN list
              /\ \A i \in DOMAIN list : NewItems(r)[i].id = list[i].id
              /\ \A i \in DOMAIN list : NewItems(r)[i] # list[i] => i = r.n
<1>1. r.n \in 0..MaxItems /\ r.status \in Status /\ MaxItems \in Nat
  BY AgentTurnAssumption DEF Request
<1>2. Len(list) \in Nat /\ DOMAIN list = 1..Len(list) /\ \A i \in DOMAIN list : list[i] \in Item
  BY LenProperties, ElementOfSeq
<1>3. CASE r.tool = "create"
  <2>1. NewItems(r) = NewList(r.n)
    BY <1>3 DEF NewItems
  <2>2. r.n \in Nat /\ NewList(r.n) \in [1..r.n -> Item]
    BY <1>1 DEF NewList, Item, Status
  <2>. QED  BY <1>1, <1>3, <2>1, <2>2, FunctionIsSeq
<1>4. CASE r.tool # "create" /\ r.n \notin DOMAIN list
  BY <1>4 DEF NewItems, InRange
<1>5. CASE r.tool # "create" /\ r.n \in DOMAIN list
  <2>1. PICK e \in Item : e.id = list[r.n].id /\ NewItems(r) = [list EXCEPT ![r.n] = e]
    <3>1. CASE r.tool = "update"
      <4>1. NewItems(r) = [list EXCEPT ![r.n] = [list[r.n] EXCEPT !.status = r.status]]
        BY <1>5, <3>1 DEF NewItems, InRange, Updated
      <4>2. [list[r.n] EXCEPT !.status = r.status] \in Item
            /\ [list[r.n] EXCEPT !.status = r.status].id = list[r.n].id
        BY <1>1, <1>2, <1>5 DEF Item
      <4>. QED  BY <4>1, <4>2
    <3>2. CASE r.tool # "update"
      <4>1. NewItems(r) = [list EXCEPT ![r.n] = [list[r.n] EXCEPT !.text = made + 1]]
        BY <1>5, <3>2 DEF NewItems, InRange, Edited
      <4>2. [list[r.n] EXCEPT !.text = made + 1] \in Item
            /\ [list[r.n] EXCEPT !.text = made + 1].id = list[r.n].id
        <5>1. made + 1 \in Nat /\ list[r.n] \in Item
          BY <1>2, <1>5
        <5>. QED  BY <5>1 DEF Item
      <4>. QED  BY <4>1, <4>2
    <3>. QED  BY <3>1, <3>2
  <2>2. NewItems(r) \in Seq(Item) /\ Len(NewItems(r)) = Len(list)
    BY <1>2, <1>5, <2>1, ExceptSeq
  <2>3. \A i \in DOMAIN list : NewItems(r)[i] = IF i = r.n THEN e ELSE list[i]
    BY <1>2, <1>5, <2>1, ExceptSeq
  <2>. QED  BY <1>2, <2>1, <2>2, <2>3, LenProperties
<1>. QED  BY <1>3, <1>4, <1>5

\* What the model asks for are requests.
LEMMA RequestsTypes == Requests \subseteq Request /\ NoCall \in Call
<1>1. MaxItems \in Nat
  BY AgentTurnAssumption
<1>2. NoRequest \in Request
  BY <1>1 DEF NoRequest, Request, Tool, Status
<1>3. NoCall \in Call
  BY <1>2 DEF NoCall, Call
<1>4. Requests \subseteq Request
  BY <1>1, <1>2 DEF Requests, Request, Tool, Status
<1>. QED  BY <1>3, <1>4

\* The model's step sets up a round over the checklist it was shown.
LEMMA CallModelList ==
  ASSUME ListInv, CallModel
  PROVE  ListInv'
<1>1. UNCHANGED <<list, made>> /\ seen'.list = list
  BY DEF CallModel, ChecklistPrompt
<1>2. call' \in [Slot -> Call]
  <2>1. CASE UNCHANGED call
    BY <2>1 DEF ListInv
  <2>2. CASE \E asked \in [Slot -> Requests] :
             call' = [s \in Slot |->
               [NoCall EXCEPT !.request = asked[s],
                              !.stage = IF asked[s].tool = "none" THEN "done" ELSE "begun"]]
    <3>1. PICK asked \in [Slot -> Requests] :
             call' = [s \in Slot |->
               [NoCall EXCEPT !.request = asked[s],
                              !.stage = IF asked[s].tool = "none" THEN "done" ELSE "begun"]]
      BY <2>2
    <3>2. ASSUME NEW s \in Slot
          PROVE  [NoCall EXCEPT !.request = asked[s],
                    !.stage = IF asked[s].tool = "none" THEN "done" ELSE "begun"] \in Call
      <4>1. asked[s] \in Request
        BY RequestsTypes
      <4>. QED  BY <4>1, RequestsTypes DEF NoCall, Call
    <3>. QED  BY <3>1, <3>2
  <2>. QED  BY <2>1, <2>2 DEF CallModel
<1>. QED  BY <1>1, <1>2 DEF ListInv, SeenIds

\* A call that changes the checklist keeps the identity of every item, unless
\* it creates a new list.
LEMMA ChangeListList ==
  ASSUME ListInv, NEW s \in Slot, ChangeList(s)
  PROVE  ListInv'
<1>. DEFINE r == call[s].request
<1>1. call[s] \in Call /\ r \in Request
  BY DEF ListInv, Call
<1>2. list' = NewItems(r) /\ UNCHANGED <<phase, seen>> /\ made' = made + MaxItems
  BY DEF ChangeList
<1>3. list' \in Seq(Item) /\ Len(list') <= MaxItems /\ made' \in Nat
  <2>1. NewItems(r) \in Seq(Item) /\ Len(NewItems(r)) <= MaxItems
    <3>. HIDE DEF r
    <3>. QED  BY <1>1, NewItemsTypes DEF ListInv
  <2>2. made + MaxItems \in Nat
    <3>1. made \in Nat
      BY DEF ListInv
    <3>2. MaxItems \in Nat
      BY AgentTurnAssumption
    <3>. QED  BY <3>1, <3>2
  <2>. QED  BY <1>2, <2>1, <2>2
<1>4. Ratio(list') \in Nat \X Nat
  BY <1>3, RatioTypes
<1>5. call' = [call EXCEPT ![s] = [call[s] EXCEPT !.stage = call'[s].stage, !.report = Ratio(list')]]
      /\ call'[s].stage \in {"done", "reporting"} /\ call'[s].report = Ratio(list')
      /\ call'[s].request = r
  BY <1>1 DEF ChangeList, ListInv, Call
<1>6. call' \in [Slot -> Call]
  BY <1>1, <1>4, <1>5 DEF ListInv, Call
<1>7. SeenIds'
  <2>. SUFFICES ASSUME (phase = "tools")', (\A t \in Slot : Tools(t) # "create")',
                       NEW i \in DOMAIN list'
                PROVE  seen'.list[i].id = list'[i].id
    BY DEF SeenIds
  <2>1. \A t \in Slot : call'[t].request = call[t].request
    BY <1>5 DEF ListInv
  <2>2. phase = "tools" /\ \A t \in Slot : Tools(t) # "create"
    BY <1>2, <2>1 DEF Tools
  <2>3. DOMAIN list' = DOMAIN list /\ list'[i].id = list[i].id
    BY <1>1, <1>2, <2>2, NewItemsTypes DEF ListInv, Tools
  <2>. QED  BY <1>2, <2>2, <2>3 DEF ListInv, SeenIds
<1>. QED  BY <1>3, <1>6, <1>7 DEF ListInv

\* Every step keeps the types of the checklist and of the calls, and what the
\* numbers of a running round mean.
LEMMA StepList ==
  ASSUME ListInv, [Next]_vars
  PROVE  ListInv'
<1>1. CASE /\ UNCHANGED <<list, made, seen>>
           /\ \/ UNCHANGED <<phase, call>>
              \/ phase' # "tools" /\ call' \in [Slot -> Call]
              \/ /\ UNCHANGED phase
                 /\ \E s \in Slot : call' = [call EXCEPT ![s].stage = "done"]
  <2>1. CASE UNCHANGED <<phase, call>>
    BY <1>1, <2>1 DEF ListInv, SeenIds, Tools
  <2>2. CASE phase' # "tools" /\ call' \in [Slot -> Call]
    BY <1>1, <2>2 DEF ListInv, SeenIds
  <2>3. ASSUME UNCHANGED phase, NEW s \in Slot, call' = [call EXCEPT ![s].stage = "done"]
        PROVE  ListInv'
    <3>1. call' \in [Slot -> Call]
      BY <2>3 DEF ListInv, Call
    <3>2. \A t \in Slot : call'[t].request = call[t].request
      BY <2>3 DEF ListInv, Call
    <3>. QED  BY <1>1, <2>3, <3>1, <3>2 DEF ListInv, SeenIds, Tools
  <2>. QED  BY <1>1, <2>1, <2>2, <2>3
<1>2. [s \in Slot |-> NoCall] \in [Slot -> Call]
  BY RequestsTypes
<1>3. CASE BeginTurn \/ LoadSource \/ SkillsLoaded \/ EndTurn \/ CloseCancelled \/ UNCHANGED vars
  BY <1>1, <1>3 DEF BeginTurn, LoadSource, SkillsLoaded, EndTurn, CloseCancelled, vars, listVars,
     ListInv
<1>4. CASE RoundDone \/ TurnFails
  BY <1>1, <1>2, <1>4 DEF RoundDone, TurnFails, Raises, listVars
<1>5. ASSUME NEW s \in Slot, Report(s) \/ AskSkill(s) \/ AskRemote(s)
      PROVE  ListInv'
  BY <1>1, <1>2, <1>5 DEF Report, AskSkill, AskRemote, Raises, listVars
<1>. QED  BY <1>3, <1>4, <1>5, CallModelList, ChangeListList DEF Next

\* An initial checklist has one item at most.
LEMMA InitList == Init => ListInv
<1>. SUFFICES ASSUME Init PROVE ListInv
  OBVIOUS
<1>1. MaxItems \in Nat \ {0}
  BY AgentTurnAssumption
<1>2. PICK n \in 0..1 : \E status \in {"done", "unknown"} :
        list = [i \in 1..n |-> [id |-> i, text |-> i, status |-> Normalized(status)]]
  BY DEF Init
<1>3. n \in Nat /\ list \in [1..n -> Item]
  BY <1>2 DEF Item, Normalized, Status
<1>4. list \in Seq(Item) /\ Len(list) <= MaxItems
  BY <1>1, <1>3, FunctionIsSeq
<1>. QED  BY <1>4, RequestsTypes DEF Init, ListInv, SeenIds

\* The checklist is as ListInv says in every state.
LEMMA ListInvariant == Spec => []ListInv
  BY InitList, StepList, PTL DEF Spec

\* Of any number of concurrent tool calls, one that changes an item changes
\* the one that had its number in the prompt, unless the round creates a list.
THEOREM SeenItemsChange == Spec => ChangesSeenItem
<1>. DEFINE A == phase = "tools" /\ phase' = "tools" /\ (\A s \in Slot : Tools(s) # "create") =>
       \A i \in DOMAIN list : list'[i] # list[i] =>
         \E s \in Slot :
           /\ Tools(s) \in {"update", "edit"}
           /\ call[s].stage = "begun" /\ call'[s].stage # "begun"
           /\ seen.list[call[s].request.n].id = list'[i].id
<1>1. ListInv /\ [Next]_vars => [A]_vars
  <2>. SUFFICES ASSUME ListInv, Next, phase = "tools", \A s \in Slot : Tools(s) # "create",
                       NEW i \in DOMAIN list, list'[i] # list[i]
                PROVE  \E s \in Slot :
                         /\ Tools(s) \in {"update", "edit"}
                         /\ call[s].stage = "begun" /\ call'[s].stage # "begun"
                         /\ seen.list[call[s].request.n].id = list'[i].id
    OBVIOUS
  <2>1. PICK s \in Slot : ChangeList(s)
    BY DEF Next, BeginTurn, LoadSource, SkillsLoaded, CallModel, RoundDone, EndTurn, Report,
       AskSkill, AskRemote, TurnFails, CloseCancelled, vars, listVars
  <2>2. call[s] \in Call /\ call[s].request \in Request
    BY DEF ListInv, Call
  <2>3. /\ Tools(s) \in {"update", "edit"} /\ call[s].stage = "begun"
        /\ list' = NewItems(call[s].request)
    BY <2>1 DEF ChangeList, At, Tools
  <2>4. call'[s].stage # "begun"
    BY <2>1, <2>2 DEF ChangeList, ListInv, Call
  <2>5. list'[i].id = list[i].id /\ i = call[s].request.n
    BY <2>2, <2>3, NewItemsTypes DEF ListInv, Tools
  <2>6. seen.list[i].id = list[i].id
    BY DEF ListInv, SeenIds
  <2>. QED  BY <2>3, <2>4, <2>5, <2>6
<1>. QED  BY <1>1, ListInvariant, PTL DEF Spec, ChangesSeenItem

\* When a turn ends well, the progress last reported is that of the checklist,
\* in whatever order the reports of concurrent calls went out.
THEOREM ProgressIsReported == Spec => []ProgressAtRest
<1>1. Init => ProgressAtRest
  BY DEF Init, ProgressAtRest
<1>2. ProgressAtRest /\ [Next]_vars => ProgressAtRest'
  BY DEF ProgressAtRest, Next, BeginTurn, LoadSource, SkillsLoaded, CallModel, Reported, RoundDone,
     EndTurn, ChangeList, Report, AskSkill, AskRemote, TurnFails, CloseCancelled, Raises, At, vars,
     listVars, skillVars
<1>. QED  BY <1>1, <1>2, PTL DEF Spec

-------------------------------------------------------------------------------
(***************************************************************************)
(* The bounds of a run, and where a turn may be.                            *)
(***************************************************************************)
TurnInv ==
  /\ phase \in {"idle", "loading", "model", "tools", "closing"}
  /\ turns \in 0..MaxTurns /\ rounds \in 0..MaxRounds
  /\ loadable \subseteq 1..Len(Sources) /\ next \in 1..(Len(Sources) + 1)

\* Turns and rounds stop at their bounds.
LEMMA StepTurn ==
  ASSUME TurnInv, [Next]_vars
  PROVE  TurnInv'
<1>1. MaxTurns \in Nat /\ MaxRounds \in Nat
  BY AgentTurnAssumption
<1>0. Len(Sources) \in Nat
  BY SourcesTypes
<1>. USE <1>0 DEF TurnInv
<1>2. CASE UNCHANGED <<turns, rounds, loadable, next>>
           /\ phase' \in {"idle", "loading", "model", "tools", "closing"}
  BY <1>2
<1>3. CASE BeginTurn
  BY <1>1, <1>3 DEF BeginTurn, FirstSource
<1>4. CASE LoadSource
  <2>1. /\ next <= Len(Sources) /\ next' = next + 1 /\ UNCHANGED <<phase, turns, rounds>>
        /\ loadable' = loadable \/ loadable' = loadable \cup {next}
    BY <1>4 DEF LoadSource
  <2>2. next \in 1..Len(Sources) /\ next' \in 1..(Len(Sources) + 1)
    BY <2>1
  <2>3. loadable' \subseteq 1..Len(Sources)
    BY <2>1, <2>2
  <2>. QED  BY <2>1, <2>2, <2>3
<1>5. CASE CallModel
  <2>1. /\ UNCHANGED <<turns, loadable, next>> /\ phase' \in {"closing", "tools"}
        /\ rounds' = rounds \/ (rounds < MaxRounds /\ rounds' = rounds + 1)
    BY <1>5 DEF CallModel, skillVars
  <2>. QED  BY <1>1, <2>1
<1>. QED  BY <1>2, <1>3, <1>4, <1>5 DEF Next, SkillsLoaded, RoundDone, EndTurn, ChangeList, Report,
             AskSkill, AskRemote, TurnFails, CloseCancelled, Raises, vars, skillVars

\* Every variable holds a value of its kind, whatever fails.
THEOREM TurnTypes == Spec => []TypeOK
<1>1. Init => TurnInv
  <2>1. MaxTurns \in Nat /\ MaxRounds \in Nat
    BY AgentTurnAssumption
  <2>2. Len(Sources) \in Nat
    BY SourcesTypes
  <2>. QED  BY <2>1, <2>2 DEF Init, TurnInv
<1>2. Init => SkillInv
  BY SourcesTypes DEF Init, SkillInv, NoSkills, Found, OfferedSkillsStay
<1>3. SessionInv /\ SkillInv /\ ListInv /\ TurnInv => TypeOK
  <2>. SUFFICES ASSUME SessionInv, SkillInv, ListInv, TurnInv
                PROVE  TypeOK
    OBVIOUS
  <2>1. \A s \in Slot : call[s].request \in Request
    BY DEF ListInv, Call
  <2>. QED  BY <2>1 DEF SessionInv, SkillInv, ListInv, TurnInv, Found, TypeOK
<1>. QED  BY <1>1, <1>2, <1>3, StepSkills, StepTurn, SessionInvariant, ListInvariant, PTL DEF Spec
=============================================================================

------------------------------- MODULE AgentTurn -------------------------------
(***************************************************************************)
(* The turns of one agent with the skills and the checklist middlewares.   *)
(* A turn runs abefore_agent, then calls of the model with    *)
(* rounds of tool calls between them, then aafter_agent; the tool calls of  *)
(* a round run concurrently, and the next call of the model waits for them. *)
(*                                                                         *)
(* A step runs from one await to the next.  Texts are left out: a skill is  *)
(* the source it came from, an item of the checklist the call that made it. *)
(***************************************************************************)
EXTENDS Naturals, Sequences, SequencesExt, FiniteSets

CONSTANTS
  Sources,    \* skill_sources, in order: [skill, kind, format]
  Skill,      \* names of skills
  Slot,       \* the tool calls of one round
  MaxItems,   \* bound: items of a checklist
  MaxTurns,   \* bound: turns
  MaxRounds,  \* bound: rounds of tool calls, over all turns
  Faults      \* subset of {"raise", "cancel", "cancel close"}

ASSUME AgentTurnAssumption ==
  /\ Sources \in Seq([skill : Skill, kind : {"local", "remote"}, format : {"valid", "malformed"}])
  /\ MaxItems \in Nat \ {0} /\ MaxTurns \in Nat /\ MaxRounds \in Nat
  /\ Faults \subseteq {"raise", "cancel", "cancel close"}

VARIABLES
  phase,     \* where the turn is
  turns,     \* turns begun
  rounds,    \* rounds of tool calls begun
  session,   \* _session: 0 is None
  opened,    \* sessions made so far: 1 .. opened
  closed,    \* those of them that are closed
  cut,       \* history: the session whose close was cancelled last
  next,      \* the source _load_skills is at, or Len(Sources) + 1
  skills,    \* skills_dict: the source of each skill, 0 if there is none
  loadable,  \* the sources that were loaded
  list,      \* checklist
  made,      \* items made so far
  seen,      \* what the last prompt showed: [skills, list]
  call,      \* the tool call in each slot
  progress   \* what was last reported to the client

skillVars == <<session, opened, closed, cut, next, skills, loadable>>

listVars == <<list, made, progress>>

vars == <<phase, turns, rounds, skillVars, listVars, seen, call>>

Status == {"pending", "in_progress", "done", "skipped"}

Tool == {"none", "create", "update", "edit", "skill", "local", "remote"}

Item == [id : Nat, text : Nat, status : Status]

Request == [tool : Tool, n : 0..MaxItems, status : Status]

NoRequest == [tool |-> "none", n |-> 0, status |-> "pending"]

(***************************************************************************)
(* What the model may ask for.                                              *)
(***************************************************************************)
Requests ==
  {NoRequest}
    \cup [tool : {"create"}, n : 0..MaxItems, status : {"pending"}]
    \cup [tool : {"update"}, n : 0..MaxItems, status : {"in_progress", "done"}]
    \cup [tool : {"edit"}, n : 1..MaxItems, status : {"pending"}]
    \cup [tool : {"skill", "local", "remote"}, n : {0}, status : {"pending"}]

NoCall == [request |-> NoRequest, stage |-> "done", report |-> <<0, 0>>]

TypeOK ==
  /\ phase \in {"idle", "loading", "model", "tools", "closing"}
  /\ turns \in 0..MaxTurns /\ rounds \in 0..MaxRounds
  /\ session \in 0..opened /\ opened \in Nat /\ closed \subseteq 1..opened
  /\ cut \in 0..opened
  /\ next \in 1..(Len(Sources) + 1)
  /\ skills \in [Skill -> 0..Len(Sources)] /\ loadable \subseteq 1..Len(Sources)
  /\ list \in Seq(Item) /\ Len(list) <= MaxItems /\ made \in Nat
  /\ \A s \in Slot : call[s].request \in Request
-------------------------------------------------------------------------------
(***************************************************************************)
(* AgentSkillsMiddleware.                                                   *)
(***************************************************************************)
NoSkills == [sk \in Skill |-> 0]

(***************************************************************************)
(* Mutant: each turn has a session of its own, whatever the last one left.  *)
(***************************************************************************)
AlwaysNewSession ==
  /\ session' = opened + 1
  /\ opened' = opened + 1

OpenSession ==
  /\ session' = IF session = 0 THEN opened + 1 ELSE session
  /\ opened' = IF session = 0 THEN opened + 1 ELSE opened

(***************************************************************************)
(* Mutant: the sources are read in every turn.                              *)
(***************************************************************************)
EveryTurn == 1

FirstSource == IF skills = NoSkills THEN 1 ELSE Len(Sources) + 1

(***************************************************************************)
(* abefore_agent: the skills are loaded in the first turn, and again as     *)
(* long as none was found.                                                  *)
(***************************************************************************)
BeginTurn ==
  /\ phase = "idle" /\ turns < MaxTurns
  /\ OpenSession
  /\ next' = FirstSource
  /\ phase' = "loading"
  /\ turns' = turns + 1
  /\ UNCHANGED <<rounds, closed, cut, skills, loadable, listVars, seen, call>>

Registered(sk, i) == [skills EXCEPT ![sk] = i]

(***************************************************************************)
(* load_skill_resource_remote raises if the session is closed.              *)
(***************************************************************************)
SessionUsable == session \notin closed

(***************************************************************************)
(* _parse_skill_metadata: frontmatter that is a mapping with a valid name   *)
(* and a description.                                                       *)
(***************************************************************************)
Parsed(i) == Sources[i].format = "valid"

(***************************************************************************)
(* One source: a SKILL.md that is missing, malformed or out of reach is     *)
(* skipped, and any error is caught.                                        *)
(***************************************************************************)
LoadSource ==
  /\ phase = "loading" /\ next <= Len(Sources)
  /\ next' = next + 1
  /\ \/ UNCHANGED <<skills, loadable>>
     \/ /\ Sources[next].kind = "remote" => SessionUsable
        /\ Parsed(next)
        /\ skills' = Registered(Sources[next].skill, next)
        /\ loadable' = loadable \cup {next}
  /\ UNCHANGED <<phase, turns, rounds, session, opened, closed, cut, listVars, seen, call>>

SkillsLoaded ==
  /\ phase = "loading" /\ next > Len(Sources)
  /\ phase' = "model"
  /\ UNCHANGED <<turns, rounds, skillVars, listVars, seen, call>>

(***************************************************************************)
(* Mutant: the session is closed and not forgotten.                         *)
(***************************************************************************)
EndTurnStale ==
  /\ phase = "closing"
  /\ closed' = closed \cup ({session} \ {0})
  /\ phase' = "idle"
  /\ UNCHANGED <<turns, rounds, session, opened, cut, next, skills, loadable, listVars, seen,
                 call>>

(***************************************************************************)
(* aafter_agent: the session is closed, and forgotten once that was         *)
(* awaited.                                                                 *)
(***************************************************************************)
EndTurn ==
  /\ phase = "closing"
  /\ closed' = closed \cup ({session} \ {0})
  /\ session' = IF session \in closed THEN session ELSE 0
  /\ phase' = "idle"
  /\ UNCHANGED <<turns, rounds, opened, cut, next, skills, loadable, listVars, seen, call>>
-------------------------------------------------------------------------------
(***************************************************************************)
(* AgentChecklistMiddleware.  A report is <<done and skipped, total>>.      *)
(***************************************************************************)
Ratio(l) ==
  <<Cardinality({i \in DOMAIN l : l[i].status \in {"done", "skipped"}}), Len(l)>>

(***************************************************************************)
(* _normalize_item: an initial item with an unknown status is pending.      *)
(***************************************************************************)
Normalized(status) == IF status \in Status THEN status ELSE "pending"

(***************************************************************************)
(* create_checklist with n items that are not blank.                        *)
(***************************************************************************)
NewList(n) ==
  [i \in 1..n |-> [id |-> made + i, text |-> made + i, status |-> "pending"]]

InRange(n) == n \in DOMAIN list

(***************************************************************************)
(* Mutant: the index counts from zero.                                      *)
(***************************************************************************)
UpdatedFromZero(n, status) ==
  [i \in DOMAIN list |-> IF i = (n % Len(list)) + 1 THEN [list[i] EXCEPT !.status = status]
                         ELSE list[i]]

Updated(n, status) == [list EXCEPT ![n].status = status]

Edited(n) == [list EXCEPT ![n].text = made + 1]

(***************************************************************************)
(* What a call of one of the three tools makes of the checklist.  An index  *)
(* out of range is answered by an error.                                    *)
(***************************************************************************)
NewItems(r) ==
  IF r.tool = "create" THEN NewList(r.n)
  ELSE IF ~InRange(r.n) THEN list
  ELSE IF r.tool = "update" THEN Updated(r.n, r.status) ELSE Edited(r.n)

Refused(r) == r.tool # "create" /\ ~InRange(r.n)

At(s, stage) == phase = "tools" /\ call[s].stage = stage

Tools(s) == call[s].request.tool

(***************************************************************************)
(* The handlers await only to report progress, after the list was changed   *)
(* and its text and ratio computed; an empty list reports nothing.          *)
(***************************************************************************)
ChangeList(s) ==
  LET r == call[s].request
  IN  /\ At(s, "begun")
      /\ r.tool \in {"create", "update", "edit"}
      /\ list' = NewItems(r)
      /\ made' = made + MaxItems
      /\ call' = [call EXCEPT
           ![s].stage = IF Refused(r) \/ list' = <<>> THEN "done" ELSE "reporting",
           ![s].report = Ratio(list')]
      /\ UNCHANGED <<phase, turns, rounds, skillVars, progress, seen>>

Report(s) ==
  /\ At(s, "reporting")
  /\ progress' = call[s].report
  /\ call' = [call EXCEPT ![s].stage = "done"]
  /\ UNCHANGED <<phase, turns, rounds, skillVars, list, made, seen>>
-------------------------------------------------------------------------------
(***************************************************************************)
(* get_full_skill_content answers from the cache; the two other tools read  *)
(* a file or a URL below a source, and answer an error if they cannot.  A   *)
(* session that is closed raises, which neither the tool nor                *)
(* awrap_tool_call handles: the turn is over.                               *)
(***************************************************************************)
AskSkill(s) ==
  /\ At(s, "begun")
  /\ Tools(s) \in {"skill", "local"}
  /\ call' = [call EXCEPT ![s].stage = "done"]
  /\ UNCHANGED <<phase, turns, rounds, skillVars, listVars, seen>>

Raises == phase' = "idle" /\ call' = [s \in Slot |-> NoCall]

AskRemote(s) ==
  /\ At(s, "begun")
  /\ Tools(s) = "remote"
  /\ IF SessionUsable
     THEN call' = [call EXCEPT ![s].stage = "done"] /\ UNCHANGED phase
     ELSE Raises
  /\ UNCHANGED <<turns, rounds, skillVars, listVars, seen>>
-------------------------------------------------------------------------------
(***************************************************************************)
(* Mutant: only the tools report progress.                                  *)
(***************************************************************************)
NotReported == progress

Reported == IF list = <<>> THEN progress ELSE Ratio(list)

(***************************************************************************)
(* The two sections of the system prompt; one that is empty is left out.    *)
(***************************************************************************)
SkillsPrompt == skills

ChecklistPrompt == list

(***************************************************************************)
(* A call of the model.  It answers, or asks for a round of tool calls.     *)
(***************************************************************************)
CallModel ==
  /\ phase = "model"
  /\ seen' = [skills |-> SkillsPrompt, list |-> ChecklistPrompt]
  /\ progress' = Reported
  /\ \/ /\ phase' = "closing"
        /\ UNCHANGED <<rounds, call>>
     \/ /\ rounds < MaxRounds
        /\ rounds' = rounds + 1
        /\ phase' = "tools"
        /\ \E asked \in [Slot -> Requests] :
             call' = [s \in Slot |->
               [NoCall EXCEPT !.request = asked[s],
                              !.stage = IF asked[s].tool = "none" THEN "done" ELSE "begun"]]
  /\ UNCHANGED <<turns, skillVars, list, made>>

RoundDone ==
  /\ phase = "tools"
  /\ \A s \in Slot : call[s].stage = "done"
  /\ phase' = "model"
  /\ call' = [s \in Slot |-> NoCall]
  /\ UNCHANGED <<turns, rounds, skillVars, listVars, seen>>

(***************************************************************************)
(* The model or a tool raises, or the request is cancelled at an await:     *)
(* aafter_agent does not run.  A session whose close is cancelled is closed *)
(* already.                                                                 *)
(***************************************************************************)
TurnFails ==
  /\ \/ "raise" \in Faults /\ phase \in {"model", "tools"}
     \/ "cancel" \in Faults /\ phase \in {"loading", "model", "tools"}
  /\ Raises
  /\ UNCHANGED <<turns, rounds, skillVars, listVars, seen>>

CloseCancelled ==
  /\ "cancel close" \in Faults
  /\ phase = "closing"
  /\ phase' = "idle"
  /\ closed' = closed \cup ({session} \ {0})
  /\ cut' = session
  /\ UNCHANGED <<turns, rounds, session, opened, next, skills, loadable, listVars, seen, call>>

Init ==
  /\ phase = "idle" /\ turns = 0 /\ rounds = 0
  /\ session = 0 /\ opened = 0 /\ closed = {} /\ cut = 0 /\ next = 1
  /\ skills = NoSkills /\ loadable = {}
  /\ \E n \in 0..1 : \E status \in {"done", "unknown"} :
       list = [i \in 1..n |-> [id |-> i, text |-> i, status |-> Normalized(status)]]
  /\ made = 1
  /\ seen = [skills |-> NoSkills, list |-> <<>>]
  /\ call = [s \in Slot |-> NoCall]
  /\ progress = <<0, 0>>

Next ==
  \/ BeginTurn \/ LoadSource \/ SkillsLoaded \/ CallModel \/ RoundDone \/ EndTurn
  \/ \E s \in Slot : ChangeList(s) \/ Report(s) \/ AskSkill(s) \/ AskRemote(s)
  \/ TurnFails \/ CloseCancelled

Spec == Init /\ [][Next]_vars
-------------------------------------------------------------------------------
(***************************************************************************)
(* Properties.                                                              *)
(***************************************************************************)

(***************************************************************************)
(* Every session the middleware made is closed, or still its own: a turn    *)
(* that failed leaves its session to the next one.                          *)
(***************************************************************************)
NoSessionLeak == 1..opened \subseteq closed \cup {session}

(***************************************************************************)
(* The skills tools and the loading of skills never meet a closed session,  *)
(* unless the close at the end of an earlier turn was cancelled: then the   *)
(* closed session stays for good.                                           *)
(***************************************************************************)
SessionIsOpen ==
  phase \in {"loading", "model", "tools"} /\ session # cut => session \notin closed

(***************************************************************************)
(* A skill that a prompt offered is found, from the same source, by the     *)
(* tool calls of the same and of all later rounds and turns.                *)
(***************************************************************************)
OfferedSkillsStay ==
  \A sk \in Skill : seen.skills[sk] # 0 => skills[sk] = seen.skills[sk]

(***************************************************************************)
(* When a turn has ended well and there is a checklist, the client was last *)
(* told its present state, although the reports of concurrent tool calls    *)
(* may arrive in the wrong order.                                           *)
(***************************************************************************)
ProgressAtRest == phase = "closing" /\ list # <<>> => progress = Ratio(list)

(***************************************************************************)
(* A tool call updates or rewrites the item that had its number in the      *)
(* prompt the model saw, unless the same round replaces the checklist.      *)
(***************************************************************************)
ChangesSeenItem ==
  [][phase = "tools" /\ phase' = "tools" /\ (\A s \in Slot : Tools(s) # "create") =>
       \A i \in DOMAIN list : list'[i] # list[i] =>
         \E s \in Slot :
           /\ Tools(s) \in {"update", "edit"}
           /\ call[s].stage = "begun" /\ call'[s].stage # "begun"
           /\ seen.list[call[s].request.n].id = list'[i].id]_vars
===============================================================================

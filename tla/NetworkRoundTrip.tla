--------------------------- MODULE NetworkRoundTrip ---------------------------
(***************************************************************************)
(* A designed network on its way to a file (or a reservation) and back:     *)
(* both assemblers write it out with the instructions every agent shares,   *)
(* and _config_to_network_def reads it again, so that a later session can   *)
(* edit it.                                                                *)
(*                                                                         *)
(* The instructions of an agent are a sequence of pieces: its own text and  *)
(* the texts the assemblers put around it.  A network is the sequence of    *)
(* its agents, in the order of the dict.                                    *)
(***************************************************************************)
EXTENDS Naturals, Sequences, SequencesExt

CONSTANTS
  Agents,     \* names of agents
  DemoMode,   \* AGENT_NETWORK_DESIGNER_DEMO_MODE
  MaxAgents,  \* bound: agents in the network
  MaxRounds   \* bound: saves and reloads

ASSUME NetworkRoundTripAssumption ==
  DemoMode \in BOOLEAN /\ MaxAgents \in Nat \ {0} /\ MaxRounds \in Nat

VARIABLES
  net,    \* the network definition being edited
  file,   \* what was written for it, until it is read again
  phase,  \* "editing", "saved" or "loaded"
  rounds  \* reloads so far

roundTripVars == <<net, file, phase, rounds>>

Piece == {"prefix", "top", "own", "aaosa", "demo"}

Agent == [name : Agents, text : Seq(Piece), description : {"none", "default", "own"},
          tools : SUBSET Agents]

Names(n) == {n[i].name : i \in DOMAIN n}

RoundTripTypeOK ==
  /\ net \in Seq(Agent)
  /\ \A i, j \in DOMAIN net : net[i].name = net[j].name => i = j
  /\ \A i \in DOMAIN file : {"name", "tools"} \subseteq DOMAIN file[i]
  /\ phase \in {"editing", "saved", "loaded"}
  /\ rounds \in 0..MaxRounds

(***************************************************************************)
(* The agents no agent has for a tool; a valid network has exactly one.     *)
(***************************************************************************)
FrontMen(n) == {a \in Names(n) : \A i \in DOMAIN n : a \notin n[i].tools}

FrontMan(n) == CHOOSE a \in FrontMen(n) : TRUE

-------------------------------------------------------------------------------
(***************************************************************************)
(* Mutant: the dict keeps its order.                                        *)
(***************************************************************************)
KeepOrder(n, top) == n

(***************************************************************************)
(* _move_top_agent_first                                                    *)
(***************************************************************************)
MoveTopAgentFirst(n, top) ==
  LET i == CHOOSE i \in DOMAIN n : n[i].name = top IN <<n[i]>> \o RemoveAt(n, i)

(***************************************************************************)
(* _render_agent_block and the templates it fills in, which are those of    *)
(* the deployable assembler too.                                            *)
(***************************************************************************)
RenderAgentBlock(agent, top) ==
  LET Block(before, after, description) ==
        [name |-> agent.name, tools |-> agent.tools, description |-> description,
         instructions |-> before \o agent.text \o after]
  IN CASE agent.name = top ->
            Block(<<"prefix", "top">>, <<"aaosa">>,
                  IF agent.description = "none" THEN "default" ELSE agent.description)
       [] agent.name # top /\ agent.tools # {} ->
            Block(<<"prefix">>, <<"aaosa">>, agent.description)
       [] agent.name # top /\ agent.tools = {} /\ agent.text # <<>> ->
            Block(IF DemoMode THEN <<"prefix", "demo">> ELSE <<"prefix">>, <<>>, agent.description)
       [] agent.name # top /\ agent.tools = {} /\ agent.text = <<>> ->
            [name |-> agent.name, tools |-> {}, toolbox |-> agent.name]

AssembleAgentNetwork(n, top) ==
  LET ordered == MoveTopAgentFirst(n, top)
  IN [i \in DOMAIN ordered |-> RenderAgentBlock(ordered[i], top)]

-------------------------------------------------------------------------------
(***************************************************************************)
(* Mutant: nothing is removed.                                              *)
(***************************************************************************)
RemoveNothing(text) == text

(***************************************************************************)
(* _extract_custom_instructions.  What it removes of the pieces above is    *)
(* the demo text only: the pattern of the prefix wants "a team of           *)
(* assistants." where the templates write "a team of assistants in <name>.",*)
(* the aaosa text is looked for with its line breaks in a text that has     *)
(* none any more, and what the top agent's template adds is not looked for. *)
(***************************************************************************)
ExtractCustomInstructions(text) ==
  LET kept[i \in 0..Len(text)] ==
        IF i = 0 THEN <<>>
        ELSE IF text[i] = "demo" THEN kept[i - 1] ELSE Append(kept[i - 1], text[i])
  IN kept[Len(text)]

(***************************************************************************)
(* _parse_agent: a block without instructions is a toolbox agent.           *)
(***************************************************************************)
ParseAgent(block) ==
  IF "instructions" \in DOMAIN block
  THEN [name |-> block.name, tools |-> block.tools, description |-> block.description,
        text |-> ExtractCustomInstructions(block.instructions)]
  ELSE [name |-> block.name, tools |-> block.tools, description |-> "none", text |-> <<>>]

ConfigToNetworkDef(config) == [i \in DOMAIN config |-> ParseAgent(config[i])]

-------------------------------------------------------------------------------
(***************************************************************************)
(* The designer's tools: a new agent, with instructions or from the         *)
(* toolbox; other tools or other instructions for an agent; one removed.    *)
(***************************************************************************)
NewText == {<<>>, <<"own">>}

AddAgent(a) ==
  /\ a \notin Names(net) /\ Len(net) < MaxAgents
  /\ \E text \in NewText, description \in {"none", "own"} :
       net' = Append(net, [name |-> a, text |-> text, description |-> description, tools |-> {}])

ChangeAgent(i) ==
  \/ \E tools \in SUBSET (Names(net) \ {net[i].name}) : net' = [net EXCEPT ![i].tools = tools]
  \/ \E text \in NewText : net' = [net EXCEPT ![i].text = text]

RemoveAgent(i) ==
  net' = [j \in 1..(Len(net) - 1) |->
            LET agent == RemoveAt(net, i)[j] IN [agent EXCEPT !.tools = @ \ {net[i].name}]]

Edit ==
  /\ phase # "saved"
  /\ (\E a \in Agents : AddAgent(a)) \/ (\E i \in DOMAIN net : ChangeAgent(i) \/ RemoveAgent(i))
  /\ phase' = "editing"
  /\ UNCHANGED <<file, rounds>>

(***************************************************************************)
(* _assemble_and_persist of a network that has one front man.               *)
(***************************************************************************)
Save ==
  /\ phase # "saved" /\ rounds < MaxRounds
  /\ Len(net) > 0 /\ \A a, b \in FrontMen(net) : a = b
  /\ FrontMen(net) # {}
  /\ file' = AssembleAgentNetwork(net, FrontMan(net))
  /\ phase' = "saved"
  /\ UNCHANGED <<net, rounds>>

(***************************************************************************)
(* A later session resolves the network from the file or reservation.       *)
(***************************************************************************)
Load ==
  /\ phase = "saved"
  /\ net' = ConfigToNetworkDef(file)
  /\ phase' = "loaded"
  /\ rounds' = rounds + 1
  /\ file' = <<>>

RoundTripInit ==
  net = <<>> /\ file = <<>> /\ phase = "editing" /\ rounds = 0

RoundTripNext == Edit \/ Save \/ Load

RoundTripSpec == RoundTripInit /\ [][RoundTripNext]_roundTripVars

-------------------------------------------------------------------------------
Tools(n, a) == UNION {n[i].tools : i \in {j \in DOMAIN n : n[j].name = a}}

IsToolbox(n, a) == \E i \in DOMAIN n : n[i].name = a /\ n[i].tools = {} /\ n[i].text = <<>>

\* Equal but for the agents' texts.
SameAgents(before, after) ==
  /\ Names(before) = Names(after)
  /\ \A a \in Names(before) : Tools(before, a) = Tools(after, a)

\* Every toolbox agent is still one.
SameToolbox(before, after) ==
  \A a \in Names(before) \ FrontMen(before) : IsToolbox(before, a) <=> IsToolbox(after, a)

(***************************************************************************)
(* A reload gives the agents that were saved, with the same tools, and      *)
(* taken from the toolbox if they were before, the front man apart, which   *)
(* is never a toolbox agent.  The first agent of the file, where the server *)
(* looks for the front man, is the only front man before and after,         *)
(* whatever the order of the dict.                                          *)
(***************************************************************************)
SameNetwork ==
  [][phase = "saved" =>
       /\ SameAgents(net, net') /\ SameToolbox(net, net')
       /\ FrontMen(net) = {file[1].name} /\ FrontMen(net') = {file[1].name}]_roundTripVars

(***************************************************************************)
(* However often a network is saved and reloaded, no agent has the demo     *)
(* text twice in what is written.                                           *)
(***************************************************************************)
DemoTextOnce ==
  \A i \in DOMAIN file : "instructions" \in DOMAIN file[i] =>
    \A j, k \in DOMAIN file[i].instructions :
      file[i].instructions[j] = "demo" /\ file[i].instructions[k] = "demo" => j = k

(***************************************************************************)
(* "Extract only the unique instructions (remove aaosa instructions,        *)
(* instructions prefix, and demo mode)": a reload gives back the            *)
(* instructions that were saved.                                            *)
(***************************************************************************)
OnlyOwnInstructions ==
  phase = "loaded" =>
    \A i \in DOMAIN net : \A j \in DOMAIN net[i].text : net[i].text[j] \notin {"prefix", "aaosa"}
===============================================================================

--------------------------------- MODULE Runner ---------------------------------
(***************************************************************************)
(* `ns run`: NeuroSanRunner reads its configuration, loads its plugins,     *)
(* lets them act before the start (Phoenix may start a server of its own),  *)
(* checks the ports, starts nsflow and the server as sessions of their own  *)
(* and waits for them, until they end or a signal arrives.  Python runs the *)
(* signal handler in the main thread, on top of whatever that was doing,    *)
(* which may be a handler already.                                          *)
(***************************************************************************)
EXTENDS Naturals, FiniteSets, Sequences

CONSTANTS
  MaxSignals,  \* bound: signals sent to the runner
  MaxTries,    \* how often Phoenix's port is tried: 10
  MaxAttempts, \* how often the user is asked: 3
  Given,       \* where a setting is given a value: environment, command line
  Faults       \* what may go wrong besides, any part of it in any run

(***************************************************************************)
(* exit: a child ends by itself.  slow: the server takes longer than the    *)
(* ten seconds the handler waits.  early: a signal arrives after a child    *)
(* was started and before the runner has noted it.  soon: a signal arrives  *)
(* before the handler is installed.                                         *)
(***************************************************************************)
ASSUME RunnerAssumption ==
  /\ MaxSignals \in Nat /\ MaxTries \in Nat \ {0} /\ MaxAttempts \in Nat \ {0}
  /\ Given \subseteq {"environment", "command line"}
  /\ Faults \subseteq {"exit", "slow", "early", "soon"}

Children == {"nsflow", "server", "phoenix"}

PluginNames == {"phoenix", "log bridge"}

VARIABLES
  faults,   \* what may go wrong in this run
  wanted,   \* the children this run starts: --client-only, --server-only, autostart
  plugins,  \* the plugins that were loaded
  setting,  \* where args has that setting from
  exported, \* the same for the environment of the server's and nsflow's variables
  busy,     \* the children whose port somebody else uses
  child,    \* the state of each child process
  stage,    \* how far the server wrapper is
  noted,    \* the children whose Popen object the runner has
  drained,  \* the children whose pipes are read
  pc,       \* where the main thread is, below any handlers
  count,    \* tries of Phoenix's port, or attempts of the user
  frames,   \* the running handlers, the innermost last
  signals,  \* signals so far
  cleaned   \* the plugins whose cleanup() was called

fixed == <<faults, wanted>>

config == <<plugins, setting, exported>>

processes == <<child, stage, noted>>

vars == <<fixed, config, busy, processes, drained, pc, count, frames, signals, cleaned>>

ProcessState == {"none", "running", "zombie", "reaped"}

(***************************************************************************)
(* finished, refused: returned or exited by itself; clean: sys.exit(0) of   *)
(* the handler; error: an exception came out of the handler; interrupted:   *)
(* a signal came before there was a handler.                                *)
(***************************************************************************)
Ended == {"finished", "refused", "clean", "error", "interrupted"}

Unhandled == {"configure", "override", "export", "start phoenix", "try port"}

MainStep == {"check", "ask", "kill", "start nsflow", "note nsflow", "start server",
             "note server", "attach", "wait nsflow", "wait server"} \cup Unhandled \cup Ended

HandlerStep == {"stop server", "await server", "stop nsflow", "clean up"}

Stage == {"starting", "serving", "flushing", "flushed", "cut off", "stopped"}

TypeOK ==
  /\ faults \subseteq Faults
  /\ wanted \subseteq Children /\ busy \subseteq Children /\ noted \subseteq wanted
  /\ plugins \subseteq PluginNames
  /\ setting \in {"default", "environment", "command line"}
  /\ exported \in [{"nsflow", "server"} -> {"unset", "default", "environment", "command line"}]
  /\ \A c \in {"nsflow", "server"} : child[c] # "none" => exported[c] = setting
  /\ child \in [Children -> ProcessState] /\ stage \in Stage
  /\ \A c \in noted : child[c] # "none"
  /\ drained \subseteq Children
  /\ pc \in MainStep /\ count \in Nat
  /\ frames \in Seq(HandlerStep) /\ Len(frames) <= signals
  /\ signals \in 0..MaxSignals
  /\ cleaned \in {{}, plugins}

Top == frames[Len(frames)]

(***************************************************************************)
(* The main thread runs while no handler does.                              *)
(***************************************************************************)
Main(step) == pc = step /\ frames = <<>>

-------------------------------------------------------------------------------
(***************************************************************************)
(* What PluginLoader may return: a plugin that is not enabled or cannot be  *)
(* imported is left out, all of them if the file cannot be parsed.          *)
(***************************************************************************)
Loadable == SUBSET PluginNames

(***************************************************************************)
(* NeuroSanRunner.__init__.                                                 *)
(***************************************************************************)
Configure ==
  /\ Main("configure")
  /\ \E loaded \in Loadable : plugins' = loaded
  /\ setting' = IF "environment" \in Given THEN "environment" ELSE "default"
  /\ pc' = "override"
  /\ UNCHANGED <<fixed, exported, busy, processes, drained, count, frames, signals, cleaned>>

(***************************************************************************)
(* The plugins update args, then the command line overrides it.             *)
(***************************************************************************)
Override ==
  /\ Main("override")
  /\ setting' = IF "command line" \in Given THEN "command line" ELSE setting
  /\ pc' = "export"
  /\ UNCHANGED <<fixed, plugins, exported, busy, processes, drained, count, frames, signals,
                 cleaned>>

(***************************************************************************)
(* args is exported to the environment the children inherit: nsflow's part  *)
(* unless --server-only, the server's unless --client-only.                 *)
(***************************************************************************)
SetEnvironmentVariables ==
  /\ Main("export")
  /\ exported' = [c \in {"nsflow", "server"} |-> IF c \in wanted THEN setting ELSE "unset"]
  /\ pc' = "start phoenix"
  /\ UNCHANGED <<fixed, plugins, setting, busy, processes, drained, count, frames, signals,
                 cleaned>>

(***************************************************************************)
(* pre_server_start_action: PhoenixPlugin starts Phoenix unless somebody    *)
(* listens on its port, and waits for it to listen, for MaxTries seconds.   *)
(* The handler is installed after that.                                     *)
(***************************************************************************)
PhoenixPortOpen == "phoenix" \in busy

PhoenixNeeded == "phoenix" \in plugins \cap wanted /\ ~PhoenixPortOpen

StartPhoenix ==
  /\ Main("start phoenix")
  /\ IF PhoenixNeeded
     THEN /\ child' = [child EXCEPT !["phoenix"] = "running"]
          /\ noted' = noted \cup {"phoenix"}
          /\ pc' = "try port"
     ELSE pc' = "check" /\ UNCHANGED <<child, noted>>
  /\ UNCHANGED <<fixed, config, busy, stage, drained, count, frames, signals, cleaned>>

(***************************************************************************)
(* Mutant: the port is tried until Phoenix listens.                         *)
(***************************************************************************)
TryPortForEver ==
  /\ Main("try port")
  /\ count' = 0
  /\ \/ child["phoenix"] = "running" /\ pc' = "check"
     \/ UNCHANGED pc
  /\ UNCHANGED <<fixed, config, busy, processes, drained, frames, signals, cleaned>>

TryPort ==
  /\ Main("try port")
  /\ \/ child["phoenix"] = "running" /\ pc' = "check" /\ count' = 0
     \/ count + 1 < MaxTries /\ count' = count + 1 /\ UNCHANGED pc
     \/ count + 1 = MaxTries /\ count' = 0 /\ pc' = "check"
  /\ UNCHANGED <<fixed, config, busy, processes, drained, frames, signals, cleaned>>

-------------------------------------------------------------------------------
(***************************************************************************)
(* conditional_start_servers: the ports are tried, and the user may have    *)
(* what uses them killed; failing to do so is not noticed.                  *)
(***************************************************************************)
Servers == wanted \ {"phoenix"}

CheckPorts ==
  /\ Main("check")
  /\ pc' = IF Servers = {} THEN "refused"
           ELSE IF Servers \cap busy # {} THEN "ask" ELSE "start nsflow"
  /\ UNCHANGED <<fixed, config, busy, processes, drained, count, frames, signals, cleaned>>

(***************************************************************************)
(* yes, no or no input at all, or an answer that is neither.                *)
(***************************************************************************)
AskToKill ==
  /\ Main("ask")
  /\ \/ pc' \in {"kill", "refused"} /\ count' = 0
     \/ count + 1 < MaxAttempts /\ count' = count + 1 /\ UNCHANGED pc
     \/ count + 1 = MaxAttempts /\ count' = 0 /\ pc' = "refused"
  /\ UNCHANGED <<fixed, config, busy, processes, drained, frames, signals, cleaned>>

KillProcessesOnPorts ==
  /\ Main("kill")
  /\ \E killed \in SUBSET (Servers \cap busy) : busy' = busy \ killed
  /\ pc' = "start nsflow"
  /\ UNCHANGED <<fixed, config, processes, drained, count, frames, signals, cleaned>>

(***************************************************************************)
(* Popen, and the assignment of its result after the plugins were told: the *)
(* log bridge attaches itself to the pipes.                                 *)
(***************************************************************************)
After(c) == IF c = "nsflow" THEN "start server" ELSE "attach"

Starts(c) == IF c = "nsflow" THEN "start nsflow" ELSE "start server"

Notes(c) == IF c = "nsflow" THEN "note nsflow" ELSE "note server"

Waits(c) == IF c = "nsflow" THEN "wait nsflow" ELSE "wait server"

StartProcess(c) ==
  /\ Main(Starts(c))
  /\ IF c \in wanted
     THEN child' = [child EXCEPT ![c] = "running"] /\ pc' = Notes(c)
     ELSE pc' = After(c) /\ UNCHANGED child
  /\ UNCHANGED <<fixed, config, busy, stage, noted, drained, count, frames, signals, cleaned>>

NoteProcess(c) ==
  /\ Main(Notes(c))
  /\ noted' = noted \cup {c}
  /\ drained' = IF "log bridge" \in plugins THEN drained \cup {c} ELSE drained
  /\ pc' = After(c)
  /\ UNCHANGED <<fixed, config, busy, child, stage, count, frames, signals, cleaned>>

(***************************************************************************)
(* SimpleProcessLogger: a thread for each stream of each process it is told *)
(* of; Phoenix is none of them.                                             *)
(***************************************************************************)
Attached == drained \cup (noted \cap Servers)

(***************************************************************************)
(* Mutant: any plugin will do as the process logger.                        *)
(***************************************************************************)
AttachWithoutPlugins ==
  /\ Main("attach")
  /\ drained' = IF plugins = {} THEN Attached ELSE drained
  /\ pc' = "wait nsflow"
  /\ UNCHANGED <<fixed, config, busy, processes, count, frames, signals, cleaned>>

(***************************************************************************)
(* Without the log bridge a SimpleProcessLogger drains the pipes.           *)
(***************************************************************************)
AttachSimpleLogger ==
  /\ Main("attach")
  /\ drained' = IF "log bridge" \in plugins THEN drained ELSE Attached
  /\ pc' = "wait nsflow"
  /\ UNCHANGED <<fixed, config, busy, processes, count, frames, signals, cleaned>>

(***************************************************************************)
(* The end of run: nsflow_process.wait(), then server_process.wait().       *)
(***************************************************************************)
WaitForProcess(c) ==
  /\ Main(Waits(c))
  /\ c \in noted => child[c] = "zombie"
  /\ child' = IF c \in noted THEN [child EXCEPT ![c] = "reaped"] ELSE child
  /\ pc' = IF c = "nsflow" THEN "wait server" ELSE "finished"
  /\ UNCHANGED <<fixed, config, busy, stage, noted, drained, count, frames, signals, cleaned>>

-------------------------------------------------------------------------------
(***************************************************************************)
(* The server wrapper: once its plugins are initialized it serves; SIGTERM  *)
(* makes it leave the main loop and clean its plugins up, which flushes the *)
(* traces.  Another SIGTERM raises in the middle of that.                   *)
(***************************************************************************)
ServerServes ==
  /\ child["server"] = "running" /\ stage = "starting"
  /\ stage' = "serving"
  /\ UNCHANGED <<fixed, config, busy, child, noted, drained, pc, count, frames, signals, cleaned>>

StageAfterSigterm ==
  IF child["server"] # "running" THEN stage
  ELSE IF stage = "serving" THEN "flushing"
  ELSE IF stage = "flushing" THEN "cut off"
  ELSE IF stage = "starting" THEN "stopped"
  ELSE stage

Asked == stage \in {"flushing", "cut off", "stopped"}

(***************************************************************************)
(* Processes end: by themselves, when their port is taken, or because the   *)
(* handler asked the server to.                                             *)
(***************************************************************************)
ChildEnds(c) ==
  /\ child[c] = "running"
  /\ "exit" \in faults \/ c \in busy \/ (c = "server" /\ Asked)
  /\ child' = [child EXCEPT ![c] = "zombie"]
  /\ stage' = IF c = "server" /\ stage \in {"serving", "flushing"} THEN "flushed" ELSE stage
  /\ UNCHANGED <<fixed, config, busy, noted, drained, pc, count, frames, signals, cleaned>>

(***************************************************************************)
(* Before there is a handler a signal ends the runner.  Later the handler   *)
(* starts on top of what runs; its exceptions, sys.exit too, unwind all.    *)
(***************************************************************************)
Interrupt ==
  /\ "soon" \in faults
  /\ pc \in Unhandled /\ signals < MaxSignals
  /\ signals' = signals + 1
  /\ pc' = "interrupted"
  /\ UNCHANGED <<fixed, config, busy, processes, drained, count, frames, cleaned>>

Signal ==
  /\ pc \notin Ended \cup Unhandled /\ signals < MaxSignals
  /\ pc \in {"note nsflow", "note server"} => "early" \in faults
  /\ signals' = signals + 1
  /\ frames' = Append(frames, "stop server")
  /\ UNCHANGED <<fixed, config, busy, processes, drained, pc, count, cleaned>>

Go(step) == frames' = [frames EXCEPT ![Len(frames)] = step]

Unwind(how) == frames' = <<>> /\ pc' = how

Handler(step) == frames # <<>> /\ Top = step

(***************************************************************************)
(* Mutant: without a server there is nothing to stop.                       *)
(***************************************************************************)
StopServerOnly ==
  /\ Handler("stop server")
  /\ IF "server" \in noted /\ child["server"] = "reaped"
     THEN Unwind("error") /\ UNCHANGED stage
     ELSE /\ Go(IF "server" \in noted THEN "await server" ELSE "clean up")
          /\ stage' = IF "server" \in noted THEN StageAfterSigterm ELSE stage
          /\ UNCHANGED pc
  /\ UNCHANGED <<fixed, config, busy, child, noted, drained, count, signals, cleaned>>

(***************************************************************************)
(* os.killpg(os.getpgid(...)) raises for a process that was reaped.         *)
(***************************************************************************)
StopServer ==
  /\ Handler("stop server")
  /\ IF "server" \in noted /\ child["server"] = "reaped"
     THEN Unwind("error") /\ UNCHANGED stage
     ELSE /\ Go(IF "server" \in noted THEN "await server" ELSE "stop nsflow")
          /\ stage' = IF "server" \in noted THEN StageAfterSigterm ELSE stage
          /\ UNCHANGED pc
  /\ UNCHANGED <<fixed, config, busy, child, noted, drained, count, signals, cleaned>>

(***************************************************************************)
(* Mutants: the handler does not wait for the server, or waits without a    *)
(* timeout.                                                                 *)
(***************************************************************************)
DoNotWait ==
  /\ Handler("await server")
  /\ Go("stop nsflow")
  /\ UNCHANGED <<fixed, config, busy, processes, drained, pc, count, signals, cleaned>>

WaitForEver ==
  /\ Handler("await server")
  /\ child["server"] \in {"zombie", "reaped"} /\ pc # "wait server"
  /\ child' = [child EXCEPT !["server"] = "reaped"]
  /\ Go("stop nsflow")
  /\ UNCHANGED <<fixed, config, busy, stage, noted, drained, pc, count, signals, cleaned>>

(***************************************************************************)
(* server_process.wait(timeout=10).  When the signal came while the main    *)
(* thread was in server_process.wait(), that call holds the lock around     *)
(* waitpid: the handler's wait cannot reap the server and times out.        *)
(***************************************************************************)
AwaitServer ==
  /\ Handler("await server")
  /\ \/ /\ child["server"] \in {"zombie", "reaped"}
        /\ pc # "wait server" \/ child["server"] = "reaped"
        /\ child' = [child EXCEPT !["server"] = "reaped"]
        /\ Go("stop nsflow")
        /\ UNCHANGED pc
     \/ /\ \/ child["server"] = "zombie" /\ pc = "wait server"
           \/ child["server"] = "running" /\ "slow" \in faults
        /\ Unwind("error")
        /\ UNCHANGED child
  /\ UNCHANGED <<fixed, config, busy, stage, noted, drained, count, signals, cleaned>>

(***************************************************************************)
(* Mutant: a runner without nsflow exits at once.                           *)
(***************************************************************************)
ExitWithoutNsflow ==
  /\ Handler("stop nsflow")
  /\ IF "nsflow" \in noted
     THEN IF child["nsflow"] = "reaped"
          THEN Unwind("error") /\ UNCHANGED child
          ELSE /\ child' = [child EXCEPT !["nsflow"] = "zombie"]
               /\ Go("clean up")
               /\ UNCHANGED pc
     ELSE Unwind("clean") /\ UNCHANGED child
  /\ UNCHANGED <<fixed, config, busy, stage, noted, drained, count, signals, cleaned>>

(***************************************************************************)
(* SIGKILL to nsflow's session.                                             *)
(***************************************************************************)
StopNsflow ==
  /\ Handler("stop nsflow")
  /\ IF "nsflow" \in noted
     THEN IF child["nsflow"] = "reaped"
          THEN Unwind("error") /\ UNCHANGED child
          ELSE /\ child' = [child EXCEPT !["nsflow"] = "zombie"]
               /\ Go("clean up")
               /\ UNCHANGED pc
     ELSE Go("clean up") /\ UNCHANGED <<child, pc>>
  /\ UNCHANGED <<fixed, config, busy, stage, noted, drained, count, signals, cleaned>>

(***************************************************************************)
(* Mutant: Phoenix is left to itself.                                       *)
(***************************************************************************)
CleanUpLogsOnly ==
  /\ Handler("clean up")
  /\ cleaned' = plugins \ {"phoenix"}
  /\ Unwind("clean")
  /\ UNCHANGED <<fixed, config, busy, processes, drained, count, signals>>

PhoenixStopped ==
  IF "phoenix" \in noted THEN [child EXCEPT !["phoenix"] = "zombie"] ELSE child

(***************************************************************************)
(* plugin.cleanup() for every plugin, SIGKILL to Phoenix's session, and     *)
(* sys.exit(0).                                                             *)
(***************************************************************************)
CleanUp ==
  /\ Handler("clean up")
  /\ cleaned' = plugins
  /\ child' = PhoenixStopped
  /\ Unwind("clean")
  /\ UNCHANGED <<fixed, config, busy, stage, noted, drained, count, signals>>

Init ==
  /\ faults \in SUBSET Faults
  /\ wanted \in SUBSET Children /\ busy \in SUBSET Children
  /\ plugins = {} /\ setting = "default" /\ exported = [c \in {"nsflow", "server"} |-> "unset"]
  /\ child = [c \in Children |-> "none"] /\ stage = "starting" /\ noted = {} /\ drained = {}
  /\ pc = "configure" /\ count = 0 /\ frames = <<>> /\ signals = 0 /\ cleaned = {}

RunMain ==
  \/ Configure \/ Override \/ SetEnvironmentVariables \/ StartPhoenix \/ TryPort
  \/ CheckPorts \/ AskToKill \/ KillProcessesOnPorts \/ AttachSimpleLogger
  \/ \E c \in {"nsflow", "server"} : StartProcess(c) \/ NoteProcess(c) \/ WaitForProcess(c)

RunHandler == StopServer \/ AwaitServer \/ StopNsflow \/ CleanUp

Next ==
  \/ RunMain \/ RunHandler \/ Interrupt \/ Signal
  \/ ServerServes \/ \E c \in Children : ChildEnds(c)

(***************************************************************************)
(* The main thread and its handlers run; a server that was asked to stop    *)
(* does so in the end (unless it is slow, then the wait is cut short).      *)
(***************************************************************************)
Spec ==
  /\ Init /\ [][Next]_vars
  /\ WF_vars(RunMain)
  /\ WF_vars(RunHandler)
  /\ WF_vars(ChildEnds("server") /\ Asked /\ "slow" \notin faults)

-------------------------------------------------------------------------------
(***************************************************************************)
(* "Stopping all processes...": when the runner has gone because of a       *)
(* signal, no child it started is still running.  It does not hold with a   *)
(* slow server, nor before the handler is installed.                        *)
(***************************************************************************)
NoOrphans == pc \in {"clean", "error", "interrupted"} => \A c \in Children : child[c] # "running"

(***************************************************************************)
(* So it is for one signal that the handler gets, unless the server is slow *)
(* or the signal comes between the start of a child and its noting: in      *)
(* every mode, at every other point of the start, with children that end by *)
(* themselves.  Only Phoenix stays when the handler fails.                  *)
(***************************************************************************)
NoOrphansAfterOneSignal ==
  signals = 1 /\ faults \cap {"slow", "early", "soon"} = {} /\ pc \in {"clean", "error"} =>
    \A c \in Children : child[c] = "running" => c = "phoenix" /\ pc = "error"

(***************************************************************************)
(* "Stop Phoenix server if it was started by this plugin": whenever the     *)
(* runner has ended.  It does not hold: only the handler cleans up, after a *)
(* refusal and after the end of the other children Phoenix runs on.         *)
(***************************************************************************)
PhoenixIsStopped == pc \in Ended => child["phoenix"] # "running"

(***************************************************************************)
(* "Handle termination signals to cleanly exit": the handler of the first   *)
(* signal does not fail and cleans up every plugin, unless the server is    *)
(* slow or the signal interrupted the wait for the server.                  *)
(***************************************************************************)
FirstHandlerExitsCleanly ==
  [][frames # <<>> /\ pc' \in Ended /\ signals = 1 /\ pc # "wait server" /\ "slow" \notin faults =>
       /\ pc' = "clean" /\ cleaned' = plugins
       /\ child'["phoenix"] # "running"]_vars

(***************************************************************************)
(* The same for every run that ends after a signal.  It does not hold: in   *)
(* the wait for the server the handler's own wait times out.                *)
(***************************************************************************)
CleanExit == pc \in Ended /\ signals > 0 => pc = "clean" /\ cleaned = plugins

(***************************************************************************)
(* "Wait for the server to finish cleanup": a handler that knows of the     *)
(* server kills nsflow only after the server has ended, a handler on top of *)
(* another one too; and its traces are whole unless a second signal came    *)
(* while it flushed them.                                                   *)
(***************************************************************************)
ServerStopsFirst ==
  [][StopNsflow /\ "server" \in noted =>
       child["server"] # "running" /\ (signals = 1 => stage \in {"flushed", "stopped", "starting"})]_vars

(***************************************************************************)
(* "Prevent pipe buffer deadlocks": while the runner waits for its children *)
(* somebody reads their pipes, whichever plugins were loaded.  It is not so *)
(* of Phoenix, whose pipes nobody reads.                                    *)
(***************************************************************************)
PipesAreRead == pc \in {"wait nsflow", "wait server"} => noted \ {"phoenix"} \subseteq drained

(***************************************************************************)
(* A signal ends the runner, whatever the children do: the timeout of the   *)
(* wait sees to it.                                                         *)
(***************************************************************************)
SignalEndsRunner == frames # <<>> ~> pc \in Ended

(***************************************************************************)
(* The start comes to an end although Phoenix may never listen and the user *)
(* may never answer yes or no.                                              *)
(***************************************************************************)
StartEnds == <>(pc \in {"wait nsflow", "wait server"} \cup Ended \/ frames # <<>>)
===============================================================================

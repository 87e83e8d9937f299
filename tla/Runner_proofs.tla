------------------------------ MODULE Runner_proofs ------------------------------
(***************************************************************************)
(* Proofs about Runner, for any number of signals, tries and attempts: that *)
(* the children's pipes are read while the runner waits, that the server is *)
(* stopped before nsflow, what the handler of the first signal leaves, that *)
(* handlers wait for nothing that cannot come, and which settings the       *)
(* children are started with.                                               *)
(***************************************************************************)
EXTENDS Runner, SequenceTheorems, TLAPS

(***************************************************************************)
(* What the invariants speak of, typed.                                     *)
(***************************************************************************)
Typed ==
  /\ child \in [Children -> ProcessState]
  /\ noted \subseteq wanted /\ wanted \subseteq Children
  /\ pc \in MainStep /\ stage \in Stage
  /\ frames \in Seq(HandlerStep) /\ signals \in Nat /\ Len(frames) <= signals

(***************************************************************************)
(* A handler only runs on top of a main thread that has not ended, and not  *)
(* between the start and the noting of a child unless a signal may be early.*)
(***************************************************************************)
FramesOK ==
  frames # <<>> =>
    /\ pc \notin Ended \cup Unhandled
    /\ "early" \notin faults => pc \notin {"note nsflow", "note server"}

(***************************************************************************)
(* The runner has noted the children there are, but for the one it is just  *)
(* starting; it reaps nsflow at the end, or finds it ended already.         *)
(***************************************************************************)
ChildrenOK ==
  /\ \A c \in Children : c \in noted => child[c] # "none"
  /\ child["phoenix"] # "none" => "phoenix" \in noted
  /\ \A c \in {"nsflow", "server"} :
       child[c] # "none" /\ c \notin noted => pc = Notes(c) \/ pc \in Ended
  /\ \A c \in {"nsflow", "server"} : pc = Notes(c) => c \in wanted /\ child[c] # "none"
  /\ child["nsflow"] = "reaped" => pc = "wait server" \/ pc \in Ended
  /\ pc = "wait server" => child["nsflow"] # "running"

Past(steps) == \A i \in 1..Len(frames) : frames[i] \in steps

(***************************************************************************)
(* What the running handlers have done: those past the wait for the server  *)
(* have reaped it, those past nsflow have killed it.  Before them nobody    *)
(* has reaped the server.                                                   *)
(***************************************************************************)
HandlersOK ==
  /\ \A i \in 1..Len(frames) :
       /\ frames[i] \in {"stop nsflow", "clean up"} /\ "server" \in noted
            => child["server"] = "reaped"
       /\ frames[i] = "clean up" /\ "nsflow" \in noted => child["nsflow"] # "running"
  /\ signals <= 1 /\ pc \notin Ended /\ Past({"stop server", "await server"})
       => child["server"] # "reaped"

(***************************************************************************)
(* How far the server wrapper can be when there is no server, when it has   *)
(* ended, and while at most one signal was sent.                            *)
(***************************************************************************)
StageOK ==
  /\ child["server"] = "none" => stage = "starting"
  /\ child["server"] \in {"zombie", "reaped"} => stage \notin {"serving", "flushing"}
  /\ signals <= 1 /\ pc \notin Ended /\ Past({"stop server"})
       => stage \in {"starting", "serving", "flushed"}
  /\ signals <= 1 => stage # "cut off"

RunInv == Typed /\ FramesOK /\ ChildrenOK /\ HandlersOK /\ StageOK

-------------------------------------------------------------------------------
(***************************************************************************)
(* The stack of handlers.                                                   *)
(***************************************************************************)
\* An empty stack has no frame.
LEMMA EmptyStack ==
  \A i \in 1..Len(<<>>) : FALSE
<1>1. Len(<<>>) = 0
  BY EmptySeq
<1>2. \A i \in 1..0 : FALSE
  OBVIOUS
<1>. QED  BY <1>1, <1>2

\* Without a handler every statement about all handlers holds.
LEMMA NoHandler ==
  ASSUME frames = <<>>
  PROVE  Len(frames) = 0 /\ \A steps : Past(steps)
BY EmptySeq DEF Past

\* The innermost handler is an element of the stack.
LEMMA SomeHandler ==
  ASSUME Typed, frames # <<>>
  PROVE  /\ Len(frames) \in Nat \ {0} /\ Len(frames) \in 1..Len(frames)
         /\ frames[Len(frames)] = Top /\ Top \in HandlerStep
<1>1. Len(frames) \in Nat \ {0}
  BY EmptySeq DEF Typed
<1>2. Len(frames) \in 1..Len(frames)
  BY <1>1
<1>. QED  BY <1>1, <1>2, ElementOfSeq DEF Typed, Top

\* One more frame, one more signal.
LEMMA OneMore ==
  ASSUME NEW n \in Nat
  PROVE  /\ n + 1 \in Nat \ {0} /\ \A i \in 1..(n + 1) : i \in 1..n \/ i = n + 1
         /\ \A m \in Nat : m <= n => m <= n + 1 /\ m + 1 <= n + 1
         /\ n + 1 <= 1 => n <= 1
OBVIOUS

\* A signal adds a handler at its first step.
LEMMA Pushed ==
  ASSUME Typed, frames' = Append(frames, "stop server")
  PROVE  /\ frames' \in Seq(HandlerStep) /\ Len(frames') = Len(frames) + 1 /\ frames' # <<>>
         /\ \A i \in 1..Len(frames) : frames'[i] = frames[i]
         /\ \A i \in 1..Len(frames') : i \in 1..Len(frames) \/ frames'[i] = "stop server"
<1>1. "stop server" \in HandlerStep /\ frames \in Seq(HandlerStep)
  BY DEF HandlerStep, Typed
<1>2. Len(frames) \in Nat
  BY <1>1, LenProperties
<1>3. /\ frames' \in Seq(HandlerStep) /\ Len(frames') = Len(frames) + 1
      /\ \A i \in 1..Len(frames) : frames'[i] = frames[i]
      /\ frames'[Len(frames) + 1] = "stop server"
  BY <1>1, AppendProperties
<1>4. Len(frames') = Len(frames) + 1
  BY <1>3
<1>5. /\ Len(frames) + 1 # 0
      /\ \A i \in 1..(Len(frames) + 1) : i \in 1..Len(frames) \/ i = Len(frames) + 1
  BY <1>2, OneMore
<1>6. frames' # <<>>
  BY <1>4, <1>5, EmptySeq
<1>. QED  BY <1>3, <1>4, <1>5, <1>6

\* A handler's step changes the innermost frame.
LEMMA Gone ==
  ASSUME Typed, frames # <<>>, NEW step \in HandlerStep, Go(step)
  PROVE  /\ frames' \in Seq(HandlerStep) /\ Len(frames') = Len(frames) /\ frames' # <<>>
         /\ \A i \in 1..Len(frames) :
              \/ i = Len(frames) /\ frames'[i] = step
              \/ i # Len(frames) /\ frames'[i] = frames[i]
         /\ frames'[Len(frames)] = step
<1>1. Len(frames) \in 1..Len(frames) /\ Len(frames) \in Nat \ {0}
  BY SomeHandler
<1>2. /\ frames' \in Seq(HandlerStep) /\ Len(frames') = Len(frames)
      /\ \A j \in 1..Len(frames) : frames'[j] = IF j = Len(frames) THEN step ELSE frames[j]
  BY <1>1, ExceptSeq DEF Go, Typed
<1>3. frames' # <<>>
  BY <1>1, <1>2, EmptySeq
<1>. QED  BY <1>1, <1>2, <1>3

-------------------------------------------------------------------------------
\* Every step keeps the types, and one handler at most for each signal.
LEMMA StepTyped ==
  ASSUME RunInv, [Next]_vars
  PROVE  Typed'
<1>. USE DEF Typed, RunInv
<1>1. CASE UNCHANGED vars
  BY <1>1 DEF vars, fixed, processes
<1>2. CASE RunMain
  <2>1. wanted' = wanted /\ signals' = signals /\ frames' = frames /\ stage' = stage
    BY <1>2 DEF RunMain, Configure, Override, SetEnvironmentVariables, StartPhoenix, TryPort,
                CheckPorts, AskToKill, KillProcessesOnPorts, AttachSimpleLogger, StartProcess,
                NoteProcess, WaitForProcess, fixed, processes
  <2>2. child' \in [Children -> ProcessState]
    BY <1>2 DEF RunMain, Configure, Override, SetEnvironmentVariables, StartPhoenix, TryPort,
                CheckPorts, AskToKill, KillProcessesOnPorts, AttachSimpleLogger, StartProcess,
                NoteProcess, WaitForProcess, processes, Children, ProcessState
  <2>3. noted' \subseteq wanted
    <3>1. CASE StartPhoenix
      BY <3>1 DEF StartPhoenix, PhoenixNeeded
    <3>2. CASE \E c \in {"nsflow", "server"} : NoteProcess(c)
      BY <3>2 DEF NoteProcess, Main, ChildrenOK
    <3>3. CASE noted' = noted
      BY <3>3
    <3>. QED  BY <1>2, <3>1, <3>2, <3>3
              DEF RunMain, Configure, Override, SetEnvironmentVariables, TryPort, CheckPorts,
                  AskToKill, KillProcessesOnPorts, AttachSimpleLogger, StartProcess,
                  WaitForProcess, processes
  <2>4. pc' \in MainStep
    BY <1>2 DEF RunMain, Configure, Override, SetEnvironmentVariables, StartPhoenix, TryPort,
                CheckPorts, AskToKill, KillProcessesOnPorts, AttachSimpleLogger, StartProcess,
                NoteProcess, WaitForProcess, MainStep, Ended, Unhandled, After, Notes
  <2>. QED  BY <2>1, <2>2, <2>3, <2>4
<1>3. CASE RunHandler
  <2>1. wanted' = wanted /\ signals' = signals /\ noted' = noted
    BY <1>3 DEF RunHandler, StopServer, AwaitServer, StopNsflow, CleanUp, fixed, processes
  <2>2. child' \in [Children -> ProcessState] /\ stage' \in Stage /\ pc' \in MainStep
    BY <1>3 DEF RunHandler, StopServer, AwaitServer, StopNsflow, CleanUp, PhoenixStopped, Unwind,
                StageAfterSigterm, Stage, MainStep, Ended, Children, ProcessState
  <2>3. \/ frames' = <<>>
        \/ frames # <<>> /\ (Go("await server") \/ Go("stop nsflow") \/ Go("clean up"))
    BY <1>3 DEF RunHandler, StopServer, AwaitServer, StopNsflow, CleanUp, Unwind, Handler
  <2>4. frames' \in Seq(HandlerStep) /\ (Len(frames') = 0 \/ Len(frames') = Len(frames))
    BY <2>3, Gone, EmptySeq DEF HandlerStep
  <2>. QED  BY <2>1, <2>2, <2>4
<1>4. CASE Signal
  <2>1. wanted' = wanted /\ noted' = noted /\ child' = child /\ stage' = stage /\ pc' = pc
    BY <1>4 DEF Signal, fixed, processes
  <2>2. signals' = signals + 1 /\ frames' = Append(frames, "stop server")
    BY <1>4 DEF Signal
  <2>3. frames' \in Seq(HandlerStep) /\ Len(frames') = Len(frames) + 1 /\ Len(frames) \in Nat
    BY <2>2, Pushed, LenProperties
  <2>4. signals + 1 \in Nat /\ Len(frames) + 1 <= signals + 1
    BY <2>3, OneMore
  <2>. QED  BY <2>1, <2>2, <2>3, <2>4
<1>5. CASE Interrupt
  <2>1. /\ wanted' = wanted /\ noted' = noted /\ child' = child /\ stage' = stage
        /\ frames' = frames /\ signals' = signals + 1 /\ pc' = "interrupted"
    BY <1>5 DEF Interrupt, fixed, processes
  <2>2. Len(frames) \in Nat
    BY LenProperties
  <2>3. signals + 1 \in Nat /\ Len(frames) <= signals + 1
    BY <2>2, OneMore
  <2>. QED  BY <2>1, <2>3 DEF MainStep, Ended
<1>6. CASE ServerServes \/ \E c \in Children : ChildEnds(c)
  <2>1. /\ wanted' = wanted /\ noted' = noted /\ pc' = pc /\ frames' = frames
        /\ signals' = signals
    BY <1>6 DEF ServerServes, ChildEnds, fixed
  <2>2. child' \in [Children -> ProcessState] /\ stage' \in Stage
    BY <1>6 DEF ServerServes, ChildEnds, Stage, ProcessState
  <2>. QED  BY <2>1, <2>2
<1>. QED  BY <1>1, <1>2, <1>3, <1>4, <1>5, <1>6 DEF Next

\* Handlers never run over a main thread that has ended.
LEMMA StepFrames ==
  ASSUME RunInv, [Next]_vars
  PROVE  FramesOK'
<1>. USE DEF FramesOK, RunInv
<1>1. CASE UNCHANGED vars
  BY <1>1 DEF vars, fixed
<1>2. CASE RunMain
  <2>1. frames = <<>> /\ frames' = frames
    BY <1>2 DEF RunMain, Configure, Override, SetEnvironmentVariables, StartPhoenix, TryPort,
                CheckPorts, AskToKill, KillProcessesOnPorts, AttachSimpleLogger, StartProcess,
                NoteProcess, WaitForProcess, Main
  <2>. QED  BY <2>1
<1>3. CASE RunHandler
  <2>1. frames # <<>> /\ faults' = faults /\ (frames' = <<>> \/ pc' = pc)
    BY <1>3 DEF RunHandler, StopServer, AwaitServer, StopNsflow, CleanUp, Unwind, Handler, fixed
  <2>. QED  BY <2>1
<1>4. CASE Signal
  BY <1>4 DEF Signal, fixed
<1>5. CASE Interrupt
  <2>1. frames' = <<>>
    BY <1>5 DEF Interrupt
  <2>. QED  BY <2>1
<1>6. CASE ServerServes \/ \E c \in Children : ChildEnds(c)
  BY <1>6 DEF ServerServes, ChildEnds, fixed
<1>. QED  BY <1>1, <1>2, <1>3, <1>4, <1>5, <1>6 DEF Next

\* What the runner has noted agrees with the children there are.
LEMMA StepChildren ==
  ASSUME RunInv, [Next]_vars
  PROVE  ChildrenOK'
<1>. USE DEF ChildrenOK, RunInv, Typed, fixed
<1>1. CASE UNCHANGED vars
  BY <1>1 DEF vars, processes
<1>2. CASE Configure \/ Override \/ SetEnvironmentVariables \/ TryPort \/ CheckPorts
           \/ AskToKill \/ KillProcessesOnPorts \/ AttachSimpleLogger
  <2>1. child' = child /\ noted' = noted /\ wanted' = wanted
    BY <1>2 DEF Configure, Override, SetEnvironmentVariables, TryPort, CheckPorts, AskToKill,
                KillProcessesOnPorts, AttachSimpleLogger, processes
  <2>2. /\ pc \notin Ended \cup {"note nsflow", "note server", "wait nsflow", "wait server"}
        /\ pc' \notin {"note nsflow", "note server", "wait server"}
    BY <1>2 DEF Configure, Override, SetEnvironmentVariables, TryPort, CheckPorts, AskToKill,
                KillProcessesOnPorts, AttachSimpleLogger, Main, Ended
  <2>. QED  BY <2>1, <2>2 DEF Children, Notes
<1>3. CASE StartPhoenix
  BY <1>3 DEF StartPhoenix, Main, Ended, Notes, Children
<1>4. CASE \E c \in {"nsflow", "server"} : StartProcess(c)
  BY <1>4 DEF StartProcess, Main, Ended, Notes, Starts, After, Children
<1>5. CASE \E c \in {"nsflow", "server"} : NoteProcess(c)
  BY <1>5 DEF NoteProcess, Main, Ended, Notes, After, Children
<1>6. CASE \E c \in {"nsflow", "server"} : WaitForProcess(c)
  BY <1>6 DEF WaitForProcess, Main, Ended, Notes, Waits, Children
<1>7. CASE RunHandler
  BY <1>7 DEF RunHandler, StopServer, AwaitServer, StopNsflow, CleanUp, Unwind, Ended, Notes,
              PhoenixStopped, Children, processes
<1>8. CASE Signal
  BY <1>8 DEF Signal, processes
<1>9. CASE Interrupt
  BY <1>9 DEF Interrupt, processes, Ended, Unhandled, Notes
<1>10. CASE ServerServes \/ \E c \in Children : ChildEnds(c)
  BY <1>10 DEF ServerServes, ChildEnds, Children
<1>. QED  BY <1>1, <1>2, <1>3, <1>4, <1>5, <1>6, <1>7, <1>8, <1>9, <1>10 DEF Next, RunMain

\* With one signal at most there is one handler at most.
LEMMA OneFrame ==
  ASSUME Typed, frames # <<>>, signals <= 1
  PROVE  /\ Len(frames) = 1 /\ Top = frames[1] /\ signals = 1
         /\ \A steps : Top \in steps => Past(steps)
<1>1. Len(frames) \in Nat \ {0} /\ Top = frames[Len(frames)]
  BY SomeHandler
<1>2. signals \in Nat /\ Len(frames) <= signals
  BY DEF Typed
<1>3. Len(frames) = 1 /\ signals = 1
  BY <1>1, <1>2
<1>4. \A i \in 1..1 : i = 1
  OBVIOUS
<1>. QED  BY <1>1, <1>3, <1>4 DEF Past

\* Every handler has done what lies before its frame, however they nest.
LEMMA StepHandlers ==
  ASSUME RunInv, [Next]_vars
  PROVE  HandlersOK'
<1>. USE DEF RunInv
<1>1. CASE UNCHANGED vars
  BY <1>1 DEF vars, processes, HandlersOK, Past
<1>2. CASE RunMain
  <2>1. frames = <<>> /\ frames' = <<>> /\ signals' = signals /\ pc \notin Ended
    BY <1>2 DEF RunMain, Configure, Override, SetEnvironmentVariables, StartPhoenix, TryPort,
                CheckPorts, AskToKill, KillProcessesOnPorts, AttachSimpleLogger, StartProcess,
                NoteProcess, WaitForProcess, Main, Ended, Starts, Notes, Waits
  <2>2. pc' \notin Ended /\ child["server"] # "reaped" => child'["server"] # "reaped"
    BY <1>2 DEF RunMain, Configure, Override, SetEnvironmentVariables, StartPhoenix, TryPort,
                CheckPorts, AskToKill, KillProcessesOnPorts, AttachSimpleLogger, StartProcess,
                NoteProcess, WaitForProcess, Ended, Typed, Children, processes
  <2>3. Past({"stop server", "await server"})
    BY <2>1, NoHandler
  <2>4. \A i \in 1..Len(frames') : FALSE
    BY <2>1, EmptyStack
  <2>. QED  BY <2>1, <2>2, <2>3, <2>4 DEF HandlersOK
<1>3. CASE RunHandler /\ frames' = <<>>
  <2>1. pc' \in Ended
    BY <1>3, Gone DEF RunHandler, StopServer, AwaitServer, StopNsflow, CleanUp, Unwind, Handler,
                Ended, HandlerStep
  <2>2. \A i \in 1..Len(frames') : FALSE
    BY <1>3, EmptyStack
  <2>. QED  BY <2>1, <2>2 DEF HandlersOK
<1>4. CASE RunHandler /\ frames' # <<>>
  <2>1. /\ frames # <<>> /\ Len(frames) \in 1..Len(frames)
        /\ frames[Len(frames)] = Top
    BY <1>4, SomeHandler DEF RunHandler, StopServer, AwaitServer, StopNsflow, CleanUp, Handler
  <2>2. signals' = signals /\ noted' = noted /\ pc' = pc
    BY <1>4 DEF RunHandler, StopServer, AwaitServer, StopNsflow, CleanUp, Unwind, processes
  <2>3. CASE Top = "stop server" /\ child' = child
             /\ Go(IF "server" \in noted THEN "await server" ELSE "stop nsflow")
    <3>1. PICK step \in HandlerStep : step = IF "server" \in noted THEN "await server"
                                             ELSE "stop nsflow"
      BY DEF HandlerStep
    <3>2. /\ Len(frames') = Len(frames) /\ frames'[Len(frames)] = step
          /\ \A i \in 1..Len(frames) :
               \/ i = Len(frames) /\ frames'[i] = step
               \/ i # Len(frames) /\ frames'[i] = frames[i]
      BY <2>1, <2>3, <3>1, Gone
    <3>3. Past({"stop server", "await server"})' => Past({"stop server", "await server"})
      <4>1. \A i \in 1..Len(frames) : frames[i] = "stop server" \/ frames'[i] = frames[i]
        BY <2>1, <2>3, <3>2
      <4>. QED  BY <3>2, <4>1 DEF Past
    <3>. QED  BY <2>1, <2>2, <2>3, <3>1, <3>2, <3>3 DEF HandlersOK
  <2>4. CASE /\ Top = "await server" /\ child' = [child EXCEPT !["server"] = "reaped"]
             /\ Go("stop nsflow")
    <3>1. /\ Len(frames') = Len(frames) /\ frames'[Len(frames)] = "stop nsflow"
          /\ \A i \in 1..Len(frames) : frames'[i] = frames[i] \/ frames'[i] = "stop nsflow"
      BY <2>1, <2>4, Gone DEF HandlerStep
    <3>2. ~ Past({"stop server", "await server"})'
      BY <2>1, <3>1 DEF Past
    <3>3. child'["server"] = "reaped" /\ child'["nsflow"] = child["nsflow"]
      BY <2>4 DEF Typed, Children
    <3>. QED  BY <2>1, <2>2, <3>1, <3>2, <3>3 DEF HandlersOK
  <2>5. CASE /\ Top = "stop nsflow" /\ Go("clean up")
             /\ child'["server"] = child["server"]
             /\ "nsflow" \in noted => child'["nsflow"] # "running"
    <3>1. /\ Len(frames') = Len(frames) /\ frames'[Len(frames)] = "clean up"
          /\ \A i \in 1..Len(frames) : frames'[i] = frames[i] \/ frames'[i] = "clean up"
      BY <2>1, <2>5, Gone DEF HandlerStep
    <3>2. ~ Past({"stop server", "await server"})'
      BY <2>1, <3>1 DEF Past
    <3>. QED  BY <2>1, <2>2, <2>5, <3>1, <3>2 DEF HandlersOK
  <2>6. CASE StopServer
    BY <1>4, <2>3, <2>6 DEF StopServer, Handler, Unwind
  <2>7. CASE AwaitServer
    BY <1>4, <2>4, <2>7 DEF AwaitServer, Handler, Unwind
  <2>8. CASE StopNsflow
    BY <1>4, <2>5, <2>8 DEF StopNsflow, Handler, Unwind, Typed, Children
  <2>. QED  BY <1>4, <2>6, <2>7, <2>8 DEF RunHandler, CleanUp, Unwind
<1>5. CASE Signal
  <2>1. /\ signals' = signals + 1 /\ child' = child /\ noted' = noted /\ pc' = pc
        /\ frames' = Append(frames, "stop server")
    BY <1>5 DEF Signal, processes
  <2>2. /\ \A i \in 1..Len(frames) : frames'[i] = frames[i] /\ i \in 1..Len(frames')
        /\ \A i \in 1..Len(frames') : i \in 1..Len(frames) \/ frames'[i] = "stop server"
    <3>1. Len(frames') = Len(frames) + 1 /\ Len(frames) \in Nat
      BY <2>1, Pushed, LenProperties DEF Typed
    <3>2. \A i \in 1..Len(frames) : i \in 1..(Len(frames) + 1)
      BY <3>1
    <3>. QED  BY <2>1, <3>1, <3>2, Pushed
  <2>3. signals' <= 1 => signals <= 1
    BY <2>1, OneMore DEF Typed
  <2>4. Past({"stop server", "await server"})' => Past({"stop server", "await server"})
    BY <2>2 DEF Past
  <2>. QED  BY <2>1, <2>2, <2>3, <2>4 DEF HandlersOK
<1>6. CASE Interrupt
  <2>1. /\ child' = child /\ noted' = noted /\ frames' = frames /\ pc' \in Ended
    BY <1>6 DEF Interrupt, processes, Ended
  <2>. QED  BY <2>1 DEF HandlersOK
<1>7. CASE ServerServes \/ \E c \in Children : ChildEnds(c)
  <2>1. /\ noted' = noted /\ pc' = pc /\ frames' = frames /\ signals' = signals
        /\ child["server"] = "reaped" <=> child'["server"] = "reaped"
        /\ child["nsflow"] # "running" => child'["nsflow"] # "running"
    BY <1>7 DEF ServerServes, ChildEnds, Typed, Children
  <2>. QED  BY <2>1 DEF HandlersOK, Past
<1>. QED  BY <1>1, <1>2, <1>3, <1>4, <1>5, <1>6, <1>7 DEF Next

\* The stage of the wrapper agrees with the server's process.
LEMMA StepStage ==
  ASSUME RunInv, [Next]_vars
  PROVE  StageOK'
<1>. USE DEF RunInv
<1>1. CASE UNCHANGED vars
  BY <1>1 DEF vars, processes, StageOK, Past
<1>2. CASE RunMain
  <2>1. /\ frames = <<>> /\ frames' = <<>> /\ signals' = signals /\ pc \notin Ended
        /\ stage' = stage
    BY <1>2 DEF RunMain, Configure, Override, SetEnvironmentVariables, StartPhoenix, TryPort,
                CheckPorts, AskToKill, KillProcessesOnPorts, AttachSimpleLogger, StartProcess,
                NoteProcess, WaitForProcess, Main, Ended, Starts, Notes, Waits, processes
  <2>2. /\ child'["server"] = "none" => child["server"] = "none"
        /\ child'["server"] \in {"zombie", "reaped"} => child["server"] \in {"zombie", "reaped"}
    BY <1>2 DEF RunMain, Configure, Override, SetEnvironmentVariables, StartPhoenix, TryPort,
                CheckPorts, AskToKill, KillProcessesOnPorts, AttachSimpleLogger, StartProcess,
                NoteProcess, WaitForProcess, Typed, Children, processes
  <2>3. Past({"stop server"})
    BY <2>1, NoHandler
  <2>. QED  BY <2>1, <2>2, <2>3 DEF StageOK
<1>3. CASE StopServer
  <2>1. frames # <<>> /\ child' = child /\ signals' = signals /\ Top = "stop server"
    BY <1>3 DEF StopServer, Handler
  <2>2. stage' \in {stage, StageAfterSigterm}
    BY <1>3 DEF StopServer, Unwind
  <2>3. pc' \notin Ended => ~ Past({"stop server"})'
    <3>1. pc' \in Ended \/ Go("await server") \/ Go("stop nsflow")
      BY <1>3 DEF StopServer, Unwind, Ended
    <3>2. ASSUME NEW step \in HandlerStep \ {"stop server"}, Go(step)
          PROVE  ~ Past({"stop server"})'
      BY <2>1, <3>2, Gone, SomeHandler DEF Past
    <3>. QED  BY <3>1, <3>2 DEF HandlerStep
  <2>4. signals <= 1 => stage \in {"starting", "serving", "flushed"}
    BY <2>1, OneFrame DEF StageOK, FramesOK
  <2>. QED  BY <2>1, <2>2, <2>3, <2>4 DEF StageOK, StageAfterSigterm
<1>4. CASE AwaitServer \/ StopNsflow \/ CleanUp
  <2>1. /\ frames # <<>> /\ signals' = signals /\ stage' = stage /\ Top # "stop server"
    BY <1>4 DEF AwaitServer, StopNsflow, CleanUp, Handler
  <2>2. /\ child'["server"] = "none" => child["server"] = "none"
        /\ child'["server"] \in {"zombie", "reaped"} => child["server"] \in {"zombie", "reaped"}
    BY <1>4 DEF AwaitServer, StopNsflow, CleanUp, PhoenixStopped, Typed, Children
  <2>3. pc' \notin Ended => ~ Past({"stop server"})'
    <3>1. pc' \in Ended \/ Go("clean up") \/ Go("stop nsflow")
      BY <1>4 DEF AwaitServer, StopNsflow, CleanUp, Unwind, Ended
    <3>2. ASSUME NEW step \in HandlerStep \ {"stop server"}, Go(step)
          PROVE  ~ Past({"stop server"})'
      BY <2>1, <3>2, Gone, SomeHandler DEF Past
    <3>. QED  BY <3>1, <3>2 DEF HandlerStep
  <2>. QED  BY <2>1, <2>2, <2>3 DEF StageOK
<1>5. CASE Signal
  <2>1. /\ signals' = signals + 1 /\ child' = child /\ stage' = stage /\ pc' = pc
        /\ frames' = Append(frames, "stop server")
    BY <1>5 DEF Signal, processes
  <2>2. signals' <= 1 => signals <= 1
    BY <2>1, OneMore DEF Typed
  <2>3. Past({"stop server"})' => Past({"stop server"})
    <3>1. Len(frames') = Len(frames) + 1 /\ Len(frames) \in Nat
      BY <2>1, Pushed, LenProperties DEF Typed
    <3>2. \A i \in 1..Len(frames) : i \in 1..(Len(frames) + 1)
      BY <3>1
    <3>. QED  BY <2>1, <3>1, <3>2, Pushed DEF Past
  <2>. QED  BY <2>1, <2>2, <2>3 DEF StageOK
<1>6. CASE Interrupt
  <2>1. /\ child' = child /\ stage' = stage /\ pc' \in Ended /\ signals' = signals + 1
    BY <1>6 DEF Interrupt, processes, Ended
  <2>2. signals' <= 1 => signals <= 1
    BY <2>1, OneMore DEF Typed
  <2>. QED  BY <2>1, <2>2 DEF StageOK
<1>7. CASE ServerServes \/ \E c \in Children : ChildEnds(c)
  BY <1>7 DEF ServerServes, ChildEnds, Typed, Children, StageOK, Past
<1>. QED  BY <1>1, <1>2, <1>3, <1>4, <1>5, <1>6, <1>7 DEF Next, RunHandler

\* RunInv is inductive.
LEMMA RunInvariant == Spec => []RunInv
<1>1. Init => RunInv
  <2>. SUFFICES ASSUME Init PROVE RunInv
    OBVIOUS
  <2>1. frames = <<>> /\ signals = 0 /\ pc = "configure" /\ noted = {} /\ stage = "starting"
        /\ child = [c \in Children |-> "none"] /\ wanted \subseteq Children
    BY DEF Init
  <2>2. Len(frames) = 0 /\ frames \in Seq(HandlerStep)
    BY <2>1, EmptySeq
  <2>3. \A i \in 1..Len(frames) : FALSE
    BY <2>1, EmptyStack
  <2>4. Typed
    BY <2>1, <2>2 DEF Typed, MainStep, Unhandled, Stage, ProcessState
  <2>. QED  BY <2>1, <2>3, <2>4 DEF RunInv, FramesOK, ChildrenOK, HandlersOK, StageOK, Children,
               Notes
<1>2. RunInv /\ [Next]_vars => RunInv'
  BY StepTyped, StepFrames, StepChildren, StepHandlers, StepStage DEF RunInv
<1>. QED  BY <1>1, <1>2, PTL DEF Spec

-------------------------------------------------------------------------------
(***************************************************************************)
(* What the last step of the first handler finds: the children but Phoenix  *)
(* have ended, and all of them if the handler does not fail.                *)
(***************************************************************************)
\* In a handler, a child the runner has not noted was not started.
LEMMA UnnotedIsNone ==
  ASSUME RunInv, frames # <<>>, "early" \notin faults, NEW c \in Children, c \notin noted
  PROVE  child[c] = "none"
BY DEF RunInv, FramesOK, ChildrenOK, Children, Notes

\* The first handler ends with its clean-up; it fails in the wait for the
\* server only, when the children it noted have ended.
LEMMA LastStep ==
  ASSUME RunInv, RunHandler, signals = 1, "slow" \notin faults, pc' # pc
  PROVE  /\ pc' = "clean" => CleanUp
         /\ pc' = "error" => pc = "wait server" /\ \A c \in {"nsflow", "server"} :
                               c \in noted => child'[c] # "running"
         /\ pc' \in {"clean", "error"} /\ frames # <<>>
<1>0. signals <= 1
  OBVIOUS
<1>1. frames # <<>> /\ pc \notin Ended
  BY DEF RunHandler, StopServer, AwaitServer, StopNsflow, CleanUp, Handler, RunInv, FramesOK
<1>2. /\ Top \in {"stop server", "await server"} => child["server"] # "reaped"
      /\ Top = "stop nsflow" /\ "server" \in noted => child["server"] = "reaped"
  BY <1>0, <1>1, OneFrame, SomeHandler DEF RunInv, HandlersOK
<1>3. ~ (StopServer /\ pc' # pc)
  BY <1>2 DEF StopServer, Handler
<1>4. CASE AwaitServer
  <2>1. child["server"] = "zombie" /\ pc = "wait server" /\ child' = child /\ pc' = "error"
    BY <1>4 DEF AwaitServer, Unwind
  <2>. QED  BY <1>1, <2>1 DEF RunInv, ChildrenOK
<1>5. CASE StopNsflow
  <2>1. child["nsflow"] = "reaped" /\ child' = child /\ pc' = "error" /\ Top = "stop nsflow"
    BY <1>5 DEF StopNsflow, Unwind, Handler
  <2>. QED  BY <1>1, <1>2, <2>1 DEF RunInv, ChildrenOK
<1>6. CASE CleanUp
  BY <1>1, <1>6 DEF CleanUp, Unwind
<1>. QED  BY <1>3, <1>4, <1>5, <1>6 DEF RunHandler

\* The clean-up leaves no noted child running.
LEMMA CleanedUp ==
  ASSUME RunInv, CleanUp, signals = 1
  PROVE  /\ cleaned' = plugins /\ frames # <<>>
         /\ \A c \in Children : c \in noted => child'[c] # "running"
<1>1. frames # <<>> /\ Top = "clean up" /\ child' = PhoenixStopped /\ cleaned' = plugins
  BY DEF CleanUp, Handler
<1>2. /\ "server" \in noted => child["server"] = "reaped"
      /\ "nsflow" \in noted => child["nsflow"] # "running"
  BY <1>1, SomeHandler DEF RunInv, HandlersOK
<1>. QED  BY <1>1, <1>2 DEF PhoenixStopped, Children, RunInv, Typed

\* After one signal that the handler got, with a server that ends in time and
\* no signal between a start and its noting, no child is left running, except
\* Phoenix if the handler failed: in every mode, at every point of the start,
\* with any ports taken and any child that ends by itself.
THEOREM NoChildIsLeft == Spec => []NoOrphansAfterOneSignal
<1>1. Init => NoOrphansAfterOneSignal
  BY DEF Init, NoOrphansAfterOneSignal
<1>2. ASSUME RunInv, NoOrphansAfterOneSignal, [Next]_vars
      PROVE  NoOrphansAfterOneSignal'
  <2>. SUFFICES ASSUME (signals = 1)', (faults \cap {"slow", "early", "soon"} = {})',
                       (pc \in {"clean", "error"})', NEW c \in Children,
                       (child[c] = "running")'
                PROVE  c = "phoenix" /\ pc' = "error"
    BY DEF NoOrphansAfterOneSignal
  <2>1. CASE UNCHANGED vars
    BY <1>2, <2>1 DEF vars, fixed, processes, NoOrphansAfterOneSignal
  <2>2. CASE ServerServes \/ \E d \in Children : ChildEnds(d)
    <3>1. UNCHANGED <<faults, signals, pc>> /\ child[c] = "running"
      BY <1>2, <2>2 DEF ServerServes, ChildEnds, fixed, RunInv, Typed
    <3>. QED  BY <1>2, <3>1 DEF NoOrphansAfterOneSignal
  <2>3. ~ (RunMain \/ Signal \/ Interrupt)
    BY DEF RunMain, Configure, Override, SetEnvironmentVariables, StartPhoenix, TryPort,
           CheckPorts, AskToKill, KillProcessesOnPorts, AttachSimpleLogger, StartProcess,
           NoteProcess, WaitForProcess, Signal, Interrupt, Ended, After, Notes, Main
  <2>4. CASE RunHandler
    <3>1. /\ signals = 1 /\ "slow" \notin faults /\ "early" \notin faults /\ noted' = noted
          /\ frames # <<>>
      BY <2>4 DEF RunHandler, StopServer, AwaitServer, StopNsflow, CleanUp, fixed, processes,
                  Handler
    <3>2. pc' # pc
      BY <1>2, <3>1 DEF RunInv, FramesOK, Ended
    <3>3. CASE pc' = "clean"
      <4>1. CleanUp
        BY <1>2, <2>4, <3>1, <3>2, <3>3, LastStep
      <4>2. c \notin noted
        BY <1>2, <3>1, <4>1, CleanedUp
      <4>3. child[c] = "none"
        BY <1>2, <3>1, <4>2, UnnotedIsNone
      <4>. QED  BY <1>2, <4>1, <4>2, <4>3 DEF CleanUp, PhoenixStopped, Children, RunInv, Typed
    <3>4. CASE pc' = "error" /\ c # "phoenix"
      <4>1. c \notin noted
        BY <1>2, <2>4, <3>1, <3>2, <3>4, LastStep DEF Children
      <4>2. child[c] = "none"
        BY <1>2, <3>1, <4>1, UnnotedIsNone
      <4>3. child' = child
        BY <2>4, <3>4, <4>2, <3>2 DEF RunHandler, StopServer, AwaitServer, StopNsflow, CleanUp,
                                      Unwind
      <4>. QED  BY <4>2, <4>3
    <3>. QED  BY <3>3, <3>4
  <2>. QED  BY <1>2, <2>1, <2>2, <2>3, <2>4 DEF Next
<1>. QED  BY <1>1, <1>2, RunInvariant, PTL DEF Spec

\* The handler of the first signal does not fail, cleans up every plugin and
\* ends Phoenix, at every point of the start and the run but the wait for the
\* server, and with a server that ends in time.
THEOREM FirstHandlerIsClean == Spec => FirstHandlerExitsCleanly
<1>1. ASSUME RunInv, [Next]_vars, frames # <<>>, pc' \in Ended, signals = 1,
             pc # "wait server", "slow" \notin faults
      PROVE  pc' = "clean" /\ cleaned' = plugins /\ child'["phoenix"] # "running"
  <2>1. pc \notin Ended \cup Unhandled
    BY <1>1 DEF RunInv, FramesOK
  <2>2. RunHandler
    BY <1>1, <2>1 DEF Next, vars, RunMain, Configure, Override, SetEnvironmentVariables,
           StartPhoenix, TryPort, CheckPorts, AskToKill, KillProcessesOnPorts,
           AttachSimpleLogger, StartProcess, NoteProcess, WaitForProcess, Main, Signal,
           Interrupt, ServerServes, ChildEnds
  <2>3. pc' = "clean" /\ CleanUp
    BY <1>1, <2>1, <2>2, LastStep
  <2>4. cleaned' = plugins /\ ("phoenix" \in noted => child'["phoenix"] # "running")
    BY <1>1, <2>3, CleanedUp DEF Children
  <2>5. "phoenix" \notin noted => child'["phoenix"] # "running"
    BY <1>1, <2>3 DEF CleanUp, PhoenixStopped, RunInv, ChildrenOK
  <2>. QED  BY <2>3, <2>4, <2>5
<1>. QED  BY <1>1, RunInvariant, PTL DEF Spec, FirstHandlerExitsCleanly

\* However many signals arrive, on top of each other: nsflow is killed only
\* after the server has ended, with its traces flushed if there was one signal.
THEOREM ServerIsStoppedFirst == Spec => ServerStopsFirst
<1>1. ASSUME RunInv, StopNsflow, "server" \in noted
      PROVE  /\ child["server"] # "running"
             /\ signals = 1 => stage \in {"flushed", "stopped", "starting"}
  <2>1. frames # <<>> /\ Top = "stop nsflow"
    BY <1>1 DEF StopNsflow, Handler
  <2>2. child["server"] = "reaped"
    BY <1>1, <2>1, SomeHandler DEF RunInv, HandlersOK
  <2>3. signals = 1 => signals <= 1
    OBVIOUS
  <2>. QED  BY <1>1, <2>2, <2>3 DEF RunInv, StageOK, Typed, Stage
<1>. QED  BY <1>1, RunInvariant, PTL DEF Spec, ServerStopsFirst

-------------------------------------------------------------------------------
(***************************************************************************)
(* The pipes.  The log bridge reads them as soon as the runner has noted a  *)
(* child; without it nobody does until the runner attaches its own readers. *)
(***************************************************************************)
PipesInv ==
  /\ pc = "configure" => noted = {}
  /\ "log bridge" \in plugins => noted \ {"phoenix"} \subseteq drained
  /\ PipesAreRead

\* While the runner waits for its children somebody reads their pipes,
\* whichever plugins were loaded and whichever children were wanted.
THEOREM PipesAreAlwaysRead == Spec => []PipesAreRead
<1>1. Init => PipesInv
  BY DEF Init, PipesInv, PipesAreRead
<1>2. ASSUME RunInv, PipesInv, [Next]_vars
      PROVE  PipesInv'
  <2>. USE <1>2 DEF PipesInv, PipesAreRead
  <2>1. CASE Configure \/ Override \/ SetEnvironmentVariables \/ StartPhoenix \/ TryPort
             \/ CheckPorts \/ AskToKill \/ KillProcessesOnPorts
    BY <2>1 DEF Configure, Override, SetEnvironmentVariables, StartPhoenix, TryPort,
                CheckPorts, AskToKill, KillProcessesOnPorts, Main, processes, config
  <2>2. CASE AttachSimpleLogger
    BY <2>2 DEF AttachSimpleLogger, Attached, Servers, Main, processes, config, RunInv, Typed
  <2>3. CASE \E c \in {"nsflow", "server"} : StartProcess(c) \/ NoteProcess(c) \/ WaitForProcess(c)
    BY <2>3 DEF StartProcess, NoteProcess, WaitForProcess, Main, Starts, Notes, Waits, After,
                config
  <2>4. CASE RunHandler
    BY <2>4 DEF RunHandler, StopServer, AwaitServer, StopNsflow, CleanUp, Unwind, config,
                processes
  <2>5. CASE Signal \/ Interrupt \/ ServerServes \/ \E c \in Children : ChildEnds(c)
    BY <2>5 DEF Signal, Interrupt, ServerServes, ChildEnds, config, processes
  <2>6. CASE UNCHANGED vars
    BY <2>6 DEF vars, config, processes
  <2>. QED  BY <2>1, <2>2, <2>3, <2>4, <2>5, <2>6 DEF Next, RunMain
<1>3. PipesInv => PipesAreRead
  BY DEF PipesInv
<1>. QED  BY <1>1, <1>2, <1>3, RunInvariant, PTL DEF Spec

-------------------------------------------------------------------------------
(***************************************************************************)
(* The settings: until they have been exported no server is started, and    *)
(* then they change no more.  The plugins are loaded before any is cleaned  *)
(* up.                                                                      *)
(***************************************************************************)
Configuring == {"configure", "override", "export"}

SettingsOK ==
  /\ faults \subseteq Faults /\ busy \subseteq Children /\ drained \subseteq Children
  /\ plugins \subseteq PluginNames /\ count \in Nat /\ signals <= MaxSignals
  /\ setting \in {"default", "environment", "command line"}
  /\ exported \in [{"nsflow", "server"} -> {"unset", "default", "environment", "command line"}]
  /\ cleaned \in {{}, plugins} /\ (pc = "configure" => cleaned = {})

SettingsKept ==
  \A c \in {"nsflow", "server"} :
    /\ child[c] # "none" => c \in wanted /\ exported[c] = setting /\ pc \notin Configuring
    /\ pc \notin Configuring \cup {"interrupted"} /\ c \in wanted => exported[c] = setting

\* A number counted up to a bound.
LEMMA CountedUp ==
  ASSUME NEW n \in Nat, NEW m \in Nat
  PROVE  /\ n + 1 \in Nat /\ 0 \in Nat /\ 0 <= m
         /\ n < m => n + 1 <= m
         /\ n <= m => n \in 0..m
OBVIOUS

\* Loading and overriding settings comes first; whatever runs later leaves them.
LEMMA StepSettings ==
  ASSUME RunInv, SettingsOK, SettingsKept, [Next]_vars
  PROVE  SettingsOK' /\ SettingsKept'
<1>. USE DEF SettingsOK, SettingsKept, Configuring, fixed, config, processes
<1>0. /\ child \in [Children -> ProcessState] /\ {"nsflow", "server"} \subseteq Children
      /\ signals \in Nat
  BY DEF RunInv, Typed, Children
<1>1. CASE UNCHANGED vars
  BY <1>1 DEF vars
<1>2. CASE Configure
  BY <1>0, <1>2 DEF Configure, Main, Loadable
<1>3. CASE Override \/ SetEnvironmentVariables
  BY <1>0, <1>3 DEF Override, SetEnvironmentVariables, Main
<1>4. CASE StartPhoenix \/ TryPort \/ CheckPorts \/ AskToKill \/ KillProcessesOnPorts
  <2>1. /\ child' = child \/ child' = [child EXCEPT !["phoenix"] = "running"]
        /\ pc \notin Configuring \cup {"interrupted"} /\ pc' \notin Configuring \cup {"interrupted"}
        /\ busy' \subseteq busy
    BY <1>4 DEF StartPhoenix, TryPort, CheckPorts, AskToKill, KillProcessesOnPorts, Main
  <2>3. count' \in {count, 0, count + 1}
    BY <1>4 DEF StartPhoenix, TryPort, CheckPorts, AskToKill, KillProcessesOnPorts
  <2>4. count' \in Nat
    BY <2>3, CountedUp
  <2>5. \A c \in {"nsflow", "server"} : child'[c] = child[c]
    BY <1>0, <2>1
  <2>2. UNCHANGED <<faults, wanted, plugins, setting, exported, drained, signals, cleaned>>
    BY <1>4 DEF StartPhoenix, TryPort, CheckPorts, AskToKill, KillProcessesOnPorts
  <2>. QED  BY <2>1, <2>2, <2>4, <2>5
<1>5. CASE AttachSimpleLogger \/ \E c \in {"nsflow", "server"} :
             StartProcess(c) \/ NoteProcess(c) \/ WaitForProcess(c)
  <2>1. /\ pc \notin Configuring \cup {"interrupted"} /\ pc' \notin Configuring \cup {"interrupted"}
        /\ UNCHANGED <<faults, wanted, busy, plugins, setting, exported, count, signals, cleaned>>
    BY <1>5 DEF AttachSimpleLogger, StartProcess, NoteProcess, WaitForProcess, Main, Starts, Notes,
                Waits, After
  <2>2. drained' \subseteq Children
    BY <1>5 DEF AttachSimpleLogger, StartProcess, NoteProcess, WaitForProcess, Attached, Servers,
                RunInv, Typed, Children
  <2>3. \A c \in {"nsflow", "server"} : child'[c] # "none" => child[c] # "none" \/ c \in wanted
    BY <1>0, <1>5 DEF AttachSimpleLogger, StartProcess, NoteProcess, WaitForProcess, RunInv,
                      ChildrenOK
  <2>. QED  BY <2>1, <2>2, <2>3
<1>6. CASE RunHandler
  <2>1. pc \notin Configuring \cup {"interrupted"}
    BY <1>6 DEF RunHandler, StopServer, AwaitServer, StopNsflow, CleanUp, Handler, RunInv,
                FramesOK, Unhandled, Ended
  <2>2. pc' \in {pc, "error", "clean"} /\ cleaned' \in {cleaned, plugins}
    BY <1>6 DEF RunHandler, StopServer, AwaitServer, StopNsflow, CleanUp, Unwind
  <2>3. UNCHANGED <<faults, wanted, busy, plugins, setting, exported, drained, count, signals>>
    BY <1>6 DEF RunHandler, StopServer, AwaitServer, StopNsflow, CleanUp
  <2>4. \A c \in {"nsflow", "server"} : child'[c] # "none" => child[c] # "none" \/ c \in noted
    BY <1>0, <1>6 DEF RunHandler, StopServer, AwaitServer, StopNsflow, CleanUp, PhoenixStopped,
                      RunInv, HandlersOK
  <2>5. noted \subseteq wanted
    BY DEF RunInv, Typed
  <2>6. UNCHANGED child \/ \A c \in {"nsflow", "server"} : child'[c] # "none" => c \in wanted
    BY <2>4, <2>5
  <2>. QED  BY <2>1, <2>2, <2>3, <2>4, <2>5
<1>7. CASE Interrupt \/ Signal
  <2>1. /\ UNCHANGED <<faults, wanted, busy, child, plugins, setting, exported, drained, count,
                      cleaned>>
        /\ signals < MaxSignals /\ signals' = signals + 1
        /\ pc' = pc \/ pc' = "interrupted"
    BY <1>7 DEF Interrupt, Signal
  <2>2. MaxSignals \in Nat
    BY RunnerAssumption
  <2>3. signals' <= MaxSignals
    BY <1>0, <2>1, <2>2, CountedUp
  <2>. QED  BY <2>1, <2>3
<1>8. CASE ServerServes \/ \E c \in Children : ChildEnds(c)
  <2>1. UNCHANGED <<faults, wanted, busy, plugins, setting, exported, drained, pc, count, signals,
                   cleaned>>
    BY <1>8 DEF ServerServes, ChildEnds
  <2>2. \A c \in Children : child'[c] # "none" => child[c] # "none"
    BY <1>0, <1>8 DEF ServerServes, ChildEnds
  <2>. QED  BY <1>0, <2>1, <2>2
<1>. QED  BY <1>1, <1>2, <1>3, <1>4, <1>5, <1>6, <1>7, <1>8 DEF Next, RunMain

\* Types; and the environment that nsflow and the server were started with has
\* the setting the runner ended up with, whichever of them run and whatever
\* interrupts their start.
THEOREM RunnerTypes == Spec => []TypeOK
<1>1. Init => SettingsOK /\ SettingsKept
  <2>. SUFFICES ASSUME Init PROVE SettingsOK /\ SettingsKept
    OBVIOUS
  <2>0. MaxSignals \in Nat
    BY RunnerAssumption
  <2>1. signals = 0 /\ 0 <= MaxSignals
    BY <2>0, CountedUp DEF Init
  <2>2. \A c \in {"nsflow", "server"} : child[c] = "none"
    BY DEF Init, Children
  <2>. QED  BY <2>1, <2>2 DEF Init, SettingsOK, SettingsKept, Configuring
<1>2. RunInv /\ SettingsOK /\ SettingsKept /\ [Next]_vars => SettingsOK' /\ SettingsKept'
  BY StepSettings
<1>3. RunInv /\ SettingsOK /\ SettingsKept => TypeOK
  <2>. SUFFICES ASSUME RunInv, SettingsOK, SettingsKept PROVE TypeOK
    OBVIOUS
  <2>0. MaxSignals \in Nat /\ signals \in Nat /\ signals <= MaxSignals
    BY RunnerAssumption DEF RunInv, Typed, SettingsOK
  <2>1. signals \in 0..MaxSignals
    BY <2>0, CountedUp
  <2>2. /\ \A c \in {"nsflow", "server"} : child[c] # "none" => exported[c] = setting
        /\ \A c \in noted : child[c] # "none"
    BY DEF RunInv, Typed, ChildrenOK, SettingsKept
  <2>. QED  BY <2>1, <2>2 DEF RunInv, Typed, SettingsOK, TypeOK
<1>. QED  BY <1>1, <1>2, <1>3, RunInvariant, PTL DEF Spec

-------------------------------------------------------------------------------
(***************************************************************************)
(* What SignalEndsRunner rests on, apart from fairness: a handler waits for *)
(* the server only after it asked it to stop, and a server that was asked   *)
(* and runs does not go back to serving, however many handlers there are.   *)
(***************************************************************************)
ServerNotYet ==
  pc \in {"check", "ask", "kill", "start nsflow", "note nsflow", "start server"} \cup Unhandled =>
    child["server"] = "none"

AskedFirst ==
  \A i \in 1..Len(frames) :
    frames[i] = "await server" => "server" \in noted /\ (child["server"] = "running" => Asked)

WaitInv ==
  ServerNotYet /\ AskedFirst /\ (child["server"] = "running" => stage # "flushed")

(***************************************************************************)
(* A running handler has a next step: it is not waiting, or the server has  *)
(* ended, or the server is about to end, unless it is slow and the wait is  *)
(* cut short.                                                               *)
(***************************************************************************)
HandlerHasAStep ==
  frames # <<>> =>
    /\ pc \notin Ended
    /\ \/ Top \in {"stop server", "stop nsflow", "clean up"}
       \/ /\ Top = "await server" /\ "server" \in noted
          /\ child["server"] \in {"zombie", "reaped"} \/ (child["server"] = "running" /\ Asked)

\* Each step keeps it so.
LEMMA StepWaits ==
  ASSUME RunInv, WaitInv, [Next]_vars
  PROVE  WaitInv'
<1>. USE DEF RunInv
<1>0. /\ child \in [Children -> ProcessState] /\ "server" \in Children /\ stage \in Stage
      /\ child["server"] = "none" => stage = "starting"
  BY DEF Typed, Children, StageOK
<1>1. CASE UNCHANGED vars
  BY <1>1 DEF vars, processes, WaitInv, ServerNotYet, AskedFirst, Asked
<1>2. CASE RunMain
  <2>1. frames' = <<>> /\ stage' = stage
    BY <1>2 DEF RunMain, Configure, Override, SetEnvironmentVariables, StartPhoenix, TryPort,
                CheckPorts, AskToKill, KillProcessesOnPorts, AttachSimpleLogger, StartProcess,
                NoteProcess, WaitForProcess, Main, processes
  <2>2. AskedFirst'
    BY <2>1, EmptyStack DEF AskedFirst
  <2>3. CASE Configure \/ Override \/ SetEnvironmentVariables \/ StartPhoenix \/ TryPort
             \/ CheckPorts \/ AskToKill \/ KillProcessesOnPorts
    <3>1. child'["server"] = child["server"]
      BY <1>0, <2>3 DEF Configure, Override, SetEnvironmentVariables, StartPhoenix, TryPort,
                        CheckPorts, AskToKill, KillProcessesOnPorts, processes
    <3>2. pc \in {"check", "ask", "kill"} \cup Unhandled
      BY <2>3 DEF Configure, Override, SetEnvironmentVariables, StartPhoenix, TryPort,
                  CheckPorts, AskToKill, KillProcessesOnPorts, Main, Unhandled
    <3>. QED  BY <2>1, <2>2, <3>1, <3>2 DEF WaitInv, ServerNotYet
  <2>4. CASE StartProcess("nsflow") \/ NoteProcess("nsflow")
    <3>1. child'["server"] = child["server"]
      BY <1>0, <2>4 DEF StartProcess, NoteProcess, processes
    <3>2. pc \in {"start nsflow", "note nsflow"}
      BY <2>4 DEF StartProcess, NoteProcess, Main, Starts, Notes
    <3>. QED  BY <2>1, <2>2, <3>1, <3>2 DEF WaitInv, ServerNotYet
  <2>5. CASE StartProcess("server")
    <3>1. pc = "start server" /\ pc' \in {"note server", "attach"}
      BY <2>5 DEF StartProcess, Main, Starts, Notes, After
    <3>2. stage' # "flushed"
      BY <1>0, <2>1, <3>1 DEF WaitInv, ServerNotYet
    <3>. QED  BY <2>2, <3>1, <3>2 DEF WaitInv, ServerNotYet, Unhandled
  <2>6. CASE AttachSimpleLogger \/ NoteProcess("server")
             \/ \E c \in {"nsflow", "server"} : WaitForProcess(c)
    <3>1. pc' \in {"attach", "wait nsflow", "wait server", "finished"}
      BY <2>6 DEF AttachSimpleLogger, NoteProcess, WaitForProcess, After
    <3>2. child'["server"] = "running" => child["server"] = "running"
      BY <1>0, <2>6 DEF AttachSimpleLogger, NoteProcess, WaitForProcess, processes
    <3>. QED  BY <2>1, <2>2, <3>1, <3>2 DEF WaitInv, ServerNotYet, Unhandled
  <2>. QED  BY <1>2, <2>3, <2>4, <2>5, <2>6 DEF RunMain
<1>3. CASE RunHandler
  <2>1. frames # <<>> /\ Len(frames) \in 1..Len(frames) /\ pc' \in {pc, "error", "clean"}
        /\ noted' = noted
    BY <1>3, SomeHandler DEF RunHandler, StopServer, AwaitServer, StopNsflow, CleanUp, Handler,
                             Unwind, processes
  <2>2. /\ child'["server"] = "running" => child["server"] = "running"
        /\ child["server"] = "none" => child'["server"] = "none"
    BY <1>0, <1>3 DEF RunHandler, StopServer, AwaitServer, StopNsflow, CleanUp, PhoenixStopped,
                      processes
  <2>3. stage' \in {stage, StageAfterSigterm}
    BY <1>3 DEF RunHandler, StopServer, AwaitServer, StopNsflow, CleanUp, processes
  <2>4. ServerNotYet'
    BY <2>1, <2>2 DEF WaitInv, ServerNotYet, Unhandled
  <2>5. child'["server"] = "running" => stage' # "flushed" /\ (Asked => Asked')
    BY <2>2, <2>3 DEF WaitInv, StageAfterSigterm, Asked
  <2>6. CASE frames' = <<>>
    BY <2>4, <2>5, <2>6, EmptyStack DEF WaitInv, AskedFirst
  <2>7. CASE frames' # <<>>
    <3>1. PICK step \in HandlerStep :
            /\ Go(step)
            /\ step = "await server" =>
                 StopServer /\ "server" \in noted /\ stage' = StageAfterSigterm
      BY <1>3, <2>7 DEF RunHandler, StopServer, AwaitServer, StopNsflow, CleanUp, Unwind,
                        HandlerStep
    <3>2. /\ Len(frames') = Len(frames) /\ frames'[Len(frames)] = step
          /\ \A i \in 1..Len(frames) :
               \/ i = Len(frames) /\ frames'[i] = step
               \/ i # Len(frames) /\ frames'[i] = frames[i]
      BY <2>1, <3>1, Gone
    <3>3. step = "await server" /\ child'["server"] = "running" => Asked'
      BY <1>0, <2>2, <3>1 DEF WaitInv, StageAfterSigterm, Asked, Stage
    <3>4. AskedFirst'
      BY <2>1, <2>2, <2>5, <3>1, <3>2, <3>3 DEF WaitInv, AskedFirst
    <3>. QED  BY <2>4, <2>5, <3>4 DEF WaitInv
  <2>. QED  BY <2>6, <2>7
<1>4. CASE Signal
  <2>1. frames' = Append(frames, "stop server") /\ UNCHANGED <<pc, child, stage, noted>>
    BY <1>4 DEF Signal, processes
  <2>2. \A i \in 1..Len(frames') :
          \/ i \in 1..Len(frames) /\ frames'[i] = frames[i]
          \/ frames'[i] = "stop server"
    BY <2>1, Pushed
  <2>. QED  BY <2>1, <2>2 DEF WaitInv, ServerNotYet, AskedFirst, Asked
<1>5. CASE Interrupt
  <2>1. UNCHANGED <<frames, child, stage, noted>> /\ pc' = "interrupted"
    BY <1>5 DEF Interrupt, processes
  <2>. QED  BY <2>1 DEF WaitInv, ServerNotYet, AskedFirst, Asked, Unhandled
<1>6. CASE ServerServes
  <2>1. /\ UNCHANGED <<frames, child, noted, pc>> /\ stage' = "serving"
        /\ child["server"] = "running" /\ ~Asked
    BY <1>6 DEF ServerServes, Asked
  <2>. QED  BY <2>1 DEF WaitInv, ServerNotYet, AskedFirst
<1>7. ASSUME NEW c \in Children, ChildEnds(c)
      PROVE  WaitInv'
  <2>1. /\ UNCHANGED <<frames, noted, pc>>
        /\ child'["server"] # "running" \/ UNCHANGED stage
        /\ child'["server"] = "running" => child["server"] = "running"
        /\ child["server"] = "none" => child'["server"] = "none"
    BY <1>0, <1>7 DEF ChildEnds
  <2>. QED  BY <2>1 DEF WaitInv, ServerNotYet, AskedFirst, Asked
<1>. QED  BY <1>1, <1>2, <1>3, <1>4, <1>5, <1>6, <1>7 DEF Next

\* However many signals arrive and whatever they interrupt, a handler never
\* waits for a server that nobody asked to stop, nor for one it does not know.
THEOREM HandlersGoOn == Spec => []HandlerHasAStep
<1>1. Init => WaitInv
  <2>. SUFFICES ASSUME Init PROVE WaitInv
    OBVIOUS
  <2>1. frames = <<>> /\ child["server"] = "none"
    BY DEF Init, Children
  <2>. QED  BY <2>1, EmptyStack DEF WaitInv, ServerNotYet, AskedFirst
<1>2. RunInv /\ WaitInv /\ [Next]_vars => WaitInv'
  BY StepWaits
<1>3. RunInv /\ WaitInv => HandlerHasAStep
  <2>. SUFFICES ASSUME RunInv, WaitInv, frames # <<>>
                PROVE  HandlerHasAStep
    BY DEF HandlerHasAStep
  <2>1. /\ pc \notin Ended /\ Top \in HandlerStep
        /\ Len(frames) \in 1..Len(frames) /\ frames[Len(frames)] = Top
    BY SomeHandler DEF RunInv, FramesOK
  <2>2. "server" \in noted => child["server"] \in {"running", "zombie", "reaped"}
    BY DEF RunInv, Typed, ChildrenOK, Children, ProcessState
  <2>. QED  BY <2>1, <2>2 DEF WaitInv, AskedFirst, HandlerHasAStep, HandlerStep
<1>. QED  BY <1>1, <1>2, <1>3, RunInvariant, PTL DEF Spec
=============================================================================

------------------------ MODULE NetworkPersistor_proofs ------------------------
(***************************************************************************)
(* Proofs about NetworkPersistor, for any number of sessions, networks and  *)
(* crashes, and, in the second half, about NetworkRoundTrip, for networks   *)
(* of any size, edited, saved and reloaded any number of times.             *)
(***************************************************************************)
EXTENDS NetworkPersistor, NetworkRoundTrip, SequenceTheorems, WellFoundedInduction, TLAPS

(***************************************************************************)
(* What a session has done by the time it reaches a step: its network file  *)
(* is there, so are the files of the networks it read from the manifest,    *)
(* and past the creation there is a manifest.                               *)
(***************************************************************************)
SessionOK(s) ==
  /\ session[s].pc # "idle" => netFile[session[s].net] # "absent"
  /\ session[s].pc \notin {"idle", "save", "create"} => exists
  /\ \A n \in session[s].listed : netFile[n] # "absent"

IInv ==
  /\ TypeOK
  /\ NoDanglingReference
  /\ \A s \in Session : SessionOK(s)

(***************************************************************************)
(* IInv holds initially and is kept by every step.                          *)
(***************************************************************************)
LEMMA InitIInv == Init => IInv
<1> SUFFICES ASSUME Init
             PROVE  IInv
  OBVIOUS
<1> USE DEF Init, Idle
<1>1. TypeOK
  <2>1. session \in [Session -> [pc : PC, net : Net \cup {NoNet}, listed : SUBSET Net]]
    BY DEF PC
  <2>2. main \in MainState /\ netFile \in [Net -> FileState] /\ crashes \in 0..MaxCrashes
    BY NetworkPersistorAssumption DEF MainState, FileState
  <2>3. exists \in BOOLEAN
    BY NetworkPersistorAssumption
  <2> QED BY <2>1, <2>2, <2>3 DEF TypeOK
<1>2. NoDanglingReference
  BY NetworkPersistorAssumption DEF NoDanglingReference
<1>3. \A s \in Session : SessionOK(s)
  BY DEF SessionOK
<1> QED BY <1>1, <1>2, <1>3 DEF IInv

\* Each step of a save, and a crash, keep IInv.
LEMMA NextIInv == IInv /\ [Next]_vars => IInv'
<1> SUFFICES ASSUME IInv, [Next]_vars
             PROVE  IInv'
  OBVIOUS
<1> USE NetworkPersistorAssumption
    DEF IInv, TypeOK, NoDanglingReference, SessionOK, FileState, MainState, PC, Idle
<1>1. CASE UNCHANGED vars
  BY <1>1 DEF vars
<1>2. ASSUME NEW s \in Session, NEW n \in Net, Begin(s, n)
      PROVE  IInv'
  BY <1>2 DEF Begin, At
<1>3. ASSUME NEW s \in Session, SaveNetwork(s)
      PROVE  IInv'
  BY <1>3 DEF SaveNetwork, At, GoTo
<1>4. ASSUME NEW s \in Session, CreateManifest(s)
      PROVE  IInv'
  BY <1>4 DEF CreateManifest, At, GoTo
<1>5. ASSUME NEW s \in Session, FillManifest(s)
      PROVE  IInv'
  BY <1>5 DEF FillManifest, At, GoTo, Overwritten
<1>6. ASSUME NEW s \in Session, ReadManifest(s)
      PROVE  IInv'
  BY <1>6 DEF ReadManifest, At, Return
<1>7. ASSUME NEW s \in Session, OpenManifest(s)
      PROVE  IInv'
  BY <1>7 DEF OpenManifest, At, GoTo
<1>8. ASSUME NEW s \in Session, WriteManifest(s)
      PROVE  IInv'
  BY <1>8 DEF WriteManifest, At, GoTo, Return, Overwritten
<1>9. ASSUME NEW s \in Session, ReadMain(s)
      PROVE  IInv'
  BY <1>9 DEF ReadMain, At, GoTo, Return
<1>10. ASSUME NEW s \in Session, OpenMain(s)
       PROVE  IInv'
  BY <1>10 DEF OpenMain, At, GoTo
<1>11. ASSUME NEW s \in Session, WriteMain(s)
       PROVE  IInv'
  BY <1>11 DEF WriteMain, At, Return
<1>12. CASE Crash
  BY <1>12 DEF Crash
<1> QED BY <1>1, <1>2, <1>3, <1>4, <1>5, <1>6, <1>7, <1>8, <1>9, <1>10, <1>11, <1>12 DEF Next

(***************************************************************************)
(* No manifest ever refers to a file that is not there, for any number of   *)
(* concurrent sessions and any number of crashes between the steps of a     *)
(* save; the order in which the files are written is what makes it so.      *)
(***************************************************************************)
THEOREM ReferencesAreSound == Spec => [](TypeOK /\ NoDanglingReference)
<1>1. IInv => TypeOK /\ NoDanglingReference
  BY DEF IInv
<1> QED BY InitIInv, NextIInv, <1>1, PTL DEF Spec

-------------------------------------------------------------------------------
MainPC == {"readMain", "openMain", "writeMain"}

(***************************************************************************)
(* Which overlap loses an entry: two sessions that are, both, past the      *)
(* moment at which one looks at the manifest, or whether there is one, and  *)
(* not yet past that at which it writes it.                                 *)
(***************************************************************************)
Critical == {"create", "fill", "open", "write"}

ManifestLocked ==
  \A s, t \in Session : session[s].pc \in Critical /\ session[t].pc \in Critical => s = t

\* The networks the manifest owes: those saved, or written and not yet returned.
Owed == saved \cup {session[s].net : s \in {t \in Session : session[t].pc \in MainPC}}

(***************************************************************************)
(* As long as nothing crashed, what is owed is in the manifest or, while it *)
(* is being written, in the text that goes there; nobody else finds an      *)
(* entry in the meantime.                                                   *)
(***************************************************************************)
KeptBy(s) ==
  /\ session[s].pc = "create" => ~exists
  /\ session[s].pc = "fill" => Owed = {} /\ manifest = {}
  /\ session[s].pc = "open" => session[s].listed = manifest
  /\ session[s].pc = "write" => Owed \subseteq session[s].listed /\ manifest = {}

KeptNow ==
  /\ ~exists => saved = {}
  /\ \A s \in Session : KeptBy(s)
  /\ ~BeingWritten => Owed \subseteq manifest

KeptInv ==
  /\ IInv
  /\ ~exists => manifest = {}
  /\ crashes = 0 => KeptNow

\* Nothing is owed at first.
LEMMA InitKept == Init => KeptInv
<1>1. Init => /\ Owed = {} /\ saved = {} /\ manifest = {}
              /\ \A s \in Session : session[s].pc = "idle"
  BY DEF Init, Idle, Owed, MainPC
<1>2. Owed = {} /\ saved = {} /\ manifest = {} /\ (\A s \in Session : session[s].pc = "idle")
        => KeptNow
  BY DEF KeptBy, KeptNow
<1>. QED  BY <1>1, <1>2, InitIInv DEF KeptInv

\* What is owed, and what a step leaves owed, network by network.
LEMMA OwedIs ==
  /\ \A n : n \in Owed <=>
              n \in saved \/ \E s \in Session : session[s].pc \in MainPC /\ session[s].net = n
  /\ \A n : n \in Owed' <=>
              n \in saved' \/ \E s \in Session : session'[s].pc \in MainPC /\ session'[s].net = n
BY DEF Owed

\* A step of a session before it has written its entry, past it, or returning from there.
LEMMA OwedStays ==
  ASSUME NEW t \in Session, \A s \in Session : s # t => session'[s] = session[s],
         \/ /\ saved' = saved /\ session[t].pc \notin MainPC /\ session'[t].pc \notin MainPC
         \/ /\ saved' = saved /\ session[t].pc \in MainPC /\ session'[t].pc \in MainPC
            /\ session'[t].net = session[t].net
         \/ /\ saved' = saved \cup {session[t].net}
            /\ session[t].pc \in MainPC /\ session'[t].pc \notin MainPC
  PROVE  Owed' = Owed
<1>1. ASSUME NEW n \in Owed
      PROVE  n \in Owed'
  <2>1. CASE n \in saved
    BY <2>1, OwedIs
  <2>2. ASSUME NEW s \in Session, session[s].pc \in MainPC, session[s].net = n
        PROVE  n \in Owed'
    BY <2>2, OwedIs
  <2>. QED  BY <2>1, <2>2, OwedIs
<1>2. ASSUME NEW n \in Owed'
      PROVE  n \in Owed
  <2>1. CASE n \in saved'
    BY <2>1, OwedIs
  <2>2. ASSUME NEW s \in Session, session'[s].pc \in MainPC, session'[s].net = n
        PROVE  n \in Owed
    BY <2>2, OwedIs
  <2>. QED  BY <2>1, <2>2, OwedIs
<1>. QED  BY <1>1, <1>2

\* Each step of a session that has the manifest to itself keeps KeptInv.
LEMMA NextKept ==
  ASSUME KeptInv, ManifestLocked, ManifestLocked', [Next]_vars
  PROVE  KeptInv'
<1>1. IInv' /\ IInv /\ TypeOK /\ (\A s \in Session : SessionOK(s)) /\ (~exists => manifest = {})
  BY NextIInv DEF KeptInv, IInv
<1>2. CASE UNCHANGED vars
  <2>1. /\ netFile' = netFile /\ exists' = exists /\ manifest' = manifest /\ main' = main
        /\ session' = session /\ saved' = saved /\ crashes' = crashes
    BY <1>2 DEF vars
  <2>2. Owed' = Owed
    BY <2>1 DEF Owed
  <2>. QED  BY <1>1, <2>1, <2>2 DEF KeptInv, KeptNow, KeptBy, BeingWritten
<1>3. CASE Crash
  <2>1. crashes' # 0
    BY <1>1, <1>3, NetworkPersistorAssumption DEF Crash, TypeOK
  <2>. QED  BY <1>1, <1>3, <2>1 DEF Crash, KeptInv
<1>4. ASSUME KeptInv, crashes' = crashes, ~exists' => manifest' = {}, KeptNow => KeptNow'
      PROVE  KeptInv'
  BY <1>1, <1>4 DEF KeptInv
<1>. USE OwedIs DEF KeptNow, KeptBy, BeingWritten, ManifestLocked, Critical, MainPC, TypeOK, PC, Idle
<1>5. ASSUME NEW t \in Session, NEW n \in Net, Begin(t, n)
      PROVE  KeptInv'
  <2>1. crashes' = crashes /\ (~exists' => manifest' = {})
    BY <1>1, <1>5 DEF Begin
  <2>2. \A s \in Session : s # t => session'[s] = session[s]
    BY <1>1, <1>5 DEF Begin, At
  <2>3. Owed' = Owed
    <3>1. saved' = saved /\ session[t].pc \notin MainPC /\ session'[t].pc \notin MainPC
      BY <1>1, <1>5 DEF Begin, At
    <3>. QED  BY <2>2, <3>1, OwedStays
  <2>4. KeptNow => KeptNow'
    <3>. SUFFICES ASSUME KeptNow PROVE KeptNow'
      OBVIOUS
    <3>1. (~exists' => saved' = {})
      BY <1>1, <1>5 DEF Begin, At, SessionOK
    <3>2. ASSUME NEW s \in Session
          PROVE  KeptBy(s)'
      BY <1>1, <1>5, <2>3, <2>3 DEF Begin, At
    <3>3. ~BeingWritten' => Owed' \subseteq manifest'
      BY <1>1, <1>5, <2>3, <2>3 DEF Begin, At
    <3>. QED  BY <3>1, <3>2, <3>3
  <2>. QED  BY <1>4, <2>1, <2>4
<1>6. ASSUME NEW t \in Session, SaveNetwork(t)
      PROVE  KeptInv'
  <2>1. crashes' = crashes /\ (~exists' => manifest' = {})
    BY <1>1, <1>6 DEF SaveNetwork, At, GoTo, SessionOK
  <2>2. \A s \in Session : s # t => session'[s] = session[s]
    BY <1>1, <1>6 DEF SaveNetwork, At, GoTo
  <2>3. Owed' = Owed
    <3>1. saved' = saved /\ session[t].pc \notin MainPC /\ session'[t].pc \notin MainPC
      BY <1>1, <1>6 DEF SaveNetwork, At, GoTo
    <3>. QED  BY <2>2, <3>1, OwedStays
  <2>4. KeptNow => KeptNow'
    <3>. SUFFICES ASSUME KeptNow PROVE KeptNow'
      OBVIOUS
    <3>1. (~exists' => saved' = {})
      BY <1>1, <1>6 DEF SaveNetwork, At, GoTo, SessionOK
    <3>2. ASSUME NEW s \in Session
          PROVE  KeptBy(s)'
      BY <1>1, <1>6, <2>3, <2>3 DEF SaveNetwork, At, GoTo
    <3>3. ~BeingWritten' => Owed' \subseteq manifest'
      BY <1>1, <1>6, <2>3, <2>3 DEF SaveNetwork, At, GoTo
    <3>. QED  BY <3>1, <3>2, <3>3
  <2>. QED  BY <1>4, <2>1, <2>4
<1>7. ASSUME NEW t \in Session, CreateManifest(t)
      PROVE  KeptInv'
  <2>1. crashes' = crashes /\ (~exists' => manifest' = {})
    BY <1>1, <1>7 DEF CreateManifest, At, GoTo, SessionOK
  <2>2. KeptNow => KeptNow'
    BY <1>1, <1>7 DEF CreateManifest, At, GoTo, SessionOK
  <2>. QED  BY <1>4, <2>1, <2>2
<1>8. ASSUME NEW t \in Session, FillManifest(t)
      PROVE  KeptInv'
  <2>1. crashes' = crashes /\ (~exists' => manifest' = {})
    BY <1>1, <1>8 DEF FillManifest, At, GoTo, Overwritten, SessionOK
  <2>2. KeptNow => KeptNow'
    BY <1>1, <1>8 DEF FillManifest, At, GoTo, Overwritten
  <2>. QED  BY <1>4, <2>1, <2>2
<1>9. ASSUME NEW t \in Session, ReadManifest(t)
      PROVE  KeptInv'
  <2>1. crashes' = crashes /\ (~exists' => manifest' = {})
    BY <1>1, <1>9 DEF ReadManifest, At, Return, SessionOK
  <2>2. Owed' \subseteq Owed \cup {session[t].net} /\ (session[t].net \notin manifest => Owed' = Owed)
    BY <1>1, <1>9 DEF ReadManifest, At, Return
  <2>3. \A s \in Session : s # t => session'[s] = session[s]
    BY <1>1, <1>9 DEF ReadManifest, At, Return
  <2>4. KeptNow => KeptNow'
    <3>. SUFFICES ASSUME KeptNow PROVE KeptNow'
      OBVIOUS
    <3>1. (~exists' => saved' = {})
      BY <1>1, <1>9 DEF ReadManifest, At, Return, SessionOK
    <3>2. ASSUME NEW s \in Session
          PROVE  KeptBy(s)'
      BY <1>1, <1>9, <2>2, <2>3 DEF ReadManifest, At, Return
    <3>3. ~BeingWritten' => Owed' \subseteq manifest'
      BY <1>1, <1>9, <2>2, <2>3 DEF ReadManifest, At, Return
    <3>. QED  BY <3>1, <3>2, <3>3
  <2>. QED  BY <1>4, <2>1, <2>4
<1>10. ASSUME NEW t \in Session, OpenManifest(t)
       PROVE  KeptInv'
  <2>1. crashes' = crashes /\ (~exists' => manifest' = {})
    BY <1>1, <1>10 DEF OpenManifest, At, GoTo, SessionOK
  <2>2. KeptNow => KeptNow'
    BY <1>1, <1>10 DEF OpenManifest, At, GoTo
  <2>. QED  BY <1>4, <2>1, <2>2
<1>11. ASSUME NEW t \in Session, WriteManifest(t)
       PROVE  KeptInv'
  <2>1. crashes' = crashes /\ (~exists' => manifest' = {})
    BY <1>1, <1>11 DEF WriteManifest, At, GoTo, Return, Overwritten, SessionOK
  <2>2. KeptNow => KeptNow'
    BY <1>1, <1>11 DEF WriteManifest, At, GoTo, Return, Overwritten, SessionOK
  <2>. QED  BY <1>4, <2>1, <2>2
<1>12. ASSUME NEW t \in Session, ReadMain(t)
       PROVE  KeptInv'
  <2>1. crashes' = crashes /\ (~exists' => manifest' = {})
    BY <1>1, <1>12 DEF ReadMain, At, GoTo, Return, SessionOK
  <2>2. \A s \in Session : s # t => session'[s] = session[s]
    BY <1>1, <1>12 DEF ReadMain, At, GoTo, Return
  <2>3. Owed' = Owed
    <3>1. session[t].pc \in MainPC
          /\ \/ session'[t].pc \in MainPC /\ saved' = saved /\ session'[t].net = session[t].net
             \/ session'[t].pc \notin MainPC /\ saved' = saved \cup {session[t].net}
      BY <1>1, <1>12 DEF ReadMain, At, GoTo, Return
    <3>. QED  BY <2>2, <3>1, OwedStays
  <2>4. KeptNow => KeptNow'
    <3>. SUFFICES ASSUME KeptNow PROVE KeptNow'
      OBVIOUS
    <3>1. (~exists' => saved' = {})
      BY <1>1, <1>12 DEF ReadMain, At, GoTo, Return, SessionOK
    <3>2. ASSUME NEW s \in Session
          PROVE  KeptBy(s)'
      BY <1>1, <1>12, <2>3, <2>3 DEF ReadMain, At, GoTo, Return
    <3>3. ~BeingWritten' => Owed' \subseteq manifest'
      BY <1>1, <1>12, <2>3, <2>3 DEF ReadMain, At, GoTo, Return
    <3>. QED  BY <3>1, <3>2, <3>3
  <2>. QED  BY <1>4, <2>1, <2>4
<1>13. ASSUME NEW t \in Session, OpenMain(t)
       PROVE  KeptInv'
  <2>1. crashes' = crashes /\ (~exists' => manifest' = {})
    BY <1>1, <1>13 DEF OpenMain, At, GoTo, SessionOK
  <2>2. \A s \in Session : s # t => session'[s] = session[s]
    BY <1>1, <1>13 DEF OpenMain, At, GoTo
  <2>3. Owed' = Owed
    <3>1. saved' = saved /\ session[t].pc \in MainPC /\ session'[t].pc \in MainPC
          /\ session'[t].net = session[t].net
      BY <1>1, <1>13 DEF OpenMain, At, GoTo
    <3>. QED  BY <2>2, <3>1, OwedStays
  <2>4. KeptNow => KeptNow'
    <3>. SUFFICES ASSUME KeptNow PROVE KeptNow'
      OBVIOUS
    <3>1. (~exists' => saved' = {})
      BY <1>1, <1>13 DEF OpenMain, At, GoTo, SessionOK
    <3>2. ASSUME NEW s \in Session
          PROVE  KeptBy(s)'
      BY <1>1, <1>13, <2>3, <2>3 DEF OpenMain, At, GoTo
    <3>3. ~BeingWritten' => Owed' \subseteq manifest'
      BY <1>1, <1>13, <2>3, <2>3 DEF OpenMain, At, GoTo
    <3>. QED  BY <3>1, <3>2, <3>3
  <2>. QED  BY <1>4, <2>1, <2>4
<1>14. ASSUME NEW t \in Session, WriteMain(t)
       PROVE  KeptInv'
  <2>1. crashes' = crashes /\ (~exists' => manifest' = {})
    BY <1>1, <1>14 DEF WriteMain, At, Return, SessionOK
  <2>2. \A s \in Session : s # t => session'[s] = session[s]
    BY <1>1, <1>14 DEF WriteMain, At, Return
  <2>3. Owed' = Owed
    <3>1. saved' = saved \cup {session[t].net}
          /\ session[t].pc \in MainPC /\ session'[t].pc \notin MainPC
      BY <1>1, <1>14 DEF WriteMain, At, Return
    <3>. QED  BY <2>2, <3>1, OwedStays
  <2>4. KeptNow => KeptNow'
    <3>. SUFFICES ASSUME KeptNow PROVE KeptNow'
      OBVIOUS
    <3>1. (~exists' => saved' = {})
      BY <1>1, <1>14 DEF WriteMain, At, Return, SessionOK
    <3>2. ASSUME NEW s \in Session
          PROVE  KeptBy(s)'
      BY <1>1, <1>14, <2>3, <2>3 DEF WriteMain, At, Return
    <3>3. ~BeingWritten' => Owed' \subseteq manifest'
      BY <1>1, <1>14, <2>3, <2>3 DEF WriteMain, At, Return
    <3>. QED  BY <3>1, <3>2, <3>3
  <2>. QED  BY <1>4, <2>1, <2>4
<1>. QED  BY <1>2, <1>3, <1>5, <1>6, <1>7, <1>8, <1>9, <1>10, <1>11, <1>12, <1>13, <1>14 DEF Next

(***************************************************************************)
(* A lock held from the look at the manifest to its write is enough: for    *)
(* any number of sessions that overlap otherwise, every network saved stays *)
(* listed, until a crash.                                                   *)
(***************************************************************************)
THEOREM AManifestLockIsEnough == Spec /\ []ManifestLocked => []SavedStaysListed
<1>1. KeptInv => SavedStaysListed
  BY DEF KeptInv, KeptNow, SavedStaysListed, Owed
<1>. QED  BY InitKept, NextKept, <1>1, PTL DEF Spec

(***************************************************************************)
(* The designer that saves one network at a time needs no lock.             *)
(***************************************************************************)
OneSession == \E s : Session = {s}

THEOREM SavesAreKept ==
  ASSUME OneSession
  PROVE  Spec => []SavedStaysListed
<1>1. ManifestLocked
  BY DEF OneSession, ManifestLocked
<1>. QED  BY <1>1, AManifestLockIsEnough, PTL

-------------------------------------------------------------------------------
(***************************************************************************)
(* What a return promises of the main manifest takes more: two saves, from  *)
(* the first file to the return, do not overlap.                            *)
(***************************************************************************)
OneAtATime ==
  \A s, t \in Session : session[s].pc # "idle" /\ session[t].pc # "idle" => s = t

(***************************************************************************)
(* Past the write of the manifest the session's network is listed, whatever *)
(* crashed before.  A main manifest that had an include line includes the   *)
(* subdirectory's from the end of the first save on, unless a crash came in *)
(* between.                                                                 *)
(***************************************************************************)
MainNow ==
  /\ main \in {"listing", "including", "empty"}
  /\ (\A s \in Session : session[s].pc # "writeMain") => main # "empty"
  /\ (\A s \in Session : session[s].pc \notin MainPC) /\ manifest # {} => main = "including"

MainInv ==
  /\ IInv
  /\ ~exists => manifest = {}
  /\ \A s \in Session : session[s].pc \in MainPC => ~DefaultDir /\ session[s].net \in manifest
  /\ crashes = 0 /\ ~DefaultDir /\ MainAtStart = "listing" => MainNow

\* No network is listed at first.
LEMMA InitMain == Init => MainInv
<1>1. Init => /\ \A s \in Session : session[s].pc \notin MainPC
              /\ manifest = {} /\ main = MainAtStart
  BY DEF Init, Idle, MainPC
<1>. QED  BY <1>1, InitIInv DEF MainInv, MainNow

\* Each step of a session that is alone, and a crash, keep MainInv.
LEMMA NextMain ==
  ASSUME MainInv, OneAtATime, OneAtATime', [Next]_vars
  PROVE  MainInv'
<1>1. IInv' /\ IInv /\ TypeOK
  BY NextIInv DEF MainInv, IInv
<1>. USE DEF MainInv, MainNow, OneAtATime, MainPC, TypeOK, PC, Idle
<1>2. CASE UNCHANGED vars
  BY <1>1, <1>2 DEF vars
<1>3. ASSUME NEW t \in Session, NEW n \in Net, Begin(t, n)
      PROVE  MainInv'
  BY <1>1, <1>3 DEF Begin, At
<1>4. ASSUME NEW t \in Session, SaveNetwork(t)
      PROVE  MainInv'
  BY <1>1, <1>4 DEF SaveNetwork, At, GoTo
<1>5. ASSUME NEW t \in Session, CreateManifest(t)
      PROVE  MainInv'
  BY <1>1, <1>5 DEF CreateManifest, At, GoTo
<1>6. ASSUME NEW t \in Session, FillManifest(t)
      PROVE  MainInv'
  BY <1>1, <1>6 DEF FillManifest, At, GoTo, Overwritten
<1>7. ASSUME NEW t \in Session, ReadManifest(t)
      PROVE  MainInv'
  BY <1>1, <1>7 DEF ReadManifest, At, Return
<1>8. ASSUME NEW t \in Session, OpenManifest(t)
      PROVE  MainInv'
  BY <1>1, <1>8 DEF OpenManifest, At, GoTo
<1>9. ASSUME NEW t \in Session, WriteManifest(t)
      PROVE  MainInv'
  <2>1. \A s \in Session : s # t => session[s].pc = "idle" /\ session'[s] = session[s]
    BY <1>1, <1>9 DEF WriteManifest, At, GoTo, Return
  <2>2. /\ session[t].net \in manifest' /\ exists' = exists /\ exists
        /\ main' = main /\ crashes' = crashes /\ session[t].pc = "write"
    BY <1>1, <1>9 DEF WriteManifest, At, Overwritten, IInv, SessionOK
  <2>3. IF DefaultDir
        THEN session'[t].pc = "idle"
        ELSE session'[t].pc = "readMain" /\ session'[t].net = session[t].net
    BY <1>1, <1>9 DEF WriteManifest, GoTo, Return
  <2>. QED  BY <1>1, <2>1, <2>2, <2>3
<1>10. ASSUME NEW t \in Session, ReadMain(t)
       PROVE  MainInv'
  BY <1>1, <1>10 DEF ReadMain, At, GoTo, Return
<1>11. ASSUME NEW t \in Session, OpenMain(t)
       PROVE  MainInv'
  BY <1>1, <1>11 DEF OpenMain, At, GoTo
<1>12. ASSUME NEW t \in Session, WriteMain(t)
       PROVE  MainInv'
  BY <1>1, <1>12 DEF WriteMain, At, Return
<1>13. CASE Crash
  <2>1. crashes' # 0
    BY <1>1, <1>13, NetworkPersistorAssumption DEF Crash
  <2>. QED  BY <1>1, <1>13, <2>1 DEF Crash
<1>. QED  BY <1>2, <1>3, <1>4, <1>5, <1>6, <1>7, <1>8, <1>9, <1>10, <1>11, <1>12, <1>13 DEF Next

(***************************************************************************)
(* With the default subdirectory no session ever looks at the main manifest.*)
(***************************************************************************)
DirInv == IInv /\ (DefaultDir => \A s \in Session : session[s].pc \notin MainPC)

\* It does not, whatever the number of sessions.
LEMMA NextDir == DirInv /\ [Next]_vars => DirInv'
<1>. SUFFICES ASSUME DirInv, [Next]_vars, DefaultDir, NEW s \in Session
              PROVE  session'[s].pc \notin MainPC
  BY NextIInv DEF DirInv
<1>. USE DEF DirInv, IInv, TypeOK, PC, Idle, MainPC
<1>1. CASE UNCHANGED vars
  BY <1>1 DEF vars
<1>2. CASE Crash
  BY <1>2 DEF Crash
<1>3. ASSUME NEW t \in Session, NEW n \in Net, Begin(t, n)
      PROVE  session'[s].pc \notin MainPC
  BY <1>3 DEF Begin
<1>4. ASSUME NEW t \in Session,
             \/ SaveNetwork(t) \/ CreateManifest(t) \/ FillManifest(t) \/ ReadManifest(t)
             \/ OpenManifest(t)
      PROVE  session'[s].pc \notin MainPC
  BY <1>4 DEF SaveNetwork, CreateManifest, FillManifest, ReadManifest, OpenManifest, GoTo, Return
<1>5. ASSUME NEW t \in Session, WriteManifest(t) \/ ReadMain(t) \/ OpenMain(t) \/ WriteMain(t)
      PROVE  session'[s].pc \notin MainPC
  BY <1>5 DEF WriteManifest, ReadMain, OpenMain, WriteMain, At, GoTo, Return
<1>. QED  BY <1>1, <1>2, <1>3, <1>4, <1>5 DEF Next

\* What a step that returns leaves, when the invariants hold before it.
LEMMA StepReturns ==
  ASSUME DirInv, DefaultDir \/ (MainInv /\ OneAtATime),
         [Next]_vars, NEW s \in Session, Returns(s), crashes' = crashes
  PROVE  /\ session[s].net \in manifest'
         /\ ~DefaultDir /\ MainAtStart = "listing" /\ crashes' = 0 => main' = "including"
<1>. USE DEF DirInv, IInv, TypeOK, MainPC, Returns
<1>1. CASE UNCHANGED vars
  BY <1>1 DEF vars
<1>2. CASE Crash
  BY <1>2 DEF Crash
<1>3. ASSUME NEW t \in Session, NEW n \in Net, Begin(t, n)
      PROVE  FALSE
  BY <1>3 DEF Begin, At
<1>4. ASSUME NEW t \in Session,
             SaveNetwork(t) \/ CreateManifest(t) \/ FillManifest(t) \/ OpenManifest(t) \/ OpenMain(t)
      PROVE  FALSE
  BY <1>4 DEF SaveNetwork, CreateManifest, FillManifest, OpenManifest, OpenMain, GoTo, At
<1>5. ASSUME NEW t \in Session, ReadManifest(t)
      PROVE  t = s /\ session[s].net \in manifest' /\ session[s].pc = "read"
             /\ UNCHANGED <<manifest, main>>
  BY <1>5 DEF ReadManifest, Return, At
<1>6. ASSUME NEW t \in Session, WriteManifest(t)
      PROVE  DefaultDir /\ session[s].net \in manifest'
  BY <1>6 DEF WriteManifest, Return, GoTo, At, Overwritten
<1>7. ASSUME NEW t \in Session, ReadMain(t)
      PROVE  t = s /\ ~DefaultDir /\ session[s].pc = "readMain" /\ main # "listing"
             /\ UNCHANGED <<manifest, main>>
  BY <1>7 DEF ReadMain, Return, GoTo, At
<1>8. ASSUME NEW t \in Session, WriteMain(t)
      PROVE  t = s /\ ~DefaultDir /\ session[s].pc = "writeMain" /\ main' = "including"
             /\ manifest' = manifest
  BY <1>8 DEF WriteMain, Return, At
<1>9. ASSUME ~DefaultDir
      PROVE  /\ session[s].pc \in MainPC => session[s].net \in manifest
             /\ crashes = 0 /\ MainAtStart = "listing" =>
                  /\ main \in {"listing", "including", "empty"}
                  /\ session[s].pc # "writeMain" => main # "empty"
                  /\ session[s].pc = "read" /\ session[s].net \in manifest => main = "including"
  BY <1>9 DEF MainInv, MainNow, OneAtATime
<1>. QED  BY <1>1, <1>2, <1>3, <1>4, <1>5, <1>6, <1>7, <1>8, <1>9 DEF Next

(***************************************************************************)
(* A call that returns leaves its network listed, also after crashes and    *)
(* retries, and until the first crash the main manifest includes the list:  *)
(* for any number of sessions whose saves do not overlap, and, in the       *)
(* default subdirectory, for any number of sessions.                        *)
(***************************************************************************)
THEOREM ReturnsAreListed == Spec /\ (DefaultDir \/ []OneAtATime) => ListedOnReturn
<1>. DEFINE A == \A s \in Session : Returns(s) /\ crashes' = crashes =>
                   /\ session[s].net \in manifest'
                   /\ (~DefaultDir /\ MainAtStart = "listing" /\ crashes' = 0
                         => main' = "including")
<1>1. Init => DirInv
  <2>1. Init => \A s \in Session : session[s].pc \notin MainPC
    BY DEF Init, Idle, MainPC
  <2>. QED  BY <2>1, InitIInv DEF DirInv
<1>2. DefaultDir /\ DirInv /\ [Next]_vars => [A]_vars
  BY StepReturns
<1>3. DirInv /\ MainInv /\ OneAtATime /\ [Next]_vars => [A]_vars
  BY StepReturns
<1>4. CASE DefaultDir
  BY <1>1, NextDir, <1>2, <1>4, PTL DEF Spec, ListedOnReturn
<1>5. Spec /\ []OneAtATime => ListedOnReturn
  BY <1>1, NextDir, InitMain, NextMain, <1>3, PTL DEF Spec, ListedOnReturn
<1>. QED  BY <1>4, <1>5

-------------------------------------------------------------------------------
(***************************************************************************)
(* Induction over the natural numbers, for a set.                           *)
(***************************************************************************)
LEMMA Induction ==
  ASSUME NEW S, 0 \in S, \A n \in Nat : n \in S => n + 1 \in S
  PROVE  \A n \in Nat : n \in S
<1>. DEFINE T == {n \in Nat : n \notin S}
<1>1. CASE T = {}
  BY <1>1
<1>2. CASE T # {}
  <2>1. PICK n \in T : \A m \in T : ~(<<m, n>> \in OpToRel(<, Nat))
    <3>1. T \subseteq Nat
      OBVIOUS
    <3>. HIDE DEF T
    <3>. QED  BY <1>2, <3>1, NatLessThanWellFounded, WFMin
  <2>2. n \in Nat /\ n # 0 /\ n \notin S
    BY <2>1
  <2>3. n - 1 \in Nat /\ n - 1 < n /\ (n - 1) + 1 = n
    BY <2>2
  <2>4. n - 1 \notin T
    BY <2>1, <2>2, <2>3 DEF OpToRel
  <2>. QED  BY <2>2, <2>3, <2>4
<1>. QED  BY <1>1, <1>2

\* The pieces of a text that has no demo text, and an agent whose text has none.
OwnPiece == Piece \ {"demo"}

OwnAgent == [name : Agents, text : Seq(OwnPiece), description : {"none", "default", "own"},
             tools : SUBSET Agents]

---------------------------------------------------------------------------
\* What is kept of the first i pieces, for each i up to k.
KeptUpTo(text, t, k) ==
  t = [i \in 0..k |-> IF i = 0 THEN <<>>
                      ELSE IF text[i] = "demo" THEN t[i - 1] ELSE Append(t[i - 1], text[i])]

LEMMA KeptExists ==
  ASSUME NEW text
  PROVE  \A k \in Nat : \E t : KeptUpTo(text, t, k)
<1>. DEFINE S == {k \in Nat : \E t : KeptUpTo(text, t, k)}
            More(t, i) == IF text[i] = "demo" THEN t ELSE Append(t, text[i])
<1>1. 0 \in S
  <2>1. KeptUpTo(text, [n \in 0..0 |-> <<>>], 0)
    BY DEF KeptUpTo
  <2>. QED  BY <2>1
<1>2. ASSUME NEW k \in Nat, k \in S
      PROVE  k + 1 \in S
  <2>1. PICK t : KeptUpTo(text, t, k)
    BY <1>2
  <2>. DEFINE u == [n \in 0..(k + 1) |-> IF n = k + 1 THEN More(t[k], k + 1) ELSE t[n]]
  <2>2. ASSUME NEW n \in 0..(k + 1)
        PROVE  u[n] = IF n = 0 THEN <<>> ELSE More(u[n - 1], n)
    <3>. HIDE DEF More
    <3>1. CASE n = 0
      <4>1. t[0] = <<>>
        BY <2>1 DEF KeptUpTo
      <4>. QED  BY <3>1, <4>1
    <3>2. CASE n = k + 1
      <4>1. u[n] = More(t[k], k + 1) /\ u[n - 1] = t[k] /\ n # 0
        BY <3>2
      <4>. QED  BY <3>2, <4>1
    <3>3. CASE n # 0 /\ n # k + 1
      <4>1. n \in 0..k /\ n - 1 \in 0..k
        BY <3>3
      <4>2. u[n] = t[n] /\ u[n - 1] = t[n - 1]
        BY <4>1
      <4>3. t[n] = More(t[n - 1], n)
        BY <2>1, <3>3, <4>1 DEF KeptUpTo, More
      <4>. QED  BY <3>3, <4>2, <4>3
    <3>. QED  BY <3>1, <3>2, <3>3
  <2>3. u = [n \in 0..(k + 1) |-> IF n = 0 THEN <<>> ELSE More(u[n - 1], n)]
    <3>. HIDE DEF More
    <3>. QED  BY <2>2
  <2>4. KeptUpTo(text, u, k + 1)
    <3>. HIDE DEF u
    <3>. QED  BY <2>3 DEF KeptUpTo
  <2>. QED  BY <2>4
<1>. HIDE DEF S
<1>3. \A k \in Nat : k \in S
  BY <1>1, <1>2, Induction
<1>. QED  BY <1>3 DEF S

(***************************************************************************)
(* What a text is read as has no demo text, and is not empty when there was *)
(* something else in it.                                                    *)
(***************************************************************************)
LEMMA ExtractKeeps ==
  ASSUME NEW text \in Seq(Piece)
  PROVE  /\ ExtractCustomInstructions(text) \in Seq(OwnPiece)
         /\ (\E i \in 1..Len(text) : text[i] # "demo") => ExtractCustomInstructions(text) # <<>>
<1>. DEFINE k == Len(text)
            t == CHOOSE t : KeptUpTo(text, t, k)
<1>1. k \in Nat /\ \A i \in 1..k : text[i] \in Piece
  OBVIOUS
<1>2. KeptUpTo(text, t, k)
  BY <1>1, KeptExists
<1>3. ExtractCustomInstructions(text) = t[k]
  BY DEF ExtractCustomInstructions, KeptUpTo
<1>. HIDE DEF t
<1>. DEFINE S == {i \in Nat : i <= k =>
                    /\ t[i] \in Seq(OwnPiece)
                    /\ (\E j \in 1..i : text[j] # "demo") => t[i] # <<>>}
<1>4. 0 \in S
  <2>1. t[0] = <<>>
    BY <1>1, <1>2 DEF KeptUpTo
  <2>2. t[0] \in Seq(OwnPiece)
    BY <2>1
  <2>3. ~ \E j \in 1..0 : text[j] # "demo"
    OBVIOUS
  <2>. QED  BY <2>2, <2>3
<1>5. ASSUME NEW i \in Nat, i \in S
      PROVE  i + 1 \in S
  <2>. SUFFICES ASSUME i + 1 <= k
                PROVE  /\ t[i + 1] \in Seq(OwnPiece)
                       /\ (\E j \in 1..(i + 1) : text[j] # "demo") => t[i + 1] # <<>>
    OBVIOUS
  <2>1. /\ t[i] \in Seq(OwnPiece)
        /\ (\E j \in 1..i : text[j] # "demo") => t[i] # <<>>
    BY <1>1, <1>5
  <2>2. i + 1 \in 0..k /\ i + 1 # 0 /\ (i + 1) - 1 = i /\ i + 1 \in 1..k
    BY <1>1
  <2>. DEFINE l == i + 1
  <2>3. t[l] = IF text[l] = "demo" THEN t[l - 1] ELSE Append(t[l - 1], text[l])
    <3>1. l \in 0..k /\ l # 0
      BY <2>2
    <3>. HIDE DEF l, k
    <3>. QED  BY <1>2, <3>1 DEF KeptUpTo
  <2>4. CASE text[l] = "demo"
    <3>1. t[l] = t[i]
      BY <2>2, <2>3, <2>4
    <3>2. ASSUME NEW j \in 1..(i + 1), text[j] # "demo"
          PROVE  j \in 1..i
      BY <2>4, <3>2
    <3>. QED  BY <2>1, <3>1, <3>2
  <2>5. CASE text[l] # "demo"
    <3>1. t[l] = Append(t[i], text[l])
      BY <2>2, <2>3, <2>5
    <3>2. text[l] \in OwnPiece
      BY <1>1, <2>2, <2>5 DEF OwnPiece
    <3>3. Append(t[i], text[l]) \in Seq(OwnPiece) /\ Append(t[i], text[l]) # <<>>
      BY <2>1, <3>2, AppendProperties
    <3>. QED  BY <3>1, <3>3
  <2>. QED  BY <2>4, <2>5
<1>. HIDE DEF S
<1>6. \A i \in Nat : i \in S
  BY <1>4, <1>5, Induction
<1>. QED  BY <1>1, <1>3, <1>6 DEF S

---------------------------------------------------------------------------
\* What the assemblers write before the text of an agent, and after it.
LeadsIn(before) ==
  /\ before \in Seq(Piece) /\ Len(before) # 0 /\ before[1] = "prefix"
  /\ \A j \in 1..Len(before) : before[j] = "demo" => j = 2

LeadsOut(after) == after \in Seq(OwnPiece)

Around(before, text, after) == before \o text \o after

LEMMA TemplatesLead ==
  /\ LeadsIn(<<"prefix", "top">>) /\ LeadsIn(<<"prefix">>) /\ LeadsIn(<<"prefix", "demo">>)
  /\ LeadsOut(<<"aaosa">>) /\ LeadsOut(<<>>)
<1>1. LeadsIn(<<"prefix", "top">>)
  BY DEF LeadsIn, Piece
<1>2. LeadsIn(<<"prefix">>)
  BY DEF LeadsIn, Piece
<1>3. LeadsIn(<<"prefix", "demo">>)
  BY DEF LeadsIn, Piece
<1>4. LeadsOut(<<"aaosa">>)
  BY DEF LeadsOut, OwnPiece, Piece
<1>5. LeadsOut(<<>>)
  BY DEF LeadsOut
<1>. QED  BY <1>1, <1>2, <1>3, <1>4, <1>5

(***************************************************************************)
(* The instructions of a block are pieces, the first the prefix, and the    *)
(* only demo text among them is the assembler's.                            *)
(***************************************************************************)
LEMMA BlockInstructions ==
  ASSUME NEW text \in Seq(OwnPiece), NEW before, LeadsIn(before), NEW after, LeadsOut(after),
         NEW all, all = Around(before, text, after)
  PROVE  /\ all \in Seq(Piece) /\ Len(all) # 0 /\ all[1] # "demo"
         /\ \A j \in 1..Len(all) : all[j] = "demo" => j = 2
<1>1. text \in Seq(Piece) /\ \A j \in 1..Len(text) : text[j] # "demo"
  BY SeqMonotonic DEF OwnPiece
<1>2. /\ before \in Seq(Piece) /\ Len(before) # 0 /\ before[1] = "prefix"
      /\ \A j \in 1..Len(before) : before[j] = "demo" => j = 2
  BY DEF LeadsIn
<1>3. after \in Seq(Piece) /\ \A j \in 1..Len(after) : after[j] # "demo"
  BY SeqMonotonic DEF LeadsOut, OwnPiece
<1>. DEFINE first == before \o text
<1>4. /\ first \in Seq(Piece) /\ Len(first) = Len(before) + Len(text)
      /\ \A j \in 1..Len(first) :
           first[j] = IF j <= Len(before) THEN before[j] ELSE text[j - Len(before)]
  BY <1>1, <1>2, ConcatProperties
<1>5. Len(before) \in Nat /\ Len(text) \in Nat /\ Len(after) \in Nat
  BY <1>1, <1>2, <1>3, LenProperties
<1>6. first[1] = "prefix" /\ Len(first) \in Nat \ {0}
  BY <1>2, <1>4, <1>5
<1>7. ASSUME NEW j \in 1..Len(first), first[j] = "demo"
      PROVE  j = 2
  <2>1. CASE j <= Len(before)
    <3>1. j \in 1..Len(before) /\ first[j] = before[j]
      BY <1>4, <1>5, <1>6, <2>1
    <3>. QED  BY <1>2, <1>7, <3>1
  <2>2. CASE ~(j <= Len(before))
    <3>1. j - Len(before) \in 1..Len(text) /\ first[j] = text[j - Len(before)]
      BY <1>4, <1>5, <1>6, <2>2
    <3>. QED  BY <1>1, <1>7, <3>1
  <2>. QED  BY <2>1, <2>2
<1>. HIDE DEF first
<1>8. /\ all \in Seq(Piece) /\ Len(all) = Len(first) + Len(after)
      /\ \A j \in 1..Len(all) :
           all[j] = IF j <= Len(first) THEN first[j] ELSE after[j - Len(first)]
  <2>. DEFINE whole == first \o after
  <2>1. /\ whole \in Seq(Piece) /\ Len(whole) = Len(first) + Len(after)
        /\ \A j \in 1..Len(first) + Len(after) :
             whole[j] = IF j <= Len(first) THEN first[j] ELSE after[j - Len(first)]
    <3>1. after \in Seq(Piece) /\ first \in Seq(Piece)
      BY <1>3, <1>4
    <3>. QED  BY <3>1, ConcatProperties
  <2>2. all = whole
    BY DEF first, Around
  <2>. HIDE DEF whole
  <2>. QED  BY <2>1, <2>2
<1>9. Len(all) # 0 /\ all[1] = "prefix"
  <2>1. 1 \in 1..Len(all) /\ 1 <= Len(first)
    BY <1>5, <1>6, <1>8
  <2>. QED  BY <1>6, <1>8, <2>1
<1>10. ASSUME NEW j \in 1..Len(all), all[j] = "demo"
       PROVE  j = 2
  <2>1. CASE j <= Len(first)
    <3>1. j \in 1..Len(first) /\ all[j] = first[j]
      BY <1>5, <1>6, <1>8, <2>1
    <3>. QED  BY <1>7, <1>10, <3>1
  <2>2. CASE ~(j <= Len(first))
    <3>1. j - Len(first) \in 1..Len(after) /\ all[j] = after[j - Len(first)]
      BY <1>5, <1>6, <1>8, <2>2
    <3>. QED  BY <1>3, <1>10, <3>1
  <2>. QED  BY <2>1, <2>2
<1>. QED  BY <1>8, <1>9, <1>10

\* The agents that are taken from the toolbox.
FromToolbox(agent) == agent.tools = {} /\ agent.text = <<>>

\* What a reload owes an agent.
SameAgent(before, after, top) ==
  /\ after.name = before.name /\ after.tools = before.tools
  /\ before.name # top => (FromToolbox(before) <=> FromToolbox(after))

OneDemoText(block) ==
  "instructions" \in DOMAIN block =>
    \A j, k \in DOMAIN block.instructions :
      block.instructions[j] = "demo" /\ block.instructions[k] = "demo" => j = k

\* A block with instructions, for an agent.
Written(block, agent, before, after) ==
  /\ DOMAIN block = {"name", "tools", "description", "instructions"}
  /\ block.name = agent.name /\ block.tools = agent.tools
  /\ block.description \in {"none", "default", "own"}
  /\ block.instructions = Around(before, agent.text, after)
  /\ LeadsIn(before) /\ LeadsOut(after)

BlockOf(agent, instructions, description) ==
  [name |-> agent.name, tools |-> agent.tools, description |-> description,
   instructions |-> instructions]

LEMMA IsWritten ==
  ASSUME NEW agent, NEW before, NEW after, NEW description, NEW block,
         LeadsIn(before), LeadsOut(after), description \in {"none", "default", "own"},
         block = BlockOf(agent, Around(before, agent.text, after), description)
  PROVE  Written(block, agent, before, after)
<1>. DEFINE all == Around(before, agent.text, after)
<1>. HIDE DEF all
<1>1. /\ DOMAIN block = {"name", "tools", "description", "instructions"}
      /\ block.name = agent.name /\ block.tools = agent.tools
      /\ block.description = description /\ block.instructions = all
  <2>1. block = BlockOf(agent, all, description)
    BY DEF all
  <2>. QED  BY <2>1 DEF BlockOf
<1>. QED  BY <1>1 DEF Written, all

AgentOf(name, tools, description, text) ==
  [name |-> name, tools |-> tools, description |-> description, text |-> text]

LEMMA IsOwnAgent ==
  ASSUME NEW name \in Agents, NEW tools \in SUBSET Agents,
         NEW description \in {"none", "default", "own"}, NEW text \in Seq(OwnPiece)
  PROVE  AgentOf(name, tools, description, text) \in OwnAgent
BY DEF OwnAgent, AgentOf

(***************************************************************************)
(* A block with instructions is read as the agent it was written for.       *)
(***************************************************************************)
LEMMA WrittenAndRead ==
  ASSUME NEW agent \in OwnAgent, NEW top, NEW before, NEW after,
         NEW block, Written(block, agent, before, after),
         agent.name = top \/ ~FromToolbox(agent)
  PROVE  /\ {"name", "tools"} \subseteq DOMAIN block /\ block.name = agent.name
         /\ OneDemoText(block)
         /\ ParseAgent(block) \in OwnAgent
         /\ SameAgent(agent, ParseAgent(block), top)
<1>. DEFINE all == block.instructions
            description == block.description
<1>1. agent.text \in Seq(OwnPiece) /\ agent.name \in Agents /\ agent.tools \in SUBSET Agents
  BY DEF OwnAgent
<1>2. /\ all \in Seq(Piece) /\ Len(all) # 0 /\ all[1] # "demo"
      /\ \A j \in 1..Len(all) : all[j] = "demo" => j = 2
  <2>1. LeadsIn(before) /\ LeadsOut(after) /\ all = Around(before, agent.text, after)
    BY DEF Written
  <2>. HIDE DEF all
  <2>. QED  BY <1>1, <2>1, BlockInstructions
<1>3. /\ DOMAIN block = {"name", "tools", "description", "instructions"}
      /\ block.name = agent.name /\ block.tools = agent.tools
      /\ description \in {"none", "default", "own"}
  BY DEF Written
<1>4. DOMAIN all = 1..Len(all) /\ 1 \in 1..Len(all)
  BY <1>2, LenProperties
<1>5. OneDemoText(block)
  BY <1>2, <1>4 DEF OneDemoText
<1>. DEFINE text == ExtractCustomInstructions(all)
<1>6. text \in Seq(OwnPiece) /\ text # <<>>
  <2>. HIDE DEF all
  <2>. QED  BY <1>2, <1>4, ExtractKeeps
<1>7. ParseAgent(block) = AgentOf(agent.name, agent.tools, description, text)
  BY <1>3 DEF ParseAgent, AgentOf
<1>. HIDE DEF text, all, description
<1>8. ParseAgent(block) \in OwnAgent
  <2>1. AgentOf(agent.name, agent.tools, description, text) \in OwnAgent
    BY <1>1, <1>3, <1>6, IsOwnAgent
  <2>. QED  BY <1>7, <2>1
<1>9. SameAgent(agent, ParseAgent(block), top)
  BY <1>6, <1>7 DEF SameAgent, FromToolbox, AgentOf
<1>. QED  BY <1>3, <1>5, <1>8, <1>9

\* What the assemblers write for an agent.
LEMMA RenderedAs ==
  ASSUME NEW agent \in OwnAgent, NEW top, agent.name = top \/ ~FromToolbox(agent)
  PROVE  \E before, after : Written(RenderAgentBlock(agent, top), agent, before, after)
<1>. DEFINE block == RenderAgentBlock(agent, top)
            Block(before, after, d) == BlockOf(agent, Around(before, agent.text, after), d)
<1>1. agent.description \in {"none", "default", "own"}
  BY DEF OwnAgent
<1>2. CASE agent.name = top
  <2>. DEFINE d == IF agent.description = "none" THEN "default" ELSE agent.description
  <2>1. block = Block(<<"prefix", "top">>, <<"aaosa">>, d)
    BY <1>2 DEF RenderAgentBlock, BlockOf, Around
  <2>2. d \in {"none", "default", "own"}
    BY <1>1
  <2>. HIDE DEF d, block
  <2>3. Written(block, agent, <<"prefix", "top">>, <<"aaosa">>)
    BY <2>1, <2>2, TemplatesLead, IsWritten
  <2>. QED  BY <2>3 DEF block
<1>3. CASE agent.name # top /\ agent.tools # {}
  <2>1. block = Block(<<"prefix">>, <<"aaosa">>, agent.description)
    BY <1>3 DEF RenderAgentBlock, BlockOf, Around
  <2>. HIDE DEF block
  <2>2. Written(block, agent, <<"prefix">>, <<"aaosa">>)
    BY <1>1, <2>1, TemplatesLead, IsWritten
  <2>. QED  BY <2>2 DEF block
<1>4. CASE agent.name # top /\ agent.tools = {} /\ agent.text # <<>>
  <2>1. CASE DemoMode
    <3>1. block = Block(<<"prefix", "demo">>, <<>>, agent.description)
      BY <1>4, <2>1 DEF RenderAgentBlock, BlockOf, Around
    <3>. HIDE DEF block
    <3>2. Written(block, agent, <<"prefix", "demo">>, <<>>)
      BY <1>1, <3>1, TemplatesLead, IsWritten
    <3>. QED  BY <3>2 DEF block
  <2>2. CASE ~DemoMode
    <3>1. block = Block(<<"prefix">>, <<>>, agent.description)
      BY <1>4, <2>2 DEF RenderAgentBlock, BlockOf, Around
    <3>. HIDE DEF block
    <3>2. Written(block, agent, <<"prefix">>, <<>>)
      BY <1>1, <3>1, TemplatesLead, IsWritten
    <3>. QED  BY <3>2 DEF block
  <2>. QED  BY <2>1, <2>2
<1>. QED  BY <1>2, <1>3, <1>4 DEF FromToolbox

(***************************************************************************)
(* An agent of any kind, written out and read again.                        *)
(***************************************************************************)
LEMMA AgentSurvives ==
  ASSUME NEW agent \in OwnAgent, NEW top, NEW block, block = RenderAgentBlock(agent, top)
  PROVE  /\ {"name", "tools"} \subseteq DOMAIN block /\ block.name = agent.name
         /\ OneDemoText(block)
         /\ ParseAgent(block) \in OwnAgent
         /\ SameAgent(agent, ParseAgent(block), top)
<1>1. CASE agent.name = top \/ ~FromToolbox(agent)
  <2>1. PICK before, after : Written(block, agent, before, after)
    BY <1>1, RenderedAs
  <2>. QED  BY <1>1, <2>1, WrittenAndRead
<1>2. CASE agent.name # top /\ FromToolbox(agent)
  <2>. USE <1>2 DEF FromToolbox
  <2>1. block = [name |-> agent.name, tools |-> {}, toolbox |-> agent.name]
    BY DEF RenderAgentBlock
  <2>2. /\ DOMAIN block = {"name", "tools", "toolbox"}
        /\ block.name = agent.name /\ block.tools = {}
    BY <2>1
  <2>3. ParseAgent(block) = AgentOf(agent.name, {}, "none", <<>>)
    BY <2>2 DEF ParseAgent, AgentOf
  <2>4. ParseAgent(block) \in OwnAgent
    <3>1. <<>> \in Seq(OwnPiece) /\ {} \in SUBSET Agents /\ agent.name \in Agents
      BY DEF OwnAgent
    <3>. QED  BY <2>3, <3>1, IsOwnAgent
  <2>5. OneDemoText(block)
    BY <2>2 DEF OneDemoText
  <2>6. SameAgent(agent, ParseAgent(block), top)
    BY <2>3 DEF SameAgent, AgentOf
  <2>. QED  BY <2>2, <2>4, <2>5, <2>6
<1>. QED  BY <1>1, <1>2

---------------------------------------------------------------------------
\* The agents of m are those of n, the j-th of m in place p[j] of n.
Reorders(p, m, n) ==
  /\ p \in [1..Len(n) -> 1..Len(n)]
  /\ \A i \in 1..Len(n) : \E j \in 1..Len(n) : p[j] = i
  /\ \A j, k \in 1..Len(n) : p[j] = p[k] => j = k
  /\ DOMAIN m = 1..Len(n)
  /\ \A j \in 1..Len(n) : m[j] = n[p[j]]

\* A sequence without its i-th element.
LEMMA WithoutOne ==
  ASSUME NEW S, NEW n \in Seq(S), NEW i \in 1..Len(n)
  PROVE  /\ RemoveAt(n, i) \in Seq(S) /\ Len(RemoveAt(n, i)) = Len(n) - 1
         /\ \A j \in 1..(Len(n) - 1) :
              RemoveAt(n, i)[j] = IF j < i THEN n[j] ELSE n[j + 1]
<1>. DEFINE l == Len(n)
            s == SubSeq(n, 1, i - 1)
            t == SubSeq(n, i + 1, l)
            r == s \o t
<1>1. l \in Nat /\ i \in 1..l /\ \A j \in 1..l : n[j] \in S
  OBVIOUS
<1>2. RemoveAt(n, i) = r
  BY DEF RemoveAt
<1>. HIDE DEF l
<1>3. s \in Seq(S) /\ Len(s) = i - 1 /\ \A j \in 1..(i - 1) : s[j] = n[j]
  BY <1>1, SubSeqProperties
<1>4. t \in Seq(S) /\ Len(t) = l - i /\ \A j \in 1..(l - i) : t[j] = n[i + j]
  <2>1. \A j \in (i + 1)..l : n[j] \in S
    BY <1>1
  <2>2. i + 1 \in Int /\ l \in Int /\ l - (i + 1) + 1 = l - i
    BY <1>1
  <2>3. /\ t \in Seq(S) /\ Len(t) = IF i + 1 <= l THEN l - (i + 1) + 1 ELSE 0
        /\ \A j \in 1..(l - (i + 1) + 1) : t[j] = n[(i + 1) + j - 1]
    BY <2>1, <2>2, SubSeqProperties
  <2>4. Len(t) = l - i
    BY <1>1, <2>3
  <2>5. ASSUME NEW j \in 1..(l - i)
        PROVE  t[j] = n[i + j]
    <3>1. (i + 1) + j - 1 = i + j
      BY <1>1
    <3>. QED  BY <2>2, <2>3, <3>1
  <2>. QED  BY <2>3, <2>4, <2>5
<1>. HIDE DEF s, t
<1>5. /\ r \in Seq(S) /\ Len(r) = Len(s) + Len(t)
      /\ \A j \in 1..Len(s) + Len(t) : r[j] = IF j <= Len(s) THEN s[j] ELSE t[j - Len(s)]
  BY <1>3, <1>4, ConcatProperties
<1>6. Len(s) + Len(t) = l - 1
  BY <1>1, <1>3, <1>4
<1>7. ASSUME NEW j \in 1..(l - 1)
      PROVE  r[j] = IF j < i THEN n[j] ELSE n[j + 1]
  <2>1. CASE j < i
    <3>1. j \in 1..(i - 1) /\ j <= Len(s)
      BY <1>1, <1>3, <2>1
    <3>2. r[j] = s[j]
      BY <1>5, <1>6, <3>1
    <3>. QED  BY <1>3, <2>1, <3>1, <3>2
  <2>2. CASE ~(j < i)
    <3>. DEFINE q == j - Len(s)
    <3>1. q \in 1..(l - i) /\ i + q = j + 1 /\ ~(j <= Len(s))
      BY <1>1, <1>3, <2>2
    <3>2. r[j] = t[q]
      BY <1>5, <1>6, <3>1
    <3>. HIDE DEF q
    <3>3. t[q] = n[i + q]
      BY <1>4, <3>1
    <3>. QED  BY <2>2, <3>1, <3>2, <3>3
  <2>. QED  BY <2>1, <2>2
<1>. QED  BY <1>2, <1>5, <1>6, <1>7 DEF l

(***************************************************************************)
(* The order of the file has the top agent first, and everybody once.       *)
(***************************************************************************)
LEMMA TopAgentFirst ==
  ASSUME NEW n \in Seq(OwnAgent), NEW top \in Names(n)
  PROVE  LET m == MoveTopAgentFirst(n, top)
         IN /\ Len(n) \in Nat \ {0} /\ m[1].name = top
            /\ \E p : Reorders(p, m, n)
<1>. DEFINE m == MoveTopAgentFirst(n, top)
            i == CHOOSE i \in DOMAIN n : n[i].name = top
            l == Len(n)
            p == [j \in 1..l |-> IF j = 1 THEN i ELSE IF j <= i THEN j - 1 ELSE j]
<1>1. l \in Nat /\ DOMAIN n = 1..l
  BY LenProperties
<1>2. i \in 1..l /\ n[i].name = top
  BY <1>1 DEF Names
<1>3. m = <<n[i]>> \o RemoveAt(n, i)
  BY DEF MoveTopAgentFirst
<1>. HIDE DEF m, i, l
<1>. DEFINE r == RemoveAt(n, i)
<1>4. /\ r \in Seq(OwnAgent) /\ Len(r) = l - 1
      /\ \A j \in 1..(l - 1) : r[j] = IF j < i THEN n[j] ELSE n[j + 1]
  BY <1>2, WithoutOne DEF l
<1>. HIDE DEF r
<1>5. n[i] \in OwnAgent
  BY <1>1, <1>2
<1>6. /\ m \in Seq(OwnAgent) /\ Len(m) = l
      /\ \A j \in 1..l : m[j] = IF j = 1 THEN n[i] ELSE r[j - 1]
  <2>1. <<n[i]>> \in Seq(OwnAgent) /\ Len(<<n[i]>>) = 1 /\ <<n[i]>>[1] = n[i]
    BY <1>5
  <2>. DEFINE a == <<n[i]>>
  <2>. HIDE DEF a
  <2>2. /\ m \in Seq(OwnAgent) /\ Len(m) = Len(a) + Len(r)
        /\ \A j \in 1..Len(a) + Len(r) : m[j] = IF j <= Len(a) THEN a[j] ELSE r[j - Len(a)]
    <3>1. a \in Seq(OwnAgent) /\ m = a \o r
      BY <1>3, <2>1 DEF a, r
    <3>. QED  BY <1>4, <3>1, ConcatProperties
  <2>3. Len(a) = 1 /\ a[1] = n[i]
    BY <2>1 DEF a
  <2>4. Len(a) + Len(r) = l
    BY <1>1, <1>4, <2>3
  <2>. QED  BY <1>1, <2>2, <2>3, <2>4
<1>7. ASSUME NEW j \in 1..l
       PROVE  m[j] = n[p[j]]
  <2>1. CASE j = 1
    BY <1>6, <2>1
  <2>2. CASE j # 1
    <3>1. j - 1 \in 1..(l - 1) /\ (j - 1) + 1 = j /\ (j - 1 < i <=> j <= i)
      BY <1>1, <1>2, <2>2
    <3>2. r[j - 1] = IF j <= i THEN n[j - 1] ELSE n[j]
      BY <1>4, <3>1
    <3>. QED  BY <1>6, <2>2, <3>2
  <2>. QED  BY <2>1, <2>2
<1>8. p \in [1..l -> 1..l]
  BY <1>1, <1>2
<1>9. ASSUME NEW k \in 1..l
       PROVE  \E j \in 1..l : p[j] = k
  <2>1. CASE k = i
    <3>1. 1 \in 1..l /\ p[1] = k
      BY <1>1, <1>2, <2>1
    <3>. QED  BY <3>1
  <2>2. CASE k < i
    <3>1. k + 1 \in 1..l /\ k + 1 # 1 /\ k + 1 <= i
      BY <1>1, <1>2, <2>2
    <3>2. p[k + 1] = (k + 1) - 1
      BY <3>1
    <3>. QED  BY <3>1, <3>2
  <2>3. CASE k > i
    <3>1. k # 1 /\ ~(k <= i)
      BY <1>1, <1>2, <2>3
    <3>2. p[k] = k
      BY <3>1
    <3>. QED  BY <3>2
  <2>. QED  BY <1>1, <1>2, <2>1, <2>2, <2>3
<1>10. ASSUME NEW j \in 1..l, NEW k \in 1..l, p[j] = p[k]
       PROVE  j = k
  BY <1>1, <1>2, <1>10
<1>11. DOMAIN m = 1..l
  BY <1>6, LenProperties
<1>12. Reorders(p, m, n)
  <2>. HIDE DEF p
  <2>. QED  BY <1>7, <1>8, <1>9, <1>10, <1>11 DEF Reorders, l
<1>13. m[1].name = top
  BY <1>1, <1>2, <1>6
<1>. QED  BY <1>1, <1>2, <1>12, <1>13 DEF m, l

---------------------------------------------------------------------------
\* p matches the agents of a network with what was read of them.
Reloads(p, n, m, top) ==
  /\ p \in [1..Len(n) -> 1..Len(n)]
  /\ \A i \in 1..Len(n) : \E j \in 1..Len(n) : p[j] = i
  /\ \A j, k \in 1..Len(n) : p[j] = p[k] => j = k
  /\ m \in Seq(OwnAgent) /\ DOMAIN m = 1..Len(n)
  /\ \A j \in 1..Len(n) : SameAgent(n[p[j]], m[j], top)

(***************************************************************************)
(* A file has the top agent first, no demo text twice, and is read as the   *)
(* network it was written for.                                              *)
(***************************************************************************)
LEMMA FileIsRead ==
  ASSUME NEW n \in Seq(OwnAgent), NEW top \in Names(n),
         NEW f, f = AssembleAgentNetwork(n, top)
  PROVE  /\ \A i \in DOMAIN f : {"name", "tools"} \subseteq DOMAIN f[i] /\ OneDemoText(f[i])
         /\ f[1].name = top
         /\ \E p : Reloads(p, n, ConfigToNetworkDef(f), top)
<1>. DEFINE ordered == MoveTopAgentFirst(n, top)
            l == Len(n)
            m == ConfigToNetworkDef(f)
<1>1. l \in Nat \ {0} /\ ordered[1].name = top
  BY TopAgentFirst
<1>2. PICK p : Reorders(p, ordered, n)
  BY TopAgentFirst
<1>3. /\ DOMAIN ordered = 1..l /\ DOMAIN n = 1..l
      /\ \A j \in 1..l : p[j] \in 1..l /\ ordered[j] = n[p[j]]
  BY <1>2, LenProperties DEF Reorders
<1>. HIDE DEF ordered
<1>4. DOMAIN f = 1..l /\ \A j \in 1..l : f[j] = RenderAgentBlock(ordered[j], top)
  BY <1>3 DEF AssembleAgentNetwork, ordered
<1>5. DOMAIN m = 1..l /\ \A j \in 1..l : m[j] = ParseAgent(f[j])
  BY <1>4 DEF ConfigToNetworkDef
<1>. HIDE DEF l, m
<1>6. \A j \in 1..l : n[j] \in OwnAgent
  BY DEF l
<1>7. ASSUME NEW j \in 1..l
      PROVE  /\ {"name", "tools"} \subseteq DOMAIN f[j] /\ f[j].name = ordered[j].name
             /\ OneDemoText(f[j])
             /\ m[j] \in OwnAgent
             /\ SameAgent(n[p[j]], m[j], top)
  <2>1. n[p[j]] \in OwnAgent /\ ordered[j] = n[p[j]]
    BY <1>3, <1>6
  <2>2. f[j] = RenderAgentBlock(n[p[j]], top) /\ m[j] = ParseAgent(f[j])
    BY <1>4, <1>5, <2>1
  <2>. QED  BY <2>1, <2>2, AgentSurvives
<1>8. f[1].name = top
  BY <1>1, <1>7
<1>9. m \in Seq(OwnAgent)
  <2>1. l \in Nat /\ m = [j \in 1..l |-> m[j]]
    BY <1>1, <1>5 DEF m, ConfigToNetworkDef
  <2>2. m \in [1..l -> OwnAgent]
    BY <1>7, <2>1
  <2>. QED  BY <2>1, <2>2, SeqDef
<1>10. Reloads(p, n, m, top)
  BY <1>2, <1>5, <1>7, <1>9 DEF Reloads, Reorders, l
<1>. QED  BY <1>4, <1>7, <1>8, <1>10 DEF m

(***************************************************************************)
(* What is the same for every agent is the same for the network.            *)
(***************************************************************************)
LEMMA NetworkSurvives ==
  ASSUME NEW n \in Seq(OwnAgent), NEW m, NEW top, NEW p, Reloads(p, n, m, top)
  PROVE  /\ SameAgents(n, m) /\ FrontMen(m) = FrontMen(n)
         /\ top \in FrontMen(n) => SameToolbox(n, m)
         /\ (\A i, j \in DOMAIN n : n[i].name = n[j].name => i = j)
              => \A i, j \in DOMAIN m : m[i].name = m[j].name => i = j
<1>. DEFINE l == Len(n)
<1>1. /\ p \in [1..l -> 1..l]
      /\ \A i \in 1..l : \E j \in 1..l : p[j] = i
      /\ \A j, k \in 1..l : p[j] = p[k] => j = k
      /\ DOMAIN m = 1..l /\ DOMAIN n = 1..l
      /\ \A j \in 1..l : SameAgent(n[p[j]], m[j], top)
  BY LenProperties DEF Reloads
<1>. HIDE DEF l
<1>2. \A j \in 1..l : m[j].name = n[p[j]].name /\ m[j].tools = n[p[j]].tools
  BY <1>1 DEF SameAgent
<1>. DEFINE Matches(i, j) == j \in 1..l /\ m[j].name = n[i].name /\ m[j].tools = n[i].tools
<1>3. ASSUME NEW j \in 1..l
      PROVE  \E i \in 1..l : Matches(i, j)
  <2>1. p[j] \in 1..l
    BY <1>1
  <2>. QED  BY <1>2, <2>1
<1>4. ASSUME NEW i \in 1..l
      PROVE  \E j \in 1..l : Matches(i, j)
  <2>1. PICK j \in 1..l : p[j] = i
    BY <1>1
  <2>. QED  BY <1>2, <2>1
<1>5. Names(m) = Names(n)
  <2>1. ASSUME NEW a \in Names(m)
        PROVE  a \in Names(n)
    <3>1. PICK j \in 1..l : a = m[j].name
      BY <1>1 DEF Names
    <3>2. PICK i \in 1..l : Matches(i, j)
      BY <1>3
    <3>. QED  BY <1>1, <3>1, <3>2 DEF Names
  <2>2. ASSUME NEW a \in Names(n)
        PROVE  a \in Names(m)
    <3>1. PICK i \in 1..l : a = n[i].name
      BY <1>1 DEF Names
    <3>2. PICK j \in 1..l : Matches(i, j)
      BY <1>4
    <3>. QED  BY <1>1, <3>1, <3>2 DEF Names
  <2>. QED  BY <2>1, <2>2
<1>6. ASSUME NEW a
      PROVE  Tools(m, a) = Tools(n, a)
  <2>1. ASSUME NEW t \in Tools(m, a)
        PROVE  t \in Tools(n, a)
    <3>1. PICK j \in 1..l : m[j].name = a /\ t \in m[j].tools
      BY <1>1, <2>1 DEF Tools
    <3>2. PICK i \in 1..l : Matches(i, j)
      BY <1>3
    <3>3. i \in {k \in DOMAIN n : n[k].name = a} /\ t \in n[i].tools
      BY <1>1, <3>1, <3>2
    <3>. QED  BY <3>3 DEF Tools
  <2>2. ASSUME NEW t \in Tools(n, a)
        PROVE  t \in Tools(m, a)
    <3>1. PICK i \in 1..l : n[i].name = a /\ t \in n[i].tools
      BY <1>1, <2>2 DEF Tools
    <3>2. PICK j \in 1..l : Matches(i, j)
      BY <1>4
    <3>3. j \in {k \in DOMAIN m : m[k].name = a} /\ t \in m[j].tools
      BY <1>1, <3>1, <3>2
    <3>. QED  BY <3>3 DEF Tools
  <2>. QED  BY <2>1, <2>2
<1>7. SameAgents(n, m)
  BY <1>5, <1>6 DEF SameAgents
<1>8. FrontMen(m) = FrontMen(n)
  <2>1. ASSUME NEW a
        PROVE  (\A j \in 1..l : a \notin m[j].tools) <=> (\A i \in 1..l : a \notin n[i].tools)
    <3>1. ASSUME \A j \in 1..l : a \notin m[j].tools, NEW i \in 1..l
          PROVE  a \notin n[i].tools
      BY <1>4, <3>1
    <3>2. ASSUME \A i \in 1..l : a \notin n[i].tools, NEW j \in 1..l
          PROVE  a \notin m[j].tools
      BY <1>3, <3>2
    <3>. QED  BY <3>1, <3>2
  <2>. QED  BY <1>1, <1>5, <2>1 DEF FrontMen
<1>9. ASSUME top \in FrontMen(n), NEW a \in Names(n) \ FrontMen(n)
      PROVE  IsToolbox(n, a) <=> IsToolbox(m, a)
  <2>1. a # top
    BY <1>9
  <2>2. \A j \in 1..l : m[j].name = a => (FromToolbox(n[p[j]]) <=> FromToolbox(m[j]))
    BY <1>1, <1>2, <2>1 DEF SameAgent
  <2>3. ASSUME IsToolbox(n, a)
        PROVE  IsToolbox(m, a)
    <3>1. PICK i \in 1..l : n[i].name = a /\ FromToolbox(n[i])
      BY <1>1, <2>3 DEF IsToolbox, FromToolbox
    <3>2. PICK j \in 1..l : p[j] = i
      BY <1>1
    <3>3. m[j].name = a /\ FromToolbox(m[j])
      BY <1>2, <2>2, <3>1, <3>2
    <3>. QED  BY <1>1, <3>3 DEF IsToolbox, FromToolbox
  <2>4. ASSUME IsToolbox(m, a)
        PROVE  IsToolbox(n, a)
    <3>1. PICK j \in 1..l : m[j].name = a /\ FromToolbox(m[j])
      BY <1>1, <2>4 DEF IsToolbox, FromToolbox
    <3>2. p[j] \in 1..l /\ n[p[j]].name = a /\ FromToolbox(n[p[j]])
      BY <1>1, <1>2, <2>2, <3>1
    <3>. QED  BY <1>1, <3>2 DEF IsToolbox, FromToolbox
  <2>. QED  BY <2>3, <2>4
<1>10. top \in FrontMen(n) => SameToolbox(n, m)
  BY <1>9 DEF SameToolbox
<1>11. ASSUME \A i, j \in DOMAIN n : n[i].name = n[j].name => i = j,
             NEW i \in DOMAIN m, NEW j \in DOMAIN m, m[i].name = m[j].name
      PROVE  i = j
  <2>1. i \in 1..l /\ j \in 1..l
    BY <1>1
  <2>2. p[i] \in DOMAIN n /\ p[j] \in DOMAIN n /\ n[p[i]].name = n[p[j]].name
    BY <1>1, <1>2, <1>11, <2>1
  <2>3. p[i] = p[j]
    BY <1>11, <2>2
  <2>. QED  BY <1>1, <2>1, <2>3
<1>. QED  BY <1>7, <1>8, <1>10, <1>11

---------------------------------------------------------------------------
(***************************************************************************)
(* No text of the network has a demo text, and what is saved is the network *)
(* as the assembler orders it for its only front man.                       *)
(***************************************************************************)
NamedOnce(n) == \A i, j \in DOMAIN n : n[i].name = n[j].name => i = j

RoundTripInv ==
  /\ net \in Seq(OwnAgent) /\ NamedOnce(net)
  /\ phase \in {"editing", "saved", "loaded"} /\ rounds \in 0..MaxRounds
  /\ phase # "saved" => file = <<>>
  /\ phase = "saved" => /\ FrontMen(net) = {FrontMan(net)} /\ rounds < MaxRounds
                         /\ file = AssembleAgentNetwork(net, FrontMan(net))

LEMMA RoundTripInitInv == RoundTripInit => RoundTripInv
BY NetworkRoundTripAssumption DEF RoundTripInit, RoundTripInv, NamedOnce

LEMMA AddKeeps ==
  ASSUME net \in Seq(OwnAgent), NamedOnce(net), NEW a \in Agents, AddAgent(a)
  PROVE  net' \in Seq(OwnAgent) /\ NamedOnce(net')
<1>1. PICK text \in NewText, description \in {"none", "own"} :
        net' = Append(net, [name |-> a, text |-> text, description |-> description, tools |-> {}])
  BY DEF AddAgent
<1>. DEFINE new == [name |-> a, text |-> text, description |-> description, tools |-> {}]
<1>2. text \in Seq(OwnPiece)
  <2>1. CASE text = <<>>
    BY <2>1
  <2>2. CASE text = <<"own">>
    BY <2>2 DEF OwnPiece, Piece
  <2>. QED  BY <2>1, <2>2 DEF NewText
<1>3. new \in OwnAgent /\ new.name = a
  BY <1>2 DEF OwnAgent
<1>. HIDE DEF new
<1>4. /\ net' \in Seq(OwnAgent) /\ Len(net') = Len(net) + 1
      /\ \A i \in 1..Len(net) : net'[i] = net[i]
      /\ net'[Len(net) + 1] = new
  BY <1>1, <1>3, AppendProperties DEF new
<1>5. \A i \in 1..Len(net) : net[i].name # a
  BY DEF AddAgent, Names
<1>. QED  BY <1>3, <1>4, <1>5 DEF NamedOnce

LEMMA ChangeKeeps ==
  ASSUME net \in Seq(OwnAgent), NamedOnce(net), NEW i \in DOMAIN net, ChangeAgent(i)
  PROVE  net' \in Seq(OwnAgent) /\ NamedOnce(net')
<1>1. i \in 1..Len(net) /\ net[i] \in OwnAgent
  OBVIOUS
<1>2. PICK agent \in OwnAgent : agent.name = net[i].name /\ net' = [net EXCEPT ![i] = agent]
  <2>1. ASSUME NEW tools \in SUBSET (Names(net) \ {net[i].name}),
               net' = [net EXCEPT ![i].tools = tools]
        PROVE  \E agent \in OwnAgent :
                 agent.name = net[i].name /\ net' = [net EXCEPT ![i] = agent]
    <3>. DEFINE agent == [net[i] EXCEPT !.tools = tools]
    <3>1. tools \in SUBSET Agents
      <4>1. ASSUME NEW j \in DOMAIN net
            PROVE  net[j].name \in Agents
        <5>1. net[j] \in OwnAgent
          OBVIOUS
        <5>. QED  BY <5>1 DEF OwnAgent
      <4>2. Names(net) \subseteq Agents
        BY <4>1 DEF Names
      <4>. QED  BY <4>2
    <3>2. agent \in OwnAgent /\ agent.name = net[i].name
      BY <1>1, <3>1 DEF OwnAgent
    <3>3. net' = [net EXCEPT ![i] = agent]
      BY <2>1
    <3>. QED  BY <3>2, <3>3
  <2>2. ASSUME NEW text \in NewText, net' = [net EXCEPT ![i].text = text]
        PROVE  \E agent \in OwnAgent :
                 agent.name = net[i].name /\ net' = [net EXCEPT ![i] = agent]
    <3>. DEFINE agent == [net[i] EXCEPT !.text = text]
    <3>1. text \in Seq(OwnPiece)
      <4>1. CASE text = <<>>
        BY <4>1
      <4>2. CASE text = <<"own">>
        BY <4>2 DEF OwnPiece, Piece
      <4>. QED  BY <4>1, <4>2 DEF NewText
    <3>2. agent \in OwnAgent /\ agent.name = net[i].name
      BY <1>1, <3>1 DEF OwnAgent
    <3>3. net' = [net EXCEPT ![i] = agent]
      BY <2>2
    <3>. QED  BY <3>2, <3>3
  <2>. QED  BY <2>1, <2>2 DEF ChangeAgent
<1>3. /\ net' \in Seq(OwnAgent) /\ Len(net') = Len(net)
      /\ \A j \in 1..Len(net) : net'[j].name = net[j].name
  BY <1>1, <1>2, ExceptSeq
<1>. QED  BY <1>3 DEF NamedOnce

LEMMA RemoveKeeps ==
  ASSUME net \in Seq(OwnAgent), NamedOnce(net), NEW i \in DOMAIN net, RemoveAgent(i)
  PROVE  net' \in Seq(OwnAgent) /\ NamedOnce(net')
<1>. DEFINE l == Len(net)
            r == RemoveAt(net, i)
            Less(agent) == [agent EXCEPT !.tools = @ \ {net[i].name}]
<1>1. l \in Nat /\ i \in 1..l
  OBVIOUS
<1>2. DOMAIN net' = 1..(l - 1) /\ \A j \in 1..(l - 1) : net'[j] = Less(r[j])
  BY DEF RemoveAgent
<1>3. \A j \in 1..(l - 1) : r[j] = IF j < i THEN net[j] ELSE net[j + 1]
  BY <1>1, WithoutOne
<1>4. \A j \in 1..l : net[j] \in OwnAgent
  OBVIOUS
<1>. HIDE DEF l, r
<1>5. ASSUME NEW j \in 1..(l - 1)
      PROVE  \E k \in 1..l : r[j] = net[k] /\ k = IF j < i THEN j ELSE j + 1
  BY <1>1, <1>3
<1>6. ASSUME NEW agent \in OwnAgent
      PROVE  Less(agent) \in OwnAgent /\ Less(agent).name = agent.name
  BY DEF OwnAgent
<1>. HIDE DEF Less
<1>7. ASSUME NEW j \in 1..(l - 1)
      PROVE  /\ net'[j] \in OwnAgent
             /\ \E k \in 1..l : net'[j].name = net[k].name /\ k = IF j < i THEN j ELSE j + 1
  BY <1>1, <1>2, <1>4, <1>5, <1>6
<1>8. net' \in Seq(OwnAgent)
  <2>1. l - 1 \in Nat
    BY <1>1
  <2>2. net' = [j \in 1..(l - 1) |-> net'[j]]
    BY <1>2 DEF RemoveAgent, l
  <2>3. net' \in [1..(l - 1) -> OwnAgent]
    BY <1>7, <2>2
  <2>. QED  BY <2>1, <2>3, SeqDef
<1>9. ASSUME NEW j \in 1..(l - 1), NEW k \in 1..(l - 1), net'[j].name = net'[k].name
       PROVE  j = k
  <2>1. PICK a \in 1..l : net'[j].name = net[a].name /\ a = IF j < i THEN j ELSE j + 1
    BY <1>7
  <2>2. PICK b \in 1..l : net'[k].name = net[b].name /\ b = IF k < i THEN k ELSE k + 1
    BY <1>7
  <2>3. a \in DOMAIN net /\ b \in DOMAIN net
    BY DEF l
  <2>4. a = b
    <3>1. net[a].name = net[b].name
      BY <1>9, <2>1, <2>2
    <3>. QED  BY <2>3, <3>1 DEF NamedOnce
  <2>. QED  BY <1>1, <2>1, <2>2, <2>4
<1>. QED  BY <1>2, <1>8, <1>9 DEF NamedOnce

LEMMA RoundTripNextInv == RoundTripInv /\ [RoundTripNext]_roundTripVars => RoundTripInv'
<1>. SUFFICES ASSUME RoundTripInv, [RoundTripNext]_roundTripVars
              PROVE  RoundTripInv'
  OBVIOUS
<1>1. CASE UNCHANGED roundTripVars
  <2>1. net' = net /\ file' = file /\ phase' = phase /\ rounds' = rounds
    BY <1>1 DEF roundTripVars
  <2>2. FrontMen(net') = FrontMen(net) /\ FrontMan(net') = FrontMan(net)
    BY <2>1
  <2>. QED  BY <2>1, <2>2 DEF RoundTripInv
<1>2. CASE Edit
  <2>1. net' \in Seq(OwnAgent) /\ NamedOnce(net')
    BY <1>2, AddKeeps, ChangeKeeps, RemoveKeeps DEF Edit, RoundTripInv
  <2>. QED  BY <1>2, <2>1 DEF Edit, RoundTripInv, NamedOnce
<1>3. CASE Save
  <2>1. FrontMen(net) = {FrontMan(net)}
    BY <1>3 DEF Save, FrontMan
  <2>2. /\ net' = net /\ phase' = "saved" /\ rounds' = rounds /\ rounds < MaxRounds
        /\ file' = AssembleAgentNetwork(net, FrontMan(net))
    BY <1>3 DEF Save
  <2>3. FrontMen(net') = FrontMen(net) /\ FrontMan(net') = FrontMan(net)
    BY <2>2
  <2>. QED  BY <2>1, <2>2, <2>3 DEF RoundTripInv
<1>4. CASE Load
  <2>. DEFINE top == FrontMan(net)
  <2>1. /\ net \in Seq(OwnAgent) /\ NamedOnce(net) /\ top \in Names(net)
        /\ file = AssembleAgentNetwork(net, top)
    BY <1>4 DEF Load, RoundTripInv, FrontMen
  <2>2. PICK p : Reloads(p, net, net', top)
    <3>1. net' = ConfigToNetworkDef(file)
      BY <1>4 DEF Load
    <3>. HIDE DEF top
    <3>. QED  BY <2>1, <3>1, FileIsRead
  <2>3. net' \in Seq(OwnAgent) /\ NamedOnce(net')
    BY <2>1, <2>2, NetworkSurvives DEF Reloads, NamedOnce
  <2>4. rounds + 1 \in 0..MaxRounds
    BY <1>4, NetworkRoundTripAssumption DEF Load, RoundTripInv
  <2>. QED  BY <1>4, <2>3, <2>4 DEF Load, RoundTripInv
<1>. QED  BY <1>1, <1>2, <1>3, <1>4 DEF RoundTripNext

LEMMA RoundTripAlways == RoundTripSpec => []RoundTripInv
<1>. QED  BY RoundTripInitInv, RoundTripNextInv, PTL DEF RoundTripSpec

(***************************************************************************)
(* However often a network is saved and reloaded, whatever its agents and   *)
(* edits, no agent has the demo text twice in what is written.              *)
(***************************************************************************)
THEOREM DemoTextNeverRepeats == RoundTripSpec => []DemoTextOnce
<1>1. RoundTripInv => DemoTextOnce
  <2>. SUFFICES ASSUME RoundTripInv PROVE DemoTextOnce
    OBVIOUS
  <2>1. CASE phase = "saved"
    <3>. DEFINE top == FrontMan(net)
    <3>1. /\ net \in Seq(OwnAgent) /\ top \in Names(net)
          /\ file = AssembleAgentNetwork(net, top)
      BY <2>1 DEF RoundTripInv, FrontMen
    <3>. HIDE DEF top
    <3>2. \A i \in DOMAIN file : OneDemoText(file[i])
      BY <3>1, FileIsRead
    <3>. QED  BY <3>2 DEF DemoTextOnce, OneDemoText
  <2>2. CASE phase # "saved"
    <3>1. file = <<>>
      BY <2>2 DEF RoundTripInv
    <3>. QED  BY <3>1 DEF DemoTextOnce
  <2>. QED  BY <2>1, <2>2
<1>. QED  BY <1>1, RoundTripAlways, PTL

(***************************************************************************)
(* Every reload gives the agents that were saved, with their tools, those   *)
(* of the toolbox from it, and one front man, who is first in the file.     *)
(***************************************************************************)
THEOREM ReloadsGiveTheNetwork == RoundTripSpec => SameNetwork
<1>. DEFINE Kept == phase = "saved" =>
              /\ SameAgents(net, net') /\ SameToolbox(net, net')
              /\ FrontMen(net) = {file[1].name} /\ FrontMen(net') = {file[1].name}
<1>1. RoundTripInv /\ [RoundTripNext]_roundTripVars => [Kept]_roundTripVars
  <2>. SUFFICES ASSUME RoundTripInv, RoundTripNext, phase = "saved"
                PROVE  Kept
    BY DEF Kept
  <2>. DEFINE top == FrontMan(net)
  <2>1. Load
    BY DEF RoundTripNext, Edit, Save
  <2>2. /\ net \in Seq(OwnAgent) /\ FrontMen(net) = {top} /\ top \in Names(net)
        /\ file = AssembleAgentNetwork(net, top) /\ net' = ConfigToNetworkDef(file)
    BY <2>1 DEF RoundTripInv, FrontMen, Load
  <2>. HIDE DEF top
  <2>3. file[1].name = top /\ \E p : Reloads(p, net, net', top)
    BY <2>2, FileIsRead
  <2>4. SameAgents(net, net') /\ FrontMen(net') = FrontMen(net) /\ SameToolbox(net, net')
    BY <2>2, <2>3, NetworkSurvives
  <2>. QED  BY <2>2, <2>3, <2>4
<1>. QED  BY <1>1, RoundTripAlways, PTL DEF SameNetwork, RoundTripSpec

(***************************************************************************)
(* The types, and no two agents of a name, over every edit and reload.      *)
(***************************************************************************)
THEOREM RoundTripTypes == RoundTripSpec => []RoundTripTypeOK
<1>1. RoundTripInv => RoundTripTypeOK
  <2>. SUFFICES ASSUME RoundTripInv PROVE RoundTripTypeOK
    OBVIOUS
  <2>1. net \in Seq(Agent)
    <3>1. \A text \in Seq(OwnPiece) : text \in Seq(Piece)
      BY SeqMonotonic DEF OwnPiece
    <3>2. OwnAgent \subseteq Agent
      BY <3>1 DEF OwnAgent, Agent
    <3>. QED  BY <3>2, SeqMonotonic DEF RoundTripInv
  <2>2. \A i \in DOMAIN file : {"name", "tools"} \subseteq DOMAIN file[i]
    <3>1. CASE phase = "saved"
      <4>. DEFINE top == FrontMan(net)
      <4>1. /\ net \in Seq(OwnAgent) /\ top \in Names(net)
            /\ file = AssembleAgentNetwork(net, top)
        BY <3>1 DEF RoundTripInv, FrontMen
      <4>. HIDE DEF top
      <4>. QED  BY <4>1, FileIsRead
    <3>2. CASE phase # "saved"
      <4>1. file = <<>>
        BY <3>2 DEF RoundTripInv
      <4>. QED  BY <4>1
    <3>. QED  BY <3>1, <3>2
  <2>. QED  BY <2>1, <2>2 DEF RoundTripInv, RoundTripTypeOK, NamedOnce
<1>. QED  BY <1>1, RoundTripAlways, PTL
=============================================================================

--------------------------- MODULE NetworkPersistor ---------------------------
(***************************************************************************)
(* FileSystemAgentNetworkPersistor: several designer sessions save their    *)
(* networks under one subdirectory, list them in its manifest, and include  *)
(* that manifest in the main one.                                           *)
(*                                                                         *)
(* open(..., "w") empties a file when it opens it and the text arrives when *)
(* it is closed: two steps, with other sessions, or a crash, in between.    *)
(* Whether a manifest has braces only decides on the syntax of the new      *)
(* entry and is left out.                                                   *)
(***************************************************************************)
EXTENDS Naturals, FiniteSets

CONSTANTS
  Session,     \* the concurrent calls of async_persist
  Net,         \* agent network names
  DefaultDir,  \* the subdirectory is "generated": the main manifest is left alone
  MainAtStart, \* the main manifest: absent, bare (no include line) or listing others
  ManifestAtStart, \* the subdirectory has a manifest, with entries of other networks or none
  MaxCrashes,  \* bound on the number of crashes
  NoNet

ASSUME NetworkPersistorAssumption ==
  /\ DefaultDir \in BOOLEAN
  /\ MainAtStart \in {"absent", "bare", "listing"}
  /\ ManifestAtStart \in BOOLEAN
  /\ MaxCrashes \in Nat
  /\ NoNet \notin Net

VARIABLES
  netFile,   \* each network's .hocon file
  exists,    \* the subdirectory has a manifest
  manifest,  \* the networks it lists
  main,      \* the main manifest
  session,   \* the local state of each call
  saved,     \* the networks for which some call returned
  crashes

vars == <<netFile, exists, manifest, main, session, saved, crashes>>

Idle == [pc |-> "idle", net |-> NoNet, listed |-> {}]

FileState == {"absent", "empty", "written"}

MainState == {"absent", "empty", "bare", "listing", "including"}

PC == {"idle", "save", "create", "fill", "read", "open", "write",
       "readMain", "openMain", "writeMain"}

TypeOK ==
  /\ netFile \in [Net -> FileState]
  /\ exists \in BOOLEAN
  /\ manifest \subseteq Net
  /\ main \in MainState
  /\ session \in [Session -> [pc : PC, net : Net \cup {NoNet}, listed : SUBSET Net]]
  /\ \A s \in Session : session[s].pc # "idle" => session[s].net \in Net
  /\ saved \subseteq Net
  /\ crashes \in 0..MaxCrashes

-------------------------------------------------------------------------------
At(s, pc) == session[s].pc = pc

GoTo(s, pc) == session' = [session EXCEPT ![s].pc = pc]

Return(s) ==
  /\ session' = [session EXCEPT ![s] = Idle]
  /\ saved' = saved \cup {session[s].net}

(***************************************************************************)
(* What a manifest holds once a session has written text into it.  A file   *)
(* that another session opened and wrote meanwhile keeps the part of its    *)
(* text the shorter one does not cover.                                     *)
(***************************************************************************)
Overwritten(old, text) == {text \cup rest : rest \in SUBSET (old \ text)}

-------------------------------------------------------------------------------
(***************************************************************************)
(* Mutant: the manifest is looked after before the network is saved.        *)
(***************************************************************************)
BeginWithManifest(s, n) ==
  /\ At(s, "idle")
  /\ session' = [session EXCEPT ![s] =
       [pc |-> IF exists THEN "read" ELSE "create", net |-> n, listed |-> {}]]
  /\ UNCHANGED <<netFile, exists, manifest, main, saved, crashes>>

Begin(s, n) ==
  /\ At(s, "idle")
  /\ netFile' = [netFile EXCEPT ![n] = "empty"]
  /\ session' = [session EXCEPT ![s] = [pc |-> "save", net |-> n, listed |-> {}]]
  /\ UNCHANGED <<exists, manifest, main, saved, crashes>>

(***************************************************************************)
(* The network file is closed, and manifest_path.exists() is evaluated      *)
(* before the next await.                                                   *)
(***************************************************************************)
SaveNetwork(s) ==
  /\ At(s, "save")
  /\ netFile' = [netFile EXCEPT ![session[s].net] = "written"]
  /\ GoTo(s, IF exists THEN "read" ELSE "create")
  /\ UNCHANGED <<exists, manifest, main, saved, crashes>>

CreateManifest(s) ==
  /\ At(s, "create")
  /\ exists' = TRUE
  /\ manifest' = {}
  /\ GoTo(s, "fill")
  /\ UNCHANGED <<netFile, main, saved, crashes>>

FillManifest(s) ==
  /\ At(s, "fill")
  /\ manifest' \in Overwritten(manifest, {})
  /\ GoTo(s, "read")
  /\ UNCHANGED <<netFile, exists, main, saved, crashes>>

(***************************************************************************)
(* A network that is listed already is done, whatever the main manifest     *)
(* says.                                                                    *)
(***************************************************************************)
ReadManifest(s) ==
  /\ At(s, "read")
  /\ \/ /\ session[s].net \in manifest
        /\ Return(s)
     \/ /\ session[s].net \notin manifest
        /\ session' = [session EXCEPT ![s].listed = manifest, ![s].pc = "open"]
        /\ UNCHANGED saved
  /\ UNCHANGED <<netFile, exists, manifest, main, crashes>>

OpenManifest(s) ==
  /\ At(s, "open")
  /\ manifest' = {}
  /\ GoTo(s, "write")
  /\ UNCHANGED <<netFile, exists, main, saved, crashes>>

(***************************************************************************)
(* Mutant: only the new entry is written.                                   *)
(***************************************************************************)
WriteEntryOnly(s) ==
  /\ At(s, "write")
  /\ manifest' \in Overwritten(manifest, {session[s].net})
  /\ IF DefaultDir
     THEN Return(s)
     ELSE GoTo(s, "readMain") /\ UNCHANGED saved
  /\ UNCHANGED <<netFile, exists, main, crashes>>

WriteManifest(s) ==
  /\ At(s, "write")
  /\ manifest' \in Overwritten(manifest, session[s].listed \cup {session[s].net})
  /\ IF DefaultDir
     THEN Return(s)
     ELSE GoTo(s, "readMain") /\ UNCHANGED saved
  /\ UNCHANGED <<netFile, exists, main, crashes>>

(***************************************************************************)
(* Mutant: an include line is only added to a manifest that has none.       *)
(***************************************************************************)
ReadMainBareOnly(s) ==
  /\ At(s, "readMain")
  /\ IF main = "bare"
     THEN GoTo(s, "openMain") /\ UNCHANGED saved
     ELSE Return(s)
  /\ UNCHANGED <<netFile, exists, manifest, main, crashes>>

(***************************************************************************)
(* _async_update_main_manifest: nothing to do when there is no main         *)
(* manifest, when it includes the subdirectory's, or when it has no include *)
(* line after which to put the new one.                                     *)
(***************************************************************************)
ReadMain(s) ==
  /\ At(s, "readMain")
  /\ IF main = "listing"
     THEN GoTo(s, "openMain") /\ UNCHANGED saved
     ELSE Return(s)
  /\ UNCHANGED <<netFile, exists, manifest, main, crashes>>

OpenMain(s) ==
  /\ At(s, "openMain")
  /\ main' = "empty"
  /\ GoTo(s, "writeMain")
  /\ UNCHANGED <<netFile, exists, manifest, saved, crashes>>

WriteMain(s) ==
  /\ At(s, "writeMain")
  /\ main' = "including"
  /\ Return(s)
  /\ UNCHANGED <<netFile, exists, manifest, crashes>>

(***************************************************************************)
(* The server dies and starts again: only the files are left.               *)
(***************************************************************************)
Crash ==
  /\ crashes < MaxCrashes
  /\ crashes' = crashes + 1
  /\ session' = [s \in Session |-> Idle]
  /\ UNCHANGED <<netFile, exists, manifest, main, saved>>

Init ==
  /\ netFile = [n \in Net |-> "absent"]
  /\ exists = ManifestAtStart
  /\ manifest = {}
  /\ main = MainAtStart
  /\ session = [s \in Session |-> Idle]
  /\ saved = {}
  /\ crashes = 0

Next ==
  \/ \E s \in Session :
       \/ \E n \in Net : Begin(s, n)
       \/ SaveNetwork(s)
       \/ CreateManifest(s)
       \/ FillManifest(s)
       \/ ReadManifest(s)
       \/ OpenManifest(s)
       \/ WriteManifest(s)
       \/ ReadMain(s)
       \/ OpenMain(s)
       \/ WriteMain(s)
  \/ Crash

Spec == Init /\ [][Next]_vars

-------------------------------------------------------------------------------
(***************************************************************************)
(* A manifest only refers to files that exist: the server that reads it     *)
(* finds every network it lists, and the main manifest never includes one   *)
(* that is not there.  This is why the files are written in this order.     *)
(***************************************************************************)
NoDanglingReference ==
  /\ \A n \in manifest : netFile[n] # "absent"
  /\ main = "including" => exists

\* The step in which a session that has saved its network returns.
Returns(s) == session[s].pc # "idle" /\ session[s].net \in saved' /\ session'[s].pc = "idle"

\* A session is between opening the manifest and writing it.
BeingWritten == \E s \in Session : session[s].pc \in {"fill", "write"}

(***************************************************************************)
(* A network that was saved stays listed: adding one keeps the entries of   *)
(* the others, except while the manifest is being written, and until a      *)
(* crash leaves it half written.                                            *)
(***************************************************************************)
SavedStaysListed == crashes = 0 /\ ~BeingWritten => saved \subseteq manifest

(***************************************************************************)
(* "If using a non-default subdirectory, ensure it is included in the main  *)
(* manifest": so it is when the call returns, if the main manifest had an   *)
(* include line to begin with, in the sessions before and after a crash.    *)
(***************************************************************************)
IncludedOnReturn ==
  [][~DefaultDir /\ MainAtStart = "listing" /\ crashes' = crashes =>
       \A s \in Session : Returns(s) => main' = "including"]_vars

(***************************************************************************)
(* A call that returns leaves its network listed, also after crashes and    *)
(* retries; and until the first crash, the manifest that lists it included. *)
(***************************************************************************)
ListedOnReturn ==
  [][\A s \in Session : Returns(s) /\ crashes' = crashes =>
       /\ session[s].net \in manifest'
       /\ (~DefaultDir /\ MainAtStart = "listing" /\ crashes' = 0 => main' = "including")]_vars
===============================================================================

-------------------------- MODULE MCPluginRegistry --------------------------
(***************************************************************************)
(* What the registry says of a plugin, on small instances; Focus says      *)
(* which of them a configuration explores.  The variables of the other     *)
(* parts are 0.                                                            *)
(*   authorize  one goroutine installs, updates, disables and uninstalls   *)
(*              while two change grants and the policy and one makes a     *)
(*              call (PluginRegistry with the constants of the             *)
(*              configuration);                                            *)
(*   decide     grants and the policy change, one at a time, while a method *)
(*              call takes its authorization decision;                     *)
(*   call       two goroutines run lifecycle operations and one RecoverEnabled *)
(*              while a call prepares its worker and a grant changes;      *)
(*   epoch      one goroutine disables while another changes the policy    *)
(*   refuse     the package installed at first may not run any more: a     *)
(*              call and RecoverEnabled revoke it while another goroutine  *)
(*              enables, disables, updates or uninstalls it                *)
(*              (these four PluginRegistry again);                         *)
(*   inspected  two requests install two inspected packages with failing   *)
(*              steps and a restart (InspectedInstall);                    *)
(*   recover    a recovery and a retry of one plugin that is stopped and   *)
(*              started meanwhile, warm the prewarming after a recovery,   *)
(*              recover_two a recovery of two plugins (EnabledRecovery).   *)
(***************************************************************************)
EXTENDS PluginRegistry, TLC

CONSTANTS Focus, m1, m2, a1, a2, c1, r1, p1, p2

VARIABLES
  focus,
  up, transfer, files, quota, insp, cleaning, orphans, strays, starting, job,
  installRow, evidence, did, unlabelled,
  record, writer, recoverPolicy, snapshot, mu, recovery, answer, retry, warm,
  activated, raced, unstopped

iVars == <<up, transfer, files, quota, insp, cleaning, orphans, strays, starting,
           job, installRow, evidence, did, unlabelled>>
vVars == <<record, writer, recoverPolicy, snapshot, mu, recovery, answer,
           retry, warm, activated, raced, unstopped>>

\* Every instance treats the packages alike, and the goroutines of a pair that
\* appear in it; the single ones have names of their own.
Symmetry == Permutations({p1, p2}) \cup Permutations({a1, a2}) \cup Permutations({m1, m2})

Decide == INSTANCE PluginRegistry
  WITH ManagerOps <- {},
       AuthorizerOps <- {"grant", "revoke", "putPolicy", "deletePolicy"}, MaxOps <- 5, MaxFaults <- 0
Call == INSTANCE PluginRegistry
  WITH Managers <- {m1, m2}, Recoverers <- {r1},
       ManagerOps <- {"enable", "disable", "update"}, AuthorizerOps <- {"grant"},
       MaxOps <- 3, MaxFaults <- 1
Refuse == INSTANCE PluginRegistry
  WITH Managers <- {m1}, Recoverers <- {r1}, Packages <- {"old", "new"}, Denied <- {"old"},
       ManagerOps <- {"enable", "disable", "update", "uninstall"}, AuthorizerOps <- {"grant"},
       MaxOps <- 3, MaxFaults <- 1
Epoch == INSTANCE PluginRegistry
  WITH ManagerOps <- {"install", "disable"}, AuthorizerOps <- {"putPolicy"},
       MaxOps <- 4, MaxFaults <- 0
Inspected == INSTANCE InspectedInstall
  WITH Inspections <- {p1, p2}, Requests <- {a1, a2}, Nil <- NoOne,
       MaxArtifact <- 1, MaxStaged <- 1, row <- installRow
Recover == INSTANCE EnabledRecovery
  WITH Plugins <- {"p"}, Recoveries <- {"r"}, Retries <- {"t"},
       Warmers <- {}, MaxLife <- 2, MaxRev <- 2, Nil <- NoOne,
       policy <- recoverPolicy
Warm == INSTANCE EnabledRecovery
  WITH Plugins <- {"p"}, Recoveries <- {"r"}, Retries <- {},
       Warmers <- {"w"}, MaxLife <- 1, MaxRev <- 3, Nil <- NoOne,
       policy <- recoverPolicy
RecoverTwo == INSTANCE EnabledRecovery
  WITH Plugins <- {p1, p2}, Recoveries <- {"r"}, Retries <- {},
       Warmers <- {}, MaxLife <- 1, MaxRev <- 1, Nil <- NoOne,
       policy <- recoverPolicy

\* at most one permission or policy change is under way
OneChange == Cardinality({a \in Authorizers : cl'[a].pc # "idle"}) <= 1

MCInit ==
  /\ focus \in Focus
  /\ CASE focus = "call" -> Call!Init /\ row # NoRow
       [] focus = "refuse" -> Refuse!Init /\ row \in {OldRow("old", on) : on \in BOOLEAN}
       [] focus = "decide" -> Init /\ row \in {OldRow(p, TRUE) : p \in Packages}
       [] OTHER -> Init /\ row = NoRow
  /\ IF focus = "inspected" THEN Inspected!Init
     ELSE
          /\ up = 0 /\ transfer = 0 /\ files = 0 /\ quota = 0 /\ insp = 0
          /\ cleaning = 0 /\ orphans = 0 /\ strays = 0 /\ starting = 0 /\ job = 0
          /\ installRow = 0 /\ evidence = 0 /\ did = 0 /\ unlabelled = 0
  /\ CASE focus = "recover" -> Recover!Init
       [] focus = "warm" -> Warm!Init
       [] focus = "recover_two" -> RecoverTwo!Init
       [] OTHER ->
          /\ record = 0 /\ writer = 0 /\ recoverPolicy = 0 /\ snapshot = 0
          /\ mu = 0 /\ recovery = 0 /\ answer = 0 /\ retry = 0 /\ warm = 0
          /\ activated = 0 /\ raced = 0 /\ unstopped = 0

MCNext ==
  /\ UNCHANGED focus
  /\ \/ /\ \/ focus = "authorize" /\ Next
           \/ focus = "decide" /\ Decide!Next /\ OneChange
           \/ focus = "call" /\ Call!Next /\ OneChange
           \/ focus = "refuse" /\ Refuse!Next /\ OneChange
           \/ focus = "epoch" /\ Epoch!Next /\ OneChange
        /\ UNCHANGED <<iVars, vVars>>
     \/ /\ focus = "inspected" /\ Inspected!Next
        /\ UNCHANGED <<vars, vVars>>
     \/ /\ \/ focus = "recover" /\ Recover!Next
           \/ focus = "warm" /\ Warm!Next
           \/ focus = "recover_two" /\ RecoverTwo!Next
        /\ UNCHANGED <<vars, iVars>>

MCSpec == MCInit /\ [][MCNext]_<<focus, vars, iVars, vVars>>
-----------------------------------------------------------------------------
\* The recorded outcome of an inspected install never lies, across a crash at
\* any point between the commit of the plugin and of the operation, and no
\* inspection is installed by two requests; the stage holds no more than its quota,
\* its counters are the files it holds, and every file has someone to remove it
\* (FinishInspectedInstall, inspectedInstallCommitted, commitStageReservation,
\* claimCleanup).  In the row of an installed plugin no revision a reader sees is
\* above the one the compare-and-swap tests, and until SetEnableState has lost an
\* update of the epoch, the tokens minted for it are not below the floor the token
\* service has revoked, but for the epoch a refused package loses when its
\* BumpRevokeEpoch fails (PutPlugin, RevokePlugin, revokeDeniedPluginRuntime); RegistryInv is the invariant the proofs about the
\* registry rest on.
InstallsAccounted ==
  /\ focus = "inspected" => /\ Inspected!TypeOK /\ Inspected!InstallOutcomeTrue
                            /\ Inspected!StagedBytesOwned
  /\ focus = "authorize" => RolesApart /\ TypeOK /\ RegistryInv /\ ColumnsCover /\ FloorReachable
  /\ focus = "decide" => Decide!TypeOK /\ Decide!RegistryInv
  /\ focus = "call" => Call!TypeOK /\ Call!RegistryInv /\ Call!FloorReachable
  /\ focus = "refuse" => Refuse!TypeOK /\ Refuse!RegistryInv /\ Refuse!FloorReachable


\* "The revoke epoch is an instance-scoped monotonic floor": the epoch of the
\* record of a plugin instance never decreases (SetEnableState against
\* CommitAuthorization).
EpochMonotone == [][row'.rev.epoch >= row.rev.epoch]_row
=============================================================================

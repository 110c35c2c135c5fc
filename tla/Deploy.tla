-------------------------------- MODULE Deploy --------------------------------
(***************************************************************************)
(* scripts/deploy_production_update.sh: the source of a running container  *)
(* is replaced in place, item by item (app, scripts, main.py, chat.html    *)
(* and the manifest), after the new source has passed                      *)
(* scripts/verify_production_patch.py in a container of its own.           *)
(*                                                                         *)
(* The script runs under set -Eeuo pipefail with a trap on ERR: any        *)
(* command may fail and ends it with a message; it may also be killed      *)
(* without one.  A mv within one file system is atomic.  The container has *)
(* restart: always, so it comes back whenever the docker daemon restarts,  *)
(* also after a docker stop, and it loads the source that is then there.   *)
(* The operator runs the script again as often as MaxRuns allows, one run  *)
(* at a time, with any release.                                            *)
(***************************************************************************)
EXTENDS Integers

CONSTANTS
  N,         \* how many items the loop replaces, in the order 1..N
  Essential, \* app and main.py, without which a run refuses to start
  Present,   \* the items of the project before the first run
  Old,       \* the version they have
  Releases,  \* the releases an operator may have
  Holds,  \* the items that a release's archives hold
  Cluttered, \* releases whose archives hold something else besides
  Fails,     \* the checks of the verification that a release fails
  MaxRuns,   \* bound on the runs of the script
  MaxReboots,  \* bound on reboots of the host, which end the script too
  MaxRestarts, \* bound on restarts of the docker daemon beside the script
  Absent

Items == 1..N
Runs  == 1..MaxRuns
Checks == {"files", "agent", "storage", "recovery"}

DeployAssumption ==
  /\ N \in Nat \ {0} /\ MaxRuns \in Nat \ {0} /\ MaxReboots \in Nat /\ MaxRestarts \in Nat
  /\ Essential \subseteq Present /\ Present \subseteq Items /\ Essential # {}
  /\ Holds \in [Releases -> SUBSET Items] /\ Cluttered \subseteq Releases
  /\ Fails \in [Releases -> SUBSET Checks]
  /\ Old \notin Releases /\ Absent \notin Releases \cup {Old}

Versions == Releases \cup {Old}
Trees    == [Items -> Versions \cup {Absent}]
Empty    == [i \in Items |-> Absent]

VARIABLES
  tree,    \* the items in the project root
  stage,   \* those in the staging directory of the run
  saved,   \* those in the backup directory of each run
  run,     \* how many times the script has been started
  release, \* what this run installs
  before,  \* the tree when this run started
  step,      \* where the script is; "off": no script is running
  item,    \* which item the loop is at
  wanted,  \* docker keeps the container up
  code,    \* what its process has loaded, Absent while there is none
  said,    \* how the result file of the last run ends
  reboots, restarts

script  == <<run, release, before, step, item, said>>
files   == <<tree, stage, saved>>
service == <<wanted, code>>
bounds  == <<reboots, restarts>>
vars    == <<files, script, service, bounds>>

Preparing == {"start", "staged", "verified"}
Swapping  == {"out", "in", "swapped"}

TypeOK ==
  /\ tree \in Trees /\ stage \in Trees /\ saved \in [Runs -> Trees]
  /\ run \in 0..MaxRuns /\ release \in Releases \cup {Absent} /\ before \in Trees
  /\ step \in {"off", "started"} \cup Preparing \cup Swapping /\ item \in 1..N + 1
  /\ wanted \in BOOLEAN /\ code \in Trees \cup {Absent}
  /\ said \in {"nothing", "refused", "unfinished", "ready", "not_ready"}
  /\ reboots \in 0..MaxReboots /\ restarts \in 0..MaxRestarts

OldTree == [i \in Items |-> IF i \in Present THEN Old ELSE Absent]

Init ==
  /\ tree = OldTree /\ stage = Empty /\ saved = [r \in Runs |-> Empty]
  /\ run = 0 /\ release = Absent /\ before = OldTree
  /\ step = "off" /\ item = 1 /\ said = "nothing"
  /\ wanted = TRUE /\ code = OldTree
  /\ reboots = 0 /\ restarts = 0

-----------------------------------------------------------------------------
(* The script.                                                             *)

Begin(r) ==                        \* tee truncates the result file
  /\ step = "off" /\ run < MaxRuns
  /\ run' = run + 1 /\ release' = r /\ before' = tree
  /\ step' = "start" /\ item' = 1 /\ said' = "nothing"
  /\ stage' = Empty
  /\ UNCHANGED <<tree, saved, service, bounds>>

(* The project has no app or no main.py: "no production file changed yet". *)
Refuse ==
  /\ step = "start" /\ \E i \in Essential : tree[i] = Absent
  /\ step' = "off" /\ said' = "refused"
  /\ UNCHANGED <<files, run, release, before, item, service, bounds>>

Unpack ==
  /\ step = "start" /\ \A i \in Essential : tree[i] # Absent
  /\ Holds[release] = Items     \* test -e, else the trap
  /\ stage' = [i \in Items |-> release]
  /\ step' = "staged"
  /\ UNCHANGED <<tree, saved, run, release, before, item, said, service, bounds>>

VerifyFilesOnly(r) == "files" \notin Fails[r]   \* mutant: only check_files counts
Passes(r) == Fails[r] = {}         \* main(): the first check that fails ends it

Verify ==
  /\ step = "staged" /\ Passes(release)
  /\ step' = "verified"
  /\ UNCHANGED <<files, run, release, before, item, said, service, bounds>>

(* mktemp for the backup, and docker stop. *)
StopService ==
  /\ step = "verified"
  /\ wanted' = FALSE /\ code' = Absent
  /\ step' = "out"
  /\ UNCHANGED <<files, run, release, before, item, said, bounds>>

SaveInOnePlace ==                  \* mutant: every run has the same backup directory
  /\ step = "out" /\ step' = "in"
  /\ saved' = IF tree[item] = Absent THEN saved ELSE [saved EXCEPT ![1][item] = tree[item]]
  /\ tree' = [tree EXCEPT ![item] = Absent]
  /\ UNCHANGED <<stage, run, release, before, item, said, service, bounds>>
MoveOut ==
  /\ step = "out" /\ step' = "in"
  /\ saved' = IF tree[item] = Absent THEN saved ELSE [saved EXCEPT ![run][item] = tree[item]]
  /\ tree' = [tree EXCEPT ![item] = Absent]
  /\ UNCHANGED <<stage, run, release, before, item, said, service, bounds>>

MoveIn ==
  /\ step = "in" /\ stage[item] # Absent
  /\ tree' = [tree EXCEPT ![item] = stage[item]] /\ stage' = [stage EXCEPT ![item] = Absent]
  /\ item' = item + 1 /\ step' = IF item = N THEN "swapped" ELSE "out"
  /\ UNCHANGED <<saved, run, release, before, said, service, bounds>>

(* rmdir, which wants an empty directory, and docker start, which has      *)
(* nothing to do when the daemon has started the container meanwhile.      *)
StartService ==
  /\ step = "swapped" /\ release \notin Cluttered
  /\ wanted' = TRUE /\ step' = "started"
  /\ UNCHANGED <<files, run, release, before, item, said, code, bounds>>

(* One minute of asking /health: ready takes a process, and a database.    *)
PollsQuietly == \E answer \in {"ready", Absent} : said' = answer  \* mutant: says nothing after a minute
Polls == \E answer \in {"ready", "not_ready"} : said' = answer /\ (answer = "ready" => code # Absent)
PollHealth ==
  /\ step = "started" /\ step' = "off" /\ Polls
  /\ UNCHANGED <<files, run, release, before, item, service, bounds>>

(* Any command fails: the trap names the line, and bash exits.  (What is   *)
(* left in the staging directory stays there.)                             *)
TrapStartsAgain ==                 \* mutant: the trap brings the service up again
  /\ step \in Preparing \cup Swapping
  /\ step' = "off" /\ said' = "unfinished" /\ wanted' = TRUE
  /\ UNCHANGED <<files, run, release, before, item, code, bounds>>
CommandFails ==
  /\ step \in Preparing \cup Swapping
  /\ step' = "off" /\ said' = "unfinished"
  /\ UNCHANGED <<files, run, release, before, item, service, bounds>>

(* The session of the operator is lost: no trap, no message.               *)
Killed ==
  /\ step # "off" /\ step' = "off"
  /\ UNCHANGED <<files, run, release, before, item, said, service, bounds>>

Script == Refuse \/ Unpack \/ Verify \/ StopService \/ MoveOut \/ MoveIn \/ StartService \/ PollHealth

-----------------------------------------------------------------------------
(* The container.                                                          *)

(* uvicorn imports what is there; without app or main.py it exits, and     *)
(* docker tries again.                                                     *)
ProcessStarts ==
  /\ wanted /\ code = Absent /\ \A i \in Essential : tree[i] # Absent
  /\ code' = tree
  /\ UNCHANGED <<files, script, wanted, bounds>>

HostReboots ==
  /\ reboots < MaxReboots /\ reboots' = reboots + 1
  /\ wanted' = TRUE /\ code' = Absent /\ step' = "off"
  /\ UNCHANGED <<files, run, release, before, item, said, restarts>>

DaemonRestarts ==
  /\ restarts < MaxRestarts /\ restarts' = restarts + 1
  /\ wanted' = TRUE /\ code' = Absent
  /\ UNCHANGED <<files, script, reboots>>

Next ==
  \/ \E r \in Releases : Begin(r)
  \/ Script \/ CommandFails \/ Killed
  \/ ProcessStarts \/ HostReboots \/ DaemonRestarts

Spec == Init /\ [][Next]_vars

-----------------------------------------------------------------------------
(***************************************************************************)
(* Properties.                                                             *)
(***************************************************************************)

Installed(r) == [i \in Items |-> r]

(* Whatever fails at whatever point, and however often the script is run   *)
(* again, with whichever releases: every item the project had is still     *)
(* there in its old version, in the oldest backup that holds the item or,  *)
(* if none does, in the project itself.  (The backup of the last run alone *)
(* is not enough: after a swap that stopped half way it holds half of the  *)
(* new release.)                                                           *)
SavedBefore(i, r) == \E q \in Runs : q < r /\ saved[q][i] # Absent
BackupsRestore ==
  \A i \in Present :
    /\ \A r \in Runs : saved[r][i] # Absent /\ ~SavedBefore(i, r) => saved[r][i] = Old
    /\ (\A r \in Runs : saved[r][i] = Absent) => tree[i] = Old

(* The result file tells what the run has done, as the deployment notes    *)
(* promise.  "Ready" means that the whole verified release is in place and *)
(* that it is what the process runs; "not ready" that it is in place; and  *)
(* a run that refuses or that ends before the verification has passed has  *)
(* replaced nothing.  (A restart of the daemon during the swap is the      *)
(* exception: it starts the process on half a release, docker start has    *)
(* nothing to do, and the health check finds that process ready.)          *)
ResultIsTrue ==
  /\ said \in {"ready", "not_ready"} => tree = Installed(release) /\ Fails[release] = {}
  /\ said = "ready" /\ restarts = 0 /\ code # Absent => code = tree
  /\ said = "refused" \/ step \in Preparing => tree = before

(* No half of a release is ever served, unless the host or the daemon has  *)
(* restarted: an update that stopped half way leaves the service down.     *)
HalfIsNotServed ==
  reboots + restarts = 0 /\ code # Absent => \E v \in Versions : \A i \in Present : code[i] = v

=============================================================================

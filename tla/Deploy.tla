------------------------------- MODULE Deploy -------------------------------
(***************************************************************************)
(* A deployment and what can come between its steps: deploy.sh's           *)
(* cmd_deploy, the supervisor it calls (supervise.sh, run.sh), and the     *)
(* watchdog that cron runs every five minutes.                             *)
(*                                                                         *)
(* supervise.sh takes a lock for one start or one stop; a deployment makes *)
(* several such calls and renames files between them, without the lock.    *)
(* A binary is what it turns out to be: one that serves, one that runs and *)
(* is not healthy, or one that exits.  A process keeps the binary it was   *)
(* started from, whatever is renamed afterwards.                           *)
(*                                                                         *)
(* A definition no action uses, placed right before the one it resembles,  *)
(* is a plausible defect of it (README.md, "Mutants").                     *)
(***************************************************************************)
EXTENDS Naturals, FiniteSets

CONSTANTS
  MaxReleases,  \* builds, the installed one among them (bound)
  MaxFaults,    \* processes that die, copies that fail, deployments cut off (bound)
  None          \* no file, no process, nobody

ASSUME ReleaseAssumption == MaxReleases \in Nat \ {0} /\ MaxFaults \in Nat

Releases == 1..MaxReleases

ASSUME NoneAssumption == None \notin Releases

VARIABLES
  quality,  \* what each release turns out to be
  disk,     \* the files uebung, uebung.new, uebung.prev, uebung.failed
  proc,     \* the process: its release, and how far it has come
  lock,     \* who holds supervise.lock
  dep,      \* the deployment: where it is, and what it installs
  told,     \* what the last deployment said at its end
  faults,
  \* History.
  excuse    \* what came between the steps of a deployment

vars == <<quality, disk, proc, lock, dep, told, faults, excuse>>

Qualities == {"serves", "sick", "exits"}
Proc == [rel : Releases \cup {None}, phase : {"launching", "running", "sick", "serving"}]

Phase == IF proc = None THEN "gone" ELSE proc.phase

\* It has executed the binary: the pid file names it, and its command line is
\* uebung's.
Running == Phase \notin {"gone", "launching"}

Good(file) == disk[file] # None /\ quality[disk[file]] = "serves"

Init ==
  /\ quality \in {q \in [Releases -> Qualities] : q[1] = "serves"}
  /\ disk = [app |-> 1, new |-> None, prev |-> None, failed |-> None]
  /\ proc = [rel |-> 1, phase |-> "serving"]
  /\ lock = None
  /\ dep = [pc |-> "idle", rel |-> 1]
  /\ told = "nothing"
  /\ faults = 0
  /\ excuse = {}

At(pc) == dep.pc = pc

Goto(pc) == dep' = [dep EXCEPT !.pc = pc]

Fault == faults < MaxFaults /\ faults' = faults + 1

-----------------------------------------------------------------------------
(* The supervisor.                                                         *)

Launch == [rel |-> None, phase |-> "launching"]

\* supervise.sh start, until it has launched run.sh.
Start(who) ==
  /\ lock = None
  /\ IF Running THEN UNCHANGED <<proc, lock>>
     ELSE proc' = Launch /\ lock' = who

\* The rest of it: run.sh has executed the binary, or is gone.
Started(who) ==
  /\ lock = who /\ (proc = None \/ Running)
  /\ lock' = None
  /\ UNCHANGED proc

StopAndLeave == lock = None /\ UNCHANGED <<proc, lock>>

\* supervise.sh stop: interrupted, and killed if that takes too long.
Stop == lock = None /\ proc' = None /\ UNCHANGED lock

Between == {"backup", "aside", "swap", "start", "restore", "return", "rollstart"}

WatchdogPolite ==
  /\ ~Running /\ disk.new = None /\ Start("cron")
  /\ excuse' = excuse \cup {e \in {"crossed"} : dep.pc \in Between}
  /\ UNCHANGED <<quality, disk, dep, told, faults>>

\* cron runs supervise.sh start.
Watchdog ==
  /\ ~Running /\ Start("cron")
  /\ excuse' = excuse \cup {e \in {"crossed"} : dep.pc \in Between}
  /\ UNCHANGED <<quality, disk, dep, told, faults>>

WatchdogEnds ==
  /\ Started("cron")
  /\ UNCHANGED <<quality, disk, dep, told, faults, excuse>>

-----------------------------------------------------------------------------
(* The process.                                                            *)

\* run.sh writes its pid and executes uebung, whatever that is by now.
Exec ==
  /\ Phase = "launching"
  /\ proc' = IF disk.app = None THEN None ELSE [rel |-> disk.app, phase |-> "running"]
  /\ UNCHANGED <<quality, disk, lock, dep, told, faults, excuse>>

\* main: it listens, and /healthz answers for the store; or it exits.
Boot ==
  /\ Phase = "running"
  /\ proc' = CASE quality[proc.rel] = "serves" -> [proc EXCEPT !.phase = "serving"]
               [] quality[proc.rel] = "sick"   -> [proc EXCEPT !.phase = "sick"]
               [] quality[proc.rel] = "exits"  -> None
  /\ UNCHANGED <<quality, disk, lock, dep, told, faults, excuse>>

Die ==
  /\ Fault /\ proc # None /\ proc' = None
  /\ UNCHANGED <<quality, disk, lock, dep, told, excuse>>

-----------------------------------------------------------------------------
(* deploy.sh, a step for each command on the host that changes something.  *)

Upload(r) ==
  /\ At("idle")
  /\ dep' = [pc |-> "stop", rel |-> r]
  /\ disk' = [disk EXCEPT !.new = r]
  /\ told' = "nothing"
  /\ UNCHANGED <<quality, proc, lock, faults, excuse>>

StopOld ==
  /\ At("stop") /\ Stop /\ Goto("backup")
  /\ UNCHANGED <<quality, disk, told, faults, excuse>>

\* The database is copied; a copy that fails ends the remote script.
Backup ==
  /\ At("backup")
  /\ \/ Goto("aside") /\ UNCHANGED faults
     \/ Goto("rollback") /\ Fault
  /\ UNCHANGED <<quality, disk, proc, lock, told, excuse>>

MoveAsideOver ==
  /\ At("aside") /\ Goto("swap")
  /\ disk' = [disk EXCEPT !.app = None]
  /\ UNCHANGED <<quality, proc, lock, told, faults, excuse>>

MoveAside ==
  /\ At("aside") /\ Goto("swap")
  /\ disk' = IF disk.app = None THEN disk ELSE [disk EXCEPT !.prev = disk.app, !.app = None]
  /\ UNCHANGED <<quality, proc, lock, told, faults, excuse>>

Swap ==
  /\ At("swap") /\ Goto("start")
  /\ disk' = [disk EXCEPT !.app = disk.new, !.new = None]
  /\ UNCHANGED <<quality, proc, lock, told, faults, excuse>>

StartNew ==
  /\ At("start") /\ Start("deploy")
  /\ Goto(IF Running THEN "health" ELSE "starting")
  /\ UNCHANGED <<quality, disk, told, faults, excuse>>

NewStarted ==
  /\ At("starting") /\ Started("deploy")
  /\ Goto(IF Running THEN "health" ELSE "rollback")
  /\ UNCHANGED <<quality, disk, told, faults, excuse>>

\* The health check asks whatever listens on the port, for half a minute.
CheckHealth ==
  /\ At("health")
  /\ \/ Phase = "serving" /\ Goto("public")
     \/ Phase \in {"gone", "sick"} /\ Goto("rollback")
  /\ UNCHANGED <<quality, disk, proc, lock, told, faults, excuse>>

\* Whether the proxy passes it on says nothing about the binary.
CheckPublic ==
  /\ At("public")
  /\ \/ Goto("release") /\ UNCHANGED told
     \/ Goto("idle") /\ told' = "kept"
  /\ UNCHANGED <<quality, disk, proc, lock, faults, excuse>>

RemovePrevious ==
  /\ At("release") /\ Goto("idle") /\ told' = "deployed"
  /\ disk' = [disk EXCEPT !.prev = None]
  /\ UNCHANGED <<quality, proc, lock, faults, excuse>>

StopFailed ==
  /\ At("rollback") /\ Stop /\ Goto("restore")
  /\ UNCHANGED <<quality, disk, told, faults, excuse>>

\* Nothing to restore; or the file to be moved is missing, and the script ends.
SetAside ==
  /\ At("restore")
  /\ CASE disk.prev = None -> Goto("rollstart") /\ UNCHANGED <<disk, told>>
       [] disk.prev # None /\ disk.app = None -> Goto("idle") /\ told' = "failed" /\ UNCHANGED disk
       [] OTHER -> /\ Goto("return") /\ UNCHANGED told
                   /\ disk' = [disk EXCEPT !.failed = disk.app, !.app = None]
  /\ UNCHANGED <<quality, proc, lock, faults, excuse>>

PutBack ==
  /\ At("return") /\ Goto("rollstart")
  /\ disk' = [disk EXCEPT !.app = disk.prev, !.prev = None]
  /\ UNCHANGED <<quality, proc, lock, told, faults, excuse>>

StartOld ==
  /\ At("rollstart") /\ Start("deploy")
  /\ Goto(IF Running THEN "idle" ELSE "rollstarting")
  /\ told' = "failed"
  /\ UNCHANGED <<quality, disk, faults, excuse>>

OldStarted ==
  /\ At("rollstarting") /\ Started("deploy") /\ Goto("idle")
  /\ UNCHANGED <<quality, disk, told, faults, excuse>>

\* The connection, or the machine that deploys, is gone; the host and what was
\* launched there are not.
Cut ==
  /\ Fault /\ ~At("idle") /\ Goto("idle") /\ told' = "nothing"
  /\ lock' = IF lock = "deploy" THEN None ELSE lock
  /\ excuse' = excuse \cup {e \in {"cut"} : disk.new = None}
  /\ UNCHANGED <<quality, disk, proc>>

Deployment ==
  \/ StopOld \/ Backup \/ MoveAside \/ Swap \/ StartNew \/ NewStarted
  \/ CheckHealth \/ CheckPublic \/ RemovePrevious
  \/ StopFailed \/ SetAside \/ PutBack \/ StartOld \/ OldStarted

Next ==
  \/ (\E r \in Releases : Upload(r)) \/ Deployment \/ Cut
  \/ Watchdog \/ WatchdogEnds
  \/ Exec \/ Boot \/ Die

Spec == Init /\ [][Next]_vars

\* cron goes on, a process that was launched runs, a deployment is not paused.
FairSpec ==
  /\ Spec
  /\ WF_vars(Watchdog) /\ WF_vars(WatchdogEnds)
  /\ WF_vars(Exec) /\ WF_vars(Boot) /\ WF_vars(Deployment)

-----------------------------------------------------------------------------
Files == {"app", "new", "prev", "failed"}

PCs == Between \cup {"idle", "stop", "starting", "health", "public", "release",
                     "rollback", "rollstarting"}

TypeOK ==
  /\ quality \in [Releases -> Qualities]
  /\ disk \in [Files -> Releases \cup {None}]
  /\ proc \in Proc \cup {None}
  /\ lock \in {None, "cron", "deploy"}
  /\ dep \in [pc : PCs, rel : Releases]
  /\ told \in {"nothing", "deployed", "kept", "failed"}
  /\ faults \in 0..MaxFaults
  /\ excuse \subseteq {"crossed", "cut"}

\* "Keep the outgoing binary so a failed health check can be rolled back"
\* (deploy.sh:485): a binary that serves is on the host, as uebung or beside it,
\* until another one has been seen to serve.  A deployment that was cut off
\* after the swap leaves an unproven binary, which the next one takes for the
\* one to keep; and the watchdog may answer the health check with the old one.
GoodBinaryKept ==
  excuse = {} => \E file \in {"app", "prev", "failed"} : Good(file)

\* The process runs the binary that is called uebung, and there is none while
\* the database is copied ("cannot be torn", deploy.sh:474) and the files are
\* renamed; so "deployed" is said of the release that serves.  Only the watchdog
\* can come between, "flock makes that safe" (supervise.sh:9) notwithstanding.
RunsWhatIsInstalled ==
  /\ TypeOK
  /\ "crossed" \notin excuse =>
       /\ Running => proc.rel = disk.app
       /\ dep.pc \in Between => proc = None
       /\ told = "deployed" => disk.app = dep.rel /\ Good("app")

\* A host whose binary serves comes to serve again, whatever died or was cut off,
\* and after a deployment that failed, if it is not deployed to without end.
ComesBack ==
  []<>(Phase = "serving" \/ ~Good("app") \/ ~At("idle") \/ "crossed" \in excuse)
=============================================================================

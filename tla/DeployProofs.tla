---------------------------- MODULE DeployProofs ----------------------------
(***************************************************************************)
(* Proofs about Deploy, for any number of releases and faults: deployments *)
(* of any builds, one after another, cut off anywhere, beside the watchdog. *)
(***************************************************************************)
EXTENDS Deploy, TLAPS

-----------------------------------------------------------------------------
(* The inductive invariant, in parts.                                      *)

\* A process that has executed a binary is of some release, and serves only if
\* that one does.
ProcInv ==
  /\ Running => proc.rel \in Releases
  /\ Phase = "serving" => quality[proc.rel] = "serves"

\* What is to be installed lies ready until the swap, and is installed after it.
InstallInv ==
  /\ dep.pc \in {"stop", "backup", "aside", "swap"} => disk.new = dep.rel
  /\ dep.pc \in {"start", "starting", "health", "public", "release"} =>
       disk.new = None /\ disk.app = dep.rel

\* What a deployment has been told stands until the next one begins.
ToldInv == told = "deployed" => At("idle")

\* As long as the watchdog has not come between: nothing runs during the renames, the
\* process is of the file called uebung, and what passed the health check serves.
HostInv ==
  "crossed" \notin excuse =>
    /\ dep.pc \in Between => proc = None
    /\ Running => proc.rel = disk.app
    /\ dep.pc \in {"public", "release"} => Good("app")
    /\ told = "deployed" => disk.app = dep.rel /\ Good("app")

\* A good binary is called uebung, or there is none of that name and a good one
\* lies beside it.
Standing == Good("app") \/ (disk.app = None /\ Good("prev"))

\* As long as nothing came between and no deployment was cut off after its swap:
\* the binary to fall back to serves, and there is one whenever uebung is not
\* known to.
KeptInv ==
  excuse = {} =>
    /\ disk.prev # None => Good("prev")
    /\ dep.pc \in {"idle", "stop", "backup", "aside", "rollstart", "rollstarting"} => Standing
    /\ dep.pc \in {"swap", "return"} => disk.app = None /\ Good("prev")
    /\ dep.pc \in {"start", "starting", "health"} => Good("prev")
    /\ dep.pc \in {"rollback", "restore"} => IF disk.new # None THEN Standing ELSE Good("prev")

IInv == TypeOK /\ ProcInv /\ InstallInv /\ ToldInv /\ HostInv /\ KeptInv

-----------------------------------------------------------------------------
(* Initial states, and what steps have in common.                          *)

\* The host a first deployment comes to.
LEMMA IInvInit == Init => IInv
<1> SUFFICES ASSUME Init PROVE IInv OBVIOUS
<1>0. 1 \in Releases /\ 0 \in 0..MaxFaults
  BY ReleaseAssumption DEF Releases
<1>1. TypeOK
  BY <1>0 DEF Init, TypeOK, PCs, Files, Proc
<1>2. disk.app = 1 /\ disk.prev = None /\ quality[1] = "serves" /\ proc.rel = 1 /\ dep.pc = "idle"
  BY <1>0 DEF Init
<1>3. Good("app")
  BY <1>0, <1>2, NoneAssumption DEF Good
<1>4. QED
  BY <1>0, <1>1, <1>2, <1>3
  DEF Init, IInv, ProcInv, InstallInv, ToldInv, HostInv, KeptInv, Standing, Running, Phase,
      At, Between

\* Faults are counted up to their bound.
LEMMA FaultType ==
  ASSUME faults \in 0..MaxFaults, Fault
  PROVE  faults' \in 0..MaxFaults
  BY ReleaseAssumption DEF Fault

\* A binary that boots serves, is sick or exits, as its release does.
LEMMA BootCases ==
  ASSUME TypeOK, ProcInv, Boot
  PROVE  \/ quality[proc.rel] = "serves" /\ proc' = [proc EXCEPT !.phase = "serving"]
         \/ quality[proc.rel] = "sick" /\ proc' = [proc EXCEPT !.phase = "sick"]
         \/ proc' = None
<1>1. proc.rel \in Releases
  BY DEF Boot, ProcInv, Running, Phase
<1>2. quality[proc.rel] \in Qualities
  BY <1>1 DEF TypeOK
<1> QED BY <1>2 DEF Boot, Qualities

\* What comes between is written down; a deployment that is cut off without a note
\* still had its release to install.
LEMMA Excuses ==
  ASSUME TypeOK
  PROVE  /\ Cut => excuse' \subseteq {"crossed", "cut"}
         /\ Watchdog => excuse' \subseteq {"crossed", "cut"}
         /\ Cut /\ excuse' = {} => excuse = {} /\ disk.new # None
  BY DEF TypeOK, Cut, Watchdog

-----------------------------------------------------------------------------
(* The invariant is preserved, one part of it at a time.                   *)

\* Every step keeps the types.
LEMMA TypeStep ==
  ASSUME TypeOK, ProcInv, [Next]_vars
  PROVE  TypeOK'
<1> USE DEF TypeOK, At, Goto, PCs, Between, Files, Proc
<1>1. ASSUME NEW r \in Releases, Upload(r) PROVE TypeOK'
  BY <1>1 DEF Upload
<1>2. ASSUME StopOld PROVE TypeOK'
  BY <1>2 DEF StopOld, Stop
<1>3. ASSUME Backup PROVE TypeOK'
  BY <1>3, FaultType DEF Backup
<1>4. ASSUME MoveAside PROVE TypeOK'
  BY <1>4 DEF MoveAside
<1>5. ASSUME Swap PROVE TypeOK'
  BY <1>5 DEF Swap
<1>6. ASSUME StartNew PROVE TypeOK'
  BY <1>6 DEF StartNew, Start, Launch
<1>7. ASSUME NewStarted PROVE TypeOK'
  BY <1>7 DEF NewStarted, Started
<1>8. ASSUME CheckHealth PROVE TypeOK'
  BY <1>8 DEF CheckHealth
<1>9. ASSUME CheckPublic PROVE TypeOK'
  BY <1>9 DEF CheckPublic
<1>10. ASSUME RemovePrevious PROVE TypeOK'
  BY <1>10 DEF RemovePrevious
<1>11. ASSUME StopFailed PROVE TypeOK'
  BY <1>11 DEF StopFailed, Stop
<1>12. ASSUME SetAside PROVE TypeOK'
  BY <1>12 DEF SetAside
<1>13. ASSUME PutBack PROVE TypeOK'
  BY <1>13 DEF PutBack
<1>14. ASSUME StartOld PROVE TypeOK'
  BY <1>14 DEF StartOld, Start, Launch
<1>15. ASSUME OldStarted PROVE TypeOK'
  BY <1>15 DEF OldStarted, Started
<1>16. ASSUME Cut PROVE TypeOK'
  BY <1>16, FaultType, Excuses DEF Cut
<1>17. ASSUME Watchdog PROVE TypeOK'
  BY <1>17, Excuses DEF Watchdog, Start, Launch
<1>18. ASSUME WatchdogEnds PROVE TypeOK'
  BY <1>18 DEF WatchdogEnds, Started
<1>19. ASSUME Exec PROVE TypeOK'
  BY <1>19 DEF Exec
<1>20. ASSUME Boot PROVE  TypeOK'
  <2>1. proc \in Proc
    BY <1>20 DEF Boot, Phase
  <2>2. proc' \in Proc \cup {None}
    BY <2>1, <1>20, BootCases
  <2> QED BY <2>2, <1>20 DEF Boot
<1>21. ASSUME Die PROVE TypeOK'
  BY <1>21, FaultType DEF Die
<1>30. ASSUME UNCHANGED vars PROVE TypeOK'
  BY <1>30 DEF vars
<1> QED BY <1>1, <1>2, <1>3, <1>4, <1>5, <1>6, <1>7, <1>8, <1>9, <1>10, <1>11,
         <1>12, <1>13, <1>14, <1>15, <1>16, <1>17, <1>18, <1>19, <1>20, <1>21, <1>30
  DEF Next, Deployment

\* A process is what its binary is.
LEMMA ProcStep ==
  ASSUME TypeOK, ProcInv, [Next]_vars
  PROVE  ProcInv'
<1> USE DEF TypeOK, ProcInv, At, Goto,
           Running, Phase, Good, Between, Files, Proc
<1>1. ASSUME NEW r \in Releases, Upload(r) PROVE ProcInv'
  BY <1>1 DEF Upload
<1>2. ASSUME StopOld PROVE ProcInv'
  BY <1>2 DEF StopOld, Stop
<1>3. ASSUME Backup PROVE ProcInv'
  BY <1>3 DEF Backup, Fault
<1>4. ASSUME MoveAside PROVE ProcInv'
  BY <1>4 DEF MoveAside
<1>5. ASSUME Swap PROVE ProcInv'
  BY <1>5 DEF Swap
<1>6. ASSUME StartNew PROVE ProcInv'
  BY <1>6 DEF StartNew, Start, Launch
<1>7. ASSUME NewStarted PROVE ProcInv'
  BY <1>7 DEF NewStarted, Started
<1>8. ASSUME CheckHealth PROVE ProcInv'
  BY <1>8 DEF CheckHealth
<1>9. ASSUME CheckPublic PROVE ProcInv'
  BY <1>9 DEF CheckPublic
<1>10. ASSUME RemovePrevious PROVE ProcInv'
  BY <1>10 DEF RemovePrevious
<1>11. ASSUME StopFailed PROVE ProcInv'
  BY <1>11 DEF StopFailed, Stop
<1>12. ASSUME SetAside PROVE ProcInv'
  BY <1>12 DEF SetAside
<1>13. ASSUME PutBack PROVE ProcInv'
  BY <1>13 DEF PutBack
<1>14. ASSUME StartOld PROVE ProcInv'
  BY <1>14 DEF StartOld, Start, Launch
<1>15. ASSUME OldStarted PROVE ProcInv'
  BY <1>15 DEF OldStarted, Started
<1>16. ASSUME Cut PROVE ProcInv'
  BY <1>16 DEF Cut, Fault
<1>17. ASSUME Watchdog PROVE ProcInv'
  BY <1>17 DEF Watchdog, Start, Launch
<1>18. ASSUME WatchdogEnds PROVE ProcInv'
  BY <1>18 DEF WatchdogEnds, Started
<1>19. ASSUME Exec PROVE ProcInv'
  BY <1>19 DEF Exec
<1>20. ASSUME Boot PROVE ProcInv'
  BY <1>20, BootCases DEF Boot
<1>21. ASSUME Die PROVE ProcInv'
  BY <1>21 DEF Die, Fault
<1>30. ASSUME UNCHANGED vars PROVE ProcInv'
  BY <1>30 DEF vars
<1> QED BY <1>1, <1>2, <1>3, <1>4, <1>5, <1>6, <1>7, <1>8, <1>9, <1>10, <1>11,
         <1>12, <1>13, <1>14, <1>15, <1>16, <1>17, <1>18, <1>19, <1>20, <1>21, <1>30
  DEF Next, Deployment

\* The files move with the deployment.
LEMMA InstallStep ==
  ASSUME TypeOK, InstallInv, [Next]_vars
  PROVE  InstallInv'
<1> USE DEF TypeOK, InstallInv, At, Goto,
           Running, Phase, Good, Between, Files, Proc
<1>1. ASSUME NEW r \in Releases, Upload(r) PROVE InstallInv'
  BY <1>1 DEF Upload
<1>2. ASSUME StopOld PROVE InstallInv'
  BY <1>2 DEF StopOld, Stop
<1>3. ASSUME Backup PROVE InstallInv'
  BY <1>3 DEF Backup, Fault
<1>4. ASSUME MoveAside PROVE InstallInv'
  BY <1>4 DEF MoveAside
<1>5. ASSUME Swap PROVE InstallInv'
  BY <1>5 DEF Swap
<1>6. ASSUME StartNew PROVE InstallInv'
  BY <1>6 DEF StartNew, Start, Launch
<1>7. ASSUME NewStarted PROVE InstallInv'
  BY <1>7 DEF NewStarted, Started
<1>8. ASSUME CheckHealth PROVE InstallInv'
  BY <1>8 DEF CheckHealth
<1>9. ASSUME CheckPublic PROVE InstallInv'
  BY <1>9 DEF CheckPublic
<1>10. ASSUME RemovePrevious PROVE InstallInv'
  BY <1>10 DEF RemovePrevious
<1>11. ASSUME StopFailed PROVE InstallInv'
  BY <1>11 DEF StopFailed, Stop
<1>12. ASSUME SetAside PROVE InstallInv'
  BY <1>12 DEF SetAside
<1>13. ASSUME PutBack PROVE InstallInv'
  BY <1>13 DEF PutBack
<1>14. ASSUME StartOld PROVE InstallInv'
  BY <1>14 DEF StartOld, Start, Launch
<1>15. ASSUME OldStarted PROVE InstallInv'
  BY <1>15 DEF OldStarted, Started
<1>16. ASSUME Cut PROVE InstallInv'
  BY <1>16 DEF Cut, Fault
<1>17. ASSUME Watchdog PROVE InstallInv'
  BY <1>17 DEF Watchdog, Start, Launch
<1>18. ASSUME WatchdogEnds PROVE InstallInv'
  BY <1>18 DEF WatchdogEnds, Started
<1>19. ASSUME Exec PROVE InstallInv'
  BY <1>19 DEF Exec
<1>20. ASSUME Boot PROVE InstallInv'
  BY <1>20, BootCases DEF Boot
<1>21. ASSUME Die PROVE InstallInv'
  BY <1>21 DEF Die, Fault
<1>30. ASSUME UNCHANGED vars PROVE InstallInv'
  BY <1>30 DEF vars
<1> QED BY <1>1, <1>2, <1>3, <1>4, <1>5, <1>6, <1>7, <1>8, <1>9, <1>10, <1>11,
         <1>12, <1>13, <1>14, <1>15, <1>16, <1>17, <1>18, <1>19, <1>20, <1>21, <1>30
  DEF Next, Deployment

\* A report is a deployment's last step.
LEMMA ToldStep ==
  ASSUME TypeOK, ToldInv, [Next]_vars
  PROVE  ToldInv'
<1> USE DEF TypeOK, ToldInv, At, Goto,
           Running, Phase, Good, Between, Files, Proc
<1>1. ASSUME NEW r \in Releases, Upload(r) PROVE ToldInv'
  BY <1>1 DEF Upload
<1>2. ASSUME StopOld PROVE ToldInv'
  BY <1>2 DEF StopOld, Stop
<1>3. ASSUME Backup PROVE ToldInv'
  BY <1>3 DEF Backup, Fault
<1>4. ASSUME MoveAside PROVE ToldInv'
  BY <1>4 DEF MoveAside
<1>5. ASSUME Swap PROVE ToldInv'
  BY <1>5 DEF Swap
<1>6. ASSUME StartNew PROVE ToldInv'
  BY <1>6 DEF StartNew, Start, Launch
<1>7. ASSUME NewStarted PROVE ToldInv'
  BY <1>7 DEF NewStarted, Started
<1>8. ASSUME CheckHealth PROVE ToldInv'
  BY <1>8 DEF CheckHealth
<1>9. ASSUME CheckPublic PROVE ToldInv'
  BY <1>9 DEF CheckPublic
<1>10. ASSUME RemovePrevious PROVE ToldInv'
  BY <1>10 DEF RemovePrevious
<1>11. ASSUME StopFailed PROVE ToldInv'
  BY <1>11 DEF StopFailed, Stop
<1>12. ASSUME SetAside PROVE ToldInv'
  BY <1>12 DEF SetAside
<1>13. ASSUME PutBack PROVE ToldInv'
  BY <1>13 DEF PutBack
<1>14. ASSUME StartOld PROVE ToldInv'
  BY <1>14 DEF StartOld, Start, Launch
<1>15. ASSUME OldStarted PROVE ToldInv'
  BY <1>15 DEF OldStarted, Started
<1>16. ASSUME Cut PROVE ToldInv'
  BY <1>16 DEF Cut, Fault
<1>17. ASSUME Watchdog PROVE ToldInv'
  BY <1>17 DEF Watchdog, Start, Launch
<1>18. ASSUME WatchdogEnds PROVE ToldInv'
  BY <1>18 DEF WatchdogEnds, Started
<1>19. ASSUME Exec PROVE ToldInv'
  BY <1>19 DEF Exec
<1>20. ASSUME Boot PROVE ToldInv'
  BY <1>20, BootCases DEF Boot
<1>21. ASSUME Die PROVE ToldInv'
  BY <1>21 DEF Die, Fault
<1>30. ASSUME UNCHANGED vars PROVE ToldInv'
  BY <1>30 DEF vars
<1> QED BY <1>1, <1>2, <1>3, <1>4, <1>5, <1>6, <1>7, <1>8, <1>9, <1>10, <1>11,
         <1>12, <1>13, <1>14, <1>15, <1>16, <1>17, <1>18, <1>19, <1>20, <1>21, <1>30
  DEF Next, Deployment

\* The process, its file and the report agree unless the watchdog came between.
LEMMA HostStep ==
  ASSUME TypeOK, ProcInv, InstallInv, ToldInv, HostInv, [Next]_vars
  PROVE  HostInv'
<1> USE DEF TypeOK, HostInv, ProcInv, InstallInv, ToldInv, At, Goto,
           Running, Phase, Good, Between, Files, Proc
<1>1. ASSUME NEW r \in Releases, Upload(r) PROVE HostInv'
  BY <1>1 DEF Upload
<1>2. ASSUME StopOld PROVE HostInv'
  BY <1>2 DEF StopOld, Stop
<1>3. ASSUME Backup PROVE HostInv'
  BY <1>3 DEF Backup, Fault
<1>4. ASSUME MoveAside PROVE HostInv'
  BY <1>4 DEF MoveAside
<1>5. ASSUME Swap PROVE HostInv'
  BY <1>5 DEF Swap
<1>6. ASSUME StartNew PROVE HostInv'
  BY <1>6 DEF StartNew, Start, Launch
<1>7. ASSUME NewStarted PROVE HostInv'
  BY <1>7 DEF NewStarted, Started
<1>8. ASSUME CheckHealth PROVE HostInv'
  BY <1>8, NoneAssumption DEF CheckHealth
<1>9. ASSUME CheckPublic PROVE HostInv'
  BY <1>9 DEF CheckPublic
<1>10. ASSUME RemovePrevious PROVE HostInv'
  BY <1>10 DEF RemovePrevious
<1>11. ASSUME StopFailed PROVE HostInv'
  BY <1>11 DEF StopFailed, Stop
<1>12. ASSUME SetAside PROVE HostInv'
  BY <1>12 DEF SetAside
<1>13. ASSUME PutBack PROVE HostInv'
  BY <1>13 DEF PutBack
<1>14. ASSUME StartOld PROVE HostInv'
  BY <1>14 DEF StartOld, Start, Launch
<1>15. ASSUME OldStarted PROVE HostInv'
  BY <1>15 DEF OldStarted, Started
<1>16. ASSUME Cut PROVE HostInv'
  BY <1>16 DEF Cut, Fault
<1>17. ASSUME Watchdog PROVE HostInv'
  BY <1>17 DEF Watchdog, Start, Launch
<1>18. ASSUME WatchdogEnds PROVE HostInv'
  BY <1>18 DEF WatchdogEnds, Started
<1>19. ASSUME Exec PROVE HostInv'
  BY <1>19 DEF Exec
<1>20. ASSUME Boot PROVE HostInv'
  BY <1>20, BootCases DEF Boot
<1>21. ASSUME Die PROVE HostInv'
  BY <1>21 DEF Die, Fault
<1>30. ASSUME UNCHANGED vars PROVE HostInv'
  BY <1>30 DEF vars
<1> QED BY <1>1, <1>2, <1>3, <1>4, <1>5, <1>6, <1>7, <1>8, <1>9, <1>10, <1>11,
         <1>12, <1>13, <1>14, <1>15, <1>16, <1>17, <1>18, <1>19, <1>20, <1>21, <1>30
  DEF Next, Deployment

\* A binary to fall back to survives each step of a deployment.
LEMMA KeptStep ==
  ASSUME TypeOK, ProcInv, InstallInv, HostInv, KeptInv, [Next]_vars
  PROVE  KeptInv'
<1> USE DEF TypeOK, KeptInv, ProcInv, InstallInv, HostInv, Standing, At, Goto,
           Running, Phase, Good, Between, Files, Proc
<1>1. ASSUME NEW r \in Releases, Upload(r) PROVE KeptInv'
  BY <1>1 DEF Upload
<1>2. ASSUME StopOld PROVE KeptInv'
  BY <1>2 DEF StopOld, Stop
<1>3. ASSUME Backup PROVE KeptInv'
  BY <1>3, NoneAssumption DEF Backup
<1>4. ASSUME MoveAside PROVE KeptInv'
  BY <1>4 DEF MoveAside
<1>5. ASSUME Swap PROVE KeptInv'
  BY <1>5 DEF Swap
<1>6. ASSUME StartNew PROVE KeptInv'
  BY <1>6 DEF StartNew, Start, Launch
<1>7. ASSUME NewStarted PROVE KeptInv'
  BY <1>7 DEF NewStarted, Started
<1>8. ASSUME CheckHealth PROVE KeptInv'
  BY <1>8 DEF CheckHealth
<1>9. ASSUME CheckPublic PROVE KeptInv'
  BY <1>9 DEF CheckPublic
<1>10. ASSUME RemovePrevious PROVE KeptInv'
  BY <1>10 DEF RemovePrevious
<1>11. ASSUME StopFailed PROVE KeptInv'
  BY <1>11 DEF StopFailed, Stop
<1>12. ASSUME SetAside PROVE KeptInv'
  BY <1>12 DEF SetAside
<1>13. ASSUME PutBack PROVE KeptInv'
  BY <1>13 DEF PutBack
<1>14. ASSUME StartOld PROVE KeptInv'
  BY <1>14 DEF StartOld, Start, Launch
<1>15. ASSUME OldStarted PROVE KeptInv'
  BY <1>15 DEF OldStarted, Started
<1>16. ASSUME Cut PROVE KeptInv'
  <2>1. excuse' = {} => excuse = {} /\ disk.new # None
    BY <1>16, Excuses
  <2>2. UNCHANGED <<quality, disk>> /\ dep' = [dep EXCEPT !.pc = "idle"]
    BY <1>16 DEF Cut
  <2>3. excuse' = {} => Standing
    BY <2>1 DEF PCs
  <2> QED BY <2>2, <2>1, <2>3
<1>17. ASSUME Watchdog PROVE KeptInv'
  BY <1>17 DEF Watchdog, Start, Launch
<1>18. ASSUME WatchdogEnds PROVE KeptInv'
  BY <1>18 DEF WatchdogEnds, Started
<1>19. ASSUME Exec PROVE KeptInv'
  BY <1>19 DEF Exec
<1>20. ASSUME Boot PROVE KeptInv'
  BY <1>20, BootCases DEF Boot
<1>21. ASSUME Die PROVE KeptInv'
  BY <1>21 DEF Die, Fault
<1>30. ASSUME UNCHANGED vars PROVE KeptInv'
  BY <1>30 DEF vars
<1> QED BY <1>1, <1>2, <1>3, <1>4, <1>5, <1>6, <1>7, <1>8, <1>9, <1>10, <1>11,
         <1>12, <1>13, <1>14, <1>15, <1>16, <1>17, <1>18, <1>19, <1>20, <1>21, <1>30
  DEF Next, Deployment

-----------------------------------------------------------------------------
(* The theorems.                                                           *)

\* The parts hold together in every state.
LEMMA Invariance == Spec => []IInv
<1>1. IInv /\ [Next]_vars => IInv'
  BY TypeStep, ProcStep, InstallStep, ToldStep, HostStep, KeptStep DEF IInv
<1> QED BY IInvInit, <1>1, PTL DEF Spec

\* However deployments, the watchdog, faults and cuts interleave: unless the
\* watchdog came between two steps of a deployment, the process runs the file
\* called uebung, nothing runs while the database is copied and files are
\* renamed, and a deployment that says "deployed" leaves its release installed
\* and serving (deploy.sh:474, supervise.sh:9).
THEOREM RunsWhatIsInstalledHolds == Spec => []RunsWhatIsInstalled
<1>1. IInv => RunsWhatIsInstalled
  BY DEF IInv, HostInv, RunsWhatIsInstalled
<1> QED BY <1>1, Invariance, PTL

\* However many deployments fail, at whichever step, a binary that serves is on
\* the host, as uebung or beside it, until the watchdog comes between or a
\* deployment is cut off after its swap (deploy.sh:485).
THEOREM GoodBinaryKeptHolds == Spec => []GoodBinaryKept
<1>1. ASSUME IInv, excuse = {}
      PROVE  \E file \in {"app", "prev", "failed"} : Good(file)
  <2>1. dep.pc \in {"public", "release"} => Good("app")
    BY <1>1 DEF IInv, HostInv
  <2>2. dep.pc \notin {"public", "release"} => Standing \/ Good("prev")
    BY <1>1 DEF IInv, TypeOK, PCs, Between, KeptInv
  <2> QED BY <2>1, <2>2 DEF Standing
<1> QED BY <1>1, Invariance, PTL DEF GoodBinaryKept
=============================================================================

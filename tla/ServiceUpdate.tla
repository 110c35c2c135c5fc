---------------------------- MODULE ServiceUpdate ----------------------------
(***************************************************************************)
(* Deploy under names of its own, so that what an update promises can be   *)
(* stated beside what the running service does, ServiceReadiness.          *)
(***************************************************************************)
CONSTANTS N, Essential, Present, Old, Releases, Holds, Cluttered, Fails,
          MaxRuns, MaxReboots, MaxRestarts, Absent
VARIABLES tree, stage, saved, run, release, before, step, item, wanted, code, said,
          reboots, restarts

Update == INSTANCE Deploy

ASSUME UpdateAssumption == Update!DeployAssumption

UpdateSpec == Update!Spec

(* The directories, the run and the service keep their shape.              *)
UpdateTypeOK == Update!TypeOK

(* However the runs of the script fail, backups and project together hold  *)
(* every item of the old source.                                           *)
UpdateBackupsRestore == Update!BackupsRestore

(* What the result file says of a run is what the run has done.            *)
UpdateResultIsTrue == Update!ResultIsTrue

(* A service that was neither rebooted nor restarted never serves half of  *)
(* a release.                                                              *)
UpdateHalfIsNotServed == Update!HalfIsNotServed
=============================================================================

----------------------- MODULE MC_ScheduledThreadPool -----------------------
(* Small instances of ScheduledThreadPool for TLC.                         *)
EXTENDS ScheduledThreadPool

CONSTANTS t1, t2, t3

(* Two callers of Schedule, no Submit.                                     *)
MC_Tasks == {t1, t2}
MC_NoSubmitters == {}

(* Three callers of Schedule, no Submit.                                   *)
MC_ThreeTasks == {t1, t2, t3}

(* One caller of Schedule and one of Submit.                               *)
MC_SubmitTasks == {t1, t2}
MC_Submitters == {t2}

(* A single caller of Submit.                                              *)
MC_OneTask == {t1}
MC_OneSubmitter == {t1}
=============================================================================

------------------------------- MODULE Simplectl -------------------------------
(***************************************************************************)
(* The whole host: simplectl processes that initialize and query disks     *)
(* concurrently, udevd, kills and power losses.  Nothing in the program    *)
(* serialises two processes.                                               *)
(***************************************************************************)
EXTENDS VolumeSetup, VolumeMatch

NoClaim == [by |-> None, job |-> None, formatted |-> FALSE, mixed |-> FALSE]

Init ==
  /\ \E old \in [Disks -> OldDisks] :
       /\ table   = [d \in Disks |-> old[d].table]
       /\ content = [d \in Disks |-> old[d].content]
  /\ platter = content
  /\ kernel  = [d \in Disks |-> SlotsOf(table[d])]
  /\ mapper  = [d \in Disks |-> [s \in Slots |-> None]]
  /\ udev    = [d \in Disks |-> [s \in Slots |-> UdevTruth(d, s)]]
  /\ pc      = [p \in Procs |-> "idle"]
  /\ job     \in [Procs -> {CHOOSE j \in Jobs : TRUE}]
  /\ found   = [p \in Procs |-> [label |-> 1, data |-> 2]]
  /\ result  = [p \in Procs |-> "none"]
  /\ faults  = 0
  /\ ledger  = [d \in Disks |-> NoClaim]
  /\ steady  = [p \in Procs |-> FALSE]

\* A new process takes a free place in the process table and runs j.
Launch(p, j, label) ==
  /\ pc[p] = "idle"
  /\ job'    = [job EXCEPT ![p] = j]
  /\ steady' = [steady EXCEPT ![p] = FALSE]
  /\ pc'     = [pc EXCEPT ![p] = label]
  /\ UNCHANGED <<diskVars, found, faults, ledger>>

\* main's test is "!force == false", which Go reads as (!force) == false.
Prompts(j) == (~j.force) = FALSE

\* No prompt, or the answer to it is yes.
ForceInitDisk(p) == \E j \in Jobs :
  /\ j.op = "initialize-disk"
  /\ Launch(p, j, "sgdisk")
  /\ result' = [result EXCEPT ![p] = "none"]

\* The answer to the prompt is no.
Cancel(p) == \E j \in Jobs :
  /\ j.op = "initialize-disk"
  /\ Prompts(j)
  /\ Launch(p, j, "idle")
  /\ result' = [result EXCEPT ![p] = "cancelled"]

CheckVolumeQuery(p) == \E j \in Jobs :
  /\ j.op = "query-device"
  /\ Launch(p, j, "lookup")
  /\ result' = [result EXCEPT ![p] = "none"]

Command(p) == ForceInitDisk(p) \/ Cancel(p) \/ CheckVolumeQuery(p)

\* A signal ends the process: no deferred function runs.
Kill(p) ==
  /\ pc[p] # "idle"
  /\ Fault
  /\ Return(p, "killed")
  /\ mapper' = [d \in Disks |-> [s \in Slots |->
                  IF mapper[d][s] = p THEN Leaked ELSE mapper[d][s]]]
  /\ UNCHANGED <<table, kernel, udev, content, platter, job, found, ghostVars>>

\* Power is lost and the host boots again, having written back any part of
\* the page cache; the kernel and udev start from what is on the disks.
PowerLoss ==
  /\ Fault
  /\ \E lost \in SUBSET (Disks \X Slots) :
       content' = [d \in Disks |-> [s \in Slots |->
         IF <<d, s>> \in lost THEN platter[d][s] ELSE content[d][s]]]
  /\ platter' = content'
  /\ kernel'  = [d \in Disks |-> SlotsOf(table[d])]
  /\ mapper'  = [d \in Disks |-> [s \in Slots |-> None]]
  /\ udev'    = [d \in Disks |->
                [s \in Slots |-> Probed(table[d], kernel'[d], content'[d], s)]]
  /\ pc'      = [p \in Procs |-> "idle"]
  /\ result'  = [p \in Procs |-> IF pc[p] = "idle" THEN result[p] ELSE "killed"]
  /\ steady'  = [p \in Procs |-> FALSE]
  /\ UNCHANGED <<table, job, found, ledger>>

Work(p) == InitializeBlockDevice(p) \/ VolumeQueryMatch(p) \/ Close(p)

Next ==
  \/ \E p \in Procs : Command(p) \/ Work(p) \/ Kill(p)
  \/ \E d \in Disks, s \in Slots : UdevRefresh(d, s)
  \/ PowerLoss

Spec == Init /\ [][Next]_vars

\* A running process is scheduled, and udevd handles the events it has.
Fairness ==
  /\ \A p \in Procs : WF_vars(Work(p))
  /\ \A d \in Disks, s \in Slots : WF_vars(UdevRefresh(d, s))

FairSpec == Spec /\ Fairness

===============================================================================

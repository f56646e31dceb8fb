------------------------------ MODULE VolumeSetup ------------------------------
(***************************************************************************)
(* volumesetup.InitializeBlockDevice, one action per external effect:      *)
(*                                                                         *)
(*   sgdisk -> partprobe -> check -> write -> sync                         *)
(*          [-> format -> open] -> mkfs [-> close]                         *)
(*                                                                         *)
(* The bracketed steps are those of a query with a passphrase.  Each step  *)
(* may fail and return early; nothing is undone, and only the mapping is   *)
(* released.  Between two steps the rest of the host moves: udevd, other   *)
(* simplectl processes, a kill, a power loss.                              *)
(***************************************************************************)
EXTENDS Host

\* The table sgdisk writes: partition 1 is the metadata, 2 the rest.
SimpleTable ==
  [s \in Slots |-> CASE s = 1 -> "meta" [] s = 2 -> "other" [] OTHER -> "none"]

\* Mutated: the label lacks the hostname.
LabelWithoutHost(j) ==
  [kind |-> "label", label |-> j.query.label, host |-> None,
   machine |-> j.machine, encrypted |-> j.query.key # None]

\* The label written for a job.
LabelFor(j) ==
  [kind |-> "label", label |-> j.query.label, host |-> j.host,
   machine |-> j.machine, encrypted |-> j.query.key # None]

\* What luksFormat and mkfs leave on the data partition.
LuksFor(q) == [kind |-> "luks", key |-> q.key, fs |-> None, owner |-> None]

VolumeFor(q) ==
  IF q.key = None
  THEN [kind |-> "plain", fs |-> q.fs, owner |-> q.label]
  ELSE [kind |-> "luks", key |-> q.key, fs |-> q.fs, owner |-> q.label]

InitSteps == {"partprobe", "check", "write", "sync", "format", "open", "mkfs",
              "close"}

\* p is initializing disk d and has begun to change it.
Initializing(p, d) ==
  /\ job[p].op = "initialize-disk"
  /\ job[p].disk = d
  /\ pc[p] \in InitSteps

\* History: p begins to change its disk.  Until somebody begins on it alone,
\* the ledger remembers that two initializations were mixed.
Claim(p) ==
  LET d == Dev(p) IN
  /\ ledger' = [ledger EXCEPT ![d] =
       [by |-> p, job |-> job[p], formatted |-> FALSE,
        mixed |-> \E x \in Procs \ {p} : Initializing(x, d)]]
  /\ Disturb(p)

MarkFormatted(p) ==
  /\ ledger' = [ledger EXCEPT ![Dev(p)] =
       [by |-> @.by, job |-> @.job, formatted |-> TRUE, mixed |-> @.mixed]]
  /\ Disturb(p)

-------------------------------------------------------------------------------
Sgdisk(p) ==
  /\ pc[p] = "sgdisk"
  /\ \/ /\ table' = [table EXCEPT ![Dev(p)] = SimpleTable]
        /\ Goto(p, "partprobe")
        /\ UNCHANGED faults
     \/ /\ Fault                   \* before or after the table was written
        /\ table' \in {table, [table EXCEPT ![Dev(p)] = SimpleTable]}
        /\ Return(p, "error")
  /\ Claim(p)
  /\ UNCHANGED <<kernel, udev, content, platter, mapper, job, found>>

\* Mutated: partprobe is not run.
NoPartprobe(p) ==
  /\ pc[p] = "partprobe"
  /\ Goto(p, "check")
  /\ UNCHANGED <<diskVars, faults, job, found, ghostVars>>

\* The kernel refuses to drop partitions of a busy disk.
Partprobe(p) ==
  LET d == Dev(p) IN
  /\ pc[p] = "partprobe"
  /\ \/ /\ Busy(d) => kernel[d] = SlotsOf(table[d])
        /\ kernel' = [kernel EXCEPT ![d] = SlotsOf(table[d])]
        /\ Goto(p, "check")
        /\ UNCHANGED faults
     \/ /\ (Busy(d) /\ UNCHANGED faults) \/ Fault
        /\ Return(p, "error")
        /\ UNCHANGED kernel
  /\ UNCHANGED <<table, udev, content, platter, mapper, job, found, ghostVars>>

\* Mutated: the label is not written.
CheckAndSkipLabel(p) ==
  /\ pc[p] = "check"
  /\ GetDiskLabelAndVolumePath(p, "sync")
  /\ UNCHANGED <<diskVars, job, ghostVars>>

\* "Checking new device is initialized": against the udev database as it
\* happens to be, with no wait for udevd.
CheckNewDevice(p) ==
  /\ pc[p] = "check"
  /\ GetDiskLabelAndVolumePath(p, "write")
  /\ UNCHANGED <<diskVars, job, ghostVars>>

\* WriteAndSyncExistingFile, first half: open without O_CREATE, and write.
WriteLabel(p) ==
  LET d == Dev(p)
      l == LabelDev(p) IN
  /\ pc[p] = "write"
  /\ \/ /\ l \in kernel[d]
        /\ content' = [content EXCEPT ![d][l] = LabelFor(job[p])]
        /\ Goto(p, "sync")
        /\ UNCHANGED faults
     \/ /\ l \notin kernel[d]
        /\ Return(p, "error")
        /\ UNCHANGED <<content, faults>>
     \/ /\ Fault                   \* nothing written, or a short write
        /\ content' \in {content, [content EXCEPT ![d][l] = Garbage]}
        /\ Return(p, "error")
  /\ Disturb(p)
  /\ UNCHANGED <<table, kernel, udev, platter, mapper, job, found, ledger>>

\* Mutated: the label is written, and not synced.
CloseLabel(p) ==
  /\ pc[p] = "sync"
  /\ Goto(p, IF QueryOf(p).key = None THEN "mkfs" ELSE "format")
  /\ UNCHANGED <<diskVars, faults, job, found, ghostVars>>

\* WriteAndSyncExistingFile, second half: fsync, and close.
SyncLabel(p) ==
  LET d == Dev(p)
      l == LabelDev(p)
      synced == [platter EXCEPT ![d][l] = content[d][l]] IN
  /\ pc[p] = "sync"
  /\ \/ /\ platter' = synced
        /\ Goto(p, IF QueryOf(p).key = None THEN "mkfs" ELSE "format")
        /\ UNCHANGED faults
     \/ /\ Fault
        /\ platter' \in {platter, synced}
        /\ Return(p, "error")
  /\ UNCHANGED <<table, kernel, udev, content, mapper, job, found, ghostVars>>

\* A tool overwrites data device x of p with c, all the way to the platter.
Overwrite(p, x, c) ==
  /\ content' = [content EXCEPT ![Dev(p)][x] = c]
  /\ platter' = [platter EXCEPT ![Dev(p)][x] = c]

\* cryptsetup luksFormat.
LuksFormat(p) ==
  LET d == Dev(p)
      x == DataDev(p)
      free == x \in kernel[d] /\ mapper[d][x] = None IN
  /\ pc[p] = "format"
  /\ \/ /\ free
        /\ Overwrite(p, x, LuksFor(QueryOf(p)))
        /\ MarkFormatted(p)
        /\ Goto(p, "open")
        /\ UNCHANGED faults
     \/ /\ ~free
        /\ Return(p, "error")
        /\ UNCHANGED <<content, platter, faults, ghostVars>>
     \/ /\ Fault                   \* having done nothing
        /\ Return(p, "error")
        /\ UNCHANGED <<content, platter, ghostVars>>
     \/ /\ free                    \* or having wiped the old header
        /\ Fault
        /\ Return(p, "error")
        /\ Overwrite(p, x, Garbage)
        /\ MarkFormatted(p)
  /\ UNCHANGED <<table, kernel, udev, mapper, job, found>>

\* volumeaccess.OpenEncryptedDevice on the volume just formatted.
OpenForSetup(p) ==
  LET d == Dev(p)
      x == DataDev(p) IN
  /\ pc[p] = "open"
  /\ \/ /\ CanOpen(d, x, QueryOf(p).key)
        /\ mapper' = [mapper EXCEPT ![d][x] = p]
        /\ Goto(p, "mkfs")
        /\ UNCHANGED faults
     \/ /\ (~CanOpen(d, x, QueryOf(p).key) /\ UNCHANGED faults) \/ Fault
        /\ Return(p, "error")
        /\ UNCHANGED mapper
  /\ UNCHANGED <<table, kernel, udev, content, platter, job, found, ghostVars>>

\* Mutated: the error of mkfs is dropped.
FinishOk(p, r) ==
  /\ result' = [result EXCEPT ![p] = "ok"]
  /\ pc' = [pc EXCEPT ![p] = IF QueryOf(p).key = None THEN "idle" ELSE "close"]

\* Mutated: the deferred Close is missing.
FinishWithoutClose(p, r) == Return(p, r)

\* InitializeBlockDevice returns r, through the deferred Close if it opened a
\* mapping.
FinishSetup(p, r) ==
  /\ result' = [result EXCEPT ![p] = r]
  /\ pc' = [pc EXCEPT ![p] = IF QueryOf(p).key = None THEN "idle" ELSE "close"]

\* mkfs on the partition, or on the mapping: there is no "mkfs." program for
\* an empty type, and a partition somebody has mapped is in use.
Mkfs(p) ==
  LET d == Dev(p)
      x == DataDev(p)
      q == QueryOf(p)
      usable == /\ x \in kernel[d]
                /\ mapper[d][x] = IF q.key = None THEN None ELSE p IN
  /\ pc[p] = "mkfs"
  /\ \/ /\ usable /\ q.fs # None
        /\ Overwrite(p, x, VolumeFor(q))
        /\ MarkFormatted(p)
        /\ FinishSetup(p, "ok")
        /\ UNCHANGED faults
     \/ /\ ~(usable /\ q.fs # None)
        /\ FinishSetup(p, "error")
        /\ UNCHANGED <<content, platter, faults, ghostVars>>
     \/ /\ Fault                   \* having done nothing
        /\ FinishSetup(p, "error")
        /\ UNCHANGED <<content, platter, ghostVars>>
     \/ /\ usable /\ q.fs # None   \* or having wiped the old filesystem
        /\ Fault
        /\ FinishSetup(p, "error")
        /\ Overwrite(p, x, IF q.key = None THEN Garbage ELSE LuksFor(q))
        /\ MarkFormatted(p)
  /\ UNCHANGED <<table, kernel, udev, mapper, job, found>>

InitializeBlockDevice(p) ==
  \/ Sgdisk(p)    \/ Partprobe(p)  \/ CheckNewDevice(p)
  \/ WriteLabel(p) \/ SyncLabel(p) \/ LuksFormat(p)
  \/ OpenForSetup(p) \/ Mkfs(p)

===============================================================================

----------------------------- MODULE SimplectlProps -----------------------------
(***************************************************************************)
(* What Simplectl is checked for.                                          *)
(***************************************************************************)
EXTENDS Simplectl

PCs == InitSteps \cup {"idle", "sgdisk", "lookup", "read", "unlock", "probe"}

Results == {"none", "ok", "error", "killed", "cancelled", "match", "nomatch"}

Claims == [by: Procs \cup {None}, job: Jobs \cup {None}, formatted: BOOLEAN,
           mixed: BOOLEAN]

\* Every variable keeps its type.
TypeOK ==
  /\ table     \in [Disks -> Tables]
  /\ kernel    \in [Disks -> SUBSET Slots]
  /\ udev      \in [Disks -> [Slots -> UdevRecord]]
  /\ content   \in [Disks -> [Slots -> Content]]
  /\ platter   \in [Disks -> [Slots -> Content]]
  /\ mapper    \in [Disks -> [Slots -> Procs \cup {None, Leaked}]]
  /\ pc        \in [Procs -> PCs]
  /\ job       \in [Procs -> Jobs]
  /\ found     \in [Procs -> [label: Slots, data: Slots]]
  /\ result    \in [Procs -> Results]
  /\ faults    \in 0..MaxFaults
  /\ ledger    \in [Disks -> Claims]
  /\ steady    \in [Procs -> BOOLEAN]

\* Where the metadata partition, if any, comes first and no partition has a
\* number above 2: the disks that simplectl makes, and blank and
\* single-partition ones.
TidyTable(t) ==
  /\ \A s \in Slots : t[s] = "meta" => s = 1
  /\ \A s \in Slots : t[s] = "other" => s \in {1, 2}

TidyDisks == \A old \in OldDisks : TidyTable(old.table)

-------------------------------------------------------------------------------
(* Initialization.                                                           *)

\* Disk d is, on the platter as in the page cache, what job j asks for.
Provisioned(d, j) ==
  /\ table[d] = SimpleTable
  /\ content[d][1] = LabelFor(j)      /\ platter[d][1] = content[d][1]
  /\ content[d][2] = VolumeFor(j.query) /\ platter[d][2] = content[d][2]

\* When InitializeBlockDevice has returned nil, and as long as no other
\* initialization has begun on the disk, the disk is exactly what the query
\* asked for, whatever has crashed since and however late udevd is.
ReadyWhenDone == \A p \in Procs :
  LET c == ledger[Dev(p)] IN
  result[p] = "ok" /\ c.by = p /\ ~c.mixed => Provisioned(Dev(p), job[p])

\* luksFormat and mkfs run only once the label of their job is on the
\* platter: no crash leaves new data on a disk that still bears, or may fall
\* back to, an old label (the Sync in WriteAndSyncExistingFile).
LabelDurableBeforeFormat == \A d \in Disks :
  LET c == ledger[d] IN
  c.formatted /\ ~c.mixed => /\ platter[d][1] = LabelFor(c.job)
                             /\ content[d][1] = LabelFor(c.job)

-------------------------------------------------------------------------------
(* Why ReadyWhenDone and LabelDurableBeforeFormat hold: an inductive         *)
(* invariant.  An initializer that was alone when it began owns its disk     *)
(* until somebody else begins, and the label reaches the platter before it   *)
(* formats anything.                                                         *)

\* Only a query with a passphrase has the steps that use it.
Keyed == \A p \in Procs :
  pc[p] \in {"format", "open", "unlock"} => QueryOf(p).key # None

\* A process is at a step of the command it runs.
CommandFits == \A p \in Procs :
  /\ pc[p] \in {"lookup", "read", "unlock", "probe"}
       => job[p].op = "query-device"
  /\ pc[p] \in {"sgdisk", "partprobe", "check", "write", "sync", "format",
                "open", "mkfs"} => job[p].op = "initialize-disk"

\* A command that has succeeded is over but for its deferred Close.
DoneIsOver == \A p \in Procs : result[p] = "ok" => pc[p] \in {"idle", "close"}

\* On tidy disks even a view of udev that mixes an old table with the new one
\* never names other devices than the two of the new table.
TidyView ==
  /\ \A d \in Disks : TidyTable(table[d])
  /\ \A d \in Disks, s \in Slots :
       /\ udev[d][s].part = "meta" => s = 1
       /\ udev[d][s].part = "other" => s \in {1, 2}
  /\ \A p \in Procs : found[p] = [label |-> 1, data |-> 2]

\* p initializes d and nobody else does: both have the claim to show for it.
SoleOwner == \A p \in Procs, d \in Disks :
  Initializing(p, d) /\ ~ledger[d].mixed
    => ledger[d].by = p /\ ledger[d].job = job[p] /\ table[d] = SimpleTable

\* What p, initializing d alone, has achieved at each step.
Progress == \A p \in Procs, d \in Disks :
  Initializing(p, d) /\ ~ledger[d].mixed =>
    /\ pc[p] \in {"partprobe", "check", "write", "sync"} => ~ledger[d].formatted
    /\ pc[p] \in {"sync", "format", "open", "mkfs", "close"}
         => content[d][1] = LabelFor(job[p])
    /\ pc[p] \in {"format", "open", "mkfs", "close"}
         => platter[d][1] = LabelFor(job[p])

\* The parts that are about control, and those about the disks' owners.
Control == CommandFits /\ DoneIsOver /\ TidyView
Owned   == SoleOwner /\ Progress /\ ReadyWhenDone /\ LabelDurableBeforeFormat

\* The inductive invariant: what initializations that are under way, on disks
\* that several processes may use, have achieved so far.
IInv == TypeOK /\ Keyed /\ Control /\ Owned

-------------------------------------------------------------------------------
(* Mappings.                                                                 *)

\* A mapping is held by exactly one running command, from its open to its
\* deferred Close, and on every path between them: no return forgets it.
MappingHeld ==
  /\ \A d \in Disks, s \in Slots, p \in Procs : mapper[d][s] = p =>
       d = Dev(p) /\ s = DataDev(p) /\ pc[p] \in {"mkfs", "probe", "close"}
  /\ \A p \in Procs :
       \/ pc[p] = "close"
       \/ pc[p] \in {"mkfs", "probe"} /\ QueryOf(p).key # None
       => mapper[Dev(p)][DataDev(p)] = p

\* Whatever other processes do to the disk meanwhile, a mapped partition
\* stays the LUKS volume that its holder opened with its key.
MappedVolumeStays == \A p \in Procs :
  LET c == content[Dev(p)][DataDev(p)] IN
  mapper[Dev(p)][DataDev(p)] = p => c.kind = "luks" /\ c.key = QueryOf(p).key

-------------------------------------------------------------------------------
(* Queries.                                                                  *)

\* The disk a process has found answers its query, as its partitions read now.
\* Of the filesystem of a plain volume the process knows what udev has on
\* record, so this counts only where the record is up to date; the limits are
\* in the unit of the sysfs size, which is what the code compares them with.
Answers(p) ==
  LET j == job[p]
      q == QueryOf(p)
      l == content[Dev(p)][LabelDev(p)]
      v == content[Dev(p)][DataDev(p)] IN
  /\ l.kind = "label"
  /\ q.label # None => l.label = q.label
  /\ q.ownHostname  => l.host = j.host
  /\ q.ownMachineId => l.machine = j.machine
  /\ q.min > 0 => Sectors[Dev(p)] >= q.min
  /\ q.max > 0 => Sectors[Dev(p)] <= q.max
  /\ q.key # None => /\ v.kind = "luks" /\ v.key = q.key
                     /\ q.fs # None => v.fs = q.fs
  /\ q.key = None /\ q.fs # None
     /\ udev[Dev(p)][DataDev(p)] = UdevTruth(Dev(p), DataDev(p))
       => v.kind = "plain" /\ v.fs = q.fs

\* A match is true of one state of the disk although it was put together from
\* reads at different times: when it is reported, label, key, size and
\* filesystem are what the query asks for, unless an initialization has
\* touched the disk after its label was read, and but for the filesystem of a
\* plain volume whose udev record is late (see MatchedFilesystem).
MatchSound == [][\A p \in Procs :
  result[p] # "match" /\ result'[p] = "match" /\ steady[p] => Answers(p)]_vars

\* Job i initializes a disk for the query that job j asks.
Serves(i, j) ==
  /\ i.op = "initialize-disk" /\ i.disk = j.disk
  /\ i.host = j.host /\ i.machine = j.machine
  /\ [i.query EXCEPT !.ownHostname = TRUE, !.ownMachineId = TRUE] =
     [j.query EXCEPT !.ownHostname = TRUE, !.ownMachineId = TRUE]

\* An initialization for the query of job j has been reported as done, by a
\* process that was alone on the disk, and nobody has begun another one.
MadeFor(j) == \E p \in Procs :
  LET c == ledger[j.disk] IN
  result[p] = "ok" /\ c.by = p /\ ~c.mixed /\ Serves(job[p], j)

\* A disk that initialize-disk has reported as done is found by every query that
\* it was made for: no step of the query gives up, other than for a failure, a
\* udev database that is late, a volume that somebody else has open, or a size
\* outside the limits, which initialize-disk does not look at.
MadeIsFound == [][\A p \in Procs :
  /\ pc[p] \in {"lookup", "read", "unlock", "probe"}
  /\ MadeFor(job[p]) /\ UNCHANGED faults
  /\ \A s \in Slots : udev[Dev(p)][s] = UdevTruth(Dev(p), s)
  /\ \A s \in Slots : mapper[Dev(p)][s] \in {None, p}
  /\ SizeAgrees(QueryOf(p), Sectors[Dev(p)])
  => result'[p] \in {result[p], "match"}]_vars

-------------------------------------------------------------------------------
(* Liveness, under FairSpec.                                                 *)

\* A process that holds a mapping gives it up.
MappingReleased == \A p \in Procs, d \in Disks, s \in Slots :
  (mapper[d][s] = p) ~> (mapper[d][s] # p)

\* An administrator who repeats an initialization that names a filesystem
\* gets it done: whatever an interrupted attempt, a kill or a power loss has
\* left, and however stale udev was, is repaired by repeating the command.
\* The exception is a mapping that nobody is left to close.
RetryConverges == \A p \in Procs, j \in Jobs :
  j.op = "initialize-disk" /\ j.query.fs # None =>
    ([]<>(pc[p] = "sgdisk" /\ job[p] = j)
       => \/ []<>(result[p] = "ok" /\ job[p] = j)
          \/ <>[](\E s \in Slots : mapper[j.disk][s] = Leaked))

\* The disk holds what an initialization for job j's query leaves, the kernel
\* sees it, and its volume is not blocked by a mapping nobody will close.
Conforms(j) ==
  LET d == j.disk IN
  /\ table[d] = SimpleTable /\ kernel[d] = SlotsOf(table[d])
  /\ \E i \in Jobs : Serves(i, j) /\ content[d][1] = LabelFor(i)
  /\ content[d][2] = VolumeFor(j.query)
  /\ mapper[d][2] # Leaked

\* What InitializeBlockDevice writes, VolumeQueryMatch reads: on a disk that
\* stays as an initialization for the query left it, repeated queries match
\* again and again, udev having caught up.
QueryConverges == \A p \in Procs, j \in Jobs :
  j.op = "query-device" /\ j.query.fs # None =>
    ((<>[]Conforms(j) /\ []<>(pc[p] = "lookup" /\ job[p] = j))
       => []<>(result[p] = "match" /\ job[p] = j))

-------------------------------------------------------------------------------
(* What the documentation and the comments say, and the code does not do.    *)

\* README.md:120: type changes "*always* destroy the data on the partition".
\* Then a disk matched by its label never holds the data of another label.
MatchedDataIsOwn == \A p \in Procs :
  LET v == content[Dev(p)][DataDev(p)] IN
  /\ result[p] = "match" /\ QueryOf(p).label # None
  /\ v.kind \in {"plain", "luks"} /\ v.owner # None
  => v.owner = QueryOf(p).label

\* README.md:73: "Disk must have the given filesystem type."  Then a plain
\* volume that matches, on a disk nobody has touched since its label was read,
\* has the filesystem of the query.
MatchedFilesystem == [][\A p \in Procs :
  LET q == QueryOf(p)
      v == content[Dev(p)][DataDev(p)] IN
  /\ result[p] # "match" /\ result'[p] = "match" /\ steady[p]
  /\ q.key = None /\ q.fs # None
  => v.kind = "plain" /\ v.fs = q.fs]_vars

\* volumesetup.go:91: "Checking new device is initialized".  Then the label,
\* once it has been written, is in the metadata partition just created.
LabelInNewPartition == \A p \in Procs :
  pc[p] = "sync" => table[Dev(p)][LabelDev(p)] = "meta"

===============================================================================

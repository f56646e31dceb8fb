--------------------------- MODULE Lifecycle_proofs ----------------------------
(***************************************************************************)
(* Proof that Simplectl implements VolumeLifecycle on hosts whose disks    *)
(* are tidy: each step is, for each disk, an abstract step or a stutter.   *)
(***************************************************************************)
EXTENDS SimplectlLifecycle, Simplectl_proofs

-------------------------------------------------------------------------------
(* The abstract actions, in terms of what they mean for the host.            *)

\* Somebody reports to have initialized d.
Reported(d) == \E p \in Procs : Reports(p, d)

\* The abstract state of a disk and of its successor.
LEMMA LifeFields ==
  ASSUME NEW d \in Disks
  PROVE  /\ [e \in Disks |-> LifeOf(e)][d] = LifeOf(d)
         /\ ([e \in Disks |-> LifeOf(e)][d])' = LifeOf(d)'
OBVIOUS

\* Its fields.
LEMMA LifeIs ==
  ASSUME NEW d \in Disks
  PROVE  /\ LifeOf(d).phase = PhaseOf(d)
         /\ LifeOf(d).job = IF Alone(d) THEN ledger[d].job ELSE None
         /\ LifeOf(d).label = platter[d][1]
         /\ LifeOf(d).volume = platter[d][2]
         /\ LifeOf(d).reported \in BOOLEAN
         /\ LifeOf(d).reported <=> Alone(d) /\ Reported(d)
<1>1. LifeOf(d).reported = (Alone(d) /\ Reported(d))
  BY Zenon DEF LifeOf, Reported
<1>2. LifeOf(d).reported \in BOOLEAN
  BY <1>1, Zenon
<1> QED BY <1>1, <1>2 DEF LifeOf

\* And its fields after a step.
LEMMA LifeIsNext ==
  ASSUME NEW d \in Disks
  PROVE  /\ LifeOf(d)'.phase = PhaseOf(d)'
         /\ LifeOf(d)'.job = IF Alone(d)' THEN ledger'[d].job ELSE None
         /\ LifeOf(d)'.label = platter'[d][1]
         /\ LifeOf(d)'.volume = platter'[d][2]
         /\ LifeOf(d)'.reported \in BOOLEAN
         /\ LifeOf(d)'.reported <=> Alone(d)' /\ Reported(d)'
<1>1. LifeOf(d)'.reported = (Alone(d)' /\ Reported(d)')
  BY Zenon DEF LifeOf, Reported
<1>2. LifeOf(d)'.reported \in BOOLEAN
  BY <1>1, Zenon
<1> QED BY <1>1, <1>2 DEF LifeOf

\* Nothing happens to d, but that a report may be over.
LEMMA QuietLife ==
  ASSUME NEW d \in Disks, ledger'[d] = ledger[d],
         platter'[d][1] = platter[d][1], platter'[d][2] = platter[d][2],
         Reported(d)' => Reported(d)
  PROVE  Life!Step(d)
<1>1. /\ PhaseOf(d)' = PhaseOf(d)
      /\ Alone(d)' = Alone(d)
  BY DEF PhaseOf, Alone
<1>2. CASE Alone(d) /\ Reported(d) /\ ~Reported(d)'
  <2>1. Life!Only(d, {"reported"})
    BY <1>1, LifeIs, LifeIsNext DEF Life!Only
  <2>2. LifeOf(d).reported /\ ~LifeOf(d)'.reported
    BY <1>2, LifeIs, LifeIsNext
  <2>3. Life!Forget(d)
    BY <2>1, <2>2, LifeFields DEF Life!Forget
  <2> QED BY <2>3 DEF Life!Step
<1>3. CASE ~Alone(d) \/ (Reported(d)' <=> Reported(d))
  <2>1. Life!Only(d, {})
    BY <1>1, <1>3, LifeIs, LifeIsNext DEF Life!Only
  <2> QED BY <2>1 DEF Life!Step
<1> QED BY <1>2, <1>3

\* p begins to initialize d, alone or not.
LEMMA BeginLife ==
  ASSUME NEW d \in Disks, NEW p \in Procs, NEW j \in Jobs, NEW m \in BOOLEAN,
         ledger'[d] = [by |-> p, job |-> j, formatted |-> FALSE, mixed |-> m],
         platter'[d] = platter[d], ~Reported(d)'
  PROVE  Life!Step(d)
<1>1. ~LifeOf(d)'.reported
  BY LifeIsNext
<1>2. Life!Only(d, {"phase", "job", "reported"})
  BY LifeIs, LifeIsNext DEF Life!Only
<1>3. CASE m
  <2>1. LifeOf(d)'.phase = "shared" /\ LifeOf(d)'.job = None
    BY <1>3, LifeIsNext DEF PhaseOf, Alone
  <2>2. Life!Share(d)
    BY <1>1, <1>2, <2>1, LifeFields DEF Life!Share
  <2> QED BY <2>2 DEF Life!Step
<1>4. CASE ~m
  <2>1. LifeOf(d)'.phase = "begun" /\ LifeOf(d)'.job = j
    BY <1>4, LifeIsNext, HostAssumption DEF PhaseOf, Alone
  <2>2. Life!Begin(d)
    BY <1>1, <1>2, <2>1, LifeFields DEF Life!Begin
  <2> QED BY <2>2 DEF Life!Step
<1> QED BY <1>3, <1>4

\* d is in nobody's hands alone, and stays so.
LEMMA SharedLife ==
  ASSUME NEW d \in Disks, ~Alone(d), ~Alone(d)'
  PROVE  Life!Step(d)
<1>1. LifeOf(d).phase = "shared"
  BY LifeIs DEF PhaseOf
<1>2. Life!Only(d, {"label", "volume"})
  BY LifeIs, LifeIsNext DEF Life!Only, PhaseOf
<1>3. Life!Scramble(d)
  BY <1>1, <1>2, LifeFields DEF Life!Scramble, Life!Shared
<1> QED BY <1>3 DEF Life!Step

\* The label of d reaches the platter, or falls back, before d is formatted.
LEMMA RelabelLife ==
  ASSUME NEW d \in Disks, ledger'[d] = ledger[d], ~ledger[d].formatted,
         platter'[d][2] = platter[d][2], ~Reported(d), ~Reported(d)'
  PROVE  Life!Step(d)
<1>1. Alone(d)' = Alone(d) /\ PhaseOf(d)' = PhaseOf(d)
  BY DEF Alone, PhaseOf
<1>2. CASE ~Alone(d)
  BY <1>1, <1>2, SharedLife
<1>3. CASE Alone(d)
  <2>1. LifeOf(d).phase = "begun"
    BY <1>3, LifeIs DEF PhaseOf
  <2>2. Life!Only(d, {"label"})
    BY <1>1, LifeIs, LifeIsNext DEF Life!Only
  <2>3. Life!Relabel(d)
    BY <2>1, <2>2, LifeFields DEF Life!Relabel
  <2> QED BY <2>3 DEF Life!Step
<1> QED BY <1>2, <1>3

\* The owner of d formats it under its own label.
LEMMA FormatLife ==
  ASSUME NEW d \in Disks, Alone(d), Alone(d)', ledger'[d].job = ledger[d].job,
         ledger'[d].formatted, PhaseOf(d) \in {"begun", "formatted"},
         platter[d][1] = LabelFor(ledger[d].job),
         platter'[d][1] = platter[d][1],
         Reported(d)' => platter'[d][2] = VolumeFor(ledger[d].job.query)
  PROVE  Life!Step(d)
<1>1. /\ LifeOf(d).phase \in {"begun", "formatted"}
      /\ LifeOf(d).job = ledger[d].job
      /\ LifeOf(d).label = LabelFor(ledger[d].job)
  BY LifeIs
<1>2. /\ LifeOf(d)'.volume = platter'[d][2]
      /\ LifeOf(d)'.phase = IF platter'[d][2] = VolumeFor(ledger[d].job.query)
                            THEN "ready" ELSE "formatted"
  BY LifeIsNext DEF PhaseOf
<1>3. LifeOf(d)'.reported => LifeOf(d)'.phase = "ready"
  BY <1>2, LifeIsNext
<1>4. Life!Only(d, {"phase", "volume", "reported"})
  BY LifeIs, LifeIsNext DEF Life!Only
<1>5. Life!Format(d)
  BY <1>1, <1>2, <1>3, <1>4, LifeFields DEF Life!Format, JobVolume
<1> QED BY <1>5 DEF Life!Step

-------------------------------------------------------------------------------
(* What the refinement needs beyond IInv: the volume is written through to   *)
(* the platter, and is not what the job asks for before mkfs is done.        *)

VolumeDurable == \A d \in Disks : content[d][2] = platter[d][2]

Pending == \A p \in Procs, d \in Disks :
  Initializing(p, d) /\ ~ledger[d].mixed =>
    /\ pc[p] = "format" => ~ledger[d].formatted
    /\ pc[p] = "mkfs" /\ QueryOf(p).key = None => ~ledger[d].formatted
    /\ pc[p] \in {"open", "mkfs"} /\ QueryOf(p).key # None
         => platter[d][2] = LuksFor(QueryOf(p))

\* At first nothing is in the page cache only, and nobody is at work.
LEMMA PendingInit == Init => VolumeDurable /\ Pending
BY DEF Init, VolumeDurable, Pending, Initializing, InitSteps

\* Whoever is at work on a disk alone is not disturbed by a step of p.
LEMMA PendingFrame ==
  ASSUME TypeOK, Owned, Pending, NEW p \in Procs,
         \A x \in Procs : x # p => pc'[x] = pc[x] /\ job'[x] = job[x],
         \A x \in Procs, d \in Disks :
           Initializing(x, d) /\ ~ledger'[d].mixed /\ x # p =>
             ledger'[d] = ledger[d] /\ platter'[d][2] = platter[d][2],
         \A d \in Disks : Initializing(p, d)' /\ ~ledger'[d].mixed =>
           /\ pc'[p] = "format" => ~ledger'[d].formatted
           /\ pc'[p] = "mkfs" /\ QueryOf(p)'.key = None => ~ledger'[d].formatted
           /\ pc'[p] \in {"open", "mkfs"} /\ QueryOf(p)'.key # None
                => platter'[d][2] = LuksFor(QueryOf(p)')
  PROVE  Pending'
<1> SUFFICES ASSUME NEW x \in Procs, NEW d \in Disks,
                    Initializing(x, d)', ~ledger'[d].mixed
    PROVE  /\ pc'[x] = "format" => ~ledger'[d].formatted
           /\ pc'[x] = "mkfs" /\ QueryOf(x)'.key = None => ~ledger'[d].formatted
           /\ pc'[x] \in {"open", "mkfs"} /\ QueryOf(x)'.key # None
                => platter'[d][2] = LuksFor(QueryOf(x)')
  BY DEF Pending
<1>1. CASE x = p
  BY <1>1
<1>2. CASE x # p
  <2>1. Initializing(x, d) /\ QueryOf(x)' = QueryOf(x) /\ pc'[x] = pc[x]
    BY <1>2 DEF Initializing, QueryOf
  <2>2. ledger'[d] = ledger[d] /\ platter'[d][2] = platter[d][2]
    BY <1>2, <2>1
  <2>3. QueryOf(x)'.key = QueryOf(x).key /\ LuksFor(QueryOf(x)') = LuksFor(QueryOf(x))
    BY <2>1
  <2> QED BY <2>1, <2>2, <2>3 DEF Pending
<1> QED BY <1>1, <1>2

\* Volumes are written through to the platter.
LEMMA DurableStep ==
  ASSUME TypeOK, Control, VolumeDurable, [Next]_vars PROVE VolumeDurable'
<1>c. /\ content \in [Disks -> [Slots -> Content]]
      /\ platter \in [Disks -> [Slots -> Content]]
  BY DEF TypeOK
<1>s. 1 \in Slots /\ 2 \in Slots
  BY HostAssumption
<1>d. \A p \in Procs : Dev(p) \in Disks /\ LabelDev(p) = 1 /\ DataDev(p) = 2
  BY DevType DEF Control, TidyView, LabelDev, DataDev
<1>1. ASSUME NEW p \in Procs, WriteLabel(p) PROVE VolumeDurable'
  <2>1. /\ UNCHANGED platter
        /\ \/ UNCHANGED content
           \/ \E c : content' = [content EXCEPT ![Dev(p)][1] = c]
    BY <1>1, <1>d DEF WriteLabel
  <2> QED BY <2>1, <1>c, <1>d, <1>s, PointUpdate DEF VolumeDurable
<1>2. ASSUME NEW p \in Procs, SyncLabel(p) PROVE VolumeDurable'
  <2>1. /\ UNCHANGED content
        /\ platter' \in {platter, [platter EXCEPT ![Dev(p)][1] = content[Dev(p)][1]]}
    BY <1>2, <1>d DEF SyncLabel
  <2> QED BY <2>1, <1>c, <1>d, <1>s, PointUpdate DEF VolumeDurable
<1>3. ASSUME NEW p \in Procs, LuksFormat(p) \/ Mkfs(p) PROVE VolumeDurable'
  <2>1. \/ UNCHANGED <<content, platter>>
        \/ \E c : Overwrite(p, 2, c)
    BY <1>3, <1>d DEF LuksFormat, Mkfs
  <2> QED BY <2>1, <1>c, <1>d, <1>s, PointUpdate DEF VolumeDurable, Overwrite
<1>4. ASSUME UNCHANGED <<content, platter>> PROVE VolumeDurable'
  BY <1>4 DEF VolumeDurable
<1>5. ASSUME PowerLoss PROVE VolumeDurable'
  BY <1>5 DEF PowerLoss, VolumeDurable
<1>6. ASSUME NEW p \in Procs,
             \/ Sgdisk(p) \/ Partprobe(p) \/ CheckNewDevice(p) \/ OpenForSetup(p)
             \/ VolumeQueryMatch(p) \/ Close(p) \/ Kill(p) \/ Command(p)
      PROVE  UNCHANGED <<content, platter>>
  BY <1>6 DEF Sgdisk, Partprobe, CheckNewDevice, OpenForSetup,
     VolumeQueryMatch, LookupDevice, ReadLabel, OpenForMatch, Probe, Close,
     Kill, Command, ForceInitDisk, Cancel, CheckVolumeQuery, Launch, diskVars
<1>7. (\E d \in Disks, s \in Slots : UdevRefresh(d, s)) \/ UNCHANGED vars
        => UNCHANGED <<content, platter>>
  BY DEF UdevRefresh, vars, diskVars
<1> QED
  BY <1>1, <1>2, <1>3, <1>4, <1>5, <1>6, <1>7
  DEF Next, Work, InitializeBlockDevice

\* The claim of a process on a disk it initializes alone excludes all others.
LEMMA OnlyOwner ==
  ASSUME Owned, NEW p \in Procs, NEW x \in Procs, NEW d \in Disks,
         Initializing(p, d), Initializing(x, d), ~ledger[d].mixed
  PROVE  x = p
BY DEF Owned, SoleOwner

\* Every step keeps what is pending.
LEMMA PendingStep ==
  ASSUME TypeOK, Keyed, Control, Owned, Pending, [Next]_vars PROVE Pending'
<1>p. platter \in [Disks -> [Slots -> Content]]
  BY DEF TypeOK
<1>s. 1 \in Slots /\ 2 \in Slots
  BY HostAssumption
<1>d. \A p \in Procs : Dev(p) \in Disks /\ LabelDev(p) = 1 /\ DataDev(p) = 2
  BY DevType DEF Control, TidyView, LabelDev, DataDev
<1>1. ASSUME NEW p \in Procs, Sgdisk(p) PROVE Pending'
  <2>1. /\ UNCHANGED <<job, platter>> /\ pc'[p] \in {"partprobe", "idle"}
        /\ \A x \in Procs : x # p => pc'[x] = pc[x]
    BY <1>1 DEF Sgdisk, Goto, Return, TypeOK
  <2>2. /\ ledger'[Dev(p)].mixed =
             (\E x \in Procs \ {p} : Initializing(x, Dev(p)))
        /\ \A d \in Disks : d # Dev(p) => ledger'[d] = ledger[d]
    BY <1>1, <1>d, Zenon DEF Sgdisk, Claim, TypeOK
  <2> QED BY <2>1, <2>2, PendingFrame
<1>2. ASSUME NEW p \in Procs,
             Partprobe(p) \/ CheckNewDevice(p) \/ WriteLabel(p)
      PROVE  Pending'
  <2>1. /\ UNCHANGED <<job, platter, ledger>>
        /\ pc'[p] \in {"check", "write", "sync", "idle"}
        /\ \A x \in Procs : x # p => pc'[x] = pc[x]
    BY <1>2 DEF Partprobe, CheckNewDevice, WriteLabel,
       GetDiskLabelAndVolumePath, Goto, Return, diskVars, ghostVars, TypeOK
  <2> QED BY <2>1, PendingFrame
<1>3. ASSUME NEW p \in Procs, SyncLabel(p) PROVE Pending'
  <2>1. /\ UNCHANGED <<job, ledger>> /\ pc[p] = "sync"
        /\ pc'[p] = "idle" \/ pc'[p] = IF QueryOf(p).key = None THEN "mkfs" ELSE "format"
        /\ \A x \in Procs : x # p => pc'[x] = pc[x]
    BY <1>3 DEF SyncLabel, Goto, Return, ghostVars, TypeOK
  <2>2. platter' \in {platter, [platter EXCEPT ![Dev(p)][1] = content[Dev(p)][1]]}
    BY <1>3, <1>d DEF SyncLabel
  <2>3. \A d \in Disks : platter'[d][2] = platter[d][2]
    BY <2>2, <1>p, <1>d, <1>s, PointUpdate
  <2>4. \A d \in Disks : Initializing(p, d)' => Initializing(p, d)
    BY <2>1 DEF Initializing, InitSteps
  <2>5. \A d \in Disks : Initializing(p, d)' /\ ~ledger'[d].mixed => ~ledger'[d].formatted
    BY <2>1, <2>4 DEF Owned, Progress
  <2>6. QueryOf(p)' = QueryOf(p)
    BY <2>1 DEF QueryOf
  <2> QED BY <2>1, <2>3, <2>5, <2>6, PendingFrame
<1>4. ASSUME NEW p \in Procs, LuksFormat(p) \/ Mkfs(p) PROVE Pending'
  <2>1. /\ UNCHANGED job /\ pc[p] \in {"format", "mkfs"}
        /\ pc'[p] \in {"idle", "close", "open"}
        /\ \A x \in Procs : x # p => pc'[x] = pc[x]
    BY <1>4 DEF LuksFormat, Mkfs, FinishSetup, Goto, Return, TypeOK
  <2>2. \A d \in Disks : d # Dev(p) => platter'[d] = platter[d] /\ ledger'[d] = ledger[d]
    <3>1. UNCHANGED platter \/ \E c : Overwrite(p, 2, c)
      BY <1>4, <1>d DEF LuksFormat, Mkfs
    <3>2. UNCHANGED ledger \/ MarkFormatted(p)
      BY <1>4 DEF LuksFormat, Mkfs, ghostVars
    <3>3. \A d \in Disks : d # Dev(p) => ledger'[d] = ledger[d]
      BY <3>2 DEF MarkFormatted, TypeOK
    <3> QED BY <3>1, <3>3, <1>p DEF Overwrite
  <2>3. ledger'[Dev(p)].mixed = ledger[Dev(p)].mixed
    BY <1>4, <1>d DEF LuksFormat, Mkfs, MarkFormatted, ghostVars, TypeOK
  <2>4. Initializing(p, Dev(p))
    BY <2>1 DEF Initializing, InitSteps, Control, CommandFits, Dev
  <2>5. \A x \in Procs, d \in Disks :
          Initializing(x, d) /\ ~ledger'[d].mixed /\ x # p => d # Dev(p)
    BY <2>3, <2>4, OnlyOwner
  <2>6. pc'[p] = "open" => platter'[Dev(p)][2] = LuksFor(QueryOf(p))
    <3>1. pc'[p] = "open" => Overwrite(p, 2, LuksFor(QueryOf(p)))
      BY <1>4, <1>d DEF LuksFormat, Mkfs, FinishSetup, Goto, Return, TypeOK
    <3> QED BY <3>1, <1>d, <1>s, <1>p, PointUpdate DEF Overwrite
  <2>7. QueryOf(p)' = QueryOf(p)
    BY <2>1 DEF QueryOf
  <2>8. \A d \in Disks : Initializing(p, d)' => d = Dev(p)
    BY <2>1 DEF Initializing, Dev
  <2> QED BY <2>1, <2>2, <2>5, <2>6, <2>7, <2>8, PendingFrame
<1>5. ASSUME NEW p \in Procs, OpenForSetup(p) PROVE Pending'
  <2>1. /\ UNCHANGED <<job, platter, ledger>> /\ pc[p] = "open"
        /\ pc'[p] \in {"idle", "mkfs"}
        /\ \A x \in Procs : x # p => pc'[x] = pc[x]
    BY <1>5 DEF OpenForSetup, Goto, Return, ghostVars, TypeOK
  <2>2. QueryOf(p)' = QueryOf(p) /\ QueryOf(p).key # None
    BY <2>1 DEF QueryOf, Keyed
  <2>3. \A d \in Disks : Initializing(p, d)' => Initializing(p, d)
    BY <2>1 DEF Initializing, InitSteps
  <2>4. \A d \in Disks : Initializing(p, d)' /\ ~ledger'[d].mixed =>
          platter'[d][2] = LuksFor(QueryOf(p)')
    BY <2>1, <2>2, <2>3 DEF Pending
  <2> QED BY <2>1, <2>2, <2>4, PendingFrame
<1>6. ASSUME NEW p \in Procs, VolumeQueryMatch(p) PROVE Pending'
  <2>1. /\ UNCHANGED <<job, platter, ledger>>
        /\ job[p].op = "query-device"
        /\ \A x \in Procs : x # p => pc'[x] = pc[x]
    BY <1>6 DEF VolumeQueryMatch, LookupDevice, ReadLabel, Rely, OpenForMatch,
       Probe, FinishMatch, GetDiskLabelAndVolumePath, Goto, Return, diskVars,
       ghostVars, Control, CommandFits, TypeOK
  <2>2. \A d \in Disks : ~Initializing(p, d)'
    BY <2>1 DEF Initializing
  <2> QED BY <2>1, <2>2, PendingFrame
<1>7. ASSUME NEW p \in Procs, Close(p) \/ Kill(p) \/ Command(p) PROVE Pending'
  <2>1. /\ UNCHANGED <<platter, ledger>>
        /\ pc'[p] \in {"idle", "sgdisk", "lookup"}
        /\ \A x \in Procs : x # p => pc'[x] = pc[x] /\ job'[x] = job[x]
    BY <1>7 DEF Close, Kill, Command, ForceInitDisk, Cancel, CheckVolumeQuery,
       Launch, Goto, Return, diskVars, ghostVars, TypeOK
  <2> QED BY <2>1, PendingFrame
<1>8. ASSUME PowerLoss PROVE Pending'
  BY <1>8 DEF PowerLoss, Pending, Initializing, InitSteps
<1>9. ASSUME UNCHANGED <<platter, ledger, pc, job>> PROVE Pending'
  BY <1>9 DEF Pending, Initializing, QueryOf
<1>10. (\E d \in Disks, s \in Slots : UdevRefresh(d, s)) \/ UNCHANGED vars
         => UNCHANGED <<platter, ledger, pc, job>>
  BY DEF UdevRefresh, vars, diskVars, procVars, ghostVars
<1> QED
  BY <1>1, <1>2, <1>3, <1>4, <1>5, <1>6, <1>7, <1>8, <1>9, <1>10
  DEF Next, Work, InitializeBlockDevice

-------------------------------------------------------------------------------
(* The refinement.                                                           *)

\* The initial state maps to an initial state.
LEMMA LifeInit == Init => Life!Init
<1> SUFFICES ASSUME Init PROVE Life!Init
  OBVIOUS
<1>1. \A d \in Disks : ~Alone(d)
  BY DEF Init, Alone, NoClaim
<1>2. \A d \in Disks : /\ LifeOf(d).phase = "shared" /\ LifeOf(d).job = None
                       /\ ~LifeOf(d).reported
  BY <1>1, LifeIs DEF PhaseOf
<1> QED BY <1>2 DEF Life!Init, Life!Shared

\* Claiming d.
LEMMA SgdiskLife ==
  ASSUME TypeOK, Control, NEW p \in Procs, Sgdisk(p), NEW d \in Disks
  PROVE  Life!Step(d)
<1>1. /\ UNCHANGED <<job, platter>> /\ Dev(p) \in Disks /\ job[p] \in Jobs
      /\ \A x \in Procs : x # p => result'[x] = result[x]
      /\ result[p] # "ok" /\ result'[p] # "ok"
  BY DevType DEF Sgdisk, Goto, Return, Control, DoneIsOver, TypeOK
<1>2. CASE d = Dev(p)
  <2>1. \E m \in BOOLEAN : ledger'[d] =
          [by |-> p, job |-> job[p], formatted |-> FALSE, mixed |-> m]
    BY <1>1, <1>2 DEF Sgdisk, Claim, TypeOK
  <2>2. ~Reported(d)'
    BY <1>1, <2>1 DEF Reported, Reports
  <2> QED BY <1>1, <2>1, <2>2, BeginLife
<1>3. CASE d # Dev(p)
  <2>1. ledger'[d] = ledger[d]
    BY <1>1, <1>3 DEF Sgdisk, Claim, TypeOK
  <2>2. Reported(d)' => Reported(d)
    BY <1>1, <2>1 DEF Reported, Reports, Dev
  <2> QED BY <1>1, <2>1, <2>2, QuietLife
<1> QED BY <1>2, <1>3

\* Syncing a label.
LEMMA SyncLife ==
  ASSUME TypeOK, Control, Owned, NEW p \in Procs, SyncLabel(p), NEW d \in Disks
  PROVE  Life!Step(d)
<1>0. /\ UNCHANGED <<job, ledger>> /\ pc[p] = "sync"
      /\ \A x \in Procs : x # p => result'[x] = result[x]
  BY DEF SyncLabel, Goto, Return, TypeOK, ghostVars
<1>1. /\ UNCHANGED <<job, ledger>> /\ Dev(p) \in Disks /\ LabelDev(p) = 1
      /\ \A x \in Procs : x # p => result'[x] = result[x]
      /\ result[p] # "ok" /\ result'[p] # "ok" /\ pc[p] = "sync"
  <2>1. result[p] # "ok" /\ LabelDev(p) = 1
    BY <1>0 DEF Control, DoneIsOver, TidyView, LabelDev
  <2>2. result'[p] # "ok"
    BY <2>1 DEF SyncLabel, Goto, Return, TypeOK
  <2> QED BY <1>0, <2>1, <2>2, DevType
<1>2. \A e \in Disks, s \in Slots :
        e # Dev(p) \/ s # 1 => platter'[e][s] = platter[e][s]
  <2>1. platter' \in {platter, [platter EXCEPT ![Dev(p)][1] = content[Dev(p)][1]]}
    BY <1>1 DEF SyncLabel
  <2>2. platter \in [Disks -> [Slots -> Content]] /\ 1 \in Slots
    BY HostAssumption DEF TypeOK
  <2> QED BY <1>1, <2>1, <2>2, PointUpdate
<1>3. Reported(d)' => Reported(d)
  BY <1>1 DEF Reported, Reports, Dev
<1>4. CASE d # Dev(p)
  BY <1>1, <1>2, <1>3, <1>4, QuietLife, HostAssumption
<1>5. CASE d = Dev(p) /\ ledger[d].mixed
  BY <1>1, <1>5, SharedLife DEF Alone
<1>6. CASE d = Dev(p) /\ ~ledger[d].mixed
  <2>1. Initializing(p, d)
    BY <1>1, <1>6 DEF Initializing, InitSteps, Control, CommandFits, Dev
  <2>2. ~ledger[d].formatted /\ ledger[d].by = p
    BY <1>1, <1>6, <2>1 DEF Owned, SoleOwner, Progress
  <2>3. ~Reported(d)
    BY <1>1, <2>2 DEF Reported, Reports
  <2> QED BY <1>1, <1>2, <1>3, <2>2, <2>3, RelabelLife, HostAssumption
<1> QED BY <1>4, <1>5, <1>6

\* p leaves c on its data device, which is complete if p succeeds.
Makes(p, c) ==
  /\ MarkFormatted(p)
  /\ pc[p] = "mkfs" => QueryOf(p).fs # None
  /\ platter' = [platter EXCEPT ![Dev(p)][2] = c]
  /\ result'[p] = "ok" => c = VolumeFor(QueryOf(p))

\* Making the volume.
LEMMA FormatStepLife ==
  ASSUME TypeOK, Control, Owned, Pending, NEW p \in Procs,
         LuksFormat(p) \/ Mkfs(p), NEW d \in Disks
  PROVE  Life!Step(d)
<1> DEFINE q == QueryOf(p)
<1>1. /\ UNCHANGED job /\ Dev(p) \in Disks /\ DataDev(p) = 2
      /\ result[p] # "ok" /\ pc[p] \in {"format", "mkfs"}
  BY DevType DEF LuksFormat, Mkfs, Control, DoneIsOver, TidyView, DataDev
<1>2. \A x \in Procs : x # p => result'[x] = result[x]
  BY DEF LuksFormat, Mkfs, FinishSetup, Goto, Return, TypeOK
<1>3. \/ /\ UNCHANGED <<platter, ledger>> /\ result'[p] # "ok"
      \/ \E c : Makes(p, c)
  BY <1>1 DEF Makes, LuksFormat, Mkfs, Overwrite, FinishSetup, Goto, Return, ghostVars,
     TypeOK
<1>4. CASE UNCHANGED <<platter, ledger>> /\ result'[p] # "ok"
  <2>1. Reported(d)' => Reported(d)
    BY <1>1, <1>2, <1>4 DEF Reported, Reports, Dev
  <2> QED BY <1>4, <2>1, QuietLife
<1>5. ASSUME NEW c, Makes(p, c) PROVE Life!Step(d)
  <2>m. /\ MarkFormatted(p) /\ (pc[p] = "mkfs" => q.fs # None)
        /\ platter' = [platter EXCEPT ![Dev(p)][2] = c]
        /\ result'[p] = "ok" => c = VolumeFor(q)
    BY <1>5 DEF Makes
  <2>1. /\ \A e \in Disks, s \in Slots :
             e # Dev(p) \/ s # 2 => platter'[e][s] = platter[e][s]
        /\ platter'[Dev(p)][2] = c
    <3>1. platter \in [Disks -> [Slots -> Content]] /\ 2 \in Slots
      BY HostAssumption DEF TypeOK
    <3> QED BY <1>1, <2>m, <3>1, PointUpdate
  <2>2. /\ \A e \in Disks : e # Dev(p) => ledger'[e] = ledger[e]
        /\ ledger'[Dev(p)] = [by |-> ledger[Dev(p)].by,
             job |-> ledger[Dev(p)].job, formatted |-> TRUE,
             mixed |-> ledger[Dev(p)].mixed]
    BY <1>1, <2>m DEF MarkFormatted, TypeOK
  <2>3. CASE d # Dev(p)
    <3>1. Reported(d)' => Reported(d)
      BY <1>1, <1>2, <2>2, <2>3 DEF Reported, Reports, Dev
    <3> QED BY <2>1, <2>2, <2>3, <3>1, QuietLife, HostAssumption
  <2>4. CASE d = Dev(p) /\ ledger[d].mixed
    BY <2>2, <2>4, SharedLife DEF Alone
  <2>5. CASE d = Dev(p) /\ ~ledger[d].mixed
    <3>1. Initializing(p, d)
      BY <1>1, <2>5 DEF Initializing, InitSteps, Control, CommandFits, Dev
    <3>2. /\ ledger[d].by = p /\ ledger[d].job = job[p]
          /\ platter[d][1] = LabelFor(job[p])
      BY <1>1, <2>5, <3>1 DEF Owned, SoleOwner, Progress
    <3>3. Alone(d) /\ Alone(d)'
      BY <2>2, <2>5, <3>2, HostAssumption DEF Alone
    <3>4. PhaseOf(d) \in {"begun", "formatted"}
      <4>1. CASE ~ledger[d].formatted
        BY <3>3, <4>1 DEF PhaseOf
      <4>2. CASE ledger[d].formatted
        <5>1. pc[p] = "mkfs" /\ q.key # None /\ platter[d][2] = LuksFor(q)
          BY <1>1, <2>5, <3>1, <4>2 DEF Pending
        <5>2. LuksFor(q) # VolumeFor(q)
          <6>1. LuksFor(q).fs = None
            BY DEF LuksFor
          <6>2. VolumeFor(q).fs = q.fs
            BY DEF VolumeFor
          <6> QED BY <6>1, <6>2, <5>1, <2>m
        <5>3. VolumeFor(ledger[d].job.query) = VolumeFor(q)
          BY <3>2 DEF QueryOf
        <5> QED BY <3>3, <4>2, <5>1, <5>2, <5>3 DEF PhaseOf
      <4> QED BY <4>1, <4>2
    <3>5. Reported(d)' => platter'[d][2] = VolumeFor(ledger[d].job.query)
      <4>1. Reported(d)' => result'[p] = "ok"
        BY <2>2, <2>5, <3>2 DEF Reported, Reports
      <4> QED BY <4>1, <2>m, <2>1, <2>5, <3>2 DEF QueryOf
    <3> QED BY <2>1, <2>2, <2>5, <3>2, <3>3, <3>4, <3>5, FormatLife,
            HostAssumption
  <2> QED BY <2>3, <2>4, <2>5
<1> QED BY <1>3, <1>4, <1>5

\* A power loss takes from an owned disk at most a label not yet synced, and
\* only before the volume is touched.
LEMMA PowerLossLife ==
  ASSUME TypeOK, Control, Owned, VolumeDurable, PowerLoss, NEW d \in Disks
  PROVE  Life!Step(d)
<1>1. /\ UNCHANGED <<ledger, job>>
      /\ \A x \in Procs : result'[x] = "ok" => result[x] = "ok"
  BY DEF PowerLoss
<1>2. Reported(d)' => Reported(d)
  BY <1>1 DEF Reported, Reports, Dev
<1>3. \A s \in Slots :
        content[d][s] = platter[d][s] => platter'[d][s] = platter[d][s]
  BY DEF PowerLoss
<1>4. platter'[d][2] = platter[d][2] /\ 1 \in Slots
  BY <1>3, HostAssumption DEF VolumeDurable
<1>5. CASE ~Alone(d)
  BY <1>1, <1>5, SharedLife DEF Alone
<1>6. CASE Alone(d) /\ Reported(d)
  <2>1. content[d][1] = platter[d][1]
    BY <1>6 DEF Alone, Reported, Reports, Owned, ReadyWhenDone, Provisioned
  <2> QED BY <1>1, <1>2, <1>3, <1>4, <2>1, QuietLife
<1>7. CASE Alone(d) /\ ledger[d].formatted
  <2>1. content[d][1] = platter[d][1]
    BY <1>7 DEF Alone, Owned, LabelDurableBeforeFormat
  <2> QED BY <1>1, <1>2, <1>3, <1>4, <2>1, QuietLife
<1>8. CASE ~Reported(d) /\ ~ledger[d].formatted
  BY <1>1, <1>2, <1>4, <1>8, RelabelLife
<1> QED BY <1>5, <1>6, <1>7, <1>8

\* Each step of the host is a step in the life of each disk.
LEMMA LifeStep ==
  ASSUME TypeOK, Control, Owned, Pending, VolumeDurable, [Next]_vars,
         NEW d \in Disks
  PROVE  Life!Step(d)
<1>1. ASSUME UNCHANGED <<ledger, platter>>,
             \A x \in Procs : result'[x] = "ok" =>
               result[x] = "ok" /\ job'[x] = job[x]
      PROVE  Life!Step(d)
  <2>1. Reported(d)' => Reported(d)
    BY <1>1 DEF Reported, Reports, Dev
  <2> QED BY <1>1, <2>1, QuietLife
<1>2. ASSUME NEW p \in Procs,
             \/ Partprobe(p) \/ CheckNewDevice(p) \/ WriteLabel(p)
             \/ OpenForSetup(p)
      PROVE  Life!Step(d)
  <2>1. UNCHANGED <<ledger, platter, job>>
    BY <1>2 DEF Partprobe, CheckNewDevice, WriteLabel, OpenForSetup, diskVars,
       ghostVars
  <2>2. \A x \in Procs : result'[x] = "ok" => result[x] = "ok"
    BY <1>2 DEF Partprobe, CheckNewDevice, WriteLabel, OpenForSetup,
       GetDiskLabelAndVolumePath, Goto, Return, TypeOK
  <2> QED BY <2>1, <2>2, <1>1
<1>3. ASSUME NEW p \in Procs, VolumeQueryMatch(p) PROVE Life!Step(d)
  <2>1. UNCHANGED <<ledger, platter, job>>
    BY <1>3 DEF VolumeQueryMatch, LookupDevice, ReadLabel, Rely, OpenForMatch,
       Probe, diskVars, ghostVars
  <2>2. \A x \in Procs : result'[x] = "ok" => result[x] = "ok"
    BY <1>3 DEF VolumeQueryMatch, LookupDevice, ReadLabel, OpenForMatch, Probe,
       GetDiskLabelAndVolumePath, FinishMatch, Goto, Return, TypeOK
  <2> QED BY <2>1, <2>2, <1>1
<1>4. ASSUME NEW p \in Procs, Close(p) \/ Kill(p) PROVE Life!Step(d)
  BY <1>4, <1>1 DEF Close, Kill, Goto, Return, ghostVars, TypeOK
<1>5. ASSUME NEW p \in Procs, Command(p) PROVE Life!Step(d)
  <2>1. UNCHANGED <<ledger, platter>>
    BY <1>5 DEF Command, ForceInitDisk, Cancel, CheckVolumeQuery, Launch,
       diskVars
  <2>2. /\ \A x \in Procs : x # p => result'[x] = result[x] /\ job'[x] = job[x]
        /\ result'[p] # "ok"
    BY <1>5 DEF Command, ForceInitDisk, Cancel, CheckVolumeQuery, Launch, TypeOK
  <2> QED BY <2>1, <2>2, <1>1
<1>6. ASSUME NEW e \in Disks, NEW s \in Slots, UdevRefresh(e, s)
      PROVE  Life!Step(d)
  BY <1>6, <1>1 DEF UdevRefresh, procVars, ghostVars
<1>7. ASSUME UNCHANGED vars PROVE Life!Step(d)
  BY <1>7, <1>1 DEF vars, diskVars, procVars, ghostVars
<1> QED
  BY <1>2, <1>3, <1>4, <1>5, <1>6, <1>7, SgdiskLife, SyncLife, FormatStepLife,
     PowerLossLife
  DEF Next, Work, InitializeBlockDevice

\* On hosts whose disks are tidy, Simplectl implements VolumeLifecycle.
THEOREM Refinement == ASSUME TidyDisks PROVE Spec => ImplementsLifecycle
<1> DEFINE J == IInv /\ VolumeDurable /\ Pending
<1>1. Init => J
  BY TypedInit, ControlInit, OwnedInit, PendingInit DEF IInv, Typed
<1>2. J /\ [Next]_vars => J'
  <2>1. IInv /\ [Next]_vars => IInv'
    BY TypedStep, ControlStep, OwnedStep DEF IInv, Typed
  <2>2. IInv /\ VolumeDurable /\ [Next]_vars => VolumeDurable'
    BY DurableStep DEF IInv
  <2>3. IInv /\ Pending /\ [Next]_vars => Pending'
    BY PendingStep DEF IInv
  <2> QED BY <2>1, <2>2, <2>3
<1>3. J /\ [Next]_vars => Life!Next
  <2> SUFFICES ASSUME J, [Next]_vars PROVE Life!Next
    OBVIOUS
  <2>1. \A d \in Disks : Life!Step(d)
    BY LifeStep DEF IInv
  <2> QED BY <2>1 DEF Life!Next
<1>4. Init => Life!Init
  BY LifeInit
<1> QED BY <1>1, <1>2, <1>3, <1>4, PTL
        DEF Spec, ImplementsLifecycle, Life!Spec

===============================================================================

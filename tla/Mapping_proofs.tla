---------------------------- MODULE Mapping_proofs -----------------------------
(***************************************************************************)
(* Proofs about the dm-crypt mappings and the matches of Simplectl: a       *)
(* mapping is held by exactly one running command, which is certain to find *)
(* its volume behind it, and a match is true of one state of the disk,      *)
(* although label, volume and udev record were read at different times.     *)
(* A disk that was made for a query is found by it.                          *)
(***************************************************************************)
EXTENDS Simplectl_proofs

-------------------------------------------------------------------------------
(* Who holds a mapping.                                                      *)

\* The first part of MappingHeld, with what makes it inductive: only a command
\* with a passphrase holds a mapping.
Held == \A d \in Disks, s \in Slots, p \in Procs : mapper[d][s] = p =>
  /\ d = Dev(p) /\ s = DataDev(p) /\ pc[p] \in {"mkfs", "probe", "close"}
  /\ QueryOf(p).key # None

\* The second part.
Holds == \A p \in Procs :
  \/ pc[p] = "close"
  \/ pc[p] \in {"mkfs", "probe"} /\ QueryOf(p).key # None
  => mapper[Dev(p)][DataDev(p)] = p

\* Nobody holds a mapping when the host is first observed.
LEMMA HeldInit == Init => Held /\ Holds
BY HostAssumption DEF Init, Held, Holds

\* p goes on, holding nothing before and nothing after.
LEMMA EmptyHanded ==
  ASSUME TypeOK, Held, Holds, NEW p \in Procs, UNCHANGED mapper,
         \A x \in Procs : x # p => /\ pc'[x] = pc[x] /\ job'[x] = job[x]
                                   /\ found'[x] = found[x],
         pc[p] \notin {"mkfs", "probe", "close"},
         pc'[p] # "close",
         pc'[p] \in {"mkfs", "probe"} => job'[p].query.key = None
  PROVE  Held' /\ Holds'
<1>1. Held'
  BY DEF Held, Dev, DataDev, QueryOf
<1>2. Holds'
  BY DEF Holds, Dev, DataDev, QueryOf
<1> QED BY <1>1, <1>2

\* p finishes its command: with a mapping in hand it goes to its Close.
LEMMA FinishKeepsHold ==
  ASSUME TypeOK, Held, Holds, NEW p \in Procs, UNCHANGED <<mapper, job, found>>,
         \A x \in Procs : x # p => pc'[x] = pc[x],
         pc[p] \in {"mkfs", "probe"},
         pc'[p] = IF QueryOf(p).key = None THEN "idle" ELSE "close"
  PROVE  Held' /\ Holds'
<1>1. Held'
  BY DEF Held, Dev, DataDev, QueryOf
<1>2. Holds'
  BY DEF Holds, Dev, DataDev, QueryOf
<1> QED BY <1>1, <1>2

\* p opens a mapping that nobody has.
LEMMA OpenTakesHold ==
  ASSUME TypeOK, Held, Holds, NEW p \in Procs, UNCHANGED <<job, found>>,
         mapper[Dev(p)][DataDev(p)] = None,
         mapper' = [mapper EXCEPT ![Dev(p)][DataDev(p)] = p],
         \A x \in Procs : x # p => pc'[x] = pc[x],
         pc[p] \in {"open", "unlock"}, pc'[p] \in {"mkfs", "probe"},
         QueryOf(p).key # None
  PROVE  Held' /\ Holds'
<1>1. /\ \A d \in Disks, s \in Slots :
           <<d, s>> # <<Dev(p), DataDev(p)>> => mapper'[d][s] = mapper[d][s]
      /\ mapper'[Dev(p)][DataDev(p)] = p
  BY DevType DEF TypeOK
<1>2. /\ \A x \in Procs : Dev(x)' = Dev(x) /\ DataDev(x)' = DataDev(x)
                         /\ QueryOf(x)' = QueryOf(x)
      /\ \A x \in Procs : Dev(x) \in Disks /\ DataDev(x) \in Slots
      /\ None \notin Procs
  BY DevType, HostAssumption DEF Dev, DataDev, QueryOf
<1>3. Held'
  BY <1>1, <1>2 DEF Held
<1>4. Holds'
  <2> SUFFICES ASSUME NEW x \in Procs,
                      \/ pc'[x] = "close"
                      \/ pc'[x] \in {"mkfs", "probe"} /\ QueryOf(x).key # None
               PROVE  mapper'[Dev(x)][DataDev(x)] = x
    BY <1>2 DEF Holds
  <2>1. CASE x = p
    BY <2>1, <1>1
  <2>2. CASE x # p
    <3>1. mapper[Dev(x)][DataDev(x)] = x
      BY <2>2 DEF Holds
    <3>2. <<Dev(x), DataDev(x)>> # <<Dev(p), DataDev(p)>>
      BY <3>1, <1>2
    <3> QED BY <3>1, <3>2, <1>1, <1>2
  <2> QED BY <2>1, <2>2
<1> QED BY <1>3, <1>4

\* p's deferred Close takes away its own mapping and nobody else's.
LEMMA CloseLetsGo ==
  ASSUME TypeOK, Held, Holds, NEW p \in Procs, Close(p)
  PROVE  Held' /\ Holds'
<1>1. PICK y \in {None, Leaked} :
        mapper' = [mapper EXCEPT ![Dev(p)][DataDev(p)] = y]
  BY DEF Close
<1>2. /\ \A d \in Disks, s \in Slots :
           <<d, s>> # <<Dev(p), DataDev(p)>> => mapper'[d][s] = mapper[d][s]
      /\ mapper'[Dev(p)][DataDev(p)] \notin Procs
  BY <1>1, DevType, HostAssumption DEF TypeOK
<1>3. /\ pc[p] = "close" /\ pc'[p] = "idle" /\ UNCHANGED <<job, found>>
      /\ \A x \in Procs : x # p => pc'[x] = pc[x]
  BY DEF Close, Goto, TypeOK
<1>4. /\ \A x \in Procs : Dev(x)' = Dev(x) /\ DataDev(x)' = DataDev(x)
                         /\ QueryOf(x)' = QueryOf(x)
      /\ \A x \in Procs : Dev(x) \in Disks /\ DataDev(x) \in Slots
  BY <1>3, DevType DEF Dev, DataDev, QueryOf
<1>5. mapper[Dev(p)][DataDev(p)] = p
  BY <1>3 DEF Holds
<1>6. Held'
  BY <1>2, <1>3, <1>4 DEF Held
<1>7. Holds'
  BY <1>2, <1>3, <1>4, <1>5 DEF Holds
<1> QED BY <1>6, <1>7

\* Every step of the host keeps the mappings in order.
LEMMA HeldStep ==
  ASSUME Typed, Held, Holds, [Next]_vars PROVE Held' /\ Holds'
<1>t. TypeOK /\ Keyed
  BY DEF Typed
<1>1. ASSUME NEW p \in Procs, Sgdisk(p) PROVE Held' /\ Holds'
  BY <1>1, <1>t, EmptyHanded DEF Sgdisk, Goto, Return, TypeOK
<1>2. ASSUME NEW p \in Procs, Partprobe(p) PROVE Held' /\ Holds'
  BY <1>2, <1>t, EmptyHanded DEF Partprobe, Goto, Return, TypeOK
<1>3. ASSUME NEW p \in Procs, CheckNewDevice(p) PROVE Held' /\ Holds'
  BY <1>3, <1>t, EmptyHanded
  DEF CheckNewDevice, GetDiskLabelAndVolumePath, Goto, Return, diskVars, TypeOK
<1>4. ASSUME NEW p \in Procs, WriteLabel(p) PROVE Held' /\ Holds'
  BY <1>4, <1>t, EmptyHanded DEF WriteLabel, Goto, Return, TypeOK
<1>5. ASSUME NEW p \in Procs, SyncLabel(p) PROVE Held' /\ Holds'
  BY <1>5, <1>t, EmptyHanded DEF SyncLabel, Goto, Return, QueryOf, TypeOK
<1>6. ASSUME NEW p \in Procs, LuksFormat(p) PROVE Held' /\ Holds'
  BY <1>6, <1>t, EmptyHanded DEF LuksFormat, Goto, Return, TypeOK
<1>7. ASSUME NEW p \in Procs, OpenForSetup(p) PROVE Held' /\ Holds'
  <2>1. CASE UNCHANGED mapper /\ Return(p, "error")
    BY <1>7, <2>1, <1>t, EmptyHanded DEF OpenForSetup, Return, TypeOK
  <2>2. CASE CanOpen(Dev(p), DataDev(p), QueryOf(p).key) /\ Goto(p, "mkfs")
             /\ mapper' = [mapper EXCEPT ![Dev(p)][DataDev(p)] = p]
    BY <1>7, <2>2, <1>t, OpenTakesHold
    DEF OpenForSetup, Goto, CanOpen, Keyed, TypeOK
  <2> QED BY <1>7, <2>1, <2>2 DEF OpenForSetup
<1>8. ASSUME NEW p \in Procs, Mkfs(p) PROVE Held' /\ Holds'
  BY <1>8, <1>t, FinishKeepsHold DEF Mkfs, FinishSetup, TypeOK
<1>9. ASSUME NEW p \in Procs, LookupDevice(p) PROVE Held' /\ Holds'
  BY <1>9, <1>t, EmptyHanded
  DEF LookupDevice, GetDiskLabelAndVolumePath, Goto, Return, diskVars, TypeOK
<1>10. ASSUME NEW p \in Procs, ReadLabel(p) PROVE Held' /\ Holds'
  BY <1>10, <1>t, EmptyHanded
  DEF ReadLabel, Goto, Return, QueryOf, diskVars, TypeOK
<1>11. ASSUME NEW p \in Procs, OpenForMatch(p) PROVE Held' /\ Holds'
  <2>1. CASE UNCHANGED mapper /\ Return(p, "nomatch")
    BY <1>11, <2>1, <1>t, EmptyHanded DEF OpenForMatch, Return, TypeOK
  <2>2. CASE CanOpen(Dev(p), DataDev(p), QueryOf(p).key) /\ Goto(p, "probe")
             /\ mapper' = [mapper EXCEPT ![Dev(p)][DataDev(p)] = p]
    BY <1>11, <2>2, <1>t, OpenTakesHold
    DEF OpenForMatch, Goto, CanOpen, Keyed, TypeOK
  <2> QED BY <1>11, <2>1, <2>2 DEF OpenForMatch
<1>12. ASSUME NEW p \in Procs, Probe(p) PROVE Held' /\ Holds'
  BY <1>12, <1>t, FinishKeepsHold DEF Probe, FinishMatch, diskVars, TypeOK
<1>13. ASSUME NEW p \in Procs, Close(p) PROVE Held' /\ Holds'
  BY <1>13, <1>t, CloseLetsGo
<1>14. ASSUME NEW p \in Procs, Command(p) PROVE Held' /\ Holds'
  BY <1>14, <1>t, EmptyHanded
  DEF Command, ForceInitDisk, Cancel, CheckVolumeQuery, Launch, diskVars, TypeOK
<1>15. ASSUME NEW p \in Procs, Kill(p) PROVE Held' /\ Holds'
  <2>1. /\ \A d \in Disks, s \in Slots : mapper'[d][s] =
             IF mapper[d][s] = p THEN Leaked ELSE mapper[d][s]
        /\ UNCHANGED <<job, found>> /\ pc'[p] = "idle"
        /\ \A x \in Procs : x # p => pc'[x] = pc[x]
    BY <1>15, <1>t DEF Kill, Return, TypeOK
  <2>2. Held'
    BY <2>1, HostAssumption DEF Held, Dev, DataDev, QueryOf
  <2>3. Holds'
    BY <2>1, <1>t, DevType DEF Holds, Dev, DataDev, QueryOf
  <2> QED BY <2>2, <2>3
<1>16. ASSUME NEW d \in Disks, NEW s \in Slots, UdevRefresh(d, s)
       PROVE  Held' /\ Holds'
  BY <1>16 DEF UdevRefresh, procVars, Held, Holds, Dev, DataDev, QueryOf
<1>17. ASSUME PowerLoss PROVE Held' /\ Holds'
  BY <1>17, HostAssumption DEF PowerLoss, Held, Holds
<1>18. ASSUME UNCHANGED vars PROVE Held' /\ Holds'
  BY <1>18 DEF vars, diskVars, procVars, Held, Holds, Dev, DataDev, QueryOf
<1> QED
  BY <1>1, <1>2, <1>3, <1>4, <1>5, <1>6, <1>7, <1>8, <1>9, <1>10, <1>11, <1>12,
     <1>13, <1>14, <1>15, <1>16, <1>17, <1>18
  DEF Next, Work, InitializeBlockDevice, VolumeQueryMatch

\* A mapping belongs to one running command, from its open to its Close, and
\* to nobody after that: no path through the code forgets it.
THEOREM MappingDiscipline == Spec => []MappingHeld
<1>1. Init => Typed /\ Held /\ Holds
  BY TypedInit, HeldInit
<1>2. Typed /\ Held /\ Holds /\ [Next]_vars => (Typed /\ Held /\ Holds)'
  BY TypedStep, HeldStep
<1>3. Typed /\ Held /\ Holds => MappingHeld
  BY DEF Held, Holds, MappingHeld
<1> QED BY <1>1, <1>2, <1>3, PTL DEF Spec

-------------------------------------------------------------------------------
(* What is behind a mapping.                                                 *)

\* Nothing is mapped at first.
LEMMA StaysInit == Init => MappedVolumeStays
<1> SUFFICES ASSUME Init PROVE MappedVolumeStays
  OBVIOUS
<1>1. TypeOK
  BY TypedInit DEF Typed
<1>2. \A d \in Disks, s \in Slots : mapper[d][s] = None
  BY DEF Init
<1> QED BY <1>1, <1>2, DevType, HostAssumption DEF MappedVolumeStays

\* A step of p that opens nothing, and leaves what is mapped a volume of its
\* holder's key.
LEMMA StaysFrame ==
  ASSUME TypeOK, TypeOK', Held, MappedVolumeStays, NEW p \in Procs,
         \A x \in Procs : x # p => job'[x] = job[x] /\ found'[x] = found[x],
         \/ job'[p] = job[p] /\ found'[p] = found[p]
         \/ pc[p] \notin {"mkfs", "probe", "close"},
         \A d \in Disks, s \in Slots, x \in Procs :
           mapper'[d][s] = x => mapper[d][s] = x,
         \A d \in Disks, s \in Slots, x \in Procs : mapper[d][s] = x =>
           \/ content'[d][s] = content[d][s]
           \/ /\ content'[d][s].kind = "luks"
              /\ content'[d][s].key = QueryOf(x).key
  PROVE  MappedVolumeStays'
<1> SUFFICES ASSUME NEW x \in Procs,
                    mapper'[Dev(x)'][DataDev(x)'] = x
             PROVE  /\ content'[Dev(x)'][DataDev(x)'].kind = "luks"
                    /\ content'[Dev(x)'][DataDev(x)'].key = QueryOf(x)'.key
  BY DEF MappedVolumeStays
<1> DEFINE d == Dev(x)'
           s == DataDev(x)'
<1>1. d \in Disks /\ s \in Slots
  BY HostAssumption DEF TypeOK, Job, Dev, DataDev
<1>2. mapper[d][s] = x
  BY <1>1
<1>3. d = Dev(x) /\ s = DataDev(x) /\ pc[x] \in {"mkfs", "probe", "close"}
  BY <1>1, <1>2 DEF Held
<1>4. job'[x] = job[x]
  BY <1>3
<1>5. QueryOf(x)' = QueryOf(x)
  BY <1>4 DEF QueryOf
<1>6. content[d][s].kind = "luks" /\ content[d][s].key = QueryOf(x).key
  BY <1>2, <1>3 DEF MappedVolumeStays
<1> QED BY <1>1, <1>2, <1>5, <1>6

\* Nobody formats a partition that somebody else has mapped, and on tidy disks
\* no label is written where a volume is.
LEMMA StaysStep ==
  ASSUME Typed, Typed', Control, Held, MappedVolumeStays, [Next]_vars
  PROVE  MappedVolumeStays'
<1>t. TypeOK /\ TypeOK' /\ Keyed
  BY DEF Typed
<1>c. content \in [Disks -> [Slots -> Content]]
  BY <1>t DEF TypeOK
<1>m. mapper \in [Disks -> [Slots -> Procs \cup {None, Leaked}]]
  BY <1>t DEF TypeOK
<1>n. None \notin Procs /\ Leaked \notin Procs
  BY HostAssumption
<1>d. \A p \in Procs : /\ Dev(p) \in Disks
                       /\ LabelDev(p) \in Slots /\ DataDev(p) \in Slots
  BY <1>t, DevType
<1>f. \A p \in Procs : LabelDev(p) = 1 /\ DataDev(p) = 2
  BY DEF Control, TidyView, LabelDev, DataDev
<1>1. ASSUME NEW p \in Procs, WriteLabel(p) PROVE MappedVolumeStays'
  <2>1. \A d \in Disks, s \in Slots : s # 1 => content'[d][s] = content[d][s]
    BY <1>1, <1>f, <1>c, <1>d, PointUpdate DEF WriteLabel
  <2>2. \A d \in Disks, s \in Slots, x \in Procs : mapper[d][s] = x => s = 2
    BY <1>f DEF Held
  <2>3. UNCHANGED <<mapper, job, found>>
    BY <1>1 DEF WriteLabel
  <2> QED BY <2>1, <2>2, <2>3, <1>t, StaysFrame
<1>2. ASSUME NEW p \in Procs, LuksFormat(p) PROVE MappedVolumeStays'
  <2>1. \/ content' = content
        \/ /\ mapper[Dev(p)][DataDev(p)] = None
           /\ \E c : content' = [content EXCEPT ![Dev(p)][DataDev(p)] = c]
    BY <1>2 DEF LuksFormat, Overwrite
  <2>2. \A d \in Disks, s \in Slots, x \in Procs :
          mapper[d][s] = x => content'[d][s] = content[d][s]
    BY <2>1, <1>c, <1>d, <1>n, PointUpdate
  <2>3. UNCHANGED <<mapper, job, found>>
    BY <1>2 DEF LuksFormat
  <2> QED BY <2>2, <2>3, <1>t, StaysFrame
<1>3. ASSUME NEW p \in Procs, Mkfs(p) PROVE MappedVolumeStays'
  <2>1. \/ content' = content
        \/ /\ mapper[Dev(p)][DataDev(p)] = None
           /\ \E c : content' = [content EXCEPT ![Dev(p)][DataDev(p)] = c]
        \/ /\ mapper[Dev(p)][DataDev(p)] = p
           /\ \E c : /\ content' = [content EXCEPT ![Dev(p)][DataDev(p)] = c]
                    /\ c.kind = "luks" /\ c.key = QueryOf(p).key
    <3>1. QueryOf(p).key # None =>
            /\ VolumeFor(QueryOf(p)).kind = "luks"
            /\ VolumeFor(QueryOf(p)).key = QueryOf(p).key
            /\ LuksFor(QueryOf(p)).kind = "luks"
            /\ LuksFor(QueryOf(p)).key = QueryOf(p).key
      BY DEF VolumeFor, LuksFor
    <3> QED BY <1>3, <3>1 DEF Mkfs, Overwrite
  <2>2. \A d \in Disks, s \in Slots, x \in Procs : mapper[d][s] = x =>
           \/ content'[d][s] = content[d][s]
           \/ /\ content'[d][s].kind = "luks"
              /\ content'[d][s].key = QueryOf(x).key
    BY <2>1, <1>c, <1>d, <1>n, PointUpdate
  <2>3. UNCHANGED <<mapper, job, found>>
    BY <1>3 DEF Mkfs
  <2> QED BY <2>2, <2>3, <1>t, StaysFrame
<1>4. ASSUME NEW p \in Procs, OpenForSetup(p) \/ OpenForMatch(p)
      PROVE  MappedVolumeStays'
  <2>1. UNCHANGED <<content, job, found>>
    BY <1>4 DEF OpenForSetup, OpenForMatch
  <2>2. \/ UNCHANGED mapper
        \/ /\ CanOpen(Dev(p), DataDev(p), QueryOf(p).key)
           /\ mapper' = [mapper EXCEPT ![Dev(p)][DataDev(p)] = p]
    BY <1>4 DEF OpenForSetup, OpenForMatch
  <2>3. \A d \in Disks, s \in Slots, x \in Procs : mapper'[d][s] = x =>
          \/ mapper[d][s] = x
          \/ x = p /\ CanOpen(Dev(p), DataDev(p), QueryOf(p).key)
    BY <2>2, <1>m, <1>d, PointUpdate
  <2> QED BY <2>1, <2>3, <1>t, DevType
          DEF MappedVolumeStays, CanOpen, Dev, DataDev, QueryOf
<1>5. ASSUME NEW p \in Procs,
             \/ Sgdisk(p) \/ Partprobe(p) \/ CheckNewDevice(p) \/ SyncLabel(p)
             \/ LookupDevice(p) \/ ReadLabel(p) \/ Probe(p) \/ Command(p)
      PROVE  MappedVolumeStays'
  <2>1. UNCHANGED <<content, mapper>>
    BY <1>5 DEF Sgdisk, Partprobe, CheckNewDevice, SyncLabel, LookupDevice,
       ReadLabel, Probe, Command, ForceInitDisk, Cancel, CheckVolumeQuery,
       Launch, diskVars
  <2>2. \A x \in Procs : x # p => job'[x] = job[x] /\ found'[x] = found[x]
    BY <1>5, <1>t DEF Sgdisk, Partprobe, CheckNewDevice, SyncLabel,
       LookupDevice, ReadLabel, Probe, Command, ForceInitDisk, Cancel,
       CheckVolumeQuery, Launch, GetDiskLabelAndVolumePath, TypeOK
  <2>3. \/ job'[p] = job[p] /\ found'[p] = found[p]
        \/ pc[p] \notin {"mkfs", "probe", "close"}
    BY <1>5 DEF Sgdisk, Partprobe, CheckNewDevice, SyncLabel, LookupDevice,
       ReadLabel, Probe, Command, ForceInitDisk, Cancel, CheckVolumeQuery,
       Launch
  <2> QED BY <2>1, <2>2, <2>3, <1>t, StaysFrame
<1>6. ASSUME NEW p \in Procs, Close(p) \/ Kill(p) PROVE MappedVolumeStays'
  <2>1. UNCHANGED <<content, job, found>>
    BY <1>6 DEF Close, Kill
  <2>2. \A d \in Disks, s \in Slots, x \in Procs :
          mapper'[d][s] = x => mapper[d][s] = x
    <3>1. \/ \E y \in {None, Leaked} :
               mapper' = [mapper EXCEPT ![Dev(p)][DataDev(p)] = y]
          \/ mapper' = [d \in Disks |-> [s \in Slots |->
               IF mapper[d][s] = p THEN Leaked ELSE mapper[d][s]]]
      BY <1>6 DEF Close, Kill
    <3> QED BY <3>1, <1>m, <1>d, <1>n, PointUpdate
  <2> QED BY <2>1, <2>2, <1>t, StaysFrame
<1>7. ASSUME NEW d \in Disks, NEW s \in Slots, UdevRefresh(d, s)
      PROVE  MappedVolumeStays'
  BY <1>7 DEF UdevRefresh, procVars, MappedVolumeStays, Dev, DataDev, QueryOf
<1>8. ASSUME PowerLoss PROVE MappedVolumeStays'
  <2>1. \A d \in Disks, s \in Slots : mapper'[d][s] \notin Procs
    BY <1>8, HostAssumption DEF PowerLoss
  <2>2. \A p \in Procs : Dev(p)' \in Disks /\ DataDev(p)' \in Slots
    BY <1>t, HostAssumption DEF TypeOK, Job, Dev, DataDev
  <2> QED BY <2>1, <2>2 DEF MappedVolumeStays
<1>9. ASSUME UNCHANGED vars PROVE MappedVolumeStays'
  BY <1>9 DEF vars, diskVars, procVars, MappedVolumeStays, Dev, DataDev, QueryOf
<1> QED
  BY <1>1, <1>2, <1>3, <1>4, <1>5, <1>6, <1>7, <1>8, <1>9
  DEF Next, Work, InitializeBlockDevice, VolumeQueryMatch

\* On tidy disks a command that holds a mapping can rely on what is behind it,
\* whatever the other processes, udevd and power losses do.
THEOREM VolumeStays == ASSUME TidyDisks PROVE Spec => []MappedVolumeStays
<1> DEFINE J == IInv /\ Held /\ Holds /\ MappedVolumeStays
<1>1. Init => J
  BY TypedInit, ControlInit, OwnedInit, HeldInit, StaysInit DEF IInv, Typed
<1>2. J /\ [Next]_vars => J'
  <2> SUFFICES ASSUME J, [Next]_vars PROVE J'
    OBVIOUS
  <2>1. Typed /\ Typed' /\ Control'  /\ Owned'
    BY TypedStep, ControlStep, OwnedStep DEF IInv, Typed
  <2>2. Held' /\ Holds'
    BY <2>1, HeldStep
  <2>3. MappedVolumeStays'
    BY <2>1, StaysStep DEF IInv
  <2> QED BY <2>1, <2>2, <2>3 DEF IInv, Typed
<1>3. J => MappedVolumeStays
  OBVIOUS
<1> QED BY <1>1, <1>2, <1>3, PTL DEF Spec

-------------------------------------------------------------------------------
(* What a query has found out at each step, as long as no initialization     *)
(* touches its disk.                                                         *)

\* The label of the disk satisfies the query of p.
LabelFits(p) ==
  LET j == job[p]
      q == QueryOf(p)
      l == content[Dev(p)][LabelDev(p)] IN
  /\ l.kind = "label"
  /\ q.label # None => l.label = q.label
  /\ q.ownHostname  => l.host = j.host
  /\ q.ownMachineId => l.machine = j.machine

\* The volume of the disk opens with the key of p's query.
KeyFits(p) ==
  LET v == content[Dev(p)][DataDev(p)] IN
  QueryOf(p).key # None => v.kind = "luks" /\ v.key = QueryOf(p).key

\* What p can rely on where it is, in the order in which it found it out.
Found(p) ==
  /\ steady[p] /\ pc[p] \in {"unlock", "probe"} => LabelFits(p)
  /\ steady[p] /\ pc[p] = "probe" => KeyFits(p)

Findings == \A p \in Procs : Found(p)

\* A process that a step leaves alone, and whose disk it leaves alone unless
\* it says so in steady, can rely on what it has found.
LEMMA FoundFrame ==
  ASSUME TypeOK, NEW x \in Procs, Found(x),
         pc'[x] = pc[x], job'[x] = job[x],
         found'[x] = found[x], steady'[x] => steady[x],
         steady'[x] => content'[Dev(x)] = content[Dev(x)]
  PROVE  Found(x)'
<1>1. /\ Dev(x)' = Dev(x) /\ QueryOf(x)' = QueryOf(x)
      /\ LabelDev(x)' = LabelDev(x) /\ DataDev(x)' = DataDev(x)
  BY DEF Dev, QueryOf, LabelDev, DataDev
<1>2. steady'[x] => /\ LabelFits(x)' = LabelFits(x)
                    /\ KeyFits(x)' = KeyFits(x)
  BY <1>1 DEF LabelFits, KeyFits
<1> QED BY <1>1, <1>2 DEF Found

\* A process that is not in the middle of a query.
LEMMA FoundNothing ==
  ASSUME NEW p \in Procs, pc'[p] \notin {"unlock", "probe"}
  PROVE  Found(p)'
BY DEF Found

\* No query has found anything at first.
LEMMA FoundInit == Init => Findings
BY DEF Init, Findings, Found

\* The steps of an initialization.
LEMMA FoundInSetup ==
  ASSUME TypeOK, Findings, NEW p \in Procs, InitializeBlockDevice(p)
  PROVE  Findings'
<1>c. content \in [Disks -> [Slots -> Content]]
  BY DEF TypeOK
<1>1. /\ UNCHANGED job
      /\ \A x \in Procs : x # p => found'[x] = found[x]
  BY DEF InitializeBlockDevice, Sgdisk, Partprobe, CheckNewDevice, WriteLabel,
     SyncLabel, LuksFormat, OpenForSetup, Mkfs, GetDiskLabelAndVolumePath,
     TypeOK
<1>2. /\ \A x \in Procs : x # p => pc'[x] = pc[x]
      /\ pc'[p] \notin {"unlock", "probe"}
  BY <1>1 DEF InitializeBlockDevice, Sgdisk, Partprobe, CheckNewDevice,
     WriteLabel, SyncLabel, LuksFormat, OpenForSetup, Mkfs, FinishSetup, Goto,
     Return, GetDiskLabelAndVolumePath, TypeOK
<1>3. \/ Disturb(p)
      \/ UNCHANGED <<steady, content>>
  BY DEF InitializeBlockDevice, Sgdisk, Partprobe, CheckNewDevice, WriteLabel,
     SyncLabel, LuksFormat, OpenForSetup, Mkfs, Claim, MarkFormatted, diskVars,
     ghostVars
<1>4. \/ UNCHANGED content
      \/ \E s, c : content' = [content EXCEPT ![Dev(p)][s] = c]
  BY DEF InitializeBlockDevice, Sgdisk, Partprobe, CheckNewDevice, WriteLabel,
     SyncLabel, LuksFormat, OpenForSetup, Mkfs, Overwrite, diskVars
<1>5. \A e \in Disks : e # Dev(p) => content'[e] = content[e]
  BY <1>4, <1>c
<1>6. \A x \in Procs : x # p =>
        /\ steady'[x] => steady[x]
        /\ steady'[x] => content'[Dev(x)] = content[Dev(x)]
  <2>1. CASE Disturb(p)
    BY <2>1, <1>5, DevType DEF Disturb, Dev, TypeOK
  <2>2. CASE UNCHANGED <<steady, content>>
    BY <2>2
  <2> QED BY <1>3, <2>1, <2>2
<1>7. \A x \in Procs : x # p => Found(x)'
  BY <1>1, <1>2, <1>6, FoundFrame DEF Findings
<1>8. Found(p)'
  BY <1>2, FoundNothing
<1> QED BY <1>7, <1>8 DEF Findings

\* The steps of a query.
LEMMA FoundInMatch ==
  ASSUME TypeOK, Findings, NEW p \in Procs, VolumeQueryMatch(p)
  PROVE  Findings'
<1>1. /\ UNCHANGED <<content, job>>
      /\ \A x \in Procs : x # p => /\ pc'[x] = pc[x] /\ found'[x] = found[x]
                                   /\ steady'[x] = steady[x]
  BY DEF VolumeQueryMatch, LookupDevice, ReadLabel, Rely, OpenForMatch, Probe,
     FinishMatch, Goto, Return, GetDiskLabelAndVolumePath, diskVars, ghostVars,
     TypeOK
<1>2. \A x \in Procs : x # p => Found(x)'
  BY <1>1, FoundFrame DEF Findings
<1>3. ASSUME LookupDevice(p) PROVE Found(p)'
  BY <1>1, <1>3, FoundNothing
  DEF LookupDevice, GetDiskLabelAndVolumePath, Goto, Return, TypeOK
<1>4. ASSUME UNCHANGED found
      PROVE  LabelFits(p)' = LabelFits(p) /\ KeyFits(p)' = KeyFits(p)
  BY <1>1, <1>4 DEF Dev, QueryOf, LabelDev, DataDev, LabelFits, KeyFits
<1>5. ASSUME ReadLabel(p) PROVE Found(p)'
  <2>1. \/ pc'[p] = "idle"
        \/ /\ pc'[p] = IF QueryOf(p).key = None THEN "probe" ELSE "unlock"
           /\ content[Dev(p)][LabelDev(p)].kind = "label"
           /\ LabelAgrees(job[p], content[Dev(p)][LabelDev(p)])
    BY <1>1, <1>5 DEF ReadLabel, Goto, Return, TypeOK
  <2>2. CASE pc'[p] = "idle"
    BY <2>2, FoundNothing
  <2>3. CASE pc'[p] # "idle"
    <3>1. LabelFits(p)
      BY <2>1, <2>3 DEF LabelAgrees, LabelFits, QueryOf
    <3>2. pc'[p] = "probe" => KeyFits(p)
      BY <2>1, <2>3 DEF KeyFits
    <3> QED BY <1>4, <1>5, <3>1, <3>2 DEF ReadLabel, Found
  <2> QED BY <2>2, <2>3
<1>6. ASSUME OpenForMatch(p) PROVE Found(p)'
  <2>1. \/ pc'[p] = "idle"
        \/ /\ pc'[p] = "probe" /\ pc[p] = "unlock"
           /\ CanOpen(Dev(p), DataDev(p), QueryOf(p).key)
    BY <1>1, <1>6 DEF OpenForMatch, Goto, Return, TypeOK
  <2>2. CASE pc'[p] = "idle"
    BY <2>2, FoundNothing
  <2>3. CASE pc'[p] # "idle"
    <3>1. KeyFits(p)
      BY <2>1, <2>3 DEF CanOpen, KeyFits
    <3>2. steady[p] => LabelFits(p)
      BY <2>1, <2>3 DEF Findings, Found
    <3> QED BY <1>4, <1>6, <3>1, <3>2 DEF OpenForMatch, ghostVars, Found
  <2> QED BY <2>2, <2>3
<1>7. ASSUME Probe(p) PROVE Found(p)'
  BY <1>7, FoundNothing DEF Probe, FinishMatch, TypeOK
<1> QED BY <1>2, <1>3, <1>5, <1>6, <1>7 DEF VolumeQueryMatch, Findings

\* Every step of the host.
LEMMA FoundStep == ASSUME TypeOK, Findings, [Next]_vars PROVE Findings'
<1>1. ASSUME NEW p \in Procs, Command(p) PROVE Findings'
  <2>1. /\ UNCHANGED content
        /\ \A x \in Procs : x # p =>
             /\ pc'[x] = pc[x] /\ job'[x] = job[x]
             /\ found'[x] = found[x] /\ steady'[x] = steady[x]
        /\ pc'[p] \in {"sgdisk", "idle", "lookup"}
    BY <1>1 DEF Command, ForceInitDisk, Cancel, CheckVolumeQuery, Launch,
       diskVars, TypeOK
  <2>2. \A x \in Procs : x # p => Found(x)'
    BY <2>1, FoundFrame DEF Findings
  <2>3. Found(p)'
    BY <2>1, FoundNothing
  <2> QED BY <2>2, <2>3 DEF Findings
<1>2. ASSUME NEW p \in Procs, Close(p) \/ Kill(p) PROVE Findings'
  <2>1. /\ UNCHANGED <<content, job, found, steady>>
        /\ \A x \in Procs : x # p => pc'[x] = pc[x]
        /\ pc'[p] = "idle"
    BY <1>2 DEF Close, Kill, Goto, Return, ghostVars, TypeOK
  <2>2. \A x \in Procs : x # p => Found(x)'
    BY <2>1, FoundFrame DEF Findings
  <2>3. Found(p)'
    BY <2>1, FoundNothing
  <2> QED BY <2>2, <2>3 DEF Findings
<1>3. ASSUME NEW d \in Disks, NEW s \in Slots, UdevRefresh(d, s)
      PROVE  Findings'
  BY <1>3, FoundFrame DEF UdevRefresh, procVars, ghostVars, Findings
<1>4. ASSUME PowerLoss PROVE Findings'
  BY <1>4 DEF PowerLoss, Findings, Found
<1>5. ASSUME UNCHANGED vars PROVE Findings'
  BY <1>5, FoundFrame DEF vars, diskVars, procVars, ghostVars, Findings
<1> QED
  BY <1>1, <1>2, <1>3, <1>4, <1>5, FoundInSetup, FoundInMatch DEF Next, Work

\* A match is reported by the last step of a query, about an opened context
\* that agrees with it.
LEMMA MatchIsProbed ==
  ASSUME TypeOK, [Next]_vars, NEW p \in Procs,
         result[p] # "match", result'[p] = "match"
  PROVE  Probe(p) /\ ContextAgrees(p)
<1>1. ASSUME NEW x \in Procs,
             \/ Command(x) \/ InitializeBlockDevice(x) \/ LookupDevice(x)
             \/ ReadLabel(x) \/ OpenForMatch(x) \/ Close(x) \/ Kill(x)
      PROVE  result'[p] # "match"
  BY <1>1 DEF TypeOK, Command, ForceInitDisk, Cancel, CheckVolumeQuery, Launch,
     InitializeBlockDevice, Sgdisk, Partprobe, CheckNewDevice, WriteLabel,
     SyncLabel, LuksFormat, OpenForSetup, Mkfs, FinishSetup, LookupDevice,
     ReadLabel, OpenForMatch, Close, Kill, GetDiskLabelAndVolumePath, Goto,
     Return
<1>2. ASSUME NEW x \in Procs, Probe(x)
      PROVE  x = p /\ ContextAgrees(p)
  BY <1>2 DEF Probe, FinishMatch, TypeOK
<1>3. ASSUME NEW d \in Disks, NEW s \in Slots, UdevRefresh(d, s) PROVE FALSE
  BY <1>3 DEF UdevRefresh, procVars
<1>4. ASSUME PowerLoss PROVE FALSE
  BY <1>4 DEF PowerLoss
<1>5. ASSUME UNCHANGED vars PROVE FALSE
  BY <1>5 DEF vars, procVars
<1> QED
  BY <1>1, <1>2, <1>3, <1>4, <1>5 DEF Next, Work, VolumeQueryMatch

\* What the probe has just compared, with what was found out before it.
LEMMA ProbedAnswers ==
  ASSUME TypeOK, NEW p \in Procs, Probe(p), ContextAgrees(p),
         LabelFits(p), KeyFits(p)
  PROVE  Answers(p)
<1> DEFINE q == QueryOf(p)
           v == content[Dev(p)][DataDev(p)]
           u == udev[Dev(p)][DataDev(p)]
<1>1. /\ Dev(p) \in Disks /\ DataDev(p) \in Slots /\ v \in Content
      /\ q.fs \in FSTypes \cup {None}
  BY DevType, HostAssumption DEF TypeOK, Dev, DataDev, QueryOf, Job, Query
<1>2. q.key # None /\ q.fs # None => v.fs = q.fs
  BY DEF ContextAgrees, ContextType
<1>3. ASSUME q.key = None, q.fs # None, u = UdevTruth(Dev(p), DataDev(p))
      PROVE  v.kind = "plain" /\ v.fs = q.fs
  <2>1. u.type = q.fs
    BY <1>3 DEF ContextAgrees, ContextType
  <2>2. Signature(v) = q.fs
    BY <2>1, <1>3 DEF UdevTruth, Probed
  <2> QED BY <2>2, <1>1, <1>3, HostAssumption DEF Signature
<1> QED BY <1>2, <1>3 DEF Answers, LabelFits, KeyFits, ContextAgrees, SizeAgrees

\* When a match is reported, label, key, size and filesystem are what the
\* query asks for, unless an initialization has touched the disk after its
\* label was read, and but for the filesystem of a plain volume whose udev
\* record is late: the time between the reads makes nothing else wrong.
THEOREM MatchIsSound == Spec => MatchSound
<1>1. Init => Typed /\ Findings
  BY TypedInit, FoundInit
<1>2. Typed /\ Findings /\ [Next]_vars => (Typed /\ Findings)'
  BY TypedStep, FoundStep DEF Typed
<1> DEFINE Step == \A p \in Procs :
       result[p] # "match" /\ result'[p] = "match" /\ steady[p] => Answers(p)
<1>3. Typed /\ Findings /\ [Next]_vars => [Step]_vars
  <2> SUFFICES ASSUME Typed, Findings, [Next]_vars, NEW p \in Procs,
                      result[p] # "match", result'[p] = "match", steady[p]
               PROVE  Answers(p)
    OBVIOUS
  <2>1. Probe(p) /\ ContextAgrees(p)
    BY MatchIsProbed DEF Typed
  <2>2. LabelFits(p) /\ KeyFits(p)
    BY <2>1 DEF Probe, Findings, Found
  <2> QED BY <2>1, <2>2, ProbedAnswers DEF Typed
<1>4. (Spec => [][Step]_vars) => (Spec => MatchSound)
  BY DEF MatchSound
<1> QED BY <1>1, <1>2, <1>3, <1>4, PTL DEF Spec

-------------------------------------------------------------------------------
(* What was made is found.                                                   *)

\* The kernel exposes the partitions of the table: to whoever initializes a
\* disk alone, from its partprobe on, and as long as its success stands.
KernelKnows ==
  /\ \A p \in Procs, d \in Disks :
       Initializing(p, d) /\ ~ledger[d].mixed /\ pc[p] # "partprobe" =>
         kernel[d] = SlotsOf(table[d])
  /\ \A p \in Procs :
       LET c == ledger[Dev(p)] IN
       result[p] = "ok" /\ c.by = p /\ ~c.mixed =>
         kernel[Dev(p)] = SlotsOf(table[Dev(p)])

\* A step that writes no partition table, and that begins or reports nothing
\* which the kernel does not know of.
LEMMA KnowsFrame ==
  ASSUME TypeOK, KernelKnows, UNCHANGED table,
         \A d \in Disks : /\ ledger'[d].by = ledger[d].by
                          /\ ledger'[d].mixed = ledger[d].mixed,
         \A d \in Disks :
           kernel'[d] = kernel[d] \/ kernel'[d] = SlotsOf(table[d]),
         \A x \in Procs, d \in Disks :
           Initializing(x, d)' /\ pc'[x] # "partprobe" =>
             \/ Initializing(x, d) /\ pc[x] # "partprobe"
             \/ kernel'[d] = SlotsOf(table[d]),
         \A x \in Procs : result'[x] = "ok" =>
           /\ job'[x] = job[x]
           /\ \/ result[x] = "ok"
              \/ Initializing(x, Dev(x)) /\ pc[x] # "partprobe"
  PROVE  KernelKnows'
<1>1. ASSUME NEW x \in Procs, NEW d \in Disks,
             Initializing(x, d)', ~ledger'[d].mixed, pc'[x] # "partprobe"
      PROVE  kernel'[d] = SlotsOf(table'[d])
  BY <1>1 DEF KernelKnows
<1>2. ASSUME NEW x \in Procs, result'[x] = "ok", ledger'[Dev(x)'].by = x,
             ~ledger'[Dev(x)'].mixed
      PROVE  kernel'[Dev(x)'] = SlotsOf(table'[Dev(x)'])
  <2>1. Dev(x)' = Dev(x) /\ Dev(x) \in Disks
    BY <1>2, DevType DEF Dev
  <2>2. kernel[Dev(x)] = SlotsOf(table[Dev(x)])
    BY <1>2, <2>1 DEF KernelKnows
  <2> QED BY <2>1, <2>2
<1> QED BY <1>1, <1>2 DEF KernelKnows

\* Nobody has begun anything at first.
LEMMA KnowsInit == Init => KernelKnows
BY DEF Init, KernelKnows, Initializing, InitSteps

\* Claiming a disk: the kernel has yet to learn of the new table, and nobody
\* else can count on what it knew.
LEMMA SgdiskKnows ==
  ASSUME TypeOK, Control, KernelKnows, NEW p \in Procs, Sgdisk(p)
  PROVE  KernelKnows'
<1> DEFINE d == Dev(p)
<1>1. /\ d \in Disks /\ d = job[p].disk /\ UNCHANGED <<kernel, job>>
      /\ \A x \in Procs : x # p => pc'[x] = pc[x] /\ result'[x] = result[x]
      /\ pc'[p] \in {"partprobe", "idle"}
  BY DevType DEF Sgdisk, Goto, Return, Dev, TypeOK
<1>2. \A e \in Disks : e # d => ledger'[e] = ledger[e] /\ table'[e] = table[e]
  BY <1>1 DEF Sgdisk, Claim, TypeOK
<1>3. /\ ledger'[d].by = p
      /\ ledger'[d].mixed <=> \E x \in Procs \ {p} : Initializing(x, d)
  BY <1>1 DEF Sgdisk, Claim, TypeOK
<1>4. ASSUME NEW x \in Procs, NEW e \in Disks,
             Initializing(x, e)', ~ledger'[e].mixed, pc'[x] # "partprobe"
      PROVE  kernel'[e] = SlotsOf(table'[e])
  <2>1. x # p /\ Initializing(x, e)
    BY <1>1, <1>4 DEF Initializing, InitSteps
  <2>2. e # d
    BY <2>1, <1>3, <1>4
  <2> QED BY <2>1, <2>2, <1>1, <1>2, <1>4 DEF KernelKnows
<1>5. ASSUME NEW x \in Procs, result'[x] = "ok", ledger'[Dev(x)].by = x,
             ~ledger'[Dev(x)].mixed
      PROVE  kernel'[Dev(x)] = SlotsOf(table'[Dev(x)])
  <2>1. Dev(x) \in Disks
    BY DevType
  <2>2. CASE Dev(x) = d
    <3>1. x = p
      BY <2>2, <1>3, <1>5
    <3>2. result'[p] # "ok"
      BY DEF Sgdisk, Goto, Return, TypeOK, Control, DoneIsOver
    <3> QED BY <3>1, <3>2, <1>5
  <2>3. CASE Dev(x) # d
    BY <2>1, <2>3, <1>1, <1>2, <1>5 DEF KernelKnows
  <2> QED BY <2>2, <2>3
<1>6. \A x \in Procs : Dev(x)' = Dev(x)
  BY <1>1 DEF Dev
<1> QED BY <1>4, <1>5, <1>6 DEF KernelKnows

\* Every step of the host.
LEMMA KnowsStep ==
  ASSUME Typed, Control, KernelKnows, [Next]_vars PROVE KernelKnows'
<1>t. TypeOK
  BY DEF Typed
<1>d. \A x \in Procs : Dev(x) \in Disks
  BY <1>t, DevType
<1>1. ASSUME NEW p \in Procs, Partprobe(p) PROVE KernelKnows'
  <2>1. /\ UNCHANGED <<table, ledger, job>>
        /\ \A x \in Procs : x # p => pc'[x] = pc[x] /\ result'[x] = result[x]
        /\ pc'[p] \in {"check", "idle"}
        /\ result'[p] = "ok" => result[p] = "ok"
    BY <1>1, <1>t DEF Partprobe, Goto, Return, ghostVars, TypeOK
  <2>2. /\ \A e \in Disks :
             kernel'[e] = kernel[e] \/ kernel'[e] = SlotsOf(table[e])
        /\ pc'[p] = "check" => kernel'[Dev(p)] = SlotsOf(table[Dev(p)])
    BY <1>1, <1>t, <1>d DEF Partprobe, Goto, Return, TypeOK
  <2>3. \A x \in Procs, d \in Disks :
          Initializing(x, d)' /\ pc'[x] # "partprobe" =>
            \/ Initializing(x, d) /\ pc[x] # "partprobe"
            \/ kernel'[d] = SlotsOf(table[d])
    BY <2>1, <2>2 DEF Initializing, InitSteps, Dev
  <2> QED BY <2>1, <2>2, <2>3, <1>t, KnowsFrame
<1>2. ASSUME NEW p \in Procs,
             \/ CheckNewDevice(p) \/ WriteLabel(p) \/ SyncLabel(p)
             \/ LuksFormat(p) \/ OpenForSetup(p) \/ Mkfs(p)
             \/ VolumeQueryMatch(p) \/ Close(p) \/ Kill(p)
      PROVE  KernelKnows'
  <2>1. UNCHANGED <<table, kernel, job>>
    BY <1>2 DEF CheckNewDevice, WriteLabel, SyncLabel, LuksFormat,
       OpenForSetup, Mkfs, VolumeQueryMatch, LookupDevice, ReadLabel,
       OpenForMatch, Probe, Close, Kill, diskVars
  <2>2. UNCHANGED ledger \/ MarkFormatted(p)
    BY <1>2 DEF CheckNewDevice, WriteLabel, SyncLabel, LuksFormat,
       OpenForSetup, Mkfs, VolumeQueryMatch, LookupDevice, ReadLabel,
       Rely, OpenForMatch, Probe, Close, Kill, ghostVars
  <2>3. \A e \in Disks : /\ ledger'[e].by = ledger[e].by
                         /\ ledger'[e].mixed = ledger[e].mixed
    <3>1. ledger \in [Disks -> Claims]
      BY <1>t DEF TypeOK
    <3>2. CASE MarkFormatted(p)
      BY <3>1, <3>2, <1>d DEF MarkFormatted
    <3> QED BY <2>2, <3>2
  <2>4. /\ \A x \in Procs : x # p => pc'[x] = pc[x] /\ result'[x] = result[x]
        /\ \/ pc'[p] \notin InitSteps
           \/ /\ pc[p] \in InitSteps /\ pc[p] # "partprobe"
           \/ job[p].op = "query-device"
        /\ \/ result'[p] # "ok" \/ result[p] = "ok"
           \/ pc[p] = "mkfs"
    <3>1. ASSUME VolumeQueryMatch(p)
          PROVE  job[p].op = "query-device"
      BY <3>1 DEF VolumeQueryMatch, LookupDevice, ReadLabel, OpenForMatch,
         Probe, Control, CommandFits
    <3> QED BY <1>2, <1>t, <3>1
            DEF CheckNewDevice, WriteLabel, SyncLabel, LuksFormat,
            OpenForSetup, Mkfs, FinishSetup, VolumeQueryMatch, LookupDevice,
            ReadLabel, OpenForMatch, Probe, FinishMatch, Close, Kill,
            GetDiskLabelAndVolumePath, Goto, Return, InitSteps, TypeOK
  <2>5. \A x \in Procs, d \in Disks :
          Initializing(x, d)' /\ pc'[x] # "partprobe" =>
            Initializing(x, d) /\ pc[x] # "partprobe"
    BY <2>1, <2>4 DEF Initializing
  <2>6. \A x \in Procs : result'[x] = "ok" =>
          \/ result[x] = "ok"
          \/ Initializing(x, Dev(x)) /\ pc[x] # "partprobe"
    BY <2>4 DEF Initializing, InitSteps, Dev, Control, CommandFits
  <2> QED BY <2>1, <2>3, <2>5, <2>6, <1>t, KnowsFrame
<1>3. ASSUME NEW p \in Procs, Command(p) PROVE KernelKnows'
  <2>1. /\ UNCHANGED <<table, kernel, ledger>>
        /\ \A x \in Procs : x # p => /\ pc'[x] = pc[x] /\ job'[x] = job[x]
                                   /\ result'[x] = result[x]
        /\ pc'[p] \in {"sgdisk", "lookup", "idle"} /\ result'[p] # "ok"
    BY <1>3, <1>t DEF Command, ForceInitDisk, Cancel, CheckVolumeQuery, Launch,
       diskVars, TypeOK
  <2>2. \A x \in Procs, d \in Disks :
          Initializing(x, d)' => x # p /\ Initializing(x, d)
    BY <2>1 DEF Initializing, InitSteps
  <2> QED BY <2>1, <2>2, <1>t, KnowsFrame
<1>4. ASSUME NEW d \in Disks, NEW s \in Slots, UdevRefresh(d, s)
      PROVE  KernelKnows'
  BY <1>4 DEF UdevRefresh, procVars, ghostVars, KernelKnows, Initializing, Dev
<1>5. ASSUME PowerLoss PROVE KernelKnows'
  <2>1. \A d \in Disks : kernel'[d] = SlotsOf(table'[d])
    BY <1>5 DEF PowerLoss
  <2>2. \A p \in Procs : Dev(p)' \in Disks
    BY <1>5, <1>d DEF PowerLoss, Dev
  <2> QED BY <2>1, <2>2 DEF KernelKnows
<1>6. ASSUME UNCHANGED vars PROVE KernelKnows'
  BY <1>6 DEF vars, diskVars, procVars, ghostVars, KernelKnows, Initializing, Dev
<1> QED
  BY <1>1, <1>2, <1>3, <1>4, <1>5, <1>6, <1>t, SgdiskKnows
  DEF Next, Work, InitializeBlockDevice

\* The step that the property is about: a query of a disk that was made for it
\* moves, without a failure, with udev up to date, the volume free, and a size
\* within the limits.
Undisturbed(p) ==
  /\ pc[p] \in {"lookup", "read", "unlock", "probe"}
  /\ MadeFor(job[p]) /\ UNCHANGED faults
  /\ \A s \in Slots : udev[Dev(p)][s] = UdevTruth(Dev(p), s)
  /\ \A s \in Slots : mapper[Dev(p)][s] \in {None, p}
  /\ SizeAgrees(QueryOf(p), Sectors[Dev(p)])

\* A disk that was made for p's query: what is on it, with what the kernel
\* exposes of it, by the terms of the query.
Made(p, d) ==
  /\ kernel[d] = {1, 2} /\ table[d] = SimpleTable
  /\ content[d][1].kind = "label"
  /\ LabelAgrees(job[p], content[d][1])
  /\ content[d][2] = VolumeFor(QueryOf(p))

\* The initializer's query is the one that is asked.
LEMMA ServesSame ==
  ASSUME NEW i \in Job, NEW j \in Job, Serves(i, j)
  PROVE  /\ i.query.label = j.query.label /\ i.query.key = j.query.key
         /\ i.query.fs = j.query.fs
<1>1. i.query \in Query /\ j.query \in Query
  BY DEF Job
<1>2. \A q \in Query, f \in {"label", "key", "fs"} :
        [q EXCEPT !.ownHostname = TRUE, !.ownMachineId = TRUE][f] = q[f]
  BY DEF Query
<1> QED BY <1>1, <1>2 DEF Serves

\* What an initialization reported as done has left.
LEMMA MadeIsMade ==
  ASSUME IInv, KernelKnows, NEW p \in Procs, MadeFor(job[p])
  PROVE  Made(p, Dev(p))
<1> DEFINE d == Dev(p)
<1>1. PICK m \in Procs :
        /\ result[m] = "ok" /\ ledger[d].by = m /\ ~ledger[d].mixed
        /\ Serves(job[m], job[p])
  BY DEF MadeFor, Dev
<1>2. /\ job[m] \in Job /\ job[p] \in Job /\ Dev(m) = d /\ d \in Disks
  BY <1>1, DevType, HostAssumption DEF IInv, TypeOK, Serves, Dev
<1>3. Provisioned(d, job[m]) /\ kernel[d] = SlotsOf(table[d])
  BY <1>1, <1>2 DEF IInv, Owned, ReadyWhenDone, KernelKnows
<1>4. SlotsOf(SimpleTable) = {1, 2}
  BY HostAssumption DEF SlotsOf, SimpleTable
<1>5. /\ job[m].query.label = job[p].query.label
      /\ job[m].query.key = job[p].query.key
      /\ job[m].query.fs = job[p].query.fs
      /\ job[m].host = job[p].host /\ job[m].machine = job[p].machine
  BY <1>1, <1>2, ServesSame DEF Serves
<1>6. content[d][1].kind = "label" /\ LabelAgrees(job[p], content[d][1])
  <2>1. content[d][1] = LabelFor(job[m])
    BY <1>3 DEF Provisioned
  <2>2. /\ LabelFor(job[m]).kind = "label"
        /\ LabelFor(job[m]).label = job[p].query.label
        /\ LabelFor(job[m]).host = job[p].host
        /\ LabelFor(job[m]).machine = job[p].machine
        /\ job[p].query.key # None => LabelFor(job[m]).encrypted
    BY <1>5 DEF LabelFor
  <2> QED BY <2>1, <2>2 DEF LabelAgrees
<1>7. VolumeFor(job[m].query) = VolumeFor(job[p].query)
  BY <1>5 DEF VolumeFor
<1> QED BY <1>3, <1>4, <1>6, <1>7 DEF Provisioned, Made, QueryOf

\* No step of such a query gives up: each finds what the initialization left.
LEMMA QueryGoesOn ==
  ASSUME IInv, Held, NEW p \in Procs, Undisturbed(p), Made(p, Dev(p)),
         VolumeQueryMatch(p)
  PROVE  result'[p] \in {result[p], "match"}
<1> DEFINE d == Dev(p)
<1>1. TypeOK /\ Keyed /\ LabelDev(p) = 1 /\ DataDev(p) = 2 /\ d \in Disks
  BY DevType DEF IInv, Control, TidyView, LabelDev, DataDev
<1>2. faults \in Nat /\ faults' = faults /\ ~Fault
  BY <1>1, HostAssumption DEF Undisturbed, TypeOK, Fault
<1>3. /\ kernel[d] = {1, 2} /\ table[d][1] = "meta" /\ table[d][2] = "other"
      /\ content[d][1].kind = "label" /\ LabelAgrees(job[p], content[d][1])
      /\ content[d][2] = VolumeFor(QueryOf(p))
      /\ 1 \in Slots /\ 2 \in Slots
  BY HostAssumption DEF Made, SimpleTable
<1>4. ASSUME LookupDevice(p) PROVE result'[p] = result[p]
  <2>1. /\ udev[d][1].part = "meta" /\ udev[d][2].part = "other"
        /\ \A s \in Slots : s \notin {1, 2} => udev[d][s].part = "none"
    <3>1. \A s \in Slots : udev[d][s].part =
            IF s \in kernel[d] THEN table[d][s] ELSE "none"
      <4> SUFFICES ASSUME NEW s \in Slots
          PROVE  udev[d][s].part = IF s \in kernel[d] THEN table[d][s] ELSE "none"
        OBVIOUS
      <4>1. udev[d][s] = Probed(table[d], kernel[d], content[d], s)
        BY DEF Undisturbed, UdevTruth
      <4>2. CASE s \in kernel[d]
        BY <4>1, <4>2 DEF Probed
      <4>3. CASE s \notin kernel[d]
        BY <4>1, <4>3 DEF Probed
      <4> QED BY <4>2, <4>3
    <3> QED BY <3>1, <1>3
  <2>2. Initialized(d, 1, 2)
    BY <1>3, <2>1 DEF Initialized
  <2> QED BY <1>2, <1>3, <1>4, <2>2
          DEF LookupDevice, GetDiskLabelAndVolumePath, Goto
<1>5. ASSUME ReadLabel(p) PROVE result'[p] = result[p]
  BY <1>1, <1>2, <1>3, <1>5 DEF ReadLabel, Goto
<1>6. ASSUME OpenForMatch(p) PROVE result'[p] = result[p]
  <2>1. pc[p] = "unlock" /\ QueryOf(p).key # None
    BY <1>1, <1>6 DEF OpenForMatch, Keyed
  <2>2. mapper[d][2] = None
    BY <1>1, <1>3, <2>1 DEF Undisturbed, Held
  <2>3. content[d][2].kind = "luks" /\ content[d][2].key = QueryOf(p).key
    BY <1>3, <2>1 DEF VolumeFor
  <2>4. CanOpen(d, 2, QueryOf(p).key)
    BY <1>3, <2>2, <2>3 DEF CanOpen
  <2> QED BY <1>1, <1>2, <1>6, <2>4 DEF OpenForMatch, Goto
<1>7. ASSUME Probe(p) PROVE result'[p] = "match"
  <2>1. udev[d][2] = [part |-> "other", type |-> Signature(content[d][2])]
    BY <1>3 DEF Undisturbed, UdevTruth, Probed
  <2>2. ContextType(p) = QueryOf(p).fs
    BY <1>1, <1>3, <2>1 DEF ContextType, Signature, VolumeFor
  <2>3. ContextAgrees(p)
    BY <2>2 DEF ContextAgrees, Undisturbed
  <2>4. udev[d][2].part # "none"
    BY <2>1
  <2> QED BY <1>1, <1>2, <1>7, <2>3, <2>4 DEF Probe, FinishMatch, TypeOK
<1> QED BY <1>4, <1>5, <1>6, <1>7 DEF VolumeQueryMatch

\* Whatever else the host does, it does not end p's query.
LEMMA OthersLeaveQuery ==
  ASSUME TypeOK, NEW p \in Procs, Undisturbed(p), [Next]_vars,
         ~VolumeQueryMatch(p)
  PROVE  result'[p] = result[p]
<1>1. faults' = faults /\ ~Fault
  BY HostAssumption DEF Undisturbed, TypeOK, Fault
<1>2. pc[p] \in {"lookup", "read", "unlock", "probe"}
  BY DEF Undisturbed
<1>3. ASSUME NEW x \in Procs, x # p, Command(x) \/ Work(x) \/ Kill(x)
      PROVE  result'[p] = result[p]
  BY <1>3 DEF TypeOK, Command, ForceInitDisk, Cancel, CheckVolumeQuery, Launch,
     Work, InitializeBlockDevice, Sgdisk, Partprobe, CheckNewDevice,
     WriteLabel, SyncLabel, LuksFormat, OpenForSetup, Mkfs, FinishSetup,
     VolumeQueryMatch, LookupDevice, ReadLabel, OpenForMatch, Probe,
     FinishMatch, Close, Kill, GetDiskLabelAndVolumePath, Goto, Return
<1>4. ~Command(p) /\ ~InitializeBlockDevice(p) /\ ~Close(p)
  BY <1>2 DEF Command, ForceInitDisk, Cancel, CheckVolumeQuery, Launch,
     InitializeBlockDevice, Sgdisk, Partprobe, CheckNewDevice, WriteLabel,
     SyncLabel, LuksFormat, OpenForSetup, Mkfs, Close
<1>5. ~Kill(p) /\ ~PowerLoss
  BY <1>1 DEF Kill, PowerLoss
<1>6. ASSUME NEW d \in Disks, NEW s \in Slots, UdevRefresh(d, s)
      PROVE  result'[p] = result[p]
  BY <1>6 DEF UdevRefresh, procVars
<1>7. ASSUME UNCHANGED vars PROVE result'[p] = result[p]
  BY <1>7 DEF vars, procVars
<1> QED BY <1>3, <1>4, <1>5, <1>6, <1>7 DEF Next, Work

\* On tidy disks every step towards an answer about a disk that was made for
\* the query is a step towards a match.
THEOREM FoundWhenMade == ASSUME TidyDisks PROVE Spec => MadeIsFound
<1> DEFINE J == IInv /\ Held /\ Holds /\ KernelKnows
<1>1. Init => J
  BY TypedInit, ControlInit, OwnedInit, HeldInit, KnowsInit DEF IInv, Typed
<1>2. J /\ [Next]_vars => J'
  <2> SUFFICES ASSUME J, [Next]_vars PROVE J'
    OBVIOUS
  <2>1. Typed /\ Typed' /\ Control' /\ Owned'
    BY TypedStep, ControlStep, OwnedStep DEF IInv, Typed
  <2>2. Held' /\ Holds' /\ KernelKnows'
    BY <2>1, HeldStep, KnowsStep DEF IInv
  <2> QED BY <2>1, <2>2 DEF IInv, Typed
<1> DEFINE Step == \A p \in Procs :
                     Undisturbed(p) => result'[p] \in {result[p], "match"}
<1>3. J /\ [Next]_vars => [Step]_vars
  <2> SUFFICES ASSUME J, [Next]_vars, NEW p \in Procs, Undisturbed(p)
               PROVE  result'[p] \in {result[p], "match"}
    OBVIOUS
  <2>1. CASE VolumeQueryMatch(p)
    <3>1. Made(p, Dev(p))
      BY MadeIsMade DEF Undisturbed
    <3> QED BY <2>1, <3>1, QueryGoesOn
  <2>2. CASE ~VolumeQueryMatch(p)
    BY <2>2, OthersLeaveQuery DEF IInv
  <2> QED BY <2>1, <2>2
<1>4. (Spec => [][Step]_vars) => (Spec => MadeIsFound)
  BY DEF MadeIsFound, Undisturbed
<1> QED BY <1>1, <1>2, <1>3, <1>4, PTL DEF Spec

================================================================================

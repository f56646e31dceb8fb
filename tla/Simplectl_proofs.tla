--------------------------- MODULE Simplectl_proofs ---------------------------
(***************************************************************************)
(* Proofs about Simplectl, for any number of disks, processes, partitions  *)
(* and faults.                                                             *)
(***************************************************************************)
EXTENDS SimplectlProps, TLAPS

-------------------------------------------------------------------------------
(* What the helpers return.                                                  *)

\* The table sgdisk writes is a partition table.
LEMMA SimpleTableType == SimpleTable \in Tables
BY DEF SimpleTable, Tables, PartKinds

\* A record read from a device is a udev record.
LEMMA ProbedType ==
  ASSUME NEW t \in Tables, NEW k, NEW c \in [Slots -> Content], NEW s \in Slots
  PROVE  Probed(t, k, c, s) \in UdevRecord
<1>1. c[s] \in Content
  OBVIOUS
<1>2. Signature(c[s]) \in FSTypes \cup {None, "crypto_LUKS"}
  BY <1>1 DEF Signature, Content, Garbage, VolumeLabel, Plain, Luks
<1>3. t[s] \in PartKinds
  BY DEF Tables
<1> QED BY <1>2, <1>3 DEF Probed, UdevRecord, PartKinds

\* The label written for a command is a volume label.
LEMMA LabelForType ==
  ASSUME NEW j \in Jobs PROVE LabelFor(j) \in VolumeLabel
BY HostAssumption DEF LabelFor, VolumeLabel, Job, Query

\* What luksFormat leaves is a LUKS volume.
LEMMA LuksForType ==
  ASSUME NEW q \in Query, q.key # None PROVE LuksFor(q) \in Luks
BY DEF LuksFor, Luks, Query

\* What mkfs leaves is a volume.
LEMMA VolumeForType ==
  ASSUME NEW q \in Query, q.fs # None PROVE VolumeFor(q) \in Plain \cup Luks
BY DEF VolumeFor, Plain, Luks, Query

\* The partitions of a table are partition numbers.
LEMMA SlotsOfType == ASSUME NEW t PROVE SlotsOf(t) \in SUBSET Slots
BY DEF SlotsOf

\* A process works on a disk, for a query, and with partitions of the disk.
LEMMA DevType ==
  ASSUME TypeOK, NEW p \in Procs
  PROVE  /\ Dev(p) \in Disks /\ QueryOf(p) \in Query
         /\ LabelDev(p) \in Slots /\ DataDev(p) \in Slots
BY HostAssumption DEF TypeOK, Job, Dev, QueryOf, LabelDev, DataDev

\* The ghost variables keep their type when a volume is formatted.
LEMMA MarkFormattedType ==
  ASSUME TypeOK, NEW p \in Procs, MarkFormatted(p)
  PROVE  ledger' \in [Disks -> Claims] /\ steady' \in [Procs -> BOOLEAN]
<1>1. [by |-> ledger[Dev(p)].by, job |-> ledger[Dev(p)].job, formatted |-> TRUE,
       mixed |-> ledger[Dev(p)].mixed] \in Claims
  BY DevType DEF TypeOK, Claims
<1> QED BY <1>1 DEF MarkFormatted, Disturb, TypeOK

\* A fault leaves the count of faults within its bound.
LEMMA FaultType ==
  ASSUME faults \in 0..MaxFaults, Fault \/ UNCHANGED faults
  PROVE  faults' \in 0..MaxFaults
BY HostAssumption DEF Fault

\* Changing what is at one partition changes nothing elsewhere.
LEMMA PointUpdate ==
  ASSUME NEW V, NEW f \in [Disks -> [Slots -> V]], NEW d \in Disks,
         NEW s \in Slots, NEW c
  PROVE  \A e \in Disks, x \in Slots : [f EXCEPT ![d][s] = c][e][x] =
           IF e = d /\ x = s THEN c ELSE f[e][x]
OBVIOUS

-------------------------------------------------------------------------------
(* Type correctness.                                                         *)

Typed == TypeOK /\ Keyed

\* The host is first observed in a state of the right types.
LEMMA TypedInit == Init => Typed
<1> SUFFICES ASSUME Init PROVE Typed
  OBVIOUS
<1>1. PICK old \in [Disks -> OldDisks] :
        /\ table   = [d \in Disks |-> old[d].table]
        /\ content = [d \in Disks |-> old[d].content]
  BY DEF Init
<1>2. /\ table \in [Disks -> Tables]
      /\ content \in [Disks -> [Slots -> Content]]
  BY <1>1, HostAssumption
<1>3. kernel \in [Disks -> SUBSET Slots]
  BY DEF Init, SlotsOf
<1>4. udev \in [Disks -> [Slots -> UdevRecord]]
  BY <1>2, ProbedType DEF Init, UdevTruth
<1>5. job \in [Procs -> Jobs]
  BY HostAssumption DEF Init
<1>6. found \in [Procs -> [label: Slots, data: Slots]]
  BY HostAssumption DEF Init
<1>7. faults \in 0..MaxFaults
  BY HostAssumption DEF Init
<1>8. TypeOK
  BY <1>2, <1>3, <1>4, <1>5, <1>6, <1>7
  DEF Init, TypeOK, PCs, Results, Claims, NoClaim
<1>9. Keyed
  BY DEF Init, Keyed
<1> QED BY <1>8, <1>9 DEF Typed

\* Every step of the host preserves the types.
LEMMA TypedStep == Typed /\ [Next]_vars => Typed'
<1> SUFFICES ASSUME Typed, [Next]_vars PROVE Typed'
  OBVIOUS
<1>t. TypeOK /\ Keyed
  BY DEF Typed
<1>k. kernel \in [Disks -> SUBSET Slots]
  BY <1>t DEF TypeOK
<1>c. content \in [Disks -> [Slots -> Content]]
  BY <1>t DEF TypeOK
<1>p. platter \in [Disks -> [Slots -> Content]]
  BY <1>t DEF TypeOK
<1>m. mapper \in [Disks -> [Slots -> Procs \cup {None, Leaked}]]
  BY <1>t DEF TypeOK
<1>d. \A p \in Procs : /\ Dev(p) \in Disks /\ QueryOf(p) \in Query
                       /\ LabelDev(p) \in Slots /\ DataDev(p) \in Slots
  BY <1>t, DevType
<1>1. ASSUME NEW p \in Procs, Sgdisk(p) PROVE Typed'
  <2>1. table' \in [Disks -> Tables]
    BY <1>1, <1>t, SimpleTableType DEF Sgdisk, TypeOK
  <2>2. ledger' \in [Disks -> Claims] /\ steady' \in [Procs -> BOOLEAN]
    BY <1>1, <1>t DEF Sgdisk, TypeOK, Claim, Disturb, Claims
  <2>3. pc' \in [Procs -> PCs] /\ result' \in [Procs -> Results]
    BY <1>1, <1>t DEF Sgdisk, Goto, Return, TypeOK, PCs, InitSteps, Results
  <2>4. faults' \in 0..MaxFaults
    BY <1>1, <1>t, FaultType DEF Sgdisk, TypeOK
  <2>5. Keyed'
    BY <1>1, <1>t DEF Sgdisk, Keyed, QueryOf, TypeOK, Goto, Return
  <2> QED BY <1>1, <1>t, <2>1, <2>2, <2>3, <2>4, <2>5
         DEF Sgdisk, Typed, TypeOK
<1>2. ASSUME NEW p \in Procs, Partprobe(p) PROVE Typed'
  <2>1. kernel' \in {kernel, [kernel EXCEPT ![Dev(p)] = SlotsOf(table[Dev(p)])]}
    BY <1>2 DEF Partprobe
  <2>2. kernel' \in [Disks -> SUBSET Slots]
    BY <1>k, <2>1, SlotsOfType
  <2>3. pc' \in [Procs -> PCs] /\ result' \in [Procs -> Results]
    BY <1>2, <1>t DEF Partprobe, Goto, Return, TypeOK, PCs, InitSteps, Results
  <2>4. faults' \in 0..MaxFaults
    BY <1>2, <1>t, FaultType DEF Partprobe, TypeOK
  <2>5. Keyed'
    BY <1>2, <1>t DEF Partprobe, Keyed, QueryOf, TypeOK, Goto, Return
  <2> QED BY <1>2, <1>t, <2>1, <2>2, <2>3, <2>4, <2>5
         DEF Partprobe, Typed, TypeOK, ghostVars
<1>3. ASSUME NEW p \in Procs, CheckNewDevice(p) PROVE Typed'
  <2>1. found' \in [Procs -> [label: Slots, data: Slots]]
    BY <1>3, <1>t DEF CheckNewDevice, TypeOK, GetDiskLabelAndVolumePath
  <2>2. pc' \in [Procs -> PCs] /\ result' \in [Procs -> Results]
    BY <1>3, <1>t DEF CheckNewDevice, GetDiskLabelAndVolumePath, Goto, Return, TypeOK, PCs, InitSteps, Results
  <2>3. faults' \in 0..MaxFaults
    BY <1>3, <1>t, FaultType DEF CheckNewDevice, TypeOK, GetDiskLabelAndVolumePath
  <2>4. Keyed'
    BY <1>3, <1>t DEF CheckNewDevice, Keyed, QueryOf, TypeOK, GetDiskLabelAndVolumePath, Goto, Return
  <2> QED BY <1>3, <1>t, <2>1, <2>2, <2>3, <2>4
         DEF CheckNewDevice, Typed, TypeOK, ghostVars, diskVars
<1>4. ASSUME NEW p \in Procs, WriteLabel(p) PROVE Typed'
  <2>1. content' \in {content} \cup {[content EXCEPT ![Dev(p)][LabelDev(p)] = c] :
                                    c \in {LabelFor(job[p]), Garbage}}
    BY <1>4 DEF WriteLabel
  <2>2. LabelFor(job[p]) \in Content /\ Garbage \in Content
    BY <1>t, LabelForType DEF Content, TypeOK
  <2>3. content' \in [Disks -> [Slots -> Content]]
    BY <1>d, <1>c, <2>1, <2>2
  <2>4. steady' \in [Procs -> BOOLEAN]
    BY <1>4, <1>t DEF WriteLabel, TypeOK, Disturb
  <2>5. pc' \in [Procs -> PCs] /\ result' \in [Procs -> Results]
    BY <1>4, <1>t DEF WriteLabel, Goto, Return, TypeOK, PCs, InitSteps, Results
  <2>6. faults' \in 0..MaxFaults
    BY <1>4, <1>t, FaultType DEF WriteLabel, TypeOK
  <2>7. Keyed'
    BY <1>4, <1>t DEF WriteLabel, Keyed, QueryOf, TypeOK, Goto, Return
  <2> QED BY <1>4, <1>t, <2>1, <2>2, <2>3, <2>4, <2>5, <2>6, <2>7
         DEF WriteLabel, Typed, TypeOK
<1>5. ASSUME NEW p \in Procs, SyncLabel(p) PROVE Typed'
  <2>1. platter' \in {platter,
          [platter EXCEPT ![Dev(p)][LabelDev(p)] = content[Dev(p)][LabelDev(p)]]}
    BY <1>5 DEF SyncLabel
  <2>2. content[Dev(p)][LabelDev(p)] \in Content
    BY <1>d, <1>c
  <2>3. platter' \in [Disks -> [Slots -> Content]]
    BY <1>d, <1>p, <2>1, <2>2
  <2>4. pc' \in [Procs -> PCs] /\ result' \in [Procs -> Results]
    BY <1>5, <1>t DEF SyncLabel, Goto, Return, TypeOK, PCs, InitSteps, Results
  <2>5. faults' \in 0..MaxFaults
    BY <1>5, <1>t, FaultType DEF SyncLabel, TypeOK
  <2>6. Keyed'
    BY <1>5, <1>t DEF SyncLabel, Keyed, QueryOf, TypeOK, Goto, Return
  <2> QED BY <1>5, <1>t, <2>1, <2>2, <2>3, <2>4, <2>5, <2>6
         DEF SyncLabel, Typed, TypeOK, ghostVars
<1>6. ASSUME NEW p \in Procs, LuksFormat(p) PROVE Typed'
  <2>1. \/ UNCHANGED <<content, platter>>
        \/ Overwrite(p, DataDev(p), LuksFor(QueryOf(p)))
        \/ Overwrite(p, DataDev(p), Garbage)
    BY <1>6 DEF LuksFormat
  <2>2. LuksFor(QueryOf(p)) \in Content /\ Garbage \in Content
    BY <1>6, <1>t, DevType, LuksForType DEF LuksFormat, Keyed, Content
  <2>3. content' \in [Disks -> [Slots -> Content]]
    BY <1>d, <1>c, <2>1, <2>2 DEF Overwrite
  <2>4. platter' \in [Disks -> [Slots -> Content]]
    BY <1>d, <1>p, <2>1, <2>2 DEF Overwrite
  <2>5. MarkFormatted(p) \/ UNCHANGED ghostVars
    BY <1>6 DEF LuksFormat
  <2>6. ledger' \in [Disks -> Claims] /\ steady' \in [Procs -> BOOLEAN]
    BY <1>t, <2>5, MarkFormattedType DEF ghostVars, TypeOK
  <2>7. pc' \in [Procs -> PCs] /\ result' \in [Procs -> Results]
    BY <1>6, <1>t DEF LuksFormat, Goto, Return, TypeOK, PCs, InitSteps, Results
  <2>8. faults' \in 0..MaxFaults
    BY <1>6, <1>t, FaultType DEF LuksFormat, TypeOK
  <2>9. Keyed'
    BY <1>6, <1>t DEF LuksFormat, Keyed, QueryOf, TypeOK, Goto, Return
  <2> QED BY <1>6, <1>t, <2>1, <2>2, <2>3, <2>4, <2>5, <2>6, <2>7, <2>8, <2>9
         DEF LuksFormat, Typed, TypeOK
<1>7. ASSUME NEW p \in Procs, OpenForSetup(p) PROVE Typed'
  <2>1. mapper' \in {mapper, [mapper EXCEPT ![Dev(p)][DataDev(p)] = p]}
    BY <1>7 DEF OpenForSetup
  <2>2. mapper' \in [Disks -> [Slots -> Procs \cup {None, Leaked}]]
    BY <1>d, <1>m, <2>1
  <2>3. pc' \in [Procs -> PCs] /\ result' \in [Procs -> Results]
    BY <1>7, <1>t DEF OpenForSetup, Goto, Return, TypeOK, PCs, InitSteps, Results
  <2>4. faults' \in 0..MaxFaults
    BY <1>7, <1>t, FaultType DEF OpenForSetup, TypeOK
  <2>5. Keyed'
    BY <1>7, <1>t DEF OpenForSetup, Keyed, QueryOf, TypeOK, Goto, Return
  <2> QED BY <1>7, <1>t, <2>1, <2>2, <2>3, <2>4, <2>5
         DEF OpenForSetup, Typed, TypeOK, ghostVars
<1>8. ASSUME NEW p \in Procs, Mkfs(p) PROVE Typed'
  <2>1. \/ UNCHANGED <<content, platter>>
        \/ /\ Overwrite(p, DataDev(p), VolumeFor(QueryOf(p)))
           /\ QueryOf(p).fs # None
        \/ Overwrite(p, DataDev(p), Garbage)
        \/ /\ Overwrite(p, DataDev(p), LuksFor(QueryOf(p)))
           /\ QueryOf(p).key # None
    BY <1>8 DEF Mkfs
  <2>2. /\ QueryOf(p).fs # None => VolumeFor(QueryOf(p)) \in Content
        /\ QueryOf(p).key # None => LuksFor(QueryOf(p)) \in Content
        /\ Garbage \in Content
    BY <1>t, DevType, VolumeForType, LuksForType DEF Content
  <2>3. content' \in [Disks -> [Slots -> Content]]
    BY <1>d, <1>c, <2>1, <2>2 DEF Overwrite
  <2>4. platter' \in [Disks -> [Slots -> Content]]
    BY <1>d, <1>p, <2>1, <2>2 DEF Overwrite
  <2>5. MarkFormatted(p) \/ UNCHANGED ghostVars
    BY <1>8 DEF Mkfs
  <2>6. ledger' \in [Disks -> Claims] /\ steady' \in [Procs -> BOOLEAN]
    BY <1>t, <2>5, MarkFormattedType DEF ghostVars, TypeOK
  <2>7. pc' \in [Procs -> PCs] /\ result' \in [Procs -> Results]
    BY <1>8, <1>t DEF Mkfs, FinishSetup, TypeOK, PCs, InitSteps, Results
  <2>8. faults' \in 0..MaxFaults
    BY <1>8, <1>t, FaultType DEF Mkfs, TypeOK
  <2>9. Keyed'
    BY <1>8, <1>t DEF Mkfs, Keyed, QueryOf, TypeOK, FinishSetup
  <2> QED BY <1>8, <1>t, <2>1, <2>2, <2>3, <2>4, <2>5, <2>6, <2>7, <2>8, <2>9
         DEF Mkfs, Typed, TypeOK
<1>9. ASSUME NEW p \in Procs, LookupDevice(p) PROVE Typed'
  <2>1. found' \in [Procs -> [label: Slots, data: Slots]]
    BY <1>9, <1>t DEF LookupDevice, TypeOK, GetDiskLabelAndVolumePath
  <2>2. pc' \in [Procs -> PCs] /\ result' \in [Procs -> Results]
    BY <1>9, <1>t DEF LookupDevice, GetDiskLabelAndVolumePath, Goto, Return, TypeOK, PCs, InitSteps, Results
  <2>3. faults' \in 0..MaxFaults
    BY <1>9, <1>t, FaultType DEF LookupDevice, TypeOK, GetDiskLabelAndVolumePath
  <2>4. Keyed'
    BY <1>9, <1>t DEF LookupDevice, Keyed, QueryOf, TypeOK, GetDiskLabelAndVolumePath, Goto, Return
  <2> QED BY <1>9, <1>t, <2>1, <2>2, <2>3, <2>4
         DEF LookupDevice, Typed, TypeOK, ghostVars, diskVars
<1>10. ASSUME NEW p \in Procs, ReadLabel(p) PROVE Typed'
  <2>1. pc' \in [Procs -> PCs] /\ result' \in [Procs -> Results]
    BY <1>10, <1>t DEF ReadLabel, Goto, Return, TypeOK, PCs, InitSteps, Results
  <2>2. faults' \in 0..MaxFaults
    BY <1>10, <1>t, FaultType DEF ReadLabel, TypeOK
  <2>3. Keyed'
    BY <1>10, <1>t DEF ReadLabel, Keyed, QueryOf, TypeOK, Goto, Return
  <2> QED BY <1>10, <1>t, <2>1, <2>2, <2>3
         DEF ReadLabel, Rely, Typed, TypeOK, diskVars
<1>11. ASSUME NEW p \in Procs, OpenForMatch(p) PROVE Typed'
  <2>1. mapper' \in {mapper, [mapper EXCEPT ![Dev(p)][DataDev(p)] = p]}
    BY <1>11 DEF OpenForMatch
  <2>2. mapper' \in [Disks -> [Slots -> Procs \cup {None, Leaked}]]
    BY <1>d, <1>m, <2>1
  <2>3. pc' \in [Procs -> PCs] /\ result' \in [Procs -> Results]
    BY <1>11, <1>t DEF OpenForMatch, Goto, Return, TypeOK, PCs, InitSteps, Results
  <2>4. faults' \in 0..MaxFaults
    BY <1>11, <1>t, FaultType DEF OpenForMatch, TypeOK
  <2>5. Keyed'
    BY <1>11, <1>t DEF OpenForMatch, Keyed, QueryOf, TypeOK, Goto, Return
  <2> QED BY <1>11, <1>t, <2>1, <2>2, <2>3, <2>4, <2>5
         DEF OpenForMatch, Typed, TypeOK, ghostVars
<1>12. ASSUME NEW p \in Procs, Probe(p) PROVE Typed'
  <2>1. pc' \in [Procs -> PCs] /\ result' \in [Procs -> Results]
    BY <1>12, <1>t DEF Probe, FinishMatch, TypeOK, PCs, InitSteps, Results
  <2>2. faults' \in 0..MaxFaults
    BY <1>12, <1>t, FaultType DEF Probe, TypeOK
  <2>3. Keyed'
    BY <1>12, <1>t DEF Probe, Keyed, QueryOf, TypeOK, FinishMatch
  <2> QED BY <1>12, <1>t, <2>1, <2>2, <2>3
         DEF Probe, Typed, TypeOK, ghostVars, diskVars
<1>13. ASSUME NEW p \in Procs, Close(p) PROVE Typed'
  <2>1. mapper' \in {[mapper EXCEPT ![Dev(p)][DataDev(p)] = x] : x \in {None, Leaked}}
    BY <1>13 DEF Close
  <2>2. mapper' \in [Disks -> [Slots -> Procs \cup {None, Leaked}]]
    BY <1>d, <1>m, <2>1
  <2>3. pc' \in [Procs -> PCs] /\ result' \in [Procs -> Results]
    BY <1>13, <1>t DEF Close, Goto, TypeOK, PCs, InitSteps, Results
  <2>4. faults' \in 0..MaxFaults
    BY <1>13, <1>t, FaultType DEF Close, TypeOK
  <2>5. Keyed'
    BY <1>13, <1>t DEF Close, Keyed, QueryOf, TypeOK, Goto
  <2> QED BY <1>13, <1>t, <2>1, <2>2, <2>3, <2>4, <2>5
         DEF Close, Typed, TypeOK, ghostVars
<1>14. ASSUME NEW p \in Procs, NEW j \in Jobs, NEW l \in PCs,
              l \notin {"format", "open", "unlock"}, Launch(p, j, l),
              NEW r \in Results, result' = [result EXCEPT ![p] = r]
       PROVE  Typed'
  BY <1>14, <1>t DEF Launch, diskVars, Typed, TypeOK, Keyed, QueryOf
<1>15. ASSUME NEW p \in Procs, Command(p) PROVE Typed'
  <2>1. CASE ForceInitDisk(p)
    BY <2>1, <1>14 DEF ForceInitDisk, PCs, Results
  <2>2. CASE Cancel(p)
    BY <2>2, <1>14 DEF Cancel, PCs, Results
  <2>3. CASE CheckVolumeQuery(p)
    BY <2>3, <1>14 DEF CheckVolumeQuery, PCs, Results
  <2> QED BY <1>15, <2>1, <2>2, <2>3 DEF Command
<1>16. ASSUME NEW p \in Procs, Kill(p) PROVE Typed'
  <2>1. mapper' \in [Disks -> [Slots -> Procs \cup {None, Leaked}]]
    BY <1>16, <1>t DEF Kill, TypeOK
  <2>2. pc' \in [Procs -> PCs] /\ result' \in [Procs -> Results]
    BY <1>16, <1>t DEF Kill, Return, TypeOK, PCs, InitSteps, Results
  <2>3. faults' \in 0..MaxFaults
    BY <1>16, <1>t, FaultType DEF Kill, TypeOK
  <2>4. Keyed'
    BY <1>16, <1>t DEF Kill, Keyed, QueryOf, TypeOK, Return
  <2> QED BY <1>16, <1>t, <2>1, <2>2, <2>3, <2>4
         DEF Kill, Typed, TypeOK, ghostVars
<1>17. ASSUME NEW d \in Disks, NEW s \in Slots, UdevRefresh(d, s) PROVE Typed'
  <2>1. Probed(table[d], kernel[d], content[d], s) \in UdevRecord
    BY <1>t, ProbedType DEF TypeOK
  <2>2. udev' \in [Disks -> [Slots -> UdevRecord]]
    BY <1>17, <1>t, <2>1 DEF UdevRefresh, UdevTruth, TypeOK
  <2> QED BY <1>17, <1>t, <2>2
         DEF UdevRefresh, procVars, ghostVars, Typed, TypeOK, Keyed, QueryOf
<1>18. ASSUME PowerLoss PROVE Typed'
  <2>1. /\ content' \in [Disks -> [Slots -> Content]]
        /\ kernel' \in [Disks -> SUBSET Slots]
    BY <1>18, <1>t, SlotsOfType DEF PowerLoss, TypeOK
  <2>2. udev' \in [Disks -> [Slots -> UdevRecord]]
    BY <1>18, <1>t, <2>1, ProbedType DEF PowerLoss, TypeOK
  <2>3. faults' \in 0..MaxFaults
    BY <1>18, <1>t, FaultType DEF PowerLoss, TypeOK
  <2> QED BY <1>18, <1>t, <2>1, <2>2, <2>3
         DEF PowerLoss, PCs, Results, Typed, TypeOK, Keyed, QueryOf
<1>19. ASSUME UNCHANGED vars PROVE Typed'
  BY <1>19, <1>t
  DEF vars, diskVars, procVars, ghostVars, Typed, TypeOK, Keyed, QueryOf
<1> QED
  BY <1>1, <1>2, <1>3, <1>4, <1>5, <1>6, <1>7, <1>8, <1>9, <1>10, <1>11, <1>12,
     <1>13, <1>15, <1>16, <1>17, <1>18, <1>19
  DEF Next, Work, InitializeBlockDevice, VolumeQueryMatch

\* TypeOK holds in every reachable state of every instance.
THEOREM TypeCorrect == Spec => []TypeOK
<1>1. Typed => TypeOK
  BY DEF Typed
<1> QED BY TypedInit, TypedStep, <1>1, PTL DEF Spec

-------------------------------------------------------------------------------
(* The control part of the inductive invariant.  Only here it matters that   *)
(* the disks were tidy.                                                      *)

\* The table sgdisk writes is tidy.
LEMMA SimpleTableTidy == TidyTable(SimpleTable)
BY DEF TidyTable, SimpleTable

\* Read from a tidy table, the records of a disk are those of a tidy table.
LEMMA ProbedTidy ==
  ASSUME NEW t, TidyTable(t), NEW k, NEW c, NEW s \in Slots
  PROVE  /\ Probed(t, k, c, s).part = "meta" => s = 1
         /\ Probed(t, k, c, s).part = "other" => s \in {1, 2}
BY DEF TidyTable, Probed

\* Whatever view of a disk the lookup meets, it finds devices 1 and 2.
LEMMA LookupTidy ==
  ASSUME TypeOK, TidyView, NEW p \in Procs, NEW next,
         GetDiskLabelAndVolumePath(p, next)
  PROVE  \A x \in Procs : found'[x] = [label |-> 1, data |-> 2]
<1>1. CASE UNCHANGED found
  BY <1>1 DEF TidyView
<1>2. ASSUME NEW l \in Slots, NEW x \in Slots, Initialized(Dev(p), l, x),
             found' = [found EXCEPT ![p] = [label |-> l, data |-> x]]
      PROVE  \A y \in Procs : found'[y] = [label |-> 1, data |-> 2]
  <2>1. Dev(p) \in Disks
    BY DevType
  <2>2. /\ udev[Dev(p)][l].part = "meta"
        /\ udev[Dev(p)][x].part = "other"
    BY <1>2 DEF Initialized
  <2>3. l = 1 /\ x \in {1, 2} /\ x # l
    BY <2>1, <2>2 DEF TidyView, TidyTable
  <2> QED BY <1>2, <2>3 DEF TidyView, TypeOK
<1> QED BY <1>1, <1>2 DEF GetDiskLabelAndVolumePath

\* No command runs in the initial state, and the disks found there are tidy.
LEMMA ControlInit == ASSUME TidyDisks PROVE Init => Control
<1> SUFFICES ASSUME Init PROVE Control
  OBVIOUS
<1>1. CommandFits /\ DoneIsOver
  BY DEF Init, CommandFits, DoneIsOver
<1>2. \A d \in Disks : TidyTable(table[d])
  BY HostAssumption DEF Init, TidyDisks
<1>3. \A d \in Disks, s \in Slots :
        /\ udev[d][s].part = "meta" => s = 1
        /\ udev[d][s].part = "other" => s \in {1, 2}
  BY <1>2, ProbedTidy DEF Init, UdevTruth
<1>4. \A p \in Procs : found[p] = [label |-> 1, data |-> 2]
  BY DEF Init
<1> QED BY <1>1, <1>2, <1>3, <1>4 DEF Control, TidyView

\* A process that goes on to a step of its command, or returns a failure.
LEMMA MoveFits ==
  ASSUME TypeOK, CommandFits, DoneIsOver, UNCHANGED job, NEW p \in Procs,
         pc[p] \notin {"idle", "close"}, NEW l, NEW r, r # "ok",
         Goto(p, l) \/ Return(p, r),
         l \in {"lookup", "read", "unlock", "probe"}
           => job[p].op = "query-device",
         l \in {"sgdisk", "partprobe", "check", "write", "sync", "format",
                "open", "mkfs"} => job[p].op = "initialize-disk"
  PROVE  CommandFits' /\ DoneIsOver'
<1>1. /\ \A x \in Procs : x # p => pc'[x] = pc[x] /\ result'[x] = result[x]
      /\ pc'[p] \in {"idle", l}
      /\ result'[p] # "ok"
  BY DEF Goto, Return, TypeOK, DoneIsOver
<1>2. CommandFits'
  BY <1>1 DEF CommandFits
<1>3. DoneIsOver'
  BY <1>1 DEF DoneIsOver
<1> QED BY <1>2, <1>3

\* Every step preserves the control part.
LEMMA ControlStep ==
  ASSUME TypeOK, TypeOK', Control, [Next]_vars PROVE Control'
<1>c. CommandFits /\ DoneIsOver /\ TidyView
  BY DEF Control
<1>1. ASSUME NEW p \in Procs, Sgdisk(p) PROVE Control'
  <2>a. UNCHANGED job /\ (Goto(p, "partprobe") \/ Return(p, "error"))
    BY <1>1 DEF Sgdisk, diskVars
  <2>1. CommandFits' /\ DoneIsOver'
    BY <1>1, <1>c, <2>a, MoveFits DEF Sgdisk, CommandFits
  <2>2. TidyView'
    BY <1>1, <1>c, SimpleTableTidy DEF Sgdisk, TidyView, TypeOK
  <2> QED BY <2>1, <2>2 DEF Control
<1>2. ASSUME NEW p \in Procs, Partprobe(p) PROVE Control'
  <2>a. UNCHANGED job /\ (Goto(p, "check") \/ Return(p, "error"))
    BY <1>2 DEF Partprobe, diskVars
  <2>1. CommandFits' /\ DoneIsOver'
    BY <1>2, <1>c, <2>a, MoveFits DEF Partprobe, CommandFits
  <2>2. TidyView'
    BY <1>2, <1>c DEF Partprobe, TidyView, diskVars
  <2> QED BY <2>1, <2>2 DEF Control
<1>3. ASSUME NEW p \in Procs, CheckNewDevice(p) PROVE Control'
  <2>1. CommandFits' /\ DoneIsOver'
    BY <1>3, <1>c DEF CheckNewDevice, GetDiskLabelAndVolumePath, Goto, Return, CommandFits, DoneIsOver, TypeOK
  <2>2. TidyView'
    BY <1>3, <1>c, LookupTidy DEF CheckNewDevice, TidyView, diskVars
  <2> QED BY <2>1, <2>2 DEF Control
<1>4. ASSUME NEW p \in Procs, WriteLabel(p) PROVE Control'
  <2>a. UNCHANGED job /\ (Goto(p, "sync") \/ Return(p, "error"))
    BY <1>4 DEF WriteLabel, diskVars
  <2>1. CommandFits' /\ DoneIsOver'
    BY <1>4, <1>c, <2>a, MoveFits DEF WriteLabel, CommandFits
  <2>2. TidyView'
    BY <1>4, <1>c DEF WriteLabel, TidyView, diskVars
  <2> QED BY <2>1, <2>2 DEF Control
<1>5. ASSUME NEW p \in Procs, SyncLabel(p) PROVE Control'
  <2>a. UNCHANGED job /\ (Goto(p, "format") \/ Goto(p, "mkfs") \/ Return(p, "error"))
    BY <1>5 DEF SyncLabel, diskVars
  <2>1. CommandFits' /\ DoneIsOver'
    BY <1>5, <1>c, <2>a, MoveFits DEF SyncLabel, CommandFits
  <2>2. TidyView'
    BY <1>5, <1>c DEF SyncLabel, TidyView, diskVars
  <2> QED BY <2>1, <2>2 DEF Control
<1>6. ASSUME NEW p \in Procs, LuksFormat(p) PROVE Control'
  <2>a. UNCHANGED job /\ (Goto(p, "open") \/ Return(p, "error"))
    BY <1>6 DEF LuksFormat, diskVars
  <2>1. CommandFits' /\ DoneIsOver'
    BY <1>6, <1>c, <2>a, MoveFits DEF LuksFormat, CommandFits
  <2>2. TidyView'
    BY <1>6, <1>c DEF LuksFormat, TidyView, diskVars
  <2> QED BY <2>1, <2>2 DEF Control
<1>7. ASSUME NEW p \in Procs, OpenForSetup(p) PROVE Control'
  <2>a. UNCHANGED job /\ (Goto(p, "mkfs") \/ Return(p, "error"))
    BY <1>7 DEF OpenForSetup, diskVars
  <2>1. CommandFits' /\ DoneIsOver'
    BY <1>7, <1>c, <2>a, MoveFits DEF OpenForSetup, CommandFits
  <2>2. TidyView'
    BY <1>7, <1>c DEF OpenForSetup, TidyView, diskVars
  <2> QED BY <2>1, <2>2 DEF Control
<1>8. ASSUME NEW p \in Procs, Mkfs(p) PROVE Control'
  <2>1. CommandFits' /\ DoneIsOver'
    BY <1>8, <1>c DEF Mkfs, FinishSetup, CommandFits, DoneIsOver, TypeOK
  <2>2. TidyView'
    BY <1>8, <1>c DEF Mkfs, TidyView, diskVars
  <2> QED BY <2>1, <2>2 DEF Control
<1>9. ASSUME NEW p \in Procs, LookupDevice(p) PROVE Control'
  <2>1. CommandFits' /\ DoneIsOver'
    BY <1>9, <1>c DEF LookupDevice, GetDiskLabelAndVolumePath, Goto, Return, CommandFits, DoneIsOver, TypeOK
  <2>2. TidyView'
    BY <1>9, <1>c, LookupTidy DEF LookupDevice, TidyView, diskVars
  <2> QED BY <2>1, <2>2 DEF Control
<1>10. ASSUME NEW p \in Procs, ReadLabel(p) PROVE Control'
  <2>a. UNCHANGED job /\ (Goto(p, "probe") \/ Goto(p, "unlock") \/ \E r \in {"error", "nomatch"} : Return(p, r))
    BY <1>10 DEF ReadLabel, diskVars
  <2>1. CommandFits' /\ DoneIsOver'
    BY <1>10, <1>c, <2>a, MoveFits DEF ReadLabel, CommandFits
  <2>2. TidyView'
    BY <1>10, <1>c DEF ReadLabel, TidyView, diskVars
  <2> QED BY <2>1, <2>2 DEF Control
<1>11. ASSUME NEW p \in Procs, OpenForMatch(p) PROVE Control'
  <2>a. UNCHANGED job /\ (Goto(p, "probe") \/ \E r \in {"error", "nomatch"} : Return(p, r))
    BY <1>11 DEF OpenForMatch, diskVars
  <2>1. CommandFits' /\ DoneIsOver'
    BY <1>11, <1>c, <2>a, MoveFits DEF OpenForMatch, CommandFits
  <2>2. TidyView'
    BY <1>11, <1>c DEF OpenForMatch, TidyView, diskVars
  <2> QED BY <2>1, <2>2 DEF Control
<1>12. ASSUME NEW p \in Procs, Probe(p) PROVE Control'
  <2>1. CommandFits' /\ DoneIsOver'
    BY <1>12, <1>c DEF Probe, FinishMatch, CommandFits, DoneIsOver, TypeOK
  <2>2. TidyView'
    BY <1>12, <1>c DEF Probe, TidyView, diskVars
  <2> QED BY <2>1, <2>2 DEF Control
<1>13. ASSUME NEW p \in Procs, Close(p) PROVE Control'
  <2>1. CommandFits' /\ DoneIsOver'
    BY <1>13, <1>c DEF Close, Goto, CommandFits, DoneIsOver, TypeOK
  <2>2. TidyView'
    BY <1>13, <1>c DEF Close, TidyView, diskVars
  <2> QED BY <2>1, <2>2 DEF Control
<1>14. ASSUME NEW p \in Procs, Kill(p) PROVE Control'
  <2>1. CommandFits' /\ DoneIsOver'
    BY <1>14, <1>c DEF Kill, Return, CommandFits, DoneIsOver, TypeOK
  <2>2. TidyView'
    BY <1>14, <1>c DEF Kill, TidyView, diskVars
  <2> QED BY <2>1, <2>2 DEF Control
<1>15. ASSUME NEW p \in Procs, Command(p) PROVE Control'
  <2>a. /\ \A x \in Procs : x # p => /\ pc'[x] = pc[x] /\ job'[x] = job[x]
                                     /\ result'[x] = result[x]
        /\ \/ pc'[p] = "sgdisk" /\ job'[p].op = "initialize-disk"
           \/ pc'[p] = "lookup" /\ job'[p].op = "query-device"
           \/ pc'[p] = "idle"
        /\ result'[p] # "ok"
    BY <1>15 DEF Command, ForceInitDisk, Cancel, CheckVolumeQuery, Launch, TypeOK
  <2>1. CommandFits' /\ DoneIsOver'
    BY <2>a, <1>c DEF CommandFits, DoneIsOver
  <2>2. TidyView'
    BY <1>15, <1>c DEF Command, ForceInitDisk, Cancel, CheckVolumeQuery, Launch,
       TidyView, diskVars
  <2> QED BY <2>1, <2>2 DEF Control
<1>16. ASSUME NEW d \in Disks, NEW s \in Slots, UdevRefresh(d, s) PROVE Control'
  <2>1. CommandFits' /\ DoneIsOver'
    BY <1>16, <1>c DEF UdevRefresh, procVars, CommandFits, DoneIsOver
  <2>2. /\ udev'[d][s].part = "meta" => s = 1
        /\ udev'[d][s].part = "other" => s \in {1, 2}
    <3>1. udev'[d][s] = Probed(table[d], kernel[d], content[d], s)
      BY <1>16 DEF UdevRefresh, UdevTruth, TypeOK
    <3> QED BY <1>c, <3>1, ProbedTidy DEF TidyView
  <2>3. \A e \in Disks, t \in Slots :
          e # d \/ t # s => udev'[e][t] = udev[e][t]
    BY <1>16 DEF UdevRefresh, TypeOK
  <2>4. TidyView'
    BY <1>16, <1>c, <2>2, <2>3 DEF UdevRefresh, procVars, TidyView
  <2> QED BY <2>1, <2>4 DEF Control
<1>17. ASSUME PowerLoss PROVE Control'
  <2>1. CommandFits' /\ DoneIsOver'
    BY <1>17, <1>c DEF PowerLoss, CommandFits, DoneIsOver
  <2>2. \A d \in Disks, s \in Slots :
          udev'[d][s] = Probed(table[d], kernel'[d], content'[d], s)
    BY <1>17 DEF PowerLoss
  <2>3. TidyView'
    BY <1>17, <1>c, <2>2, ProbedTidy DEF PowerLoss, TidyView
  <2> QED BY <2>1, <2>3 DEF Control
<1>18. ASSUME UNCHANGED vars PROVE Control'
  BY <1>18, <1>c DEF vars, diskVars, procVars, Control, CommandFits,
     DoneIsOver, TidyView
<1> QED
  BY <1>1, <1>2, <1>3, <1>4, <1>5, <1>6, <1>7, <1>8, <1>9, <1>10, <1>11, <1>12,
     <1>13, <1>14, <1>15, <1>16, <1>17, <1>18
  DEF Next, Work, InitializeBlockDevice, VolumeQueryMatch

-------------------------------------------------------------------------------
(* Owners.                                                                   *)

\* Nobody owns a disk in the initial state.
LEMMA OwnedInit == Init => Owned
<1> SUFFICES ASSUME Init PROVE Owned
  OBVIOUS
<1>1. \A p \in Procs, d \in Disks : ~Initializing(p, d)
  BY DEF Init, Initializing, InitSteps
<1>2. ReadyWhenDone
  BY DEF Init, ReadyWhenDone
<1>3. LabelDurableBeforeFormat
  BY DEF Init, LabelDurableBeforeFormat, NoClaim
<1> QED BY <1>1, <1>2, <1>3 DEF Owned, SoleOwner, Progress

\* A step that leaves the media and the claims alone keeps what is owned:
\* process p stays, ends, or goes on to a step that needs nothing new.
LEMMA QuietStep ==
  ASSUME Owned, TypeOK, NEW p \in Procs,
         UNCHANGED <<table, content, platter, ledger, job>>,
         \A x \in Procs : x # p => pc'[x] = pc[x] /\ result'[x] = result[x],
         result'[p] = "ok" => result[p] = "ok",
         \/ pc'[p] \in {pc[p], "idle"}
         \/ job[p].op = "query-device"
         \/ <<pc[p], pc'[p]>> \in {<<"partprobe", "check">>,
                                   <<"check", "write">>, <<"open", "mkfs">>}
  PROVE  Owned'
<1>1. \A x \in Procs, d \in Disks : Initializing(x, d)' =>
        /\ Initializing(x, d)
        /\ \/ pc'[x] = pc[x]
           \/ <<pc[x], pc'[x]>> \in {<<"partprobe", "check">>,
                                     <<"check", "write">>, <<"open", "mkfs">>}
  BY DEF Initializing, InitSteps
<1>2. SoleOwner'
  BY <1>1 DEF Owned, SoleOwner
<1>3. Progress'
  BY <1>1 DEF Owned, Progress
<1>4. ReadyWhenDone'
  BY DEF Owned, ReadyWhenDone, Provisioned, Dev
<1>5. LabelDurableBeforeFormat'
  BY DEF Owned, LabelDurableBeforeFormat
<1> QED BY <1>2, <1>3, <1>4, <1>5 DEF Owned

\* A step of p's initialization of disk d that is not a claim: it keeps the
\* tables and the ledger's owner, touches no other disk, and nobody else is
\* initializing d alone.
LEMMA OthersKeep ==
  ASSUME Owned, TypeOK, NEW p \in Procs, NEW d \in Disks, Initializing(p, d),
         UNCHANGED <<table, job>>,
         \A x \in Procs : x # p => pc'[x] = pc[x] /\ result'[x] = result[x],
         pc'[p] \in InitSteps \cup {"idle"},
         \A e \in Disks : /\ ledger'[e].by = ledger[e].by
                         /\ ledger'[e].job = ledger[e].job
                         /\ ledger'[e].mixed = ledger[e].mixed,
         \A e \in Disks : e # d => /\ content'[e] = content[e]
                                  /\ platter'[e] = platter[e]
                                  /\ ledger'[e] = ledger[e]
  PROVE  /\ SoleOwner'
         /\ \A x \in Procs, e \in Disks :
              Initializing(x, e)' /\ ~ledger'[e].mixed /\ <<x, e>> # <<p, d>> =>
                e # d /\ Initializing(x, e) /\ pc'[x] = pc[x]
         /\ \A x \in Procs :
              /\ result'[x] = "ok" /\ ledger'[Dev(x)].by = x
              /\ ~ledger'[Dev(x)].mixed /\ x # p
              => Provisioned(Dev(x), job[x])'
         /\ \A e \in Disks :
              ledger'[e].formatted /\ ~ledger'[e].mixed /\ e # d =>
                /\ platter'[e][1] = LabelFor(ledger'[e].job)
                /\ content'[e][1] = LabelFor(ledger'[e].job)
<1>1. \A x \in Procs, e \in Disks :
        Initializing(x, e)' => Initializing(x, e) /\ (x = p => e = d)
  BY DEF Initializing, InitSteps
<1>2. SoleOwner'
  BY <1>1 DEF Owned, SoleOwner
<1>3. ASSUME NEW x \in Procs, NEW e \in Disks, Initializing(x, e)',
             ~ledger'[e].mixed, <<x, e>> # <<p, d>>
      PROVE  e # d /\ Initializing(x, e) /\ pc'[x] = pc[x]
  <2>1. Initializing(x, e) /\ x # p
    BY <1>1, <1>3
  <2>2. e # d
    BY <1>3, <2>1 DEF Owned, SoleOwner
  <2> QED BY <2>1, <2>2
<1>4. ASSUME NEW x \in Procs, result'[x] = "ok", ledger'[Dev(x)].by = x,
             ~ledger'[Dev(x)].mixed, x # p
      PROVE  Provisioned(Dev(x), job[x])'
  <2>1. Dev(x) \in Disks
    BY DevType
  <2>2. Provisioned(Dev(x), job[x])
    BY <1>4, <2>1 DEF Owned, ReadyWhenDone
  <2>3. Dev(x) # d
    BY <1>4, <2>1 DEF Owned, SoleOwner
  <2> QED BY <2>1, <2>2, <2>3 DEF Provisioned, Dev
<1>5. ASSUME NEW e \in Disks, ledger'[e].formatted, ~ledger'[e].mixed, e # d
      PROVE  /\ platter'[e][1] = LabelFor(ledger'[e].job)
             /\ content'[e][1] = LabelFor(ledger'[e].job)
  BY <1>5 DEF Owned, LabelDurableBeforeFormat
<1> QED BY <1>2, <1>3, <1>4, <1>5

\* Claiming a disk: whoever else was initializing it has lost it.
LEMMA SgdiskOwned ==
  ASSUME TypeOK, Control, Owned, NEW p \in Procs, Sgdisk(p)
  PROVE  Owned'
<1> DEFINE d == Dev(p)
<1>1. /\ d \in Disks /\ d = job[p].disk /\ pc[p] = "sgdisk"
      /\ result[p] # "ok" /\ UNCHANGED <<content, platter, job>>
  BY DevType DEF Sgdisk, Dev, Control, DoneIsOver
<1>2. /\ \A x \in Procs : x # p => pc'[x] = pc[x] /\ result'[x] = result[x]
      /\ pc'[p] \in {"partprobe", "idle"} /\ result'[p] # "ok"
      /\ pc'[p] = "partprobe" => table'[d] = SimpleTable
      /\ \A e \in Disks : e # d => table'[e] = table[e]
  BY <1>1, SimpleTableType DEF Sgdisk, Goto, Return, TypeOK
<1>3. /\ ledger'[d] = [by |-> p, job |-> job[p], formatted |-> FALSE,
                      mixed |-> \E x \in Procs \ {p} : Initializing(x, d)]
      /\ \A e \in Disks : e # d => ledger'[e] = ledger[e]
  BY <1>1 DEF Sgdisk, Claim, TypeOK
<1>4. \A x \in Procs, e \in Disks : Initializing(x, e)' =>
        IF x = p THEN e = d /\ pc'[p] = "partprobe" ELSE Initializing(x, e)
  <2> SUFFICES ASSUME NEW x \in Procs, NEW e \in Disks, Initializing(x, e)'
      PROVE  IF x = p THEN e = d /\ pc'[p] = "partprobe" ELSE Initializing(x, e)
    OBVIOUS
  <2>1. CASE x = p
    BY <2>1, <1>1, <1>2 DEF Initializing, InitSteps
  <2>2. CASE x # p
    BY <2>2, <1>1, <1>2 DEF Initializing
  <2> QED BY <2>1, <2>2
<1>5. \A x \in Procs, e \in Disks :
        Initializing(x, e)' /\ ~ledger'[e].mixed => (x = p <=> e = d)
  BY <1>3, <1>4
<1>6. SoleOwner'
  BY <1>1, <1>2, <1>3, <1>4, <1>5 DEF Owned, SoleOwner
<1>7. Progress'
  BY <1>1, <1>2, <1>3, <1>4, <1>5 DEF Owned, Progress
<1>8. ReadyWhenDone'
  <2> SUFFICES ASSUME NEW x \in Procs, result'[x] = "ok",
                      ledger'[Dev(x)].by = x, ~ledger'[Dev(x)].mixed
               PROVE  Provisioned(Dev(x), job[x])'
    BY <1>1 DEF ReadyWhenDone, Dev
  <2>1. x # p /\ result[x] = "ok" /\ Dev(x) \in Disks
    BY <1>2, DevType
  <2>2. Dev(x) # d
    BY <2>1, <1>3
  <2> QED BY <2>1, <2>2, <1>1, <1>2, <1>3
         DEF Owned, ReadyWhenDone, Provisioned, Dev
<1>9. LabelDurableBeforeFormat'
  BY <1>1, <1>3 DEF Owned, LabelDurableBeforeFormat
<1> QED BY <1>6, <1>7, <1>8, <1>9 DEF Owned

\* Writing and syncing the label: nothing is formatted yet.
LEMMA LabelStepOwned ==
  ASSUME TypeOK, Control, Owned, NEW p \in Procs, WriteLabel(p) \/ SyncLabel(p)
  PROVE  Owned'
<1> DEFINE d == Dev(p)
<1>0. UNCHANGED <<table, ledger, job>> /\ pc[p] \in {"write", "sync"}
  BY DEF WriteLabel, SyncLabel, ghostVars
<1>1. /\ d \in Disks /\ d = job[p].disk /\ LabelDev(p) = 1
      /\ result[p] # "ok" /\ UNCHANGED <<table, ledger, job>>
  BY <1>0, DevType DEF Dev, LabelDev, Control, DoneIsOver, TidyView
<1>2. Initializing(p, d) /\ pc[p] \in {"write", "sync"}
  BY DEF WriteLabel, SyncLabel, Initializing, InitSteps, Control, CommandFits,
     Dev
<1>3. /\ \A x \in Procs : x # p => pc'[x] = pc[x] /\ result'[x] = result[x]
      /\ pc'[p] \in {"sync", "format", "mkfs", "idle"} /\ result'[p] # "ok"
  BY <1>1 DEF WriteLabel, SyncLabel, Goto, Return, TypeOK
<1>4. \A e \in Disks : e # d => content'[e] = content[e] /\ platter'[e] = platter[e]
  BY <1>1 DEF WriteLabel, SyncLabel, TypeOK
<1>5. pc'[p] # "idle" =>
        /\ pc'[p] = "sync" =>
             pc[p] = "write" /\ content'[d][1] = LabelFor(job[p])
        /\ pc'[p] # "sync" => /\ pc[p] = "sync" /\ content' = content
                             /\ platter'[d][1] = content[d][1]
  BY <1>1, HostAssumption DEF WriteLabel, SyncLabel, Goto, Return, TypeOK
<1>6. pc'[p] \in InitSteps \cup {"idle"}
  BY <1>3 DEF InitSteps
<1>7. /\ SoleOwner'
      /\ \A x \in Procs, e \in Disks :
           Initializing(x, e)' /\ ~ledger'[e].mixed /\ <<x, e>> # <<p, d>> =>
             e # d /\ Initializing(x, e) /\ pc'[x] = pc[x]
      /\ \A x \in Procs :
           /\ result'[x] = "ok" /\ ledger'[Dev(x)].by = x
           /\ ~ledger'[Dev(x)].mixed /\ x # p
           => Provisioned(Dev(x), job[x])'
      /\ \A e \in Disks :
           ledger'[e].formatted /\ ~ledger'[e].mixed /\ e # d =>
             /\ platter'[e][1] = LabelFor(ledger'[e].job)
             /\ content'[e][1] = LabelFor(ledger'[e].job)
  BY <1>1, <1>2, <1>3, <1>4, <1>6, OthersKeep
<1>8. ~ledger[d].mixed => /\ ~ledger[d].formatted
                          /\ pc[p] = "sync" => content[d][1] = LabelFor(job[p])
  BY <1>1, <1>2 DEF Owned, Progress
<1>9. Progress'
  <2> SUFFICES ASSUME NEW x \in Procs, NEW e \in Disks,
                      Initializing(x, e)', ~ledger'[e].mixed
      PROVE  /\ pc'[x] \in {"partprobe", "check", "write", "sync"}
                  => ~ledger'[e].formatted
             /\ pc'[x] \in {"sync", "format", "open", "mkfs", "close"}
                  => content'[e][1] = LabelFor(job'[x])
             /\ pc'[x] \in {"format", "open", "mkfs", "close"}
                  => platter'[e][1] = LabelFor(job'[x])
    BY DEF Progress
  <2>1. CASE <<x, e>> = <<p, d>>
    BY <2>1, <1>1, <1>3, <1>5, <1>8
  <2>2. CASE <<x, e>> # <<p, d>>
    BY <2>2, <1>1, <1>4, <1>7 DEF Owned, Progress
  <2> QED BY <2>1, <2>2
<1>10. ReadyWhenDone'
  BY <1>1, <1>3, <1>7 DEF ReadyWhenDone, Dev
<1>11. LabelDurableBeforeFormat'
  BY <1>1, <1>7, <1>8 DEF LabelDurableBeforeFormat
<1> QED BY <1>7, <1>9, <1>10, <1>11 DEF Owned

\* Formatting the data partition: the label is on the platter, and stays.
LEMMA FormatStepOwned ==
  ASSUME TypeOK, Control, Owned, NEW p \in Procs, LuksFormat(p) \/ Mkfs(p)
  PROVE  Owned'
<1> DEFINE d == Dev(p)
<1>1. /\ d \in Disks /\ d = job[p].disk /\ DataDev(p) = 2
      /\ result[p] # "ok" /\ UNCHANGED <<table, job>>
  BY DevType DEF LuksFormat, Mkfs, Dev, DataDev, Control, DoneIsOver, TidyView
<1>2. Initializing(p, d) /\ pc[p] \in {"format", "mkfs"}
  BY DEF LuksFormat, Mkfs, Initializing, InitSteps, Control, CommandFits, Dev
<1>3. /\ \A x \in Procs : x # p => pc'[x] = pc[x] /\ result'[x] = result[x]
      /\ pc'[p] \in {"open", "close", "idle"}
  BY <1>1 DEF LuksFormat, Mkfs, FinishSetup, Goto, Return, TypeOK
<1>4. /\ \A e \in Disks : e # d => /\ content'[e] = content[e]
                                 /\ platter'[e] = platter[e]
                                 /\ ledger'[e] = ledger[e]
      /\ content'[d][1] = content[d][1] /\ platter'[d][1] = platter[d][1]
  <2>1. \/ UNCHANGED <<content, platter>>
        \/ \E c : Overwrite(p, 2, c)
    BY <1>1 DEF LuksFormat, Mkfs
  <2>2. MarkFormatted(p) \/ UNCHANGED ledger
    BY DEF LuksFormat, Mkfs, ghostVars
  <2>3. \A e \in Disks : e # d => ledger'[e] = ledger[e]
    BY <2>2 DEF MarkFormatted, TypeOK
  <2>4. ASSUME NEW c, Overwrite(p, 2, c)
        PROVE  /\ \A e \in Disks : e # d => /\ content'[e] = content[e]
                                          /\ platter'[e] = platter[e]
               /\ content'[d][1] = content[d][1]
               /\ platter'[d][1] = platter[d][1]
    BY <2>4, <1>1, HostAssumption DEF Overwrite, TypeOK
  <2> QED BY <2>1, <2>3, <2>4
<1>5. \A e \in Disks : /\ ledger'[e].by = ledger[e].by
                      /\ ledger'[e].job = ledger[e].job
                      /\ ledger'[e].mixed = ledger[e].mixed
  BY <1>1 DEF LuksFormat, Mkfs, MarkFormatted, ghostVars, TypeOK
<1>6. result'[p] = "ok" => /\ content'[d][2] = VolumeFor(QueryOf(p))
                           /\ platter'[d][2] = VolumeFor(QueryOf(p))
  BY <1>1, HostAssumption
  DEF LuksFormat, Mkfs, Overwrite, FinishSetup, Goto, Return, TypeOK
<1>7. pc'[p] \in InitSteps \cup {"idle"}
  BY <1>3 DEF InitSteps
<1>8. /\ SoleOwner'
      /\ \A x \in Procs, e \in Disks :
           Initializing(x, e)' /\ ~ledger'[e].mixed /\ <<x, e>> # <<p, d>> =>
             e # d /\ Initializing(x, e) /\ pc'[x] = pc[x]
      /\ \A x \in Procs :
           /\ result'[x] = "ok" /\ ledger'[Dev(x)].by = x
           /\ ~ledger'[Dev(x)].mixed /\ x # p
           => Provisioned(Dev(x), job[x])'
      /\ \A e \in Disks :
           ledger'[e].formatted /\ ~ledger'[e].mixed /\ e # d =>
             /\ platter'[e][1] = LabelFor(ledger'[e].job)
             /\ content'[e][1] = LabelFor(ledger'[e].job)
  BY <1>1, <1>2, <1>3, <1>4, <1>5, <1>7, OthersKeep
<1>9. ~ledger'[d].mixed => /\ content'[d][1] = LabelFor(job[p])
                           /\ platter'[d][1] = LabelFor(job[p])
                           /\ ledger'[d].job = job[p] /\ table[d] = SimpleTable
  BY <1>1, <1>2, <1>4, <1>5 DEF Owned, SoleOwner, Progress
<1>10. Progress'
  <2> SUFFICES ASSUME NEW x \in Procs, NEW e \in Disks,
                      Initializing(x, e)', ~ledger'[e].mixed
      PROVE  /\ pc'[x] \in {"partprobe", "check", "write", "sync"}
                  => ~ledger'[e].formatted
             /\ pc'[x] \in {"sync", "format", "open", "mkfs", "close"}
                  => content'[e][1] = LabelFor(job'[x])
             /\ pc'[x] \in {"format", "open", "mkfs", "close"}
                  => platter'[e][1] = LabelFor(job'[x])
    BY DEF Progress
  <2>1. CASE <<x, e>> = <<p, d>>
    BY <2>1, <1>1, <1>3, <1>9
  <2>2. CASE <<x, e>> # <<p, d>>
    BY <2>2, <1>1, <1>4, <1>8 DEF Owned, Progress
  <2> QED BY <2>1, <2>2
<1>11. ReadyWhenDone'
  BY <1>1, <1>6, <1>8, <1>9 DEF ReadyWhenDone, Provisioned, Dev, QueryOf
<1>12. LabelDurableBeforeFormat'
  BY <1>8, <1>9 DEF LabelDurableBeforeFormat
<1> QED BY <1>8, <1>10, <1>11, <1>12 DEF Owned

\* A process that starts a command gives up its earlier success.
LEMMA CommandOwned ==
  ASSUME TypeOK, Owned, NEW p \in Procs, Command(p)
  PROVE  Owned'
<1>1. /\ UNCHANGED <<table, content, platter, ledger>>
      /\ \A x \in Procs : x # p => /\ pc'[x] = pc[x] /\ job'[x] = job[x]
                                 /\ result'[x] = result[x]
      /\ pc'[p] \in {"sgdisk", "lookup", "idle"} /\ result'[p] # "ok"
  BY DEF Command, ForceInitDisk, Cancel, CheckVolumeQuery, Launch, diskVars,
     TypeOK
<1>2. \A x \in Procs, d \in Disks :
        Initializing(x, d)' => x # p /\ Initializing(x, d)
  BY <1>1 DEF Initializing, InitSteps
<1>3. SoleOwner' /\ Progress'
  BY <1>1, <1>2 DEF Owned, SoleOwner, Progress
<1>4. ReadyWhenDone' /\ LabelDurableBeforeFormat'
  BY <1>1 DEF Owned, ReadyWhenDone, LabelDurableBeforeFormat, Provisioned, Dev
<1> QED BY <1>3, <1>4 DEF Owned

\* After a power loss nobody is at work, and what was on the platter as in the
\* page cache is unharmed.
LEMMA PowerLossOwned ==
  ASSUME TypeOK, Owned, PowerLoss PROVE Owned'
<1>1. \A p \in Procs, d \in Disks : ~Initializing(p, d)'
  BY DEF PowerLoss, Initializing, InitSteps
<1>2. \A d \in Disks, s \in Slots : content[d][s] = platter[d][s] =>
        content'[d][s] = content[d][s] /\ platter'[d][s] = content[d][s]
  BY DEF PowerLoss
<1>3. ReadyWhenDone'
  <2> SUFFICES ASSUME NEW p \in Procs, result'[p] = "ok",
                      ledger[Dev(p)].by = p, ~ledger[Dev(p)].mixed
               PROVE  Provisioned(Dev(p), job[p])'
    BY DEF ReadyWhenDone, PowerLoss, Dev
  <2>1. Provisioned(Dev(p), job[p])
    BY DEF Owned, ReadyWhenDone, PowerLoss
  <2> QED BY <2>1, <1>2, DevType, HostAssumption DEF Provisioned, PowerLoss, Dev
<1>4. LabelDurableBeforeFormat'
  BY <1>2, HostAssumption DEF Owned, LabelDurableBeforeFormat, PowerLoss
<1> QED BY <1>1, <1>3, <1>4 DEF Owned, SoleOwner, Progress

\* Every step of the host respects the owner of every disk.
LEMMA OwnedStep ==
  ASSUME TypeOK, Control, Owned, [Next]_vars PROVE Owned'
<1>1. ASSUME NEW p \in Procs, Partprobe(p) PROVE Owned'
  BY <1>1, QuietStep DEF Partprobe, Goto, Return, ghostVars, TypeOK
<1>2. ASSUME NEW p \in Procs, CheckNewDevice(p) PROVE Owned'
  BY <1>2, QuietStep DEF CheckNewDevice, GetDiskLabelAndVolumePath, Goto,
     Return, diskVars, ghostVars, TypeOK
<1>3. ASSUME NEW p \in Procs, OpenForSetup(p) PROVE Owned'
  BY <1>3, QuietStep DEF OpenForSetup, Goto, Return, ghostVars, TypeOK
<1>4. ASSUME NEW p \in Procs, VolumeQueryMatch(p) PROVE Owned'
  <2>1. job[p].op = "query-device"
    BY <1>4 DEF VolumeQueryMatch, LookupDevice, ReadLabel, OpenForMatch, Probe,
       Control, CommandFits
  <2>2. /\ UNCHANGED <<table, content, platter, ledger, job>>
        /\ \A x \in Procs : x # p => pc'[x] = pc[x] /\ result'[x] = result[x]
        /\ result'[p] = "ok" => result[p] = "ok"
    BY <1>4 DEF VolumeQueryMatch, LookupDevice, ReadLabel, Rely, OpenForMatch,
       Probe, FinishMatch, GetDiskLabelAndVolumePath, Goto, Return, diskVars,
       ghostVars, TypeOK
  <2> QED BY <2>1, <2>2, QuietStep
<1>5. ASSUME NEW p \in Procs, Close(p) PROVE Owned'
  BY <1>5, QuietStep DEF Close, Goto, ghostVars, TypeOK
<1>6. ASSUME NEW p \in Procs, Kill(p) PROVE Owned'
  BY <1>6, QuietStep DEF Kill, Return, ghostVars, TypeOK
<1>7. ASSUME NEW d \in Disks, NEW s \in Slots, UdevRefresh(d, s) PROVE Owned'
  BY <1>7 DEF UdevRefresh, procVars, ghostVars, Owned, SoleOwner, Progress,
     ReadyWhenDone, LabelDurableBeforeFormat, Initializing, Provisioned, Dev
<1>8. ASSUME UNCHANGED vars PROVE Owned'
  BY <1>8 DEF vars, diskVars, procVars, ghostVars, Owned, SoleOwner, Progress,
     ReadyWhenDone, LabelDurableBeforeFormat, Initializing, Provisioned, Dev
<1> QED
  BY <1>1, <1>2, <1>3, <1>4, <1>5, <1>6, <1>7, <1>8, SgdiskOwned,
     LabelStepOwned, FormatStepOwned, CommandOwned, PowerLossOwned
  DEF Next, Work, InitializeBlockDevice

-------------------------------------------------------------------------------
(* The theorems.                                                             *)

\* The inductive invariant holds in every state of every behaviour.
THEOREM Invariance == ASSUME TidyDisks PROVE Spec => []IInv
<1>1. Init => IInv
  BY TypedInit, ControlInit, OwnedInit DEF IInv, Typed
<1>2. IInv /\ [Next]_vars => IInv'
  BY TypedStep, ControlStep, OwnedStep DEF IInv, Typed
<1> QED BY <1>1, <1>2, PTL DEF Spec

\* On hosts whose disks are tidy, a successful initialization has left exactly
\* the disk it was asked for, and the disk stays so until the next one begins.
THEOREM ProvisionedWhenDone ==
  ASSUME TidyDisks PROVE Spec => []ReadyWhenDone
<1>1. IInv => ReadyWhenDone
  BY DEF IInv, Owned
<1> QED BY Invariance, <1>1, PTL

\* On such hosts no volume is formatted before the label that describes it has
\* reached the platter.
THEOREM LabelFirst ==
  ASSUME TidyDisks PROVE Spec => []LabelDurableBeforeFormat
<1>1. IInv => LabelDurableBeforeFormat
  BY DEF IInv, Owned
<1> QED BY Invariance, <1>1, PTL

===============================================================================

---------------------------- MODULE VolumeLifecycle ----------------------------
(***************************************************************************)
(* What an administrator may rely on about a disk, whatever the host does: *)
(* the life of a simple disk as seen from its platter.                     *)
(*                                                                         *)
(*   shared -> begun -> formatted -> ready                                 *)
(*                                                                         *)
(* An initialization that nobody else disturbs first makes the label its   *)
(* own, and only then touches the volume; a volume that is complete stays  *)
(* so until the next initialization begins, and success is reported of a   *)
(* complete volume only.  Disks are independent of each other.             *)
(***************************************************************************)
CONSTANTS
  Disks,
  Jobs,         \* what a disk may be initialized for
  LabelOf(_),   \* the label that a job asks for
  VolumeOf(_),  \* the volume that a job asks for
  NoJob

VARIABLE disk   \* per disk: its phase, the job it is initialized for, the
                \* durable label and volume, and whether success is reported

\* The disk as found, or in the hands of several initializations at once.
Shared(d) == disk[d].phase = "shared"

Init ==
  /\ DOMAIN disk = Disks
  /\ \A d \in Disks : Shared(d) /\ disk[d].job = NoJob /\ ~disk[d].reported

-------------------------------------------------------------------------------
\* What a step changes of disk d: x lists the fields that may change.
Only(d, x) ==
  \A f \in {"phase", "job", "label", "volume", "reported"} \ x :
    disk'[d][f] = disk[d][f]

\* An initialization begins: what the disk holds is still there.
Begin(d) ==
  /\ disk'[d].phase = "begun" /\ disk'[d].job \in Jobs /\ ~disk'[d].reported
  /\ Only(d, {"phase", "job", "reported"})

\* Another one begins although the first is not over.
Share(d) ==
  /\ disk'[d].phase = "shared" /\ disk'[d].job = NoJob /\ ~disk'[d].reported
  /\ Only(d, {"phase", "job", "reported"})

\* Nothing is promised of a disk that is shared.
Scramble(d) ==
  /\ Shared(d)
  /\ Only(d, {"label", "volume"})

\* The label is written, torn by a crash, written again.
Relabel(d) ==
  /\ disk[d].phase = "begun"
  /\ Only(d, {"label"})

\* The volume is first touched, or touched again, under the job's own label,
\* and may become complete.
Format(d) ==
  /\ disk[d].phase \in {"begun", "formatted"}
  /\ disk[d].label = LabelOf(disk[d].job)
  /\ disk'[d].phase = IF disk'[d].volume = VolumeOf(disk[d].job)
                      THEN "ready" ELSE "formatted"
  /\ disk'[d].reported => disk'[d].phase = "ready"
  /\ Only(d, {"phase", "volume", "reported"})

\* The process that has reported its success goes on to other things.
Forget(d) ==
  /\ disk[d].reported /\ ~disk'[d].reported
  /\ Only(d, {"reported"})

Step(d) == \/ Begin(d) \/ Share(d) \/ Scramble(d) \/ Relabel(d) \/ Format(d)
           \/ Forget(d) \/ Only(d, {})

Next == DOMAIN disk' = Disks /\ \A d \in Disks : Step(d)

Spec == Init /\ [][Next]_disk

\* A reported success is that of a durable label and a durable volume.
ReportedIsDurable == \A d \in Disks : disk[d].reported =>
  /\ disk[d].label  = LabelOf(disk[d].job)
  /\ disk[d].volume = VolumeOf(disk[d].job)

===============================================================================

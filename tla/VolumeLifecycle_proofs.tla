------------------------ MODULE VolumeLifecycle_proofs -------------------------
(***************************************************************************)
(* What VolumeLifecycle promises, proved of it alone.                      *)
(***************************************************************************)
EXTENDS VolumeLifecycle, TLAPS

\* What each phase says of the durable label and volume.
PhaseHolds(d) ==
  /\ disk[d].phase \in {"formatted", "ready"} => disk[d].label = LabelOf(disk[d].job)
  /\ disk[d].phase = "ready" => disk[d].volume = VolumeOf(disk[d].job)
  /\ disk[d].reported => disk[d].phase = "ready"

\* Every step in the life of a disk keeps what its phase says.
LEMMA PhaseStep ==
  ASSUME NEW d \in Disks, PhaseHolds(d), Step(d) PROVE PhaseHolds(d)'
<1>1. CASE Begin(d) \/ Share(d)
  <2>1. disk'[d].phase \in {"begun", "shared"} /\ ~disk'[d].reported
    BY <1>1 DEF Begin, Share
  <2> QED BY <2>1 DEF PhaseHolds
<1>2. CASE Scramble(d) \/ Relabel(d)
  <2>1. /\ disk'[d].phase \in {"shared", "begun"}
        /\ disk'[d].phase = disk[d].phase
        /\ disk'[d].reported = disk[d].reported
    BY <1>2 DEF Scramble, Relabel, Shared, Only
  <2>2. ~disk'[d].reported
    BY <2>1 DEF PhaseHolds
  <2> QED BY <2>1, <2>2 DEF PhaseHolds
<1>3. CASE Format(d)
  <2>1. /\ disk'[d].job = disk[d].job /\ disk'[d].label = disk[d].label
        /\ disk[d].label = LabelOf(disk[d].job)
        /\ disk'[d].phase = "ready" => disk'[d].volume = VolumeOf(disk[d].job)
    BY <1>3 DEF Format, Only
  <2>2. disk'[d].reported => disk'[d].phase = "ready"
    BY <1>3 DEF Format
  <2> QED BY <2>1, <2>2 DEF PhaseHolds
<1>4. CASE Forget(d) \/ Only(d, {})
  <2>1. /\ disk'[d].phase = disk[d].phase /\ disk'[d].job = disk[d].job
        /\ disk'[d].label = disk[d].label /\ disk'[d].volume = disk[d].volume
    BY <1>4 DEF Forget, Only
  <2>2. disk'[d].reported => disk[d].reported
    BY <1>4 DEF Forget, Only
  <2> QED BY <2>1, <2>2 DEF PhaseHolds
<1> QED BY <1>1, <1>2, <1>3, <1>4 DEF Step

\* Success is only ever reported of a disk whose label and volume are durable.
THEOREM AbstractPromise == Spec => []ReportedIsDurable
<1> DEFINE Inv == \A d \in Disks : PhaseHolds(d)
<1>1. Init => Inv
  BY DEF Init, Shared, PhaseHolds
<1>2. Inv /\ [Next]_disk => Inv'
  <2>1. Inv /\ Next => Inv'
    BY PhaseStep DEF Next
  <2>2. Inv /\ UNCHANGED disk => Inv'
    BY DEF PhaseHolds
  <2> QED BY <2>1, <2>2
<1>3. Inv => ReportedIsDurable
  BY DEF PhaseHolds, ReportedIsDurable
<1> QED BY <1>1, <1>2, <1>3, PTL DEF Spec

===============================================================================

-------------------------- MODULE SimplectlLifecycle ---------------------------
(***************************************************************************)
(* Simplectl implements VolumeLifecycle: all the processes, udevd, kills   *)
(* and power losses of the host are, for each of its disks, steps of one   *)
(* abstract life.                                                          *)
(***************************************************************************)
EXTENDS SimplectlProps

\* The initialization that d is in the hands of alone, if any.
Alone(d) == ledger[d].by # None /\ ~ledger[d].mixed

\* The process that reports having initialized d.
Reports(p, d) == result[p] = "ok" /\ Dev(p) = d /\ ledger[d].by = p

PhaseOf(d) ==
  IF ~Alone(d) THEN "shared"
  ELSE IF ~ledger[d].formatted THEN "begun"
  ELSE IF platter[d][2] = VolumeFor(ledger[d].job.query) THEN "ready"
  ELSE "formatted"

\* Disk d as its owner sees it: what a power loss would leave, and what has
\* been reported.
LifeOf(d) ==
  [phase    |-> PhaseOf(d),
   job      |-> IF Alone(d) THEN ledger[d].job ELSE None,
   label    |-> platter[d][1],
   volume   |-> platter[d][2],
   reported |-> Alone(d) /\ \E p \in Procs : Reports(p, d)]

JobVolume(j) == VolumeFor(j.query)

Life == INSTANCE VolumeLifecycle
  WITH LabelOf <- LabelFor, VolumeOf <- JobVolume, NoJob <- None,
       disk <- [d \in Disks |-> LifeOf(d)]

\* Whatever the interleaving, and whatever crashes, each disk goes through the
\* phases in order: nothing is formatted under another label, a complete volume
\* is left alone until the next initialization, and success is reported of a
\* durable disk only.
ImplementsLifecycle == Life!Spec

===============================================================================

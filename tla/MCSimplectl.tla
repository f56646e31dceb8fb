----------------------------- MODULE MCSimplectl ------------------------------
(***************************************************************************)
(* Small instances of Simplectl: one disk with two or three partition      *)
(* numbers.                                                                *)
(***************************************************************************)
EXTENDS SimplectlLifecycle, TLC

CONSTANTS d1, p1, p2, labelA, labelB, key1, key2, ext4, xfs, host1, host2

TwoSlots   == {1, 2}
ThreeSlots == {1, 2, 3}

MCSectors == [d \in Disks |-> 4]

\* A query for a label, a passphrase and a filesystem.
For(label, key, fs) ==
  [label |-> label, key |-> key, fs |-> fs, ownHostname |-> FALSE,
   ownMachineId |-> FALSE, min |-> 0, max |-> 0]

InitJob(q, force) ==
  [op |-> "initialize-disk", disk |-> d1, query |-> q, host |-> host1,
   machine |-> None, force |-> force]

QueryJob(q) ==
  [op |-> "query-device", disk |-> d1, query |-> q, host |-> host1,
   machine |-> None, force |-> FALSE]

\* Disks as they may be found: blank, and provisioned earlier.
Blank == [table |-> [s \in Slots |-> "none"], content |-> [s \in Slots |-> Garbage]]

Simple(j) ==
  [table |-> SimpleTable,
   content |-> [s \in Slots |-> CASE s = 1 -> LabelFor(j)
                                  [] s = 2 -> VolumeFor(j.query)
                                  [] OTHER -> Garbage]]

PlainA     == For(labelA, None, ext4)
PlainB     == For(labelB, None, ext4)
EncryptedA == For(labelA, key1, ext4)
EncryptedB == For(labelB, key1, ext4)
WrongKey   == For(labelA, key2, ext4)

\* The same for disks that this very host has initialized.
Own(q) == [q EXCEPT !.ownHostname = TRUE, !.ownMachineId = TRUE]

Symmetry == Permutations(Procs)

-------------------------------------------------------------------------------
(* setup: two initializations of a blank or provisioned disk race, and the   *)
(* query that one of them is for, whose limit is just the size of the disk.  *)
SizedB     == [EncryptedB EXCEPT !.max = 4]
SetupJobs  == {InitJob(PlainA, FALSE), InitJob(SizedB, TRUE),
               QueryJob(Own(SizedB))}
TidyOld    == {Blank, Simple(InitJob(EncryptedA, FALSE))}

(* query: queries of every outcome race with a type change, on a disk whose  *)
(* old partitions simplectl would recognise too.                             *)
Spread == [table |-> [s \in Slots |-> CASE s = 2 -> "none"
                                         [] s = 3 -> "meta"
                                         [] OTHER -> "other"],
           content |-> [s \in Slots |->
             CASE s = 1 -> VolumeFor(PlainA)
               [] s = 3 -> LabelFor(InitJob(PlainA, FALSE))
               [] OTHER -> Garbage]]
QueryJobs == {InitJob(EncryptedB, TRUE), QueryJob(PlainA), QueryJob(EncryptedB),
              [QueryJob(Own(PlainA)) EXCEPT !.host = host2],
              QueryJob([WrongKey EXCEPT !.min = 5])}
QueryDisks == {Spread, Simple(InitJob(EncryptedA, FALSE))}

(* converge: one process repeats its commands for ever.                      *)
ConvergeJobs == {InitJob(EncryptedA, TRUE), InitJob(PlainB, TRUE),
                 QueryJob(Own(EncryptedA)), QueryJob(Own(PlainB))}

(* The documented claims.                                                    *)
NoFilesystem == For(labelB, None, None)
RetypeJobs   == {InitJob(NoFilesystem, TRUE), QueryJob(NoFilesystem)}
RetypeDisks  == {Simple(InitJob(PlainA, TRUE))}
StaleJobs    == {InitJob(PlainB, TRUE)}
\* A disk whose partition 1 is not metadata, as partition 2 is.
Swapped      == [table |-> [s \in Slots |-> IF s = 1 THEN "other" ELSE "meta"],
                 content |-> [s \in Slots |-> IF s = 1 THEN VolumeFor(PlainA)
                                             ELSE LabelFor(InitJob(PlainA, TRUE))]]
StaleDisks   == {Swapped}
LateJobs     == {InitJob(PlainA, TRUE), QueryJob(For(labelA, None, xfs))}
LateDisks    == {Simple(InitJob(For(labelA, None, xfs), TRUE))}

===============================================================================

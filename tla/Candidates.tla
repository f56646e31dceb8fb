------------------------------- MODULE Candidates -------------------------------
(***************************************************************************)
(* volumequery.GetCandidateDisks, which sorts the disks of the host into   *)
(* initialized, uninitialized and rejected ones for simplectl's list       *)
(* commands.  For every disk it queries the udev database several times:   *)
(*                                                                         *)
(*   enumerate -> disk -> partitions -> classify (-> disk ...)             *)
(*                                                                         *)
(* while disks come, go and are written by others, and udev follows with a *)
(* delay, the record of a disk and those of its partitions independently.  *)
(***************************************************************************)
EXTENDS Naturals

CONSTANTS
  Disks,       \* device paths, as numbers: the code sorts them
  MaxChanges,  \* bound: changes of media in a behaviour
  MaxFaults    \* bound: failing udev lookups in a behaviour

ASSUME CandidatesAssumption ==
  Disks \subseteq Nat /\ MaxChanges \in Nat /\ MaxFaults \in Nat

\* What a disk may be: not there, blank, holding a filesystem, an empty
\* partition table, simplectl's two partitions, any other partitions.
Media == {"absent", "blank", "filesystem", "table", "simple", "foreign"}

VARIABLES
  medium,     \* what each disk is
  diskRecord, \* udev's record of it: ID_FS_USAGE or ID_PART_TABLE_TYPE
  partRecord, \* udev's records of its partitions
  pc,
  todo,       \* the disks enumerated and not yet sorted
  parts,      \* the partitions found on the disk under consideration
  lists,      \* the three results
  changes, faults,
  quiet       \* history: disks udev knew, and unchanged, since the call began

hostVars == <<medium, diskRecord, partRecord, changes>>
callVars == <<pc, todo, parts, lists, faults>>
vars     == <<hostVars, callVars, quiet>>

\* The disk under consideration: the list of disks is sorted.
First(d) == d \in todo /\ \A e \in todo : d <= e

DiskView(m) == IF m \in {"absent", "blank", "filesystem"} THEN m ELSE "table"
PartView(m) == IF m \in {"simple", "foreign"} THEN m ELSE "none"

Settled(d) == /\ diskRecord[d] = DiskView(medium[d])
              /\ partRecord[d] = PartView(medium[d])

NoLists == [initialized |-> {}, uninitialized |-> {}, rejected |-> {}]

Fault == faults < MaxFaults /\ faults' = faults + 1

-------------------------------------------------------------------------------
(* The host.                                                                 *)

\* Somebody plugs in, pulls, partitions or formats a disk.
Change(d) == \E m \in Media \ {medium[d]} :
  /\ changes < MaxChanges
  /\ changes' = changes + 1
  /\ medium'  = [medium EXCEPT ![d] = m]
  /\ quiet'   = quiet \ {d}
  /\ UNCHANGED <<diskRecord, partRecord, callVars>>

Udev(d) ==
  /\ \/ /\ diskRecord[d] # DiskView(medium[d])
        /\ diskRecord' = [diskRecord EXCEPT ![d] = DiskView(medium[d])]
        /\ UNCHANGED partRecord
     \/ /\ partRecord[d] # PartView(medium[d])
        /\ partRecord' = [partRecord EXCEPT ![d] = PartView(medium[d])]
        /\ UNCHANGED diskRecord
  /\ UNCHANGED <<medium, changes, callVars, quiet>>

-------------------------------------------------------------------------------
(* The call.                                                                 *)

\* Any error ends the whole call.
Abort ==
  /\ pc' = "error"
  /\ UNCHANGED <<todo, parts, lists>>

Call ==
  /\ pc \in {"done", "error"}
  /\ pc'    = "enumerate"
  /\ lists' = NoLists
  /\ quiet' = {d \in Disks : Settled(d)}
  /\ UNCHANGED <<hostVars, todo, parts, faults>>

\* GetDevicePaths.
Enumerate ==
  /\ pc = "enumerate"
  /\ \/ /\ todo' = {d \in Disks : diskRecord[d] # "absent"}
        /\ pc' = IF todo' = {} THEN "done" ELSE "disk"
        /\ UNCHANGED <<parts, lists, faults>>
     \/ Fault /\ Abort
  /\ UNCHANGED <<hostVars, quiet>>

\* GetPartitionDevicesFromDiskPath looks up the disk's number...
FindDisk(d) ==
  /\ pc = "disk" /\ First(d)
  /\ \/ /\ diskRecord[d] # "absent"
        /\ pc' = "partitions"
        /\ UNCHANGED <<todo, parts, lists, faults>>
     \/ diskRecord[d] = "absent" /\ Abort /\ UNCHANGED faults
     \/ Fault /\ Abort
  /\ UNCHANGED <<hostVars, quiet>>

\* Mutated: the disk's own record is taken for that of its partitions.
RecordOfDisk(d) == diskRecord[d]

\* What udev has under ID_PART_ENTRY_DISK with the number of disk d.
PartitionsOf(d) == partRecord[d]

\* ... and then the partitions with that number.  The error of the second
\* lookup is dropped: no partitions are what the caller sees.
FindPartitions(d) ==
  /\ pc = "partitions" /\ First(d)
  /\ pc' = "classify"
  /\ \/ parts' = PartitionsOf(d) /\ UNCHANGED faults
     \/ parts' = "none" /\ Fault
  /\ UNCHANGED <<hostVars, todo, lists, quiet>>

\* Mutated: a disk without partitions is blank.
ReasonByPartitions(d) ==
  [none |-> "errBlankDisk", simple |-> "nil", foreign |-> "errWrongPartitions"][parts]

\* checkAndGetInitializedDisk: why disk d is not an initialized one.  Without
\* partitions its own record tells a blank disk from one that has a filesystem
\* or a partition table.  (The four reasons to refuse partitions are one here.)
FailReason(d) ==
  IF parts = "none"
  THEN [blank      |-> "errBlankDisk",
        filesystem |-> "errHasAFilesystem",
        table      |-> "errHasPartitionTable"][diskRecord[d]]
  ELSE [simple |-> "nil", foreign |-> "errWrongPartitions"][parts]

IsBlankDisk(reason) == reason = "errBlankDisk"

\* The list that the disk is appended to.
Verdict(d) == IF FailReason(d) = "nil" THEN "initialized"
              ELSE IF IsBlankDisk(FailReason(d)) THEN "uninitialized"
              ELSE "rejected"

\* Mutated: a rejected disk ends the loop.
TodoUnlessRejected(d) == IF Verdict(d) = "rejected" THEN {} ELSE todo \ {d}

\* The loop goes on with the other disks.
TodoAfter(d) == todo \ {d}

\* Without partitions the disk is looked up once more, and may be gone by then.
Classify(d) ==
  /\ pc = "classify" /\ First(d)
  /\ \/ /\ parts # "none" \/ diskRecord[d] # "absent"
        /\ lists' = [lists EXCEPT ![Verdict(d)] = @ \cup {d}]
        /\ todo'  = TodoAfter(d)
        /\ pc'    = IF todo' = {} THEN "done" ELSE "disk"
        /\ UNCHANGED <<parts, faults>>
     \/ parts = "none" /\ diskRecord[d] = "absent" /\ Abort /\ UNCHANGED faults
     \/ parts = "none" /\ Fault /\ Abort
  /\ UNCHANGED <<hostVars, quiet>>

\* list-initialized-candidates, list-uninitialized-candidates and
\* list-rejected-candidates print one list each, and an error prints none.
Listing(list) == IF pc = "done" THEN lists[list] ELSE {}

-------------------------------------------------------------------------------
Init ==
  /\ medium \in [Disks -> Media]
  /\ diskRecord = [d \in Disks |-> DiskView(medium[d])]
  /\ partRecord = [d \in Disks |-> PartView(medium[d])]
  /\ pc = "done" /\ todo = {} /\ parts = "none" /\ lists = NoLists
  /\ changes = 0 /\ faults = 0 /\ quiet = {}

Next ==
  \/ Call \/ Enumerate
  \/ \E d \in Disks : FindDisk(d) \/ FindPartitions(d) \/ Classify(d)
  \/ \E d \in Disks : Change(d) \/ Udev(d)

Spec == Init /\ [][Next]_vars

-------------------------------------------------------------------------------
\* Every variable keeps its type.
TypeOK ==
  /\ medium \in [Disks -> Media]
  /\ diskRecord \in [Disks -> {"absent", "blank", "filesystem", "table"}]
  /\ partRecord \in [Disks -> {"none", "simple", "foreign"}]
  /\ pc \in {"enumerate", "disk", "partitions", "classify", "done", "error"}
  /\ todo \in SUBSET Disks
  /\ parts \in {"none", "simple", "foreign"}
  /\ lists \in [{"initialized", "uninitialized", "rejected"} -> SUBSET Disks]
  /\ changes \in 0..MaxChanges /\ faults \in 0..MaxFaults
  /\ quiet \in SUBSET Disks

\* A disk that nobody touches during the call is never offered for
\* initialization unless it is blank, nor taken for a simple disk unless it is
\* one, even when the lookup of its partitions fails and the failure is lost.
SafeToOffer == \A d \in quiet :
  /\ d \in Listing("uninitialized") => medium[d] = "blank"
  /\ d \in Listing("initialized")   => medium[d] = "simple"

\* Without failing lookups a call that returns has sorted every disk that was
\* there all along, each into the one list where it belongs.
SortedRight == pc = "done" /\ faults = 0 => \A d \in quiet :
  LET m == medium[d] IN
  /\ d \in Listing("uninitialized") <=> m = "blank"
  /\ d \in Listing("initialized")   <=> m = "simple"
  /\ d \in Listing("rejected")      <=> m \in {"filesystem", "table", "foreign"}

(* The inductive invariant of the proofs.                                    *)

\* A lookup of the partitions of d has seen what is there, or it has failed.
Seen(d) == parts = partRecord[d] \/ (parts = "none" /\ faults # 0)

\* Where d may be while it is quiet: not considered yet, or in its list.
Sorted(d) ==
  /\ d \in lists["uninitialized"] => medium[d] = "blank"
  /\ d \in lists["initialized"]   => medium[d] = "simple"
  /\ d \in lists["rejected"]      =>
       faults # 0 \/ medium[d] \in {"filesystem", "table", "foreign"}
  /\ pc \notin {"enumerate", "error"} => \/ d \in todo
                                        \/ medium[d] = "absent"
                                        \/ \E l \in DOMAIN lists : d \in lists[l]

\* What the call knows of a quiet disk.
Known(d) ==
  /\ Settled(d)
  /\ Sorted(d)
  /\ pc = "classify" /\ First(d) => Seen(d)
  /\ pc = "enumerate" => \A l \in DOMAIN lists : d \notin lists[l]

\* Every quiet disk, at every point of the call, is where it belongs.
IInv == /\ TypeOK
        /\ pc = "done" => todo = {}
        /\ \A d \in quiet : Known(d)

===============================================================================

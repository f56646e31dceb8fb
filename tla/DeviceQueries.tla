----------------------------- MODULE DeviceQueries -----------------------------
(***************************************************************************)
(* The functions of volumequery that ask udev through getDevicesByDevNode, *)
(* once or twice: GetDevicePaths, GetFullSelectionRuleForDevice,           *)
(* GetPartitionDevicesFromDiskPath and GetDiskDeviceFromPartitionPath, and *)
(* simplectl's crosscheck, dump-device-rules piped into raw-udev-query.    *)
(***************************************************************************)
EXTENDS DeviceSelection

CONSTANTS
  Queries,       \* the calls: [fn, node, rules], of a device node or with rules
  Joined(_, _),  \* the text "<major>:<minor>"
  DiskTuple(_),  \* such a text, split at the colon again
  PartitionOf(_, _)  \* the kernel's own tree of devices

VARIABLES
  query,   \* the call
  lookup,  \* "first" or "second" while it asks udev, "over" once it has returned
  answer   \* what it returned: an error, "" for none, or the devices found

queryVars == <<vars, query, lookup, answer>>

-------------------------------------------------------------------------------
\* A property that a device may not have reads as the empty string.
Property(d, key) ==
  LET props == Database[d].props IN IF key \in DOMAIN props THEN props[key] ELSE ""

PropertyRule(values) ==
  [subsystems |-> <<>>, names |-> <<>>, tags |-> <<>>, attrs |-> {},
   props |-> {<<AsGlob(k), AsGlob(values[k])>> : k \in DOMAIN values}]

\* A string that is read as a pattern for itself.
Plain(s) == AsGlob(s) = {s} /\ AsGlob(s) # Malformed

Disks == {d \in Devices : Property(d, "DEVTYPE") = "disk"}

Number(d) == <<Property(d, "MAJOR"), Property(d, "MINOR")>>

\* The number of disk d as the records of its partitions have it.
NumberText(d) == Joined(Number(d)[1], Number(d)[2])

\* The kernel gives disks and partitions device nodes, and no two devices the
\* same one; a disk has a number of its own, of two decimals; a partition has a
\* disk, the number of which udev notes in the partition's record.
ASSUME UdevAssumption ==
  /\ \A d \in Devices : Property(d, "DEVNAME") = Database[d].node
  /\ \A d, e \in Devices : Database[d].node = Database[e].node
                             => d = e \/ Database[d].node = ""
  /\ \A d \in Devices : Property(d, "DEVTYPE") \in {"disk", "partition"}
                          => Database[d].node # ""
  /\ \A d \in Disks : /\ {"MAJOR", "MINOR"} \subseteq DOMAIN Database[d].props
                      /\ \A e \in Disks : Number(d) = Number(e) => d = e
                      /\ NumberText(d) # "" /\ DiskTuple(NumberText(d)) = Number(d)
  /\ \A p \in Devices, d \in Disks : PartitionOf(p, d) =>
       /\ Property(p, "DEVTYPE") = "partition"
       /\ Property(p, "ID_PART_ENTRY_DISK") = NumberText(d)
  /\ \A p \in Devices : Property(p, "DEVTYPE") = "partition"
                          => \E d \in Disks : PartitionOf(p, d)

\* Neither the keys nor the numbers that the code makes rules of have a
\* character with a meaning to filepath.Match.
ASSUME PlainAssumption ==
  /\ \A s \in {"DEVNAME", "DEVTYPE", "ID_PART_ENTRY_DISK", "MAJOR", "MINOR", "partition"} :
       Plain(s)
  /\ \A d \in Disks : Plain(Number(d)[1]) /\ Plain(Number(d)[2]) /\ Plain(NumberText(d))

\* The partitions of disk d are found by the disk's number ...
PartitionRule(d) == PropertyRule(
  [ID_PART_ENTRY_DISK |-> NumberText(d), DEVTYPE |-> "partition"])

\* Mutated: the minor number is left out.
MajorRule(tuple) == PropertyRule([MAJOR |-> tuple[1]])

\* ... and the disk of a partition by the number in the partition's record.
DiskRule(tuple) == PropertyRule([MAJOR |-> tuple[1], MINOR |-> tuple[2]])

-------------------------------------------------------------------------------
QueryInit ==
  /\ Init
  /\ query \in Queries
  /\ rules = IF query.fn = "GetDevicePaths" THEN query.rules ELSE <<PathRule(query.node)>>
  /\ lookup = "first"
  /\ answer = [error |-> "", found |-> <<>>]

Ask == lookup # "over" /\ (Enumerate \/ Filter \/ Collect)
                       /\ UNCHANGED <<query, lookup, answer>>

Ends(nth) == /\ lookup = nth
             /\ stage \in {"done", "errUdevDatabaseLookup", "errBadGlobPattern"}

Found == {devPaths[n] : n \in DOMAIN devPaths}

Fail(error) == /\ lookup' = "over"
               /\ answer' = [error |-> error, found |-> <<>>]
               /\ UNCHANGED <<vars, query>>

Return == /\ lookup' = "over"
          /\ answer' = [error |-> "", found |-> devPaths]
          /\ UNCHANGED <<vars, query>>

\* The function calls getDevicesByDevNode once more.
LookUp(rule2) ==
  /\ lookup' = "second"
  /\ rules' = <<rule2>> /\ rule' = 1
  /\ stage' = "enumerate" /\ current' = {} /\ devPaths' = <<>>
  /\ UNCHANGED <<query, answer>>

\* An error of the first lookup is returned as it is.
PassError == /\ Ends("first") /\ stage # "done"
             /\ Fail(stage)

\* The sorted list of the nodes, as a set.
GetDevicePaths ==
  /\ query.fn = "GetDevicePaths" /\ Ends("first") /\ stage = "done"
  /\ Return

\* The lookup of a path is expected to find one device.
NotTheOne ==
  /\ query.fn \in {"GetFullSelectionRuleForDevice",
                   "GetPartitionDevicesFromDiskPath", "crosscheck"}
  /\ Ends("first") /\ stage = "done"
  /\ \/ Cardinality(Found) > 1 /\ Fail("errGotMultipleDisksWhenExpectedOne")
     \/ Found = {} /\ Fail("errDiskNotFound")

GetFullSelectionRuleForDevice ==
  /\ query.fn = "GetFullSelectionRuleForDevice" /\ Ends("first") /\ stage = "done"
  /\ Cardinality(Found) = 1
  /\ Return

\* The error of the second lookup is dropped: nothing is found.
GetPartitionDevicesFromDiskPath ==
  /\ query.fn = "GetPartitionDevicesFromDiskPath"
  /\ \/ /\ Ends("first") /\ stage = "done"
        /\ \E d \in Found : Found = {d} /\ LookUp(PartitionRule(d))
     \/ Ends("second") /\ Return

\* The loop over the partitions found goes through a Go map in random order: it
\* panics if the first of them names no disk, and stops at one that disagrees
\* with the first.  Without any partition it is left with two empty numbers.
FindDiskNumber ==
  LET of(d) == Property(d, "ID_PART_ENTRY_DISK") IN
  \/ Found = {} /\ LookUp(DiskRule(<<"", "">>))
  \/ \E first \in Found :
       \/ of(first) = "" /\ Fail("panic")
       \/ /\ of(first) # ""
          /\ \E d \in Found : of(d) # of(first)
          /\ Fail("errGotMultipleDisksWhenExpectedOne")
       \/ /\ of(first) # ""
          /\ \A d \in Found : of(d) = of(first)
          /\ LookUp(DiskRule(DiskTuple(of(first))))

\* Here, too, the error of the second lookup is dropped.
GetDiskDeviceFromPartitionPath ==
  /\ query.fn = "GetDiskDeviceFromPartitionPath"
  /\ \/ Ends("first") /\ stage = "done" /\ FindDiskNumber
     \/ /\ Ends("second")
        /\ \/ Found = {} /\ Fail("errDiskNotFound")
           \/ Cardinality(Found) > 1 /\ Fail("errGotMultipleDisksWhenExpectedOne")
           \/ Cardinality(Found) = 1 /\ Return

\* The full rule of a device, printed and read back, with its tags in the random
\* order of a Go map.
Crosscheck ==
  /\ query.fn = "crosscheck"
  /\ \/ /\ Ends("first") /\ stage = "done"
        /\ \E d \in Found : /\ Found = {d}
                            /\ \E order \in SetToSeqs(Database[d].tags) :
                                 LookUp(FullRule(Database[d], order))
     \/ Ends("second") /\ stage = "done" /\ Return
     \/ Ends("second") /\ stage # "done" /\ Fail(stage)

QueryNext ==
  \/ Ask \/ PassError \/ NotTheOne
  \/ GetDevicePaths \/ GetFullSelectionRuleForDevice
  \/ GetPartitionDevicesFromDiskPath \/ GetDiskDeviceFromPartitionPath
  \/ Crosscheck

QuerySpec == QueryInit /\ [][QueryNext]_queryVars

-------------------------------------------------------------------------------
(* Properties.                                                               *)

At(node) == {d \in Devices : Database[d].node = node}

Lookup(fn) == lookup = "over" /\ query.fn = fn /\ Plain(query.node)

\* A device nothing of which has a meaning as a pattern, with one tag at most.
Patternless(dev) ==
  /\ Plain(dev.subsystem) /\ Plain(dev.name)
  /\ \A t \in dev.tags : Plain(t) /\ dev.tags = {t}
  /\ \A k \in DOMAIN dev.props : Plain(k) /\ Plain(dev.props[k])

\* The partition lookup of a disk finds exactly the partitions that the kernel
\* has for it, or none at all when an error of udev was lost on the way.  The
\* lookup of a partition's disk finds that disk or reports an error, and reports
\* none if udev did not fail and no other device has the disk's number.  A full
\* rule fed back as a selection never selects another device than its own, and
\* does select that one if its values read the same as patterns.
LookupsRight ==
  LET nodes == DOMAIN answer.found
      ok    == answer.error = "" IN
  /\ Lookup("GetPartitionDevicesFromDiskPath") /\ ok =>
       \A d \in Disks \cap At(query.node) :
         nodes = IF stage = "done"
                 THEN {Database[p].node : p \in {q \in Devices : PartitionOf(q, d)}}
                 ELSE {}
  /\ Lookup("GetDiskDeviceFromPartitionPath") =>
       \A p \in At(query.node), d \in Disks : PartitionOf(p, d) =>
         /\ ok => nodes = {Database[d].node}
         /\ stage = "done" /\ (\A e \in Devices \ {d} : Number(e) # Number(d)) => ok
  /\ Lookup("crosscheck") =>
       /\ nodes \subseteq {query.node}
       /\ ok /\ stage = "done" /\ (\A d \in At(query.node) : Patternless(Database[d]))
            => nodes = {query.node}

===============================================================================

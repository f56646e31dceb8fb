--------------------------------- MODULE Host ---------------------------------
(***************************************************************************)
(* The host that docker-simple-disk runs on, and the table of the          *)
(* simplectl processes running on it.                                      *)
(*                                                                         *)
(* A disk appears to the program in four layers that are updated at        *)
(* different times: the partition table on the medium (written by sgdisk), *)
(* the partition devices the kernel exposes (updated by partprobe), the    *)
(* udev database (updated by udevd, whenever it gets to it), and the bytes *)
(* of the partitions, which a write reaches in the page cache first and on *)
(* the platter when it is synced.  The modules VolumeSetup and             *)
(* VolumeMatch are the two procedures simplectl runs over this state, and  *)
(* Simplectl composes them.                                                *)
(***************************************************************************)
EXTENDS Naturals, FiniteSets

CONSTANTS
  Disks,      \* block devices of the host
  Procs,      \* simplectl processes
  Slots,      \* partition numbers; 1 and 2 are the ones simplectl creates
  Labels,     \* volume labels ("types")
  Keys,       \* encryption passphrases
  FSTypes,    \* filesystem types
  Names,      \* hostnames and machine ids
  None,       \* the empty string; also "no holder" and "not found"
  Leaked,     \* holder of a mapping whose process no longer exists
  Jobs,       \* the simplectl commands the administrator may issue
  OldDisks,   \* what a disk may hold when the host is first observed
  Sectors,    \* the sysfs "size" of each disk's data device, in sectors
  MaxFaults   \* bound: tool failures, kills and power losses in a behaviour

-------------------------------------------------------------------------------
(* Data.                                                                     *)

\* How checkAndGetInitializedDisk tells partitions apart: no partition, one
\* with the simple-metadata name and type UUID, any other one.
PartKinds == {"none", "meta", "other"}
Tables    == [Slots -> PartKinds]

\* The fields of a volume query that some live code reads.
Query == [label: Labels \cup {None}, key: Keys \cup {None},
          fs: FSTypes \cup {None}, ownHostname: BOOLEAN,
          ownMachineId: BOOLEAN, min: Nat, max: Nat]

\* A simplectl command line.  host and machine are the identity it works
\* with: the --hostname and --machine-id flags of initialize-disk, the
\* results of os.Hostname and GetMachineID in query-device.
Job == [op: {"initialize-disk", "query-device"}, disk: Disks, query: Query,
        host: Names \cup {None}, machine: Names \cup {None}, force: BOOLEAN]

VolumeLabel == [kind: {"label"}, label: Labels \cup {None},
                host: Names \cup {None}, machine: Names \cup {None},
                encrypted: BOOLEAN]

\* What the bytes of a partition are recognised as.  "owner" is a history
\* component: the label the filesystem, and so its data, was made for.
Garbage == [kind |-> "garbage"]
Plain   == [kind: {"plain"}, fs: FSTypes, owner: Labels \cup {None}]
Luks    == [kind: {"luks"}, key: Keys, fs: FSTypes \cup {None},
            owner: Labels \cup {None}]
Content == {Garbage} \cup VolumeLabel \cup Plain \cup Luks

\* One partition record of the udev database: its kind (DEVTYPE,
\* ID_PART_ENTRY_DISK, _NAME and _TYPE) and its ID_FS_TYPE property.
UdevRecord == [part: PartKinds, type: FSTypes \cup {None, "crypto_LUKS"}]

ASSUME HostAssumption ==
  /\ {1, 2} \subseteq Slots
  /\ None \notin UNION {Procs, Slots, Labels, Keys, FSTypes, Names}
  /\ Leaked \notin Procs \cup {None}
  /\ "crypto_LUKS" \notin FSTypes
  /\ Jobs \subseteq Job /\ Jobs # {}
  /\ OldDisks \subseteq [table: Tables, content: [Slots -> Content]]
  /\ Sectors \in [Disks -> Nat]
  /\ MaxFaults \in Nat

-------------------------------------------------------------------------------
VARIABLES
  table,      \* the partition table on each disk
  kernel,     \* the partition devices of each disk the kernel exposes
  udev,       \* the udev database, per disk and partition number
  content,    \* what each partition holds, as a read returns it
  platter,    \* what of it survives a power loss
  mapper,     \* the process holding an open dm-crypt mapping of a partition
  pc,         \* where each simplectl process is
  job,        \* the command it runs, or ran last
  found,      \* its labelDevice and dataDevice
  result,     \* how its last command ended
  faults,     \* failures so far
  ledger,     \* history: who last began to initialize a disk, and how far
  steady      \* history: no initialization has touched the process's disk
              \* since the process read its label

diskVars  == <<table, kernel, udev, content, platter, mapper>>
procVars  == <<pc, job, found, result>>
ghostVars == <<ledger, steady>>
vars      == <<diskVars, procVars, faults, ghostVars>>

Dev(p)      == job[p].disk
QueryOf(p)  == job[p].query
DataDev(p)  == found[p].data

\* Mutated: the two paths are confused.
DataForLabel(p) == found[p].data

LabelDev(p) == found[p].label

-------------------------------------------------------------------------------
(* Devices, and how udev sees them.                                          *)

SlotsOf(t) == {s \in Slots : t[s] # "none"}

\* The whole disk is busy while a mapping of one of its partitions is open.
Busy(d) == \E s \in Slots : mapper[d][s] # None

\* The ID_FS_TYPE that probing the content gives.
Signature(c) == CASE c.kind = "plain" -> c.fs
                  [] c.kind = "luks"  -> "crypto_LUKS"
                  [] OTHER            -> None

\* The record of partition s of a disk with table t, exposed partitions k and
\* content c.
Probed(t, k, c, s) ==
  IF s \in k THEN [part |-> t[s], type |-> Signature(c[s])]
             ELSE [part |-> "none", type |-> None]

UdevTruth(d, s) == Probed(table[d], kernel[d], content[d], s)

\* udevd handles one pending event: it probes the device as it is now.
UdevRefresh(d, s) ==
  /\ udev[d][s] # UdevTruth(d, s)
  /\ udev' = [udev EXCEPT ![d][s] = UdevTruth(d, s)]
  /\ UNCHANGED <<table, kernel, content, platter, mapper, procVars, faults,
                 ghostVars>>

-------------------------------------------------------------------------------
(* Control flow of a process.                                                *)

Goto(p, label) ==
  /\ pc' = [pc EXCEPT ![p] = label]
  /\ UNCHANGED result

Return(p, r) ==
  /\ pc'     = [pc EXCEPT ![p] = "idle"]
  /\ result' = [result EXCEPT ![p] = r]

\* A tool, a system call or a whole process fails without a cause in this
\* state: what remains after the failures the state explains.
Fault == faults < MaxFaults /\ faults' = faults + 1

\* History: process p has read the label of its disk.
Rely(p) == steady' = [steady EXCEPT ![p] = TRUE] /\ UNCHANGED ledger

\* History: process p changed the medium of its disk d; every other process
\* working on d can no longer rely on what it has read.
Disturb(p) ==
  steady' = [x \in Procs |-> steady[x] /\ (x = p \/ job[x].disk # Dev(p))]

-------------------------------------------------------------------------------
(* checkAndGetInitializedDisk: a disk is initialized when its partitions in  *)
(* the udev database are exactly one metadata partition l and one other x.   *)
(* Whatever order the map of partitions is ranged over, any other set ends   *)
(* in one of the failure reasons, which both callers report as an error.     *)

Initialized(d, l, x) ==
  /\ {s \in Slots : udev[d][s].part = "meta"}  = {l}
  /\ {s \in Slots : udev[d][s].part = "other"} = {x}

\* Mutated: the failure reason is not looked at, and the paths are empty.
PathsUnchecked(p, next) ==
  /\ found' = [found EXCEPT ![p] =
       IF \E l, x \in Slots : Initialized(Dev(p), l, x)
       THEN CHOOSE f \in [label: Slots, data: Slots] :
              Initialized(Dev(p), f.label, f.data)
       ELSE [label |-> None, data |-> None]]
  /\ Goto(p, next)
  /\ UNCHANGED faults

GetDiskLabelAndVolumePath(p, next) ==
  \/ \E l, x \in Slots :
       /\ Initialized(Dev(p), l, x)
       /\ found' = [found EXCEPT ![p] = [label |-> l, data |-> x]]
       /\ Goto(p, next)
       /\ UNCHANGED faults
  \/ /\ ~ \E l, x \in Slots : Initialized(Dev(p), l, x)
     /\ Return(p, "error")
     /\ UNCHANGED <<found, faults>>
  \/ /\ Fault                       \* the udev database lookup failed
     /\ Return(p, "error")
     /\ UNCHANGED found

-------------------------------------------------------------------------------
(* dm-crypt mappings.                                                        *)

\* cryptsetup takes a partition exclusively: it opens one that holds a LUKS
\* volume with this key and is neither mapped already nor gone.
CanOpen(d, s, key) ==
  /\ s \in kernel[d]
  /\ mapper[d][s] = None
  /\ content[d][s].kind = "luks"
  /\ content[d][s].key = key

\* The deferred Close.  When "cryptsetup close" fails nobody retries it.
Close(p) ==
  /\ pc[p] = "close"
  /\ Goto(p, "idle")
  /\ \/ /\ mapper' = [mapper EXCEPT ![Dev(p)][DataDev(p)] = None]
        /\ UNCHANGED faults
     \/ /\ Fault
        /\ mapper' = [mapper EXCEPT ![Dev(p)][DataDev(p)] = Leaked]
  /\ UNCHANGED <<table, kernel, udev, content, platter, job, found, ghostVars>>

===============================================================================

# docker-simple-disk: a verification project

TLA+ models of [docker-simple-disk](https://github.com/wrouesnel/docker-simple-disk),
a docker volume driver that provisions whole local disks ("simple disks"): a
volume name is a query, a disk is partitioned, labelled, optionally encrypted
and formatted to answer it, and found again by its label.  The models are
checked with TLC on small instances, and the central safety properties are
proved with TLAPS for every value of the constants.

Paths are relative to the repository (`src/` is its root).

## The system

| component | state | operations | what makes it correct |
|---|---|---|---|
| `volumesetup` | none of its own: the disk | `InitializeBlockDevice`: sgdisk, partprobe, check, write and sync the label, luksFormat, open, mkfs, close | a nil result means the disk is what the query asked for; the label is durable before anything is formatted; repeating the command repairs an interrupted one; the mapping is released |
| `volumequery/matcher` | none | `VolumeQueryMatch` | a match is true of the disk; a "no match" too; the mapping is released |
| `volumeaccess` | the dm-crypt mapping of a context | `OpenDevice`, `OpenEncryptedDevice`, `GetDevicePath`, `Close` | a mapping has exactly one holder |
| `volumequery/query` (devices) | a snapshot of the udev database | `getDevicesByDevNode` and the lookups on top of it | the result is the union over the rules of the devices that pass all the globs of the rule |
| `volumequery/candidatelogic` | three lists | `GetCandidateDisks`, `checkAndGetInitializedDisk` | a disk is offered for initialization only if it is blank |
| `volumequery/query` (label) | the metadata partition | `SerializeVolumeLabel`, `DeserializeVolumeLabel` | what is written is what is read |
| `volumelabel` | none | `MarshalVolumeLabel`, `UnmarshalVolumeLabel` | decoding restores what was encoded; a documented setting has its effect |
| `cmd/simplectl` | the command line | `initialize-disk`, `query-device`, the list commands, `raw-udev-query`, `dump-device-rules` | two commands on one disk do not spoil each other's results; a listing is right |
| `config` | the default selection rule | flags | the flags do what they say |
| `cmd/docker-simple-disk` | driver with a mutex | the plugin methods | all "Not implemented" |
| `fsutil` | the interrupt channel | `CheckExec*`, `MustExec*`, `Interrupt`, path helpers | a call that is over leaves no process; an interrupt ends every call; a call ends when the command has ended and nobody has its outputs open |
| `logutil` | the line buffer | `NewLogWriter`, `Write` | the log has every byte of every finished line |
| `volumequery/mountquery` | | | commented out |

The program is a library around external tools.  The disk is what its parts
share, and a disk is visible in four layers that change at different times:
the partition table on the medium (sgdisk), the partition devices of the kernel
(partprobe), the udev database (udevd, whenever it gets to it), and the bytes
of the partitions (page cache at a write, platter at a sync).  The hard
behaviours come from that: nothing serialises two processes, nothing waits for
udevd, a step may fail after half of its work, a process may be killed and the
power may fail between any two steps, nothing is rolled back, and a mapping
outlives a process that cannot close it.  `PROJECT.json` lists these hazards at
their lines.

`fsutil` and `logutil` are the concurrent part of the repository in the usual
sense: a call of `CheckExec` has a caller, a waiter, the copiers of `os/exec`, a
log goroutine per stream and a child process, and shares one unguarded variable
with `Interrupt`.  In this commit no command calls them (the packages
`volumesetup` and `volumeaccess` use the external `go.sysutil/executil`); they are
exported library code and modelled as such.

## The modules

```
Host                       disks, kernel, udev, page cache, mappings, processes
 |- VolumeSetup            InitializeBlockDevice
 |- VolumeMatch            VolumeQueryMatch
     Simplectl             both, any number of processes, kill, power loss, udevd
      SimplectlProps       what is claimed of it, and the inductive invariant
       |- Simplectl_proofs     types, IInv, ReadyWhenDone, LabelDurableBeforeFormat
       |   |- Mapping_proofs   MappingHeld, MappedVolumeStays, MatchSound, MadeIsFound
       |- SimplectlLifecycle   the refinement mapping to VolumeLifecycle
           |- Lifecycle_proofs     the refinement
           |- MCSimplectl          instances for TLC
VolumeLifecycle            what one may rely on about a disk (abstract)
 |- VolumeLifecycle_proofs
DeviceSelection            getDevicesByDevNode
 |- DeviceQueries          the lookups on top of it, simplectl's crosscheck
     |- DeviceSelection_proofs
     |- MCDeviceSelection
Candidates                 GetCandidateDisks          Candidates_proofs
LogWriter                  package logutil
 |- Exec                   CheckExec and Interrupt    Exec_proofs, MCExec
VolumeLabelCodec           package volumelabel
 |- VolumeLabelCodec_proofs, MCVolumeLabelCodec
```

**Host** declares the variables and the environment.  `table`, `kernel`,
`udev`, `content`, `platter` are the four layers per disk and partition number;
`mapper` says who holds the dm-crypt mapping of a partition (`Leaked`: a process
that is gone); `pc`, `job`, `found`, `result` are the processes.
`ledger` and `steady` are history: who last began to change a disk and whether
somebody else was at it, and whether a disk has been changed under a process.
No action reads them to decide anything.  `GetDiskLabelAndVolumePath` is here
because both procedures call it.

**VolumeSetup** and **VolumeMatch** have one action per external effect of the
two procedures, with the success, every early return and the failures: a
failure that the state explains (the disk is busy, the partition is gone, the
key is wrong) is always possible, one that it does not (`Fault`) is counted
against `MaxFaults`.  A tool that fails may have done its work, or have
destroyed what was there before.

**Simplectl** composes them: processes start any of the commands in `Jobs` at
any time, udevd refreshes one record at a time, `Kill` ends a process without
its deferred functions, `PowerLoss` keeps any subset of the unsynced writes and
restarts the host with what is on the disks.

**VolumeLifecycle** is the abstract specification: a disk is shared (as found, or
in the hands of several initializations), begun, formatted or ready, it has a
durable label and a durable volume, and success may be reported of it.  Its
actions say what may never happen: the volume is not touched under another
label, a complete volume changes only after the next initialization has begun,
success is reported of a complete volume.  **SimplectlLifecycle** maps the state
of `Simplectl` to it: phase and job from the ledger, label and volume from the
platter, `reported` from the result of the process that has the claim.

**DeviceSelection** runs the filter stage by stage, on a database and lists of
rules that are constants.  Go's random map order shows in two places: which of
several properties that do not match decides, and the order of the tags in a
full rule.  **DeviceQueries** adds the functions that call it once or twice; a
second lookup sets the same variables again.  udev may fail in either.

**Candidates** is the loop of `GetCandidateDisks`, each udev query an action of
its own; between two of them disks are plugged in, pulled and
formatted, and udev updates the record of a disk and those of its partitions
independently.

**LogWriter** is one goroutine per writer, and `Write` as two steps: the call, and the
hand-over of the slice, with which it returns.  The slice is a reference: until it has been
appended the caller may refill the memory, and every byte that is read may be the
old or the new one (`Copies`).  **Exec** adds the calls.  Each of the three lines
of `Interrupt` reads or writes the shared variable anew; `select` evaluates the
variable once, when it is reached.  A child that ends may leave descendants that
have inherited its outputs (`held`): `cmd.Wait` waits for the end of the pipes, so
until the last of them departs (`Depart`, which nothing forces) the call waits with
it.  A panic anywhere ends the program (`alive`), but not the children.

**VolumeLabelCodec** represents a string by what `strings.Split` makes of it, a
sequence of settings that are sequences of words.  The representation is exact
(`""` is a word), so concatenation with separators and splitting are modelled
by what they do.  `marshalType` and `unmarshalType` give the set of the possible results,
empty for an error.  Every integer field has its own limits (`Limits`), and the words
that are read for an unsigned one have no sign (`Readable`).

### Abstractions

* The content of a partition travels with its number: sgdisk and the medium are
  not modelled sector by sector.  A partition that keeps its number keeps its
  content; the GPT has the same two partitions after every initialization, for
  which this is exact.  After the first initialization of a foreign disk the
  partitions hold arbitrary old bytes; the model keeps the content of the old
  partition of that number, one of the possibilities, and every property about
  a finished initialization overwrites it.
* A glob is the set of the strings it matches.  Strings that the code reads as
  patterns although they are values go through `AsGlob`.  A malformed pattern is
  always reported, as `filepath.Match` does since Go 1.16.
* Fields of a query that no live code reads (`initialized`, `exclusive`,
  `basename`, `naming-style`, `min-disks`, `max-disks`, `dynamic-mounts`,
  `persist-numbering`) are left out of `Query`; cipher, key size and hash are
  passed to cryptsetup and change no control flow.
* Sizes are a constant per disk.
* In `DeviceQueries` both lookups of a function see the same database: that
  records change between two lookups is the subject of `Candidates`.
* A child of `Exec` has its output in hand from the start, and a copier reads
  any part of it at any time; a killed child may leave any part unread.  What
  the descendants of a child print is part of its output.  Standard
  input, environment and arguments are left out.  The prompt of
  `initialize-disk` decides only between `ForceInitDisk` and `Cancel`.

## The runs

| run | instance | shows |
|---|---|---|
| `setup` | 1 disk, 2 partition numbers, 2 processes, 2 faults, a plain and an encrypted job and a query for the second, blank and provisioned disks | `ReadyWhenDone`, `LabelDurableBeforeFormat`, `MappedVolumeStays`, and the inductive invariant `IInv` |
| `query` | the same with 3 partition numbers, 1 fault, one job that retypes the disk and four queries (by label, by key, by another host's identity, with a wrong key and a size) | `MatchSound` (label, key, size and filesystem), `MappingHeld`, `TypeOK` |
| `converge` | 1 process that repeats its commands for ever, 2 faults, fairness | `MappingReleased`, `RetryConverges`, `QueryConverges` |
| `candidates` | 2 disks, 2 changes of media, 1 failing lookup | `SafeToOffer`, `SortedRight`, and the inductive invariant `IInv` |
| `selection` | 7 devices, all lists of up to 2 of 17 rules; all lookups of 5 nodes, of one that is not there and of 3 patterns | `SelectionCorrect`, `LookupsRight` |
| `codec` | all structs of 2-4 values for 7 fields of different types and widths (8-bit signed and unsigned, a pointer to 16-bit), 272 texts typed by hand | `RoundTrip`, `SettingsApply` |
| `exec` | 2 calls, one of them a `MustExec`, 2 interrupts, one stream each, 3 bytes (two lines, one of them empty) on one of them, descendants | `CallsEndClean`, `LogAccounts`, `InterruptEndsCalls`, `ExitEndsCall`, and the inductive invariant `IInv` |

`setup` also checks `ImplementsLifecycle` and `MadeIsFound`, the latter for an encrypted volume.  The remaining runs (`retype`, `stale`,
`latematch`, `passphrase`, `interrupt`) check one documented claim each, and TLC
refutes it; see "Findings".

Bounds.  Processes meet on a disk only, so one disk has every interaction of
`Simplectl`; the proofs cover any number.  Two processes are enough for every
race of the code, which has no lock and no queue in which a third one could
wait.  Three partition numbers let udev mix the records of old and new
partitions in more ways than one, two faults let a failure hit the repair of an
earlier one.  In `candidates` two disks show that the loop goes on after a disk
and that todo and the lists are kept apart; two changes let a disk change and
change back.  In `selection` two rules show the reset of the device list and
the deduplication; the database has a device without a disk number, two that
share a number, and two without a node.  In `codec` the settings lie at the limits of
the fields, just outside of them, and within those of one width only.  In `exec` two
calls and two interrupts have every pairwise race of the shared variable; a byte and
two newlines can come as two lines in one write, as one line in two, and cut at either
newline, and be overwritten on their way; the proofs cover any number of calls,
streams and bytes.  Symmetry is used for
processes, in runs without liveness.

Fairness.  `Fairness` is weak fairness of every running process and of udevd's
handling of each record: the kernel schedules runnable processes, and udevd
eventually handles its events.  Nothing forces an administrator to issue a
command, or a fault to happen; `RetryConverges` and `QueryConverges` assume that
a command is repeated for ever, and state that it then succeeds again and again
unless somebody's leaked mapping keeps the disk busy for good - the one thing
that no repetition repairs.

In `Exec` the fairness is less than what the Go scheduler gives: while the program
is alive and some goroutine can go on, one eventually does.  That is enough, because
each goroutine has finitely many steps to take.  Nobody is obliged to start a
command, to interrupt one or, for a child or a descendant, to end.
`InterruptEndsCalls` thus speaks of children that run for ever, and `ExitEndsCall`
only of those that have ended and whose outputs nobody has open.

`CHECK_DEADLOCK FALSE` is set where a function call ends the behaviour
(`selection`, `codec` and the claims on them), and in `exec` and `interrupt`, where
all calls may be over or the program may have panicked.

## The proofs

### Simplectl

For all constants that satisfy `HostAssumption`:

* `TypeCorrect` (`Spec => []TypeOK`), from `Typed == TypeOK /\ Keyed` (only a query
  with a passphrase reaches the steps that use one);
* `MappingDiscipline` (`Spec => []MappingHeld`) in `Mapping_proofs`, from
  `Held` and `Holds`: a mapping and its holder point at each other at every step, and
  only a command with a passphrase has one;
* `MatchIsSound` (`Spec => []MatchSound`) in `Mapping_proofs`, too.  A match is put
  together from reads at different times, so the invariant `Findings` keeps, for
  every step of an undisturbed query, what it has read so far and that it is still
  true (`LabelFits`, `KeyFits`).  The filesystem of a plain volume is read in the last
  step, from the udev record, so it is right if the record is (`SimplectlProps!Answers`);
  the size does not change.

Assuming `TidyDisks` as well:

* `Invariance` (`Spec => []IInv`), and from it `ProvisionedWhenDone`
  (`ReadyWhenDone`) and `LabelFirst` (`LabelDurableBeforeFormat`).  `ReadyWhenDone` is not
  inductive: nothing in it says what an initialization that is still under way has
  achieved.  `IInv` adds that a process is at a step of its own command
  (`CommandFits`), that on tidy disks even a udev view that mixes old and new
  records names partition 1 as the label and 2 as the data (`TidyView`), that an
  initializer which was alone when it began is the one in the ledger and the table
  is its own (`SoleOwner`), and what such an initializer has made durable at each
  step (`Progress`).  `TypedInit`, `ControlInit`, `OwnedInit` and `TypedStep`,
  `ControlStep`, `OwnedStep` show that it is inductive, with one lemma per group of
  actions;
* `VolumeStays` (`MappedVolumeStays`) in `Mapping_proofs`, from `IInv`, `Held` and `Holds`:
  the tools that would destroy a mapped volume refuse a busy partition, and the
  label is written to partition 1, which is never the mapped one;
* `FoundWhenMade` (`Spec => MadeIsFound`, an action property) in `Mapping_proofs`: the two
  procedures agree on what a disk of a query looks like.  `ReadyWhenDone` says what
  an initialization has left, but not that a query can get at it; the
  invariant `KernelKnows` adds that the kernel exposes the partitions of the new
  table from the initializer's partprobe on, and `Held` that a query waiting to open
  its volume is not itself in its way.  Then each step of the query
  (`QueryGoesOn`) finds what it looks for.  The conditions of the property are
  those under which the code does answer otherwise: a late udev makes the lookup
  fail, another holder of the volume is taken for a wrong key, and `initialize-disk`
  does not look at the size limits;
* `Refinement` (`Spec => ImplementsLifecycle`) in `Lifecycle_proofs`.  Every step of
  `Simplectl` is shown to be, for every disk, one of the abstract actions or a
  stutter: there is a lemma for each abstract action that says when a concrete
  step is one (`QuietLife`, `BeginLife`, `SharedLife`, `RelabelLife`, `FormatLife`),
  and one for each concrete step that changes a platter, a claim or a result.
  Two facts are needed beside `IInv`: the volume is written through to the platter
  (`VolumeDurable`), and it is not what the job asks for before mkfs is done
  (`Pending`).

`TidyDisks` says that a disk as found has no metadata partition other than
number 1 and no partition number above 2.  It is needed: with other disks the
stale check of the run `stale` lets the label go into the new data partition.  It
holds for blank disks and for disks that simplectl made.

`AbstractPromise` (`VolumeLifecycle_proofs`) says what the refinement is good for: in
every abstract life a reported success is that of a durable label and volume.

### Candidates and Exec

`CandidatesInvariant`, `SafeListing` and `CompleteListing` hold for any set of disks
and any bounds on changes and failures.  `IInv` says where a quiet disk (one that
udev knew when the call began and nobody has touched since) can be at each point of
the call: not yet considered, or in its list (`Sorted`); and that what the
last lookup saw of it is the truth or the trace of a lost error (`Seen`).

`ExecInvariant`, `CleanEnds` and `NothingLost` hold for any calls, streams, outputs and
interrupts.  `IInv` adds to the claims where the goroutines of a call can be
relative to each other (`CallInStep`): a waiter sends only after the child has
ended and the copiers are done, and those only after the last byte and when nobody
holds the pipe.  `NothingLost` (`LogAccounts`) says of the log that it has as many bytes
as the output, that its lines end at the newlines, that it is the output if no write
was overwritten on its way (`torn`), and otherwise that every byte is the one
of the output in its place or a later one (`Printed`).  It needs `SliceKept`: the memory
behind a slice is what was handed over until the next `Write`.

### Device selection

`DeviceSelection_proofs` has three theorems, for any database and any rules.

* `SelectionIsCorrect` (`Spec => []SelectionCorrect`).  The property says which
  device the result has for every node; the code narrows one list of devices filter
  by filter, leaves each filter at the first glob that decides, and starts over for
  every rule.  The inductive invariant `Selecting` says that the list is what the
  filters so far leave of all devices (`Left`), and that the result is right for
  the rules before the current one (`IsResult`).  `FilterIsRight` is the lemma
  about one filter: a device can be found to match just when it passes all the
  globs, whichever of them the random order of a Go map tries first.  The property
  takes tag rules as the comment of the code has them ("at least 1 device tag"); since
  the code wants all tags to match, the result is promised for rules for which no
  device shows the difference (`TagsAgree`).  Rules without a malformed pattern
  (`WellFormed`) never give an error; with one, an error may or may not be met,
  depending on the order.
  `SelectionAssumption` says that the database and the lists of rules are lists.
* `QueriesSelectCorrectly` (`QuerySpec => []SelectionCorrect`): the same in every
  lookup, first or second, of the functions that call the filter.
* `LookupsAreRight` (`QuerySpec => []LookupsRight`), from `Asking`: what the second
  lookup asks for is made of a device that the first one found (`SecondRule`).
  `PartitionsSelected`, `DiskSelected`, `FullSelects` and `FullSelectsItself` say what each
  rule made of a device selects.

The lookups are right on the kernel's terms, which `UdevAssumption` states: disks
and partitions have device nodes, no two devices share one, a disk has a
number that no other disk has, and a partition's record has the number of its
disk.  Nothing is assumed of other devices: a character device may have the number
of a disk, which is why a unique answer is promised only where it has not.
`PlainAssumption` says that the keys and numbers that the code makes into rules have
no character with a meaning to `filepath.Match`; they are letters, digits, `_` and
`:`.  The path of the call is not assumed to be plain: the property distinguishes.
A full rule selects its own device if all values are plain and it has one tag at
most; `Sda` of `MCDeviceSelection`, whose model name has an encoded blank, and `Sda1`, which
has two tags, are not selected by theirs.

### The volume label codec

`VolumeLabelCodec_proofs` has two, for any fields, values and texts.

* `StructsRoundTrip` (`Spec => []RoundTrip`).  The pieces of an encoded text name every
  present field exactly once (`TextOfStruct`, with `InOrderIsBijection` for the order of
  the fields), each word reads back as its value (`WordReadsBack`), and the
  invariant `Restoring` says that the fields visited so far are restored and the others
  nil where the struct has them nil.
* `SettingsTakeEffect` (`Spec => []SettingsApply`), about texts that are typed in, for
  fields of any widths, signed and unsigned.  The
  invariant `Applying` says of the map of raw values that each is that of the piece which
  decides its field (`LastDecides`), and of the fields that those visited are as the
  text has them and the others untouched.

`StructAssumption` says what a Go struct of the encoder's callers is: one value per
field, of the field's type and width, nil only for a pointer (or a field of a type the codec has no
zero value for), and one key per field.  The last is not true of `VolumeQuery`, which
uses `encryption-hash` twice: of that struct `StructsRoundTrip` says nothing, and
`SettingsTakeEffect`, which does not need it, says that both fields get the value.
`StrconvAssumption` is what `strconv` and `fmt` promise: `true`, `false` and the decimal
form of an integer read as what they were written for, the latter without a sign
where the field is unsigned.

### Only model-checked

* all liveness (`MappingReleased`, `RetryConverges`, `QueryConverges`,
  `InterruptEndsCalls`, `ExitEndsCall`), which is out of the prover's reach: it rests
  on `ENABLED` and fairness.

Every invariant and every action property that a run checks is also the subject of a theorem.  The claims that TLC refutes
are not theorems, of course; `MatchSound` and `SettingsApply` say what is true instead
of two of them (`latematch` and `passphrase`).

## Findings

Each is a run that TLC refutes; `PROJECT.json` quotes the lines.

1. `retype`: a type change that fails at mkfs, as every query without
   `filesystem` does, leaves the old data under the new label.
2. `stale`: "Checking new device is initialized" may check the old one: of a disk whose
   metadata partition was number 2 the label goes into the new data partition and
   the filesystem into the new metadata partition, and success is reported.
3. `latematch`: a query for a filesystem matches a disk that has just been initialized
   with another one, until udev has looked at the volume.
4. `passphrase`: a passphrase with a dot is dropped silently.
5. `interrupt`: Interrupt misses a call that has started its process and has not
   reached its select.

Met while modelling, and visible in the modules without a run of their own:

* a volume that another query holds open is reported as "No Match"
  (`OpenForMatch`; matcher.go:84 speaks of a wrong key);
* the mount table, which candidatelogic.go:15-18 mentions, is not consulted
  (`Verdict`);
* the confirmation of main.go:185 appears with `--force` and only then, against
  main.go:86 (`Prompts`);
* max-size and min-size, documented in bytes, are compared with a number of
  sectors (matcher.go:114-124, `SizeAgrees`);
* a tag rule has to match every tag of a device, and holds of a device without
  tags (query.go:353 says "at least 1 device tag"; `TagVerdicts`), so that the full
  rule of a device with two tags does not match the device either;
* the rule that "would uniquely match" a device (query.go:442-443) does not match it when
  one of its values reads differently as a pattern, such as a model name with an
  encoded blank, `WDC\x20WD10` (query.go:248, `FullRule`);
* a malformed property pattern is an error, or none, depending on the order in which
  Go visits the map (`PropertyVerdicts`);
* a path is read as a pattern: `/dev/sda*` names all the devices it matches, and
  `/dev/[` is a syntax error (`PathRule`);
* a number is no identity: `list-partitions` of a character device with number
  7:0 lists the partitions of `loop0`, and the disk of those partitions is
  then two devices, an error (`DiskRule`);
* `GetDiskDeviceFromPartitionPath` (no caller) panics on a device without
  `ID_PART_ENTRY_DISK` (query.go:541, `FindDiskNumber`);
* a last line without a newline is never logged (logging.go:35, `AppendAndLog`), and
  the log is at debug level where fsutil.go:173 says default;
* bytes of the output are replaced in the log when a caller refills its buffer before the
  goroutine has appended it (logging.go:43, `Copies`);
* a command that has ended keeps its call waiting while a descendant holds its output
  open, and an interrupt kills the child only, not what it has started
  (fsutil.go:188, 198; `EndOfFile`);
* mkfs is assumed to succeed on a volume that has a filesystem already, as mkfs.ext4
  does without a terminal; mkfs.xfs refuses without `-f`, so that repeating a command for xfs may fail
  for ever (`Mkfs`);
* the goroutine of a `LogWriter` never ends, nor does the waiter of an
  interrupted call, which has nobody to send to;
* two Interrupts at once close the channel twice, or a nil one, and panic
  (`CloseChannel`); an interrupted call panics, and the processes of all other
  calls run on when the program ends (`Die`);
* `--device-match-attr` (config.go:20) has no effect: no filter looks at
  attributes (`Verdicts`);
* `encryption-cipher` (README.md:80) is no key: the field has the tag
  `encryption-hash` (`QueryFields` in `MCVolumeLabelCodec`);
* `label` is documented as required and may be missing; `exclusive`, `min-disks`
  and `basename` have no documented default in the code;
* `VolumeQueryValue.String` always returns `""`, because it encodes a pointer;
  `DeviceSelectionRule.Copy` forgets three of the five fields.

## Not modelled

* `cmd/docker-simple-disk`: every driver method returns "Not implemented", the
  mutex is never taken, and `main` declares its flags on one application and parses
  another (main.go:118), so it works with the empty volume root and panics before
  it serves.  There is no state that an action could change.
* `fsutil`: the path helpers, one `stat` each, and `LoggedCommand`, whose caller
  would run the command.
* `config`: flag declarations without state.  `mountquery.go`: commented out.
* `volumelabel`: `time.Time` (no field of `VolumeQuery` or `VolumeLabel` has it), the marshalling interfaces, which
  nothing implements, and the checks of the kind of the target, which are
  programming errors of a caller.
* The label's version, numbering and metadata, constant in the code, and the
  fields of a query that nothing reads.
* Wording, logging and layout of what simplectl prints.

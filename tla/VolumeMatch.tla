------------------------------ MODULE VolumeMatch ------------------------------
(***************************************************************************)
(* simplectl query-device: GetDiskLabelAndVolumePath followed by           *)
(* volumequery.VolumeQueryMatch, one action per external effect:           *)
(*                                                                         *)
(*   lookup -> read [-> unlock] -> probe [-> close]                        *)
(*                                                                         *)
(* The bracketed steps are those of a query with a passphrase.  Label,     *)
(* volume and udev record are read at different times and nothing keeps    *)
(* the disk from changing in between.                                      *)
(***************************************************************************)
EXTENDS Host

LookupDevice(p) ==
  /\ pc[p] = "lookup"
  /\ GetDiskLabelAndVolumePath(p, "read")
  /\ UNCHANGED <<diskVars, job, ghostVars>>

\* Mutated: the hostname of the label is not compared.
LabelAgreesAnywhere(j, c) ==
  /\ j.query.ownMachineId => c.machine = j.machine
  /\ j.query.label # None => j.query.label = c.label
  /\ j.query.key # None => c.encrypted

\* The constraints that are decided by the label c alone.
LabelAgrees(j, c) ==
  /\ j.query.ownHostname => c.host = j.host
  /\ j.query.ownMachineId => c.machine = j.machine
  /\ j.query.label # None => j.query.label = c.label
  /\ j.query.key # None => c.encrypted

\* DeserializeVolumeLabel, and the checks on the label.
ReadLabel(p) ==
  LET l == LabelDev(p)
      c == content[Dev(p)][l]
      readable == l \in kernel[Dev(p)] /\ c.kind = "label" IN
  /\ pc[p] = "read"
  /\ \/ /\ readable /\ LabelAgrees(job[p], c)
        /\ Goto(p, IF QueryOf(p).key = None THEN "probe" ELSE "unlock")
        /\ UNCHANGED faults
     \/ /\ readable /\ ~LabelAgrees(job[p], c)
        /\ Return(p, "nomatch")
        /\ UNCHANGED faults
     \/ /\ ~readable /\ UNCHANGED faults
        /\ Return(p, "error")
     \/ /\ Fault                   \* I/O, or the host's own identity
        /\ Return(p, "error")
  /\ Rely(p)
  /\ UNCHANGED <<diskVars, job, found>>

\* Whatever keeps cryptsetup from opening the volume is taken for a wrong key.
OpenForMatch(p) ==
  LET d == Dev(p)
      x == DataDev(p) IN
  /\ pc[p] = "unlock"
  /\ \/ /\ CanOpen(d, x, QueryOf(p).key)
        /\ mapper' = [mapper EXCEPT ![d][x] = p]
        /\ Goto(p, "probe")
        /\ UNCHANGED faults
     \/ /\ (~CanOpen(d, x, QueryOf(p).key) /\ UNCHANGED faults) \/ Fault
        /\ Return(p, "nomatch")
        /\ UNCHANGED mapper
  /\ UNCHANGED <<table, kernel, udev, content, platter, job, found, ghostVars>>

\* min-size and max-size are compared with the sysfs size as it is.
SizeAgrees(q, size) ==
  /\ q.min > 0 => size >= q.min
  /\ q.max > 0 => size <= q.max

\* The udev record of the opened context: of the partition, or of the mapping
\* (whose record is as old as the mapping, made under the eyes of udev).
ContextType(p) ==
  LET d == Dev(p)
      x == DataDev(p) IN
  IF QueryOf(p).key = None THEN udev[d][x].type ELSE content[d][x].fs

ContextAgrees(p) ==
  LET q == QueryOf(p) IN
  /\ SizeAgrees(q, Sectors[Dev(p)])
  /\ q.fs # None => ContextType(p) = q.fs

\* Mutated: only a match closes the mapping it has opened.
CloseOnMatch(p, r) ==
  /\ result' = [result EXCEPT ![p] = r]
  /\ pc' = [pc EXCEPT ![p] =
       IF QueryOf(p).key # None /\ r = "match" THEN "close" ELSE "idle"]

FinishMatch(p, r) ==
  /\ result' = [result EXCEPT ![p] = r]
  /\ pc' = [pc EXCEPT ![p] = IF QueryOf(p).key = None THEN "idle" ELSE "close"]

Probe(p) ==
  LET q == QueryOf(p)
      known == q.key = None => udev[Dev(p)][DataDev(p)].part # "none" IN
  /\ pc[p] = "probe"
  /\ \/ /\ known /\ UNCHANGED faults
        /\ FinishMatch(p, IF ContextAgrees(p) THEN "match" ELSE "nomatch")
     \/ /\ ~known /\ UNCHANGED faults
        /\ FinishMatch(p, "error")
     \/ /\ Fault                   \* no record yet, or no usable size in it
        /\ \E r \in {"error", "nomatch"} : FinishMatch(p, r)
  /\ UNCHANGED <<diskVars, job, found, ghostVars>>

VolumeQueryMatch(p) ==
  LookupDevice(p) \/ ReadLabel(p) \/ OpenForMatch(p) \/ Probe(p)

===============================================================================

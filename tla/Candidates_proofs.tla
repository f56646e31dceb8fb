--------------------------- MODULE Candidates_proofs ---------------------------
(***************************************************************************)
(* Proofs about Candidates, for any number of disks, changes and faults.   *)
(*                                                                         *)
(* A disk that is quiet is one whose records udev has settled, so that all *)
(* the lookups of a call see the same disk: IInv says what each stage of   *)
(* the call may know of such a disk, and is preserved by every action.     *)
(***************************************************************************)
EXTENDS Candidates, TLAPS

Lists == {"initialized", "uninitialized", "rejected"}

\* A disk is appended to one of the three lists of GetCandidateDisks, chosen by
\* its partitions and, without any, by its own record.
LEMMA VerdictCases ==
  ASSUME NEW d, parts \in {"none", "simple", "foreign"},
         parts = "none" => diskRecord[d] \in {"blank", "filesystem", "table"}
  PROVE  /\ Verdict(d) \in Lists
         /\ Verdict(d) = "initialized" <=> parts = "simple"
         /\ Verdict(d) = "uninitialized" <=> parts = "none" /\ diskRecord[d] = "blank"
<1>1. CASE parts = "none"
  <2>1. FailReason(d) = [blank      |-> "errBlankDisk",
                         filesystem |-> "errHasAFilesystem",
                         table      |-> "errHasPartitionTable"][diskRecord[d]]
    BY <1>1 DEF FailReason
  <2>2. CASE diskRecord[d] = "blank"
    BY <1>1, <2>1, <2>2 DEF Verdict, IsBlankDisk, Lists
  <2>3. CASE diskRecord[d] = "filesystem"
    BY <1>1, <2>1, <2>3 DEF Verdict, IsBlankDisk, Lists
  <2>4. CASE diskRecord[d] = "table"
    BY <1>1, <2>1, <2>4 DEF Verdict, IsBlankDisk, Lists
  <2> QED
    BY <1>1, <2>2, <2>3, <2>4
<1>2. CASE parts \in {"simple", "foreign"}
  <2>1. FailReason(d) = [simple |-> "nil", foreign |-> "errWrongPartitions"][parts]
    BY <1>2 DEF FailReason
  <2>2. CASE parts = "simple"
    BY <2>1, <2>2 DEF Verdict, IsBlankDisk, Lists
  <2>3. CASE parts = "foreign"
    BY <2>1, <2>3 DEF Verdict, IsBlankDisk, Lists
  <2> QED
    BY <1>2, <2>2, <2>3
<1> QED
  BY <1>1, <1>2

\* What udev records of a disk is of the types that the lookups expect.
LEMMA ViewTypes ==
  ASSUME NEW m \in Media
  PROVE  /\ DiskView(m) \in {"absent", "blank", "filesystem", "table"}
         /\ PartView(m) \in {"none", "simple", "foreign"}
BY DEF Media, DiskView, PartView

\* The initial state of a host and of a call has the right types.
LEMMA TypedInit == Init => TypeOK
<1> SUFFICES ASSUME Init PROVE TypeOK
  OBVIOUS
<1>1. /\ diskRecord \in [Disks -> {"absent", "blank", "filesystem", "table"}]
      /\ partRecord \in [Disks -> {"none", "simple", "foreign"}]
  BY ViewTypes DEF Init
<1>2. lists \in [Lists -> SUBSET Disks]
  BY DEF Init, NoLists, Lists
<1> QED
  BY <1>1, <1>2, CandidatesAssumption DEF Init, TypeOK, Lists

\* Every step of the host and of a call preserves the types.
LEMMA TypedStep == TypeOK /\ [Next]_vars => TypeOK'
<1> SUFFICES ASSUME TypeOK, [Next]_vars PROVE TypeOK'
  OBVIOUS
<1> USE CandidatesAssumption
<1>1. CASE Call
  <2>1. lists' \in [Lists -> SUBSET Disks]
    BY <1>1 DEF Call, NoLists, Lists
  <2> QED
    BY <1>1, <2>1 DEF Call, TypeOK, hostVars, Lists
<1>2. CASE Enumerate
  <2>1. CASE UNCHANGED faults
    BY <1>2, <2>1 DEF Enumerate, TypeOK, Fault, Abort, hostVars
  <2>2. CASE Fault /\ Abort
    BY <1>2, <2>2 DEF Enumerate, TypeOK, Fault, Abort, hostVars
  <2> QED
    BY <1>2, <2>1, <2>2 DEF Enumerate
<1>3. ASSUME NEW d \in Disks, FindDisk(d) PROVE TypeOK'
  <2>1. CASE UNCHANGED faults
    BY <1>3, <2>1 DEF FindDisk, TypeOK, Fault, Abort, hostVars
  <2>2. CASE Fault /\ Abort
    BY <1>3, <2>2 DEF FindDisk, TypeOK, Fault, Abort, hostVars
  <2> QED
    BY <1>3, <2>1, <2>2 DEF FindDisk
<1>4. ASSUME NEW d \in Disks, FindPartitions(d) PROVE TypeOK'
  BY <1>4 DEF FindPartitions, PartitionsOf, TypeOK, Fault, hostVars
<1>5. ASSUME NEW d \in Disks, Classify(d) PROVE TypeOK'
  <2>1. CASE /\ parts # "none" \/ diskRecord[d] # "absent"
             /\ lists' = [lists EXCEPT ![Verdict(d)] = @ \cup {d}]
             /\ todo'  = todo \ {d}
             /\ pc'    = IF todo' = {} THEN "done" ELSE "disk"
             /\ UNCHANGED <<parts, faults>>
    <3>1. Verdict(d) \in Lists
      BY <1>5, <2>1, VerdictCases DEF TypeOK
    <3> QED
      BY <1>5, <2>1, <3>1 DEF Classify, TodoAfter, TypeOK, hostVars, Lists
  <2>2. CASE Abort
    BY <1>5, <2>2 DEF Classify, TodoAfter, TypeOK, Fault, Abort, hostVars
  <2> QED
    BY <1>5, <2>1, <2>2 DEF Classify, TodoAfter
<1>6. ASSUME NEW d \in Disks, Change(d) PROVE TypeOK'
  BY <1>6 DEF Change, TypeOK, callVars
<1>7. ASSUME NEW d \in Disks, Udev(d) PROVE TypeOK'
  <2>1. medium[d] \in Media
    BY DEF TypeOK
  <2> QED
    BY <1>7, <2>1, ViewTypes DEF Udev, TypeOK, callVars
<1>8. CASE UNCHANGED vars
  BY <1>8 DEF TypeOK, vars, hostVars, callVars
<1> QED
  BY <1>1, <1>2, <1>3, <1>4, <1>5, <1>6, <1>7, <1>8 DEF Next

-------------------------------------------------------------------------------
\* A settled record shows whether a disk is blank, and a disk with neither a
\* partition of its own nor a blank record is one to refuse.
LEMMA SettledViews ==
  ASSUME NEW d \in Disks, TypeOK, Settled(d)
  PROVE  /\ diskRecord[d] = "absent" <=> medium[d] = "absent"
         /\ diskRecord[d] = "blank" <=> medium[d] = "blank"
         /\ partRecord[d] = "simple" <=> medium[d] = "simple"
         /\ partRecord[d] = "foreign" <=> medium[d] = "foreign"
         /\ diskRecord[d] = "filesystem" <=> medium[d] = "filesystem"
BY DEF Settled, DiskView, PartView, TypeOK, Media

\* Nothing is known in the initial state, and nothing has to be.
LEMMA KnownInit == Init => IInv
BY TypedInit DEF Init, IInv

\* Every step preserves what the call knows of the quiet disks.
LEMMA KnownStep == IInv /\ [Next]_vars => IInv'
<1> SUFFICES ASSUME IInv, [Next]_vars PROVE IInv'
  OBVIOUS
<1>t. TypeOK /\ TypeOK'
  BY TypedStep DEF IInv
<1>d. DOMAIN lists = Lists /\ DOMAIN lists' = Lists
  BY <1>t DEF TypeOK, Lists
<1>k. \A d \in quiet : d \in Disks /\ Known(d)
  BY <1>t DEF IInv, TypeOK
<1> USE <1>t, <1>d
<1>1. CASE Call
  <2>1. ASSUME NEW d \in quiet' PROVE Known(d)'
    <3>1. \A l \in Lists : d \notin lists'[l]
      BY <1>1 DEF Call, NoLists, Lists
    <3>2. Settled(d)'
      BY <1>1, <2>1 DEF Call, Settled, hostVars
    <3> QED
      BY <1>1, <3>1, <3>2 DEF Call, Known, Sorted, Lists
  <2> QED
    BY <1>1, <2>1 DEF IInv, Call
<1>2. CASE Enumerate
  <2>1. ASSUME NEW d \in quiet' PROVE Known(d)'
    <3>1. d \in Disks /\ Known(d)
      BY <1>2, <2>1, <1>k DEF Enumerate
    <3>2. Settled(d)'
      BY <1>2, <3>1 DEF Enumerate, Known, Settled, hostVars
    <3>3. \A l \in Lists : d \notin lists'[l]
      BY <1>2, <3>1 DEF Enumerate, Known, Abort
    <3>4. pc' # "error" => d \in todo' \/ medium'[d] = "absent"
      BY <1>2, <3>1, SettledViews DEF Enumerate, Known, Abort, hostVars
    <3> QED
      BY <1>2, <3>2, <3>3, <3>4 DEF Enumerate, Known, Sorted, Abort, Lists
  <2> QED
    BY <1>2, <2>1 DEF IInv, Enumerate, Abort
<1>3. ASSUME NEW e \in Disks, FindDisk(e) PROVE IInv'
  <2>1. ASSUME NEW d \in quiet' PROVE Known(d)'
    <3>1. Known(d)
      BY <1>3, <2>1, <1>k DEF FindDisk
    <3> QED
      BY <1>3, <3>1 DEF FindDisk, Known, Settled, Sorted, Abort, Fault, hostVars, TypeOK
  <2> QED
    BY <1>3, <2>1 DEF IInv, FindDisk, Abort
<1>4. ASSUME NEW e \in Disks, FindPartitions(e) PROVE IInv'
  <2>1. ASSUME NEW d \in quiet' PROVE Known(d)'
    <3>1. d \in Disks /\ Known(d)
      BY <1>4, <2>1, <1>k DEF FindPartitions, PartitionsOf
    <3>2. faults \in Nat /\ faults' \in Nat /\ (faults # 0 => faults' # 0)
      BY <1>4, CandidatesAssumption DEF FindPartitions, PartitionsOf, Fault, TypeOK
    <3>3. Settled(d)' /\ Sorted(d)'
      BY <1>4, <3>1, <3>2 DEF FindPartitions, PartitionsOf, Known, Settled, Sorted, hostVars
    <3>4. First(d)' => d = e
      BY <1>4, CandidatesAssumption, <3>1 DEF FindPartitions, PartitionsOf, First
    <3>5. First(d)' => Seen(d)'
      BY <1>4, <3>4, <3>2, CandidatesAssumption
      DEF FindPartitions, PartitionsOf, Seen, Fault, hostVars, TypeOK
    <3> QED
      BY <1>4, <3>3, <3>5 DEF FindPartitions, PartitionsOf, Known
  <2> QED
    BY <1>4, <2>1 DEF IInv, FindPartitions, PartitionsOf
<1>6. ASSUME NEW e \in Disks, Change(e) PROVE IInv'
  <2>1. ASSUME NEW d \in quiet' PROVE Known(d)'
    <3>1. d \in Disks /\ Known(d) /\ d # e
      BY <1>6, <2>1, <1>k DEF Change
    <3>2. medium'[d] = medium[d]
      BY <1>6, <3>1 DEF Change, TypeOK
    <3> QED
      BY <1>6, <3>1, <3>2
      DEF Change, Known, Settled, Sorted, First, Seen, callVars
  <2> QED
    BY <1>6, <2>1 DEF IInv, Change, callVars
<1>7. ASSUME NEW e \in Disks, Udev(e) PROVE IInv'
  <2>1. ASSUME NEW d \in quiet' PROVE Known(d)'
    <3>1. d \in Disks /\ Known(d)
      BY <1>7, <2>1, <1>k DEF Udev
    <3>2. d # e
      BY <1>7, <3>1 DEF Udev, Known, Settled
    <3>3. diskRecord'[d] = diskRecord[d] /\ partRecord'[d] = partRecord[d]
      BY <1>7, <3>1, <3>2 DEF Udev, TypeOK
    <3> QED
      BY <1>7, <3>1, <3>3
      DEF Udev, Known, Settled, Sorted, First, Seen, callVars
  <2> QED
    BY <1>7, <2>1 DEF IInv, Udev, callVars
<1>8. CASE UNCHANGED vars
  BY <1>8 DEF IInv, Known, Settled, Sorted, First, Seen, vars, hostVars, callVars
<1>5. ASSUME NEW e \in Disks, Classify(e) PROVE IInv'
  <2>a. CASE Abort
    <3>1. ASSUME NEW d \in quiet' PROVE Known(d)'
      <4>1. Known(d)
        BY <1>5, <3>1, <1>k DEF Classify, TodoAfter
      <4>2. faults # 0 => faults' # 0
        BY <1>5, CandidatesAssumption DEF Classify, TodoAfter, Fault, TypeOK
      <4> QED
        BY <1>5, <2>a, <4>1, <4>2
        DEF Classify, TodoAfter, Known, Settled, Sorted, Abort, hostVars
    <3> QED
      BY <1>5, <2>a, <3>1 DEF IInv, Classify, TodoAfter, Abort
  <2>b. CASE /\ parts # "none" \/ diskRecord[e] # "absent"
             /\ lists' = [lists EXCEPT ![Verdict(e)] = @ \cup {e}]
             /\ todo'  = todo \ {e}
             /\ pc'    = IF todo' = {} THEN "done" ELSE "disk"
             /\ UNCHANGED <<parts, faults>>
    <3>v. Verdict(e) \in Lists
      BY <2>b, VerdictCases DEF TypeOK
    <3>l. \A l \in Lists : lists'[l] = IF l = Verdict(e) THEN lists[l] \cup {e} ELSE lists[l]
      BY <2>b, <3>v
    <3>1. ASSUME NEW d \in quiet' PROVE Known(d)'
      <4>1. d \in Disks /\ Known(d)
        BY <1>5, <3>1, <1>k DEF Classify, TodoAfter
      <4>2. Settled(d)'
        BY <1>5, <4>1 DEF Classify, TodoAfter, Known, Settled, hostVars
      <4>3. CASE d # e
        <5>1. \A l \in Lists : d \in lists'[l] <=> d \in lists[l]
          BY <3>l, <4>3
        <5> QED
          BY <1>5, <2>b, <4>1, <4>2, <4>3, <5>1
          DEF Classify, TodoAfter, Known, Sorted, hostVars, Lists
      <4>4. CASE d = e
        <5>1. Seen(e)
          BY <1>5, <4>1, <4>4 DEF Classify, TodoAfter, Known
        <5>2. /\ Verdict(e) = "initialized" => medium[e] = "simple"
              /\ Verdict(e) = "uninitialized" => medium[e] = "blank"
              /\ Verdict(e) = "rejected" =>
                   faults # 0 \/ medium[e] \in {"filesystem", "table", "foreign"}
          BY <2>b, <4>1, <4>4, <5>1, VerdictCases, SettledViews
          DEF Known, Seen, TypeOK, Media
        <5>3. e \in lists'[Verdict(e)]
          BY <3>l, <3>v
        <5> QED
          BY <1>5, <2>b, <3>l, <3>v, <4>1, <4>2, <4>4, <5>2, <5>3
          DEF Classify, TodoAfter, Known, Sorted, hostVars, Lists
      <4> QED
        BY <4>3, <4>4
    <3> QED
      BY <1>5, <2>b, <3>1 DEF IInv, Classify, TodoAfter
  <2> QED
    BY <1>5, <2>a, <2>b DEF Classify, TodoAfter
<1> QED
  BY <1>1, <1>2, <1>3, <1>4, <1>5, <1>6, <1>7, <1>8 DEF Next

-------------------------------------------------------------------------------
\* IInv holds in every state of every behaviour: whatever is plugged in, pulled,
\* written and looked up in whatever order.
THEOREM CandidatesInvariant == Spec => []IInv
BY KnownInit, KnownStep, PTL DEF Spec

\* No disk that nobody touches during a call of GetCandidateDisks is listed for
\* initialization unless it is blank, or as initialized unless it is simple's.
THEOREM SafeListing == Spec => []SafeToOffer
<1>1. IInv => SafeToOffer
  BY DEF IInv, SafeToOffer, Known, Sorted, Listing
<1> QED
  BY <1>1, CandidatesInvariant, PTL

\* A call of GetCandidateDisks in which no lookup fails sorts every disk that
\* nobody touches into the one list where it belongs.
THEOREM CompleteListing == Spec => []SortedRight
<1>1. IInv => SortedRight
  <2> SUFFICES ASSUME IInv, pc = "done", faults = 0, NEW d \in quiet
               PROVE  LET m == medium[d] IN
                      /\ d \in Listing("uninitialized") <=> m = "blank"
                      /\ d \in Listing("initialized")   <=> m = "simple"
                      /\ d \in Listing("rejected")
                           <=> m \in {"filesystem", "table", "foreign"}
    BY DEF SortedRight
  <2>1. Sorted(d) /\ d \notin todo /\ DOMAIN lists = Lists
    BY DEF IInv, Known, TypeOK, Lists
  <2>2. \/ medium[d] = "absent"
        \/ \E l \in Lists : d \in lists[l]
    BY <2>1 DEF Sorted
  <2>3. medium[d] \in Media
    BY DEF IInv, TypeOK
  <2> QED
    BY <2>1, <2>2, <2>3 DEF Listing, Sorted, Lists, Media
<1> QED
  BY <1>1, CandidatesInvariant, PTL

===============================================================================

------------------------- MODULE DeviceSelection_proofs -------------------------
(***************************************************************************)
(* Proofs about getDevicesByDevNode and the functions that call it:        *)
(* whatever the database and the rules, a lookup that returns has found    *)
(* the devices that the rules select, and two of them in a row find what   *)
(* the kernel's own tree of devices says.                                  *)
(***************************************************************************)
EXTENDS DeviceQueries, FiniteSetTheorems, TLAPS

-------------------------------------------------------------------------------
(* Operators of the model.                                                   *)

\* Min is what its name says.
LEMMA MinOfNaturals ==
  ASSUME NEW S \in SUBSET Nat, S # {}
  PROVE  Min(S) \in S /\ \A y \in S : Min(S) <= y
<1> DEFINE T == {0..y : y \in S}
<1>1. T \subseteq FiniteSubsetsOf(Nat) /\ T # {}
  <2>1. \A y \in S : IsFiniteSet(0..y) /\ 0..y \subseteq Nat
    BY FS_Interval
  <2> QED BY <2>1 DEF FiniteSubsetsOf
<1>2. PICK t \in T : \A u \in T : ~ (<<u, t>> \in StrictSubsetOrdering(Nat))
  <2> HIDE DEF T
  <2> QED BY <1>1, FS_StrictSubsetOrderingWellFounded, WFMin, Zenon
<1>3. PICK x \in S : t = 0..x
  OBVIOUS
<1>4. ASSUME NEW y \in S PROVE x <= y
  <2>1. SUFFICES ASSUME y < x PROVE FALSE
    OBVIOUS
  <2>2. 0..y \in SUBSET Nat /\ 0..x \in SUBSET Nat /\ 0..y \subseteq 0..x /\ 0..y # 0..x
    <3>1. x \in 0..x /\ x \notin 0..y
      BY <2>1
    <3> QED BY <3>1, <2>1
  <2>3. <<0..y, 0..x>> \in StrictSubsetOrdering(Nat)
    BY <2>2 DEF StrictSubsetOrdering
  <2>4. 0..y \in T
    OBVIOUS
  <2>5. ~ (<<0..y, 0..x>> \in StrictSubsetOrdering(Nat))
    <3> HIDE DEF T
    <3> QED BY <1>2, <1>3, <2>4, Zenon
  <2> QED BY <2>3, <2>5, Zenon
<1> QED BY <1>4 DEF Min

\* What the filters of rule r let through, all of them and one: a tag glob is
\* one that every tag of the device matches.
Survives(r, dev) ==
  /\ \A g \in Range(r.subsystems) : Matches(g, dev.subsystem)
  /\ \A g \in Range(r.names) : Matches(g, dev.name)
  /\ \A g \in Range(r.tags), t \in dev.tags : Matches(g, t)
  /\ \A kv \in r.props : \E k \in DOMAIN dev.props :
       Matches(kv[1], k) /\ Matches(kv[2], dev.props[k])

SurvivesFilter(f, r, dev) ==
  /\ f = "subsystem" => \A g \in Range(r.subsystems) : Matches(g, dev.subsystem)
  /\ f = "name" => \A g \in Range(r.names) : Matches(g, dev.name)
  /\ f = "tag" => \A g \in Range(r.tags), t \in dev.tags : Matches(g, t)
  /\ f = "property" => \A kv \in r.props : \E k \in DOMAIN dev.props :
                         Matches(kv[1], k) /\ Matches(kv[2], dev.props[k])

\* A filter may find that a device matches just when it should: neither an
\* error nor the first glob that does not match hides another one.
LEMMA FilterIsRight ==
  ASSUME NEW f \in {"subsystem", "name", "tag", "property"}, NEW r, NEW dev
  PROVE  "match" \in Verdicts(f, r, dev) <=> SurvivesFilter(f, r, dev)
<1>1. CASE f = "subsystem"
  BY <1>1 DEF Verdicts, SurvivesFilter, SubsystemVerdicts, FirstVerdict, Matches, Range
<1>2. CASE f = "name"
  BY <1>2 DEF Verdicts, SurvivesFilter, NameVerdicts, FirstVerdict, Matches, Range
<1>3. CASE f = "tag"
  BY <1>3 DEF Verdicts, SurvivesFilter, TagVerdicts, FirstVerdict, Matches, Range
<1>4. CASE f = "property"
  <2>1. ASSUME NEW kv
        PROVE  PropertyVerdict(kv, dev.props) = "match" <=>
                 \E k \in DOMAIN dev.props :
                   Matches(kv[1], k) /\ Matches(kv[2], dev.props[k])
    BY DEF PropertyVerdict, Matches
  <2>2. "match" \in PropertyVerdicts(r, dev) <=>
          \A kv \in r.props : PropertyVerdict(kv, dev.props) = "match"
    BY DEF PropertyVerdicts
  <2> QED BY <1>4, <2>1, <2>2 DEF Verdicts, SurvivesFilter
<1> QED BY <1>1, <1>2, <1>3, <1>4

\* No filter fails on a rule without a malformed glob.
LEMMA NoErrorWithout ==
  ASSUME NEW f \in {"subsystem", "name", "tag", "property"}, NEW r, WellFormed(r),
         NEW dev
  PROVE  "error" \notin Verdicts(f, r, dev)
<1>1. CASE f = "subsystem"
  BY <1>1 DEF Verdicts, WellFormed, SubsystemVerdicts, FirstVerdict, Range
<1>2. CASE f = "name"
  BY <1>2 DEF Verdicts, WellFormed, NameVerdicts, FirstVerdict, Range
<1>3. CASE f = "tag"
  BY <1>3 DEF Verdicts, WellFormed, TagVerdicts, FirstVerdict, Range
<1>4. CASE f = "property"
  <2>1. \A kv \in r.props : PropertyVerdict(kv, dev.props) # "error"
    BY DEF WellFormed, PropertyVerdict
  <2> QED BY <1>4, <2>1 DEF Verdicts, PropertyVerdicts
<1> QED BY <1>1, <1>2, <1>3, <1>4

\* The devices that rule r selects, and those it has left before filter f.
Selected(r) == {d \in Devices : Survives(r, Database[d])}

Left(f, r) == {d \in Devices :
  /\ f # "subsystem" => SurvivesFilter("subsystem", r, Database[d])
  /\ f \notin {"subsystem", "name"} => SurvivesFilter("name", r, Database[d])
  /\ f \in {"property", "collect"} => SurvivesFilter("tag", r, Database[d])
  /\ f = "collect" => SurvivesFilter("property", r, Database[d])}

\* A pass of the loop leaves what the next filter expects.
LEMMA FilterLeaves ==
  ASSUME NEW f \in {"subsystem", "name", "tag", "property"}, NEW r
  PROVE  Left(NextStage(f), r) =
           {d \in Left(f, r) : "match" \in Verdicts(f, r, Database[d])}
<1>1. \A d : "match" \in Verdicts(f, r, Database[d]) <=> SurvivesFilter(f, r, Database[d])
  BY FilterIsRight
<1> HIDE DEF Verdicts
<1> QED BY <1>1 DEF Left, NextStage

\* All devices are there before the first filter, and those the rule selects
\* after the last one.
LEMMA LeftAtEnds ==
  ASSUME NEW r
  PROVE  Left("subsystem", r) = Devices /\ Left("collect", r) = Selected(r)
BY DEF Left, Selected, SurvivesFilter, Survives

-------------------------------------------------------------------------------
(* The result of the first rules.                                            *)

\* d is the device that the first i rules of a list put in the result for node
\* n: the first rule that selects any with that node, and its first one.
Chosen(list, i, n, d) == \E k \in 1..i :
  /\ Database[d].node = n /\ d \in Selected(list[k])
  /\ \A l \in 1..i : \A e \in Selected(list[l]) :
       Database[e].node = n => k < l \/ (k = l /\ d <= e)

NodesOf(list, i) == {Database[d].node : d \in UNION {Selected(list[k]) : k \in 1..i}}

IsResult(m, list, i) ==
  /\ m = [n \in NodesOf(list, i) |-> m[n]]
  /\ \A n \in NodesOf(list, i) : Chosen(list, i, n, m[n])

\* No device is chosen for a node but one.
LEMMA ChosenIsUnique ==
  ASSUME NEW list, NEW i \in Nat, NEW n, NEW d, NEW e,
         Chosen(list, i, n, d), Chosen(list, i, n, e)
  PROVE  d = e
<1>1. d \in Nat /\ e \in Nat
  BY DEF Chosen, Selected, Devices
<1> QED BY <1>1 DEF Chosen

\* Nothing is the result of no rules.
LEMMA ResultOfNone == ASSUME NEW list PROVE IsResult(<<>>, list, 0)
<1>1. NodesOf(list, 0) = {}
  BY DEF NodesOf
<1> QED BY <1>1 DEF IsResult

\* Collect's assignment turns the result of i - 1 rules into that of i rules.
LEMMA CollectAdds ==
  ASSUME NEW list, NEW i \in Nat \ {0}, NEW m, IsResult(m, list, i - 1),
         NEW added, \A d : d \in added <=>
                             d \in Selected(list[i]) /\ Database[d].node \notin DOMAIN m,
         NEW m2, m2 = [n \in DOMAIN m2 |-> m2[n]],
         DOMAIN m2 = DOMAIN m \cup {Database[d].node : d \in added},
         \A n \in DOMAIN m : m2[n] = m[n],
         \A n \in DOMAIN m2 \ DOMAIN m :
           /\ m2[n] \in added /\ Database[m2[n]].node = n
           /\ \A d \in added : Database[d].node = n => m2[n] <= d
  PROVE  IsResult(m2, list, i)
<1>1. DOMAIN m = NodesOf(list, i - 1)
  BY DEF IsResult
<1>2. \A k : k \in 1..i <=> k \in 1..(i - 1) \/ k = i
  OBVIOUS
<1>3. NodesOf(list, i) = DOMAIN m \cup {Database[d].node : d \in added}
  <2>1. NodesOf(list, i) = NodesOf(list, i - 1) \cup {Database[d].node : d \in Selected(list[i])}
    BY <1>2 DEF NodesOf
  <2> QED BY <1>1, <2>1
<1>4. ASSUME NEW n \in DOMAIN m PROVE Chosen(list, i, n, m2[n])
  <2>1. Chosen(list, i - 1, n, m[n]) /\ m2[n] = m[n]
    BY <1>1 DEF IsResult
  <2>2. PICK k \in 1..(i - 1) :
          /\ Database[m[n]].node = n /\ m[n] \in Selected(list[k])
          /\ \A l \in 1..(i - 1) : \A e \in Selected(list[l]) :
               Database[e].node = n => k < l \/ (k = l /\ m[n] <= e)
    BY <2>1 DEF Chosen
  <2>3. k \in 1..i /\ k < i
    BY <1>2
  <2>4. \A l \in 1..i : \A e \in Selected(list[l]) :
               Database[e].node = n => k < l \/ (k = l /\ m[n] <= e)
    BY <1>2, <2>2, <2>3
  <2> QED BY <2>1, <2>2, <2>3, <2>4 DEF Chosen
<1>5. ASSUME NEW n \in {Database[d].node : d \in added}, n \notin DOMAIN m
      PROVE  Chosen(list, i, n, m2[n])
  <2>4. \A l \in 1..(i - 1) : \A e \in Selected(list[l]) : Database[e].node # n
    BY <1>1, <1>5 DEF NodesOf
  <2>5. \A e \in Selected(list[i]) : Database[e].node = n => m2[n] <= e
    BY <1>5
  <2>6. \A l \in 1..i : \A e \in Selected(list[l]) :
               Database[e].node = n => i < l \/ (i = l /\ m2[n] <= e)
    BY <1>2, <2>4, <2>5
  <2>7. m2[n] \in Selected(list[i]) /\ Database[m2[n]].node = n
    BY <1>5
  <2> QED BY <1>2, <2>6, <2>7 DEF Chosen
<1> QED BY <1>3, <1>4, <1>5 DEF IsResult

-------------------------------------------------------------------------------
(* The lookup.                                                               *)

Stages == {"enumerate", "subsystem", "name", "tag", "property", "collect", "done",
           "errUdevDatabaseLookup", "errBadGlobPattern"}

\* The inductive invariant: in the middle of a rule, what its filters have left
\* and the result of the rules before it.
Selecting ==
  /\ DOMAIN rules = 1..Len(rules) /\ Len(rules) \in Nat
  /\ rule \in Nat \ {0} /\ stage \in Stages
  /\ stage = "enumerate" => rule = 1 /\ devPaths = <<>>
  /\ stage \in {"subsystem", "name", "tag", "property", "collect"} =>
       /\ rule \in DOMAIN rules
       /\ current = Left(stage, rules[rule])
       /\ IsResult(devPaths, rules, rule - 1)
  /\ stage = "done" => IsResult(devPaths, rules, Len(rules))
  /\ stage \in {"errUdevDatabaseLookup", "errBadGlobPattern"} => devPaths = <<>>
  /\ stage = "errBadGlobPattern" => \E i \in DOMAIN rules : ~WellFormed(rules[i])

\* It holds when a lookup begins, whatever list of rules it is given.
LEMMA SelectingBegins ==
  ASSUME NEW list, list \in Seq(Range(list)), rules = list,
         rule = 1, stage = "enumerate", devPaths = <<>>
  PROVE  Selecting
BY DEF Selecting, Stages

\* Every step of a lookup keeps it.
LEMMA SelectingStep == ASSUME Selecting, [Next]_vars PROVE Selecting'
<1>1. CASE Enumerate
  <2>1. CASE stage' = AfterRule(0) /\ current' = Devices
    <3>1. IsResult(devPaths', rules', 0) /\ rule' = 1
      BY <1>1, ResultOfNone DEF Enumerate, Selecting
    <3>2. current' = Left("subsystem", rules'[1])
      BY <2>1, LeftAtEnds
    <3>3. CASE Len(rules) = 0
      BY <1>1, <2>1, <3>1, <3>3 DEF Enumerate, Selecting, AfterRule, Stages
    <3>4. CASE Len(rules) # 0
      BY <1>1, <2>1, <3>1, <3>2, <3>4 DEF Enumerate, Selecting, AfterRule, Stages
    <3> QED BY <3>3, <3>4
  <2>2. CASE stage' = "errUdevDatabaseLookup"
    BY <1>1, <2>2 DEF Enumerate, Selecting, Stages
  <2> QED BY <1>1, <2>1, <2>2 DEF Enumerate
<1>2. CASE Filter
  <2>1. CASE /\ \E d \in current : "error" \in Verdicts(stage, rules[rule], Database[d])
             /\ stage' = "errBadGlobPattern" /\ devPaths' = <<>>
    <3>1. /\ stage \in {"subsystem", "name", "tag", "property"}
          /\ rule \in DOMAIN rules /\ UNCHANGED <<rules, rule>>
      BY <1>2 DEF Filter, Selecting
    <3>2. ~WellFormed(rules[rule])
      BY <2>1, <3>1, NoErrorWithout
    <3> QED BY <2>1, <3>1, <3>2 DEF Selecting, Stages
  <2>2. CASE /\ stage' = NextStage(stage)
             /\ current' = {d \in current :
                              "match" \in Verdicts(stage, rules[rule], Database[d])}
             /\ UNCHANGED devPaths
    <3>1. stage \in {"subsystem", "name", "tag", "property"} /\ UNCHANGED <<rules, rule>>
      BY <1>2 DEF Filter
    <3>2. current' = Left(stage', rules[rule])
      BY <2>2, <3>1, FilterLeaves DEF Selecting
    <3>3. stage' \in {"name", "tag", "property", "collect"}
      BY <2>2, <3>1 DEF NextStage
    <3> QED BY <2>2, <3>1, <3>2, <3>3 DEF Selecting, Stages
  <2> QED BY <1>2, <2>1, <2>2 DEF Filter
<1>3. CASE Collect
  <2> DEFINE added == {d \in current : Database[d].node \notin DOMAIN devPaths}
  <2>1. /\ stage = "collect" /\ rule \in DOMAIN rules
        /\ IsResult(devPaths, rules, rule - 1)
        /\ current = Selected(rules[rule])
        /\ DOMAIN rules = 1..Len(rules) /\ Len(rules) \in Nat /\ rule \in Nat \ {0}
    BY <1>3, LeftAtEnds DEF Collect, Selecting
  <2>2. devPaths' = [n \in DOMAIN devPaths \cup {Database[d].node : d \in added} |->
                       IF n \in DOMAIN devPaths THEN devPaths[n]
                       ELSE Min({d \in added : Database[d].node = n})]
    BY <1>3 DEF Collect
  <2>3. IsResult(devPaths', rules, rule)
    <3>1. \A d : d \in added <=>
                   d \in Selected(rules[rule]) /\ Database[d].node \notin DOMAIN devPaths
      BY <2>1
    <3>2. /\ devPaths' = [n \in DOMAIN devPaths' |-> devPaths'[n]]
          /\ DOMAIN devPaths' = DOMAIN devPaths \cup {Database[d].node : d \in added}
          /\ \A n \in DOMAIN devPaths : devPaths'[n] = devPaths[n]
      BY <2>2
    <3>3. ASSUME NEW n \in DOMAIN devPaths' \ DOMAIN devPaths
          PROVE  /\ devPaths'[n] \in added /\ Database[devPaths'[n]].node = n
                 /\ \A d \in added : Database[d].node = n => devPaths'[n] <= d
      <4> DEFINE S == {d \in added : Database[d].node = n}
      <4>1. S \in SUBSET Nat
        BY <2>1 DEF Selected, Devices
      <4>2. S # {} /\ devPaths'[n] = Min(S)
        BY <2>2, <3>2
      <4>3. Min(S) \in S /\ \A d \in S : Min(S) <= d
        <5> HIDE DEF S
        <5> QED BY <4>1, <4>2, MinOfNaturals
      <4> QED BY <4>2, <4>3
    <3> HIDE DEF added
    <3> QED BY <2>1, <3>1, <3>2, <3>3, CollectAdds
  <2>4. /\ UNCHANGED rules /\ rule' = rule + 1 /\ stage' = AfterRule(rule)
        /\ current' = Left("subsystem", rules[rule + 1])
    BY <1>3, LeftAtEnds DEF Collect, AllDevices
  <2>5. CASE rule < Len(rules)
    BY <2>1, <2>3, <2>4, <2>5 DEF Selecting, AfterRule, Stages
  <2>6. CASE ~ (rule < Len(rules))
    <3>1. rule = Len(rules)
      BY <2>1, <2>6
    <3> QED BY <2>1, <2>3, <2>4, <2>6, <3>1 DEF Selecting, AfterRule, Stages
  <2> QED BY <2>5, <2>6
<1>4. CASE UNCHANGED vars
  BY <1>4 DEF vars, Selecting
<1> QED BY <1>1, <1>2, <1>3, <1>4 DEF Next

\* Where the code and the comment agree on the tags of a rule, the filters let
\* the devices through that the rule is meant for.
LEMMA WantedIsSelected ==
  ASSUME NEW i, TagsAgree(rules[i]) PROVE Wanted(i) = Selected(rules[i])
BY DEF TagsAgree, Wanted, Passes, Fits, Selected, Survives

\* What it is for.
LEMMA SelectingIsCorrect == Selecting => SelectionCorrect
<1> SUFFICES ASSUME Selecting PROVE SelectionCorrect
  OBVIOUS
<1> DEFINE hits == {i \in DOMAIN rules : Wanted(i) # {}}
           F(n, d) == \E i \in hits :
             /\ Database[d].node = n /\ d \in Wanted(i)
             /\ \A e \in Devices, k \in hits : Database[e].node = n /\ e \in Wanted(k)
                  => i < k \/ (i = k /\ d <= e)
           chosen(n) == CHOOSE d \in Devices : F(n, d)
           nodes == {Database[d].node : d \in UNION {Wanted(i) : i \in hits}}
<1>1. (\A i \in DOMAIN rules : WellFormed(rules[i])) => stage # "errBadGlobPattern"
  BY DEF Selecting
<1>2. ASSUME stage = "done", \A i \in DOMAIN rules : TagsAgree(rules[i])
      PROVE  devPaths = [n \in nodes |-> chosen(n)]
  <2>1. \A i \in DOMAIN rules : Wanted(i) = Selected(rules[i])
    BY <1>2, WantedIsSelected
  <2>2. /\ Len(rules) \in Nat /\ DOMAIN rules = 1..Len(rules)
        /\ IsResult(devPaths, rules, Len(rules))
    BY <1>2 DEF Selecting
  <2>3. nodes = NodesOf(rules, Len(rules))
    BY <2>1, <2>2 DEF NodesOf
  <2>4. \A i : Selected(rules[i]) \subseteq Devices
    BY DEF Selected
  <2>5. ASSUME NEW n, NEW d \in Devices
        PROVE  F(n, d) <=> Chosen(rules, Len(rules), n, d)
    <3>1. \A e, k : k \in hits /\ e \in Wanted(k)
                     <=> k \in 1..Len(rules) /\ e \in Selected(rules[k])
      BY <2>1, <2>2
    <3> QED BY <3>1, <2>4 DEF Chosen
  <2>6. ASSUME NEW n \in nodes PROVE devPaths[n] = chosen(n)
    <3>1. Chosen(rules, Len(rules), n, devPaths[n])
      BY <2>2, <2>3 DEF IsResult
    <3>2. devPaths[n] \in Devices
      BY <3>1, <2>4 DEF Chosen
    <3>3. F(n, devPaths[n]) /\ \A d \in Devices : F(n, d) => d = devPaths[n]
      <4> HIDE DEF F
      <4> QED BY <2>2, <2>5, <3>1, <3>2, ChosenIsUnique
    <3> HIDE DEF F
    <3> QED BY <3>2, <3>3
  <2> HIDE DEF chosen, nodes
  <2> QED BY <2>2, <2>3, <2>6 DEF IsResult
<1> QED BY <1>1, <1>2 DEF SelectionCorrect

\* A lookup whose globs are well formed ends in no error but udev's.  One whose
\* tag rules do not show the difference between code and comment finds the nodes
\* of the devices that pass any one of its rules, each with the first device of
\* the first rule that selects it.  Both hold whichever database udev has,
\* however many rules there are, and in whatever order the Go maps are ranged
\* over (getDevicesByDevNode).
THEOREM SelectionIsCorrect == Spec => []SelectionCorrect
<1>1. Init => Selecting
  BY SelectionAssumption, SelectingBegins DEF Init
<1>2. Selecting /\ [Next]_vars => Selecting'
  BY SelectingStep
<1> QED BY <1>1, <1>2, SelectingIsCorrect, PTL DEF Spec

-------------------------------------------------------------------------------
(* What the rules of the two-step lookups select.                            *)

\* A key and a value that are no patterns select by equality.
LEMMA PlainPair ==
  ASSUME NEW props, NEW k, NEW v, Plain(k), Plain(v)
  PROVE  (\E x \in DOMAIN props : Matches(AsGlob(k), x) /\ Matches(AsGlob(v), props[x]))
           <=> k \in DOMAIN props /\ props[k] = v
BY DEF Plain, Matches

\* A path is that of the device with this node.
LEMMA PathSelects ==
  ASSUME NEW node, Plain(node)
  PROVE  /\ \A d \in Selected(PathRule(node)) : d \in At(node) /\ "DEVNAME" \in DOMAIN Database[d].props
         /\ node # "" => Selected(PathRule(node)) = At(node)
<1>1. ASSUME NEW d
      PROVE  Survives(PathRule(node), Database[d]) <=>
               /\ "DEVNAME" \in DOMAIN Database[d].props
               /\ Database[d].props["DEVNAME"] = node
  <2> DEFINE props == Database[d].props
             F(kv) == \E x \in DOMAIN props : Matches(kv[1], x) /\ Matches(kv[2], props[x])
  <2>1. Survives(PathRule(node), Database[d]) <=> F(<<AsGlob("DEVNAME"), AsGlob(node)>>)
    <3> DEFINE rl == PathRule(node)
    <3>0. /\ rl.subsystems = <<>> /\ rl.names = <<>> /\ rl.tags = <<>>
          /\ rl.props = {<<AsGlob("DEVNAME"), AsGlob(node)>>}
      BY DEF PathRule
    <3>1. Survives(rl, Database[d]) <=> \A kv \in {<<AsGlob("DEVNAME"), AsGlob(node)>>} : F(kv)
      <4> HIDE DEF rl
      <4>1. Range(rl.subsystems) = {} /\ Range(rl.names) = {} /\ Range(rl.tags) = {}
        BY <3>0 DEF Range
      <4>2. Survives(rl, Database[d]) <=> \A kv \in rl.props : F(kv)
        BY <4>1 DEF Survives
      <4> QED BY <4>2, <3>0
    <3> HIDE DEF F
    <3> QED BY <3>1
  <2>2. Plain("DEVNAME")
    BY PlainAssumption
  <2> HIDE DEF props
  <2>3. Survives(PathRule(node), Database[d]) <=> "DEVNAME" \in DOMAIN props /\ props["DEVNAME"] = node
    BY <2>1, <2>2, PlainPair
  <2> QED BY <2>3 DEF props
<1>2. ASSUME NEW d \in Devices
      PROVE  /\ "DEVNAME" \in DOMAIN Database[d].props =>
                  Database[d].props["DEVNAME"] = Database[d].node
             /\ "DEVNAME" \notin DOMAIN Database[d].props => Database[d].node = ""
  BY UdevAssumption DEF Property
<1>3. \A d \in Selected(PathRule(node)) :
        d \in Devices /\ Database[d].node = node /\ "DEVNAME" \in DOMAIN Database[d].props
  BY <1>1, <1>2 DEF Selected
<1>4. ASSUME node # "", NEW d \in At(node) PROVE d \in Selected(PathRule(node))
  BY <1>1, <1>2, <1>4 DEF Selected, At
<1> QED BY <1>3, <1>4 DEF At

\* A rule of keys and values without patterns selects by all of them.
LEMMA PropertiesSelect ==
  ASSUME NEW values, \A k \in DOMAIN values : Plain(k) /\ Plain(values[k]), NEW d
  PROVE  Survives(PropertyRule(values), Database[d]) <=>
           \A k \in DOMAIN values : /\ k \in DOMAIN Database[d].props
                                    /\ Database[d].props[k] = values[k]
<1> DEFINE props == Database[d].props
           F(kv) == \E x \in DOMAIN props : Matches(kv[1], x) /\ Matches(kv[2], props[x])
<1>1. ASSUME NEW k \in DOMAIN values
      PROVE  F(<<AsGlob(k), AsGlob(values[k])>>) <=> k \in DOMAIN props /\ props[k] = values[k]
  <2> HIDE DEF props
  <2> QED BY PlainPair
<1>2. Survives(PropertyRule(values), Database[d]) <=>
        \A kv \in {<<AsGlob(k), AsGlob(values[k])>> : k \in DOMAIN values} : F(kv)
  BY DEF Survives, PropertyRule, Range
<1> HIDE DEF F, props
<1>3. Survives(PropertyRule(values), Database[d]) <=>
        \A k \in DOMAIN values : F(<<AsGlob(k), AsGlob(values[k])>>)
  BY <1>2
<1> QED BY <1>1, <1>3 DEF props

\* The partitions that udev has for the number of a disk are the kernel's.
LEMMA PartitionsSelected ==
  ASSUME NEW d \in Disks
  PROVE  Selected(PartitionRule(d)) = {p \in Devices : PartitionOf(p, d)}
<1> DEFINE values == [ID_PART_ENTRY_DISK |-> NumberText(d), DEVTYPE |-> "partition"]
<1>1. \A k \in DOMAIN values : Plain(k) /\ Plain(values[k])
  BY PlainAssumption
<1>2. \A p : Survives(PartitionRule(d), Database[p]) <=>
        \A k \in DOMAIN values : /\ k \in DOMAIN Database[p].props
                                 /\ Database[p].props[k] = values[k]
  <2> HIDE DEF values
  <2>1. PartitionRule(d) = PropertyRule(values)
    BY DEF PartitionRule, values
  <2> QED BY <1>1, <2>1, PropertiesSelect
<1>3. ASSUME NEW p \in Devices
      PROVE  Survives(PartitionRule(d), Database[p]) <=>
               /\ Property(p, "DEVTYPE") = "partition"
               /\ Property(p, "ID_PART_ENTRY_DISK") = NumberText(d)
  <2>1. Survives(PartitionRule(d), Database[p]) <=>
          /\ "ID_PART_ENTRY_DISK" \in DOMAIN Database[p].props
          /\ "DEVTYPE" \in DOMAIN Database[p].props
          /\ Database[p].props["ID_PART_ENTRY_DISK"] = NumberText(d)
          /\ Database[p].props["DEVTYPE"] = "partition"
    BY <1>2
  <2> QED BY <2>1, UdevAssumption DEF Property
<1>4. ASSUME NEW p \in Devices, Property(p, "DEVTYPE") = "partition",
             Property(p, "ID_PART_ENTRY_DISK") = NumberText(d)
      PROVE  PartitionOf(p, d)
  <2>1. PICK e \in Disks : PartitionOf(p, e)
    BY <1>4, UdevAssumption
  <2>2. NumberText(e) = NumberText(d)
    BY <1>4, <2>1, UdevAssumption DEF Disks
  <2>3. Number(e) = Number(d)
    BY <2>2, UdevAssumption
  <2> QED BY <2>1, <2>3, UdevAssumption
<1> QED BY <1>3, <1>4, UdevAssumption DEF Selected

\* The number of a disk is that of the disk and, perhaps, of devices that are
\* not block devices.
LEMMA DiskSelected ==
  ASSUME NEW d \in Disks
  PROVE  /\ d \in Selected(DiskRule(Number(d)))
         /\ \A e \in Selected(DiskRule(Number(d))) : e \in Devices /\ Number(e) = Number(d)
<1> DEFINE values == [MAJOR |-> Number(d)[1], MINOR |-> Number(d)[2]]
<1>1. \A k \in DOMAIN values : Plain(k) /\ Plain(values[k])
  BY PlainAssumption
<1>2. \A e : Survives(DiskRule(Number(d)), Database[e]) <=>
        \A k \in DOMAIN values : /\ k \in DOMAIN Database[e].props
                                 /\ Database[e].props[k] = values[k]
  <2> HIDE DEF values
  <2>1. DiskRule(Number(d)) = PropertyRule(values)
    BY DEF DiskRule, values
  <2> QED BY <1>1, <2>1, PropertiesSelect
<1>3. \A e : Survives(DiskRule(Number(d)), Database[e]) <=>
          /\ {"MAJOR", "MINOR"} \subseteq DOMAIN Database[e].props
          /\ Database[e].props["MAJOR"] = Property(d, "MAJOR")
          /\ Database[e].props["MINOR"] = Property(d, "MINOR")
  BY <1>2 DEF Number
<1>4. {"MAJOR", "MINOR"} \subseteq DOMAIN Database[d].props /\ d \in Devices
  BY UdevAssumption DEF Disks
<1> QED BY <1>3, <1>4 DEF Selected, Property, Number

\* A full rule asks for the device node with everything else.
LEMMA FullSelects ==
  ASSUME NEW d \in Devices, Plain(Database[d].node),
         "DEVNAME" \in DOMAIN Database[d].props, NEW order
  PROVE  Selected(FullRule(Database[d], order)) \subseteq At(Database[d].node)
<1> DEFINE node == Database[d].node
<1>1. <<AsGlob("DEVNAME"), AsGlob(node)>> \in FullRule(Database[d], order).props
  <2>1. node = Database[d].props["DEVNAME"]
    BY UdevAssumption DEF Property
  <2>2. FullRule(Database[d], order).props =
          {<<AsGlob(k), AsGlob(Database[d].props[k])>> : k \in DOMAIN Database[d].props}
    BY DEF FullRule
  <2> QED BY <2>1, <2>2
<1>2. \A e \in Selected(FullRule(Database[d], order)) :
        \E x \in DOMAIN Database[e].props :
          Matches(AsGlob("DEVNAME"), x) /\ Matches(AsGlob(node), Database[e].props[x])
  BY <1>1 DEF Selected, Survives
<1>3. ASSUME NEW e \in Selected(FullRule(Database[d], order))
      PROVE  "DEVNAME" \in DOMAIN Database[e].props /\ Database[e].props["DEVNAME"] = node
  <2> DEFINE props == Database[e].props
  <2>1. \E x \in DOMAIN props : Matches(AsGlob("DEVNAME"), x) /\ Matches(AsGlob(node), props[x])
    BY <1>2
  <2>2. Plain("DEVNAME")
    BY PlainAssumption
  <2> HIDE DEF props, node
  <2>3. "DEVNAME" \in DOMAIN props /\ props["DEVNAME"] = node
    BY <2>1, <2>2, PlainPair DEF node
  <2> QED BY <2>3 DEF props
<1> QED BY <1>3, UdevAssumption DEF Selected, At, Property

\* It is satisfied by its own device if it says what that is and no more.
LEMMA FullSelectsItself ==
  ASSUME NEW d \in Devices, Patternless(Database[d]),
         NEW order, \A i \in DOMAIN order : order[i] \in Database[d].tags
  PROVE  d \in Selected(FullRule(Database[d], order))
<1> DEFINE dev == Database[d]
           r == FullRule(dev, order)
<1>1. ASSUME NEW s, Plain(s) PROVE Matches(AsGlob(s), s)
  BY <1>1 DEF Plain, Matches
<1>2. /\ r.subsystems = <<AsGlob(dev.subsystem)>> /\ r.names = <<AsGlob(dev.name)>>
      /\ r.tags = [i \in DOMAIN order |-> AsGlob(order[i])]
      /\ r.props = {<<AsGlob(k), AsGlob(dev.props[k])>> : k \in DOMAIN dev.props}
  BY DEF FullRule
<1>3. /\ Plain(dev.subsystem) /\ Plain(dev.name)
      /\ \A t \in dev.tags : Plain(t) /\ dev.tags = {t}
      /\ \A k \in DOMAIN dev.props : Plain(k) /\ Plain(dev.props[k])
  BY DEF Patternless
<1> HIDE DEF r, dev
<1>4. \A g \in Range(r.subsystems) : Matches(g, dev.subsystem)
  BY <1>1, <1>2, <1>3 DEF Range
<1>5. \A g \in Range(r.names) : Matches(g, dev.name)
  BY <1>1, <1>2, <1>3 DEF Range
<1>6. ASSUME NEW g \in Range(r.tags), NEW t \in dev.tags PROVE Matches(g, t)
  <2>1. PICK i \in DOMAIN order : g = AsGlob(order[i])
    BY <1>2, <1>6 DEF Range
  <2>2. order[i] = t /\ Plain(t)
    BY <1>3, <2>1 DEF dev
  <2> QED BY <1>1, <2>1, <2>2
<1>7. ASSUME NEW kv \in r.props
      PROVE  \E k \in DOMAIN dev.props : Matches(kv[1], k) /\ Matches(kv[2], dev.props[k])
  <2>1. PICK k \in DOMAIN dev.props : kv = <<AsGlob(k), AsGlob(dev.props[k])>>
    BY <1>2, <1>7
  <2>2. Matches(AsGlob(k), k) /\ Matches(AsGlob(dev.props[k]), dev.props[k])
    BY <1>1, <1>3
  <2>3. kv[1] = AsGlob(k) /\ kv[2] = AsGlob(dev.props[k])
    BY <2>1
  <2> QED BY <2>2, <2>3
<1>8. Survives(r, dev)
  BY <1>4, <1>5, <1>6, <1>7 DEF Survives
<1> QED BY <1>8 DEF Selected, r, dev

-------------------------------------------------------------------------------
(* The calls that ask udev.                                                  *)

\* What the second lookup of a call may ask for, once the first one has looked
\* up the path.
SecondRule(q, r) ==
  LET first == Selected(PathRule(q.node)) IN
  \/ /\ q.fn = "GetPartitionDevicesFromDiskPath"
     /\ \E d \in first : r = PartitionRule(d)
  \/ /\ q.fn = "GetDiskDeviceFromPartitionPath"
     /\ first # {} =>
          \E d \in first : r = DiskRule(DiskTuple(Property(d, "ID_PART_ENTRY_DISK")))
  \/ /\ q.fn = "crosscheck"
     /\ \E d \in first : \E order :
          /\ \A i \in DOMAIN order : order[i] \in Database[d].tags
          /\ r = FullRule(Database[d], order)

\* The inductive invariant: which rules the call is using.
Asking ==
  /\ Selecting
  /\ lookup \in {"first", "second", "over"}
  /\ lookup = "first" => query.fn = "GetDevicePaths" \/ rules = <<PathRule(query.node)>>
  /\ lookup = "second" => \E r : rules = <<r>> /\ SecondRule(query, r)
  /\ LookupsRight

\* What a lookup with one rule has found when it ends.
LEMMA OneRule ==
  ASSUME Selecting, NEW r, rules = <<r>>, stage = "done"
  PROVE  /\ DOMAIN devPaths = {Database[d].node : d \in Selected(r)}
         /\ \A n \in DOMAIN devPaths : devPaths[n] \in Selected(r) /\ Database[devPaths[n]].node = n
<1>1. Len(rules) = 1 /\ rules[1] = r
  OBVIOUS
<1>2. IsResult(devPaths, rules, 1)
  BY <1>1 DEF Selecting
<1>3. \A k : k \in 1..1 <=> k = 1
  OBVIOUS
<1>4. NodesOf(rules, 1) = {Database[d].node : d \in Selected(r)}
  BY <1>1, <1>3 DEF NodesOf
<1> QED BY <1>1, <1>2, <1>3, <1>4 DEF IsResult, Chosen

\* A lookup that has ended with an error has found nothing.
LEMMA NothingFound ==
  ASSUME Selecting, stage \in {"errUdevDatabaseLookup", "errBadGlobPattern"}
  PROVE  devPaths = <<>> /\ DOMAIN devPaths = {} /\ Found = {}
BY DEF Selecting, Found

\* A call that fails returns no device.
LEMMA FailFindsNothing ==
  ASSUME NEW error, Fail(error)
  PROVE  /\ answer'.error = error /\ DOMAIN answer'.found = {}
         /\ query' = query /\ stage' = stage /\ lookup' = "over"
<1>1. answer'.error = error /\ answer'.found = <<>>
  BY DEF Fail
<1>2. DOMAIN answer'.found = {}
  BY <1>1
<1> QED BY <1>1, <1>2 DEF Fail, vars

\* A call that is not about the disk of a partition may fail at any time, and
\* that one, too, when udev has failed.
LEMMA FailIsRight ==
  ASSUME Asking, NEW error, error # "", Fail(error),
         query.fn # "GetDiskDeviceFromPartitionPath" \/ stage # "done"
  PROVE  Asking'
<1>1. Selecting'
  BY DEF Asking, Fail, Selecting, vars
<1>2. LookupsRight'
  <2>1. /\ answer'.error # "" /\ DOMAIN answer'.found = {}
        /\ query' = query /\ stage' = stage
    BY FailFindsNothing
  <2>2. ~ (Lookup("GetDiskDeviceFromPartitionPath") /\ stage = "done")'
    BY <2>1 DEF Lookup
  <2> QED BY <2>1, <2>2 DEF LookupsRight
<1> QED BY <1>1, <1>2 DEF Asking, Fail

\* The second lookup begins.
LEMMA LookUpBegins ==
  ASSUME Asking, NEW r, LookUp(r), SecondRule(query, r)
  PROVE  Asking'
<1>1. Selecting'
  <2>1. <<r>> \in Seq({r}) /\ Range(<<r>>) = {r}
    BY DEF Range
  <2> QED BY <2>1 DEF LookUp, Selecting, Stages
<1>2. LookupsRight' /\ lookup' = "second" /\ rules' = <<r>> /\ SecondRule(query', r)
  BY DEF LookUp, LookupsRight, Lookup
<1> QED BY <1>1, <1>2 DEF Asking

\* A step of a lookup.
LEMMA AskStep == ASSUME Asking, Ask PROVE Asking'
<1>1. Selecting'
  BY SelectingStep DEF Ask, Asking, Next
<1>2. UNCHANGED <<rules, query, lookup>> /\ lookup # "over"
  BY DEF Ask, Enumerate, Filter, Collect
<1>3. LookupsRight'
  BY <1>2 DEF LookupsRight, Lookup
<1> QED BY <1>1, <1>2, <1>3 DEF Asking

\* The partitions of a disk.
LEMMA PartitionsStep == ASSUME Asking, GetPartitionDevicesFromDiskPath PROVE Asking'
<1>1. query.fn = "GetPartitionDevicesFromDiskPath"
  BY DEF GetPartitionDevicesFromDiskPath
<1>2. CASE Ends("first") /\ stage = "done" /\ \E d \in Found : Found = {d} /\ LookUp(PartitionRule(d))
  <2>1. PICK d \in Found : LookUp(PartitionRule(d))
    BY <1>2
  <2>2. rules = <<PathRule(query.node)>>
    BY <1>1, <1>2 DEF Asking, Ends
  <2>3. d \in Selected(PathRule(query.node))
    BY <1>2, <2>2, OneRule DEF Asking, Found
  <2>4. SecondRule(query, PartitionRule(d))
    BY <1>1, <2>3 DEF SecondRule
  <2> QED BY <2>1, <2>4, LookUpBegins
<1>3. CASE Ends("second") /\ Return
  <2>1. PICK r : rules = <<r>> /\ SecondRule(query, r)
    BY <1>3 DEF Asking, Ends
  <2>2. PICK p \in Selected(PathRule(query.node)) : r = PartitionRule(p)
    BY <1>1, <2>1 DEF SecondRule
  <2>3. ASSUME Plain(query.node), NEW d \in Disks \cap At(query.node)
        PROVE  DOMAIN devPaths = IF stage = "done"
                 THEN {Database[q].node : q \in {x \in Devices : PartitionOf(x, d)}}
                 ELSE {}
    <3>1. d \in Devices /\ Database[d].node = query.node /\ Database[d].node # ""
      BY <2>3, UdevAssumption DEF Disks, At
    <3>2. p = d
      BY <2>3, <3>1, PathSelects, UdevAssumption DEF At
    <3>3. Selected(r) = {x \in Devices : PartitionOf(x, d)}
      BY <2>2, <2>3, <3>2, PartitionsSelected
    <3>4. CASE stage = "done"
      BY <2>1, <3>3, <3>4, OneRule DEF Asking
    <3>5. CASE stage # "done"
      BY <1>3, <3>5, NothingFound DEF Asking, Ends
    <3> QED BY <3>4, <3>5
  <2>4. /\ UNCHANGED <<vars, query>> /\ lookup' = "over"
        /\ answer' = [error |-> "", found |-> devPaths]
    BY <1>3 DEF Return
  <2>5. Selecting'
    BY <2>4 DEF Asking, Selecting, vars
  <2>6. LookupsRight'
    BY <1>1, <2>3, <2>4 DEF LookupsRight, Lookup, vars
  <2> QED BY <2>4, <2>5, <2>6 DEF Asking
<1> QED BY <1>2, <1>3 DEF GetPartitionDevicesFromDiskPath

\* The disk of a partition, the first lookup: the number is that of the disk.
LEMMA FindNumberStep ==
  ASSUME Asking, query.fn = "GetDiskDeviceFromPartitionPath",
         Ends("first"), stage = "done", FindDiskNumber
  PROVE  Asking'
<1> DEFINE of(d) == Property(d, "ID_PART_ENTRY_DISK")
           path == Selected(PathRule(query.node))
<1>1. /\ DOMAIN devPaths = {Database[d].node : d \in path}
      /\ \A n \in DOMAIN devPaths : devPaths[n] \in path /\ Database[devPaths[n]].node = n
  BY OneRule DEF Asking, Ends
<1>2. Found \subseteq path /\ (Found = {} => path = {})
  <2>1. Found = {} => DOMAIN devPaths = {}
    BY DEF Found
  <2>2. DOMAIN devPaths = {} => path = {}
    <3> HIDE DEF path
    <3> QED BY <1>1
  <2> QED BY <1>1, <2>1, <2>2 DEF Found
<1>3. ASSUME Plain(query.node), NEW p \in At(query.node), NEW d \in Disks, PartitionOf(p, d)
      PROVE  Found = {p} /\ of(p) # ""
  <2>1. p \in Devices /\ Database[p].node = query.node /\ Database[p].node # ""
    BY <1>3, UdevAssumption DEF At
  <2>2. path = {p}
    <3>1. At(query.node) = {p}
      BY <2>1, UdevAssumption DEF At
    <3> QED BY <1>3, <2>1, <3>1, PathSelects
  <2>3. Found = {p}
    BY <1>1, <2>2 DEF Found
  <2> QED BY <1>3, <2>1, <2>3, UdevAssumption
<1>4. CASE Found = {} /\ LookUp(DiskRule(<<"", "">>))
  <2>1. SecondRule(query, DiskRule(<<"", "">>))
    BY <1>2, <1>4 DEF SecondRule
  <2> QED BY <1>4, <2>1, LookUpBegins
<1>5. ASSUME NEW first \in Found, NEW error, error # "", Fail(error),
             of(first) = "" \/ \E d \in Found : of(d) # of(first)
      PROVE  Asking'
  <2>1. Selecting' /\ lookup' = "over"
    BY <1>5 DEF Asking, Fail, Selecting, vars
  <2>2. LookupsRight'
    <3>1. /\ answer'.error # "" /\ DOMAIN answer'.found = {} /\ query' = query
      <4>1. Fail(error) /\ error # ""
        BY <1>5
      <4> QED BY <4>1, FailFindsNothing, Zenon
    <3>2. Plain(query.node) => \A p \in At(query.node), d \in Disks : ~ PartitionOf(p, d)
      BY <1>3, <1>5
    <3> HIDE DEF of
    <3> QED BY <3>1, <3>2 DEF LookupsRight, Lookup
  <2> QED BY <2>1, <2>2 DEF Asking
<1>6. ASSUME NEW first \in Found, LookUp(DiskRule(DiskTuple(of(first))))
      PROVE  Asking'
  <2>1. SecondRule(query, DiskRule(DiskTuple(of(first))))
    BY <1>2 DEF SecondRule
  <2> QED BY <1>6, <2>1, LookUpBegins
<1>7. \/ Found = {} /\ LookUp(DiskRule(<<"", "">>))
      \/ \E first \in Found :
           \/ of(first) = "" /\ Fail("panic")
           \/ (\E d \in Found : of(d) # of(first)) /\ Fail("errGotMultipleDisksWhenExpectedOne")
           \/ LookUp(DiskRule(DiskTuple(of(first))))
  BY DEF FindDiskNumber
<1> HIDE DEF of, path
<1> QED BY <1>4, <1>5, <1>6, <1>7

\* The disk of a partition, the second lookup.
LEMMA DiskStep == ASSUME Asking, GetDiskDeviceFromPartitionPath PROVE Asking'
<1>1. query.fn = "GetDiskDeviceFromPartitionPath"
  BY DEF GetDiskDeviceFromPartitionPath
<1>2. CASE Ends("first") /\ stage = "done" /\ FindDiskNumber
  BY <1>1, <1>2, FindNumberStep
<1>3. CASE Ends("second")
  <2>1. PICK r : rules = <<r>> /\ SecondRule(query, r)
    BY <1>3 DEF Asking, Ends
  <2>2. ASSUME Plain(query.node), NEW p \in At(query.node), NEW d \in Disks, PartitionOf(p, d)
        PROVE  r = DiskRule(Number(d))
    <3>1. p \in Devices /\ Database[p].node = query.node /\ Database[p].node # ""
      BY <2>2, UdevAssumption DEF At
    <3>2. Selected(PathRule(query.node)) = {p}
      <4>1. At(query.node) = {p}
        BY <3>1, UdevAssumption DEF At
      <4> QED BY <2>2, <3>1, <4>1, PathSelects
    <3>3. r = DiskRule(DiskTuple(Property(p, "ID_PART_ENTRY_DISK")))
      BY <1>1, <2>1, <3>2 DEF SecondRule
    <3> QED BY <3>3, <2>2, <3>1, UdevAssumption
  <2>3. \A n \in DOMAIN devPaths : devPaths[n] \in Devices /\ Database[devPaths[n]].node = n
    <3>1. CASE stage = "done"
      BY <3>1, <2>1, OneRule DEF Asking, Selected
    <3>2. CASE stage # "done"
      BY <3>2, <1>3, NothingFound DEF Asking, Ends
    <3> QED BY <3>1, <3>2
  <2>4. ASSUME stage = "done", Plain(query.node),
               NEW p \in At(query.node), NEW d \in Disks, PartitionOf(p, d)
        PROVE  /\ Database[d].node \in DOMAIN devPaths
               /\ (\A e \in Devices \ {d} : Number(e) # Number(d)) => Found = {d}
    <3>1. /\ d \in Selected(r)
          /\ \A e \in Selected(r) : e \in Devices /\ Number(e) = Number(d)
      BY <2>2, <2>4, DiskSelected
    <3>2. /\ DOMAIN devPaths = {Database[e].node : e \in Selected(r)}
          /\ \A n \in DOMAIN devPaths : devPaths[n] \in Selected(r)
      BY <2>1, <2>4, OneRule DEF Asking
    <3>3. Database[d].node \in DOMAIN devPaths
      BY <3>1, <3>2
    <3>4. ASSUME \A e \in Devices \ {d} : Number(e) # Number(d) PROVE Found = {d}
      <4>1. \A e \in Selected(r) : e = d
        BY <3>1, <3>4
      <4> QED BY <3>2, <3>3, <4>1 DEF Found
    <3> QED BY <3>3, <3>4
  <2>5. /\ UNCHANGED <<vars, query>> /\ lookup' = "over"
    BY <1>3 DEF GetDiskDeviceFromPartitionPath, Fail, Return, Ends
  <2>6. Selecting'
    BY <2>5 DEF Asking, Selecting, vars
  <2>7. CASE Cardinality(Found) = 1 /\ Return
    <3>1. PICK e : Found = {e}
      <4>1. Found \in SUBSET Devices /\ IsFiniteSet(Devices)
        BY <2>3, FS_Interval, SelectionAssumption DEF Found, Devices
      <4>2. IsFiniteSet(Found)
        BY <4>1, FS_Subset
      <4> QED BY <2>7, <4>2, FS_Singleton
    <3>2. ASSUME NEW n \in DOMAIN devPaths PROVE DOMAIN devPaths = {n}
      BY <2>3, <3>1 DEF Found
    <3>3. answer' = [error |-> "", found |-> devPaths]
      BY <2>7 DEF Return
    <3>4. stage = "done"
      BY <1>3, <3>1, NothingFound DEF Asking, Ends
    <3>5. ASSUME Plain(query.node), NEW p \in At(query.node), NEW d \in Disks, PartitionOf(p, d)
          PROVE  DOMAIN devPaths = {Database[d].node}
      BY <3>2, <3>4, <3>5, <2>4
    <3>6. LookupsRight'
      BY <1>1, <2>5, <3>3, <3>5 DEF LookupsRight, Lookup
    <3> QED BY <2>5, <2>6, <3>6 DEF Asking
  <2>8. ASSUME Cardinality(Found) # 1, NEW error, error # "", Fail(error)
        PROVE  Asking'
    <3>1. answer'.error # "" /\ DOMAIN answer'.found = {}
      BY <2>8, FailFindsNothing
    <3>2. ASSUME stage = "done", Plain(query.node),
                 NEW p \in At(query.node), NEW d \in Disks, PartitionOf(p, d)
          PROVE  ~ (\A e \in Devices \ {d} : Number(e) # Number(d))
      BY <2>4, <2>8, <3>2, FS_Singleton
    <3>3. LookupsRight'
      BY <1>1, <2>5, <3>1, <3>2 DEF LookupsRight, Lookup, vars
    <3> QED BY <2>5, <2>6, <3>3 DEF Asking
  <2>9. Found = {} => Cardinality(Found) # 1
    BY FS_EmptySet
  <2>10. \/ Cardinality(Found) = 1 /\ Return
         \/ Cardinality(Found) # 1 /\ Fail("errDiskNotFound")
         \/ Cardinality(Found) # 1 /\ Fail("errGotMultipleDisksWhenExpectedOne")
    BY <1>3, <2>9 DEF GetDiskDeviceFromPartitionPath, Ends
  <2> QED BY <2>7, <2>8, <2>10
<1> QED BY <1>2, <1>3 DEF GetDiskDeviceFromPartitionPath

\* crosscheck.
LEMMA CrosscheckStep == ASSUME Asking, Crosscheck PROVE Asking'
<1>1. query.fn = "crosscheck"
  BY DEF Crosscheck
<1>2. CASE Ends("first") /\ stage = "done"
  <2>1. PICK d \in Found : \E order \in SetToSeqs(Database[d].tags) :
          LookUp(FullRule(Database[d], order))
    BY <1>2 DEF Crosscheck, Ends
  <2>2. PICK order : /\ \A i \in DOMAIN order : order[i] \in Database[d].tags
                     /\ LookUp(FullRule(Database[d], order))
    BY <2>1 DEF SetToSeqs
  <2>3. rules = <<PathRule(query.node)>>
    BY <1>1, <1>2 DEF Asking, Ends
  <2>4. d \in Selected(PathRule(query.node))
    BY <1>2, <2>3, OneRule DEF Asking, Found
  <2>5. SecondRule(query, FullRule(Database[d], order))
    <3>1. \E e \in Selected(PathRule(query.node)) : \E o :
            /\ \A i \in DOMAIN o : o[i] \in Database[e].tags
            /\ FullRule(Database[d], order) = FullRule(Database[e], o)
      BY <2>4, <2>2, Zenon
    <3> QED BY <1>1, <3>1, Zenon DEF SecondRule
  <2> QED BY <2>5, <2>2, LookUpBegins
<1>3. CASE Ends("second") /\ stage = "done" /\ Return
  <2>1. PICK r : rules = <<r>> /\ SecondRule(query, r)
    BY <1>3 DEF Asking, Ends
  <2>2. PICK d \in Selected(PathRule(query.node)) : \E order :
          /\ \A i \in DOMAIN order : order[i] \in Database[d].tags
          /\ r = FullRule(Database[d], order)
    BY <1>1, <2>1 DEF SecondRule
  <2>3. ASSUME Plain(query.node)
        PROVE  /\ DOMAIN devPaths \subseteq {query.node}
               /\ (\A e \in At(query.node) : Patternless(Database[e])) => DOMAIN devPaths = {query.node}
    <3>1. d \in Devices /\ Database[d].node = query.node /\ "DEVNAME" \in DOMAIN Database[d].props
      BY <2>3, PathSelects DEF At
    <3>2. Selected(r) \subseteq At(query.node)
      BY <2>2, <2>3, <3>1, FullSelects
    <3>3. DOMAIN devPaths = {Database[e].node : e \in Selected(r)}
      BY <1>3, <2>1, OneRule DEF Asking
    <3>4. DOMAIN devPaths \subseteq {query.node}
      BY <3>2, <3>3 DEF At
    <3>5. ASSUME \A e \in At(query.node) : Patternless(Database[e])
          PROVE  query.node \in DOMAIN devPaths
      <4>1. Patternless(Database[d])
        BY <3>1, <3>5 DEF At
      <4>2. d \in Selected(r)
        BY <2>2, <3>1, <4>1, FullSelectsItself
      <4> QED BY <3>1, <3>3, <4>2
    <3> QED BY <3>4, <3>5
  <2>4. /\ UNCHANGED <<vars, query>> /\ lookup' = "over"
        /\ answer' = [error |-> "", found |-> devPaths]
    BY <1>3 DEF Return
  <2>5. Selecting'
    BY <2>4 DEF Asking, Selecting, vars
  <2>6. LookupsRight'
    BY <1>1, <2>3, <2>4 DEF LookupsRight, Lookup
  <2> QED BY <2>4, <2>5, <2>6 DEF Asking
<1>4. CASE Ends("second") /\ stage # "done" /\ Fail(stage)
  BY <1>4, FailIsRight DEF Ends
<1> QED BY <1>2, <1>3, <1>4 DEF Crosscheck, Ends

\* Every step of a call keeps the invariant.
LEMMA AskingStep == ASSUME Asking, [QueryNext]_queryVars PROVE Asking'
<1>1. CASE PassError
  BY <1>1, FailIsRight DEF PassError, Ends
<1>2. CASE NotTheOne
  BY <1>2, FailIsRight DEF NotTheOne
<1>3. CASE GetDevicePaths \/ GetFullSelectionRuleForDevice
  <2>1. /\ UNCHANGED <<vars, query>> /\ lookup' = "over"
        /\ query.fn \in {"GetDevicePaths", "GetFullSelectionRuleForDevice"}
    BY <1>3 DEF GetDevicePaths, GetFullSelectionRuleForDevice, Return
  <2>2. Selecting' /\ LookupsRight'
    BY <2>1 DEF Asking, Selecting, vars, LookupsRight, Lookup
  <2> QED BY <2>1, <2>2 DEF Asking
<1>4. CASE UNCHANGED queryVars
  <2>1. Selecting' /\ LookupsRight'
    BY <1>4 DEF queryVars, vars, Asking, Selecting, LookupsRight, Lookup
  <2> QED BY <1>4, <2>1 DEF queryVars, vars, Asking
<1> QED BY <1>1, <1>2, <1>3, <1>4, AskStep, PartitionsStep, DiskStep, CrosscheckStep DEF QueryNext

\* It holds when a call begins.
LEMMA AskingBegins == QueryInit => Asking
<1> SUFFICES ASSUME QueryInit PROVE Asking
  OBVIOUS
<1>1. Selecting
  BY SelectionAssumption, SelectingBegins DEF QueryInit, Init
<1>2. LookupsRight
  BY DEF QueryInit, LookupsRight, Lookup
<1> QED BY <1>1, <1>2 DEF Asking, QueryInit

\* The lookups of a disk's partitions and of a partition's disk agree with the
\* kernel's tree of devices, whichever devices udev knows, and a full rule never
\* selects another device, and its own one if nothing in it is a pattern (GetPartitionDevicesFromDiskPath,
\* GetDiskDeviceFromPartitionPath, crosscheck).
THEOREM LookupsAreRight == QuerySpec => []LookupsRight
<1>1. Asking => LookupsRight
  BY DEF Asking
<1> QED BY <1>1, AskingBegins, AskingStep, PTL DEF QuerySpec

\* Every lookup of these calls is correct by itself.
THEOREM QueriesSelectCorrectly == QuerySpec => []SelectionCorrect
<1>1. Asking => SelectionCorrect
  BY SelectingIsCorrect DEF Asking
<1> QED BY <1>1, AskingBegins, AskingStep, PTL DEF QuerySpec

===============================================================================

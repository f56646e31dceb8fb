---------------------------- MODULE DeviceSelection ----------------------------
(***************************************************************************)
(* volumequery.getDevicesByDevNode: udev itself combines match rules with  *)
(* OR, so the code dumps the udev database and filters it rule by rule,    *)
(* each rule through four stages:                                          *)
(*                                                                         *)
(*   enumerate -> subsystem -> name -> tag -> property -> collect          *)
(*                                                                         *)
(* A glob pattern is the set of the strings it matches, or Malformed:      *)
(* filepath.Match then reports an error, which aborts the whole call.      *)
(* Names and values that end up in a rule are read as patterns, too.       *)
(***************************************************************************)
EXTENDS Naturals, FiniteSetsExt, SequencesExt

CONSTANTS
  Database,   \* the devices udev knows, in the order it lists them
  RuleLists,  \* the selection rules the function may be called with
  Malformed,  \* a glob pattern with a syntax error
  AsGlob(_)   \* the glob pattern that a string is when it is read as one

\* A device is [node, name, subsystem, tags, props, attrs]: tags is a set,
\* props and attrs are functions from keys to values.  A rule is [subsystems,
\* names, tags, props, attrs]: the first three are sequences of globs, the last
\* two sets of pairs of a key glob and a value glob.
Devices == 1..Len(Database)

ASSUME SelectionAssumption ==
  /\ Database \in Seq(Range(Database))
  /\ \A list \in RuleLists : list \in Seq(Range(list))

VARIABLES
  rules,      \* the selection rules of this call
  rule,       \* index of the rule being applied
  stage,      \* its next filter; "done" and the two errors end the call
  current,    \* the devices that have passed the filters of the rule so far
  devPaths    \* the result: device node -> the device its full rule describes

vars == <<rules, rule, stage, current, devPaths>>

-------------------------------------------------------------------------------
Matches(glob, s) == glob # Malformed /\ s \in glob

\* The verdict of the first glob of a sequence that does not match.
FirstVerdict(globs, Accepts(_)) ==
  LET stops == {i \in DOMAIN globs : globs[i] = Malformed \/ ~Accepts(globs[i])}
  IN  CASE stops = {} -> "match"
        [] \E i \in stops : globs[i] = Malformed /\ \A j \in stops : i <= j -> "error"
        [] OTHER -> "miss"

SubsystemVerdicts(r, dev) ==
  {FirstVerdict(r.subsystems, LAMBDA g : Matches(g, dev.subsystem))}

NameVerdicts(r, dev) ==
  {FirstVerdict(r.names, LAMBDA g : Matches(g, dev.name))}

\* A tag rule is dropped by the first device tag that it does not match, and is
\* not looked at when there are no tags.
TagVerdicts(r, dev) ==
  IF dev.tags = {} THEN {"match"}
  ELSE {FirstVerdict(r.tags, LAMBDA g : \A t \in dev.tags : Matches(g, t))}

PropertyVerdict(kv, props) ==
  LET keyed == {k \in DOMAIN props : Matches(kv[1], k)} IN
  CASE kv[1] = Malformed /\ DOMAIN props # {} -> "error"
    [] kv[2] = Malformed /\ keyed # {}        -> "error"
    [] \E k \in keyed : Matches(kv[2], props[k]) -> "match"
    [] OTHER                                  -> "miss"

\* Rules are ranged over in the random order of a Go map: any of those that do
\* not match may be the first one, and its verdict decides.
PropertyVerdicts(r, dev) ==
  LET stops == {PropertyVerdict(kv, dev.props) : kv \in r.props} \ {"match"}
  IN  IF stops = {} THEN {"match"} ELSE stops

\* Attributes are part of a rule, and no filter looks at them.
Verdicts(f, r, dev) ==
  CASE f = "subsystem" -> SubsystemVerdicts(r, dev)
    [] f = "name"      -> NameVerdicts(r, dev)
    [] f = "tag"       -> TagVerdicts(r, dev)
    [] f = "property"  -> PropertyVerdicts(r, dev)

NextStage(f) == CASE f = "subsystem" -> "name"
                  [] f = "name"      -> "tag"
                  [] f = "tag"       -> "property"
                  [] f = "property"  -> "collect"

\* deviceToSelectionRule: a rule made of the device's own values.  The tags
\* come in the random order of a Go map.
FullRule(dev, tagOrder) ==
  [subsystems |-> <<AsGlob(dev.subsystem)>>,
   names      |-> <<AsGlob(dev.name)>>,
   tags       |-> [i \in DOMAIN tagOrder |-> AsGlob(tagOrder[i])],
   props      |-> {<<AsGlob(k), AsGlob(dev.props[k])>> : k \in DOMAIN dev.props},
   attrs      |-> {<<AsGlob(k), AsGlob(dev.attrs[k])>> : k \in DOMAIN dev.attrs}]

\* selectionRuleForDevicePath: the rule that looks a device node up.
PathRule(node) ==
  [subsystems |-> <<>>, names |-> <<>>, tags |-> <<>>,
   props |-> {<<AsGlob("DEVNAME"), AsGlob(node)>>}, attrs |-> {}]

-------------------------------------------------------------------------------
Init ==
  /\ rules    \in RuleLists
  /\ rule     = 1
  /\ stage    = "enumerate"
  /\ current  = {}
  /\ devPaths = <<>>

\* What follows once the first i rules have been applied.
AfterRule(i) == IF i < Len(rules) THEN "subsystem" ELSE "done"

\* udev lists its database once, for all the rules, or fails to.
Enumerate ==
  /\ stage = "enumerate"
  /\ \/ stage' = AfterRule(0) /\ current' = Devices
     \/ stage' = "errUdevDatabaseLookup" /\ UNCHANGED current
  /\ UNCHANGED <<rules, rule, devPaths>>

\* One pass over the devices left: keep those that match, or fail.  A device
\* that does not match may do so by an error, by a mismatch, or by either.
Filter ==
  LET verdicts(d) == Verdicts(stage, rules[rule], Database[d]) IN
  /\ stage \in {"subsystem", "name", "tag", "property"}
  /\ \/ /\ \E d \in current : "error" \in verdicts(d)
        /\ stage' = "errBadGlobPattern"
        /\ devPaths' = <<>>
        /\ UNCHANGED current
     \/ /\ \A d \in current : verdicts(d) # {"error"}
        /\ stage' = NextStage(stage)
        /\ current' = {d \in current : "match" \in verdicts(d)}
        /\ UNCHANGED devPaths
  /\ UNCHANGED <<rules, rule>>

\* Mutated: the next rule starts from the devices this one has left.
DevicesLeft == current

\* What a rule starts from: the entire list.
AllDevices == Devices

\* Devices whose node is new join the result, the first one of each node.
Collect ==
  LET added == {d \in current : Database[d].node \notin DOMAIN devPaths}
      of(n) == Min({d \in added : Database[d].node = n}) IN
  /\ stage = "collect"
  /\ devPaths' = [n \in DOMAIN devPaths \cup {Database[d].node : d \in added} |->
       IF n \in DOMAIN devPaths THEN devPaths[n] ELSE of(n)]
  /\ current' = AllDevices
  /\ rule'    = rule + 1
  /\ stage'   = AfterRule(rule)
  /\ UNCHANGED rules

Next == Enumerate \/ Filter \/ Collect

Spec == Init /\ [][Next]_vars

-------------------------------------------------------------------------------
(* Properties.                                                               *)

\* Device dev has what rule r asks for, tags aside.
Fits(r, dev) ==
  /\ \A g \in Range(r.subsystems) : Matches(g, dev.subsystem)
  /\ \A g \in Range(r.names) : Matches(g, dev.name)
  /\ \A kv \in r.props : \E k \in DOMAIN dev.props :
       Matches(kv[1], k) /\ Matches(kv[2], dev.props[k])

\* query.go:353: "Each tag rule must match at least 1 device tag".
Passes(r, dev) ==
  /\ Fits(r, dev)
  /\ \A g \in Range(r.tags) : \E t \in dev.tags : Matches(g, t)

Wanted(i) == {d \in Devices : Passes(rules[i], Database[d])}

\* The code wants every tag of the device to match.  For this rule it makes no
\* difference: of the devices that it comes down to, none has a matching tag
\* beside another one, and none is without tags.
TagsAgree(r) == \A d \in Devices :
  LET dev == Database[d] IN
  Fits(r, dev) => \A g \in Range(r.tags) :
    (\E t \in dev.tags : Matches(g, t)) <=> (\A t \in dev.tags : Matches(g, t))

WellFormed(r) ==
  /\ Malformed \notin Range(r.subsystems) \cup Range(r.names) \cup Range(r.tags)
  /\ \A kv \in r.props : kv[1] # Malformed /\ kv[2] # Malformed

\* Whatever order the Go maps are ranged over, a call is an error only if udev
\* fails or a glob is malformed.  Rules are alternatives, the globs of a rule
\* are not: the result has the nodes of the devices that pass any one of the
\* rules, whatever the others have filtered out before, and a node stands for
\* the first device with it that the first such rule selects.  This is claimed
\* of calls in which no tag rule shows the difference between the code and the
\* comment on it.
SelectionCorrect ==
  LET hits == {i \in DOMAIN rules : Wanted(i) # {}}
      chosen(n) == CHOOSE d \in Devices : \E i \in hits :
        /\ Database[d].node = n /\ d \in Wanted(i)
        /\ \A e \in Devices, k \in hits : Database[e].node = n /\ e \in Wanted(k)
             => i < k \/ (i = k /\ d <= e) IN
  /\ (\A i \in DOMAIN rules : WellFormed(rules[i])) => stage # "errBadGlobPattern"
  /\ stage = "done" /\ (\A i \in DOMAIN rules : TagsAgree(rules[i])) =>
       devPaths = [n \in {Database[d].node : d \in UNION {Wanted(i) : i \in hits}}
                     |-> chosen(n)]

===============================================================================

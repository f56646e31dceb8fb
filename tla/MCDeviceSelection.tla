--------------------------- MODULE MCDeviceSelection ---------------------------
(***************************************************************************)
(* An instance of DeviceSelection and DeviceQueries: a disk and a loop     *)
(* device with a partition each, the first virtual console, a character    *)
(* device whose number is also that of the loop device, and two network    *)
(* interfaces, which share the empty device node.                          *)
(***************************************************************************)
EXTENDS DeviceQueries

Sda  == [node |-> "/dev/sda", name |-> "sda", subsystem |-> "block",
         tags |-> {"systemd"}, attrs |-> [removable |-> "0"],
         props |-> [DEVNAME |-> "/dev/sda", DEVTYPE |-> "disk", MAJOR |-> "8",
                    MINOR |-> "0", ID_MODEL_ENC |-> "WDC\\x20WD10"]]
Sda1 == [node |-> "/dev/sda1", name |-> "sda1", subsystem |-> "block",
         tags |-> {"systemd", "seat"}, attrs |-> [partition |-> "1"],
         props |-> [DEVNAME |-> "/dev/sda1", DEVTYPE |-> "partition", MAJOR |-> "8",
                    MINOR |-> "1", ID_PART_ENTRY_DISK |-> "8:0"]]
Loop == [node |-> "/dev/loop0", name |-> "loop0", subsystem |-> "block",
         tags |-> {}, attrs |-> [removable |-> "0"],
         props |-> [DEVNAME |-> "/dev/loop0", DEVTYPE |-> "disk", MAJOR |-> "7",
                    MINOR |-> "0"]]
Loop1 == [node |-> "/dev/loop0p1", name |-> "loop0p1", subsystem |-> "block",
         tags |-> {"systemd"}, attrs |-> [partition |-> "1"],
         props |-> [DEVNAME |-> "/dev/loop0p1", DEVTYPE |-> "partition", MAJOR |-> "259",
                    MINOR |-> "0", ID_PART_ENTRY_DISK |-> "7:0"]]
Vcs  == [node |-> "/dev/vcs", name |-> "vcs", subsystem |-> "vc", tags |-> {},
         attrs |-> [dev |-> "7:0"],
         props |-> [DEVNAME |-> "/dev/vcs", MAJOR |-> "7", MINOR |-> "0"]]
Lo   == [node |-> "", name |-> "lo", subsystem |-> "net", tags |-> {},
         attrs |-> [mtu |-> "65536"], props |-> [INTERFACE |-> "lo"]]
Eth0 == [node |-> "", name |-> "eth0", subsystem |-> "net",
         tags |-> {"systemd"}, attrs |-> [mtu |-> "1500"],
         props |-> [INTERFACE |-> "eth0"]]

MCDatabase == <<Sda, Sda1, Loop, Loop1, Vcs, Lo, Eth0>>

MCJoined(major, minor) == major \o ":" \o minor
MCDiskTuple(s) == CASE s = "8:0" -> <<"8", "0">> [] s = "7:0" -> <<"7", "0">>

\* A backslash quotes the character after it.
MCAsGlob(s) == CASE s = "WDC\\x20WD10" -> {"WDCx20WD10"}
                 [] s = "/dev/sda*" -> {"/dev/sda", "/dev/sda1"}
                 [] s = "/dev/loop0*" -> {"/dev/loop0", "/dev/loop0p1"}
                 [] s = "/dev/[" -> Malformed
                 [] OTHER -> {s}

\* "sd*" and "*", for the strings that occur here.
SdStar == {"sda", "sda1"}
DevStar == {"DEVNAME", "DEVTYPE"}
Star == UNION {UNION {{dev.name, dev.subsystem}, dev.tags, DOMAIN dev.props,
                      {dev.props[k] : k \in DOMAIN dev.props}} : dev \in Range(MCDatabase)}

NoRule   == [subsystems |-> <<>>, names |-> <<>>, tags |-> <<>>, props |-> {},
             attrs |-> {}]
Default  == [NoRule EXCEPT !.subsystems = <<{"block"}>>, !.names = <<SdStar>>,
                           !.props = {<<{"DEVTYPE"}, {"disk"}>>}]
Net      == [NoRule EXCEPT !.subsystems = <<{"net"}>>]
Systemd  == [NoRule EXCEPT !.tags = <<{"systemd"}>>]
OneTag   == [NoRule EXCEPT !.names = <<{"loop0p1", "eth0", "sda"}>>, !.tags = <<Star, {"systemd"}>>]
WrongTag == [NoRule EXCEPT !.names = <<{"sda", "eth0"}>>, !.tags = <<{"seat"}>>]
AnyTag   == [NoRule EXCEPT !.names = <<SdStar>>, !.tags = <<Star>>]
Disk     == [NoRule EXCEPT !.props = {<<DevStar, {"disk"}>>}]
Both     == [NoRule EXCEPT !.props = {<<DevStar, {"/dev/sda1"}>>, <<{"DEVTYPE"}, Star>>}]
Nothing  == [NoRule EXCEPT !.names = <<SdStar, {"loop0"}>>]
BadName  == [NoRule EXCEPT !.subsystems = <<{"net"}>>, !.names = <<{"lo"}, Malformed>>]
BadTag   == [NoRule EXCEPT !.names = <<{"loop0"}>>, !.tags = <<Malformed>>]
BadProps == [NoRule EXCEPT !.names = <<SdStar>>,
                           !.props = {<<{"ID_MODEL_ENC"}, Malformed>>, <<{"INTERFACE"}, Star>>}]

Rules == {NoRule, Default, Net, Systemd, OneTag, WrongTag, AnyTag, Disk, Both, Nothing,
          BadName, BadTag, BadProps, PathRule("/dev/sda"), PathRule("/dev/sda1"),
          FullRule(Sda, <<"systemd">>), FullRule(Sda1, <<"seat", "systemd">>)}

Nodes == {dev.node : dev \in {Sda, Sda1, Loop, Loop1, Vcs}}
         \cup {"/dev/none", "/dev/sda*", "/dev/loop0*", "/dev/["}

PathLists == {<<PathRule(n)>> : n \in Nodes}

\* Every list of at most two of these rules.
SelectionLists == {<<>>} \cup {<<r>> : r \in Rules} \cup (Rules \X Rules)

MCRuleLists == SelectionLists \cup PathLists

\* The functions that take a path get every node, one that is not there, and
\* patterns in the place of a path.
MCQueries ==
  [fn : {"GetDevicePaths"}, node : {""}, rules : SelectionLists]
  \cup [fn : {"GetFullSelectionRuleForDevice", "GetPartitionDevicesFromDiskPath",
              "GetDiskDeviceFromPartitionPath", "crosscheck"},
        node : Nodes, rules : {<<>>}]

\* The kernel's tree of devices.
MCPartitionOf(p, d) == <<Database[p].name, Database[d].name>> \in
                         {<<"sda1", "sda">>, <<"loop0p1", "loop0">>}

===============================================================================

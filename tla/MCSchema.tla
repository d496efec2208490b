------------------------------ MODULE MCSchema ------------------------------
(***************************************************************************)
(* A fragment of the shipped schema (schema/) for TLC: an interface with   *)
(* its port, one of its breakout interfaces, a lag, a vlan and the LACP    *)
(* settings of the lag; its configs and its dependencies.                  *)
(***************************************************************************)
EXTENDS XPath, TLC

-----------------------------------------------------------------------------
(***************************************************************************)
(* The configs.                                                            *)
(***************************************************************************)

MCNames  == <<"*", "2", "@", "aggregate-ethernet", "auto-negotiation", "breakout-mode", "e1",
              "e1_1", "ethernet", "interface", "l1", "lacp", "members", "platform", "port",
              "protocol", "speed", "tagged", "vlan", "[@key]">>
\* TLC evaluates a definition once, but that which a cfg puts in the place of a
\* constant at every use: such a one is only a second name.
NamePlaces == [name \in ToSet(MCNames) |-> SelectInSeq(MCNames, LAMBDA n : n = name)]
MCRank     == NamePlaces
MCStarts   == {<<"e1", "e1_1">>}

Ethernet(name) == <<"interface", "ethernet", name>>
Port           == <<"platform", "port", "e1">>
Lag            == <<"interface", "aggregate-ethernet", "l1">>
Vlan           == <<"vlan", "2">>
Lacp           == <<"protocol", "lacp", "l1">>

Leaf(path, value) == path :> value
Nodes(paths)      == [p \in paths |-> "-"]

Containers == Nodes(UNION {Prefixes(Front(p)) : p \in {Ethernet("e1"), Port, Lag, Vlan, Lacp}})

Interface(name, speed) == Nodes({Ethernet(name)}) @@ Leaf(Append(Ethernet(name), "speed"), speed)

EthernetUnits == {Nodes({}), Interface("e1", "100G")}
BreakoutUnits == {Nodes({}), Interface("e1_1", "fixed"),
                  Interface("e1_1", "fixed") @@
                      Leaf(Append(Ethernet("e1_1"), "auto-negotiation"), "enabled")}
PortUnits     == {Nodes({Port}) @@ Leaf(Append(Port, "breakout-mode"), mode) :
                     mode \in {"none", "4x100G"}}
LagNode(mode) == Nodes({Lag}) @@ Leaf(Append(Lag, "protocol"), mode)
LagMember     == Nodes({Append(Lag, "members"), Lag \o <<"members", "e1">>})
LagUnits      == {Nodes({}), LagNode("none"), LagNode("lacp"), LagNode("lacp") @@ LagMember}
VlanMember(n) == Nodes({Vlan, Append(Vlan, "members"), Vlan \o <<"members", "tagged">>,
                        Vlan \o <<"members", "tagged", n>>})
VlanUnits     == {Nodes({}), VlanMember("e1"), VlanMember("l1")}
LacpUnits     == {Nodes({}), Nodes({Lacp}),
                  Nodes({Lacp, Append(Lacp, "members"), Lacp \o <<"members", "e1">>})}

\* A vlan and LACP have no constraint in common: one of them at a time.
SchemaConfigs ==
    {Containers @@ e @@ b @@ p @@ l @@ x :
        e \in EthernetUnits, b \in BreakoutUnits, p \in PortUnits,
        l \in LagUnits, x \in VlanUnits \cup LacpUnits}
MCConfigs == SchemaConfigs

-----------------------------------------------------------------------------
(***************************************************************************)
(* "update-dependencies".                                                  *)
(***************************************************************************)

Dependencies(p) ==
    CASE p \in {Ethernet(n) : n \in {"e1", "e1_1"}}       \* ethernet.json:52
             -> {<<"platform", "port", Key, "breakout-mode">>}
      [] p \in {Append(Ethernet(n), "auto-negotiation") : n \in {"e1", "e1_1"}}
             -> {<<"interface", "ethernet", Key, "speed">>}          \* ethernet.json:19
      [] p = Lag \o <<"members", "e1">>                    \* aggregate_ethernet.json:34-36
             -> {<<"interface", "ethernet", Reference>>,
                 <<"interface", "ethernet", Key, "speed">>,
                 <<"interface", "ethernet", Key, "auto-negotiation">>}
      [] p = Vlan \o <<"members", "tagged", "e1">>         \* vlan.json:27
             -> {<<"interface", "ethernet", Reference>>}
      [] p = Vlan \o <<"members", "tagged", "l1">>         \* vlan.json:45
             -> {<<"interface", "aggregate-ethernet", Wildcard, "members", Reference>>}
      [] p = Lacp                                          \* lacp.json:45-46
             -> {<<"interface", "aggregate-ethernet", Reference>>,
                 <<"interface", "aggregate-ethernet", Key, "protocol">>}
      [] p = Lacp \o <<"members", "e1">>                   \* lacp.json:30
             -> {<<"interface", "aggregate-ethernet", Key, "members">>}
      [] OTHER -> {}

\* The node that a node with a "reference" refers to.
ReferenceOf(p) ==
    CASE p = Lacp \o <<"members", "e1">> -> Lag \o <<"members", "e1">>
      [] p # Lacp /\ Last(p) = "e1"      -> Ethernet("e1")
      [] OTHER                           -> Lag

Referring == {Lag \o <<"members", "e1">>, Lacp, Lacp \o <<"members", "e1">>} \cup
             {Vlan \o <<"members", "tagged", n>> : n \in {"e1", "l1"}}

=============================================================================

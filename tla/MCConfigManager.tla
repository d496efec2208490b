-------------------------- MODULE MCConfigManager ---------------------------
(***************************************************************************)
(* ConfigManager on the part of the repository's schema around one         *)
(* interface: /interface/ethernet/eth1-1 (eth1), its speed, the member     *)
(* /vlan/2/members/untagged/eth1-1 that refers to it (member), and         *)
(* /interface/ethernet/eth1-10 (eth10), whose xpath has that of eth1 as a  *)
(* substring.                                                              *)
(***************************************************************************)
EXTENDS ConfigManager

MCParent == [n \in Nodes |-> CASE n \in {"eth1", "eth10"} -> "ethernet"
                               [] n = "speed"  -> "eth1"
                               [] n = "member" -> "untagged"]
MCContainers == {"ethernet", "untagged"}
MCAncestors == [n \in Nodes |-> {MCParent[n]} \cup
                   (IF n = "speed" THEN {"ethernet"} ELSE {})]
MCOverlaps == {<<n, n>> : n \in Nodes} \cup
    ({<<"speed", "eth1">>, <<"eth10", "eth1">>} \cap (Nodes \X Nodes))
MCReferences == {<<"member", "eth1">>} \cap (Nodes \X Nodes)
MCOnDelete == {"eth1", "member", "eth10"} \cap Nodes
MCEarlier == {<<"eth1", "speed">>, <<"eth1", "member">>} \cap (Nodes \X Nodes)

=============================================================================

-------------------------- MODULE InteractBuilders --------------------------
(***************************************************************************)
(* What the interactors' request_msg_creator, and the builders of matches, *)
(* actions, instructions, buckets and meter bands it calls, accept.  Every *)
(* refusal throws invalid_argument.  What is built from accepted arguments *)
(* is not looked at.                                                       *)
(*                                                                         *)
(* A JSON object is a function from the names of its fields to their       *)
(* texts.  Of a text only its form counts: "num", "ip4", "ip6", "mac", a   *)
(* keyword of the code or any other string; "array" has its objects as     *)
(* items.  (JSON of another type where an array is due is outside the      *)
(* model: the code takes its memory for an array's.)                       *)
(***************************************************************************)
EXTENDS Integers, Sequences, MsgResolver

Text(form)   == [is |-> form, items |-> << >>]
Array(items) == [is |-> "array", items |-> items]

NoArgs       == [f \in {} |-> Text("other")]

Has(a, f)     == f \in DOMAIN a
Is(a, f, set) == Has(a, f) /\ a[f].is \in set

\* check_args: the fields that are there have texts of the kind registered.
\* (Strings are not looked at.)
Forms == [Num |-> "num", Ipv4 |-> "ip4", Ipv6 |-> "ip6", MAC |-> "mac",
          JArray |-> "array"]
check_args(tags, a) ==
  \A kind \in DOMAIN tags : \A f \in tags[kind] :
    Has(a, f) => a[f].is = Forms[kind]

\* Every object of array f, if there is one, is accepted by its builder.
Each(a, f, Accepts(_)) ==
  Has(a, f) => \A i \in DOMAIN a[f].items : Accepts(a[f].items[i])

-----------------------------------------------------------------------------
(* Matches, actions, instructions, buckets and meter bands                 *)

\* The fields of the packets, by the kind of their values.
NumFields ==
  {"in_port", "in_phy_port", "eth_type", "metadata", "vlan_id", "vlan_pcp",
   "ip_dscp", "ip_ecn", "ip_proto", "tcp_src", "tcp_dst", "udp_src", "udp_dst",
   "sctp_src", "stcp_dst", "icmpv4_type", "icmpv4_code", "ipv6_flow_label",
   "icmpv6_type", "icmpv6_code", "mpls_label", "mpls_tc", "mpls_bos",
   "pbb_isid", "tunnel_id", "exthdr"}
Ipv4Fields == {"ipv4_src", "ipv4_dst"}
EthFields  == {"eth_src", "eth_dst"}
Ipv6Fields == {"ipv6_src", "ipv6_dst", "ipv6_nd_target"}
NdFields   == {"ipv6_nd_tll", "ipv6_nd_sll"}
ArpIps     == {"arp_spa", "arp_tpa"}
ArpMacs    == {"arp_sha", "arp_tha"}

\* construct_match: the tags differ from an action's in ARP and ND fields.
\* (Masks are registered like their fields, and left out.)
construct_match(a) ==
  check_args([Num  |-> NumFields \cup NdFields, Ipv4 |-> Ipv4Fields \cup ArpIps,
              Ipv6 |-> Ipv6Fields, MAC |-> EthFields \cup ArpMacs], a)

ActionTags ==
  [Num  |-> NumFields \cup ArpIps \cup ArpMacs
            \cup {"queue_id", "group_id", "ethertype", "ttl"},
   Ipv4 |-> Ipv4Fields, Ipv6 |-> Ipv6Fields \cup NdFields, MAC |-> EthFields]

\* construct_action: what each type of action requires.  An unknown type, and
\* set_field without a field, add no action.
construct_action(a) ==
  /\ check_args(ActionTags, a)
  /\ Has(a, "action_type")
  /\ LET type(t) == Is(a, "action_type", {t}) IN
     /\ type("output")    => Has(a, "out_port")
     /\ type("set_queue") => Has(a, "queue_id")
     /\ type("group")     => Has(a, "group_id")
     /\ type("push") => Is(a, "tag_type", {"vlan", "mpls", "pbb"}) /\ Has(a, "ethertype")
     /\ type("pop")  => \/ Is(a, "tag_type", {"vlan"})
                        \/ Is(a, "tag_type", {"mpls"}) /\ Has(a, "ethertype")
     /\ type("change_ttl") =>
          \/ /\ Is(a, "ttl_action", {"set"}) /\ Has(a, "ttl")
             /\ Is(a, "ttl_type", {"ip", "mpls"})
          \/ Is(a, "ttl_action", {"decrement"}) /\ Is(a, "ttl_type", {"ip", "mpls"})
          \/ Is(a, "ttl_action", {"copy"}) /\ Is(a, "ttl_type", {"in", "out"})

\* construct_instruction.  An unknown type adds no instruction.
construct_instruction(a) ==
  /\ check_args([Num |-> {"goto_id", "metadata", "metadata_mask", "meter_id"},
                 JArray |-> {"action_set"}], a)
  /\ Has(a, "instr_type")
  /\ LET type(t) == Is(a, "instr_type", {t}) IN
     /\ type("goto_table")     => Has(a, "goto_id")
     /\ type("write_metadata") => Has(a, "metadata")
     /\ type("meter")          => Has(a, "meter_id")
     /\ type("write_actions") \/ type("apply_actions") =>
          Each(a, "action_set", construct_action)

construct_bucket(a) ==
  /\ check_args([Num |-> {"weight", "watch_port", "watch_group"},
                 JArray |-> {"action_set"}], a)
  /\ Each(a, "action_set", construct_action)

\* construct_band calls no check_args: its numbers may be any text.
construct_band(a) ==
  /\ Has(a, "rate") /\ Has(a, "burst_size")
  /\ \/ Is(a, "meter_type", {"drop"})
     \/ Is(a, "meter_type", {"dscp_remark"}) /\ Has(a, "prec_level")

-----------------------------------------------------------------------------
(* request_msg_creator of each type                                        *)

set_sw_config(a) ==
  /\ check_args([Num |-> {"flags", "max_len"}], a)
  /\ Has(a, "flags") /\ Has(a, "max_len")

\* flow_info and agr_flow_info.
flow_information(a) ==
  /\ check_args([Num |-> {"table_id", "out_port", "out_group", "cookie", "cookie_mask"},
                 JArray |-> {"match_set"}], a)
  /\ Each(a, "match_set", construct_match)

\* Any command will do: one that is not known deletes.
flow_mod(a) ==
  /\ check_args([Num |-> {"cookie", "cookie_mask", "table_id", "idle_timeout",
                          "hard_timeout", "priority", "buffer_id", "flags",
                          "out_port", "out_group"},
                 JArray |-> {"instruction_set", "match_set"}], a)
  /\ Has(a, "command")
  /\ Each(a, "match_set", construct_match)
  /\ Each(a, "instruction_set", construct_instruction)

Commands == {"add", "modify", "delete"}

group_mod(a) ==
  /\ check_args([Num |-> {"group_id"}, JArray |-> {"buckets"}], a)
  /\ Is(a, "command", Commands)
  /\ Is(a, "group_type", {"all", "select", "indirect", "fast_failover"})
  /\ Has(a, "group_id")
  /\ Each(a, "buckets", construct_bucket)

port_mod(a) ==
  /\ check_args([Num |-> {"port", "config", "advertise", "mask"},
                 MAC |-> {"hw_addr"}], a)
  /\ \A f \in {"advertise", "port", "config", "hw_addr"} : Has(a, f)

\* meter_id is registered as a string: any text is taken for a number.
meter_mod(a) ==
  /\ check_args([Num |-> {"flags"}, JArray |-> {"meter_bands"}], a)
  /\ Is(a, "command", Commands)
  /\ Has(a, "flags") /\ Has(a, "meter_id")
  /\ Each(a, "meter_bands", construct_band)

\* The queries whose arguments are optional numbers.
QueryArgs ==
  [port_stats |-> {"port"}, queue_stats |-> {"port", "queue_id"},
   group_stats |-> {"group_id"}, queue_config |-> {"port"},
   meter_stats |-> {"meter_id"}, meter_config |-> {"meter_id"}]

\* The interactor chosen by type accepts the arguments.  The other queries
\* have none.
request_msg_creator(type, a) ==
  /\ type = "set_sw_config" => set_sw_config(a)
  /\ type \in {"flow_info", "agr_flow_info"} => flow_information(a)
  /\ type = "flow_mod"  => flow_mod(a)
  /\ type = "group_mod" => group_mod(a)
  /\ type = "port_mod"  => port_mod(a)
  /\ type = "meter_mod" => meter_mod(a)
  /\ type \in DOMAIN QueryArgs => check_args([Num |-> QueryArgs[type]], a)
=============================================================================

------------------------ MODULE MCRequestProcessor ------------------------
(* Small instances of RequestProcessor for TLC.                            *)
EXTENDS RequestProcessor

MCDpids == {1, 2}

Num == Text("num")
T1(x) == Array(<<x>>)

\* A query with a dpid that wraps to another switch's, and a modification with
\* and without checkerror: each is refused while its switch is not there, and
\* when it asks for the other url.  (Arguments are looked at below.)
Good(tp, ce, a) == [kind |-> "json", type |-> tp, dpid |-> 1, checkerror |-> ce,
                    args |-> a]
Add == [command |-> Text("add")]
MCBodies ==
  {[Good("port_desc", FALSE, NoArgs) EXCEPT !.dpid = 10],
   Good("flow_mod", TRUE, Add), Good("flow_mod", FALSE, Add)}

-----------------------------------------------------------------------------
(* Arguments that the interactors take, and that they refuse.              *)

Output  == [action_type |-> Text("output"), out_port |-> Text("flood")]
HalfPush == [action_type |-> Text("push"), tag_type |-> Text("vlan")]
Apply(acts) == [instr_type |-> Text("apply_actions"), action_set |-> Array(acts)]
Flow(m, i) == [command |-> Text("add"), match_set |-> T1(m),
               instruction_set |-> T1(i)]
Mac == Text("mac")
Port == [port |-> Num, config |-> Num, advertise |-> Num, hw_addr |-> Mac]
Group(b) == [command |-> Text("add"), group_type |-> Text("select"),
             group_id |-> Num, buckets |-> T1(b)]
Meter(b) == [command |-> Text("add"), flags |-> Num,
             meter_id |-> Text("other"), meter_bands |-> T1(b)]
Band(tp) == [rate |-> Text("other"), burst_size |-> Num, meter_type |-> Text(tp)]
Action(tp) == [action_type |-> Text(tp), ttl_action |-> Text("decrement"),
               ttl_type |-> Text("mpls"), tag_type |-> Text("vlan")]
Bucket(acts) == [weight |-> Num, action_set |-> Array(acts)]

ASSUME TakenAssumption == \A r \in
  {<<"flow_mod", Flow([in_port |-> Num], Apply(<<Output>>))>>,
   <<"port_desc", Port>>, <<"port_stats", [port |-> Num]>>,
   <<"set_sw_config", [flags |-> Num, max_len |-> Num]>>,
   <<"flow_info", [match_set |-> T1([arp_spa |-> Text("ip4")])]>>,
   <<"flow_mod", [command |-> Text("no_such_command")]>>,
   <<"flow_mod", Flow([ipv6_nd_tll |-> Num], [instr_type |-> Text("other")])>>,
   <<"flow_mod", Flow([eth_src |-> Mac],
                      [instr_type |-> Text("goto_table"), goto_id |-> Num])>>,
   <<"group_mod", Group(Bucket(<<Action("pop"), Action("change_ttl"), Action("other")>>))>>,
   <<"port_mod", Port>>, <<"meter_mod", Meter(Band("drop"))>>} :
  request_msg_creator(r[1], r[2])

ASSUME RefusedAssumption == \A r \in
  {<<"port_stats", [port |-> Text("other")]>>,
   <<"set_sw_config", [flags |-> Num]>>,
   <<"agr_flow_info", [match_set |-> Text("other")]>>,
   <<"flow_info", [match_set |-> T1([ipv4_src |-> Num])]>>,
   <<"flow_mod", [cookie |-> Num]>>,
   <<"flow_mod", Flow([in_port |-> Num], Apply(<<Output, HalfPush>>))>>,
   <<"flow_mod", Flow([in_port |-> Num], [goto_id |-> Num])>>,
   <<"flow_mod", Flow([in_port |-> Num], Apply(<<[arp_spa |-> Text("ip4")]>>))>>,
   <<"group_mod", [command |-> Text("modify_strict")]>>,
   <<"group_mod", Group([weight |-> Text("other")])>>,
   <<"group_mod", Group(Bucket(<<Action("push")>>))>>,
   <<"port_mod", [port |-> Num, config |-> Num, advertise |-> Num]>>,
   <<"meter_mod", Meter(Band("dscp_remark"))>>,
   <<"meter_mod", Meter(Band("other"))>>} :
  ~request_msg_creator(r[1], r[2])
=============================================================================

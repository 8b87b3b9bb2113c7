---------------------------- MODULE MsgResolver ----------------------------
(***************************************************************************)
(* The request types of the interserver application: what Msg_resolver     *)
(* registers, and which of them modify the switch.                         *)
(***************************************************************************)

\* The interactors whose is_modify() returns true.
ModifyTypes ==
  {"set_sw_config", "flow_mod", "group_mod", "port_mod", "meter_mod"}

\* The interactors that only ask the switch for something.
QueryTypes ==
  {"get_sw_config", "features_request", "table_features",
   "switch_description", "table_stats", "flow_info", "agr_flow_info",
   "port_stats", "port_desc", "queue_stats", "group_stats", "group_desc",
   "group_features", "meter_stats", "meter_config", "meter_features",
   "queue_config"}

\* Msg_resolver::install: every type put in the factory and in _res_ids.
Types == ModifyTypes \cup QueryTypes

\* Msg_resolver::is_modify, once init_interactor has chosen the interactor.
is_modify(tp) == tp \in ModifyTypes
=============================================================================

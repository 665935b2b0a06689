------------------------------ MODULE MCStation ------------------------------
(* Tests of the station for TLC: every command of the agent's table is in one *)
(* of them, with the values its parser and its handler branch on.             *)
EXTENDS Station

Order(name, args) == [name |-> name, args |-> args]
Wlan == << <<"interface", WFA_STAUT_IF>> >>
P2p  == << <<"interface", "p2p0">> >>
Of(i, k, v) == i \o << <<k, v>> >>
All(names, args) == {Order(n, args) : n \in names}

Secured == Of(Wlan, "ssid", "net")

\* What decides over the network the station uses.
SecurityTest ==
  All({"sta_set_eaptls", "sta_set_eapttls", "sta_set_eapsim", "sta_set_peap", "sta_set_eapfast", "sta_set_eapaka"},
      Of(Secured, "keyMgmtType", "wpa"))
  \cup {Order("sta_set_peap", Of(P2p, "keyMgmtType", "wpa2-sha256")),
        Order("sta_set_eapaka", Of(Secured, "keyMgmtType", "wpa2-ft")),
        Order("sta_set_psk", Secured), Order("sta_associate", Wlan), Order("sta_reassociate", Wlan),
        Order("sta_set_encryption", Of(Secured, "encpType", "none")),
        Order("sta_set_encryption", Secured \o << <<"encpType", "wep">>, <<"key1", "10hex">> >>),
        Order("sta_set_encryption", Of(P2p, "encpType", "none")),
        Order("sta_set_ibss", Secured \o << <<"encpType", "wep">>, <<"key2", "5chars">> >>)}

\* The commands whose parameters are too large for the device, and those that reuse them.
InformationTest ==
  All({"sta_get_ip_config", "sta_set_ip_config", "sta_get_mac_address", "sta_set_mac_address",
       "sta_is_connected", "sta_verify_ip_connection", "sta_get_bssid", "sta_get_stats", "sta_get_info",
       "sta_associate", "sta_reassociate", "sta_set_mode", "sta_disconnect", "sta_set_pwrsave"}, Wlan)
  \cup All({"sta_is_connected", "sta_reassociate", "sta_set_pwrsave", "sta_set_mode"}, P2p)
  \cup All({"ca_get_version", "sta_get_mac_address", "device_get_info", "no_such_command"}, <<>>)
  \cup {Order("sta_up_load", << <<"test", "voice">>, <<"next", "1">> >>),
        Order("device_list_interfaces", << <<"interfaceType", "802.11">> >>),
        Order("sta_debug_set", << <<"enable", "1">> >>), Order("sta_debug_set", << <<"enable", "2">> >>),
        Order("sta_set_encryption", Of(Wlan, "channel", "6"))}

\* Peers and Wi-Fi protected setup, with two commands that are answered in part.
PeerTest ==
  All({"sta_get_p2p_dev_address", "sta_set_p2p", "sta_p2p_connect", "sta_start_autonomous_go",
       "sta_p2p_start_group_formation", "sta_p2p_dissolve", "sta_send_p2p_invitation_req",
       "sta_accept_p2p_invitation_req", "sta_send_p2p_provision_dis_req", "sta_set_wps_pbc",
       "sta_wps_read_pin", "sta_wps_enter_pin", "sta_get_psk", "sta_p2p_reset", "sta_wps_read_label",
       "sta_get_p2p_ip_config", "sta_send_service_discovery_req", "sta_send_p2p_presence_req",
       "sta_set_sleep", "sta_set_opportunistic_ps", "sta_add_arp_table_entry", "sta_block_icmp_response",
       "sta_is_connected", "sta_get_mac_address"}, P2p)

\* Wi-Fi Display, NFC, NAN and services.
ServiceTest ==
  All({"start_wfd_connection", "wfa_cli_cmd", "connect_go_start_wfd", "sta_generate_event",
       "reinvoke_wfd_session", "sta_nfc_action", "sta_exec_action", "sta_manage_service", "sta_get_events",
       "sta_set_security", "sta_get_ip_config"}, P2p)
  \cup {Order("sta_get_parameter", << <<"program", p>>, <<"Parameter", v>> >>) :
          p \in {"WFDS", "NAN"}, v \in {"DiscoveredDevList", "OpenPorts", "MasterPref"}}
  \cup {Order("sta_invoke_command", << <<"primitive_type", t>> >>) : t \in PrimitiveTypes \cup {"none"}}
  \cup {Order("sta_get_event_details", << <<"EventName", e>> >>) : e \in EventTypes}

\* The test bed, its programmes and radio.
TestBedTest ==
  All({"sta_set_uapsd", "sta_set_systime", "sta_reset_default", "sta_set_11n", "sta_set_wireless",
       "sta_send_addba", "sta_set_rifs_test", "sta_send_coexist_mgmt", "sta_set_radio", "sta_set_rfeature",
       "sta_preset_testparameters", "sta_verify_ip_connection"}, Wlan)
  \cup {Order("sta_preset_testparameters", << <<k, v>> >>) : k \in {"supplicant", "wmm"}, v \in {"Default", "on"}}
  \cup {Order("sta_set_wmm", << <<"GROUP", g>>, <<"ACTION", "addts">>, <<"TID", "6">> >>) :
          g \in {"WMM-AC", "WMMAC", "WMM-CONFIG"}}
  \cup {Order("dev_send_frame", << <<"program", p>>, <<"status", "1">> >>) : p \in Programs}

Tests == {SecurityTest, InformationTest, PeerTest, ServiceTest, TestBedTest}
=============================================================================

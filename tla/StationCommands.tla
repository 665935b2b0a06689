--------------------------- MODULE StationCommands ---------------------------
(***************************************************************************)
(* Lemmas about the tables of Station: the tags that the parsers send, the *)
(* outcomes of the handlers of those tags, and what the agent may say of   *)
(* their responses.                                                        *)
(***************************************************************************)
EXTENDS StationRuns

\* What a parser leaves: a failure, or its own tag with a structure that fits into
\* dutCommand_t and is empty only when it has no fields.
Sent(tag, t) ==
  \/ t = WFA_FAILURE
  \/ t.tag = tag /\ t.size \in 0 .. dutCommand_t /\ (t.size = 0 => t.f = NoFields)

Tags == {0, 1} \cup (10 .. 35) \cup (37 .. 48) \cup (50 .. 84) \cup {88}

\* The commands that the properties single out are the only ones with their tags.
Named(tag, n) ==
  /\ (tag = 0 <=> n = "sta_set_security")     /\ (tag = 18 <=> n = "sta_set_encryption")
  /\ (tag = 20 <=> n = "sta_set_eaptls")      /\ (tag = 23 <=> n = "sta_set_eapttls")
  /\ (tag = 25 <=> n = "sta_set_peap")        /\ (tag = 30 <=> n = "sta_debug_set")
  /\ (tag = 34 <=> n = "sta_reassociate")     /\ (tag = 37 <=> n = "sta_preset_testparameters")
  /\ (tag = 38 <=> n = "sta_set_eapfast")     /\ (tag = 39 <=> n = "sta_set_eapaka")
  /\ (tag = 64 <=> n = "sta_wps_read_label")  /\ (tag = 68 <=> n = "sta_set_sleep")
  /\ (tag = 69 <=> n = "sta_set_opportunistic_ps") /\ (tag = 75 <=> n = "wfa_cli_cmd")
  /\ (tag = 79 <=> n = "sta_get_parameter")   /\ (tag = 81 <=> n = "sta_invoke_command")
  /\ (tag = 83 <=> n = "sta_get_events")      /\ (tag = 84 <=> n = "sta_get_event_details")
  /\ (tag = 88 <=> n = "sta_exec_action")


\* The other names of the table of the agent.
Names ==
  {"ca_get_version", "sta_get_ip_config", "sta_set_ip_config", "sta_get_mac_address",
   "sta_set_mac_address", "sta_is_connected", "sta_verify_ip_connection", "sta_get_bssid",
   "sta_get_stats", "sta_set_encryption", "sta_set_psk", "sta_set_eaptls", "sta_set_eapttls",
   "sta_set_eapsim", "sta_set_peap", "sta_set_ibss", "sta_associate", "device_list_interfaces",
   "device_get_info", "sta_get_info", "sta_set_mode", "sta_up_load", "sta_debug_set",
   "sta_set_uapsd", "sta_set_wmm", "sta_disconnect", "sta_reassociate", "dev_send_frame",
   "sta_set_security", "sta_preset_testparameters", "sta_set_eapfast", "sta_set_eapaka",
   "sta_set_systime", "sta_set_pwrsave", "sta_reset_default", "sta_set_11n", "sta_set_wireless",
   "sta_send_addba", "sta_set_rifs_test", "sta_send_coexist_mgmt", "sta_get_p2p_dev_address",
   "sta_set_p2p", "sta_p2p_connect", "sta_start_autonomous_go", "sta_p2p_start_group_formation",
   "sta_p2p_dissolve", "sta_send_p2p_invitation_req", "sta_accept_p2p_invitation_req",
   "sta_send_p2p_provision_dis_req", "sta_set_wps_pbc", "sta_wps_read_pin", "sta_wps_enter_pin",
   "sta_get_psk", "sta_p2p_reset", "sta_wps_read_label", "sta_get_p2p_ip_config",
   "sta_send_service_discovery_req", "sta_send_p2p_presence_req", "sta_set_sleep",
   "sta_set_opportunistic_ps", "sta_add_arp_table_entry", "sta_block_icmp_response",
   "sta_set_radio", "sta_set_rfeature", "start_wfd_connection", "wfa_cli_cmd",
   "connect_go_start_wfd", "sta_generate_event", "reinvoke_wfd_session", "sta_get_parameter",
   "sta_nfc_action", "sta_exec_action", "sta_invoke_command", "sta_manage_service",
   "sta_get_events", "sta_get_event_details"}

\* Each command of the agent's table is sent with a tag that the device has a handler for
\* (the parsers of wfa_cmdproc.c).
LEMMA ParserTags ==
  ASSUME NEW n, n \notin TrafficNames, NEW args, NEW console
  PROVE  \E tag \in Tags : Sent(tag, nameStr(n, args, console)) /\ Named(tag, n)
<1>1. CASE n \in {"ca_get_version", "sta_get_ip_config", "sta_set_ip_config",
                "sta_get_mac_address", "sta_set_mac_address", "sta_is_connected",
                "sta_verify_ip_connection", "sta_get_bssid"}
  <2>1. /\ Sent(1, xcCmdProcGetVersion(args))
        /\ Sent(10, xcCmdProcStaGetIpConfig(args))
        /\ Sent(11, xcCmdProcStaSetIpConfig(args))
        /\ Sent(12, xcCmdProcStaGetMacAddress(args))
        /\ Sent(13, xcCmdProcStaSetMacAddress(args))
        /\ Sent(14, xcCmdProcStaIsConnected(args))
        /\ Sent(15, xcCmdProcStaVerifyIpConnection(args))
        /\ Sent(16, xcCmdProcStaGetBSSID(args))
    BY DEF Sent, TLV, SecondWord, WFA_FAILURE, dutCommand_t, xcCmdProcGetVersion,
           xcCmdProcStaGetIpConfig, xcCmdProcStaSetIpConfig, xcCmdProcStaGetMacAddress,
           xcCmdProcStaSetMacAddress, xcCmdProcStaIsConnected, xcCmdProcStaVerifyIpConnection,
           xcCmdProcStaGetBSSID
  <2>2. /\ n = "ca_get_version" => nameStr(n, args, console) = xcCmdProcGetVersion(args)
        /\ n = "sta_get_ip_config" => nameStr(n, args, console) = xcCmdProcStaGetIpConfig(args)
        /\ n = "sta_set_ip_config" => nameStr(n, args, console) = xcCmdProcStaSetIpConfig(args)
        /\ n = "sta_get_mac_address" => nameStr(n, args, console) = xcCmdProcStaGetMacAddress(args)
        /\ n = "sta_set_mac_address" => nameStr(n, args, console) = xcCmdProcStaSetMacAddress(args)
        /\ n = "sta_is_connected" => nameStr(n, args, console) = xcCmdProcStaIsConnected(args)
        /\ n = "sta_verify_ip_connection" => nameStr(n, args, console) = xcCmdProcStaVerifyIpConnection(args)
        /\ n = "sta_get_bssid" => nameStr(n, args, console) = xcCmdProcStaGetBSSID(args)
    BY DEF nameStr
  <2> QED BY SMTT(30), <1>1, <2>1, <2>2 DEF Tags, Named
<1>2. CASE n \in {"sta_get_stats", "sta_set_encryption", "sta_set_psk", "sta_set_eaptls",
                "sta_set_eapttls", "sta_set_eapsim", "sta_set_peap", "sta_set_ibss"}
  <2>1. /\ Sent(17, xcCmdProcStaGetStats(args))
        /\ Sent(18, xcCmdProcStaSetEncryption(args))
        /\ Sent(19, xcCmdProcStaSetPSK(args, console))
        /\ Sent(20, xcCmdProcStaSetEapTLS(args, console))
        /\ Sent(23, xcCmdProcStaSetEapTTLS(args, console))
        /\ Sent(24, xcCmdProcStaSetEapSIM(args, console))
        /\ Sent(25, xcCmdProcStaSetPEAP(args, console))
        /\ Sent(26, xcCmdProcStaSetIBSS(args))
    BY DEF Sent, TLV, SecondWord, WFA_FAILURE, dutCommand_t, xcCmdProcStaGetStats,
           xcCmdProcStaSetEncryption, xcCmdProcStaSetPSK, xcCmdProcStaSetEapTLS,
           xcCmdProcStaSetEapTTLS, xcCmdProcStaSetEapSIM, xcCmdProcStaSetPEAP, xcCmdProcStaSetIBSS
  <2>2. /\ n = "sta_get_stats" => nameStr(n, args, console) = xcCmdProcStaGetStats(args)
        /\ n = "sta_set_encryption" => nameStr(n, args, console) = xcCmdProcStaSetEncryption(args)
        /\ n = "sta_set_psk" => nameStr(n, args, console) = xcCmdProcStaSetPSK(args, console)
        /\ n = "sta_set_eaptls" => nameStr(n, args, console) = xcCmdProcStaSetEapTLS(args, console)
        /\ n = "sta_set_eapttls" => nameStr(n, args, console) = xcCmdProcStaSetEapTTLS(args, console)
        /\ n = "sta_set_eapsim" => nameStr(n, args, console) = xcCmdProcStaSetEapSIM(args, console)
        /\ n = "sta_set_peap" => nameStr(n, args, console) = xcCmdProcStaSetPEAP(args, console)
        /\ n = "sta_set_ibss" => nameStr(n, args, console) = xcCmdProcStaSetIBSS(args)
    BY DEF nameStr
  <2> QED BY SMTT(30), <1>2, <2>1, <2>2 DEF Tags, Named
<1>3. CASE n \in {"sta_associate", "device_list_interfaces", "device_get_info", "sta_get_info",
                "sta_set_mode", "sta_up_load", "sta_debug_set", "sta_set_uapsd"}
  <2>1. /\ Sent(22, xcCmdProcStaAssociate(args))
        /\ Sent(29, xcCmdProcDeviceListIF(args))
        /\ Sent(28, xcCmdProcDeviceGetInfo(args))
        /\ Sent(27, xcCmdProcStaGetInfo(args))
        /\ Sent(31, xcCmdProcStaSetMode(args))
        /\ Sent(32, xcCmdProcStaUpload(args))
        /\ Sent(30, xcCmdProcStaDebugSet(args))
        /\ Sent(21, xcCmdProcStaSetUAPSD(args))
    BY DEF Sent, TLV, SecondWord, WFA_FAILURE, dutCommand_t, xcCmdProcStaAssociate,
           xcCmdProcDeviceListIF, xcCmdProcDeviceGetInfo, xcCmdProcStaGetInfo, xcCmdProcStaSetMode,
           xcCmdProcStaUpload, xcCmdProcStaDebugSet, xcCmdProcStaSetUAPSD
  <2>2. /\ n = "sta_associate" => nameStr(n, args, console) = xcCmdProcStaAssociate(args)
        /\ n = "device_list_interfaces" => nameStr(n, args, console) = xcCmdProcDeviceListIF(args)
        /\ n = "device_get_info" => nameStr(n, args, console) = xcCmdProcDeviceGetInfo(args)
        /\ n = "sta_get_info" => nameStr(n, args, console) = xcCmdProcStaGetInfo(args)
        /\ n = "sta_set_mode" => nameStr(n, args, console) = xcCmdProcStaSetMode(args)
        /\ n = "sta_up_load" => nameStr(n, args, console) = xcCmdProcStaUpload(args)
        /\ n = "sta_debug_set" => nameStr(n, args, console) = xcCmdProcStaDebugSet(args)
        /\ n = "sta_set_uapsd" => nameStr(n, args, console) = xcCmdProcStaSetUAPSD(args)
    BY DEF nameStr
  <2> QED BY SMTT(30), <1>3, <2>1, <2>2 DEF Tags, Named
<1>4. CASE n \in {"sta_set_wmm", "sta_disconnect", "sta_reassociate", "dev_send_frame",
                "sta_set_security", "sta_preset_testparameters", "sta_set_eapfast", "sta_set_eapaka"}
  <2>1. /\ Sent(33, xcCmdProcStaSetWMM(args))
        /\ Sent(47, xcCmdProcStaDisconnect(args))
        /\ Sent(34, xcCmdProcStaReAssociate(args))
        /\ Sent(48, xcCmdProcStaDevSendFrame(args))
        /\ Sent(0, xcCmdProcStaSetSecurity(args))
        /\ Sent(37, xcCmdProcStaPresetTestParameters(args))
        /\ Sent(38, xcCmdProcStaSetEapFAST(args, console))
        /\ Sent(39, xcCmdProcStaSetEapAKA(args, console))
    BY DEF Sent, TLV, SecondWord, WFA_FAILURE, dutCommand_t, xcCmdProcStaSetWMM,
           xcCmdProcStaDisconnect, xcCmdProcStaReAssociate, xcCmdProcStaDevSendFrame,
           xcCmdProcStaSetSecurity, xcCmdProcStaPresetTestParameters, xcCmdProcStaSetEapFAST,
           xcCmdProcStaSetEapAKA
  <2>2. /\ n = "sta_set_wmm" => nameStr(n, args, console) = xcCmdProcStaSetWMM(args)
        /\ n = "sta_disconnect" => nameStr(n, args, console) = xcCmdProcStaDisconnect(args)
        /\ n = "sta_reassociate" => nameStr(n, args, console) = xcCmdProcStaReAssociate(args)
        /\ n = "dev_send_frame" => nameStr(n, args, console) = xcCmdProcStaDevSendFrame(args)
        /\ n = "sta_set_security" => nameStr(n, args, console) = xcCmdProcStaSetSecurity(args)
        /\ n = "sta_preset_testparameters" => nameStr(n, args, console) = xcCmdProcStaPresetTestParameters(args)
        /\ n = "sta_set_eapfast" => nameStr(n, args, console) = xcCmdProcStaSetEapFAST(args, console)
        /\ n = "sta_set_eapaka" => nameStr(n, args, console) = xcCmdProcStaSetEapAKA(args, console)
    BY DEF nameStr
  <2> QED BY SMTT(30), <1>4, <2>1, <2>2 DEF Tags, Named
<1>5. CASE n \in {"sta_set_systime", "sta_set_pwrsave", "sta_reset_default", "sta_set_11n",
                "sta_set_wireless", "sta_send_addba", "sta_set_rifs_test", "sta_send_coexist_mgmt"}
  <2>1. /\ Sent(40, xcCmdProcStaSetSystime(args))
        /\ Sent(35, xcCmdProcStaSetPwrSave(args))
        /\ Sent(46, xcCmdProcStaResetDefault(args))
        /\ Sent(41, xcCmdProcStaSet11n(args))
        /\ Sent(42, xcCmdProcStaSetWireless(args))
        /\ Sent(43, xcCmdProcStaSendADDBA(args))
        /\ Sent(45, xcCmdProcStaSetRIFS(args))
        /\ Sent(44, xcCmdProcStaSendCoExistMGMT(args))
    BY DEF Sent, TLV, SecondWord, WFA_FAILURE, dutCommand_t, xcCmdProcStaSetSystime,
           xcCmdProcStaSetPwrSave, xcCmdProcStaResetDefault, xcCmdProcStaSet11n,
           xcCmdProcStaSetWireless, xcCmdProcStaSendADDBA, xcCmdProcStaSetRIFS,
           xcCmdProcStaSendCoExistMGMT
  <2>2. /\ n = "sta_set_systime" => nameStr(n, args, console) = xcCmdProcStaSetSystime(args)
        /\ n = "sta_set_pwrsave" => nameStr(n, args, console) = xcCmdProcStaSetPwrSave(args)
        /\ n = "sta_reset_default" => nameStr(n, args, console) = xcCmdProcStaResetDefault(args)
        /\ n = "sta_set_11n" => nameStr(n, args, console) = xcCmdProcStaSet11n(args)
        /\ n = "sta_set_wireless" => nameStr(n, args, console) = xcCmdProcStaSetWireless(args)
        /\ n = "sta_send_addba" => nameStr(n, args, console) = xcCmdProcStaSendADDBA(args)
        /\ n = "sta_set_rifs_test" => nameStr(n, args, console) = xcCmdProcStaSetRIFS(args)
        /\ n = "sta_send_coexist_mgmt" => nameStr(n, args, console) = xcCmdProcStaSendCoExistMGMT(args)
    BY DEF nameStr
  <2> QED BY SMTT(30), <1>5, <2>1, <2>2 DEF Tags, Named
<1>6. CASE n \in {"sta_get_p2p_dev_address", "sta_set_p2p", "sta_p2p_connect",
                "sta_start_autonomous_go", "sta_p2p_start_group_formation", "sta_p2p_dissolve",
                "sta_send_p2p_invitation_req", "sta_accept_p2p_invitation_req"}
  <2>1. /\ Sent(50, xcCmdProcStaGetP2pDevAddress(args))
        /\ Sent(51, xcCmdProcStaSetP2p(args))
        /\ Sent(52, xcCmdProcStaP2pConnect(args))
        /\ Sent(53, xcCmdProcStaP2pStartAutoGo(args))
        /\ Sent(54, xcCmdProcStaP2pStartGroupFormation(args))
        /\ Sent(55, xcCmdProcStaP2pDissolve(args))
        /\ Sent(56, xcCmdProcStaSendP2pInvReq(args))
        /\ Sent(57, xcCmdProcStaAcceptP2pInvReq(args))
    BY DEF Sent, TLV, SecondWord, WFA_FAILURE, dutCommand_t, xcCmdProcStaGetP2pDevAddress,
           xcCmdProcStaSetP2p, xcCmdProcStaP2pConnect, xcCmdProcStaP2pStartAutoGo,
           xcCmdProcStaP2pStartGroupFormation, xcCmdProcStaP2pDissolve, xcCmdProcStaSendP2pInvReq,
           xcCmdProcStaAcceptP2pInvReq
  <2>2. /\ n = "sta_get_p2p_dev_address" => nameStr(n, args, console) = xcCmdProcStaGetP2pDevAddress(args)
        /\ n = "sta_set_p2p" => nameStr(n, args, console) = xcCmdProcStaSetP2p(args)
        /\ n = "sta_p2p_connect" => nameStr(n, args, console) = xcCmdProcStaP2pConnect(args)
        /\ n = "sta_start_autonomous_go" => nameStr(n, args, console) = xcCmdProcStaP2pStartAutoGo(args)
        /\ n = "sta_p2p_start_group_formation" => nameStr(n, args, console) = xcCmdProcStaP2pStartGroupFormation(args)
        /\ n = "sta_p2p_dissolve" => nameStr(n, args, console) = xcCmdProcStaP2pDissolve(args)
        /\ n = "sta_send_p2p_invitation_req" => nameStr(n, args, console) = xcCmdProcStaSendP2pInvReq(args)
        /\ n = "sta_accept_p2p_invitation_req" => nameStr(n, args, console) = xcCmdProcStaAcceptP2pInvReq(args)
    BY DEF nameStr
  <2> QED BY SMTT(30), <1>6, <2>1, <2>2 DEF Tags, Named
<1>7. CASE n \in {"sta_send_p2p_provision_dis_req", "sta_set_wps_pbc", "sta_wps_read_pin",
                "sta_wps_enter_pin", "sta_get_psk", "sta_p2p_reset", "sta_wps_read_label",
                "sta_get_p2p_ip_config"}
  <2>1. /\ Sent(58, xcCmdProcStaSendP2pProvDisReq(args))
        /\ Sent(59, xcCmdProcStaSetWpsPbc(args))
        /\ Sent(60, xcCmdProcStaWpsReadPin(args))
        /\ Sent(61, xcCmdProcStaWpsEnterPin(args))
        /\ Sent(62, xcCmdProcStaGetPsk(args))
        /\ Sent(63, xcCmdProcStaP2pReset(args))
        /\ Sent(64, xcCmdProcStaWpsReadLabel(args))
        /\ Sent(65, xcCmdProcStaGetP2pIpConfig(args))
    BY DEF Sent, TLV, SecondWord, WFA_FAILURE, dutCommand_t, xcCmdProcStaSendP2pProvDisReq,
           xcCmdProcStaSetWpsPbc, xcCmdProcStaWpsReadPin, xcCmdProcStaWpsEnterPin,
           xcCmdProcStaGetPsk, xcCmdProcStaP2pReset, xcCmdProcStaWpsReadLabel,
           xcCmdProcStaGetP2pIpConfig
  <2>2. /\ n = "sta_send_p2p_provision_dis_req" => nameStr(n, args, console) = xcCmdProcStaSendP2pProvDisReq(args)
        /\ n = "sta_set_wps_pbc" => nameStr(n, args, console) = xcCmdProcStaSetWpsPbc(args)
        /\ n = "sta_wps_read_pin" => nameStr(n, args, console) = xcCmdProcStaWpsReadPin(args)
        /\ n = "sta_wps_enter_pin" => nameStr(n, args, console) = xcCmdProcStaWpsEnterPin(args)
        /\ n = "sta_get_psk" => nameStr(n, args, console) = xcCmdProcStaGetPsk(args)
        /\ n = "sta_p2p_reset" => nameStr(n, args, console) = xcCmdProcStaP2pReset(args)
        /\ n = "sta_wps_read_label" => nameStr(n, args, console) = xcCmdProcStaWpsReadLabel(args)
        /\ n = "sta_get_p2p_ip_config" => nameStr(n, args, console) = xcCmdProcStaGetP2pIpConfig(args)
    BY DEF nameStr
  <2> QED BY SMTT(30), <1>7, <2>1, <2>2 DEF Tags, Named
<1>8. CASE n \in {"sta_send_service_discovery_req", "sta_send_p2p_presence_req", "sta_set_sleep",
                "sta_set_opportunistic_ps", "sta_add_arp_table_entry", "sta_block_icmp_response",
                "sta_set_radio", "sta_set_rfeature"}
  <2>1. /\ Sent(66, xcCmdProcStaSendServiceDiscoveryReq(args))
        /\ Sent(67, xcCmdProcStaSendP2pPresenceReq(args))
        /\ Sent(68, xcCmdProcStaSetSleepReq(args))
        /\ Sent(69, xcCmdProcStaSetOpportunistcPsReq(args))
        /\ Sent(70, xcCmdProcStaAddARPTableEntry(args))
        /\ Sent(71, xcCmdProcStaBlockICMPResponse(args))
        /\ Sent(72, xcCmdProcStaSetRadio(args))
        /\ Sent(73, xcCmdProcStaSetRFeature(args))
    BY DEF Sent, TLV, SecondWord, WFA_FAILURE, dutCommand_t, xcCmdProcStaSendServiceDiscoveryReq,
           xcCmdProcStaSendP2pPresenceReq, xcCmdProcStaSetSleepReq,
           xcCmdProcStaSetOpportunistcPsReq, xcCmdProcStaAddARPTableEntry,
           xcCmdProcStaBlockICMPResponse, xcCmdProcStaSetRadio, xcCmdProcStaSetRFeature
  <2>2. /\ n = "sta_send_service_discovery_req" => nameStr(n, args, console) = xcCmdProcStaSendServiceDiscoveryReq(args)
        /\ n = "sta_send_p2p_presence_req" => nameStr(n, args, console) = xcCmdProcStaSendP2pPresenceReq(args)
        /\ n = "sta_set_sleep" => nameStr(n, args, console) = xcCmdProcStaSetSleepReq(args)
        /\ n = "sta_set_opportunistic_ps" => nameStr(n, args, console) = xcCmdProcStaSetOpportunistcPsReq(args)
        /\ n = "sta_add_arp_table_entry" => nameStr(n, args, console) = xcCmdProcStaAddARPTableEntry(args)
        /\ n = "sta_block_icmp_response" => nameStr(n, args, console) = xcCmdProcStaBlockICMPResponse(args)
        /\ n = "sta_set_radio" => nameStr(n, args, console) = xcCmdProcStaSetRadio(args)
        /\ n = "sta_set_rfeature" => nameStr(n, args, console) = xcCmdProcStaSetRFeature(args)
    BY DEF nameStr
  <2> QED BY SMTT(30), <1>8, <2>1, <2>2 DEF Tags, Named
<1>9. CASE n \in {"start_wfd_connection", "wfa_cli_cmd", "connect_go_start_wfd",
                "sta_generate_event", "reinvoke_wfd_session", "sta_get_parameter", "sta_nfc_action",
                "sta_exec_action"}
  <2>1. /\ Sent(74, xcCmdProcStaStartWfdConnection(args))
        /\ Sent(75, xcCmdProcStaCliCommand(args))
        /\ Sent(76, xcCmdProcStaConnectGoStartWfd(args))
        /\ Sent(77, xcCmdProcStaGenerateEvent(args))
        /\ Sent(78, xcCmdProcStaReinvokeWfdSession(args))
        /\ Sent(79, xcCmdProcStaGetParameter(args))
        /\ Sent(80, xcCmdProcStaNfcAction(args))
        /\ Sent(88, xcCmdProcStaExecAction(args))
    BY DEF Sent, TLV, SecondWord, WFA_FAILURE, dutCommand_t, xcCmdProcStaStartWfdConnection,
           xcCmdProcStaCliCommand, xcCmdProcStaConnectGoStartWfd, xcCmdProcStaGenerateEvent,
           xcCmdProcStaReinvokeWfdSession, xcCmdProcStaGetParameter, xcCmdProcStaNfcAction,
           xcCmdProcStaExecAction
  <2>2. /\ n = "start_wfd_connection" => nameStr(n, args, console) = xcCmdProcStaStartWfdConnection(args)
        /\ n = "wfa_cli_cmd" => nameStr(n, args, console) = xcCmdProcStaCliCommand(args)
        /\ n = "connect_go_start_wfd" => nameStr(n, args, console) = xcCmdProcStaConnectGoStartWfd(args)
        /\ n = "sta_generate_event" => nameStr(n, args, console) = xcCmdProcStaGenerateEvent(args)
        /\ n = "reinvoke_wfd_session" => nameStr(n, args, console) = xcCmdProcStaReinvokeWfdSession(args)
        /\ n = "sta_get_parameter" => nameStr(n, args, console) = xcCmdProcStaGetParameter(args)
        /\ n = "sta_nfc_action" => nameStr(n, args, console) = xcCmdProcStaNfcAction(args)
        /\ n = "sta_exec_action" => nameStr(n, args, console) = xcCmdProcStaExecAction(args)
    BY DEF nameStr
  <2> QED BY SMTT(30), <1>9, <2>1, <2>2 DEF Tags, Named
<1>10. CASE n \in {"sta_invoke_command", "sta_manage_service", "sta_get_events",
                "sta_get_event_details"}
  <2>1. /\ Sent(81, xcCmdProcStaInvokeCommand(args))
        /\ Sent(82, xcCmdProcStaManageService(args))
        /\ Sent(83, xcCmdProcStaGetEvents(args))
        /\ Sent(84, xcCmdProcStaGetEventDetails(args))
    BY DEF Sent, TLV, SecondWord, WFA_FAILURE, dutCommand_t, xcCmdProcStaInvokeCommand,
           xcCmdProcStaManageService, xcCmdProcStaGetEvents, xcCmdProcStaGetEventDetails
  <2>2. /\ n = "sta_invoke_command" => nameStr(n, args, console) = xcCmdProcStaInvokeCommand(args)
        /\ n = "sta_manage_service" => nameStr(n, args, console) = xcCmdProcStaManageService(args)
        /\ n = "sta_get_events" => nameStr(n, args, console) = xcCmdProcStaGetEvents(args)
        /\ n = "sta_get_event_details" => nameStr(n, args, console) = xcCmdProcStaGetEventDetails(args)
    BY DEF nameStr
  <2> QED BY SMTT(30), <1>10, <2>1, <2>2 DEF Tags, Named
<1>11. CASE n \notin Names
  <2>1. nameStr(n, args, console) = WFA_FAILURE
    BY ZenonT(60), <1>11 DEF nameStr, Names, TrafficNames
  <2> QED BY <1>11, <2>1 DEF Tags, Named, Sent, Names
<1> QED BY <1>1, <1>2, <1>3, <1>4, <1>5, <1>6, <1>7, <1>8, <1>9, <1>10, <1>11 DEF Names

\* The rows of the table of handlers (wfa_cmdtbl.c) that commands of the agent reach.
LEMMA Rows ==
  ASSUME NEW d
  PROVE  /\ gWfaCmdFuncTbl(1, d) = agtCmdProcGetVersion(d)
         /\ gWfaCmdFuncTbl(10, d) = wfaStaGetIpConfig(d)
         /\ gWfaCmdFuncTbl(11, d) = wfaStaSetIpConfig(d)
         /\ gWfaCmdFuncTbl(12, d) = wfaStaGetMacAddress(d)
         /\ gWfaCmdFuncTbl(13, d) = wfaStaSetMacAddr(d)
         /\ gWfaCmdFuncTbl(14, d) = wfaStaIsConnected(d)
         /\ gWfaCmdFuncTbl(15, d) = wfaStaVerifyIpConnection(d)
         /\ gWfaCmdFuncTbl(16, d) = wfaStaGetBSSID(d)
         /\ gWfaCmdFuncTbl(17, d) = wfaStaGetStats(d)
         /\ gWfaCmdFuncTbl(18, d) = wfaSetEncryption(d)
         /\ gWfaCmdFuncTbl(19, d) = wfaStaSetPSK(d)
         /\ gWfaCmdFuncTbl(20, d) = wfaStaSetEapTLS(d)
         /\ gWfaCmdFuncTbl(21, d) = wfaStaSetUAPSD(d)
         /\ gWfaCmdFuncTbl(22, d) = wfaStaAssociate(d)
         /\ gWfaCmdFuncTbl(23, d) = wfaStaSetEapTTLS(d)
         /\ gWfaCmdFuncTbl(24, d) = wfaStaSetEapSIM(d)
         /\ gWfaCmdFuncTbl(25, d) = wfaStaSetPEAP(d)
         /\ gWfaCmdFuncTbl(26, d) = wfaStaSetIBSS(d)
         /\ gWfaCmdFuncTbl(27, d) = wfaStaGetInfo(d)
         /\ gWfaCmdFuncTbl(28, d) = wfaDeviceGetInfo(d)
         /\ gWfaCmdFuncTbl(29, d) = wfaDeviceListIF(d)
         /\ gWfaCmdFuncTbl(30, d) = wfaStaDebugSet(d)
         /\ gWfaCmdFuncTbl(31, d) = wfaStaSetMode(d)
         /\ gWfaCmdFuncTbl(32, d) = wfaStaUpload(d)
         /\ gWfaCmdFuncTbl(33, d) = wfaStaSetWMM(d)
         /\ gWfaCmdFuncTbl(34, d) = wfaStaReAssociate(d)
         /\ gWfaCmdFuncTbl(35, d) = wfaStaSetPwrSave(d)
         /\ gWfaCmdFuncTbl(37, d) = wfaStaPresetParams(d)
         /\ gWfaCmdFuncTbl(38, d) = wfaStaSetEapFAST(d)
         /\ gWfaCmdFuncTbl(39, d) = wfaStaSetEapAKA(d)
         /\ gWfaCmdFuncTbl(40, d) = wfaStaSetSystime(d)
         /\ gWfaCmdFuncTbl(41, d) = wfaStaSet11n(d)
         /\ gWfaCmdFuncTbl(42, d) = wfaStaSetWireless(d)
         /\ gWfaCmdFuncTbl(43, d) = wfaStaSendADDBA(d)
         /\ gWfaCmdFuncTbl(44, d) = wfaStaSendCoExistMGMT(d)
         /\ gWfaCmdFuncTbl(45, d) = wfaStaSetRIFS(d)
         /\ gWfaCmdFuncTbl(46, d) = wfaStaResetDefault(d)
         /\ gWfaCmdFuncTbl(47, d) = wfaStaDisconnect(d)
         /\ gWfaCmdFuncTbl(48, d) = wfaStaDevSendFrame(d)
         /\ gWfaCmdFuncTbl(50, d) = wfaStaGetP2pDevAddress(d)
         /\ gWfaCmdFuncTbl(51, d) = wfaStaSetP2p(d)
         /\ gWfaCmdFuncTbl(52, d) = wfaStaP2pConnect(d)
         /\ gWfaCmdFuncTbl(53, d) = wfaStaStartAutoGo(d)
         /\ gWfaCmdFuncTbl(54, d) = wfaStaP2pStartGrpFormation(d)
         /\ gWfaCmdFuncTbl(55, d) = wfaStaP2pDissolve(d)
         /\ gWfaCmdFuncTbl(56, d) = wfaStaSendP2pInvReq(d)
         /\ gWfaCmdFuncTbl(57, d) = wfaStaAcceptP2pInvReq(d)
         /\ gWfaCmdFuncTbl(58, d) = wfaStaSendP2pProvDisReq(d)
         /\ gWfaCmdFuncTbl(59, d) = wfaStaSetWpsPbc(d)
         /\ gWfaCmdFuncTbl(60, d) = wfaStaWpsReadPin(d)
         /\ gWfaCmdFuncTbl(61, d) = wfaStaWpsEnterPin(d)
         /\ gWfaCmdFuncTbl(62, d) = wfaStaGetPsk(d)
         /\ gWfaCmdFuncTbl(63, d) = wfaStaP2pReset(d)
         /\ gWfaCmdFuncTbl(64, d) = wfaStaWpsReadLabel(d)
         /\ gWfaCmdFuncTbl(65, d) = wfaStaGetP2pIpConfig(d)
         /\ gWfaCmdFuncTbl(66, d) = wfaStaSendServiceDiscoveryReq(d)
         /\ gWfaCmdFuncTbl(67, d) = wfaStaSendP2pPresenceReq(d)
         /\ gWfaCmdFuncTbl(68, d) = wfaStaSetSleepReq(d)
         /\ gWfaCmdFuncTbl(69, d) = wfaStaSetOpportunisticPsReq(d)
         /\ gWfaCmdFuncTbl(70, d) = wfaStaAddArpTableEntry(d)
         /\ gWfaCmdFuncTbl(71, d) = wfaStaBlockICMPResponse(d)
         /\ gWfaCmdFuncTbl(72, d) = wfaStaSetRadio(d)
         /\ gWfaCmdFuncTbl(73, d) = wfaStaSetRFeature(d)
         /\ gWfaCmdFuncTbl(74, d) = wfaStaStartWfdConnection(d)
         /\ gWfaCmdFuncTbl(75, d) = wfaStaCliCommand(d)
         /\ gWfaCmdFuncTbl(76, d) = wfaStaConnectGoStartWfd(d)
         /\ gWfaCmdFuncTbl(77, d) = wfaStaGenerateEvent(d)
         /\ gWfaCmdFuncTbl(78, d) = wfaStaReinvokeWfdSession(d)
         /\ gWfaCmdFuncTbl(79, d) = wfaStaGetParameter(d)
         /\ gWfaCmdFuncTbl(80, d) = wfaStaNfcAction(d)
         /\ gWfaCmdFuncTbl(81, d) = wfaStaInvokeCommand(d)
         /\ gWfaCmdFuncTbl(82, d) = wfaStaManageService(d)
         /\ gWfaCmdFuncTbl(83, d) = wfaStaGetEvents(d)
         /\ gWfaCmdFuncTbl(84, d) = wfaStaGetEventDetails(d)
         /\ gWfaCmdFuncTbl(88, d) = Only(<<>>) \cup Fault
<1>1. gWfaCmdFuncTbl(1, d) = agtCmdProcGetVersion(d)
  BY DEF gWfaCmdFuncTbl
<1>10. gWfaCmdFuncTbl(10, d) = wfaStaGetIpConfig(d)
  BY DEF gWfaCmdFuncTbl
<1>11. gWfaCmdFuncTbl(11, d) = wfaStaSetIpConfig(d)
  BY DEF gWfaCmdFuncTbl
<1>12. gWfaCmdFuncTbl(12, d) = wfaStaGetMacAddress(d)
  BY DEF gWfaCmdFuncTbl
<1>13. gWfaCmdFuncTbl(13, d) = wfaStaSetMacAddr(d)
  BY DEF gWfaCmdFuncTbl
<1>14. gWfaCmdFuncTbl(14, d) = wfaStaIsConnected(d)
  BY DEF gWfaCmdFuncTbl
<1>15. gWfaCmdFuncTbl(15, d) = wfaStaVerifyIpConnection(d)
  BY DEF gWfaCmdFuncTbl
<1>16. gWfaCmdFuncTbl(16, d) = wfaStaGetBSSID(d)
  BY DEF gWfaCmdFuncTbl
<1>17. gWfaCmdFuncTbl(17, d) = wfaStaGetStats(d)
  BY DEF gWfaCmdFuncTbl
<1>18. gWfaCmdFuncTbl(18, d) = wfaSetEncryption(d)
  BY DEF gWfaCmdFuncTbl
<1>19. gWfaCmdFuncTbl(19, d) = wfaStaSetPSK(d)
  BY DEF gWfaCmdFuncTbl
<1>20. gWfaCmdFuncTbl(20, d) = wfaStaSetEapTLS(d)
  BY DEF gWfaCmdFuncTbl
<1>21. gWfaCmdFuncTbl(21, d) = wfaStaSetUAPSD(d)
  BY DEF gWfaCmdFuncTbl
<1>22. gWfaCmdFuncTbl(22, d) = wfaStaAssociate(d)
  BY DEF gWfaCmdFuncTbl
<1>23. gWfaCmdFuncTbl(23, d) = wfaStaSetEapTTLS(d)
  BY DEF gWfaCmdFuncTbl
<1>24. gWfaCmdFuncTbl(24, d) = wfaStaSetEapSIM(d)
  BY DEF gWfaCmdFuncTbl
<1>25. gWfaCmdFuncTbl(25, d) = wfaStaSetPEAP(d)
  BY DEF gWfaCmdFuncTbl
<1>26. gWfaCmdFuncTbl(26, d) = wfaStaSetIBSS(d)
  BY DEF gWfaCmdFuncTbl
<1>27. gWfaCmdFuncTbl(27, d) = wfaStaGetInfo(d)
  BY DEF gWfaCmdFuncTbl
<1>28. gWfaCmdFuncTbl(28, d) = wfaDeviceGetInfo(d)
  BY DEF gWfaCmdFuncTbl
<1>29. gWfaCmdFuncTbl(29, d) = wfaDeviceListIF(d)
  BY DEF gWfaCmdFuncTbl
<1>30. gWfaCmdFuncTbl(30, d) = wfaStaDebugSet(d)
  BY DEF gWfaCmdFuncTbl
<1>31. gWfaCmdFuncTbl(31, d) = wfaStaSetMode(d)
  BY DEF gWfaCmdFuncTbl
<1>32. gWfaCmdFuncTbl(32, d) = wfaStaUpload(d)
  BY DEF gWfaCmdFuncTbl
<1>33. gWfaCmdFuncTbl(33, d) = wfaStaSetWMM(d)
  BY DEF gWfaCmdFuncTbl
<1>34. gWfaCmdFuncTbl(34, d) = wfaStaReAssociate(d)
  BY DEF gWfaCmdFuncTbl
<1>35. gWfaCmdFuncTbl(35, d) = wfaStaSetPwrSave(d)
  BY DEF gWfaCmdFuncTbl
<1>37. gWfaCmdFuncTbl(37, d) = wfaStaPresetParams(d)
  BY DEF gWfaCmdFuncTbl
<1>38. gWfaCmdFuncTbl(38, d) = wfaStaSetEapFAST(d)
  BY DEF gWfaCmdFuncTbl
<1>39. gWfaCmdFuncTbl(39, d) = wfaStaSetEapAKA(d)
  BY DEF gWfaCmdFuncTbl
<1>40. gWfaCmdFuncTbl(40, d) = wfaStaSetSystime(d)
  BY DEF gWfaCmdFuncTbl
<1>41. gWfaCmdFuncTbl(41, d) = wfaStaSet11n(d)
  BY DEF gWfaCmdFuncTbl
<1>42. gWfaCmdFuncTbl(42, d) = wfaStaSetWireless(d)
  BY DEF gWfaCmdFuncTbl
<1>43. gWfaCmdFuncTbl(43, d) = wfaStaSendADDBA(d)
  BY DEF gWfaCmdFuncTbl
<1>44. gWfaCmdFuncTbl(44, d) = wfaStaSendCoExistMGMT(d)
  BY DEF gWfaCmdFuncTbl
<1>45. gWfaCmdFuncTbl(45, d) = wfaStaSetRIFS(d)
  BY DEF gWfaCmdFuncTbl
<1>46. gWfaCmdFuncTbl(46, d) = wfaStaResetDefault(d)
  BY DEF gWfaCmdFuncTbl
<1>47. gWfaCmdFuncTbl(47, d) = wfaStaDisconnect(d)
  BY DEF gWfaCmdFuncTbl
<1>48. gWfaCmdFuncTbl(48, d) = wfaStaDevSendFrame(d)
  BY DEF gWfaCmdFuncTbl
<1>50. gWfaCmdFuncTbl(50, d) = wfaStaGetP2pDevAddress(d)
  BY DEF gWfaCmdFuncTbl
<1>51. gWfaCmdFuncTbl(51, d) = wfaStaSetP2p(d)
  BY DEF gWfaCmdFuncTbl
<1>52. gWfaCmdFuncTbl(52, d) = wfaStaP2pConnect(d)
  BY DEF gWfaCmdFuncTbl
<1>53. gWfaCmdFuncTbl(53, d) = wfaStaStartAutoGo(d)
  BY DEF gWfaCmdFuncTbl
<1>54. gWfaCmdFuncTbl(54, d) = wfaStaP2pStartGrpFormation(d)
  BY DEF gWfaCmdFuncTbl
<1>55. gWfaCmdFuncTbl(55, d) = wfaStaP2pDissolve(d)
  BY DEF gWfaCmdFuncTbl
<1>56. gWfaCmdFuncTbl(56, d) = wfaStaSendP2pInvReq(d)
  BY DEF gWfaCmdFuncTbl
<1>57. gWfaCmdFuncTbl(57, d) = wfaStaAcceptP2pInvReq(d)
  BY DEF gWfaCmdFuncTbl
<1>58. gWfaCmdFuncTbl(58, d) = wfaStaSendP2pProvDisReq(d)
  BY DEF gWfaCmdFuncTbl
<1>59. gWfaCmdFuncTbl(59, d) = wfaStaSetWpsPbc(d)
  BY DEF gWfaCmdFuncTbl
<1>60. gWfaCmdFuncTbl(60, d) = wfaStaWpsReadPin(d)
  BY DEF gWfaCmdFuncTbl
<1>61. gWfaCmdFuncTbl(61, d) = wfaStaWpsEnterPin(d)
  BY DEF gWfaCmdFuncTbl
<1>62. gWfaCmdFuncTbl(62, d) = wfaStaGetPsk(d)
  BY DEF gWfaCmdFuncTbl
<1>63. gWfaCmdFuncTbl(63, d) = wfaStaP2pReset(d)
  BY DEF gWfaCmdFuncTbl
<1>64. gWfaCmdFuncTbl(64, d) = wfaStaWpsReadLabel(d)
  BY DEF gWfaCmdFuncTbl
<1>65. gWfaCmdFuncTbl(65, d) = wfaStaGetP2pIpConfig(d)
  BY DEF gWfaCmdFuncTbl
<1>66. gWfaCmdFuncTbl(66, d) = wfaStaSendServiceDiscoveryReq(d)
  BY DEF gWfaCmdFuncTbl
<1>67. gWfaCmdFuncTbl(67, d) = wfaStaSendP2pPresenceReq(d)
  BY DEF gWfaCmdFuncTbl
<1>68. gWfaCmdFuncTbl(68, d) = wfaStaSetSleepReq(d)
  BY DEF gWfaCmdFuncTbl
<1>69. gWfaCmdFuncTbl(69, d) = wfaStaSetOpportunisticPsReq(d)
  BY DEF gWfaCmdFuncTbl
<1>70. gWfaCmdFuncTbl(70, d) = wfaStaAddArpTableEntry(d)
  BY DEF gWfaCmdFuncTbl
<1>71. gWfaCmdFuncTbl(71, d) = wfaStaBlockICMPResponse(d)
  BY DEF gWfaCmdFuncTbl
<1>72. gWfaCmdFuncTbl(72, d) = wfaStaSetRadio(d)
  BY DEF gWfaCmdFuncTbl
<1>73. gWfaCmdFuncTbl(73, d) = wfaStaSetRFeature(d)
  BY DEF gWfaCmdFuncTbl
<1>74. gWfaCmdFuncTbl(74, d) = wfaStaStartWfdConnection(d)
  BY DEF gWfaCmdFuncTbl
<1>75. gWfaCmdFuncTbl(75, d) = wfaStaCliCommand(d)
  BY DEF gWfaCmdFuncTbl
<1>76. gWfaCmdFuncTbl(76, d) = wfaStaConnectGoStartWfd(d)
  BY DEF gWfaCmdFuncTbl
<1>77. gWfaCmdFuncTbl(77, d) = wfaStaGenerateEvent(d)
  BY DEF gWfaCmdFuncTbl
<1>78. gWfaCmdFuncTbl(78, d) = wfaStaReinvokeWfdSession(d)
  BY DEF gWfaCmdFuncTbl
<1>79. gWfaCmdFuncTbl(79, d) = wfaStaGetParameter(d)
  BY DEF gWfaCmdFuncTbl
<1>80. gWfaCmdFuncTbl(80, d) = wfaStaNfcAction(d)
  BY DEF gWfaCmdFuncTbl
<1>81. gWfaCmdFuncTbl(81, d) = wfaStaInvokeCommand(d)
  BY DEF gWfaCmdFuncTbl
<1>82. gWfaCmdFuncTbl(82, d) = wfaStaManageService(d)
  BY DEF gWfaCmdFuncTbl
<1>83. gWfaCmdFuncTbl(83, d) = wfaStaGetEvents(d)
  BY DEF gWfaCmdFuncTbl
<1>84. gWfaCmdFuncTbl(84, d) = wfaStaGetEventDetails(d)
  BY DEF gWfaCmdFuncTbl
<1>88. gWfaCmdFuncTbl(88, d) = Only(<<>>) \cup Fault
  BY DEF gWfaCmdFuncTbl
<1> QED BY <1>1, <1>10, <1>11, <1>12, <1>13, <1>14, <1>15, <1>16, <1>17, <1>18, <1>19, <1>20, <1>21,
          <1>22, <1>23, <1>24, <1>25, <1>26, <1>27, <1>28, <1>29, <1>30, <1>31, <1>32, <1>33, <1>34,
          <1>35, <1>37, <1>38, <1>39, <1>40, <1>41, <1>42, <1>43, <1>44, <1>45, <1>46, <1>47, <1>48,
          <1>50, <1>51, <1>52, <1>53, <1>54, <1>55, <1>56, <1>57, <1>58, <1>59, <1>60, <1>61, <1>62,
          <1>63, <1>64, <1>65, <1>66, <1>67, <1>68, <1>69, <1>70, <1>71, <1>72, <1>73, <1>74, <1>75,
          <1>76, <1>77, <1>78, <1>79, <1>80, <1>81, <1>82, <1>83, <1>84, <1>88

\* The tag of the response: two handlers take another's, and one that of associate.
AnswerTag(tag) ==
  IF tag = 30 THEN 27 ELSE IF tag = 34 THEN 22 ELSE IF tag = 64 THEN 60 ELSE tag

\* A response r that the agent can do something with.
IsAnswer(r, tag) ==
  /\ r.tag = AnswerTag(tag)
  /\ r.status \in Statuses /\ (r.status = "RUNNING" => tag = 75)
  /\ (tag = 32 => r.status \in {"COMPLETE", "ERROR"})
  /\ (~r.whole => tag \in {68, 69})
Answered(resp, tag) == \E r : resp = <<r>> /\ IsAnswer(r, tag)

\* A handler that answers and does nothing to the station.
Plain(tag, o) == o.steps = <<>> /\ Answered(o.resp, tag)

\* The commands whose handlers answer and do nothing to the station.

PlainTags == {1, 10, 11, 12, 13, 15, 16, 17, 19, 21, 27, 28, 29, 30, 33, 35, 40, 41, 42, 43, 44,
             45, 46, 47, 48, 50, 51, 52, 53, 54, 55, 56, 57, 58, 59, 60, 61, 62, 63, 64, 65, 66, 67,
             68, 69, 70, 71, 72, 73, 74, 76, 77, 78, 79, 80, 81, 82, 83, 84}

\* Most handlers answer, with their own tag, and leave the station alone (wfa_cs.c).
LEMMA PlainHandlers ==
  ASSUME NEW tag \in PlainTags, NEW d, NEW o \in gWfaCmdFuncTbl(tag, d)
  PROVE  Plain(tag, o)
<1>1. CASE tag \in {1, 10, 11, 12, 13, 15, 16, 17}
  <2>1. /\ \A x \in agtCmdProcGetVersion(d) : Plain(1, x)
        /\ \A x \in wfaStaGetIpConfig(d) : Plain(10, x)
        /\ \A x \in wfaStaSetIpConfig(d) : Plain(11, x)
        /\ \A x \in wfaStaGetMacAddress(d) : Plain(12, x)
        /\ \A x \in wfaStaSetMacAddr(d) : Plain(13, x)
        /\ \A x \in wfaStaVerifyIpConnection(d) : Plain(15, x)
        /\ \A x \in wfaStaGetBSSID(d) : Plain(16, x)
        /\ \A x \in wfaStaGetStats(d) : Plain(17, x)
    BY SMTT(30) DEF Plain, Answered, IsAnswer, AnswerTag, Statuses, Only, Outcome, Reads, Complete, ERRORof,
           Global, Response, agtCmdProcGetVersion, wfaStaGetIpConfig, wfaStaSetIpConfig,
           wfaStaGetMacAddress, wfaStaSetMacAddr, wfaStaVerifyIpConnection, wfaStaGetBSSID,
           wfaStaGetStats
  <2> QED BY SMTT(30), <1>1, <2>1, Rows
<1>2. CASE tag \in {19, 21, 27, 28, 29, 30, 33, 35}
  <2>1. /\ \A x \in wfaStaSetPSK(d) : Plain(19, x)
        /\ \A x \in wfaStaSetUAPSD(d) : Plain(21, x)
        /\ \A x \in wfaStaGetInfo(d) : Plain(27, x)
        /\ \A x \in wfaDeviceGetInfo(d) : Plain(28, x)
        /\ \A x \in wfaDeviceListIF(d) : Plain(29, x)
        /\ \A x \in wfaStaDebugSet(d) : Plain(30, x)
        /\ \A x \in wfaStaSetWMM(d) : Plain(33, x)
        /\ \A x \in wfaStaSetPwrSave(d) : Plain(35, x)
    BY SMTT(30) DEF Plain, Answered, IsAnswer, AnswerTag, Statuses, Only, Outcome, Complete, ERRORof, Global,
           Local, Response, wfaStaSetPSK, wfaStaSetUAPSD, wfaStaGetInfo, wfaDeviceGetInfo,
           wfaDeviceListIF, wfaStaDebugSet, wfaStaSetWMM, wfaStaSetPwrSave
  <2> QED BY SMTT(30), <1>2, <2>1, Rows
<1>3. CASE tag \in {40, 41, 42, 43, 44, 45, 46, 47}
  <2>1. /\ \A x \in wfaStaSetSystime(d) : Plain(40, x)
        /\ \A x \in wfaStaSet11n(d) : Plain(41, x)
        /\ \A x \in wfaStaSetWireless(d) : Plain(42, x)
        /\ \A x \in wfaStaSendADDBA(d) : Plain(43, x)
        /\ \A x \in wfaStaSendCoExistMGMT(d) : Plain(44, x)
        /\ \A x \in wfaStaSetRIFS(d) : Plain(45, x)
        /\ \A x \in wfaStaResetDefault(d) : Plain(46, x)
        /\ \A x \in wfaStaDisconnect(d) : Plain(47, x)
    BY SMTT(30) DEF Plain, Answered, IsAnswer, AnswerTag, Statuses, Only, Outcome, Complete, Global, Response,
           wfaStaSetSystime, wfaStaSet11n, wfaStaSetWireless, wfaStaSendADDBA,
           wfaStaSendCoExistMGMT, wfaStaSetRIFS, wfaStaResetDefault, wfaStaDisconnect
  <2> QED BY SMTT(30), <1>3, <2>1, Rows
<1>4. CASE tag \in {48, 50, 51, 52, 53, 54, 55, 56}
  <2>1. /\ \A x \in wfaStaDevSendFrame(d) : Plain(48, x)
        /\ \A x \in wfaStaGetP2pDevAddress(d) : Plain(50, x)
        /\ \A x \in wfaStaSetP2p(d) : Plain(51, x)
        /\ \A x \in wfaStaP2pConnect(d) : Plain(52, x)
        /\ \A x \in wfaStaStartAutoGo(d) : Plain(53, x)
        /\ \A x \in wfaStaP2pStartGrpFormation(d) : Plain(54, x)
        /\ \A x \in wfaStaP2pDissolve(d) : Plain(55, x)
        /\ \A x \in wfaStaSendP2pInvReq(d) : Plain(56, x)
    BY SMTT(30) DEF Plain, Answered, IsAnswer, AnswerTag, Statuses, Only, Outcome, Complete, Global, Local,
           Response, wfaStaDevSendFrame, wfaStaGetP2pDevAddress, wfaStaSetP2p, wfaStaP2pConnect,
           wfaStaStartAutoGo, wfaStaP2pStartGrpFormation, wfaStaP2pDissolve, wfaStaSendP2pInvReq
  <2> QED BY SMTT(30), <1>4, <2>1, Rows
<1>5. CASE tag \in {57, 58, 59, 60, 61, 62, 63, 64}
  <2>1. /\ \A x \in wfaStaAcceptP2pInvReq(d) : Plain(57, x)
        /\ \A x \in wfaStaSendP2pProvDisReq(d) : Plain(58, x)
        /\ \A x \in wfaStaSetWpsPbc(d) : Plain(59, x)
        /\ \A x \in wfaStaWpsReadPin(d) : Plain(60, x)
        /\ \A x \in wfaStaWpsEnterPin(d) : Plain(61, x)
        /\ \A x \in wfaStaGetPsk(d) : Plain(62, x)
        /\ \A x \in wfaStaP2pReset(d) : Plain(63, x)
        /\ \A x \in wfaStaWpsReadLabel(d) : Plain(64, x)
    BY SMTT(30) DEF Plain, Answered, IsAnswer, AnswerTag, Statuses, Only, Outcome, Local, Response,
           wfaStaAcceptP2pInvReq, wfaStaSendP2pProvDisReq, wfaStaSetWpsPbc, wfaStaWpsReadPin,
           wfaStaWpsEnterPin, wfaStaGetPsk, wfaStaP2pReset, wfaStaWpsReadLabel
  <2> QED BY SMTT(30), <1>5, <2>1, Rows
<1>6. CASE tag \in {65, 66, 67, 68, 69, 70, 71, 72}
  <2>1. /\ \A x \in wfaStaGetP2pIpConfig(d) : Plain(65, x)
        /\ \A x \in wfaStaSendServiceDiscoveryReq(d) : Plain(66, x)
        /\ \A x \in wfaStaSendP2pPresenceReq(d) : Plain(67, x)
        /\ \A x \in wfaStaSetSleepReq(d) : Plain(68, x)
        /\ \A x \in wfaStaSetOpportunisticPsReq(d) : Plain(69, x)
        /\ \A x \in wfaStaAddArpTableEntry(d) : Plain(70, x)
        /\ \A x \in wfaStaBlockICMPResponse(d) : Plain(71, x)
        /\ \A x \in wfaStaSetRadio(d) : Plain(72, x)
    BY SMTT(30) DEF Plain, Answered, IsAnswer, AnswerTag, Statuses, Only, Outcome, Complete, Global, Local,
           Cut, Response, wfaStaGetP2pIpConfig, wfaStaSendServiceDiscoveryReq,
           wfaStaSendP2pPresenceReq, wfaStaSetSleepReq, wfaStaSetOpportunisticPsReq,
           wfaStaAddArpTableEntry, wfaStaBlockICMPResponse, wfaStaSetRadio
  <2> QED BY SMTT(30), <1>6, <2>1, Rows
<1>7. CASE tag \in {73, 74, 76, 77, 78, 80, 82, 83}
  <2>1. /\ \A x \in wfaStaSetRFeature(d) : Plain(73, x)
        /\ \A x \in wfaStaStartWfdConnection(d) : Plain(74, x)
        /\ \A x \in wfaStaConnectGoStartWfd(d) : Plain(76, x)
        /\ \A x \in wfaStaGenerateEvent(d) : Plain(77, x)
        /\ \A x \in wfaStaReinvokeWfdSession(d) : Plain(78, x)
        /\ \A x \in wfaStaNfcAction(d) : Plain(80, x)
        /\ \A x \in wfaStaManageService(d) : Plain(82, x)
        /\ \A x \in wfaStaGetEvents(d) : Plain(83, x)
    BY SMTT(30) DEF Plain, Answered, IsAnswer, AnswerTag, Statuses, Only, Outcome, Complete, Global, Local,
           Response, wfaStaSetRFeature, wfaStaStartWfdConnection, wfaStaConnectGoStartWfd,
           wfaStaGenerateEvent, wfaStaReinvokeWfdSession, wfaStaNfcAction, wfaStaManageService,
           wfaStaGetEvents
  <2> QED BY SMTT(30), <1>7, <2>1, Rows
<1>8. CASE tag = 79
  <2>1. \A x \in wfaStaGetParameter(d) : Plain(79, x)
    BY SMTT(30) DEF Plain, Answered, IsAnswer, AnswerTag, Statuses, Only, Outcome, Local, Response, wfaStaGetParameter
  <2> QED BY SMTT(30), <1>8, <2>1, Rows
<1>9. CASE tag = 81
  <2>1. \A x \in wfaStaInvokeCommand(d) : Plain(81, x)
    BY SMTT(30) DEF Plain, Answered, IsAnswer, AnswerTag, Statuses, Only, Outcome, Local, Response, wfaStaInvokeCommand
  <2> QED BY SMTT(30), <1>9, <2>1, Rows
<1>10. CASE tag = 84
  <2>1. \A x \in wfaStaGetEventDetails(d) : Plain(84, x)
    BY SMTT(30) DEF Plain, Answered, IsAnswer, AnswerTag, Statuses, Only, Outcome, Local, Response, wfaStaGetEventDetails
  <2> QED BY SMTT(30), <1>10, <2>1, Rows
<1> QED BY <1>1, <1>2, <1>3, <1>4, <1>5, <1>6, <1>7, <1>8, <1>9, <1>10 DEF PlainTags

(* The handlers that do something to the station *)

\* Sequences of at most two steps.
LEMMA ShortSteps ==
  ASSUME NEW S, NEW a \in S, NEW b \in S
  PROVE  /\ <<>> \in Seq(S) /\ <<a>> \in Seq(S) /\ <<a, b>> \in Seq(S)
         /\ <<>> \o <<>> \in Seq(S) /\ <<>> \o <<b>> \in Seq(S) /\ <<a>> \o <<>> \in Seq(S)
         /\ <<a>> \o <<b>> \in Seq(S)
  OBVIOUS

SystemTags == {14, 22, 31, 32, 34, 37, 75, 88}

\* What they do, and answer.
SystemOutcome(tag, d, o) ==
  /\ o.steps \in Seq(Allowed(tag, Intf(d)))
  /\ Answered(o.resp, tag) \/ (o.resp = <<>> /\ tag \in {37, 75, 88})

\* The handlers that work on the interface, the files or the process; the same three
\* that may end the process are the only ones that may leave without an answer.
LEMMA SystemHandlers ==
  ASSUME NEW tag \in SystemTags, NEW d, NEW o \in gWfaCmdFuncTbl(tag, d)
  PROVE  SystemOutcome(tag, d, o)
<1> DEFINE i == Intf(d)
<1>1. /\ Step("open", "none") \in Allowed(14, i) /\ Step("reassociate", i) \in Allowed(22, i)
      /\ Step("down", i) \in Allowed(31, i) /\ Step("up", i) \in Allowed(31, i)
      /\ Step("down", i) \in Allowed(34, i) /\ Step("reassociate", i) \in Allowed(34, i)
      /\ Step("upload", "none") \in Allowed(32, i) /\ Step("uploaded", "none") \in Allowed(32, i)
      /\ Step("open", "none") \in Allowed(37, i) /\ Step("fault", "none") \in Allowed(37, i)
      /\ Step("open", "none") \in Allowed(75, i) /\ Step("fault", "none") \in Allowed(75, i)
      /\ Step("fault", "none") \in Allowed(88, i)
  BY DEF Allowed, SystemSteps, SystemOps, Step
<1>2. /\ \A x \in wfaStaIsConnected(d) : SystemOutcome(14, d, x)
  <2>1. ASSUME NEW x \in wfaStaIsConnected(d)
        PROVE  x.steps \in {<<>>, <<Step("open", "none")>>} /\ Answered(x.resp, 14)
    BY DEF wfaStaIsConnected, Reads, Only, Outcome, ERRORof, Global, Response, Answered, IsAnswer, AnswerTag, Statuses
  <2> QED BY ZenonT(60), <1>1, <2>1, ShortSteps DEF SystemOutcome
<1>3. /\ \A x \in wfaStaAssociate(d) : SystemOutcome(22, d, x)
      /\ \A x \in wfaStaSetMode(d) : SystemOutcome(31, d, x)
      /\ \A x \in wfaStaReAssociate(d) : SystemOutcome(34, d, x)
  <2>1. ASSUME NEW x \in wfaStaAssociate(d)
        PROVE  x.steps \in {<<>>, <<Step("reassociate", i)>>} /\ Answered(x.resp, 22)
    BY DEF wfaStaAssociate, Outcome, Complete, Global, Response, Answered, IsAnswer, AnswerTag, Statuses
  <2>2. ASSUME NEW x \in wfaStaSetMode(d)
        PROVE  x.steps = <<Step("down", i), Step("up", i)>> /\ Answered(x.resp, 31)
    BY DEF wfaStaSetMode, Does, Outcome, Complete, Global, Response, Answered, IsAnswer, AnswerTag, Statuses
  <2>3. ASSUME NEW x \in wfaStaReAssociate(d)
        PROVE  x.steps \in {<<>>, <<Step("down", i), Step("reassociate", i)>>}
               /\ Answered(x.resp, 34)
    BY DEF wfaStaReAssociate, Outcome, Complete, Global, Response, Answered, IsAnswer, AnswerTag, Statuses
  <2>4. /\ <<>> \in Seq(Allowed(22, i)) /\ <<Step("reassociate", i)>> \in Seq(Allowed(22, i))
        /\ <<Step("down", i), Step("up", i)>> \in Seq(Allowed(31, i))
        /\ <<>> \in Seq(Allowed(34, i)) /\ <<Step("down", i), Step("reassociate", i)>> \in Seq(Allowed(34, i))
    BY <1>1, ShortSteps
  <2> QED BY <2>1, <2>2, <2>3, <2>4 DEF SystemOutcome
<1>4. /\ \A x \in wfaStaUpload(d) : SystemOutcome(32, d, x)
  <2>1. ASSUME NEW x \in wfaStaUpload(d)
        PROVE  /\ \/ x.steps \in {<<>>, <<Step("upload", "none")>>, <<Step("uploaded", "none")>>}
                  \/ x.steps \in {<<>> \o <<Step("uploaded", "none")>>,
                                  <<Step("upload", "none")>> \o <<Step("uploaded", "none")>>}
               /\ Answered(x.resp, 32)
    BY DEF wfaStaUpload, Only, Does, Outcome, ERRORof, Global, Response, Answered, IsAnswer, AnswerTag, Statuses
  <2>2. /\ <<>> \in Seq(Allowed(32, i)) /\ <<Step("upload", "none")>> \in Seq(Allowed(32, i))
        /\ <<Step("uploaded", "none")>> \in Seq(Allowed(32, i)) /\ <<>> \o <<Step("uploaded", "none")>> \in Seq(Allowed(32, i))
        /\ <<Step("upload", "none")>> \o <<Step("uploaded", "none")>> \in Seq(Allowed(32, i))
    BY <1>1, ShortSteps
  <2> QED BY <2>1, <2>2 DEF SystemOutcome
<1>5. /\ \A x \in wfaStaPresetParams(d) : SystemOutcome(37, d, x)
  <2>1. ASSUME NEW st \in CliStatuses, NEW x \in Presets(st)
        PROVE  x.steps \in {<<>>, <<Step("fault", "none")>>} /\ (x.resp = <<>> \/ Answered(x.resp, 37))
    BY DEF CliStatuses, Presets, Fault, Only, Does, Outcome, Complete, Global, Response, Answered, IsAnswer, AnswerTag, Statuses
  <2>2. \A x \in Only(Complete(37)) : x.steps = <<>> /\ Answered(x.resp, 37)
    BY DEF Only, Outcome, Complete, Global, Response, Answered, IsAnswer, AnswerTag, Statuses
  <2>3. ASSUME NEW x \in wfaStaPresetParams(d)
        PROVE  /\ \/ x.steps \in {<<>>, <<Step("open", "none")>>}
                  \/ \E opens \in {<<>>, <<Step("open", "none")>>} :
                       x.steps \in {opens \o <<>>, opens \o <<Step("fault", "none")>>}
               /\ x.resp = <<>> \/ Answered(x.resp, 37)
    <3> DEFINE named == Parameter(d, "supplicant") \in {"Default", "WPA_Supplicant"}
               cli == "1" \in {Parameter(d, "wmmFlag"), Parameter(d, "modeFlag")}
               opens == IF named THEN <<Step("open", "none")>> ELSE <<>>
               done == IF cli THEN UNION {Presets(st) : st \in CliStatuses} ELSE Only(Complete(37))
    <3>1. \A y \in done : y.steps \in {<<>>, <<Step("fault", "none")>>} /\ (y.resp = <<>> \/ Answered(y.resp, 37))
      BY <2>1, <2>2
    <3>2. opens \in {<<>>, <<Step("open", "none")>>}
      OBVIOUS
    <3>3. \/ \E y \in done : x = Outcome(opens \o y.steps, y.resp)
          \/ \E steps \in {<<>>, opens} : x = Outcome(steps, <<>>)
      BY DEF wfaStaPresetParams, Only
    <3> HIDE DEF opens, done
    <3>4. CASE \E y \in done : x = Outcome(opens \o y.steps, y.resp)
      <4>1. PICK y \in done : x = Outcome(opens \o y.steps, y.resp)
        BY <3>4
      <4>2. x.steps = opens \o y.steps /\ x.resp = y.resp
        BY <4>1 DEF Outcome
      <4> QED BY <3>1, <3>2, <4>2
    <3>5. CASE \E steps \in {<<>>, opens} : x = Outcome(steps, <<>>)
      BY <3>2, <3>5 DEF Outcome
    <3> QED BY <3>3, <3>4, <3>5
  <2>4. /\ <<>> \in Seq(Allowed(37, i)) /\ <<Step("open", "none")>> \in Seq(Allowed(37, i))
        /\ <<>> \o <<>> \in Seq(Allowed(37, i)) /\ <<>> \o <<Step("fault", "none")>> \in Seq(Allowed(37, i))
        /\ <<Step("open", "none")>> \o <<>> \in Seq(Allowed(37, i))
        /\ <<Step("open", "none")>> \o <<Step("fault", "none")>> \in Seq(Allowed(37, i))
    BY <1>1, ShortSteps
  <2> QED BY <2>3, <2>4 DEF SystemOutcome
<1>6. /\ \A x \in wfaStaCliCommand(d) : SystemOutcome(75, d, x)
  <2>1. ASSUME NEW x \in wfaStaCliCommand(d)
        PROVE  /\ x.steps \in {<<>>, <<Step("open", "none")>>, <<Step("fault", "none")>>}
               /\ x.resp = <<>> \/ Answered(x.resp, 75)
    BY DEF wfaStaCliCommand, Fault, Only, Does, Outcome, Response, Answered, IsAnswer, AnswerTag, Statuses
  <2>2. /\ <<>> \in Seq(Allowed(75, i)) /\ <<Step("open", "none")>> \in Seq(Allowed(75, i))
        /\ <<Step("fault", "none")>> \in Seq(Allowed(75, i))
    BY <1>1
  <2> QED BY <2>1, <2>2 DEF SystemOutcome
<1>7. \A x \in Only(<<>>) \cup Fault : SystemOutcome(88, d, x)
  <2>1. ASSUME NEW x \in Only(<<>>) \cup Fault
        PROVE  x.steps \in {<<>>, <<Step("fault", "none")>>} /\ x.resp = <<>>
    BY DEF Only, Fault, Does, Outcome
  <2>2. <<>> \in Seq(Allowed(88, i)) /\ <<Step("fault", "none")>> \in Seq(Allowed(88, i))
    BY <1>1
  <2> QED BY <2>1, <2>2 DEF SystemOutcome
<1> QED BY <1>2, <1>3, <1>4, <1>5, <1>6, <1>7, Rows DEF SystemTags

\* Steps of which only the first opens a file, and only if there is room for one or the
\* file of an upload is open already.
Opens(d, steps) ==
  /\ Len(steps) \in Nat
  /\ \A j \in 1 .. Len(steps) :
       steps[j].op \in Opening => j = 1 /\ (d.room \/ (steps[1].op = "upload" /\ d.uploading))

\* Short ones.
LEMMA ShortOpens ==
  ASSUME NEW d, NEW a, NEW b, b.op \notin Opening,
         a.op \in Opening => d.room \/ (a.op = "upload" /\ d.uploading)
  PROVE  /\ Opens(d, <<>>) /\ Opens(d, <<a>>) /\ Opens(d, <<a, b>>)
         /\ Opens(d, <<>> \o <<>>) /\ Opens(d, <<>> \o <<b>>) /\ Opens(d, <<a>> \o <<>>) /\ Opens(d, <<a>> \o <<b>>)
<1>1. Opens(d, <<>>)
  BY DEF Opens
<1>2. ASSUME NEW t, Len(t) = 1, t[1] = a PROVE Opens(d, t)
  BY <1>2 DEF Opens
<1>3. ASSUME NEW t, Len(t) = 1, t[1] = b PROVE Opens(d, t)
  BY <1>3 DEF Opens
<1>4. ASSUME NEW t, Len(t) = 2, t[1] = a, t[2] = b PROVE Opens(d, t)
  BY <1>4 DEF Opens
<1>5. Opens(d, <<a>>) /\ Opens(d, <<a, b>>)
  <2>1. Len(<<a>>) = 1 /\ <<a>>[1] = a /\ Len(<<a, b>>) = 2 /\ <<a, b>>[1] = a /\ <<a, b>>[2] = b
    OBVIOUS
  <2> QED BY <1>2, <1>4, <2>1
<1>6. Opens(d, <<>> \o <<>>)
  <2>1. Len(<<>> \o <<>>) = 0
    OBVIOUS
  <2> QED BY <2>1 DEF Opens
<1>7. Opens(d, <<>> \o <<b>>)
  <2>1. Len(<<>> \o <<b>>) = 1 /\ (<<>> \o <<b>>)[1] = b
    OBVIOUS
  <2> QED BY <1>3, <2>1
<1>8. Opens(d, <<a>> \o <<>>)
  <2>1. Len(<<a>> \o <<>>) = 1 /\ (<<a>> \o <<>>)[1] = a
    OBVIOUS
  <2> QED BY <1>2, <2>1
<1>9. Opens(d, <<a>> \o <<b>>)
  <2>1. Len(<<a>> \o <<b>>) = 2 /\ (<<a>> \o <<b>>)[1] = a /\ (<<a>> \o <<b>>)[2] = b
    OBVIOUS
  <2> QED BY <1>4, <2>1
<1> QED BY <1>1, <1>5, <1>6, <1>7, <1>8, <1>9

\* Every handler that opens a file looks whether it can (wfa_cs.c:593 to 3866).
LEMMA SystemOpens ==
  ASSUME NEW tag \in SystemTags, NEW d, NEW o \in gWfaCmdFuncTbl(tag, d)
  PROVE  Opens(d, o.steps)
<1> DEFINE i == Intf(d)
           opened   == Step("open", "none")
           upload   == Step("upload", "none")
           uploaded == Step("uploaded", "none")
           fault    == Step("fault", "none")
<1>1. /\ opened.op = "open" /\ upload.op = "upload" /\ uploaded.op \notin Opening /\ fault.op \notin Opening
      /\ Step("reassociate", i).op \notin Opening /\ Step("down", i).op \notin Opening /\ Step("up", i).op \notin Opening
  BY DEF Step, Opening
<1>2. /\ Opens(d, <<>>) /\ Opens(d, <<fault>>) /\ Opens(d, <<uploaded>>)
      /\ Opens(d, <<>> \o <<>>) /\ Opens(d, <<>> \o <<fault>>) /\ Opens(d, <<>> \o <<uploaded>>)
      /\ Opens(d, <<Step("reassociate", i)>>) /\ Opens(d, <<Step("down", i), Step("up", i)>>)
      /\ Opens(d, <<Step("down", i), Step("reassociate", i)>>)
  <2> HIDE DEF opened, upload, uploaded, fault
  <2> QED BY <1>1, ShortOpens
<1>3. d.room => Opens(d, <<opened>>) /\ Opens(d, <<opened>> \o <<>>) /\ Opens(d, <<opened>> \o <<fault>>)
  <2> HIDE DEF opened, upload, uploaded, fault
  <2> QED BY <1>1, ShortOpens
<1>4. d.room \/ d.uploading => Opens(d, <<upload>>) /\ Opens(d, <<upload>> \o <<uploaded>>)
  <2> HIDE DEF opened, upload, uploaded, fault
  <2> QED BY <1>1, ShortOpens
<1>5. ASSUME NEW x \in wfaStaIsConnected(d) PROVE Opens(d, x.steps)
  <2>1. x.steps = <<>> \/ (d.room /\ x.steps = <<opened>>)
    <3> DEFINE read == IF i = WFA_STAUT_IF THEN {IF d.connected THEN "1" ELSE "0"} ELSE {"0", "1"}
    <3>1. CASE d.room
      <4>1. \E c \in read : x = Outcome(<<opened>>, Global(14, "COMPLETE", [connected |-> c]))
        BY <3>1 DEF wfaStaIsConnected, Reads
      <4> HIDE DEF opened, read
      <4> QED BY <3>1, <4>1 DEF Outcome
    <3>2. CASE ~d.room
      BY <3>2 DEF wfaStaIsConnected, Reads, Only, Outcome
    <3> QED BY <3>1, <3>2
  <2> HIDE DEF opened
  <2> QED BY <1>2, <1>3, <2>1
<1>6. ASSUME NEW x \in wfaStaAssociate(d) \cup wfaStaSetMode(d) \cup wfaStaReAssociate(d) PROVE Opens(d, x.steps)
  <2>1. x.steps \in {<<>>, <<Step("reassociate", i)>>, <<Step("down", i), Step("up", i)>>,
                     <<Step("down", i), Step("reassociate", i)>>}
    BY DEF wfaStaAssociate, wfaStaSetMode, wfaStaReAssociate, Does, Outcome
  <2> QED BY <1>2, <2>1
<1>7. ASSUME NEW x \in wfaStaUpload(d) PROVE Opens(d, x.steps)
  <2>1. \/ x.steps \in {<<>>, <<uploaded>>, <<>> \o <<uploaded>>}
        \/ (d.room \/ d.uploading) /\ x.steps \in {<<upload>>, <<upload>> \o <<uploaded>>}
    BY DEF wfaStaUpload, Only, Does, Outcome
  <2> HIDE DEF upload, uploaded
  <2> QED BY <1>2, <1>4, <2>1
<1>8. ASSUME NEW x \in wfaStaPresetParams(d) PROVE Opens(d, x.steps)
  <2> DEFINE named == Parameter(d, "supplicant") \in {"Default", "WPA_Supplicant"}
             cli == "1" \in {Parameter(d, "wmmFlag"), Parameter(d, "modeFlag")}
             opens == IF named THEN <<opened>> ELSE <<>>
             done == IF cli THEN UNION {Presets(st) : st \in CliStatuses} ELSE Only(Complete(37))
  <2>1. \A y \in done : y.steps \in {<<>>, <<fault>>}
    <3>1. ASSUME NEW st \in CliStatuses, NEW y \in Presets(st) PROVE y.steps \in {<<>>, <<fault>>}
      BY DEF CliStatuses, Presets, Fault, Only, Does, Outcome
    <3>2. \A y \in Only(Complete(37)) : y.steps = <<>>
      BY DEF Only, Outcome
    <3> QED BY <3>1, <3>2
  <2>2. /\ opens \in {<<>>, <<opened>>}
        /\ \/ \E y \in done : x = Outcome(opens \o y.steps, y.resp)
           \/ \E steps \in {<<>>, opens} : x = Outcome(steps, <<>>)
        /\ named => d.room \/ x = Outcome(<<>>, <<>>)
    <3>1. named /\ ~d.room => x = Outcome(<<>>, <<>>)
      BY DEF wfaStaPresetParams, Only
    <3>2. \/ \E y \in done : x = Outcome(opens \o y.steps, y.resp)
          \/ \E steps \in {<<>>, opens} : x = Outcome(steps, <<>>)
      BY DEF wfaStaPresetParams, Only
    <3> QED BY <3>1, <3>2
  <2>3. ~named => opens = <<>>
    OBVIOUS
  <2> HIDE DEF named, opens, done, opened, fault
  <2>4. \/ x.steps \in {<<>>, opens}
        \/ x.steps \in {opens \o <<>>, opens \o <<fault>>}
    <3>1. CASE \E y \in done : x = Outcome(opens \o y.steps, y.resp)
      <4>1. PICK y \in done : x = Outcome(opens \o y.steps, y.resp)
        BY <3>1
      <4>2. x.steps = opens \o y.steps
        BY <4>1 DEF Outcome
      <4> QED BY <2>1, <4>2
    <3>2. CASE \E steps \in {<<>>, opens} : x = Outcome(steps, <<>>)
      BY <3>2 DEF Outcome
    <3> QED BY <2>2, <3>1, <3>2
  <2>5. x = Outcome(<<>>, <<>>) => x.steps = <<>>
    BY DEF Outcome
  <2>6. x.steps = <<>> \/ d.room \/ opens = <<>>
    BY <2>2, <2>3, <2>5
  <2>7. CASE opens = <<>>
    BY <1>2, <2>4, <2>7
  <2>8. CASE opens = <<opened>> /\ d.room
    BY <1>2, <1>3, <2>4, <2>8
  <2> QED BY <1>2, <2>2, <2>6, <2>7, <2>8
<1>9. ASSUME NEW x \in wfaStaCliCommand(d) PROVE Opens(d, x.steps)
  <2>1. x.steps \in {<<>>, <<fault>>} \/ (d.room /\ x.steps = <<opened>>)
    BY DEF wfaStaCliCommand, Fault, Only, Does, Outcome
  <2> HIDE DEF opened, fault
  <2> QED BY <1>2, <1>3, <2>1
<1>10. ASSUME NEW x \in Only(<<>>) \cup Fault PROVE Opens(d, x.steps)
  <2>1. x.steps \in {<<>>, <<fault>>}
    BY DEF Only, Fault, Does, Outcome
  <2> HIDE DEF fault
  <2> QED BY <1>2, <2>1
<1>11. /\ \A x \in wfaStaIsConnected(d) : Opens(d, x.steps)
       /\ \A x \in wfaStaAssociate(d) : Opens(d, x.steps)
       /\ \A x \in wfaStaSetMode(d) : Opens(d, x.steps)
       /\ \A x \in wfaStaReAssociate(d) : Opens(d, x.steps)
       /\ \A x \in wfaStaUpload(d) : Opens(d, x.steps)
       /\ \A x \in wfaStaPresetParams(d) : Opens(d, x.steps)
       /\ \A x \in wfaStaCliCommand(d) : Opens(d, x.steps)
       /\ \A x \in Only(<<>>) \cup Fault : Opens(d, x.steps)
  BY <1>5, <1>6, <1>7, <1>8, <1>9, <1>10
<1>12. /\ tag = 14 => o \in wfaStaIsConnected(d)
       /\ tag = 22 => o \in wfaStaAssociate(d)
       /\ tag = 31 => o \in wfaStaSetMode(d)
       /\ tag = 32 => o \in wfaStaUpload(d)
       /\ tag = 34 => o \in wfaStaReAssociate(d)
       /\ tag = 37 => o \in wfaStaPresetParams(d)
       /\ tag = 75 => o \in wfaStaCliCommand(d)
       /\ tag = 88 => o \in Only(<<>>) \cup Fault
  <2> HIDE DEF i, opened, upload, uploaded, fault
  <2> QED BY ZenonT(60), Rows
<1>13. tag \in {14, 22, 31, 32, 34, 37, 75, 88}
  BY DEF SystemTags
<1> HIDE DEF i, opened, upload, uploaded, fault
<1> QED BY <1>11, <1>12, <1>13


(* The handlers of the security commands *)

\* Values that are set whatever the parameters are.
Literals ==
  {"0", "1", "2", "3", "none", "NONE", "WPA-EAP", "WPA-FT", "WPA-SHA256", "WPA", "WPA2", "CCMP",
   "TLS", "TTLS", "SIM", "PEAP", "FAST", "AKA"}
Sayable(V, d) == Literals \subseteq V /\ Parameter(d, "ssid") \in V /\ \A k \in KeyNames : Parameter(d, k) \in V

\* The pieces that the security handlers put their settings together from.
LEMMA SettingPieces ==
  ASSUME NEW V, NEW d, Sayable(V, d), NEW type, NEW eap \in Literals, NEW taken
  PROVE  LET i == Intf(d)
             S == Seq(SetsOn(i, V))
         IN  /\ Ssid(d) \in S /\ Method(i, eap) \in S /\ NoKeys(i) \in S /\ Keys(d, i, taken) \in S
             /\ KeyMgmt(i, type, OnlyWpa) \in S /\ KeyMgmt(i, type, FourTypes) \in S
<1> DEFINE i == Intf(d)
           S == SetsOn(i, V)
<1>1. ASSUME NEW k \in Settings, NEW v \in V PROVE Set(i, k, v) \in S
  BY DEF SetsOn
<1>2. ASSUME NEW k \in Settings, NEW v \in Literals PROVE Set(i, k, v) \in S
  BY <1>1 DEF Sayable
<1> HIDE DEF S
<1>3. Ssid(d) \in Seq(S) /\ Method(i, eap) \in Seq(S)
  <2>1. Set(i, "ssid", Parameter(d, "ssid")) \in S
    BY <1>1 DEF Settings, Sayable
  <2>2. Set(i, "eap", eap) \in S /\ Set(i, "credentials", eap) \in S
    BY <1>2 DEF Settings
  <2> QED BY <2>1, <2>2 DEF Ssid, Method
<1>4. NoKeys(i) \in Seq(S)
  <2>1. /\ Set(i, "key1", "none") \in S /\ Set(i, "key2", "none") \in S
        /\ Set(i, "key3", "none") \in S /\ Set(i, "key4", "none") \in S
    BY <1>2 DEF Settings, Literals
  <2> QED BY <2>1 DEF NoKeys
<1>5. Keys(d, i, taken) \in Seq(S)
  <2> DEFINE key(k) == IF k \in taken THEN <<Set(i, k, Parameter(d, k))>> ELSE <<>>
             n == Parameter(d, "activeKey")
             active == [m \in {"0", "1", "2", "3"} |->
                          CASE m = "0" -> "key1" [] m = "1" -> "key2" [] m = "2" -> "key3" [] m = "3" -> "key4"]
             tx == IF n \in DOMAIN active /\ active[n] \in taken THEN <<Set(i, "tx", n)>> ELSE <<>>
  <2>1. ASSUME NEW k \in KeyNames PROVE key(k) \in Seq(S)
    <3>1. Set(i, k, Parameter(d, k)) \in S
      BY <1>1 DEF Sayable, KeyNames, Settings
    <3> QED BY <3>1
  <2>2. tx \in Seq(S)
    <3>1. n \in {"0", "1", "2", "3"} => Set(i, "tx", n) \in S
      BY <1>2 DEF Settings, Literals
    <3> QED BY <3>1
  <2>3. Keys(d, i, taken) = key("key1") \o key("key2") \o key("key3") \o key("key4") \o tx
    BY DEF Keys
  <2> HIDE DEF key, tx
  <2> QED BY <2>1, <2>2, <2>3 DEF KeyNames
<1>6. KeyMgmt(i, type, OnlyWpa) \in Seq(S) /\ KeyMgmt(i, type, FourTypes) \in Seq(S)
  <2>1. /\ KeyMgmt(i, type, OnlyWpa) \in {<<>>, <<Set(i, "key_mgmt", "WPA-EAP")>>}
        /\ KeyMgmt(i, type, FourTypes) \in {<<>>, <<Set(i, "key_mgmt", "WPA-EAP")>>,
                                            <<Set(i, "key_mgmt", "WPA-FT")>>, <<Set(i, "key_mgmt", "WPA-SHA256")>>}
    BY DEF KeyMgmt, OnlyWpa, FourTypes
  <2>2. /\ Set(i, "key_mgmt", "WPA-EAP") \in S /\ Set(i, "key_mgmt", "WPA-FT") \in S
        /\ Set(i, "key_mgmt", "WPA-SHA256") \in S
    BY <1>2 DEF Settings, Literals
  <2>3. /\ <<Set(i, "key_mgmt", "WPA-EAP")>> \in Seq(S) /\ <<Set(i, "key_mgmt", "WPA-FT")>> \in Seq(S)
        /\ <<Set(i, "key_mgmt", "WPA-SHA256")>> \in Seq(S) /\ <<>> \in Seq(S)
    BY <2>2
  <2> QED BY <2>1, <2>3
<1> QED BY <1>3, <1>4, <1>5, <1>6 DEF S

NetworkTags == {18, 20, 23, 25, 26, 38, 39}
NetworkOutcome(V, tag, d, o) ==
  /\ Answered(o.resp, tag)
  /\ \E t \in Seq(SetsOn(Intf(d), V)) : o.steps = Network(Intf(d), t)

\* Pieces of settings, one behind the other, are settings.
LEMMA Pieces ==
  ASSUME NEW S, NEW a \in Seq(S), NEW b \in Seq(S), NEW c \in Seq(S), NEW e \in Seq(S)
  PROVE  a \o b \in Seq(S) /\ a \o b \o c \in Seq(S) /\ a \o b \o c \o e \in Seq(S)
  OBVIOUS

\* Their answer.
LEMMA CompleteAnswered ==
  ASSUME NEW n \in NetworkTags \cup {24}
  PROVE  Answered(Complete(n), n)
<1> DEFINE r == Complete(n)[1]
<1>1. Complete(n) = <<r>> /\ r.tag = n /\ r.status = "COMPLETE" /\ r.whole
  BY DEF Complete, Global, Response
<1>2. AnswerTag(n) = n /\ n # 32
  BY DEF AnswerTag, NetworkTags
<1> HIDE DEF r
<1> QED BY <1>1, <1>2 DEF Answered, IsAnswer, Statuses

\* The security handlers configure the network between disabling and enabling it.
LEMMA NetworkHandlers ==
  ASSUME NEW V, NEW tag \in NetworkTags, NEW d, Sayable(V, d), NEW o \in gWfaCmdFuncTbl(tag, d)
  PROVE  NetworkOutcome(V, tag, d, o)
<1> DEFINE i == Intf(d)
           S == SetsOn(i, V)
<1>1. ASSUME NEW n \in NetworkTags, NEW t \in Seq(S), NEW x \in Does(Network(i, t), Complete(n))
      PROVE  NetworkOutcome(V, n, d, x)
  <2>1. x.steps = Network(i, t) /\ x.resp = Complete(n)
    BY <1>1 DEF Does, Outcome
  <2>2. Answered(Complete(n), n)
    BY CompleteAnswered
  <2> QED BY <2>1, <2>2 DEF NetworkOutcome
<1>2. ASSUME NEW k \in Settings, NEW v \in Literals PROVE Set(i, k, v) \in S
  BY DEF SetsOn, Sayable
<1>3. /\ Ssid(d) \in Seq(S) /\ NoKeys(i) \in Seq(S)
      /\ KeyMgmt(i, Type(d), OnlyWpa) \in Seq(S) /\ KeyMgmt(i, Type(d), FourTypes) \in Seq(S)
      /\ \A taken : Keys(d, i, taken) \in Seq(S)
  <2>1. "0" \in Literals
    BY DEF Literals
  <2> QED BY <2>1, SettingPieces
<1>4. ASSUME NEW eap \in {"TLS", "TTLS", "PEAP", "FAST", "AKA"} PROVE Method(i, eap) \in Seq(S)
  <2>1. eap \in Literals
    BY DEF Literals
  <2> QED BY <2>1, SettingPieces
<1> DEFINE open  == <<Set(i, "ssid", Parameter(d, "ssid")), Set(i, "mode", "0"), Set(i, "key_mgmt", "NONE")>>
           ibss  == <<Set(i, "mode", "1"), Set(i, "key_mgmt", "NONE")>>
           ieee  == <<Set(i, "key_mgmt", "WPA-EAP")>>
           proto == <<Set(i, "proto", "WPA")>>
           both  == <<Set(i, "proto", "WPA2"), Set(i, "proto", "CCMP")>>
<1>5. open \in Seq(S) /\ ibss \in Seq(S) /\ ieee \in Seq(S) /\ proto \in Seq(S) /\ both \in Seq(S) /\ <<>> \in Seq(S)
  <2>1. /\ Set(i, "mode", "0") \in S /\ Set(i, "mode", "1") \in S /\ Set(i, "key_mgmt", "NONE") \in S
        /\ Set(i, "key_mgmt", "WPA-EAP") \in S /\ Set(i, "proto", "WPA") \in S /\ Set(i, "proto", "WPA2") \in S
        /\ Set(i, "proto", "CCMP") \in S
    BY <1>2 DEF Settings, Literals
  <2>2. Set(i, "ssid", Parameter(d, "ssid")) \in S
    BY DEF SetsOn, Sayable, Settings
  <2> HIDE DEF S
  <2> QED BY <2>1, <2>2
<1> DEFINE wep   == Keys(d, i, KeysSet(d))
           five  == Keys(d, i, KeysNamed(d, {"5chars"}))
           keys  == IF Parameter(d, "encpType") = "wep" THEN wep ELSE NoKeys(i)
           taken == IF Parameter(d, "encpType") = "wep" THEN five ELSE <<>>
           eapol == KeyMgmt(i, Type(d), OnlyWpa)
           four  == KeyMgmt(i, Type(d), FourTypes)
           ssid  == Ssid(d)
<1>6. /\ wfaSetEncryption(d) = Does(Network(i, open \o keys), Complete(18))
      /\ wfaStaSetEapTLS(d) = Does(Network(i, ssid \o eapol \o proto \o Method(i, "TLS")), Complete(20))
      /\ wfaStaSetEapTTLS(d) = Does(Network(i, ssid \o ieee \o Method(i, "TTLS") \o proto), Complete(23))
      /\ wfaStaSetPEAP(d) = Does(Network(i, ssid \o Method(i, "PEAP") \o four), Complete(25))
      /\ wfaStaSetIBSS(d) = Does(Network(i, ssid \o ibss \o taken), Complete(26))
      /\ wfaStaSetEapFAST(d) = Does(Network(i, ssid \o eapol \o Method(i, "FAST")), Complete(38))
      /\ wfaStaSetEapAKA(d) = Does(Network(i, ssid \o eapol \o both \o Method(i, "AKA")), Complete(39))
  BY Zenon DEF wfaSetEncryption, wfaStaSetEapTLS, wfaStaSetEapTTLS, wfaStaSetPEAP, wfaStaSetIBSS, wfaStaSetEapFAST,
         wfaStaSetEapAKA
<1>7. keys \in Seq(S) /\ taken \in Seq(S) /\ eapol \in Seq(S) /\ four \in Seq(S) /\ ssid \in Seq(S)
  <2> HIDE DEF S, open, ibss, ieee, proto, both
  <2> QED BY <1>3, <1>5
<1> HIDE DEF open, ibss, ieee, proto, both, keys, taken, eapol, four, ssid, S
<1>8. /\ open \o keys \in Seq(S) /\ ssid \o ibss \o taken \in Seq(S)
      /\ ssid \o eapol \o proto \o Method(i, "TLS") \in Seq(S) /\ ssid \o ieee \o Method(i, "TTLS") \o proto \in Seq(S)
      /\ ssid \o Method(i, "PEAP") \o four \in Seq(S) /\ ssid \o eapol \o Method(i, "FAST") \in Seq(S)
      /\ ssid \o eapol \o both \o Method(i, "AKA") \in Seq(S)
  BY <1>4, <1>5, <1>7, Pieces
<1>9. /\ \A x \in wfaSetEncryption(d) : NetworkOutcome(V, 18, d, x)
      /\ \A x \in wfaStaSetEapTLS(d) : NetworkOutcome(V, 20, d, x)
      /\ \A x \in wfaStaSetEapTTLS(d) : NetworkOutcome(V, 23, d, x)
      /\ \A x \in wfaStaSetPEAP(d) : NetworkOutcome(V, 25, d, x)
      /\ \A x \in wfaStaSetIBSS(d) : NetworkOutcome(V, 26, d, x)
      /\ \A x \in wfaStaSetEapFAST(d) : NetworkOutcome(V, 38, d, x)
      /\ \A x \in wfaStaSetEapAKA(d) : NetworkOutcome(V, 39, d, x)
  <2>1. /\ 18 \in NetworkTags /\ 20 \in NetworkTags /\ 23 \in NetworkTags /\ 25 \in NetworkTags
        /\ 26 \in NetworkTags /\ 38 \in NetworkTags /\ 39 \in NetworkTags
    BY DEF NetworkTags
  <2> QED BY ZenonT(60), <1>1, <1>6, <1>8, <2>1
<1> QED BY <1>9, Rows DEF NetworkTags

\* wfaStaSetEapSIM sets the key management when the network is enabled again.
LEMMA SimHandler ==
  ASSUME NEW V, NEW d, Sayable(V, d), NEW o \in gWfaCmdFuncTbl(24, d)
  PROVE  LET i == Intf(d)
             t == Ssid(d) \o Method(i, "SIM") \o <<Set(i, "proto", "WPA")>>
             u == KeyMgmt(i, Type(d), FourTypes)
         IN  /\ Answered(o.resp, 24)
             /\ o.steps = Network(i, t) \o u
             /\ t \in Seq(SetsOn(i, V)) /\ u \in Seq(SetsOn(i, V))
<1> DEFINE i == Intf(d)
           S == SetsOn(i, V)
           proto == <<Set(i, "proto", "WPA")>>
           t == Ssid(d) \o Method(i, "SIM") \o proto
           u == KeyMgmt(i, Type(d), FourTypes)
<1>1. wfaStaSetEapSIM(d) = Does(Network(i, t) \o u, Complete(24))
  BY Zenon DEF wfaStaSetEapSIM
<1>2. o \in wfaStaSetEapSIM(d)
  BY Rows
<1>3. /\ Ssid(d) \in Seq(S) /\ Method(i, "SIM") \in Seq(S) /\ u \in Seq(S)
  <2>1. "SIM" \in Literals
    BY DEF Literals
  <2> QED BY <2>1, SettingPieces
<1>4. proto \in Seq(S)
  <2>1. Set(i, "proto", "WPA") \in S
    BY DEF SetsOn, Sayable, Settings, Literals
  <2> HIDE DEF S
  <2> QED BY <2>1
<1>5. t \in Seq(S)
  <2> HIDE DEF S, proto
  <2> QED BY <1>3, <1>4, Pieces
<1> HIDE DEF t, u, S
<1>6. o.steps = Network(i, t) \o u /\ o.resp = Complete(24)
  BY <1>1, <1>2 DEF Does, Outcome
<1>7. Answered(Complete(24), 24)
  BY CompleteAnswered
<1> QED BY <1>3, <1>5, <1>6, <1>7 DEF t, u, S, proto

(* What the agent says of a response *)

\* The tags of responses that have a handler of their own, among those of the commands.
OwnHandlers == {1, 10, 12, 14, 15, 16, 17, 18, 27, 28, 29, 32, 50, 53, 54, 60,
                62, 64, 65, 74, 75, 76, 79, 80, 81, 82, 83, 84}

\* The rows of the table of response handlers (wfa_ca_resp.c).
LEMMA ResponseRows ==
  ASSUME NEW r
  PROVE  /\ r.tag = 1 => wfaCmdRespProcFuncTbl(r) = wfaGetVersionResp(r)
         /\ r.tag = 10 => wfaCmdRespProcFuncTbl(r) = wfaStaGetIpConfigResp(r)
         /\ r.tag = 12 => wfaCmdRespProcFuncTbl(r) = wfaStaGetMacAddressResp(r)
         /\ r.tag = 14 => wfaCmdRespProcFuncTbl(r) = wfaStaIsConnectedResp(r)
         /\ r.tag = 15 => wfaCmdRespProcFuncTbl(r) = wfaStaVerifyIpConnectResp(r)
         /\ r.tag = 16 => wfaCmdRespProcFuncTbl(r) = wfaStaGetBSSIDResp(r)
         /\ r.tag = 17 => wfaCmdRespProcFuncTbl(r) = wfaStaGetStatsResp(r)
         /\ r.tag = 18 => wfaCmdRespProcFuncTbl(r) = wfaStaSetEncryptionResp(r)
         /\ r.tag = 27 => wfaCmdRespProcFuncTbl(r) = wfaStaGetInfoResp(r)
         /\ r.tag = 28 => wfaCmdRespProcFuncTbl(r) = wfaDeviceGetInfoResp(r)
         /\ r.tag = 29 => wfaCmdRespProcFuncTbl(r) = wfaDeviceListIFResp(r)
         /\ r.tag = 32 => wfaCmdRespProcFuncTbl(r) = wfaStaUploadResp(r)
         /\ r.tag = 50 => wfaCmdRespProcFuncTbl(r) = wfaStaGetP2pDevAddressResp(r)
         /\ r.tag = 53 => wfaCmdRespProcFuncTbl(r) = wfaStaStartAutoGO(r)
         /\ r.tag = 54 => wfaCmdRespProcFuncTbl(r) = wfaStaP2pStartGrpFormResp(r)
         /\ r.tag = 60 => wfaCmdRespProcFuncTbl(r) = wfaStaWpsReadPinResp(r)
         /\ r.tag = 62 => wfaCmdRespProcFuncTbl(r) = wfaStaGetPskResp(r)
         /\ r.tag = 64 => wfaCmdRespProcFuncTbl(r) = wfaStaWpsReadLabelResp(r)
         /\ r.tag = 65 => wfaCmdRespProcFuncTbl(r) = wfaStaGetP2pIpConfigResp(r)
         /\ r.tag = 74 => wfaCmdRespProcFuncTbl(r) = wfaStaStartWfdConnectionResp(r)
         /\ r.tag = 75 => wfaCmdRespProcFuncTbl(r) = wfaStaCliCmdResp(r)
         /\ r.tag = 76 => wfaCmdRespProcFuncTbl(r) = wfaStaConnectGoStartWfdResp(r)
         /\ r.tag = 79 => wfaCmdRespProcFuncTbl(r) = wfaStaGetParameterResp(r)
         /\ r.tag = 80 => wfaCmdRespProcFuncTbl(r) = wfaStaNfcActionResp(r)
         /\ r.tag = 81 => wfaCmdRespProcFuncTbl(r) = wfaStaInvokeCommandResp(r)
         /\ r.tag = 82 => wfaCmdRespProcFuncTbl(r) = wfaStaManageServiceResp(r)
         /\ r.tag = 83 => wfaCmdRespProcFuncTbl(r) = wfaStaGetEventsResp(r)
         /\ r.tag = 84 => wfaCmdRespProcFuncTbl(r) = wfaStaGetEventDataResp(r)
         /\ r.tag \in Tags \ OwnHandlers => wfaCmdRespProcFuncTbl(r) = wfaStaGenericResp(r)
<1>1. r.tag = 1 => wfaCmdRespProcFuncTbl(r) = wfaGetVersionResp(r)
  BY DEF wfaCmdRespProcFuncTbl
<1>10. r.tag = 10 => wfaCmdRespProcFuncTbl(r) = wfaStaGetIpConfigResp(r)
  BY DEF wfaCmdRespProcFuncTbl
<1>12. r.tag = 12 => wfaCmdRespProcFuncTbl(r) = wfaStaGetMacAddressResp(r)
  BY DEF wfaCmdRespProcFuncTbl
<1>14. r.tag = 14 => wfaCmdRespProcFuncTbl(r) = wfaStaIsConnectedResp(r)
  BY DEF wfaCmdRespProcFuncTbl
<1>15. r.tag = 15 => wfaCmdRespProcFuncTbl(r) = wfaStaVerifyIpConnectResp(r)
  BY DEF wfaCmdRespProcFuncTbl
<1>16. r.tag = 16 => wfaCmdRespProcFuncTbl(r) = wfaStaGetBSSIDResp(r)
  BY DEF wfaCmdRespProcFuncTbl
<1>17. r.tag = 17 => wfaCmdRespProcFuncTbl(r) = wfaStaGetStatsResp(r)
  BY DEF wfaCmdRespProcFuncTbl
<1>18. r.tag = 18 => wfaCmdRespProcFuncTbl(r) = wfaStaSetEncryptionResp(r)
  BY DEF wfaCmdRespProcFuncTbl
<1>27. r.tag = 27 => wfaCmdRespProcFuncTbl(r) = wfaStaGetInfoResp(r)
  BY DEF wfaCmdRespProcFuncTbl
<1>28. r.tag = 28 => wfaCmdRespProcFuncTbl(r) = wfaDeviceGetInfoResp(r)
  BY DEF wfaCmdRespProcFuncTbl
<1>29. r.tag = 29 => wfaCmdRespProcFuncTbl(r) = wfaDeviceListIFResp(r)
  BY DEF wfaCmdRespProcFuncTbl
<1>32. r.tag = 32 => wfaCmdRespProcFuncTbl(r) = wfaStaUploadResp(r)
  BY DEF wfaCmdRespProcFuncTbl
<1>50. r.tag = 50 => wfaCmdRespProcFuncTbl(r) = wfaStaGetP2pDevAddressResp(r)
  BY DEF wfaCmdRespProcFuncTbl
<1>53. r.tag = 53 => wfaCmdRespProcFuncTbl(r) = wfaStaStartAutoGO(r)
  BY DEF wfaCmdRespProcFuncTbl
<1>54. r.tag = 54 => wfaCmdRespProcFuncTbl(r) = wfaStaP2pStartGrpFormResp(r)
  BY DEF wfaCmdRespProcFuncTbl
<1>60. r.tag = 60 => wfaCmdRespProcFuncTbl(r) = wfaStaWpsReadPinResp(r)
  BY DEF wfaCmdRespProcFuncTbl
<1>62. r.tag = 62 => wfaCmdRespProcFuncTbl(r) = wfaStaGetPskResp(r)
  BY DEF wfaCmdRespProcFuncTbl
<1>64. r.tag = 64 => wfaCmdRespProcFuncTbl(r) = wfaStaWpsReadLabelResp(r)
  BY DEF wfaCmdRespProcFuncTbl
<1>65. r.tag = 65 => wfaCmdRespProcFuncTbl(r) = wfaStaGetP2pIpConfigResp(r)
  BY DEF wfaCmdRespProcFuncTbl
<1>74. r.tag = 74 => wfaCmdRespProcFuncTbl(r) = wfaStaStartWfdConnectionResp(r)
  BY DEF wfaCmdRespProcFuncTbl
<1>75. r.tag = 75 => wfaCmdRespProcFuncTbl(r) = wfaStaCliCmdResp(r)
  BY DEF wfaCmdRespProcFuncTbl
<1>76. r.tag = 76 => wfaCmdRespProcFuncTbl(r) = wfaStaConnectGoStartWfdResp(r)
  BY DEF wfaCmdRespProcFuncTbl
<1>79. r.tag = 79 => wfaCmdRespProcFuncTbl(r) = wfaStaGetParameterResp(r)
  BY DEF wfaCmdRespProcFuncTbl
<1>80. r.tag = 80 => wfaCmdRespProcFuncTbl(r) = wfaStaNfcActionResp(r)
  BY DEF wfaCmdRespProcFuncTbl
<1>81. r.tag = 81 => wfaCmdRespProcFuncTbl(r) = wfaStaInvokeCommandResp(r)
  BY DEF wfaCmdRespProcFuncTbl
<1>82. r.tag = 82 => wfaCmdRespProcFuncTbl(r) = wfaStaManageServiceResp(r)
  BY DEF wfaCmdRespProcFuncTbl
<1>83. r.tag = 83 => wfaCmdRespProcFuncTbl(r) = wfaStaGetEventsResp(r)
  BY DEF wfaCmdRespProcFuncTbl
<1>84. r.tag = 84 => wfaCmdRespProcFuncTbl(r) = wfaStaGetEventDataResp(r)
  BY DEF wfaCmdRespProcFuncTbl
<1>100. r.tag \in Tags \ OwnHandlers => wfaCmdRespProcFuncTbl(r) = wfaStaGenericResp(r)
  BY DEF wfaCmdRespProcFuncTbl, Tags, OwnHandlers
<1> QED BY <1>1, <1>10, <1>12, <1>14, <1>15, <1>16, <1>17, <1>18, <1>27, <1>28, <1>29, <1>32,
           <1>50, <1>53, <1>54, <1>60, <1>62, <1>64, <1>65, <1>74, <1>75, <1>76, <1>79, <1>80,
           <1>81, <1>82, <1>83, <1>84, <1>100

\* An answer of a handler: by it, silent only about what is still running, and with values
\* of the response.
Fits(a, by, r) ==
  /\ a.by = by /\ a.word \in {"", "COMPLETE", "ERROR", "INVALID"}
  /\ a.word = "" => r.status = "RUNNING" \/ (r.tag = 32 /\ r.status \notin {"COMPLETE", "ERROR"})
  /\ \A k \in DOMAIN a.data : a.data[k] = "none" \/ a.data[k] = Value(r, k)
AllFit(answers, by, r) == answers # {} /\ \A a \in answers : Fits(a, by, r)

\* An answer without values.
LEMMA NoDataFits ==
  ASSUME NEW by, NEW r, NEW word \in {"", "COMPLETE", "ERROR", "INVALID"}, word # "" \/ r.status = "RUNNING"
  PROVE  Fits(Answer(by, word, NoData), by, r) /\ DOMAIN Answer(by, word, NoData).data = {}
<1> DEFINE a == Answer(by, word, NoData)
<1>1. a.by = by /\ a.word = word /\ a.data = NoData
  BY DEF Answer
<1>2. DOMAIN NoData = {}
  BY DEF NoData
<1> HIDE DEF a
<1> QED BY <1>1, <1>2 DEF Fits, a

\* An answer with values of the response.
LEMMA DataFits ==
  ASSUME NEW by, NEW r, NEW ks, NEW word \in {"COMPLETE", "ERROR", "INVALID"}
  PROVE  Fits(Answer(by, word, Data(r, ks)), by, r)
<1> DEFINE a == Answer(by, word, Data(r, ks))
<1>1. a.by = by /\ a.word = word /\ a.data = Data(r, ks)
  BY DEF Answer
<1>2. DOMAIN Data(r, ks) = ks /\ \A k \in ks : Data(r, ks)[k] = Value(r, k)
  BY DEF Data
<1> HIDE DEF a
<1> QED BY <1>1, <1>2 DEF Fits, a

\* The switch over the status.
LEMMA SaysFits ==
  ASSUME NEW by, NEW r, NEW ks, NEW error \in {"ERROR", "INVALID"}
  PROVE  AllFit(Says(by, r, ks, error), by, r) /\ \A a \in Says(by, r, ks, error) : DOMAIN a.data \subseteq ks
<1> DEFINE a == CASE r.status = "RUNNING"  -> Answer(by, "", NoData)
                  [] r.status = "COMPLETE" -> Answer(by, "COMPLETE", Data(r, ks))
                  [] r.status = "ERROR"    -> Answer(by, error, NoData)
                  [] OTHER                 -> Answer(by, "INVALID", NoData)
<1>1. Says(by, r, ks, error) = {a}
  BY Zenon DEF Says
<1>2. CASE r.status = "RUNNING"
  <2>1. a = Answer(by, "", NoData)
    BY <1>2
  <2>2. Fits(a, by, r) /\ DOMAIN a.data \subseteq ks
    BY <1>2, <2>1, NoDataFits
  <2> HIDE DEF a
  <2> QED BY <1>1, <2>2 DEF AllFit
<1>3. CASE r.status = "COMPLETE"
  <2>1. a = Answer(by, "COMPLETE", Data(r, ks))
    BY <1>3
  <2> HIDE DEF a
  <2>2. Fits(Answer(by, "COMPLETE", Data(r, ks)), by, r) /\ DOMAIN Answer(by, "COMPLETE", Data(r, ks)).data = ks
    <3>1. Fits(Answer(by, "COMPLETE", Data(r, ks)), by, r)
      BY DataFits
    <3>2. DOMAIN Answer(by, "COMPLETE", Data(r, ks)).data = ks
      BY DEF Answer, Data
    <3> QED BY <3>1, <3>2
  <2>3. Fits(a, by, r) /\ DOMAIN a.data = ks
    BY Zenon, <2>1, <2>2
  <2> QED BY <1>1, <2>3 DEF AllFit
<1>4. CASE r.status = "ERROR"
  <2>1. a = Answer(by, error, NoData)
    BY <1>4
  <2>2. Fits(a, by, r) /\ DOMAIN a.data \subseteq ks
    BY <2>1, NoDataFits
  <2> HIDE DEF a
  <2> QED BY <1>1, <2>2 DEF AllFit
<1>5. CASE r.status \notin {"RUNNING", "COMPLETE", "ERROR"}
  <2>1. a = Answer(by, "INVALID", NoData)
    BY <1>5
  <2>2. Fits(a, by, r) /\ DOMAIN a.data \subseteq ks
    BY <2>1, NoDataFits
  <2> HIDE DEF a
  <2> QED BY <1>1, <2>2 DEF AllFit
<1> QED BY <1>2, <1>3, <1>4, <1>5

\* Every handler answers for itself.
LEMMA HandlersFit ==
  ASSUME NEW r
  PROVE  /\ AllFit(wfaGetVersionResp(r), "wfaGetVersionResp", r)
         /\ AllFit(wfaStaGetIpConfigResp(r), "wfaStaGetIpConfigResp", r)
         /\ AllFit(wfaStaGetMacAddressResp(r), "wfaStaGetMacAddressResp", r)
         /\ AllFit(wfaStaIsConnectedResp(r), "wfaStaIsConnectedResp", r)
         /\ AllFit(wfaStaVerifyIpConnectResp(r), "wfaStaVerifyIpConnectResp", r)
         /\ AllFit(wfaStaGetBSSIDResp(r), "wfaStaGetBSSIDResp", r)
         /\ AllFit(wfaStaGetStatsResp(r), "wfaStaGetStatsResp", r)
         /\ AllFit(wfaStaSetEncryptionResp(r), "wfaStaSetEncryptionResp", r)
         /\ AllFit(wfaStaGetInfoResp(r), "wfaStaGetInfoResp", r)
         /\ AllFit(wfaDeviceGetInfoResp(r), "wfaDeviceGetInfoResp", r)
         /\ AllFit(wfaDeviceListIFResp(r), "wfaDeviceListIFResp", r)
         /\ r.tag = 32 => AllFit(wfaStaUploadResp(r), "wfaStaUploadResp", r)
         /\ AllFit(wfaStaGetP2pDevAddressResp(r), "wfaStaGetP2pDevAddressResp", r)
         /\ AllFit(wfaStaStartAutoGO(r), "wfaStaStartAutoGO", r)
         /\ AllFit(wfaStaP2pStartGrpFormResp(r), "wfaStaP2pStartGrpFormResp", r)
         /\ AllFit(wfaStaWpsReadPinResp(r), "wfaStaWpsReadPinResp", r)
         /\ AllFit(wfaStaGetPskResp(r), "wfaStaGetPskResp", r)
         /\ AllFit(wfaStaWpsReadLabelResp(r), "wfaStaWpsReadLabelResp", r)
         /\ AllFit(wfaStaGetP2pIpConfigResp(r), "wfaStaGetP2pIpConfigResp", r)
         /\ AllFit(wfaStaStartWfdConnectionResp(r), "wfaStaStartWfdConnectionResp", r)
         /\ AllFit(wfaStaCliCmdResp(r), "wfaStaCliCmdResp", r)
         /\ AllFit(wfaStaConnectGoStartWfdResp(r), "wfaStaConnectGoStartWfdResp", r)
         /\ AllFit(wfaStaGetParameterResp(r), "wfaStaGetParameterResp", r)
         /\ AllFit(wfaStaNfcActionResp(r), "wfaStaNfcActionResp", r)
         /\ AllFit(wfaStaInvokeCommandResp(r), "wfaStaInvokeCommandResp", r)
         /\ AllFit(wfaStaManageServiceResp(r), "wfaStaManageServiceResp", r)
         /\ AllFit(wfaStaGetEventsResp(r), "wfaStaGetEventsResp", r)
         /\ AllFit(wfaStaGetEventDataResp(r), "wfaStaGetEventDataResp", r)
         /\ AllFit(wfaStaGenericResp(r), "wfaStaGenericResp", r)
<1>1. AllFit(wfaGetVersionResp(r), "wfaGetVersionResp", r)
  BY SaysFits DEF wfaGetVersionResp
<1>10. AllFit(wfaStaGetIpConfigResp(r), "wfaStaGetIpConfigResp", r)
  BY SaysFits DEF wfaStaGetIpConfigResp
<1>14. AllFit(wfaStaIsConnectedResp(r), "wfaStaIsConnectedResp", r)
  BY SaysFits DEF wfaStaIsConnectedResp
<1>15. AllFit(wfaStaVerifyIpConnectResp(r), "wfaStaVerifyIpConnectResp", r)
  BY SaysFits DEF wfaStaVerifyIpConnectResp
<1>17. AllFit(wfaStaGetStatsResp(r), "wfaStaGetStatsResp", r)
  BY SaysFits DEF wfaStaGetStatsResp
<1>18. AllFit(wfaStaSetEncryptionResp(r), "wfaStaSetEncryptionResp", r)
  BY SaysFits DEF wfaStaSetEncryptionResp
<1>27. AllFit(wfaStaGetInfoResp(r), "wfaStaGetInfoResp", r)
  BY SaysFits DEF wfaStaGetInfoResp
<1>28. AllFit(wfaDeviceGetInfoResp(r), "wfaDeviceGetInfoResp", r)
  BY SaysFits DEF wfaDeviceGetInfoResp
<1>29. AllFit(wfaDeviceListIFResp(r), "wfaDeviceListIFResp", r)
  BY SaysFits DEF wfaDeviceListIFResp
<1>50. AllFit(wfaStaGetP2pDevAddressResp(r), "wfaStaGetP2pDevAddressResp", r)
  BY SaysFits DEF wfaStaGetP2pDevAddressResp
<1>53. AllFit(wfaStaStartAutoGO(r), "wfaStaStartAutoGO", r)
  BY SaysFits DEF wfaStaStartAutoGO
<1>54. AllFit(wfaStaP2pStartGrpFormResp(r), "wfaStaP2pStartGrpFormResp", r)
  BY SaysFits DEF wfaStaP2pStartGrpFormResp
<1>60. AllFit(wfaStaWpsReadPinResp(r), "wfaStaWpsReadPinResp", r)
  BY SaysFits DEF wfaStaWpsReadPinResp
<1>62. AllFit(wfaStaGetPskResp(r), "wfaStaGetPskResp", r)
  BY SaysFits DEF wfaStaGetPskResp
<1>64. AllFit(wfaStaWpsReadLabelResp(r), "wfaStaWpsReadLabelResp", r)
  BY SaysFits DEF wfaStaWpsReadLabelResp
<1>65. AllFit(wfaStaGetP2pIpConfigResp(r), "wfaStaGetP2pIpConfigResp", r)
  BY SaysFits DEF wfaStaGetP2pIpConfigResp
<1>74. AllFit(wfaStaStartWfdConnectionResp(r), "wfaStaStartWfdConnectionResp", r)
  BY SaysFits DEF wfaStaStartWfdConnectionResp
<1>76. AllFit(wfaStaConnectGoStartWfdResp(r), "wfaStaConnectGoStartWfdResp", r)
  BY SaysFits DEF wfaStaConnectGoStartWfdResp
<1>80. AllFit(wfaStaNfcActionResp(r), "wfaStaNfcActionResp", r)
  BY SaysFits DEF wfaStaNfcActionResp
<1>82. AllFit(wfaStaManageServiceResp(r), "wfaStaManageServiceResp", r)
  BY SaysFits DEF wfaStaManageServiceResp
<1>83. AllFit(wfaStaGetEventsResp(r), "wfaStaGetEventsResp", r)
  BY SaysFits DEF wfaStaGetEventsResp
<1>100. AllFit(wfaStaGenericResp(r), "wfaStaGenericResp", r)
  BY SaysFits DEF wfaStaGenericResp
<1>12. ASSUME NEW by, NEW k PROVE AllFit(ZeroAddress(by, r, k), by, r)
  <2>1. CASE r.status = "RUNNING"
    <3>1. ZeroAddress(by, r, k) = {Answer(by, "", NoData)}
      BY <2>1 DEF ZeroAddress
    <3> QED BY <2>1, <3>1, NoDataFits DEF AllFit
  <2>2. CASE r.status = "COMPLETE"
    <3>1. ZeroAddress(by, r, k) = {Answer(by, "COMPLETE", Data(r, {k}))}
      BY <2>2 DEF ZeroAddress
    <3>2. Fits(Answer(by, "COMPLETE", Data(r, {k})), by, r)
      BY DataFits
    <3> QED BY <3>1, <3>2 DEF AllFit
  <2>3. CASE r.status \notin {"RUNNING", "COMPLETE"}
    <3>1. ZeroAddress(by, r, k) = {Answer(by, "COMPLETE", [mac |-> "none"])}
      BY <2>3 DEF ZeroAddress
    <3>2. Fits(Answer(by, "COMPLETE", [mac |-> "none"]), by, r)
      BY DEF Fits, Answer
    <3> QED BY <3>1, <3>2 DEF AllFit
  <2> QED BY <2>1, <2>2, <2>3
<1>16. AllFit(wfaStaGetMacAddressResp(r), "wfaStaGetMacAddressResp", r) /\ AllFit(wfaStaGetBSSIDResp(r), "wfaStaGetBSSIDResp", r)
  BY <1>12 DEF wfaStaGetMacAddressResp, wfaStaGetBSSIDResp
<1>32. r.tag = 32 => AllFit(wfaStaUploadResp(r), "wfaStaUploadResp", r)
  <2>1. CASE r.status \in {"COMPLETE", "ERROR"}
    BY <2>1, SaysFits DEF wfaStaUploadResp
  <2>2. CASE r.tag = 32 /\ r.status \notin {"COMPLETE", "ERROR"}
    <3> DEFINE a == Answer("wfaStaUploadResp", "", NoData)
    <3>1. wfaStaUploadResp(r) = {a}
      BY <2>2 DEF wfaStaUploadResp
    <3>2. a.by = "wfaStaUploadResp" /\ a.word = "" /\ DOMAIN a.data = {}
      BY DEF Answer, NoData
    <3> HIDE DEF a
    <3> QED BY <2>2, <3>1, <3>2 DEF AllFit, Fits
  <2> QED BY <2>1, <2>2
<1>2. ASSUME NEW k, NEW values, values # {} PROVE Branches(r, k, values) # {}
  BY <1>2 DEF Branches
<1>75. AllFit(wfaStaCliCmdResp(r), "wfaStaCliCmdResp", r)
  <2> DEFINE B == Branches(r, "resFlag", {"0", "1"})
             F == [flag \in B |-> Says("wfaStaCliCmdResp", r, IF flag = "1" THEN {"result"} ELSE {}, "ERROR")]
  <2>1. B # {}
    BY <1>2
  <2>2. ASSUME NEW b \in B PROVE AllFit(F[b], "wfaStaCliCmdResp", r)
    BY SaysFits
  <2>3. wfaStaCliCmdResp(r) = UNION {F[b] : b \in B}
    BY DEF wfaStaCliCmdResp
  <2> HIDE DEF B, F
  <2> QED BY <2>1, <2>2, <2>3 DEF AllFit
<1>79. AllFit(wfaStaGetParameterResp(r), "wfaStaGetParameterResp", r)
  <2> DEFINE B == Branches(r, "getParamType", ParameterTypes)
             ks(type) == CASE type = "other" -> {} [] type = "eMasterPref" -> {"masterPref"} [] OTHER -> {"devList"}
             F == [type \in B |-> Says("wfaStaGetParameterResp", r, ks(type), "INVALID")]
  <2>1. B # {}
    BY <1>2 DEF ParameterTypes
  <2> HIDE DEF ks
  <2>2. ASSUME NEW b \in B PROVE AllFit(F[b], "wfaStaGetParameterResp", r)
    BY SaysFits
  <2>3. wfaStaGetParameterResp(r) = UNION {F[b] : b \in B}
    BY DEF wfaStaGetParameterResp, ks
  <2> HIDE DEF B, F
  <2> QED BY <2>1, <2>2, <2>3 DEF AllFit
<1>81. AllFit(wfaStaInvokeCommandResp(r), "wfaStaInvokeCommandResp", r)
  <2> DEFINE B == Branches(r, "invokeCmdRspType", PrimitiveResponses)
             fields == [Advertise |-> {"servName", "advtID", "serviceMac"}, Seek |-> {"searchID"},
                        ConnectSession |-> {"sessionID", "result", "grpId"}, Session |-> {}]
             F == [type \in B |-> IF type = "other" THEN {Answer("wfaStaInvokeCommandResp", "INVALID", NoData)}
                                  ELSE Says("wfaStaInvokeCommandResp", r, fields[type], "INVALID")]
  <2>1. B # {}
    BY <1>2 DEF PrimitiveResponses
  <2> HIDE DEF fields
  <2>2. ASSUME NEW b \in B PROVE AllFit(F[b], "wfaStaInvokeCommandResp", r)
    <3>1. AllFit({Answer("wfaStaInvokeCommandResp", "INVALID", NoData)}, "wfaStaInvokeCommandResp", r)
      BY NoDataFits DEF AllFit
    <3> QED BY <3>1, SaysFits
  <2>3. wfaStaInvokeCommandResp(r) = UNION {F[b] : b \in B}
    BY DEF wfaStaInvokeCommandResp, fields
  <2> HIDE DEF B, F
  <2> QED BY <2>1, <2>2, <2>3 DEF AllFit
<1>84. AllFit(wfaStaGetEventDataResp(r), "wfaStaGetEventDataResp", r)
  <2> DEFINE B == Branches(r, "eventID", EventTypes)
             F == [type \in B |-> IF type = "other" THEN {Answer("wfaStaGetEventDataResp", "INVALID", NoData)}
                                  ELSE Says("wfaStaGetEventDataResp", r, EventFields(type), "INVALID")]
  <2>1. B # {}
    BY <1>2 DEF EventTypes
  <2>2. ASSUME NEW b \in B PROVE AllFit(F[b], "wfaStaGetEventDataResp", r)
    <3>1. AllFit({Answer("wfaStaGetEventDataResp", "INVALID", NoData)}, "wfaStaGetEventDataResp", r)
      BY NoDataFits DEF AllFit
    <3> QED BY <3>1, SaysFits
  <2>3. wfaStaGetEventDataResp(r) = UNION {F[b] : b \in B}
    BY DEF wfaStaGetEventDataResp
  <2> HIDE DEF B, F
  <2> QED BY <2>1, <2>2, <2>3 DEF AllFit
<1> QED BY <1>1, <1>10, <1>14, <1>15, <1>17, <1>18, <1>27, <1>28, <1>29, <1>50, <1>53, <1>54,
           <1>60, <1>62, <1>64, <1>65, <1>74, <1>76, <1>80, <1>82, <1>83, <1>100, <1>16, <1>32,
           <1>75, <1>79, <1>81, <1>84

\* The answers to a command are all made by one handler.
LEMMA Printers ==
  ASSUME NEW tag \in Tags
  PROVE  \E by : \A r : r.tag = tag => AllFit(wfaCmdRespProcFuncTbl(r), by, r)
<1>1. CASE tag = 1
  <2>1. \A r : r.tag = 1 => AllFit(wfaCmdRespProcFuncTbl(r), "wfaGetVersionResp", r)
    BY ResponseRows, HandlersFit
  <2> QED BY <1>1, <2>1
<1>10. CASE tag = 10
  <2>1. \A r : r.tag = 10 => AllFit(wfaCmdRespProcFuncTbl(r), "wfaStaGetIpConfigResp", r)
    BY ResponseRows, HandlersFit
  <2> QED BY <1>10, <2>1
<1>12. CASE tag = 12
  <2>1. \A r : r.tag = 12 => AllFit(wfaCmdRespProcFuncTbl(r), "wfaStaGetMacAddressResp", r)
    BY ResponseRows, HandlersFit
  <2> QED BY <1>12, <2>1
<1>14. CASE tag = 14
  <2>1. \A r : r.tag = 14 => AllFit(wfaCmdRespProcFuncTbl(r), "wfaStaIsConnectedResp", r)
    BY ResponseRows, HandlersFit
  <2> QED BY <1>14, <2>1
<1>15. CASE tag = 15
  <2>1. \A r : r.tag = 15 => AllFit(wfaCmdRespProcFuncTbl(r), "wfaStaVerifyIpConnectResp", r)
    BY ResponseRows, HandlersFit
  <2> QED BY <1>15, <2>1
<1>16. CASE tag = 16
  <2>1. \A r : r.tag = 16 => AllFit(wfaCmdRespProcFuncTbl(r), "wfaStaGetBSSIDResp", r)
    BY ResponseRows, HandlersFit
  <2> QED BY <1>16, <2>1
<1>17. CASE tag = 17
  <2>1. \A r : r.tag = 17 => AllFit(wfaCmdRespProcFuncTbl(r), "wfaStaGetStatsResp", r)
    BY ResponseRows, HandlersFit
  <2> QED BY <1>17, <2>1
<1>18. CASE tag = 18
  <2>1. \A r : r.tag = 18 => AllFit(wfaCmdRespProcFuncTbl(r), "wfaStaSetEncryptionResp", r)
    BY ResponseRows, HandlersFit
  <2> QED BY <1>18, <2>1
<1>27. CASE tag = 27
  <2>1. \A r : r.tag = 27 => AllFit(wfaCmdRespProcFuncTbl(r), "wfaStaGetInfoResp", r)
    BY ResponseRows, HandlersFit
  <2> QED BY <1>27, <2>1
<1>28. CASE tag = 28
  <2>1. \A r : r.tag = 28 => AllFit(wfaCmdRespProcFuncTbl(r), "wfaDeviceGetInfoResp", r)
    BY ResponseRows, HandlersFit
  <2> QED BY <1>28, <2>1
<1>29. CASE tag = 29
  <2>1. \A r : r.tag = 29 => AllFit(wfaCmdRespProcFuncTbl(r), "wfaDeviceListIFResp", r)
    BY ResponseRows, HandlersFit
  <2> QED BY <1>29, <2>1
<1>32. CASE tag = 32
  <2>1. \A r : r.tag = 32 => AllFit(wfaCmdRespProcFuncTbl(r), "wfaStaUploadResp", r)
    BY ResponseRows, HandlersFit
  <2> QED BY <1>32, <2>1
<1>50. CASE tag = 50
  <2>1. \A r : r.tag = 50 => AllFit(wfaCmdRespProcFuncTbl(r), "wfaStaGetP2pDevAddressResp", r)
    BY ResponseRows, HandlersFit
  <2> QED BY <1>50, <2>1
<1>53. CASE tag = 53
  <2>1. \A r : r.tag = 53 => AllFit(wfaCmdRespProcFuncTbl(r), "wfaStaStartAutoGO", r)
    BY ResponseRows, HandlersFit
  <2> QED BY <1>53, <2>1
<1>54. CASE tag = 54
  <2>1. \A r : r.tag = 54 => AllFit(wfaCmdRespProcFuncTbl(r), "wfaStaP2pStartGrpFormResp", r)
    BY ResponseRows, HandlersFit
  <2> QED BY <1>54, <2>1
<1>60. CASE tag = 60
  <2>1. \A r : r.tag = 60 => AllFit(wfaCmdRespProcFuncTbl(r), "wfaStaWpsReadPinResp", r)
    BY ResponseRows, HandlersFit
  <2> QED BY <1>60, <2>1
<1>62. CASE tag = 62
  <2>1. \A r : r.tag = 62 => AllFit(wfaCmdRespProcFuncTbl(r), "wfaStaGetPskResp", r)
    BY ResponseRows, HandlersFit
  <2> QED BY <1>62, <2>1
<1>64. CASE tag = 64
  <2>1. \A r : r.tag = 64 => AllFit(wfaCmdRespProcFuncTbl(r), "wfaStaWpsReadLabelResp", r)
    BY ResponseRows, HandlersFit
  <2> QED BY <1>64, <2>1
<1>65. CASE tag = 65
  <2>1. \A r : r.tag = 65 => AllFit(wfaCmdRespProcFuncTbl(r), "wfaStaGetP2pIpConfigResp", r)
    BY ResponseRows, HandlersFit
  <2> QED BY <1>65, <2>1
<1>74. CASE tag = 74
  <2>1. \A r : r.tag = 74 => AllFit(wfaCmdRespProcFuncTbl(r), "wfaStaStartWfdConnectionResp", r)
    BY ResponseRows, HandlersFit
  <2> QED BY <1>74, <2>1
<1>75. CASE tag = 75
  <2>1. \A r : r.tag = 75 => AllFit(wfaCmdRespProcFuncTbl(r), "wfaStaCliCmdResp", r)
    BY ResponseRows, HandlersFit
  <2> QED BY <1>75, <2>1
<1>76. CASE tag = 76
  <2>1. \A r : r.tag = 76 => AllFit(wfaCmdRespProcFuncTbl(r), "wfaStaConnectGoStartWfdResp", r)
    BY ResponseRows, HandlersFit
  <2> QED BY <1>76, <2>1
<1>79. CASE tag = 79
  <2>1. \A r : r.tag = 79 => AllFit(wfaCmdRespProcFuncTbl(r), "wfaStaGetParameterResp", r)
    BY ResponseRows, HandlersFit
  <2> QED BY <1>79, <2>1
<1>80. CASE tag = 80
  <2>1. \A r : r.tag = 80 => AllFit(wfaCmdRespProcFuncTbl(r), "wfaStaNfcActionResp", r)
    BY ResponseRows, HandlersFit
  <2> QED BY <1>80, <2>1
<1>81. CASE tag = 81
  <2>1. \A r : r.tag = 81 => AllFit(wfaCmdRespProcFuncTbl(r), "wfaStaInvokeCommandResp", r)
    BY ResponseRows, HandlersFit
  <2> QED BY <1>81, <2>1
<1>82. CASE tag = 82
  <2>1. \A r : r.tag = 82 => AllFit(wfaCmdRespProcFuncTbl(r), "wfaStaManageServiceResp", r)
    BY ResponseRows, HandlersFit
  <2> QED BY <1>82, <2>1
<1>83. CASE tag = 83
  <2>1. \A r : r.tag = 83 => AllFit(wfaCmdRespProcFuncTbl(r), "wfaStaGetEventsResp", r)
    BY ResponseRows, HandlersFit
  <2> QED BY <1>83, <2>1
<1>84. CASE tag = 84
  <2>1. \A r : r.tag = 84 => AllFit(wfaCmdRespProcFuncTbl(r), "wfaStaGetEventDataResp", r)
    BY ResponseRows, HandlersFit
  <2> QED BY <1>84, <2>1
<1>100. CASE tag \in Tags \ OwnHandlers
  <2>1. \A r : r.tag = tag => AllFit(wfaCmdRespProcFuncTbl(r), "wfaStaGenericResp", r)
    BY <1>100, ResponseRows, HandlersFit
  <2> QED BY <2>1
<1> QED BY <1>1, <1>10, <1>12, <1>14, <1>15, <1>16, <1>17, <1>18, <1>27, <1>28, <1>29, <1>32,
           <1>50, <1>53, <1>54, <1>60, <1>62, <1>64, <1>65, <1>74, <1>75, <1>76, <1>79, <1>80,
           <1>81, <1>82, <1>83, <1>84, <1>100 DEF OwnHandlers

\* Nothing that was left in memory is printed of a response.
Clean(r) == \A a \in wfaCmdRespProcFuncTbl(r) : \A k \in DOMAIN a.data : a.data[k] # "left"

\* A response whose memory was cleared, or is all filled.
LEMMA Cleared ==
  ASSUME NEW r, r.tag \in Tags, r.rest # "left", \A k \in DOMAIN r.f : r.f[k] # "left"
  PROVE  Clean(r)
<1>1. \A k : Value(r, k) # "left"
  BY DEF Value
<1>2. PICK by : AllFit(wfaCmdRespProcFuncTbl(r), by, r)
  BY Printers
<1> QED BY <1>1, <1>2 DEF Clean, AllFit, Fits

\* A response of which only a word is printed.
LEMMA OnlyWord ==
  ASSUME NEW r, r.tag \in (Tags \ OwnHandlers) \cup {18}
  PROVE  Clean(r)
<1>1. wfaCmdRespProcFuncTbl(r) \in {Says("wfaStaGenericResp", r, {}, "ERROR"), Says("wfaStaSetEncryptionResp", r, {}, "ERROR")}
  BY ResponseRows DEF wfaStaGenericResp, wfaStaSetEncryptionResp
<1>2. ASSUME NEW by PROVE \A a \in Says(by, r, {}, "ERROR") : DOMAIN a.data \subseteq {}
  <2>1. "ERROR" # ""
    OBVIOUS
  <2> QED BY <2>1, SaysFits
<1>3. \A a \in wfaCmdRespProcFuncTbl(r) : DOMAIN a.data \subseteq {}
  BY <1>1, <1>2
<1> QED BY <1>3 DEF Clean

\* A response with the fields that its handler prints.
LEMMA PrintedFilled ==
  ASSUME NEW r, NEW by, NEW ks, wfaCmdRespProcFuncTbl(r) = Says(by, r, ks, "INVALID") \/
                                wfaCmdRespProcFuncTbl(r) = Says(by, r, ks, "ERROR"),
         r.f = Own(ks)
  PROVE  Clean(r)
<1>1. ASSUME NEW a \in wfaCmdRespProcFuncTbl(r), NEW k \in DOMAIN a.data PROVE a.data[k] # "left"
  <2>1. AllFit(wfaCmdRespProcFuncTbl(r), by, r) /\ DOMAIN a.data \subseteq ks
    <3>1. "INVALID" # "" /\ "ERROR" # ""
      OBVIOUS
    <3>2. CASE wfaCmdRespProcFuncTbl(r) = Says(by, r, ks, "INVALID")
      BY <3>1, <3>2, SaysFits
    <3>3. CASE wfaCmdRespProcFuncTbl(r) = Says(by, r, ks, "ERROR")
      BY <3>1, <3>3, SaysFits
    <3> QED BY <3>2, <3>3
  <2>2. Value(r, k) = "own"
    BY <1>1, <2>1 DEF Value, Own
  <2> QED BY <2>1, <2>2 DEF AllFit, Fits
<1> QED BY <1>1 DEF Clean

\* The commands whose response is printed with fields that their handler does not fill.
HalfFilledTags == {75, 79, 81, 83, 84}

\* The handlers of the other commands fill what is printed, or use the cleared response
\* (wfa_cs.c).
LEMMA CleanHandlers ==
  ASSUME NEW tag \in Tags \ HalfFilledTags, NEW d, NEW o \in gWfaCmdFuncTbl(tag, d),
         Answered(o.resp, tag)
  PROVE  Clean(o.resp[1])
<1>0. PICK r : o.resp = <<r>> /\ r.tag = AnswerTag(tag)
  BY DEF Answered, IsAnswer
<1>2. r = o.resp[1]
  BY <1>0
<1>101. CASE tag = 1
  <2>1. o \in agtCmdProcGetVersion(d)
    BY <1>101, Rows
  <2>2. r.rest = "zero" /\ \A k \in DOMAIN r.f : r.f[k] # "left"
    BY <1>2, <2>1 DEF agtCmdProcGetVersion, Outcome, Global, Response, Only, Own, NoFill
  <2>3. r.tag \in Tags
    BY <1>0, <1>101 DEF AnswerTag, Tags
  <2> QED BY <1>2, <2>2, <2>3, Cleared
<1>110. CASE tag = 10
  <2>1. o \in wfaStaGetIpConfig(d)
    BY <1>110, Rows
  <2>2. r.rest = "zero" /\ \A k \in DOMAIN r.f : r.f[k] # "left"
    BY <1>2, <2>1 DEF wfaStaGetIpConfig, Outcome, Global, Response, Only, Reads, ERRORof, Own, NoFill
  <2>3. r.tag \in Tags
    BY <1>0, <1>110 DEF AnswerTag, Tags
  <2> QED BY <1>2, <2>2, <2>3, Cleared
<1>112. CASE tag = 12
  <2>1. o \in wfaStaGetMacAddress(d)
    BY <1>112, Rows
  <2>2. r.rest = "zero" /\ \A k \in DOMAIN r.f : r.f[k] # "left"
    BY <1>2, <2>1 DEF wfaStaGetMacAddress, Outcome, Global, Response, Only, Reads, ERRORof, Own, NoFill
  <2>3. r.tag \in Tags
    BY <1>0, <1>112 DEF AnswerTag, Tags
  <2> QED BY <1>2, <2>2, <2>3, Cleared
<1>114. CASE tag = 14
  <2>1. o \in wfaStaIsConnected(d)
    BY <1>114, Rows
  <2>2. r.rest = "zero" /\ \A k \in DOMAIN r.f : r.f[k] # "left"
    BY <1>2, <2>1 DEF wfaStaIsConnected, Outcome, Global, Response, Reads, ERRORof, Only, Own, NoFill
  <2>3. r.tag \in Tags
    BY <1>0, <1>114 DEF AnswerTag, Tags
  <2> QED BY <1>2, <2>2, <2>3, Cleared
<1>115. CASE tag = 15
  <2>1. o \in wfaStaVerifyIpConnection(d)
    BY <1>115, Rows
  <2>2. r.rest = "zero" /\ \A k \in DOMAIN r.f : r.f[k] # "left"
    BY <1>2, <2>1 DEF wfaStaVerifyIpConnection, Outcome, Global, Response, Reads, ERRORof, Only, Own, NoFill
  <2>3. r.tag \in Tags
    BY <1>0, <1>115 DEF AnswerTag, Tags
  <2> QED BY <1>2, <2>2, <2>3, Cleared
<1>116. CASE tag = 16
  <2>1. o \in wfaStaGetBSSID(d)
    BY <1>116, Rows
  <2>2. r.rest = "zero" /\ \A k \in DOMAIN r.f : r.f[k] # "left"
    BY <1>2, <2>1 DEF wfaStaGetBSSID, Outcome, Global, Response, Only, Reads, ERRORof, Own, NoFill
  <2>3. r.tag \in Tags
    BY <1>0, <1>116 DEF AnswerTag, Tags
  <2> QED BY <1>2, <2>2, <2>3, Cleared
<1>117. CASE tag = 17
  <2>1. o \in wfaStaGetStats(d)
    BY <1>117, Rows
  <2>2. r.rest = "zero" /\ \A k \in DOMAIN r.f : r.f[k] # "left"
    BY <1>2, <2>1 DEF wfaStaGetStats, Outcome, Global, Response, Only, ERRORof, Own, NoFill
  <2>3. r.tag \in Tags
    BY <1>0, <1>117 DEF AnswerTag, Tags
  <2> QED BY <1>2, <2>2, <2>3, Cleared
<1>128. CASE tag = 28
  <2>1. o \in wfaDeviceGetInfo(d)
    BY <1>128, Rows
  <2>2. r.rest = "zero" /\ \A k \in DOMAIN r.f : r.f[k] # "left"
    BY <1>2, <2>1 DEF wfaDeviceGetInfo, Outcome, Global, Response, Only, Own, NoFill
  <2>3. r.tag \in Tags
    BY <1>0, <1>128 DEF AnswerTag, Tags
  <2> QED BY <1>2, <2>2, <2>3, Cleared
<1>129. CASE tag = 29
  <2>1. o \in wfaDeviceListIF(d)
    BY <1>129, Rows
  <2>2. r.rest = "zero" /\ \A k \in DOMAIN r.f : r.f[k] # "left"
    BY <1>2, <2>1 DEF wfaDeviceListIF, Outcome, Global, Response, Only, ERRORof, Own, NoFill
  <2>3. r.tag \in Tags
    BY <1>0, <1>129 DEF AnswerTag, Tags
  <2> QED BY <1>2, <2>2, <2>3, Cleared
<1>130. CASE tag = 30
  <2>1. o \in wfaStaDebugSet(d)
    BY <1>130, Rows
  <2>2. r.rest = "zero" /\ \A k \in DOMAIN r.f : r.f[k] # "left"
    BY <1>2, <2>1 DEF wfaStaDebugSet, Outcome, Global, Response, Only, Own, NoFill
  <2>3. r.tag \in Tags
    BY <1>0, <1>130 DEF AnswerTag, Tags
  <2> QED BY <1>2, <2>2, <2>3, Cleared
<1>132. CASE tag = 32
  <2>1. o \in wfaStaUpload(d)
    BY <1>132, Rows
  <2>2. r.rest = "zero" /\ \A k \in DOMAIN r.f : r.f[k] # "left"
    BY <1>2, <2>1 DEF wfaStaUpload, Outcome, Global, Response, Only, Does, ERRORof, Own, NoFill
  <2>3. r.tag \in Tags
    BY <1>0, <1>132 DEF AnswerTag, Tags
  <2> QED BY <1>2, <2>2, <2>3, Cleared
<1>127. CASE tag = 27
  <2>1. r.tag = 27 /\ r.f = Own({"info"})
    <3>1. o \in wfaStaGetInfo(d)
      BY <1>127, Rows
    <3>2. o.resp = Local(27, Own({"info"}))
      BY <3>1 DEF wfaStaGetInfo, Only, Outcome
    <3>3. r.tag = 27 /\ r.f = Own({"info"})
      BY <1>2, <3>2 DEF Local, Response
    <3>4. {"info"} = {"info"}
      OBVIOUS
    <3> QED BY <3>3, <3>4
  <2>2. wfaCmdRespProcFuncTbl(r) = wfaStaGetInfoResp(r)
    BY <2>1, ResponseRows
  <2> QED BY <1>2, <2>1, <2>2, PrintedFilled DEF wfaStaGetInfoResp
<1>150. CASE tag = 50
  <2>1. r.tag = 50 /\ r.f = Own({"devid"})
    <3>1. o \in wfaStaGetP2pDevAddress(d)
      BY <1>150, Rows
    <3>2. o.resp = Local(50, Own({"devid"}))
      BY <3>1 DEF wfaStaGetP2pDevAddress, Only, Outcome
    <3>3. r.tag = 50 /\ r.f = Own({"devid"})
      BY <1>2, <3>2 DEF Local, Response
    <3>4. {"devid"} = {"devid"}
      OBVIOUS
    <3> QED BY <3>3, <3>4
  <2>2. wfaCmdRespProcFuncTbl(r) = wfaStaGetP2pDevAddressResp(r)
    BY <2>1, ResponseRows
  <2> QED BY <1>2, <2>1, <2>2, PrintedFilled DEF wfaStaGetP2pDevAddressResp
<1>153. CASE tag = 53
  <2>1. r.tag = 53 /\ r.f = Own({"grpid"})
    <3>1. o \in wfaStaStartAutoGo(d)
      BY <1>153, Rows
    <3>2. o.resp = Local(53, Own({"grpid"}))
      BY <3>1 DEF wfaStaStartAutoGo, Only, Outcome
    <3>3. r.tag = 53 /\ r.f = Own({"grpid"})
      BY <1>2, <3>2 DEF Local, Response
    <3>4. {"grpid"} = {"grpid"}
      OBVIOUS
    <3> QED BY <3>3, <3>4
  <2>2. wfaCmdRespProcFuncTbl(r) = wfaStaStartAutoGO(r)
    BY <2>1, ResponseRows
  <2> QED BY <1>2, <2>1, <2>2, PrintedFilled DEF wfaStaStartAutoGO
<1>154. CASE tag = 54
  <2>1. r.tag = 54 /\ r.f = Own({"result", "grpId"})
    <3>1. o \in wfaStaP2pStartGrpFormation(d)
      BY <1>154, Rows
    <3>2. o.resp = Local(54, Own({"result", "grpId"}))
      BY <3>1 DEF wfaStaP2pStartGrpFormation, Only, Outcome
    <3>3. r.tag = 54 /\ r.f = Own({"result", "grpId"})
      BY <1>2, <3>2 DEF Local, Response
    <3>4. {"result", "grpId"} = {"result", "grpId"}
      OBVIOUS
    <3> QED BY <3>3, <3>4
  <2>2. wfaCmdRespProcFuncTbl(r) = wfaStaP2pStartGrpFormResp(r)
    BY <2>1, ResponseRows
  <2> QED BY <1>2, <2>1, <2>2, PrintedFilled DEF wfaStaP2pStartGrpFormResp
<1>160. CASE tag = 60
  <2>1. r.tag = 60 /\ r.f = Own({"wpsPin"})
    <3>1. o \in wfaStaWpsReadPin(d)
      BY <1>160, Rows
    <3>2. o.resp = Local(60, Own({"wpsPin"}))
      BY <3>1 DEF wfaStaWpsReadPin, Only, Outcome
    <3>3. r.tag = 60 /\ r.f = Own({"wpsPin"})
      BY <1>2, <3>2 DEF Local, Response
    <3>4. {"wpsPin"} = {"wpsPin"}
      OBVIOUS
    <3> QED BY <3>3, <3>4
  <2>2. wfaCmdRespProcFuncTbl(r) = wfaStaWpsReadPinResp(r)
    BY <2>1, ResponseRows
  <2> QED BY <1>2, <2>1, <2>2, PrintedFilled DEF wfaStaWpsReadPinResp
<1>162. CASE tag = 62
  <2>1. r.tag = 62 /\ r.f = Own({"passPhrase", "ssid"})
    <3>1. o \in wfaStaGetPsk(d)
      BY <1>162, Rows
    <3>2. o.resp = Local(62, Own({"passPhrase", "ssid"}))
      BY <3>1 DEF wfaStaGetPsk, Only, Outcome
    <3>3. r.tag = 62 /\ r.f = Own({"passPhrase", "ssid"})
      BY <1>2, <3>2 DEF Local, Response
    <3>4. {"passPhrase", "ssid"} = {"passPhrase", "ssid"}
      OBVIOUS
    <3> QED BY <3>3, <3>4
  <2>2. wfaCmdRespProcFuncTbl(r) = wfaStaGetPskResp(r)
    BY <2>1, ResponseRows
  <2> QED BY <1>2, <2>1, <2>2, PrintedFilled DEF wfaStaGetPskResp
<1>164. CASE tag = 64
  <2>1. r.tag = 60 /\ r.f = Own({"wpsPin"})
    <3>1. o \in wfaStaWpsReadLabel(d)
      BY <1>164, Rows
    <3>2. o.resp = Local(60, Own({"wpsPin"}))
      BY <3>1 DEF wfaStaWpsReadLabel, Only, Outcome
    <3>3. r.tag = 60 /\ r.f = Own({"wpsPin"})
      BY <1>2, <3>2 DEF Local, Response
    <3>4. {"wpsPin"} = {"wpsPin"}
      OBVIOUS
    <3> QED BY <3>3, <3>4
  <2>2. wfaCmdRespProcFuncTbl(r) = wfaStaWpsReadPinResp(r)
    BY <2>1, ResponseRows
  <2> QED BY <1>2, <2>1, <2>2, PrintedFilled DEF wfaStaWpsReadPinResp
<1>165. CASE tag = 65
  <2>1. r.tag = 65 /\ r.f = Own({"dhcp", "ip", "mask", "dns1", "mac"})
    <3>1. o \in wfaStaGetP2pIpConfig(d)
      BY <1>165, Rows
    <3>2. o.resp = Local(65, Own({"dhcp", "ip", "mask", "dns1", "mac"}))
      BY <3>1 DEF wfaStaGetP2pIpConfig, Only, Outcome
    <3>3. r.tag = 65 /\ r.f = Own({"dhcp", "ip", "mask", "dns1", "mac"})
      BY <1>2, <3>2 DEF Local, Response
    <3>4. {"dhcp", "ip", "mask", "dns1", "mac"} = {"dhcp", "ip", "mask", "dns1", "mac"}
      OBVIOUS
    <3> QED BY <3>3, <3>4
  <2>2. wfaCmdRespProcFuncTbl(r) = wfaStaGetP2pIpConfigResp(r)
    BY <2>1, ResponseRows
  <2> QED BY <1>2, <2>1, <2>2, PrintedFilled DEF wfaStaGetP2pIpConfigResp
<1>174. CASE tag = 74
  <2>1. r.tag = 74 /\ r.f = Own({"result", "p2pGrpId", "wfdSessionId"})
    <3>1. o \in wfaStaStartWfdConnection(d)
      BY <1>174, Rows
    <3>2. o.resp = Local(74, Own({"wfdSessionId", "p2pGrpId", "result"}))
      BY <3>1 DEF wfaStaStartWfdConnection, Only, Outcome
    <3>3. r.tag = 74 /\ r.f = Own({"wfdSessionId", "p2pGrpId", "result"})
      BY <1>2, <3>2 DEF Local, Response
    <3>4. {"wfdSessionId", "p2pGrpId", "result"} = {"result", "p2pGrpId", "wfdSessionId"}
      OBVIOUS
    <3> QED BY <3>3, <3>4
  <2>2. wfaCmdRespProcFuncTbl(r) = wfaStaStartWfdConnectionResp(r)
    BY <2>1, ResponseRows
  <2> QED BY <1>2, <2>1, <2>2, PrintedFilled DEF wfaStaStartWfdConnectionResp
<1>176. CASE tag = 76
  <2>1. r.tag = 76 /\ r.f = Own({"wfdSessionId"})
    <3>1. o \in wfaStaConnectGoStartWfd(d)
      BY <1>176, Rows
    <3>2. o.resp = Local(76, Own({"wfdSessionId"}))
      BY <3>1 DEF wfaStaConnectGoStartWfd, Only, Outcome
    <3>3. r.tag = 76 /\ r.f = Own({"wfdSessionId"})
      BY <1>2, <3>2 DEF Local, Response
    <3>4. {"wfdSessionId"} = {"wfdSessionId"}
      OBVIOUS
    <3> QED BY <3>3, <3>4
  <2>2. wfaCmdRespProcFuncTbl(r) = wfaStaConnectGoStartWfdResp(r)
    BY <2>1, ResponseRows
  <2> QED BY <1>2, <2>1, <2>2, PrintedFilled DEF wfaStaConnectGoStartWfdResp
<1>180. CASE tag = 80
  <2>1. r.tag = 80 /\ r.f = Own({"result", "grpId", "peerRole"})
    <3>1. o \in wfaStaNfcAction(d)
      BY <1>180, Rows
    <3>2. o.resp = Local(80, Own({"result", "grpId", "peerRole"}))
      BY <3>1 DEF wfaStaNfcAction, Only, Outcome
    <3>3. r.tag = 80 /\ r.f = Own({"result", "grpId", "peerRole"})
      BY <1>2, <3>2 DEF Local, Response
    <3>4. {"result", "grpId", "peerRole"} = {"result", "grpId", "peerRole"}
      OBVIOUS
    <3> QED BY <3>3, <3>4
  <2>2. wfaCmdRespProcFuncTbl(r) = wfaStaNfcActionResp(r)
    BY <2>1, ResponseRows
  <2> QED BY <1>2, <2>1, <2>2, PrintedFilled DEF wfaStaNfcActionResp
<1>182. CASE tag = 82
  <2>1. r.tag = 82 /\ r.f = Own({"sessionID", "result", "grpId"})
    <3>1. o \in wfaStaManageService(d)
      BY <1>182, Rows
    <3>2. o.resp = Local(82, Own({"sessionID", "result", "grpId"}))
      BY <3>1 DEF wfaStaManageService, Only, Outcome
    <3>3. r.tag = 82 /\ r.f = Own({"sessionID", "result", "grpId"})
      BY <1>2, <3>2 DEF Local, Response
    <3>4. {"sessionID", "result", "grpId"} = {"sessionID", "result", "grpId"}
      OBVIOUS
    <3> QED BY <3>3, <3>4
  <2>2. wfaCmdRespProcFuncTbl(r) = wfaStaManageServiceResp(r)
    BY <2>1, ResponseRows
  <2> QED BY <1>2, <2>1, <2>2, PrintedFilled DEF wfaStaManageServiceResp
<1>300. CASE tag \notin {1, 10, 12, 14, 15, 16, 17, 28, 29, 30, 32,
                       27, 50, 53, 54, 60, 62, 64, 65, 74, 76, 80, 82}
  <2>1. r.tag \in (Tags \ OwnHandlers) \cup {18}
    BY <1>0, <1>300 DEF AnswerTag, Tags, OwnHandlers, HalfFilledTags
  <2> QED BY <1>2, <2>1, OnlyWord
<1> QED BY <1>101, <1>110, <1>112, <1>114, <1>115, <1>116, <1>117, <1>128, <1>129, <1>130, <1>132, <1>127,
           <1>150, <1>153, <1>154, <1>160, <1>162, <1>164, <1>165, <1>174, <1>176, <1>180, <1>182, <1>300
=============================================================================

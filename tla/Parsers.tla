------------------------------ MODULE Parsers -------------------------------
(* The command parsers of lib/wfa_cmdproc.c.  A command text is a sequence   *)
(* of keywords with their values; a parser turns it into the TLV the agent   *)
(* sends to the device, or fails.  A TLV is its tag, the size of the C       *)
(* structure in it, and the fields the parser filled.  A field that the text *)
(* leaves out is "zero", where the parser or the agent cleared the buffer,   *)
(* or "left", where the structure is a local variable nobody cleared.        *)
(*                                                                           *)
(* The parsers of the security commands are compiled to nothing when the     *)
(* build defines WFA_PC_CONSOLE, as the shipped Makefile.inc does: they take *)
(* that as their parameter pc.                                               *)
EXTENDS Integers, Sequences, FiniteSets

\* sizeof(dutCommand_t), which most commands travel in.
dutCommand_t == 656

TLV(tag, size, f) == [tag |-> tag, size |-> size, f |-> f]
NoFields == [k \in {} |-> "zero"]
WFA_FAILURE == TLV(-1, 0, NoFields)

Keywords(args) == {args[i][1] : i \in DOMAIN args}

\* The value of a keyword: that of its last occurrence, since each one overwrites.
ValueOf(args, k, default) ==
  IF k \notin Keywords(args) THEN default
  ELSE LET at == {i \in DOMAIN args : args[i][1] = k}
       IN  args[CHOOSE i \in at : \A j \in at : j <= i][2]

Filled(args, ks, default) == [k \in ks |-> ValueOf(args, k, default)]
Fields(args, ks) == Filled(args, ks, "zero")

\* A value that only some words set; every other word leaves or gives the default.
Among(f, k, words, default) == [f EXCEPT ![k] = IF @ \in words THEN @ ELSE default]

\* The parsers that take the second word, whatever the first one is.
SecondWord(tag, args) ==
  IF args = <<>> THEN WFA_FAILURE
  ELSE TLV(tag, dutCommand_t, [interface |-> args[1][2]])

----------------------------------------------------------------------------
(* Version and traffic agent.  The parsers of stream ids are in TrafficAgent. *)

xcCmdProcGetVersion(args) == TLV(1, 0, NoFields)

\* The keywords whose values must be numbers, and those that must be addresses.
Numeric == {"destinationport", "sourceport", "framerate", "duration", "payloadsize",
            "startdelay", "maxcnt", "numframes", "useSyncClock", "burstPeriodicity",
            "burstFragments"}
Addresses == {"destination", "source"}

\* The traffic class: a user priority given earlier keeps a later class out, a
\* DSCP of 46 or 34 overwrites either, every other value of the class is best effort.
Classes == {"voice", "Video", "Background", "BestEffort"}
TrafficClass[args \in Seq(Seq(STRING))] ==
  IF args = <<>> THEN "BestEffort"
  ELSE LET front == SubSeq(args, 1, Len(args) - 1)
           word  == args[Len(args)][1]
           value == args[Len(args)][2]
       IN  CASE word = "trafficClass" /\ "userpriority" \notin Keywords(front) ->
                  IF value \in Classes THEN value ELSE "BestEffort"
             [] word = "userpriority" /\ value \in {"0", "1", "2", "3", "4", "5", "6", "7"} -> value
             [] word = "dscp" /\ value \in {"46", "34"} -> value
             [] OTHER -> TrafficClass[front]

xcCmdProcAgentConfig(args) ==
  IF \E i \in DOMAIN args :
       \/ args[i][1] \in Numeric /\ args[i][2] = "word"
       \/ args[i][1] \in Addresses /\ args[i][2] # "address"
  THEN WFA_FAILURE
  ELSE LET ks == Numeric \cup Addresses \cup {"profile", "direction", "hti", "tagName", "trafficClass"}
       IN  TLV(4, 100, [Fields(args, ks) EXCEPT !.trafficClass = TrafficClass[args]])

xcCmdProcAgentSendPing(args) ==
  TLV(2, 68, Among(Fields(args, {"destination", "frameSize", "frameRate", "duration",
                                 "type", "iptype", "dscp", "qos"}), "qos", {"vo", "vi", "bk"}, "be"))

xcCmdProcAgentStopPing(args) ==
  IF args = <<>> \/ args[1][1] # "streamid" \/ args[1][2] = "word" THEN WFA_FAILURE
  ELSE TLV(3, 4, [streamid |-> args[1][2]])

----------------------------------------------------------------------------
(* Addresses, connection and information *)

xcCmdProcStaGetIpConfig(args)   == SecondWord(10, args)
xcCmdProcStaGetMacAddress(args) == SecondWord(12, args)
xcCmdProcStaIsConnected(args)   == SecondWord(14, args)
xcCmdProcStaGetBSSID(args)      == SecondWord(16, args)
xcCmdProcStaGetStats(args)      == SecondWord(17, args)

xcCmdProcStaSetIpConfig(args) ==
  LET known == {"interface", "dhcp", "ip", "mask", "defaultGateway", "primary-dns", "secondary-dns"}
  IN  IF Keywords(args) \subseteq known
      THEN TLV(11, dutCommand_t, Fields(args, known)) ELSE WFA_FAILURE

\* Here the structure is a local variable that is not cleared.
xcCmdProcStaSetMacAddress(args) ==
  TLV(13, dutCommand_t, Filled(args, {"interface", "mac"}, "left"))

xcCmdProcStaVerifyIpConnection(args) ==
  TLV(15, dutCommand_t, Fields(args, {"interface", "destination", "timeout"}))

xcCmdProcDeviceGetInfo(args) == TLV(28, dutCommand_t, Fields(args, {"firmware"}))

\* The first keyword must be there, but only "interface" has an effect.
xcCmdProcStaGetInfo(args) ==
  IF args = <<>> THEN WFA_FAILURE
  ELSE TLV(27, dutCommand_t, Fields(SubSeq(args, 1, 1), {"interface"}))

\* The number of the piece follows the word "voice" without a keyword of its own.
xcCmdProcStaUpload(args) ==
  IF args = <<>> THEN WFA_FAILURE
  ELSE LET voice == args[1] = <<"test", "voice">>
       IN  TLV(32, dutCommand_t, [type |-> IF voice THEN "voice" ELSE "zero",
                                  next |-> IF voice THEN ValueOf(args, "next", "0") ELSE "0"])

xcCmdProcDeviceListIF(args) ==
  IF args = <<>> THEN WFA_FAILURE
  ELSE TLV(29, dutCommand_t,
           Among(Fields(SubSeq(args, 1, 1), {"interfaceType"}), "interfaceType", {"802.11"}, "zero"))

\* The test of the level is always true (a constant is or-ed to it).
xcCmdProcStaDebugSet(args) ==
  IF ValueOf(args, "enable", "0") \notin {"0", "1"} THEN WFA_FAILURE
  ELSE TLV(30, dutCommand_t, Fields(args, {"level", "enable"}))

xcCmdProcStaAssociate(args) ==
  TLV(22, dutCommand_t, Fields(args, {"interface", "ssid", "bssid", "wps"}))

xcCmdProcStaReAssociate(args) ==
  TLV(34, dutCommand_t, Fields(args, {"interface", "ssid", "bssid"}))

----------------------------------------------------------------------------
(* Security *)

Interface == {"interface", "ssid"}
WepKeys == {"key1", "key2", "key3", "key4"}

\* Every encryption but WEP is none; the first key makes itself the active one.
Wep(args, ks, default) ==
  LET f == Among(Fields(args, ks), "encpType", {"wep"}, "zero")
      act == {i \in DOMAIN args : args[i][1] \in {"key1", "activeKey"}}
      last == CHOOSE i \in act : \A j \in act : j <= i
  IN  [f EXCEPT !.activeKey = IF act = {} THEN default
                              ELSE IF args[last][1] = "key1" THEN "0" ELSE args[last][2]]

xcCmdProcStaSetEncryption(args) ==
  LET ks == Interface \cup WepKeys \cup {"encpType", "activeKey"}
  IN  IF Keywords(args) \subseteq ks THEN TLV(18, 216, Wep(args, ks, "0")) ELSE WFA_FAILURE

xcCmdProcStaSetMode(args) ==
  LET ks == Interface \cup WepKeys \cup {"encpType", "activeKey", "mode", "channel"}
  IN  TLV(31, 224, Among(Wep(args, ks, "255"), "mode", {"adhoc"}, "zero"))

\* The keys fill the table in the order they are given, whatever their numbers.
xcCmdProcStaSetIBSS(args) ==
  LET ks == Interface \cup {"encpType", "activeKey", "channel"}
      given == SelectSeq(args, LAMBDA a : a[1] \in WepKeys)
      slot == [key1 |-> 1, key2 |-> 2, key3 |-> 3, key4 |-> 4]
      key(k) == IF slot[k] <= Len(given) THEN given[slot[k]][2] ELSE "zero"
      f == Wep(args, ks, "255")
  IN  TLV(26, 220, [k \in ks \cup WepKeys |-> IF k \in ks THEN f[k] ELSE key(k)])

\* Parsed, but never encoded: tag and length of what the agent sends are 0.
xcCmdProcStaSetSecurity(args) == TLV(0, 0, NoFields)

\* The text of a security command, or none of it for a build with WFA_PC_CONSOLE.
Text(args, pc) == IF pc THEN <<>> ELSE args
Keyed == Interface \cup {"keyMgmtType", "encpType", "pmf"}
WithUser == Keyed \cup {"username"}

\* The room for the type: of a word that is too long only the first characters are
\* kept, which are no type.
LongerThan7 == {"wpa2-eap", "wpa2-psk", "wpa2-sha256"}
LongerThan8 == {"wpa2-sha256"}
Eap(args, pc, ks, long) ==
  LET f == Fields(Text(args, pc), WithUser \cup ks)
  IN  [f EXCEPT !.keyMgmtType = IF @ \in long THEN "cut" ELSE @]

xcCmdProcStaSetPSK(args, pc) ==
  TLV(19, 204, Fields(Text(args, pc), Keyed \cup {"passPhrase", "micAlg", "Prog", "Prefer"}))
xcCmdProcStaSetEapTLS(args, pc) ==
  TLV(20, 408, Eap(args, pc, {"trustedRootCA", "clientCertificate", "micAlg"}, LongerThan8))
xcCmdProcStaSetEapTTLS(args, pc) ==
  TLV(23, 252, Eap(args, pc, {"password", "trustedRootCA", "clientCertificate", "micALg", "Prog", "Prefer"},
                   LongerThan7))

\* The number of triplets is that of the keyword given last.
xcCmdProcStaSetEapSIM(args, pc) ==
  TLV(24, 424, Eap(args, pc, {"password", "triplet1", "triplet2", "triplet3"}, LongerThan7))
xcCmdProcStaSetPEAP(args, pc) ==
  TLV(25, 204, Eap(args, pc, {"password", "innerEAP", "trustedRootCA", "peapVersion"}, LongerThan7))

xcCmdProcStaSetUAPSD(args) ==
  TLV(21, 112, Fields(args, Interface \cup {"maxSP", "acBE", "acBK", "acVI", "acVO", "type", "peer"}))
xcCmdProcStaSetEapFAST(args, pc) ==
  TLV(38, 232, Among(Eap(args, pc, {"password", "innerEAP", "trustedRootCA", "validateServer", "pacFile"},
                         LongerThan7), "validateServer", {"yes"}, "zero"))
xcCmdProcStaSetEapAKA(args, pc) ==
  TLV(39, 552, Eap(args, pc, {"password", "triplet1", "triplet2", "triplet3"}, LongerThan7))

xcCmdProcStaSetPwrSave(args) == TLV(35, 24, Fields(args, {"interface", "mode"}))

----------------------------------------------------------------------------
(* Peer to peer and Wi-Fi protected setup *)

Group == {"interface", "groupid"}
Peer == {"interface", "p2pdevid"}

xcCmdProcStaGetP2pDevAddress(args) == TLV(50, dutCommand_t, Fields(args, {"interface"}))
xcCmdProcStaSetP2p(args) ==
  TLV(51, 164, Fields(args, {"interface", "listen_chn", "p2p_mode", "persistent", "intra_bss",
    "noa_duration", "noa_interval", "noa_count", "concurrency", "p2pinvitation", "bcn_int",
    "ext_listen_time_interval", "ext_listen_time_period", "discoverability", "service_discovery",
    "crossconnection", "p2pmanaged", "go_apsd", "DiscoverType"}))
xcCmdProcStaP2pConnect(args) == TLV(52, 162, Fields(args, Group \cup Peer))
xcCmdProcStaP2pStartAutoGo(args) == TLV(53, 86, Fields(args, Interface \cup {"oper_chn", "RTSP"}))
xcCmdProcStaP2pStartGroupFormation(args) ==
  TLV(54, 108, Fields(args, Peer \cup {"intent_val", "init_go_neg", "oper_chn", "ssid"}))
xcCmdProcStaP2pDissolve(args) == TLV(55, 144, Fields(args, Group))
xcCmdProcStaSendP2pInvReq(args) == TLV(56, 168, Fields(args, Group \cup Peer \cup {"reinvoke"}))
xcCmdProcStaAcceptP2pInvReq(args) == TLV(57, 168, Fields(args, Group \cup Peer \cup {"reinvoke"}))
xcCmdProcStaSendP2pProvDisReq(args) == TLV(58, 50, Fields(args, Peer \cup {"configmethod"}))
xcCmdProcStaSetWpsPbc(args) == TLV(59, 145, Fields(args, Group))
xcCmdProcStaWpsReadPin(args) == TLV(60, 145, Fields(args, Group))
xcCmdProcStaWpsReadLabel(args) == TLV(64, 145, Fields(args, Group))
xcCmdProcStaWpsEnterPin(args) == TLV(61, 401, Fields(args, Group \cup {"pin"}))
xcCmdProcStaGetPsk(args) == TLV(62, 144, Fields(args, Group))
xcCmdProcStaP2pReset(args) == TLV(63, dutCommand_t, Fields(args, {"interface"}))
xcCmdProcStaGetP2pIpConfig(args) == TLV(65, 144, Fields(args, Group))
xcCmdProcStaSendServiceDiscoveryReq(args) == TLV(66, 34, Fields(args, Peer))
xcCmdProcStaSendP2pPresenceReq(args) == TLV(67, 32, Fields(args, {"interface", "interval", "duration"}))
xcCmdProcStaSetSleepReq(args) == TLV(68, 144, Fields(args, Group))
xcCmdProcStaSetOpportunistcPsReq(args) == TLV(69, 148, Fields(args, Group \cup {"ctwindow"}))
xcCmdProcStaAddARPTableEntry(args) == TLV(70, 52, Fields(args, {"interface", "macaddress", "ipaddress"}))
xcCmdProcStaBlockICMPResponse(args) == TLV(71, 162, Fields(args, Group \cup {"ipaddress"}))

----------------------------------------------------------------------------
(* WMM *)

\* What the words of one text leave in the structure: a group or an action
\* given later resets the fields that the defaults of it fill.
SetWMM == {"interface", "GROUP", "ACTION", "RTS_thr", "wmm", "Frag_thr", "DIALOG_TOKEN", "TID", "SENDTRIG",
           "DEST", "trigac", "DIRECTION", "PSB", "UP", "Fixed", "SIZE", "MAXSIZE", "MIN_SRVC_INTRVL",
           "MAX_SRVC_INTRVL", "INACTIVITY", "SUSPENSION", "SRVCSTARTTIME", "MINDATARATE", "MEANDATARATE",
           "PEAKDATARATE", "BURSTSIZE", "DELAYBOUND", "PHYRATE", "SBA", "MEDIUM_TIME", "ACCESSCAT",
           "infoAck", "BurstSizeDef"}

WmmWord(f, word, value) ==
  CASE word = "GROUP" ->
         (CASE value = "WMM-CONFIG" -> [f EXCEPT !.GROUP = value, !.RTS_thr = "2346", !.Frag_thr = "2346", !.wmm = "1"]
            [] value = "WMMAC" -> [f EXCEPT !.GROUP = value]
            [] OTHER -> f)
    [] word = "ACTION" ->
         (CASE value = "addts" -> [f EXCEPT !.ACTION = value, !.ACCESSCAT = "BE"]
            [] value = "delts" -> [f EXCEPT !.ACTION = value]
            [] OTHER -> f)
    [] word = "TID" -> IF f.ACTION = "addts" THEN [f EXCEPT !.TID = value] ELSE [f EXCEPT !.delts = value]
    [] word = "MSDUAGGR" -> [f EXCEPT !.BURSTSIZE = value]
    [] word \in SetWMM \ {"GROUP", "ACTION", "TID"} -> [f EXCEPT ![word] = value]
    [] OTHER -> f

WmmText[args \in Seq(Seq(STRING))] ==
  IF args = <<>> THEN [k \in SetWMM \cup {"delts"} |-> "zero"]
  ELSE LET last == args[Len(args)]
       IN  WmmWord(WmmText[SubSeq(args, 1, Len(args) - 1)], last[1], last[2])

\* The header is written by hand; without WFA_WMM_AC the function does nothing.
xcCmdProcStaSetWMM(args) == TLV(33, 104, WmmText[args])

----------------------------------------------------------------------------
(* Time, connection and the frames of the test programmes *)

xcCmdProcStaSetSystime(args) ==
  TLV(40, 8, Fields(args, {"month", "date", "year", "hours", "minutes", "seconds"}))
xcCmdProcStaDisconnect(args) == TLV(47, dutCommand_t, Fields(args, {"interface"}))

\* Enable, disable, or the invalid value 255, which is not negative.
wfaStandardBoolParsing(word) == IF word \in {"enable", "disable"} THEN word ELSE "255"

\* No row of the table of names leads to these two.
xcCmdProcStaSendNeigReq(args) ==
  IF args = <<>> THEN WFA_FAILURE
  ELSE TLV(36, dutCommand_t, Fields(SubSeq(args, 1, 1), {"interface"}))
xcCmdProcStaTestBedCmd(args) == TLV(36, dutCommand_t, NoFields)

\* A programme or a primitive takes all the rest of the text: the place of the
\* first keyword k with one of the values vs (0 when there is none), the value
\* there and the words on either side.
Place(args, k, vs) ==
  LET at == {i \in DOMAIN args : args[i][1] = k /\ args[i][2] \in vs}
  IN  IF at = {} THEN 0 ELSE CHOOSE i \in at : \A j \in at : i <= j
Chosen(args, k, vs) == IF Place(args, k, vs) = 0 THEN "zero" ELSE args[Place(args, k, vs)][2]
Before(args, k, vs) == IF Place(args, k, vs) = 0 THEN args ELSE SubSeq(args, 1, Place(args, k, vs) - 1)
After(args, k, vs) == IF Place(args, k, vs) = 0 THEN <<>> ELSE SubSeq(args, Place(args, k, vs) + 1, Len(args))

\* Two functions over the fields of both.
Both(f, g) == [k \in DOMAIN f \cup DOMAIN g |-> IF k \in DOMAIN f THEN f[k] ELSE g[k]]

PmfFrame(args) == Fields(args, {"framename", "protected", "stationid", "sender", "bssid"})

\* A timeout below 301 and a status that is neither 0 nor 37 refuse the frame.
TdlsRefused(args) ==
  \E i \in DOMAIN args : \/ args[i][1] = "timeout" /\ args[i][2] = "300"
                         \/ args[i][1] = "status" /\ args[i][2] \notin {"0", "37"}
TdlsFrame(args) ==
  Fields(args, {"type", "peer", "timeout", "bssid", "switchtime", "channel", "channelOffset",
                "status", "reason"})

\* Another frame's name leaves the rest of the text to the next word of the loop.
VentFrame(args) == Fields(args, {"framename", "ssid"})

WfdFrame(args) ==
  Fields(args, {"framename", "source", "destination", "devtype", "rtspmsgtype", "wfdsession",
                "setparameter", "audioDest", "bssid", "MsrReqAction", "CapReNegotiateParam"})
HotspotFrame(args) ==
  Fields(args, {"framename", "dest", "ANQP_CAP_LIST", "NAI_REALM_LIST", "3GPP_INFO", "DOMAIN_LIST",
                "HS_CAP_LIST", "OPER_NAME", "NAI_HOME_REALM_LIST", "VENUE_NAME", "ROAMING_CONS",
                "ESS_DISASSOC_IMM", "WAN_MAT", "OP_CLASS", "OSU_PROVIDER_LIST", "NET_AUTH_TYPE",
                "DISASSOC_TIMER", "NFrames", "SESS_INFO_URL", "Name ", "ICON_REQUEST", "SenderMAC",
                "DestIP", "SenderIP"})
LocationFrame(args) ==
  Fields(args, {"framename", "destmac", "askForLocCivic", "askForLCI", "address3", "MsntType",
                "MaxAgeSubelem", "RandInterval", "MinAPcount", "AskForPublicIdentifierURI-FQDN"})

Programs == {"PMF", "TDLS", "VENT", "WFD", "HS2-R2", "LOC"}
xcCmdProcStaDevSendFrame(args) ==
  LET p == Chosen(args, "program", Programs)
      rest == After(args, "program", Programs)
      head == Both(Fields(Before(args, "program", Programs), {"interface"}), [program |-> p])
      frame == CASE p = "PMF" -> PmfFrame(rest)   [] p = "TDLS" -> TdlsFrame(rest)
                 [] p = "VENT" -> VentFrame(rest) [] p = "WFD" -> WfdFrame(rest)
                 [] p = "LOC" -> LocationFrame(rest) [] p = "HS2-R2" -> HotspotFrame(rest)
                 [] OTHER -> NoFields
  IN  IF p = "TDLS" /\ TdlsRefused(rest) THEN WFA_FAILURE ELSE TLV(48, dutCommand_t, Both(head, frame))

----------------------------------------------------------------------------
(* Test bed *)

\* Words that turn an option on; every other value turns it off.
OnOff == {"ht", "ft_oa", "ft_ds", "active_scan", "tdls", "uibc_gen", "uibc_hid", "hdcp", "frameskip",
          "avchange", "standby", "i2c", "videorecovery", "PrefDisplay", "ServiceDiscovery", "3dVideo",
          "MultiTxStream", "TimeSync", "EDID", "UIBC_Prepare", "SessionAvailability",
          "DeviceDiscoverability", "CoupledCap"}
Switch(value) == IF value = "on" THEN "on" ELSE "off"

PresetWireless(args) ==
  LET f == Fields(args, {"mode", "powersave", "reset", "interface"})
  IN  [Among(f, "powersave", {"on", "fast", "psnonpoll"}, "zero") EXCEPT
         !.reset = IF @ = "11n" THEN @ ELSE "zero"]
  
\* wmm=noack is a state of its own that no field takes: it only raises the flag.
PresetWmm(args) ==
  LET given == SelectSeq(args, LAMBDA a : a[1] = "wmm" /\ a[2] \in {"on", "off"})
  IN  [wmm |-> ValueOf(given, "wmm", "zero"),
       wmmFlag |-> IF "wmm" \in Keywords(args) THEN "1" ELSE "zero",
       modeFlag |-> IF "mode" \in Keywords(args) THEN "1" ELSE "zero"]

PresetTdls(args) == Fields(args, {"tdlsmode", "wfddevtype"})
PresetDisplay(args) == Fields(args, {"ui_input", "inputcontent", "videoformat", "AudioFormat", "OptionalFeature"})
PresetServices(args) == Fields(args, {"oper_chn", "program", "supplicant", "type", "connectionCapabilityInfo"})
PresetOptions(args) ==
  [k \in OnOff |-> IF k \in Keywords(args) THEN Switch(ValueOf(args, k, "zero")) ELSE "zero"]

xcCmdProcStaPresetTestParameters(args) ==
  TLV(37, 180, Both(Both(Both(PresetWireless(args), PresetWmm(args)), Both(PresetTdls(args), PresetDisplay(args))),
                    Both(PresetServices(args), PresetOptions(args))))

xcCmdProcStaResetDefault(args) == TLV(46, 32, Fields(args, {"interface", "prog", "type"}))
xcCmdProcStaSetRadio(args) ==
  LET f == Fields(args, {"interface", "mode"})
  IN  TLV(72, dutCommand_t, [f EXCEPT !.mode = IF @ \in {"zero", "off"} THEN @ ELSE "on"])
xcCmdProcStaSetWireless(args) == TLV(42, 36, Fields(args, {"interface", "band", "noack", "program"}))
xcCmdProcStaSendADDBA(args) == TLV(43, 18, Fields(args, {"interface", "tid"}))
xcCmdProcStaSetRIFS(args) ==
  LET f == Fields(args, {"interface", "action"})
  IN  TLV(45, 20, [f EXCEPT !.action = IF @ = "zero" THEN @ ELSE wfaStandardBoolParsing(@)])
xcCmdProcStaSendCoExistMGMT(args) == TLV(44, 48, Fields(args, {"interface", "type", "value"}))

\* The test for a negative Boolean never holds: an invalid word is kept as 255,
\* which is also what a word that is not given leaves.
xcCmdProcStaSet11n(args) ==
  LET bools == {"ampdu", "40_intolerant", "sgi20", "amsdu", "addba_reject", "greenfield", "mcs32", "rifs_test"}
      f == Filled(args, bools \cup {"stbc_rx", "smps", "txsp_stream", "rxsp_stream"}, "255")
      g == Fields(args, {"width", "mcs_fixedrate"})
  IN  TLV(41, 68, Both([k \in DOMAIN f |-> IF k \in bools THEN wfaStandardBoolParsing(f[k]) ELSE f[k]], g))

\* Only the feature structure is sent: the interface stays behind.
xcCmdProcStaSetRFeature(args) ==
  TLV(73, 72, Fields(args, {"prog", "uapsd", "peer", "tpktimer", "ChSwitchMode", "OffChNum", "SecChOffset"}))

----------------------------------------------------------------------------
(* Wi-Fi Display, NFC, NAN and Wi-Fi Direct services *)

xcCmdProcStaStartWfdConnection(args) ==
  TLV(74, 64, Fields(args, {"interface", "peeraddress", "init_wfd", "intent_val", "oper_chn", "coupledSession"}))

\* The whole text, without its end, whatever its length.
xcCmdProcStaCliCommand(args) == TLV(75, 40, [text |-> IF args = <<>> THEN "zero" ELSE args[1][2]])

xcCmdProcStaConnectGoStartWfd(args) == TLV(76, 162, Fields(args, Group \cup {"p2pdevid"}))

\* Everything but the interface is read only after the programme WFD.
xcCmdProcStaGenerateEvent(args) ==
  TLV(77, 123, Both(Both(Fields(Before(args, "program", {"WFD"}), {"interface"}),
                         [program |-> Chosen(args, "program", {"WFD"})]),
                    Fields(After(args, "program", {"WFD"}),
                           {"type", "sessionid", "uibceventtype", "uibc_prepare", "frameSkip",
                            "InputContentType", "I2c_Struct"})))
xcCmdProcStaReinvokeWfdSession(args) ==
  TLV(78, 164, Fields(args, Group \cup {"PeerAddress", "invitationaction"}))

\* The parameter is read only when it follows the programme.
xcCmdProcStaGetParameter(args) ==
  LET ps == {"WFD", "WFDS", "NAN"}
      rest == After(args, "program", ps)
      given == rest # <<>> /\ rest[1][1] = "Parameter"
  IN  TLV(79, 18, [interface |-> ValueOf(args, "interface", "zero"),
                   program |-> Chosen(args, "program", ps),
                   Parameter |-> IF given THEN rest[1][2] ELSE "zero"])

xcCmdProcStaNfcAction(args) ==
  TLV(80, 94, Fields(args, {"interface", "operation", "intent_val", "oper_chn", "ssid", "init"}))
xcCmdProcStaExecAction(args) ==
  TLV(88, 400, Fields(args, {"interface", "prog", "nanOp", "masterPref", "randFactor", "hopCount", "highTsf",
    "methodType", "furtherAvailInd", "mac", "band", "fiveGHzOnly", "publishType", "subscribeType",
    "serviceName", "sdfTxDw", "sdfDelay", "rxMatchFilter", "txMatchFilter", "discRangeLtd",
    "discRangeIgnore", "includeBit", "srfType", "remoteInstanceID", "localInstanceID", "destMac",
    "trigger", "askForLocCivic", "askForLCI", "burstsExponent", "asap", "formatBwFTM"}))

\* The words each primitive takes, and those of a message.
Session == {"session_mac", "session_id"}
AdvertiseWords == {"service_name", "auto_accept", "service_info", "service_status"}
SeekWords == {"service_name", "exact_search", "mac_address", "service_info"}
ConnectWords == {"service_mac", "AdvID", "session_info", "network_role", "connectionCapabilityInfo",
                 "ssid", "Oper_chn"}
SessionWords(primitive) ==
  CASE primitive = "Cancel" -> {"cancelMethod"}
    [] primitive = "ConfirmSession" -> Session \cup {"confirmed"}
    [] primitive \in {"SetSessionReady", "CloseSession"} -> Session
    [] primitive = "BoundPort" -> Session \cup {"port"}
    [] primitive = "ServiceStatusChange" -> {"advId", "ServiceStatus"}
PrimitiveTypes == {"Advertise", "Seek", "Cancel", "ConnectSession", "ConfirmSession", "SetSessionReady",
                   "BoundPort", "ServiceStatusChange", "CloseSession"}
PrimitiveWords(primitive) ==
  CASE primitive = "Advertise" -> AdvertiseWords
    [] primitive = "Seek" -> SeekWords
    [] primitive = "ConnectSession" -> ConnectWords
    [] OTHER -> SessionWords(primitive)

Opcodes == {"REQUEST_SESSION", "REMOVE_SESSION", "REJECT_SESSION", "ADDED_SESSION"}
xcCmdProcStaInvokeCommand(args) ==
  LET t == Chosen(args, "primitive_type", PrimitiveTypes)
      head == Both(Filled(Before(args, "primitive_type", PrimitiveTypes), {"interface", "prog", "command_type"},
                          "zero"), [primitive_type |-> t])
  IN  TLV(81, 200,
          IF t # "zero" THEN Both(head, Fields(After(args, "primitive_type", PrimitiveTypes), PrimitiveWords(t)))
          ELSE Both(Both(head, [opcode |-> Chosen(args, "opcode", Opcodes)]),
                    Fields(After(args, "opcode", Opcodes), Session)))

\* The service is described only after the programme; the number of files is
\* that of the list given last, whichever list it is.
ServiceWords == {"service_name", "service_role", "service_mac", "AdvID", "session_info", "network_role",
                 "connectionCapabilityInfo", "PdlType"}
ServiceActions == {"manage_actions", "send_fileList", "sendModify_FileList"}
xcCmdProcStaManageService(args) ==
  TLV(82, 224, Both([interface |-> ValueOf(Before(args, "prog", {"WFDS"}), "interface", "zero"),
                     prog |-> Chosen(args, "prog", {"WFDS"})],
                    Fields(After(args, "prog", {"WFDS"}), ServiceWords \cup ServiceActions)))

xcCmdProcStaGetEvents(args) == TLV(83, 25, Fields(args, {"interface", "program", "action"}))
xcCmdProcStaGetEventDetails(args) == TLV(84, 20, Fields(args, {"interface", "program", "EventName"}))

----------------------------------------------------------------------------
\* The table of names, in which a command of wfa_cli.txt is "wfa_cli_cmd"; a name
\* that is not in it is answered like a text that does not parse.
nameStr(n, args, pc) ==
  CASE n = "ca_get_version" -> xcCmdProcGetVersion(args)
    [] n = "traffic_send_ping" -> xcCmdProcAgentSendPing(args)
    [] n = "traffic_stop_ping" -> xcCmdProcAgentStopPing(args)
    [] n = "traffic_agent_config" -> xcCmdProcAgentConfig(args)
    [] n = "sta_get_ip_config" -> xcCmdProcStaGetIpConfig(args)
    [] n = "sta_set_ip_config" -> xcCmdProcStaSetIpConfig(args)
    [] n = "sta_get_mac_address" -> xcCmdProcStaGetMacAddress(args)
    [] n = "sta_set_mac_address" -> xcCmdProcStaSetMacAddress(args)
    [] n = "sta_is_connected" -> xcCmdProcStaIsConnected(args)
    [] n = "sta_verify_ip_connection" -> xcCmdProcStaVerifyIpConnection(args)
    [] n = "sta_get_bssid" -> xcCmdProcStaGetBSSID(args)
    [] n = "sta_get_stats" -> xcCmdProcStaGetStats(args)
    [] n = "sta_set_encryption" -> xcCmdProcStaSetEncryption(args)
    [] n = "sta_set_psk" -> xcCmdProcStaSetPSK(args, pc)
    [] n = "sta_set_eaptls" -> xcCmdProcStaSetEapTLS(args, pc)
    [] n = "sta_set_eapttls" -> xcCmdProcStaSetEapTTLS(args, pc)
    [] n = "sta_set_eapsim" -> xcCmdProcStaSetEapSIM(args, pc)
    [] n = "sta_set_peap" -> xcCmdProcStaSetPEAP(args, pc)
    [] n = "sta_set_ibss" -> xcCmdProcStaSetIBSS(args)
    [] n = "sta_associate" -> xcCmdProcStaAssociate(args)
    [] n = "device_list_interfaces" -> xcCmdProcDeviceListIF(args)
    [] n = "device_get_info" -> xcCmdProcDeviceGetInfo(args)
    [] n = "sta_get_info" -> xcCmdProcStaGetInfo(args)
    [] n = "sta_set_mode" -> xcCmdProcStaSetMode(args)
    [] n = "sta_up_load" -> xcCmdProcStaUpload(args)
    [] n = "sta_debug_set" -> xcCmdProcStaDebugSet(args)
    [] n = "sta_set_uapsd" -> xcCmdProcStaSetUAPSD(args)
    [] n = "sta_set_wmm" -> xcCmdProcStaSetWMM(args)
    [] n = "sta_disconnect" -> xcCmdProcStaDisconnect(args)
    [] n = "sta_reassociate" -> xcCmdProcStaReAssociate(args)
    [] n = "dev_send_frame" -> xcCmdProcStaDevSendFrame(args)
    [] n = "sta_set_security" -> xcCmdProcStaSetSecurity(args)
    [] n = "sta_preset_testparameters" -> xcCmdProcStaPresetTestParameters(args)
    [] n = "sta_set_eapfast" -> xcCmdProcStaSetEapFAST(args, pc)
    [] n = "sta_set_eapaka" -> xcCmdProcStaSetEapAKA(args, pc)
    [] n = "sta_set_systime" -> xcCmdProcStaSetSystime(args)
    [] n = "sta_set_pwrsave" -> xcCmdProcStaSetPwrSave(args)
    [] n = "sta_reset_default" -> xcCmdProcStaResetDefault(args)
    [] n = "sta_set_11n" -> xcCmdProcStaSet11n(args)
    [] n = "sta_set_wireless" -> xcCmdProcStaSetWireless(args)
    [] n = "sta_send_addba" -> xcCmdProcStaSendADDBA(args)
    [] n = "sta_set_rifs_test" -> xcCmdProcStaSetRIFS(args)
    [] n = "sta_send_coexist_mgmt" -> xcCmdProcStaSendCoExistMGMT(args)
    [] n = "sta_get_p2p_dev_address" -> xcCmdProcStaGetP2pDevAddress(args)
    [] n = "sta_set_p2p" -> xcCmdProcStaSetP2p(args)
    [] n = "sta_p2p_connect" -> xcCmdProcStaP2pConnect(args)
    [] n = "sta_start_autonomous_go" -> xcCmdProcStaP2pStartAutoGo(args)
    [] n = "sta_p2p_start_group_formation" -> xcCmdProcStaP2pStartGroupFormation(args)
    [] n = "sta_p2p_dissolve" -> xcCmdProcStaP2pDissolve(args)
    [] n = "sta_send_p2p_invitation_req" -> xcCmdProcStaSendP2pInvReq(args)
    [] n = "sta_accept_p2p_invitation_req" -> xcCmdProcStaAcceptP2pInvReq(args)
    [] n = "sta_send_p2p_provision_dis_req" -> xcCmdProcStaSendP2pProvDisReq(args)
    [] n = "sta_set_wps_pbc" -> xcCmdProcStaSetWpsPbc(args)
    [] n = "sta_wps_read_pin" -> xcCmdProcStaWpsReadPin(args)
    [] n = "sta_wps_enter_pin" -> xcCmdProcStaWpsEnterPin(args)
    [] n = "sta_get_psk" -> xcCmdProcStaGetPsk(args)
    [] n = "sta_p2p_reset" -> xcCmdProcStaP2pReset(args)
    [] n = "sta_wps_read_label" -> xcCmdProcStaWpsReadLabel(args)
    [] n = "sta_get_p2p_ip_config" -> xcCmdProcStaGetP2pIpConfig(args)
    [] n = "sta_send_service_discovery_req" -> xcCmdProcStaSendServiceDiscoveryReq(args)
    [] n = "sta_send_p2p_presence_req" -> xcCmdProcStaSendP2pPresenceReq(args)
    [] n = "sta_set_sleep" -> xcCmdProcStaSetSleepReq(args)
    [] n = "sta_set_opportunistic_ps" -> xcCmdProcStaSetOpportunistcPsReq(args)
    [] n = "sta_add_arp_table_entry" -> xcCmdProcStaAddARPTableEntry(args)
    [] n = "sta_block_icmp_response" -> xcCmdProcStaBlockICMPResponse(args)
    [] n = "sta_set_radio" -> xcCmdProcStaSetRadio(args)
    [] n = "sta_set_rfeature" -> xcCmdProcStaSetRFeature(args)
    [] n = "start_wfd_connection" -> xcCmdProcStaStartWfdConnection(args)
    [] n = "wfa_cli_cmd" -> xcCmdProcStaCliCommand(args)
    [] n = "connect_go_start_wfd" -> xcCmdProcStaConnectGoStartWfd(args)
    [] n = "sta_generate_event" -> xcCmdProcStaGenerateEvent(args)
    [] n = "reinvoke_wfd_session" -> xcCmdProcStaReinvokeWfdSession(args)
    [] n = "sta_get_parameter" -> xcCmdProcStaGetParameter(args)
    [] n = "sta_nfc_action" -> xcCmdProcStaNfcAction(args)
    [] n = "sta_exec_action" -> xcCmdProcStaExecAction(args)
    [] n = "sta_invoke_command" -> xcCmdProcStaInvokeCommand(args)
    [] n = "sta_manage_service" -> xcCmdProcStaManageService(args)
    [] n = "sta_get_events" -> xcCmdProcStaGetEvents(args)
    [] n = "sta_get_event_details" -> xcCmdProcStaGetEventDetails(args)
    [] OTHER -> WFA_FAILURE
=============================================================================

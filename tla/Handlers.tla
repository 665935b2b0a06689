------------------------------ MODULE Handlers ------------------------------
(* The command handlers of the device: lib/wfa_cs.c and their table in       *)
(* lib/wfa_cmdtbl.c, as the build with WFA_STA_TB, WFA_WMM_AC and            *)
(* WFA_PC_CONSOLE has them (wfaStaSetPSK does not compile without the last   *)
(* one).  A handler is given what it can see, d:                             *)
(*   f          the fields of the parameters, as far as they are known,      *)
(*   room       whether a file can be opened,                                *)
(*   uploading  whether e2efp, the file of an upload, is open,               *)
(*   connected  what the supplicant says of the station.                     *)
(* It returns the outcomes it may have: the steps it does on the system, in  *)
(* their order, and the response it leaves, none for a respLen of 0.         *)
(*                                                                           *)
(* The handlers of the streams are in TrafficAgent.                          *)
EXTENDS Integers, Sequences

\* The station's wireless interface.
WFA_STAUT_IF == "eth1"

NoFill == [k \in {} |-> "zero"]
Own(ks) == [k \in ks |-> "own"]

\* The interface of the parameters, which stands first in all structures that have one.
Intf(d) == IF "interface" \in DOMAIN d.f THEN d.f.interface ELSE "junk"
Parameter(d, k) == IF k \in DOMAIN d.f THEN d.f[k] ELSE "junk"

\* Responses: from the cleared gGenericResp, or from a local variable.
Response(tag, status, f, rest) == <<[tag |-> tag, status |-> status, f |-> f, rest |-> rest, whole |-> TRUE]>>

\* Mutant of Global: gGenericResp is not cleared before the command.
GlobalUncleared(tag, status, f) == Response(tag, status, f, "left")

Global(tag, status, f) == Response(tag, status, f, "zero")
Local(tag, f) == Response(tag, "COMPLETE", f, "left")
Complete(tag) == Global(tag, "COMPLETE", NoFill)
ERRORof(tag) == Global(tag, "ERROR", NoFill)

Outcome(steps, resp) == [steps |-> steps, resp |-> resp]
Only(resp) == {Outcome(<<>>, resp)}
Does(steps, resp) == {Outcome(steps, resp)}

\* Steps on the system: op is "disable", "set", "enable", "reassociate" of the
\* supplicant's network, "down", "up" of the interface, "open" of a file that is
\* never closed, "upload", "uploaded" of e2efp, "fault" of the process.
Step(op, i) == [op |-> op, intf |-> i, key |-> "none", value |-> "none"]
Set(i, key, value) == [op |-> "set", intf |-> i, key |-> key, value |-> value]
Fault == Does(<<Step("fault", "none")>>, <<>>)

\* Mutants of Reads: a file that cannot be opened is not answered, or not noticed.
ReadsSilently(d, tag, outcomes) == IF d.room THEN outcomes ELSE Only(<<>>)
ReadsAnyway(d, tag, outcomes) == outcomes

\* A handler that reads the output of a shell command from a file.
Reads(d, tag, outcomes) == IF d.room THEN outcomes ELSE Only(ERRORof(tag))

----------------------------------------------------------------------------
(* Information and addresses *)

NotDefinedYet(d) == Only(<<>>)
agtCmdProcGetVersion(d) == Only(Global(1, "COMPLETE", Own({"version"})))

\* Nothing is done for a bssid.  The parameters are too large for parmsVal, so that what
\* stands in its place is an earlier command's: either.
wfaStaAssociate(d) ==
  {Outcome(steps, Complete(22)) : steps \in {<<>>, <<Step("reassociate", Intf(d))>>}}

\* Bringing the interface down is followed by a command line that is only formatted.
wfaStaReAssociate(d) ==
  LET i == Intf(d)
  IN  {Outcome(steps, Complete(22)) : steps \in {<<>>, <<Step("down", i), Step("reassociate", i)>>}}

\* The file with the state is never closed; of an unknown interface it is empty,
\* and what is compared is what the stack held.
wfaStaIsConnected(d) ==
  LET read == IF Intf(d) = WFA_STAUT_IF THEN {IF d.connected THEN "1" ELSE "0"} ELSE {"0", "1"}
  IN  Reads(d, 14, {Outcome(<<Step("open", "none")>>, Global(14, "COMPLETE", [connected |-> c])) : c \in read})

\* The script may be missing; the address is whatever it prints.
wfaStaGetIpConfig(d) ==
  LET f == Own({"dhcp", "ip", "mask", "dns1", "dns2"})
  IN  Only(ERRORof(10)) \cup Reads(d, 10, Only(Global(10, "COMPLETE", f)))

\* The second interface field, which it takes, lies in the part of the parameters
\* that holds another command's values: no such interface is configured.
wfaStaSetIpConfig(d) == Only(Complete(11))

wfaStaVerifyIpConnection(d) ==
  Reads(d, 15, {Outcome(<<>>, Global(15, "COMPLETE", [connected |-> c])) : c \in {"0", "1"}})

\* Without the word HWaddr the status stays 0, or an error where the output was empty.
wfaStaGetMacAddress(d) ==
  Reads(d, 12, Only(Global(12, "COMPLETE", Own({"mac"}))) \cup Only(Global(12, "0", NoFill))
                 \cup Only(ERRORof(12)))

wfaStaGetStats(d) == Only(ERRORof(17))
wfaStaGetInfo(d) == Only(Local(27, Own({"info"})))
wfaDeviceGetInfo(d) == Only(Global(28, "COMPLETE", Own({"firmware"})))

\* The type is read where another command's parameters are.
wfaDeviceListIF(d) ==
  Only(Global(29, "COMPLETE", Own({"iftype", "ifs"}))) \cup Only(ERRORof(29))

\* Answers as if it were wfaStaGetInfo.
wfaStaDebugSet(d) == Only(Global(27, "COMPLETE", NoFill))
wfaStaGetBSSID(d) == Reads(d, 16, Only(Global(16, "COMPLETE", Own({"bssid"}))))
wfaStaSetMacAddr(d) == Only(Global(13, "0", NoFill))

\* Type and number of the piece are another command's values.  The first piece
\* opens the results, a piece that is not full closes them.
wfaStaUpload(d) ==
  LET piece(first) ==
        LET opens == IF first THEN <<Step("upload", "none")>> ELSE <<>>
        IN  {Outcome(opens \o <<Step("uploaded", "none")>>,
                     Global(32, "COMPLETE", [seqnum |-> "0", bytes |-> "own"])),
             Outcome(opens, Global(32, "COMPLETE", Own({"seqnum", "bytes"})))}
      reopened == d.room \/ d.uploading
  IN  Only(ERRORof(32))
      \cup Does(<<Step("uploaded", "none")>>, ERRORof(32))
      \cup (IF reopened THEN piece(TRUE) ELSE {})
      \cup (IF d.uploading THEN piece(FALSE) ELSE {})

----------------------------------------------------------------------------
(* Security: what the supplicant's network 0 is told *)

\* Mutant of Network: the network is not disabled first.
NetworkLeftOn(i, settings) == settings \o <<Step("enable", i)>>

\* It is disabled while it is configured.
Network(i, settings) == <<Step("disable", i)>> \o settings \o <<Step("enable", i)>>

\* The WEP keys that are given, or those of the lengths that are taken.
KeyNames == {"key1", "key2", "key3", "key4"}
KeysNamed(d, values) == {k \in KeyNames : Parameter(d, k) \in values}
KeysSet(d) == KeyNames \ KeysNamed(d, {"zero"})
Keys(d, i, taken) ==
  LET key(k) == IF k \in taken THEN <<Set(i, k, Parameter(d, k))>> ELSE <<>>
      active == [n \in {"0", "1", "2", "3"} |->
                   CASE n = "0" -> "key1" [] n = "1" -> "key2" [] n = "2" -> "key3" [] n = "3" -> "key4"]
      n == Parameter(d, "activeKey")
      tx == IF n \in DOMAIN active /\ active[n] \in taken THEN <<Set(i, "tx", n)>> ELSE <<>>
  IN  key("key1") \o key("key2") \o key("key3") \o key("key4") \o tx
NoKeys(i) == <<Set(i, "key1", "none"), Set(i, "key2", "none"), Set(i, "key3", "none"), Set(i, "key4", "none")>>

\* Mutant of wfaSetEncryption: the keys of an earlier command stay.
wfaSetEncryptionKeepsKeys(d) ==
  LET i == Intf(d)
  IN  Does(Network(i, <<Set(i, "ssid", Parameter(d, "ssid")), Set(i, "mode", "0"), Set(i, "key_mgmt", "NONE")>> \o
                      (IF Parameter(d, "encpType") = "wep" THEN Keys(d, i, KeysSet(d)) ELSE <<>>)), Complete(18))

wfaSetEncryption(d) ==
  LET i == Intf(d)
      keys == IF Parameter(d, "encpType") = "wep" THEN Keys(d, i, KeysSet(d)) ELSE NoKeys(i)
  IN  Does(Network(i, <<Set(i, "ssid", Parameter(d, "ssid")), Set(i, "mode", "0"),
                        Set(i, "key_mgmt", "NONE")>> \o keys), Complete(18))

wfaStaSetSecurity(d) == Only(<<>>)

\* What a key management type makes the supplicant use; the types that are not in
\* the table leave the network's as it is.
KeyMgmt(i, type, table) == IF type \in DOMAIN table THEN <<Set(i, "key_mgmt", table[type])>> ELSE <<>>
OnlyWpa == [t \in {"wpa"} |-> "WPA-EAP"]
FourTypes ==
  [t \in {"wpa2-sha256", "wpa2-eap", "wpa2-ft", "wpa"} |->
     CASE t = "wpa2-sha256" -> "WPA-SHA256" [] t = "wpa2-ft" -> "WPA-FT" [] OTHER -> "WPA-EAP"]

\* The method of an EAP command with the certificates, names and passwords it takes.
Method(i, eap) == <<Set(i, "eap", eap), Set(i, "credentials", eap)>>
Ssid(d) == <<Set(Intf(d), "ssid", Parameter(d, "ssid"))>>
Type(d) == Parameter(d, "keyMgmtType")

wfaStaSetEapTLS(d) ==
  LET i == Intf(d)
  IN  Does(Network(i, Ssid(d) \o KeyMgmt(i, Type(d), OnlyWpa) \o <<Set(i, "proto", "WPA")>> \o Method(i, "TLS")),
           Complete(20))

\* Nothing but the answer is left of it in this build.
wfaStaSetPSK(d) == Only(Complete(19))

wfaStaSetEapTTLS(d) ==
  LET i == Intf(d)
  IN  Does(Network(i, Ssid(d) \o <<Set(i, "key_mgmt", "WPA-EAP")>> \o Method(i, "TTLS")
                      \o <<Set(i, "proto", "WPA")>>), Complete(23))

\* The key management is set after the network is enabled.
wfaStaSetEapSIM(d) ==
  LET i == Intf(d)
  IN  Does(Network(i, Ssid(d) \o Method(i, "SIM") \o <<Set(i, "proto", "WPA")>>)
             \o KeyMgmt(i, Type(d), FourTypes), Complete(24))

wfaStaSetPEAP(d) ==
  LET i == Intf(d)
  IN  Does(Network(i, Ssid(d) \o Method(i, "PEAP") \o KeyMgmt(i, Type(d), FourTypes)), Complete(25))

\* Mutant of wfaStaSetEapFAST: the key management is set when the network is on again.
wfaStaSetEapFASTLate(d) ==
  LET i == Intf(d)
  IN  Does(Network(i, Ssid(d) \o Method(i, "FAST")) \o KeyMgmt(i, Type(d), OnlyWpa), Complete(38))

wfaStaSetEapFAST(d) ==
  LET i == Intf(d)
  IN  Does(Network(i, Ssid(d) \o KeyMgmt(i, Type(d), OnlyWpa) \o Method(i, "FAST")), Complete(38))

wfaStaSetEapAKA(d) ==
  LET i == Intf(d)
  IN  Does(Network(i, Ssid(d) \o KeyMgmt(i, Type(d), OnlyWpa)
                      \o <<Set(i, "proto", "WPA2"), Set(i, "proto", "CCMP")>> \o Method(i, "AKA")), Complete(39))

\* Only keys of 5 or 13 characters are taken.
wfaStaSetIBSS(d) ==
  LET i == Intf(d)
  IN  Does(Network(i, Ssid(d) \o <<Set(i, "mode", "1"), Set(i, "key_mgmt", "NONE")>>
                      \o (IF Parameter(d, "encpType") = "wep" THEN Keys(d, i, KeysNamed(d, {"5chars"})) ELSE <<>>)), Complete(26))

----------------------------------------------------------------------------
(* The rest of the station *)

wfaStaSetUAPSD(d) == Only(Complete(21))

\* Mutant of wfaStaSetMode: the interface is not brought up again.
wfaStaSetModeDown(d) == Does(<<Step("down", Intf(d))>>, Complete(31))

\* Works on the interface itself, which is destroyed and created in between.
wfaStaSetMode(d) == Does(<<Step("down", Intf(d)), Step("up", Intf(d))>>, Complete(31))
wfaStaSetPwrSave(d) == Only(Complete(35))

\* A text without a group is one of neither.
wfaStaSetWMM(d) == Only(IF Parameter(d, "GROUP") \in {"WMMAC", "WMM-CONFIG"} THEN Complete(33) ELSE ERRORof(33))
wfaStaSendNeigReq(d) == Only(Complete(36))
wfaStaSetSystime(d) == Only(Complete(40))

\* wfaExecuteCLI: the status is that of an environment variable, and without it there
\* is no string to convert.
CliStatuses == {"0", "1", "2", "other", "fault"}
Presets(status) ==
  CASE status = "fault" -> Fault
    [] status \in {"1", "2"} -> Only(Global(37, "INVALID", NoFill))
    [] OTHER -> Only(Complete(37))

\* Looking for the supplicant leaves the file with its number open.
wfaStaPresetParams(d) ==
  LET asked == Parameter(d, "supplicant") \in {"Default", "WPA_Supplicant"}
      cli == "1" \in {Parameter(d, "wmmFlag"), Parameter(d, "modeFlag")}
      opens == IF asked THEN <<Step("open", "none")>> ELSE <<>>
      done == IF cli THEN UNION {Presets(s) : s \in CliStatuses} ELSE Only(Complete(37))
      silent == {Outcome(steps, <<>>) : steps \in {<<>>, opens}}
      answered == {Outcome(opens \o o.steps, o.resp) : o \in done}
  IN  IF ~asked THEN answered ELSE IF d.room THEN silent \cup answered ELSE Only(<<>>)

wfaStaSet11n(d) == Only(Complete(41))
wfaStaSetWireless(d) == Only(Complete(42))
wfaStaSendADDBA(d) == Only(Global(43, "0", NoFill))
wfaStaSendCoExistMGMT(d) == Only(Global(44, "0", NoFill))
wfaStaSetRIFS(d) == Only(Global(45, "0", NoFill))
wfaStaResetDefault(d) == Only(Complete(46))
wfaStaDisconnect(d) == Only(Complete(47))
wfaStaDevSendFrame(d) == Only(Complete(48))
wfaStaSetRadio(d) == Only(Complete(72))
wfaStaSetRFeature(d) == Only(Complete(73))

----------------------------------------------------------------------------
(* Peer to peer, Wi-Fi Display, NFC, NAN and Wi-Fi Direct services: most of  *)
(* these handlers are left for the vendor to fill in.                        *)

wfaStaGetP2pDevAddress(d) == Only(Local(50, Own({"devid"})))
wfaStaSetP2p(d) == Only(Local(51, NoFill))
wfaStaP2pConnect(d) == Only(Local(52, NoFill))
wfaStaStartAutoGo(d) == Only(Local(53, Own({"grpid"})))
wfaStaP2pStartGrpFormation(d) == Only(Local(54, Own({"result", "grpId"})))
wfaStaP2pDissolve(d) == Only(Local(55, NoFill))
wfaStaSendP2pInvReq(d) == Only(Local(56, NoFill))
wfaStaAcceptP2pInvReq(d) == Only(Local(57, NoFill))
wfaStaSendP2pProvDisReq(d) == Only(Local(58, NoFill))
wfaStaSetWpsPbc(d) == Only(Local(59, NoFill))
wfaStaWpsReadPin(d) == Only(Local(60, Own({"wpsPin"})))
wfaStaWpsEnterPin(d) == Only(Local(61, NoFill))
wfaStaGetPsk(d) == Only(Local(62, Own({"passPhrase", "ssid"})))
wfaStaP2pReset(d) == Only(Local(63, NoFill))

\* Answers as if it were wfaStaWpsReadPin.
wfaStaWpsReadLabel(d) == Only(Local(60, Own({"wpsPin"})))

\* The second name server is not filled, nor printed.
wfaStaGetP2pIpConfig(d) == Only(Local(65, Own({"dhcp", "ip", "mask", "dns1", "mac"})))
wfaStaSendServiceDiscoveryReq(d) == Only(Local(66, NoFill))
wfaStaSendP2pPresenceReq(d) == Only(Local(67, NoFill))

\* Sends the first four bytes of a response that announces all of it.
Cut(tag) == <<[Local(tag, NoFill)[1] EXCEPT !.whole = FALSE]>>
wfaStaSetSleepReq(d) == Only(Cut(68))
wfaStaSetOpportunisticPsReq(d) == Only(Cut(69))
wfaStaAddArpTableEntry(d) == Only(Local(70, NoFill))
wfaStaBlockICMPResponse(d) == Only(Local(71, NoFill))
wfaStaStartWfdConnection(d) == Only(Local(74, Own({"wfdSessionId", "p2pGrpId", "result"})))

\* A command of the shell: without its row in wfa_cli.txt or its pipe it is an error,
\* without output the pipe stays open too, and a code other than 0, 1 and 2 leaves the
\* status as it was.  An empty command is copied from NULL, and the line is formatted
\* into itself: either may be the end of the process.
wfaStaCliCommand(d) ==
  LET answer(status, flag) ==
        Response(75, status, [resFlag |-> flag, result |-> IF flag = "1" THEN "own" ELSE "left"], "left")
      ran == {Outcome(<<>>, answer(s, flag)) : s \in {"COMPLETE", "ERROR", "INVALID", "RUNNING", "0"}, flag \in {"0", "1"}}
      failed == Response(75, "ERROR", NoFill, "left")
  IN  Fault \cup Only(failed) \cup (IF d.room THEN ran \cup Does(<<Step("open", "none")>>, failed) ELSE {})

wfaStaConnectGoStartWfd(d) == Only(Local(76, Own({"wfdSessionId"})))
wfaStaGenerateEvent(d) == Only(Local(77, NoFill))
wfaStaReinvokeWfdSession(d) == Only(Local(78, NoFill))

\* A parameter that the programme does not have leaves the type as it was.
wfaStaGetParameter(d) ==
  LET program == Parameter(d, "program")
      asked == Parameter(d, "Parameter")
  IN  Only(Local(79,
        CASE program \in {"WFD", "WFDS"} /\ asked = "DiscoveredDevList" ->
               [getParamType |-> "eDiscoveredDevList", devList |-> "own"]
          [] program = "WFDS" /\ asked = "OpenPorts" -> [getParamType |-> "eOpenPorts", devList |-> "own"]
          [] program = "NAN" /\ asked = "MasterPref" -> [getParamType |-> "eMasterPref", masterPref |-> "own"]
          [] OTHER -> NoFill))

wfaStaNfcAction(d) == Only(Local(80, Own({"result", "grpId", "peerRole"})))
wfaStaExecAction(d) == Only(Local(86, NoFill))

\* Only three primitives have a response of their own.
wfaStaInvokeCommand(d) ==
  LET t == Parameter(d, "primitive_type")
      fields == CASE t = "Advertise" -> {"servName", "advtID", "serviceMac"}
                  [] t = "Seek" -> {"searchID"}
                  [] t = "ConnectSession" -> {"sessionID", "result", "grpId"}
                  [] OTHER -> {}
  IN  Only(Local(81, IF fields = {} THEN NoFill
                     ELSE [k \in fields \cup {"invokeCmdRspType"} |-> IF k = "invokeCmdRspType" THEN t ELSE "own"]))

wfaStaManageService(d) == Only(Local(82, Own({"sessionID", "result", "grpId"})))

\* Fills the list of names, not the event that is printed.
wfaStaGetEvents(d) == Only(Local(83, Own({"result"})))

wfaStaGetEventDetails(d) ==
  LET e == Parameter(d, "EventName")
      fields == CASE e = "SearchResult"     -> {"searchID", "serviceMac", "advID", "serviceName", "serviceStatus"}
                  [] e = "SearchTerminated" -> {"searchID"}
                  [] e = "AdvertiseStatus"  -> {"advID", "status"}
                  [] e = "SessionRequest"   -> {"advID", "sessionMac", "sessionID"}
                  [] e = "ConnectStatus"    -> {"sessionID", "sessionMac", "status"}
                  [] e = "SessionStatus"    -> {"sessionID", "sessionMac", "state"}
                  [] e = "PortStatus"       -> {"sessionID", "sessionMac", "port", "status"}
                  [] OTHER                  -> {}
  IN  Only(Local(84, IF fields = {} THEN NoFill
                     ELSE [k \in fields \cup {"eventID"} |-> IF k = "eventID" THEN e ELSE "own"]))

----------------------------------------------------------------------------
\* The table.  It has 87 entries: what it calls for the tag of wfaStaExecAction's
\* command, 88, lies behind it.
gWfaCmdFuncTbl(tag, d) ==
  CASE tag = 1  -> agtCmdProcGetVersion(d)    [] tag = 9  -> NotDefinedYet(d)
    [] tag = 10 -> wfaStaGetIpConfig(d)       [] tag = 11 -> wfaStaSetIpConfig(d)
    [] tag = 12 -> wfaStaGetMacAddress(d)     [] tag = 13 -> wfaStaSetMacAddr(d)
    [] tag = 14 -> wfaStaIsConnected(d)       [] tag = 15 -> wfaStaVerifyIpConnection(d)
    [] tag = 16 -> wfaStaGetBSSID(d)          [] tag = 17 -> wfaStaGetStats(d)
    [] tag = 18 -> wfaSetEncryption(d)        [] tag = 19 -> wfaStaSetPSK(d)
    [] tag = 20 -> wfaStaSetEapTLS(d)         [] tag = 21 -> wfaStaSetUAPSD(d)
    [] tag = 22 -> wfaStaAssociate(d)         [] tag = 23 -> wfaStaSetEapTTLS(d)
    [] tag = 24 -> wfaStaSetEapSIM(d)         [] tag = 25 -> wfaStaSetPEAP(d)
    [] tag = 26 -> wfaStaSetIBSS(d)           [] tag = 27 -> wfaStaGetInfo(d)
    [] tag = 28 -> wfaDeviceGetInfo(d)        [] tag = 29 -> wfaDeviceListIF(d)
    [] tag = 30 -> wfaStaDebugSet(d)          [] tag = 31 -> wfaStaSetMode(d)
    [] tag = 32 -> wfaStaUpload(d)            [] tag = 33 -> wfaStaSetWMM(d)
    [] tag = 34 -> wfaStaReAssociate(d)       [] tag = 35 -> wfaStaSetPwrSave(d)
    [] tag = 36 -> wfaStaSendNeigReq(d)       [] tag = 37 -> wfaStaPresetParams(d)
    [] tag = 38 -> wfaStaSetEapFAST(d)        [] tag = 39 -> wfaStaSetEapAKA(d)
    [] tag = 40 -> wfaStaSetSystime(d)        [] tag = 41 -> wfaStaSet11n(d)
    [] tag = 42 -> wfaStaSetWireless(d)       [] tag = 43 -> wfaStaSendADDBA(d)
    [] tag = 44 -> wfaStaSendCoExistMGMT(d)   [] tag = 45 -> wfaStaSetRIFS(d)
    [] tag = 46 -> wfaStaResetDefault(d)      [] tag = 47 -> wfaStaDisconnect(d)
    [] tag = 48 -> wfaStaDevSendFrame(d)      [] tag = 49 -> wfaStaSetSecurity(d)
    [] tag = 50 -> wfaStaGetP2pDevAddress(d)  [] tag = 51 -> wfaStaSetP2p(d)
    [] tag = 52 -> wfaStaP2pConnect(d)        [] tag = 53 -> wfaStaStartAutoGo(d)
    [] tag = 54 -> wfaStaP2pStartGrpFormation(d) [] tag = 55 -> wfaStaP2pDissolve(d)
    [] tag = 56 -> wfaStaSendP2pInvReq(d)     [] tag = 57 -> wfaStaAcceptP2pInvReq(d)
    [] tag = 58 -> wfaStaSendP2pProvDisReq(d) [] tag = 59 -> wfaStaSetWpsPbc(d)
    [] tag = 60 -> wfaStaWpsReadPin(d)        [] tag = 61 -> wfaStaWpsEnterPin(d)
    [] tag = 62 -> wfaStaGetPsk(d)            [] tag = 63 -> wfaStaP2pReset(d)
    [] tag = 64 -> wfaStaWpsReadLabel(d)      [] tag = 65 -> wfaStaGetP2pIpConfig(d)
    [] tag = 66 -> wfaStaSendServiceDiscoveryReq(d) [] tag = 67 -> wfaStaSendP2pPresenceReq(d)
    [] tag = 68 -> wfaStaSetSleepReq(d)       [] tag = 69 -> wfaStaSetOpportunisticPsReq(d)
    [] tag = 70 -> wfaStaAddArpTableEntry(d)  [] tag = 71 -> wfaStaBlockICMPResponse(d)
    [] tag = 72 -> wfaStaSetRadio(d)          [] tag = 73 -> wfaStaSetRFeature(d)
    [] tag = 74 -> wfaStaStartWfdConnection(d) [] tag = 75 -> wfaStaCliCommand(d)
    [] tag = 76 -> wfaStaConnectGoStartWfd(d) [] tag = 77 -> wfaStaGenerateEvent(d)
    [] tag = 78 -> wfaStaReinvokeWfdSession(d) [] tag = 79 -> wfaStaGetParameter(d)
    [] tag = 80 -> wfaStaNfcAction(d)         [] tag = 81 -> wfaStaInvokeCommand(d)
    [] tag = 82 -> wfaStaManageService(d)     [] tag = 83 -> wfaStaGetEvents(d)
    [] tag = 84 -> wfaStaGetEventDetails(d)   [] tag = 85 -> wfaStaExecAction(d)
    [] tag = 88 -> Only(<<>>) \cup Fault
=============================================================================

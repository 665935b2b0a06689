----------------------------- MODULE Responses -----------------------------
(* What the control agent says of a response: the response handlers of       *)
(* lib/wfa_ca_resp.c and their table.  A response is its tag, its status and *)
(* the fields of the union in it that the device's handler filled; "rest" is *)
(* what the other bytes of the union are, "zero" in the cleared global       *)
(* gGenericResp and "left" in a local variable that nobody cleared.  A       *)
(* handler may say several things when it branches on such a byte.           *)
(*                                                                           *)
(* The statistics of the streams are formatted in ControlLink.               *)
EXTENDS Integers, Sequences

Statuses == {"COMPLETE", "ERROR", "INVALID", "RUNNING", "0"}

\* What is said: the handler that formats it, the word after "status,", "" when
\* the zeroed gRespStr is sent, of length 0, and the fields printed after it.
Answer(by, word, data) == [by |-> by, word |-> word, data |-> data]
NoData == [k \in {} |-> "zero"]

Value(r, k) == IF k \in DOMAIN r.f THEN r.f[k] ELSE r.rest
Data(r, ks) == [k \in ks |-> Value(r, k)]

\* A switch over the status: COMPLETE prints the fields ks, ERROR the word given
\* (most handlers have no case for it), and the default is INVALID.
Says(by, r, ks, error) ==
  {CASE r.status = "RUNNING"  -> Answer(by, "", NoData)
     [] r.status = "COMPLETE" -> Answer(by, "COMPLETE", Data(r, ks))
     [] r.status = "ERROR"    -> Answer(by, error, NoData)
     [] OTHER                 -> Answer(by, "INVALID", NoData)}

\* A branch on a field: any branch when the field is left as it was.
Branches(r, k, values) == IF Value(r, k) = "left" THEN values ELSE {Value(r, k)}

caCmdNotDefinedYet(r) == {Answer("caCmdNotDefinedYet", "ERROR", NoData)}

\* An error falls through to the default.
wfaStaVerifyIpConnectResp(r) == Says("wfaStaVerifyIpConnectResp", r, {"connected"}, "INVALID")
wfaStaIsConnectedResp(r) == Says("wfaStaIsConnectedResp", r, {"connected"}, "ERROR")
wfaStaGetIpConfigResp(r) == Says("wfaStaGetIpConfigResp", r, {"dhcp", "ip", "mask", "dns1", "dns2"}, "ERROR")
wfaGetVersionResp(r) == Says("wfaGetVersionResp", r, {"version"}, "INVALID")
wfaStaGetInfoResp(r) == Says("wfaStaGetInfoResp", r, {"info"}, "INVALID")
wfaTrafficAgentConfigResp(r) == Says("wfaTrafficAgentConfigResp", r, {"streamID"}, "INVALID")
wfaTrafficAgentPingStartResp(r) == Says("wfaTrafficAgentPingStartResp", r, {"streamID"}, "INVALID")
wfaTrafficAgentPingStopResp(r) == Says("wfaTrafficAgentPingStopResp", r, {"sent", "replies"}, "INVALID")

\* Whatever failed, an address of zeros is COMPLETE.
ZeroAddress(by, r, k) ==
  CASE r.status = "RUNNING"  -> {Answer(by, "", NoData)}
    [] r.status = "COMPLETE" -> {Answer(by, "COMPLETE", Data(r, {k}))}
    [] OTHER                 -> {Answer(by, "COMPLETE", [mac |-> "none"])}
wfaStaGetMacAddressResp(r) == ZeroAddress("wfaStaGetMacAddressResp", r, "mac")
wfaStaGetBSSIDResp(r) == ZeroAddress("wfaStaGetBSSIDResp", r, "bssid")

wfaStaSetEncryptionResp(r) == Says("wfaStaSetEncryptionResp", r, {}, "ERROR")
wfaStaGetStatsResp(r) == Says("wfaStaGetStatsResp", r, {"stats"}, "ERROR")

\* The firmware is printed whatever it holds: its test is always true.
wfaDeviceGetInfoResp(r) == Says("wfaDeviceGetInfoResp", r, {"firmware"}, "INVALID")
wfaDeviceListIFResp(r) == Says("wfaDeviceListIFResp", r, {"iftype", "ifs"}, "INVALID")

\* No default: another status says nothing.
wfaStaUploadResp(r) ==
  IF r.status \in {"COMPLETE", "ERROR"} THEN Says("wfaStaUploadResp", r, {"seqnum", "bytes"}, "ERROR")
  ELSE {Answer("wfaStaUploadResp", "", NoData)}

wfaStaGetP2pDevAddressResp(r) == Says("wfaStaGetP2pDevAddressResp", r, {"devid"}, "INVALID")
wfaStaStartAutoGO(r) == Says("wfaStaStartAutoGO", r, {"grpid"}, "INVALID")
wfaStaP2pStartGrpFormResp(r) == Says("wfaStaP2pStartGrpFormResp", r, {"result", "grpId"}, "INVALID")
wfaStaWpsReadPinResp(r) == Says("wfaStaWpsReadPinResp", r, {"wpsPin"}, "INVALID")
wfaStaGetPskResp(r) == Says("wfaStaGetPskResp", r, {"passPhrase", "ssid"}, "INVALID")
wfaStaWpsReadLabelResp(r) == Says("wfaStaWpsReadLabelResp", r, {"wpsPin"}, "INVALID")
wfaStaGetP2pIpConfigResp(r) ==
  Says("wfaStaGetP2pIpConfigResp", r, {"dhcp", "ip", "mask", "dns1", "mac"}, "ERROR")
wfaStaGenericResp(r) == Says("wfaStaGenericResp", r, {}, "ERROR")

wfaStaStartWfdConnectionResp(r) ==
  Says("wfaStaStartWfdConnectionResp", r, {"result", "p2pGrpId", "wfdSessionId"}, "INVALID")
wfaStaCliCmdResp(r) ==
  UNION {Says("wfaStaCliCmdResp", r, IF flag = "1" THEN {"result"} ELSE {}, "ERROR") :
           flag \in Branches(r, "resFlag", {"0", "1"})}
wfaStaConnectGoStartWfdResp(r) == Says("wfaStaConnectGoStartWfdResp", r, {"wfdSessionId"}, "INVALID")

\* A type that is none of the three is COMPLETE too, with a parameter unknown.
ParameterTypes == {"eDiscoveredDevList", "eOpenPorts", "eMasterPref", "other"}
wfaStaGetParameterResp(r) ==
  UNION {Says("wfaStaGetParameterResp", r,
              CASE type = "other" -> {} [] type = "eMasterPref" -> {"masterPref"} [] OTHER -> {"devList"},
              "INVALID") : type \in Branches(r, "getParamType", ParameterTypes)}

wfaStaNfcActionResp(r) == Says("wfaStaNfcActionResp", r, {"result", "grpId", "peerRole"}, "INVALID")
wfaStaExecActionResp(r) == Says("wfaStaExecActionResp", r, {"mac"}, "ERROR")

\* A type that no primitive has makes a complete response INVALID.
PrimitiveResponses == {"Advertise", "Seek", "ConnectSession", "Session", "other"}
wfaStaInvokeCommandResp(r) ==
  LET fields == [Advertise |-> {"servName", "advtID", "serviceMac"}, Seek |-> {"searchID"},
                 ConnectSession |-> {"sessionID", "result", "grpId"}, Session |-> {}]
  IN  UNION {IF type = "other" THEN {Answer("wfaStaInvokeCommandResp", "INVALID", NoData)}
             ELSE Says("wfaStaInvokeCommandResp", r, fields[type], "INVALID") :
               type \in Branches(r, "invokeCmdRspType", PrimitiveResponses)}

wfaStaManageServiceResp(r) == Says("wfaStaManageServiceResp", r, {"sessionID", "result", "grpId"}, "INVALID")

\* Prints the four fields of an event, of which the device's handler fills none.
wfaStaGetEventsResp(r) ==
  Says("wfaStaGetEventsResp", r, {"eventName", "remoteInstanceID", "localInstanceID", "mac"}, "INVALID")

EventTypes == {"SearchResult", "SearchTerminated", "AdvertiseStatus", "SessionRequest", "ConnectStatus",
               "SessionStatus", "PortStatus", "other"}
EventFields(type) ==
  CASE type = "SearchResult"     -> {"searchID", "serviceMac", "advID", "serviceName", "serviceStatus"}
    [] type = "SearchTerminated" -> {"searchID"}
    [] type = "AdvertiseStatus"  -> {"advID", "status"}
    [] type = "SessionRequest"   -> {"advID", "sessionMac", "sessionID"}
    [] type = "ConnectStatus"    -> {"sessionID", "sessionMac", "status"}
    [] type = "SessionStatus"    -> {"sessionID", "sessionMac", "state"}
    [] type = "PortStatus"       -> {"sessionID", "sessionMac", "port", "status"}
wfaStaGetEventDataResp(r) ==
  UNION {IF type = "other" THEN {Answer("wfaStaGetEventDataResp", "INVALID", NoData)}
         ELSE Says("wfaStaGetEventDataResp", r, EventFields(type), "INVALID") :
           type \in Branches(r, "eventID", EventTypes)}

----------------------------------------------------------------------------
\* The table: every tag that is not named is answered by the generic handler.
wfaCmdRespProcFuncTbl(r) ==
  CASE r.tag = 1  -> wfaGetVersionResp(r)            [] r.tag = 2  -> wfaTrafficAgentPingStartResp(r)
    [] r.tag = 3  -> wfaTrafficAgentPingStopResp(r)  [] r.tag = 4  -> wfaTrafficAgentConfigResp(r)
    [] r.tag = 9  -> caCmdNotDefinedYet(r)           [] r.tag = 10 -> wfaStaGetIpConfigResp(r)
    [] r.tag = 12 -> wfaStaGetMacAddressResp(r)      [] r.tag = 14 -> wfaStaIsConnectedResp(r)
    [] r.tag = 15 -> wfaStaVerifyIpConnectResp(r)    [] r.tag = 16 -> wfaStaGetBSSIDResp(r)
    [] r.tag = 17 -> wfaStaGetStatsResp(r)           [] r.tag = 18 -> wfaStaSetEncryptionResp(r)
    [] r.tag = 27 -> wfaStaGetInfoResp(r)            [] r.tag = 28 -> wfaDeviceGetInfoResp(r)
    [] r.tag = 29 -> wfaDeviceListIFResp(r)          [] r.tag = 32 -> wfaStaUploadResp(r)
    [] r.tag = 50 -> wfaStaGetP2pDevAddressResp(r)   [] r.tag = 53 -> wfaStaStartAutoGO(r)
    [] r.tag = 54 -> wfaStaP2pStartGrpFormResp(r)    [] r.tag = 60 -> wfaStaWpsReadPinResp(r)
    [] r.tag = 62 -> wfaStaGetPskResp(r)             [] r.tag = 64 -> wfaStaWpsReadLabelResp(r)
    [] r.tag = 65 -> wfaStaGetP2pIpConfigResp(r)     [] r.tag = 74 -> wfaStaStartWfdConnectionResp(r)
    [] r.tag = 75 -> wfaStaCliCmdResp(r)             [] r.tag = 76 -> wfaStaConnectGoStartWfdResp(r)
    [] r.tag = 79 -> wfaStaGetParameterResp(r)       [] r.tag = 80 -> wfaStaNfcActionResp(r)
    [] r.tag = 81 -> wfaStaInvokeCommandResp(r)      [] r.tag = 82 -> wfaStaManageServiceResp(r)
    [] r.tag = 83 -> wfaStaGetEventsResp(r)          [] r.tag = 84 -> wfaStaGetEventDataResp(r)
    [] r.tag = 86 -> wfaStaExecActionResp(r)         [] OTHER -> wfaStaGenericResp(r)
=============================================================================

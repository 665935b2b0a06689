------------------------------- MODULE Station -------------------------------
(***************************************************************************)
(* The station under test and the two programs that control it, one        *)
(* command after the other: the control agent parses the text of a command *)
(* (Parsers), the device decodes its TLV, carries it out on the supplicant *)
(* and the interface (Handlers) and answers, and the agent tells the test  *)
(* manager what the answer says (Responses).  What makes a command depend  *)
(* on the ones before it is all that stays: the parameters in parmsVal,    *)
(* the supplicant's network, the interface, the open files, and the bytes  *)
(* the agent keeps of a response that is not complete.                     *)
(*                                                                         *)
(* The connections between the programs are in ControlLink, the streams in *)
(* TrafficAgent.                                                           *)
(***************************************************************************)
EXTENDS Parsers, Handlers, Responses, Functions

CONSTANTS
  Suites,    \* sets of commands, each a record of its name and its args
  MaxFiles   \* bound: files the device can have open

\* The commands of the streams are TrafficAgent's, with the parsers of all but these and
\* with the handlers of all their tags.
TrafficNames == {"traffic_send_ping", "traffic_stop_ping", "traffic_agent_config"}
ASSUME StationAssumption ==
  /\ \A s \in Suites : \A c \in s : c.name \notin TrafficNames
  /\ MaxFiles \in Nat

VARIABLES
  suite,     \* the commands of this test
  pc,        \* whether the agent was built with WFA_PC_CONSOLE
  phase,     \* "idle", a command is at the "device", its response at the "agent", "waiting" for one
  asked,     \* the last command
  tlv,       \* what the agent made of it
  parms,     \* the device's parmsVal
  wpa,       \* network 0 of the supplicant: what is set, what is used, whether it is enabled
  up,        \* the interface is up
  files,     \* files the device has open and lost
  e2efp,     \* whether the file of an upload is open
  response,  \* the device's answer to the command
  kept,      \* what the agent keeps of responses that are not complete
  said       \* what the agent told the test manager

agent   == <<suite, pc, asked, tlv>>
station == <<wpa, up>>
device  == <<parms, wpa, up, files, e2efp>>
vars    == <<agent, phase, device, response, kept, said>>

Nothing == Answer("nobody", "", NoData)
NoCommand == [name |-> "none", args |-> <<>>]

\* The supplicant's network as its configuration file has it, or as it was told.
Settings == {"ssid", "mode", "key_mgmt", "eap", "proto", "credentials", "key1", "key2", "key3", "key4", "tx"}
Configured == [k \in Settings |-> "configured"]

Init ==
  /\ suite \in Suites /\ pc \in BOOLEAN
  /\ phase = "idle" /\ asked = NoCommand /\ tlv = WFA_FAILURE
  /\ parms = NoFill
  /\ wpa = [set |-> Configured, used |-> Configured, enabled |-> TRUE] /\ up = TRUE
  /\ files = 0 /\ e2efp = FALSE
  /\ response = <<>> /\ kept = <<>> /\ said = Nothing

----------------------------------------------------------------------------
(* The agent: a command that is in its table and parses goes to the device. *)

Command(c) ==
  /\ phase = "idle"
  /\ asked' = c /\ tlv' = nameStr(c.name, c.args, pc)
  /\ response' = <<>>
  /\ \/ tlv' = WFA_FAILURE /\ phase' = "idle" /\ said' = Answer("ca", "INVALID", NoData)
     \/ tlv' # WFA_FAILURE /\ phase' = "device" /\ said' = Nothing
  /\ UNCHANGED <<suite, pc, device, kept>>

----------------------------------------------------------------------------
(* The supplicant and the interface, which are not part of the repository. *)

\* Values that wpa_supplicant does not know, or cannot take without quotes.
Rejected == {<<"key_mgmt", "WPA-SHA256">>, <<"key_mgmt", "WPA-FT">>, <<"proto", "CCMP">>,
             <<"key1", "5chars">>, <<"key2", "5chars">>, <<"key3", "5chars">>, <<"key4", "5chars">>}

\* What is set takes effect when the network is enabled or the station reassociates.
Supplicant(w, step) ==
  CASE step.op = "disable" -> [w EXCEPT !.enabled = FALSE]
    [] step.op = "enable" /\ ~w.enabled -> [w EXCEPT !.enabled = TRUE, !.used = w.set]
    [] step.op = "reassociate" /\ w.enabled -> [w EXCEPT !.used = w.set]
    [] step.op = "set" /\ <<step.key, step.value>> \notin Rejected -> [w EXCEPT !.set[step.key] = step.value]
    [] OTHER -> w

\* A step of a handler: those on another interface are not the station's.
SupplicantOps == {"disable", "set", "enable", "reassociate"}
Apply(s, step) ==
  CASE step.op = "fault"    -> [s EXCEPT !.alive = FALSE]
    [] step.op = "open"     -> [s EXCEPT !.files = @ + 1]
    [] step.op = "upload"   -> [s EXCEPT !.e2efp = TRUE]
    [] step.op = "uploaded" -> [s EXCEPT !.e2efp = FALSE]
    [] step.op \in {"down", "up"} /\ step.intf = WFA_STAUT_IF -> [s EXCEPT !.up = (step.op = "up")]
    [] step.op \in SupplicantOps /\ step.intf = WFA_STAUT_IF -> [s EXCEPT !.wpa = Supplicant(@, step)]
    [] OTHER -> s

\* The steps of a handler, one after the other.
Run(s, steps) ==
  LET run[n \in 0 .. Len(steps)] == IF n = 0 THEN s ELSE Apply(run[n - 1], steps[n])
  IN  run[Len(steps)]

Afterwards(steps) ==
  Run([wpa |-> wpa, up |-> up, files |-> files, e2efp |-> e2efp, alive |-> TRUE], steps)

----------------------------------------------------------------------------
(* The device. *)

MAX_PARMS_BUFF == 640

\* Mutant of wfaDecodeTLV: less room for parameters.
wfaDecodeTLVNarrow(t) == IF t.size \in 1 .. 215 THEN t.f ELSE parms

\* Parameters that do not fit are not copied, which is not an error: those of the
\* last command that did fit are there.
wfaDecodeTLV(t) == IF t.size \in 1 .. MAX_PARMS_BUFF - 1 THEN t.f ELSE parms

\* What a handler sees.
Seen(f, connected) ==
  [f |-> f, room |-> files + (IF e2efp THEN 1 ELSE 0) < MaxFiles,
   uploading |-> e2efp, connected |-> connected]

\* A tag of 0 is nobody's command.
Handle ==
  /\ phase = "device"
  /\ parms' = wfaDecodeTLV(tlv)
  /\ \E connected \in IF wpa.enabled /\ up THEN BOOLEAN ELSE {FALSE} :
       \E o \in IF tlv.tag = 0 THEN NotDefinedYet(Seen(parms', connected))
                ELSE gWfaCmdFuncTbl(tlv.tag, Seen(parms', connected)) :
         LET s == Afterwards(o.steps)
         IN  /\ s.alive
             /\ wpa' = s.wpa /\ up' = s.up /\ files' = s.files /\ e2efp' = s.e2efp
             /\ response' = o.resp
             /\ phase' = IF o.resp = <<>> THEN "waiting" ELSE "agent"
  /\ UNCHANGED <<agent, kept, said>>

\* The process ends and is started again: nothing of it stays, and nothing is answered.
Restart ==
  /\ phase = "device" /\ tlv.tag # 0
  /\ \E o \in gWfaCmdFuncTbl(tlv.tag, Seen(wfaDecodeTLV(tlv), FALSE)) : ~Afterwards(o.steps).alive
  /\ parms' = NoFill /\ files' = 0 /\ e2efp' = FALSE /\ kept' = <<>>
  /\ phase' = "waiting"
  /\ UNCHANGED <<agent, station, response, said>>

----------------------------------------------------------------------------
(* The agent: a response, behind what it keeps. *)

\* Mutant of Received: what is kept is not zeroed when more is received.
ReceivedBehind(k, r) == IF k = <<>> THEN r ELSE k

\* What is kept is zeroed when more is received, and zeros are nobody's response.
Received(k, r) == r

Receive ==
  /\ phase = "agent"
  /\ IF ~response[1].whole
     THEN kept' = response /\ phase' = "waiting" /\ UNCHANGED said
     ELSE /\ kept' = <<>>
          /\ \E a \in wfaCmdRespProcFuncTbl(Received(kept, response)[1]) :
               said' = a /\ phase' = IF a.word = "" THEN "waiting" ELSE "idle"
  /\ UNCHANGED <<agent, device, response>>

\* The test manager waits for an answer that does not come.
GiveUp ==
  /\ phase = "waiting" /\ phase' = "idle"
  /\ UNCHANGED <<agent, device, response, kept, said>>

Next == Handle \/ Restart \/ Receive \/ GiveUp \/ \E c \in suite : Command(c)

Spec == Init /\ [][Next]_vars

----------------------------------------------------------------------------
(* Properties.  What a command asked for is judged when it has been answered. *)

Told(word) == phase = "idle" /\ said.word = word
AskedOf(i) == "interface" \in DOMAIN tlv.f /\ tlv.f.interface = i

\* Types of the state (lib/wfa_cs.c and ca/wfa_ca.c), with the bound on the files that
\* every handler that opens one must respect.
TypeOK ==
  /\ suite \in Suites /\ pc \in BOOLEAN /\ asked \in suite \cup {NoCommand}
  /\ phase \in {"idle", "device", "agent", "waiting"}
  /\ tlv.tag \in -1 .. 88 /\ tlv.size \in 0 .. dutCommand_t
  /\ DOMAIN wpa.set = Settings /\ DOMAIN wpa.used = Settings /\ wpa.enabled \in BOOLEAN /\ up \in BOOLEAN
  /\ files \in 0 .. MaxFiles /\ e2efp \in BOOLEAN
  /\ files + (IF e2efp THEN 1 ELSE 0) <= MaxFiles
  /\ \A r \in Range(response) \cup Range(kept) : r.tag \in 1 .. 86 /\ r.status \in Statuses
  /\ said.word \in {"", "COMPLETE", "ERROR", "INVALID"}

\* An answer is made by the handler of the command it answers (the tables of wfa_cmdtbl.c
\* and wfa_ca_resp.c), whatever was left of the commands before it; two handlers of the
\* device take another's tag.
Borrowing == {"sta_debug_set", "sta_wps_read_label"}
OwnPrinter ==
  Told("COMPLETE") /\ asked.name \notin Borrowing =>
    \E a \in wfaCmdRespProcFuncTbl(Local(tlv.tag, NoFill)[1]) : said.by = a.by

\* What is printed of a complete response was filled for it, or cleared (the handlers of
\* wfa_cs.c and those of wfa_ca_resp.c agree on the fields).  The commands left out are
\* answered from a local structure with fields that their handler does not fill.
HalfFilled == {"sta_get_events", "sta_get_parameter", "sta_invoke_command", "sta_get_event_details", "wfa_cli_cmd"}
NothingLeftPrinted ==
  Told("COMPLETE") /\ asked.name \notin HalfFilled => \A k \in DOMAIN said.data : said.data[k] # "left"

\* The test manager waits in vain only for the commands that are not sent, are answered in
\* part, are not in the device's table, or end the device (wfa_cs.c:2264, 3445, 3463 and
\* 3866, wfa_cmdproc.c:1299, wfa_cmdtbl.c:52); not for want of a file, or of an interface.
SilentOnly ==
  phase = "waiting" => asked.name \in {"sta_set_security", "sta_set_sleep", "sta_set_opportunistic_ps",
                                       "sta_exec_action", "sta_preset_testparameters", "wfa_cli_cmd"}

\* After any sequence of commands the station's network is enabled and uses what it was
\* told (the handlers that disable it, wfa_cs.c:804 to 2204); only the key management
\* that wfaStaSetEapSIM sets when the network is on again waits for the next of them.
StationConfigured ==
  /\ wpa.enabled
  /\ \A k \in Settings : wpa.used[k] # wpa.set[k] => k = "key_mgmt" /\ wpa.set.eap = "SIM"

\* A network without encryption has nothing of the commands before it: no ad hoc mode, no
\* 802.1X and no WEP key (wfaSetEncryption, wfa_cs.c:804).
OpenNetworkIsClean ==
  Told("COMPLETE") /\ asked.name = "sta_set_encryption" /\ AskedOf(WFA_STAUT_IF) /\ tlv.f.encpType # "wep" =>
    /\ wpa.used.ssid = tlv.f.ssid /\ wpa.used.mode = "0" /\ wpa.used.key_mgmt = "NONE"
    /\ \A k \in WepKeys : wpa.used[k] = "none"

\* A complete answer to an EAP command of type wpa means that the network uses 802.1X with
\* that method (wfa_cs.c:896 to 2204), except after wfaStaSetEapSIM, see StationConfigured.
EapOf(name) ==
  CASE name = "sta_set_eaptls" -> "TLS" [] name = "sta_set_eapttls" -> "TTLS" [] name = "sta_set_peap" -> "PEAP"
    [] name = "sta_set_eapfast" -> "FAST" [] name = "sta_set_eapaka" -> "AKA" [] OTHER -> "none"
EapIsUsed ==
  Told("COMPLETE") /\ EapOf(asked.name) # "none" /\ AskedOf(WFA_STAUT_IF) /\ tlv.f.keyMgmtType = "wpa" =>
    /\ wpa.used.key_mgmt = "WPA-EAP"
    /\ wpa.used.eap = EapOf(asked.name) /\ wpa.used.credentials = wpa.used.eap

\* A command for another interface leaves the station alone (wfaDecodeTLV, wfa_tlv.c:64),
\* unless its parameters do not fit into parmsVal: the handler then sees the interface of
\* an earlier command.
OtherInterfacesLeaveStationAlone ==
  [][phase = "device" /\ tlv.size < MAX_PARMS_BUFF /\ "interface" \in DOMAIN tlv.f /\ ~AskedOf(WFA_STAUT_IF)
       => UNCHANGED station]_vars

\* No command but a re-association leaves the interface down that it found up (wfaStaSetMode,
\* wfa_cs.c:1721, destroys it).  wfaStaReAssociate does: the command that should bring it up is
\* written to gCmdStr and not run (wfa_cs.c:226).
InterfaceComesBack == [][up /\ ~up' => asked.name = "sta_reassociate"]_vars
=============================================================================

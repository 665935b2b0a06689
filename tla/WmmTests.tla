------------------------------ MODULE WmmTests ------------------------------
(***************************************************************************)
(* The tests of WMM power save: what the station sends and how many frames *)
(* it waits for (wfa_wmmps.c), and what the console takes and answers      *)
(* (wfa_con.c).  The two programs keep a table each, indexed by the test   *)
(* and the position in it; nothing in either checks one against the other. *)
(*                                                                         *)
(* The tables are those of the builds whose message codes agree: with      *)
(* WFA_WMM_AC the station numbers its messages from 38 and the console of  *)
(* this repository, which numbers them from 20, answers none of them.      *)
(***************************************************************************)
EXTENDS Naturals, Sequences

AC == {"VO", "VI", "BE", "BK"}

----------------------------------------------------------------------------
(* What the station sends *)

\* A frame of an access category, sent with power save on or off.
On(ac)  == [does |-> ac, power |-> "on"]
Off(ac) == [does |-> ac, power |-> "off"]

\* The data of each test.
StationData ==
  [B_D |-> <<On("VO"), On("VO")>>,
   B_H |-> <<On("VO"), On("VO")>>,
   B_B |-> <<On("VO"), On("VI"), On("BE"), On("BK")>>,
   B_M |-> <<On("VI")>>,
   M_D |-> <<On("VI"), On("VI"), On("VI"), On("VI")>>,
   B_Z |-> <<On("VO")>>,
   M_Y |-> <<On("VI"), On("VO"), On("BE"), On("BE")>>,
   L_1 |-> <<On("VOCyclic")>>,
   A_Y |-> <<On("VI"), On("VO"), On("BE"), Off("BE"), On("BE")>>,
   B_W |-> <<On("VI"), On("VI"), On("VI")>>,
   A_J |-> <<On("VO"), Off("VO")>>,
   M_V |-> <<On("VI"), On("BE"), On("VI")>>,
   M_U |-> <<On("VI"), On("BE"), On("2VO")>>,
   A_U |-> <<On("VI"), Off("BE"), On("BE"), Off("BE"), On("VO"), Off("VO")>>,
   M_L |-> <<On("BE")>>,
   B_K |-> <<On("VI"), On("BE"), On("VI")>>,
   M_B |-> <<On("VO"), On("VI"), On("BE"), On("BK")>>,
   M_K |-> <<On("VI"), On("BE"), On("VI")>>,
   M_W |-> <<On("VI"), On("BE"), On("VI")>>]

TestNames == DOMAIN StationData

\* Mutant of stationProcStatetbl: the row ends with its data.
stationProcStatetblUnstopped(t) == <<On("Confirm")>> \o StationData[t]

\* Every test confirms its name first and ends with the exchange of stops.
stationProcStatetbl(t) == <<On("Confirm")>> \o StationData[t] \o <<On("WaitStop")>>

\* The frames the station waits for before the stop.
Downlink ==
  [B_D |-> 1, B_H |-> 2, B_B |-> 0, B_M |-> 0, M_D |-> 4, B_Z |-> 2, M_Y |-> 3, L_1 |-> 1,
   A_Y |-> 3, B_W |-> 4, A_J |-> 4, M_V |-> 2, M_U |-> 4, A_U |-> 3, M_L |-> 1, B_K |-> 2,
   M_B |-> 0, M_K |-> 2, M_W |-> 4]

\* Mutant of stationRecvProcStatetbl: the row ends with its frames.
stationRecvProcStatetblUnstopped(t, state) ==
  CASE t = "none" -> "RcvStop"
    [] t # "none" /\ state = 0 -> "RcvProc"
    [] t = "L_1" /\ state = 1 -> "RcvVOCyclic"
    [] t \notin {"none", "L_1"} /\ state \in 1 .. Downlink[t] -> "RcvNotCare"
    [] OTHER -> "none"

\* What handles a message in a position of a test; "none" is row 0 of the table.
stationRecvProcStatetbl(t, state) ==
  CASE t = "none" /\ state = 0 -> "RcvStop"
    [] t = "none" /\ state > 0 -> "none"
    [] t # "none" /\ state = 0 -> "RcvProc"
    [] t = "L_1" /\ state = 1 -> "RcvVOCyclic"
    [] t \notin {"none", "L_1"} /\ state \in 1 .. Downlink[t] -> "RcvNotCare"
    [] t \notin {"none", "L_1"} /\ state = Downlink[t] + 1 -> "RcvStop"
    [] OTHER -> "none"

----------------------------------------------------------------------------
(* What the console takes and answers *)

\* A frame of category ac is answered with the frames of echo, a broadcast and a stop.
Takes(ac, echo, cast, stop) == [takes |-> ac, echo |-> echo, cast |-> cast, stop |-> stop]

RcvVO  == Takes("VO", <<>>, FALSE, FALSE)
RcvVI  == Takes("VI", <<>>, FALSE, FALSE)
RcvBE  == Takes("BE", <<>>, FALSE, FALSE)
RcvVOE == Takes("VO", <<>>, FALSE, TRUE)
RcvVIE == Takes("VI", <<>>, FALSE, TRUE)
RcvBKE == Takes("BK", <<>>, FALSE, TRUE)
RcvVOSnd    == Takes("VO", <<"VO">>, FALSE, FALSE)
RcvVOSnd2VO == Takes("VO", <<"VO", "VO">>, FALSE, FALSE)
\* It stays in its position, where it also takes the stop of the station.
RcvVOSndCyclic == Takes("VO", <<"VO">>, FALSE, FALSE)
RcvVOSndE   == Takes("VO", <<"VO">>, FALSE, TRUE)
RcvVOSndAllE   == Takes("VO", <<"VO", "VI", "BE", "BK">>, FALSE, TRUE)
RcvVOSndBcastE == Takes("VO", <<>>, TRUE, TRUE)
RcvVISnd    == Takes("VI", <<"VI">>, FALSE, FALSE)
RcvVISndE   == Takes("VI", <<"VI">>, FALSE, TRUE)
RcvVISndBE  == Takes("VI", <<"BE">>, FALSE, FALSE)
RcvVISndBK  == Takes("VI", <<"BK">>, FALSE, FALSE)
RcvVISndVOE == Takes("VI", <<"VO">>, FALSE, TRUE)
RcvVISndBcast  == Takes("VI", <<"VI">>, TRUE, FALSE)
RcvBESnd    == Takes("BE", <<"BE">>, FALSE, FALSE)
RcvBESndE   == Takes("BE", <<"BE">>, FALSE, TRUE)
RcvBESndBcast  == Takes("BE", <<"BE">>, TRUE, FALSE)
RcvBESndBcastE == Takes("BE", <<>>, TRUE, TRUE)

\* The positions between the confirm and the stop.
consoleProcStatetbl ==
  [B_D |-> <<RcvVOSnd, RcvVOE>>,
   B_H |-> <<RcvVOSnd2VO, RcvVOE>>,
   B_B |-> <<RcvVO, RcvVI, RcvBE, RcvBKE>>,
   B_M |-> <<RcvVIE>>,
   M_D |-> <<RcvVISndBE, RcvVISndBK, RcvVISnd, RcvVISndVOE>>,
   B_Z |-> <<RcvVOSndBcastE>>,
   M_Y |-> <<RcvVISnd, RcvVO, RcvBESnd, RcvBESndBcastE>>,
   L_1 |-> <<RcvVOSndCyclic>>,
   A_Y |-> <<RcvVISnd, RcvVO, RcvBESnd, RcvBE, RcvBESndBcastE>>,
   B_W |-> <<RcvVISndBcast, RcvVISndBcast, RcvVIE>>,
   A_J |-> <<RcvVO, RcvVOSndAllE>>,
   M_V |-> <<RcvVISnd, RcvBESnd, RcvVISndE>>,
   M_U |-> <<RcvVISnd, RcvBESnd, RcvVOSnd, RcvVOSndE>>,
   A_U |-> <<RcvVISnd, RcvBE, RcvBESnd, RcvBE, RcvVOSnd, RcvVOE>>,
   M_L |-> <<RcvBESndE>>,
   B_K |-> <<RcvVISnd, RcvBESnd, RcvVIE>>,
   M_B |-> <<RcvVO, RcvVI, RcvBE, RcvBKE>>,
   M_K |-> <<RcvVISnd, RcvBESnd, RcvVIE>>,
   M_W |-> <<RcvVISndBcast, RcvBESndBcast, RcvVIE>>]

=============================================================================

--------------------------- MODULE PowerSaveStation ---------------------------
(***************************************************************************)
(* The station of the WMM power-save tests.  The traffic agent's handlers  *)
(* start and stop a test; one thread receives from the console and one,    *)
(* made for each test, sends.  Both keep the test in globals that neither  *)
(* locks: gtgWmmPS, psSockfd, wmmps_info, state_num and the counters.      *)
(*                                                                         *)
(* A sleep of a thread ends in an action of its own, so that whatever can  *)
(* happen in the sleep is between two actions.                             *)
(***************************************************************************)
EXTENDS WmmTests, Integers, FiniteSets

CONSTANTS
  MaxStarts,  \* RecvStart commands
  MaxHello,   \* MAXHELLO, 20 in the code
  MaxStops,   \* MAX_STOPS, 10 in the code
  MaxRetry,   \* MAXRETRY, 3 in the code
  Cyclic      \* frames of test L.1, 3000 in the code

ASSUME StationAssumption ==
  /\ MaxStarts \in Nat \ {0} /\ Cyclic \in Nat \ {0} /\ MaxStops \in Nat \ {0}
  /\ MaxHello \in Nat \ {0} /\ MaxRetry \in Nat

\* A sending thread and the socket it opens have one number.
Threads == 1 .. MaxStarts

VARIABLES
  gtgWmmPS,    \* a test runs
  psSockfd,    \* the socket, 0 when there is none
  reading,     \* the socket the receiving thread is blocked in, 0 when it is not
  bound,       \* the sockets that got the port
  wmmps_info,  \* the test, the position in its receive table, the stream
  state_num,   \* the position in the send table
  num_hello, num_stops, num_retry,
  resetsnd, resetWMMPS, stop_flag,
  power,       \* the power-save mode of the radio
  agent,       \* the main thread: "ready", or "stopping" in RecvStop
  receiver,    \* the receiving thread
  call,        \* its locals: the message, sta_test, the function that it calls, the next position
  sender,      \* the sending threads: where each is, and what it does there
  starts,      \* RecvStart commands so far
  deaf,        \* a RecvStart found the receiving thread away from its wait
  inbox,       \* per socket, the messages from the console
  toConsole,   \* the messages to the console
  listening    \* the console runs

control == <<agent, starts, deaf>>
receiving == <<receiver, call>>
counters == <<num_hello, num_stops, num_retry, resetsnd, resetWMMPS>>
station == <<gtgWmmPS, psSockfd, reading, bound, wmmps_info, state_num, counters, stop_flag,
             power, receiving, sender, control>>

\* Values of the variables that several actions give.
NoInfo == [test |-> "none", state |-> 0, stream |-> FALSE]
NoCall == [type |-> "none", test |-> "none", func |-> "none", next |-> 0]
At(place) == [at |-> place, does |-> On("none"), sent |-> 0]
Running(k) == sender[k].at \notin {"none", "end"}
NoSender == \A k \in Threads : ~Running(k)

StationInit ==
  /\ gtgWmmPS = FALSE /\ psSockfd = 0 /\ reading = 0 /\ bound = {}
  /\ wmmps_info = NoInfo /\ state_num = 0
  /\ num_hello = 0 /\ num_stops = 0 /\ num_retry = 0
  /\ resetsnd = FALSE /\ resetWMMPS = FALSE /\ stop_flag = FALSE
  /\ power = "off" /\ agent = "ready" /\ receiver = "waits" /\ call = NoCall
  /\ sender = [k \in Threads |-> At("none")]
  /\ starts = 0 /\ deaf = FALSE
  /\ inbox = [k \in Threads |-> <<>>] /\ toConsole = <<>>

----------------------------------------------------------------------------
(* The sockets *)

\* A message needs a socket, an address and, to arrive, a console.
Sendable == psSockfd # 0 /\ wmmps_info.stream
Message(type, ac) == [type |-> type, ac |-> ac, from |-> psSockfd]
Send(messages) ==
  toConsole' = IF Sendable /\ listening THEN toConsole \o messages ELSE toConsole

\* A socket that is closed lives on, and keeps the port, while a thread is blocked in it.
Kept(fd, blocked) == {fd, blocked} \ {0}
Sockets(fd, blocked) ==
  /\ psSockfd' = fd
  /\ reading' = blocked
  /\ inbox' = [k \in Threads |-> IF k \in Kept(fd, blocked) THEN inbox[k] ELSE <<>>]
  /\ bound' = LET kept == bound \cap Kept(fd, blocked)
              IN  IF fd # psSockfd /\ fd # 0 /\ kept = {} THEN {fd} ELSE kept

SameSockets == UNCHANGED <<psSockfd, reading, bound, inbox>>

----------------------------------------------------------------------------
(* The commands of the traffic agent *)

wfaWmmpsInitFlag ==
  /\ num_retry' = 0 /\ num_hello' = 0 /\ num_stops' = 0 /\ state_num' = 1
  /\ resetsnd' = FALSE /\ resetWMMPS' = FALSE
  /\ wmmps_info' = [test |-> "B_D", state |-> 0, stream |-> TRUE]

\* RecvStart resets the test and signals the receiving thread, which may not be waiting.
RecvStart ==
  /\ agent = "ready" /\ starts < MaxStarts
  /\ starts' = starts + 1
  /\ wfaWmmpsInitFlag
  /\ gtgWmmPS' = TRUE
  /\ receiver' = IF receiver = "waits" THEN "woken" ELSE receiver
  /\ deaf' = (receiver # "waits")
  /\ SameSockets
  /\ UNCHANGED <<stop_flag, power, call, agent, sender, toConsole>>

\* Mutant of RecvStop: the radio is left in power save.
RecvStopSaving ==
  /\ agent = "ready"
  /\ agent' = "stopping"
  /\ Sockets(0, reading)
  /\ wmmps_info' = NoInfo
  /\ UNCHANGED <<gtgWmmPS, state_num, counters, stop_flag, power, receiving, sender, starts, deaf, toConsole>>

\* RecvStop closes the socket, forgets the test and turns power save off.
RecvStop ==
  /\ agent = "ready"
  /\ agent' = "stopping"
  /\ Sockets(0, reading)
  /\ wmmps_info' = NoInfo
  /\ power' = "off"
  /\ UNCHANGED <<gtgWmmPS, state_num, counters, stop_flag, receiving, sender, starts, deaf, toConsole>>

\* Three seconds later it ends the test.
RecvStopped ==
  /\ agent = "stopping"
  /\ agent' = "ready"
  /\ gtgWmmPS' = FALSE
  /\ SameSockets
  /\ UNCHANGED <<wmmps_info, state_num, counters, stop_flag, power, receiving, sender, starts, deaf, toConsole>>

\* Reset of the traffic agent; the radio stays as it is.
TGReset ==
  /\ agent = "ready"
  /\ gtgWmmPS' = FALSE
  /\ Sockets(0, reading)
  /\ wmmps_info' = NoInfo
  /\ UNCHANGED <<state_num, counters, stop_flag, power, receiving, sender, control, toConsole>>

----------------------------------------------------------------------------
(* The receiving thread: wfa_wmmps_thread *)

\* It makes the sending thread of the test, and sleeps.
CreateSender ==
  /\ receiver = "woken"
  /\ LET k == Cardinality({j \in Threads : sender[j].at # "none"}) + 1
     IN  sender' = [sender EXCEPT ![k] = At("begins")]
  /\ receiver' = "sleeps"
  /\ SameSockets
  /\ UNCHANGED <<gtgWmmPS, wmmps_info, state_num, counters, stop_flag, power, call, control, toConsole>>

\* It wakes before its first turn, or in WfaRcvStop, which ends the turn if the table led to it.
ReceiverWakes ==
  /\ receiver = "sleeps"
  /\ receiver' = IF call.func = "RcvStop" THEN "ends" ELSE "runs"
  /\ call' = NoCall
  /\ SameSockets
  /\ UNCHANGED <<gtgWmmPS, wmmps_info, state_num, counters, stop_flag, power, sender, control, toConsole>>

\* A reset is told to the console, and for good when there were too many.
WfaStaResetAll(recd) ==
  /\ num_retry' = num_retry + 1
  /\ resetsnd' = TRUE
  /\ Send((IF num_retry + 1 > MaxRetry THEN <<Message("RESET_STOP", "BE")>> ELSE <<>>)
           \o <<Message(IF recd THEN "RESET_RESP" ELSE "RESET", "BE")>>)

\* At the end of a turn the test is given up if the hellos have run out; a turn that receives
\* nothing is at its end at once.
GiveUp ==
  /\ num_hello > MaxHello
  /\ receiver = "ends" \/ (receiver = "runs" /\ gtgWmmPS /\ (resetsnd \/ psSockfd = 0))
  /\ WfaStaResetAll(FALSE)
  /\ resetWMMPS' = TRUE
  /\ Sockets(0, 0)
  /\ power' = "off"
  /\ gtgWmmPS' = FALSE
  /\ receiver' = "runs"
  /\ UNCHANGED <<wmmps_info, state_num, num_hello, num_stops, stop_flag, call, sender, control>>

EndTurn ==
  /\ receiver = "ends" /\ num_hello <= MaxHello
  /\ receiver' = "runs"
  /\ SameSockets
  /\ UNCHANGED <<gtgWmmPS, wmmps_info, state_num, counters, stop_flag, power, call, sender, control, toConsole>>

\* A turn after a reset receives nothing.
SkipTurn ==
  /\ receiver = "runs" /\ gtgWmmPS /\ resetsnd /\ num_hello <= MaxHello
  /\ resetsnd' = FALSE
  /\ SameSockets
  /\ UNCHANGED <<gtgWmmPS, wmmps_info, state_num, num_hello, num_stops, num_retry, resetWMMPS,
                 stop_flag, power, receiving, sender, control, toConsole>>

\* Otherwise it blocks in recvfrom().
Block ==
  /\ receiver = "runs" /\ gtgWmmPS /\ ~resetsnd /\ psSockfd # 0
  /\ receiver' = "receives"
  /\ Sockets(psSockfd, psSockfd)
  /\ UNCHANGED <<gtgWmmPS, wmmps_info, state_num, counters, stop_flag, power, call, sender, control, toConsole>>

\* The test is over: the thread waits for the next one.
ReceiverDone ==
  /\ receiver = "runs" /\ ~gtgWmmPS
  /\ receiver' = "waits"
  /\ SameSockets
  /\ UNCHANGED <<gtgWmmPS, wmmps_info, state_num, counters, stop_flag, power, call, sender, control, toConsole>>

----------------------------------------------------------------------------
(* What it receives.  The test is read, the function looked up, its effect   *)
(* prepared and the position stored in steps of their own: the commands      *)
(* write the same globals, and nothing keeps them out in between.            *)

Heard == receiver = "receives" /\ inbox[reading] # <<>>
Type == Head(inbox[reading])
Handler == stationRecvProcStatetbl(wmmps_info.test, wmmps_info.state)

\* A message is taken off, with a socket that was closed meanwhile; the test is read.
Hear ==
  /\ Heard
  /\ reading' = 0
  /\ bound' = bound \cap Kept(psSockfd, 0)
  /\ inbox' = [k \in Threads |-> IF k \notin Kept(psSockfd, 0) THEN <<>>
                                 ELSE IF k = reading THEN Tail(inbox[k]) ELSE inbox[k]]
  /\ receiver' = "heard"
  /\ call' = [type |-> Type, test |-> wmmps_info.test, func |-> "none", next |-> 0]
  /\ UNCHANGED <<gtgWmmPS, psSockfd, wmmps_info, state_num, counters, stop_flag, power, sender, control, toConsole>>

\* A stop ends any test whose name has come, a reset any; else the table has the function, at
\* the test that was read and the position of now.
LookUp ==
  /\ receiver = "heard"
  /\ LET stop == call.type = "STOP" /\ wmmps_info.state > 0
     IN  /\ resetsnd' = (resetsnd \/ stop)
         /\ call' = [call EXCEPT !.func = CASE stop -> "Stop"
                                            [] call.type = "RESET" -> "Reset"
                                            [] OTHER -> stationRecvProcStatetbl(call.test, wmmps_info.state)]
  /\ receiver' = "calls"
  /\ SameSockets
  /\ UNCHANGED <<gtgWmmPS, wmmps_info, state_num, num_hello, num_stops, num_retry, resetWMMPS,
                 stop_flag, power, sender, control, toConsole>>

Calls(funcs) == receiver = "calls" /\ call.func \in funcs
Returns(place) == receiver' = place /\ call' = NoCall

\* The flag is cleared before the thread waits for it; only a stop is waited for.
WfaRcvStop ==
  /\ Calls({"Stop", "RcvStop"})
  /\ stop_flag' = FALSE
  /\ IF call.type = "STOP" THEN receiver' = "stops" /\ UNCHANGED call ELSE Returns("ends")
  /\ SameSockets
  /\ UNCHANGED <<gtgWmmPS, wmmps_info, state_num, counters, power, sender, control, toConsole>>

\* The name of a test, if it is one; the hellos are counted anew in any case.
WfaRcvProc ==
  /\ Calls({"RcvProc"})
  /\ num_hello' = 0
  /\ IF call.type \in TestNames
     THEN /\ wmmps_info' = [wmmps_info EXCEPT !.test = call.type]
          /\ receiver' = "moves" /\ call' = [call EXCEPT !.next = wmmps_info.state + 1]
     ELSE UNCHANGED wmmps_info /\ Returns("ends")
  /\ SameSockets
  /\ UNCHANGED <<gtgWmmPS, state_num, num_stops, num_retry, resetsnd, resetWMMPS, stop_flag,
                 power, sender, control, toConsole>>

\* A frame of the test moves on in it, whatever its category; anything else resets the console.
WfaRcvNotCare ==
  /\ Calls({"RcvNotCare"}) /\ call.type = "DEFAULT"
  /\ receiver' = "moves" /\ call' = [call EXCEPT !.next = wmmps_info.state + 1]
  /\ SameSockets
  /\ UNCHANGED <<gtgWmmPS, wmmps_info, state_num, counters, stop_flag, power, sender, control, toConsole>>

\* Mutant of MovesOn: the position moves on by two.
MovesOnTwice ==
  /\ receiver = "moves"
  /\ wmmps_info' = [wmmps_info EXCEPT !.state = call.next + 1]
  /\ Returns("ends")
  /\ SameSockets
  /\ UNCHANGED <<gtgWmmPS, state_num, counters, stop_flag, power, sender, control, toConsole>>

\* (*state)++ is a load, above, and a store.
MovesOn ==
  /\ receiver = "moves"
  /\ wmmps_info' = [wmmps_info EXCEPT !.state = call.next]
  /\ Returns("ends")
  /\ SameSockets
  /\ UNCHANGED <<gtgWmmPS, state_num, counters, stop_flag, power, sender, control, toConsole>>

\* A reset is answered, and ends the turn at once; a message that is no frame is a reset to send.
ReceiveReset ==
  /\ LET recd == call.func = "Reset"
     IN  /\ Calls({"Reset", "RcvNotCare"}) /\ (recd \/ call.type # "DEFAULT")
         /\ WfaStaResetAll(recd)
         /\ Returns(IF recd THEN "runs" ELSE "ends")
  /\ SameSockets
  /\ UNCHANGED <<gtgWmmPS, wmmps_info, state_num, num_hello, num_stops, resetWMMPS, stop_flag,
                 power, sender, control>>

\* Test L.1 takes everything but a stop, and where there is no function there is no call.
ReceiveIgnored ==
  /\ Calls({"RcvVOCyclic", "none"})
  /\ Returns("ends")
  /\ SameSockets
  /\ UNCHANGED <<gtgWmmPS, wmmps_info, state_num, counters, stop_flag, power, sender, control, toConsole>>

\* The sender has sent its stop: the test is over.
StopHeard ==
  /\ receiver = "stops" /\ stop_flag
  /\ num_stops' = 0
  /\ stop_flag' = FALSE
  /\ gtgWmmPS' = FALSE
  /\ Sockets(0, 0)
  /\ receiver' = "sleeps"
  /\ UNCHANGED <<wmmps_info, state_num, num_hello, num_retry, resetsnd, resetWMMPS,
                 power, call, sender, control, toConsole>>

----------------------------------------------------------------------------
(* A sending thread: wfa_wmmps_send_thread *)

Goes(k, place) == sender' = [sender EXCEPT ![k] = At(place)]

\* It opens the socket of the test.  Without a stream findTGProfile(0) finds a free row of the
\* stream table and the socket is opened all the same; if no row is free the thread returns.
OpenSocket(k) ==
  /\ sender[k].at = "begins"
  /\ \/ Sockets(k, reading) /\ Goes(k, "sleeps")
     \/ ~wmmps_info.stream /\ SameSockets /\ Goes(k, "end")
  /\ UNCHANGED <<gtgWmmPS, wmmps_info, state_num, counters, stop_flag, power, receiving, control, toConsole>>

SenderWakes(k) ==
  /\ sender[k].at = "sleeps"
  /\ Goes(k, "turns")
  /\ SameSockets
  /\ UNCHANGED <<gtgWmmPS, wmmps_info, state_num, counters, stop_flag, power, receiving, control, toConsole>>

\* Mutant of Ends: the loop ends at a reset alone.
EndsAtReset(k) == resetWMMPS

Ends(k) == ~gtgWmmPS \/ psSockfd = 0 \/ resetWMMPS
SendRow == IF wmmps_info.test = "none" THEN <<>> ELSE stationProcStatetbl(wmmps_info.test)

SenderDone(k) ==
  /\ sender[k].at = "turns"
  /\ Ends(k) \/ (wmmps_info.state > 0 /\ state_num \notin DOMAIN SendRow)
  /\ Goes(k, "end")
  /\ SameSockets
  /\ UNCHANGED <<gtgWmmPS, wmmps_info, state_num, counters, stop_flag, power, receiving, control, toConsole>>

\* Mutant of SendHello: the hellos never run out.
SendHelloAlways(k) ==
  /\ sender[k].at = "turns" /\ ~Ends(k) /\ wmmps_info.state = 0
  /\ Send(<<Message("HELLO", "BE")>>)
  /\ num_hello' = num_hello + 1
  /\ Goes(k, "sleeps")
  /\ SameSockets
  /\ UNCHANGED <<gtgWmmPS, wmmps_info, state_num, num_stops, num_retry, resetsnd, resetWMMPS,
                 stop_flag, power, receiving, control>>

\* Until the name of the test comes it says hello, and nothing more when the hellos have run out.
SendHello(k) ==
  /\ sender[k].at = "turns" /\ ~Ends(k) /\ wmmps_info.state = 0 /\ num_hello <= MaxHello
  /\ Send(<<Message("HELLO", "BE")>>)
  /\ num_hello' = num_hello + 1
  /\ Goes(k, "sleeps")
  /\ SameSockets
  /\ UNCHANGED <<gtgWmmPS, wmmps_info, state_num, num_stops, num_retry, resetsnd, resetWMMPS,
                 stop_flag, power, receiving, control>>

\* The confirm is sent without a sleep.
WfaStaSndConfirm(k) ==
  /\ sender[k].at = "turns" /\ ~Ends(k) /\ wmmps_info.state > 0
  /\ state_num \in DOMAIN SendRow /\ SendRow[state_num].does = "Confirm"
  /\ Send(<<Message("CONFIRM", "BE")>>)
  /\ state_num' = state_num + 1 /\ power' = "on"
  /\ SameSockets
  /\ UNCHANGED <<gtgWmmPS, wmmps_info, counters, stop_flag, receiving, sender, control>>

\* Any other entry of the row sleeps first; power save is set before the sleep, but for the stop.
StartEntry(k) ==
  /\ sender[k].at = "turns" /\ ~Ends(k) /\ wmmps_info.state > 0
  /\ state_num \in DOMAIN SendRow /\ SendRow[state_num].does # "Confirm"
  /\ LET entry == SendRow[state_num]
     IN  /\ sender' = [sender EXCEPT ![k] = [at |-> "acts", does |-> entry, sent |-> 0]]
         /\ power' = IF entry.does = "WaitStop" THEN power ELSE entry.power
  /\ SameSockets
  /\ UNCHANGED <<gtgWmmPS, wmmps_info, state_num, counters, stop_flag, receiving, control, toConsole>>

\* Mutant of WfaStaSnd: two frames are sent as one.
WfaStaSndOnce(k) ==
  /\ sender[k].at = "acts" /\ sender[k].does.does \in AC \cup {"2VO"}
  /\ Send(<<Message("DEFAULT", IF sender[k].does.does = "2VO" THEN "VO" ELSE sender[k].does.does)>>)
  /\ state_num' = IF Sendable THEN state_num + 1 ELSE state_num
  /\ Goes(k, "turns")
  /\ SameSockets
  /\ UNCHANGED <<gtgWmmPS, wmmps_info, counters, stop_flag, power, receiving, control>>

\* A frame is sent after the sleep; the position moves on if it could be.
WfaStaSnd(k) ==
  /\ sender[k].at = "acts" /\ sender[k].does.does \in AC \cup {"2VO"}
  /\ LET frame == Message("DEFAULT", IF sender[k].does.does = "2VO" THEN "VO" ELSE sender[k].does.does)
     IN  Send(IF sender[k].does.does = "2VO" THEN <<frame, frame>> ELSE <<frame>>)
  /\ state_num' = IF Sendable THEN state_num + 1 ELSE state_num
  /\ Goes(k, "turns")
  /\ SameSockets
  /\ UNCHANGED <<gtgWmmPS, wmmps_info, counters, stop_flag, power, receiving, control>>

\* A frame that sendto() refuses leaves the position where it is.
SendFails(k) ==
  /\ sender[k].at = "acts" /\ sender[k].does.does \in AC \cup {"2VO"} /\ Sendable
  /\ Goes(k, "turns")
  /\ SameSockets
  /\ UNCHANGED <<gtgWmmPS, wmmps_info, state_num, counters, stop_flag, power, receiving, control, toConsole>>

\* Test L.1 sends its frames whatever becomes of them.
WfaStaSndVOCyclic(k) ==
  /\ sender[k].at = "acts" /\ sender[k].does.does = "VOCyclic"
  /\ Send(<<Message("DEFAULT", "VO")>>)
  /\ IF sender[k].sent + 1 < Cyclic
     THEN /\ sender' = [sender EXCEPT ![k].sent = @ + 1]
          /\ UNCHANGED state_num /\ power' = sender[k].does.power
     ELSE /\ Goes(k, "turns")
          /\ state_num' = state_num + 1 /\ UNCHANGED power
  /\ SameSockets
  /\ UNCHANGED <<gtgWmmPS, wmmps_info, counters, stop_flag, receiving, control>>

\* Mutant of WfaStaWaitStop: it sends its stop for ever.
WfaStaWaitStopForever(k) ==
  /\ sender[k].at = "acts" /\ sender[k].does.does = "WaitStop"
  /\ power' = IF num_stops = 0 THEN sender[k].does.power ELSE power
  /\ num_stops' = IF num_stops > MaxStops THEN num_stops ELSE num_stops + 1
  /\ stop_flag' = TRUE
  /\ Send(<<Message("STOP", "BE")>>)
  /\ SameSockets
  /\ UNCHANGED gtgWmmPS
  /\ Goes(k, "turns")
  /\ UNCHANGED <<wmmps_info, state_num, num_hello, num_retry, resetsnd, resetWMMPS, receiving, control>>

\* The station's stop, again and again until the console's comes or there were too many.
WfaStaWaitStop(k) ==
  /\ sender[k].at = "acts" /\ sender[k].does.does = "WaitStop"
  /\ power' = IF num_stops = 0 THEN sender[k].does.power ELSE power
  /\ num_stops' = num_stops + 1
  /\ stop_flag' = TRUE
  /\ Send(<<Message("STOP", "BE")>>)
  /\ IF num_stops + 1 > MaxStops THEN gtgWmmPS' = FALSE /\ Sockets(0, reading)
                                 ELSE UNCHANGED gtgWmmPS /\ SameSockets
  /\ Goes(k, "turns")
  /\ UNCHANGED <<wmmps_info, state_num, num_hello, num_retry, resetsnd, resetWMMPS, receiving, control>>

=============================================================================

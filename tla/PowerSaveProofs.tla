--------------------------- MODULE PowerSaveProofs ---------------------------
(***************************************************************************)
(* Proofs about PowerSave for every number of starts, hellos, stops,       *)
(* retries, frames and disturbances and all tests: the types, the row of   *)
(* the receiving thread, the power save that a RecvStop turned off, and,   *)
(* of a calm run, that every start is heard, one thread sends, and the     *)
(* console is sent nothing that is not due.                                *)
(***************************************************************************)
EXTENDS PowerSave, TLAPS, SequenceTheorems, FiniteSetTheorems

\* What the types rest on: consoles are counted, and one that runs or knows the station has a
\* test.
ConsoleRecord == [test |-> con.test, known |-> con.known, state |-> con.state, from |-> con.from, ended |-> con.ended]
ConsoleHasTest ==
  /\ con = ConsoleRecord
  /\ listening \/ con.known => con.test \in TestNames
  /\ consoles \in Nat

\* The receiving thread holds a message from where it has read the test to where it stores the
\* position.  No command in between, and what it looked up is a handler of its row.
Handles == receiver \in {"heard", "calls", "moves"}
CallRecord == [type |-> call.type, test |-> call.test, func |-> call.func, next |-> call.next]
CallKept ==
  /\ call = CallRecord /\ call.test \in TestNames \cup {"none"}
  /\ receiver \in {"waits", "woken", "runs", "receives", "ends"} => call = NoCall
  /\ receiver = "calls" /\ call.func = "RcvProc" => wmmps_info.state = 0
  /\ receiver = "calls" /\ call.func = "RcvNotCare" => wmmps_info.state <= 4
  /\ receiver = "moves" => call.next \in 1 .. 5
  /\ ~torn /\ receiver = "heard" => call.test = wmmps_info.test
  /\ ~torn /\ receiver = "calls" /\ call.func = "RcvNotCare" => Handler = "RcvNotCare"
  /\ ~torn /\ receiver = "moves" => stationRecvProcStatetbl(wmmps_info.test, call.next) # "none"
TypeInv == TypeOK /\ ConsoleHasTest /\ CallKept /\ RowsKept

\* The variables that nothing but the tuples of PowerSave names.
USE DEF station, console, control, counters, receiving, history

\* No test waits for more than four frames.
LEMMA DownlinkRange == \A t \in TestNames : Downlink[t] \in 0 .. 4
BY DEF TestNames, StationData, Downlink

\* Every row of the console's table is a sequence.
LEMMA RowLength == \A t \in TestNames : Len(consoleProcStatetbl[t]) \in Nat
BY DEF TestNames, StationData, consoleProcStatetbl

\* The test that RecvStart assumes, and test L.1, are tests; no test is not one.
LEMMA FirstTest == "B_D" \in TestNames /\ "L_1" \in TestNames /\ "none" \notin TestNames
BY DEF TestNames, StationData

\* Where the handlers of the receive table stand: the frames after the name, and something
\* behind every frame.
LEMMA HandlerPlace ==
  ASSUME NEW t \in TestNames \cup {"none"}, NEW s \in Nat
  PROVE  /\ stationRecvProcStatetbl(t, s) = "RcvNotCare" => s <= 4 /\ stationRecvProcStatetbl(t, s + 1) # "none"
         /\ stationRecvProcStatetbl(t, s) = "RcvProc" => s = 0
         /\ t \in TestNames => stationRecvProcStatetbl(t, 1) # "none"
BY DownlinkRange, FirstTest DEF stationRecvProcStatetbl

\* The part of the types that is about the sockets.
SocketTypes ==
  psSockfd \in 0 .. MaxStarts /\ reading \in 0 .. MaxStarts /\ bound \subseteq Kept(psSockfd, reading)

\* Sockets opened, closed or blocked in stay typed.
LEMMA SocketsTyped ==
  ASSUME SocketTypes, NEW fd \in 0 .. MaxStarts, NEW blocked \in 0 .. MaxStarts, Sockets(fd, blocked)
  PROVE  SocketTypes' /\ reading' = blocked /\ psSockfd' = fd
BY DEF SocketTypes, Sockets, Kept

\* So they do when a message is taken off.
LEMMA HearTyped ==
  ASSUME SocketTypes, Hear
  PROVE  SocketTypes' /\ reading' = 0
BY StationAssumption DEF SocketTypes, Hear, Kept

\* Every step of the system keeps the ranges, the console's test and the row.
LEMMA RangesStep ==
  ASSUME TypeInv, [Next]_vars
  PROVE  (TypeOK /\ ConsoleHasTest /\ RowsKept)'
<1> DEFINE Goal == (TypeOK /\ ConsoleHasTest /\ RowsKept)'
<1> USE StationAssumption DEF TypeInv, TypeOK, SocketTypes, ConsoleHasTest, ConsoleRecord, RowsKept, Handler, Row
<1>0. SocketTypes /\ 0 \in 0 .. MaxStarts
  OBVIOUS
<1>c. ASSUME UNCHANGED <<station, listening, consoles, torn>>, con.test \in TestNames, con' = ConsoleRecord',
             con'.test = con.test, con'.known => con'.state \in 1 .. Len(Row) + 2
      PROVE  Goal
  BY <1>c, <1>0 DEF Kept
<1>h. /\ wmmps_info.test \in TestNames \cup {"none"} /\ wmmps_info.state \in Nat
      /\ wmmps_info.stream \in BOOLEAN
  BY SMTT(30)
<1>s. ASSUME SameSockets PROVE SocketTypes' /\ reading' = reading
  BY <1>0, <1>s DEF SameSockets, Kept
<1>1. CASE Start
  BY <1>1, <1>s, <1>0, FirstTest DEF Start, RecvStart, wfaWmmpsInitFlag, InTime
<1>2. CASE Stop
  BY <1>2, <1>0, SocketsTyped, SMTT(30) DEF Stop, RecvStop, NoInfo, InTime
<1>3. CASE Stopped
  BY <1>3, <1>s, <1>0 DEF Stopped, RecvStopped, Timed, InTime
<1>4. CASE Reset
  BY <1>4, <1>0, SocketsTyped, SMTT(30) DEF Reset, TGReset, NoInfo, InTime
<1>5. CASE Lose
  BY <1>5, <1>0 DEF Lose
<1>6. CASE ConsoleStarts
  BY <1>6, <1>0, PowerSaveAssumption, RowLength, SMTT(30) DEF ConsoleStarts, ConsoleStart
<1>7. CASE ConsoleTimesOut
  BY <1>7, <1>0 DEF ConsoleTimesOut, TimeOut, Exit, Timed
<1>8. CASE AtOnce(CreateSender /\ UNCHANGED console)
  BY <1>8, <1>s, <1>0 DEF CreateSender, AtOnce
<1>9. CASE AtOnce(GiveUp /\ UNCHANGED console)
  BY <1>9, <1>0, SocketsTyped, SMTT(30) DEF GiveUp, WfaStaResetAll, AtOnce
<1>10. CASE AtOnce(SkipTurn /\ UNCHANGED console)
  BY <1>10, <1>s, <1>0 DEF SkipTurn, AtOnce
<1>11. CASE AtOnce(Block /\ UNCHANGED console)
  BY <1>11, <1>0, SocketsTyped DEF Block, AtOnce
<1>12. CASE AtOnce(ReceiverDone /\ UNCHANGED console)
  BY <1>12, <1>s, <1>0 DEF ReceiverDone, AtOnce
<1>13. CASE AtOnce(Hear /\ UNCHANGED console)
  BY <1>13, <1>0, HearTyped DEF Hear, AtOnce
<1>14. CASE AtOnce(LookUp /\ UNCHANGED console) \/ AtOnce(WfaRcvStop /\ UNCHANGED console)
            \/ AtOnce(WfaRcvNotCare /\ UNCHANGED console) \/ AtOnce(EndTurn /\ UNCHANGED console)
            \/ AtOnce(ReceiveIgnored /\ UNCHANGED console)
  <2>1. CASE AtOnce(LookUp /\ UNCHANGED console)
    BY <2>1, <1>s, <1>0 DEF LookUp, AtOnce
  <2>2. CASE AtOnce(WfaRcvStop /\ UNCHANGED console)
    BY <2>2, <1>s, <1>0 DEF WfaRcvStop, Returns, Calls, AtOnce
  <2>3. CASE AtOnce(WfaRcvNotCare /\ UNCHANGED console)
    BY <2>3, <1>s, <1>0 DEF WfaRcvNotCare, Returns, Calls, AtOnce
  <2>4. CASE AtOnce(EndTurn /\ UNCHANGED console)
    BY <2>4, <1>s, <1>0 DEF EndTurn, AtOnce
  <2>5. CASE AtOnce(ReceiveIgnored /\ UNCHANGED console)
    BY <2>5, <1>s, <1>0 DEF ReceiveIgnored, Returns, Calls, AtOnce
  <2> QED BY <1>14, <2>1, <2>2, <2>3, <2>4, <2>5
<1>15. CASE AtOnce(WfaRcvProc /\ UNCHANGED console)
  <2>1. wmmps_info.state = 0
    BY <1>15 DEF WfaRcvProc, Calls, CallKept, AtOnce
  <2>2. wmmps_info' \in [test : TestNames \cup {"none"}, state : 0 .. 5, stream : BOOLEAN] /\ wmmps_info'.state = 0
    <3>1. CASE call.type \in TestNames
      <4>1. wmmps_info' = [test |-> call.type, state |-> 0, stream |-> wmmps_info.stream]
        BY <1>15, <2>1, <3>1 DEF WfaRcvProc, AtOnce
      <4> QED BY <4>1, <3>1, <1>h
    <3>2. CASE call.type \notin TestNames
      BY <1>15, <2>1, <3>2 DEF WfaRcvProc, AtOnce
    <3> QED BY <3>1, <3>2
  <2>3. /\ num_hello' = 0 /\ receiver' \in {"moves", "ends"} /\ receiver # "receives" /\ SameSockets
        /\ UNCHANGED <<num_stops, num_retry, con, listening, consoles>>
    BY <1>15 DEF WfaRcvProc, Calls, Returns, AtOnce
  <2> QED BY <1>s, <2>2, <2>3
<1>16. CASE AtOnce(MovesOn /\ UNCHANGED console)
  <2>1. call.next \in 1 .. 5 /\ (~torn => stationRecvProcStatetbl(wmmps_info.test, call.next) # "none")
    BY <1>16 DEF MovesOn, CallKept, AtOnce
  <2>2. wmmps_info' = [test |-> wmmps_info.test, state |-> call.next, stream |-> wmmps_info.stream]
    BY <1>16 DEF MovesOn, AtOnce
  <2>3. wmmps_info' \in [test : TestNames \cup {"none"}, state : 0 .. 5, stream : BOOLEAN] /\ RowsKept'
    BY <1>16, <2>1, <2>2, <1>h DEF AtOnce
  <2> QED BY <1>16, <1>s, <2>3 DEF MovesOn, Returns, AtOnce
<1>17. CASE AtOnce(ReceiveReset /\ UNCHANGED console)
  <2>1. /\ num_retry' = num_retry + 1 /\ receiver' \in {"runs", "ends"} /\ receiver # "receives" /\ SameSockets
        /\ UNCHANGED <<wmmps_info, torn, num_hello, num_stops, con, listening, consoles>>
    BY <1>17 DEF ReceiveReset, WfaStaResetAll, Calls, Returns, AtOnce
  <2> QED BY <1>s, <2>1
<1>18. CASE AtOnce(StopHeard /\ UNCHANGED console)
  BY <1>18, <1>0, SocketsTyped DEF StopHeard, AtOnce
<1>19. CASE Timed(ReceiverWakes /\ UNCHANGED console, ~Busy)
  BY <1>19, <1>s, <1>0 DEF ReceiverWakes, Timed, InTime
<1>20. CASE AtOnce(RcvHello)
  <2>1. UNCHANGED <<station, listening, consoles, torn>> /\ con.test \in TestNames /\ Len(Row) \in Nat
    BY <1>20, RowLength DEF RcvHello, Reads, Stays, AtOnce
  <2>2. con' = ConsoleRecord' /\ con'.test = con.test
    <3>1. con' \in {con, [con EXCEPT !.known = TRUE, !.state = 1, !.from = Arrived.from]}
      BY <1>20 DEF RcvHello, AtOnce
    <3> QED BY <3>1
  <2>3. con'.known => con'.state \in 1 .. Len(Row) + 2
    <3>1. CASE con.known
      <4>1. con' = con
        BY <1>20, <3>1 DEF RcvHello, AtOnce
      <4> QED BY <4>1, <3>1
    <3>2. CASE ~con.known
      <4>1. con'.state = 1
        BY <1>20, <3>2 DEF RcvHello, AtOnce
      <4> QED BY <4>1, <2>1
    <3> QED BY <3>1, <3>2
  <2> QED BY <1>c, <2>1, <2>2, <2>3
<1>21. CASE AtOnce(Ignore)
  BY <1>21, <1>0 DEF Ignore, AtOnce, Exit, Stays, Waits, Reads
<1>22. CASE AtOnce(RcvReset)
  BY <1>22, <1>0 DEF RcvReset, AtOnce, Exit, Stays, Waits, Reads
<1>23. CASE AtOnce(RcvConf)
  <2>1. UNCHANGED <<station, listening, consoles, torn>> /\ con.test \in TestNames /\ Len(Row) \in Nat
    BY <1>23, RowLength DEF RcvConf, Plain, Reads, Stays, AtOnce
  <2>2. con' = ConsoleRecord' /\ con'.test = con.test
    BY <1>23 DEF RcvConf, Plain, Reads, Stays, AtOnce
  <2>3. con'.known => con'.state \in 1 .. Len(Row) + 2
    BY <1>23, <2>1 DEF RcvConf, Plain, Reads, Stays, AtOnce
  <2> QED BY <1>c, <2>1, <2>2, <2>3
<1>24. CASE AtOnce(RcvFrame)
  <2>1. UNCHANGED <<station, listening, consoles, torn>> /\ con.test \in TestNames /\ Len(Row) \in Nat
    BY <1>24, RowLength DEF RcvFrame, Plain, Reads, Stays, Waits, AtOnce
  <2>2. con' = ConsoleRecord' /\ con'.test = con.test
    BY <1>24 DEF RcvFrame, Plain, Reads, Stays, Waits, AtOnce
  <2>3. con'.known => con'.state \in 1 .. Len(Row) + 2
    <3>1. con.state \in 1 .. Len(Row) + 2 /\ con.state # Len(Row) + 2
      BY <1>24 DEF RcvFrame, Waits, AtOnce
    <3>2. con'.state = con.state + 1
      BY <1>24 DEF RcvFrame, AtOnce
    <3> HIDE DEF TypeInv, Row
    <3> QED BY <3>1, <3>2, <2>1
  <2> QED BY <1>c, <2>1, <2>2, <2>3
<1>25. CASE AtOnce(RcvVOSndCyclicFrame)
  BY <1>25, <1>0 DEF RcvVOSndCyclicFrame, AtOnce, Exit, Stays, Waits, Reads
<1>26. CASE AtOnce(RcvVOSndCyclicStop)
  BY <1>26, <1>0 DEF RcvVOSndCyclicStop, AtOnce, Exit, Stays, Waits, Reads
<1>27. CASE AtOnce(WaitStop)
  BY <1>27, <1>0 DEF WaitStop, AtOnce, Exit, Stays, Waits, Reads
<1>28. ASSUME NEW k \in Threads, Sender(k) PROVE Goal
  <2>1. CASE AtOnce(OpenSocket(k) /\ UNCHANGED console)
    BY <2>1, <1>s, <1>0, SocketsTyped, SMTT(30) DEF OpenSocket, Threads, AtOnce
  <2>2. CASE AtOnce(SenderDone(k) /\ UNCHANGED console)
    BY <2>2, <1>s, <1>0 DEF SenderDone, AtOnce
  <2>3. CASE AtOnce(SendHello(k) /\ UNCHANGED console)
    BY <2>3, <1>s, <1>0, SMTT(30) DEF SendHello, AtOnce
  <2>4. CASE AtOnce(WfaStaSndConfirm(k) /\ UNCHANGED console)
    BY <2>4, <1>s, <1>0 DEF WfaStaSndConfirm, AtOnce
  <2>5. CASE AtOnce(StartEntry(k) /\ UNCHANGED console)
    BY <2>5, <1>s, <1>0 DEF StartEntry, AtOnce
  <2>6. CASE Timed(SenderWakes(k) /\ UNCHANGED console, ~Busy)
    BY <2>6, <1>s, <1>0 DEF SenderWakes, Timed, InTime
  <2>7. CASE Timed(WfaStaSnd(k) /\ UNCHANGED console, ~Busy)
    BY <2>7, <1>s, <1>0 DEF WfaStaSnd, Timed, InTime
  <2>8. CASE Timed(WfaStaSndVOCyclic(k) /\ UNCHANGED console, ~Busy)
    BY <2>8, <1>s, <1>0 DEF WfaStaSndVOCyclic, Timed, InTime
  <2>9. CASE Timed(WfaStaWaitStop(k) /\ UNCHANGED console, ~Busy)
    <3>1. SocketTypes' /\ reading' = reading
      BY <2>9, <1>s, <1>0, SocketsTyped DEF WfaStaWaitStop, Timed
    <3>2. num_stops' \in Nat /\ UNCHANGED <<wmmps_info, torn, num_hello, num_retry, receiver, con, listening, consoles>>
      BY <2>9 DEF WfaStaWaitStop, Timed
    <3> QED BY <3>1, <3>2
  <2>10. CASE Timed(SendFails(k) /\ UNCHANGED console, FALSE)
    BY <2>10, <1>s, <1>0 DEF SendFails, Timed
  <2> QED BY <1>28, <2>1, <2>2, <2>3, <2>4, <2>5, <2>6, <2>7, <2>8, <2>9, <2>10 DEF Sender
<1>29. CASE UNCHANGED vars
  BY <1>29 DEF vars, station, Kept
<1> QED BY <1>1, <1>2, <1>3, <1>4, <1>5, <1>6, <1>7, <1>8, <1>9, <1>10, <1>11, <1>12, <1>13, <1>14, <1>15, <1>16, <1>17,
           <1>18, <1>19, <1>20, <1>21, <1>22, <1>23, <1>24, <1>25, <1>26, <1>27, <1>28, <1>29 DEF Next, Receiver, Console

\* Every step of the system keeps what the receiving thread has in hand.
LEMMA CallStep ==
  ASSUME TypeInv, [Next]_vars
  PROVE  CallKept'
<1>0. /\ wmmps_info \in [test : TestNames \cup {"none"}, state : 0 .. 5, stream : BOOLEAN] /\ call = CallRecord
      /\ call.test \in TestNames \cup {"none"}
  BY DEF TypeInv, TypeOK, CallKept
<1>u. ASSUME UNCHANGED <<wmmps_info, receiver, call, torn>> PROVE CallKept'
  BY <1>u DEF TypeInv, CallKept, CallRecord, Handler
<1>t. ASSUME UNCHANGED call, Tears, wmmps_info'.state = 0,
             receiver' = receiver \/ (receiver = "waits" /\ receiver' = "woken")
      PROVE  CallKept'
  <2>1. ~torn' => receiver' \notin {"heard", "calls", "moves"}
    <3>1. ~torn' => receiver \notin {"heard", "calls", "moves"}
      BY <1>t, Zenon DEF Tears
    <3>2. receiver \notin {"heard", "calls", "moves"} => receiver' \notin {"heard", "calls", "moves"}
      BY <1>t
    <3> QED BY <3>1, <3>2, Zenon
  <2>2. /\ receiver' \in {"waits", "woken", "runs", "receives", "ends"} => call' = NoCall
        /\ receiver' = "moves" => call'.next \in 1 .. 5
    BY <1>t DEF TypeInv, CallKept
  <2> QED BY <1>0, <1>t, <2>1, <2>2 DEF CallKept, CallRecord
<1>n. ASSUME receiver' \notin {"heard", "calls", "moves"}, UNCHANGED torn, call' \in {call, NoCall},
             receiver' \in {"waits", "woken", "runs", "receives", "ends"} => call' = NoCall
      PROVE  CallKept'
  BY <1>0, <1>n DEF CallKept, CallRecord, NoCall
<1>1. CASE Start
  <2>1. UNCHANGED call /\ Tears /\ wmmps_info'.state = 0
    BY <1>1 DEF Start, RecvStart, wfaWmmpsInitFlag
  <2>2. receiver' = receiver \/ (receiver = "waits" /\ receiver' = "woken")
    BY <1>1, Zenon DEF Start, RecvStart
  <2> QED BY <1>t, <2>1, <2>2
<1>2. CASE Stop \/ Reset
  BY <1>2, <1>t DEF Stop, RecvStop, Reset, TGReset, NoInfo
<1>3. CASE Stopped \/ Lose \/ ConsoleStarts \/ ConsoleTimesOut \/ UNCHANGED vars
  BY <1>3, <1>u DEF Stopped, RecvStopped, Lose, ConsoleStarts, ConsoleStart, ConsoleTimesOut, TimeOut, Timed, vars
<1>4. CASE Console
  BY <1>4, <1>u DEF Console, AtOnce, RcvHello, Ignore, RcvReset, RcvConf, RcvFrame, RcvVOSndCyclicFrame, RcvVOSndCyclicStop,
     WaitStop
<1>5. ASSUME NEW k \in Threads, Sender(k) PROVE CallKept'
  BY <1>5, <1>u DEF Sender, AtOnce, Timed, OpenSocket, SenderDone, SendHello, WfaStaSndConfirm, StartEntry, SenderWakes,
     WfaStaSnd, SendFails, WfaStaSndVOCyclic, WfaStaWaitStop
<1>6. CASE AtOnce(CreateSender /\ UNCHANGED console) \/ AtOnce(GiveUp /\ UNCHANGED console)
           \/ AtOnce(EndTurn /\ UNCHANGED console) \/ AtOnce(SkipTurn /\ UNCHANGED console)
           \/ AtOnce(Block /\ UNCHANGED console) \/ AtOnce(ReceiverDone /\ UNCHANGED console)
  BY <1>6, <1>n, Zenon DEF CreateSender, GiveUp, EndTurn, SkipTurn, Block, ReceiverDone, AtOnce, TypeInv, CallKept
<1>7. CASE AtOnce(WfaRcvStop /\ UNCHANGED console) \/ AtOnce(MovesOn /\ UNCHANGED console)
           \/ AtOnce(ReceiveReset /\ UNCHANGED console) \/ AtOnce(ReceiveIgnored /\ UNCHANGED console)
           \/ AtOnce(StopHeard /\ UNCHANGED console) \/ Timed(ReceiverWakes /\ UNCHANGED console, ~Busy)
  BY <1>7, <1>n DEF WfaRcvStop, MovesOn, ReceiveReset, ReceiveIgnored, StopHeard, ReceiverWakes, Returns, AtOnce, Timed
<1>8. CASE AtOnce(Hear /\ UNCHANGED console)
  BY <1>8, <1>0 DEF Hear, AtOnce, CallKept, CallRecord
<1>9. CASE AtOnce(LookUp /\ UNCHANGED console)
  <2> DEFINE func == stationRecvProcStatetbl(call.test, wmmps_info.state)
  <2>1. /\ func = "RcvNotCare" => wmmps_info.state <= 4
        /\ func = "RcvProc" => wmmps_info.state = 0
    BY <1>0, HandlerPlace
  <2>2. /\ receiver = "heard" /\ receiver' = "calls" /\ UNCHANGED <<wmmps_info, torn>>
        /\ \E f \in {"Stop", "Reset", func} : call' = [call EXCEPT !.func = f]
    BY <1>9 DEF LookUp, AtOnce
  <2>3. ~torn => call.test = wmmps_info.test
    BY <2>2 DEF TypeInv, CallKept
  <2>4. /\ call' = CallRecord' /\ call'.test = call.test
        /\ call'.func = "RcvNotCare" => func = "RcvNotCare"
        /\ call'.func = "RcvProc" => func = "RcvProc"
    <3> HIDE DEF func
    <3>1. PICK f \in {"Stop", "Reset", func} : call' = [call EXCEPT !.func = f]
      BY <2>2
    <3>2. call' = [type |-> call.type, test |-> call.test, func |-> f, next |-> call.next]
      BY <1>0, <3>1 DEF CallRecord
    <3> QED BY <3>1, <3>2 DEF CallRecord
  <2> QED BY <1>0, <2>1, <2>2, <2>3, <2>4 DEF CallKept, Handler
<1>10. CASE AtOnce(WfaRcvProc /\ UNCHANGED console)
  <2>1. wmmps_info.state = 0
    BY <1>10 DEF WfaRcvProc, Calls, TypeInv, CallKept, AtOnce
  <2>2. CASE call.type \in TestNames
    <3>1. /\ wmmps_info' = [wmmps_info EXCEPT !.test = call.type] /\ receiver' = "moves" /\ UNCHANGED torn
          /\ call' = [call EXCEPT !.next = 1]
      BY <1>10, <2>1, <2>2 DEF WfaRcvProc, AtOnce
    <3>2. wmmps_info'.test = call.type /\ stationRecvProcStatetbl(call.type, 1) # "none"
      BY <1>0, <2>2, <3>1, HandlerPlace
    <3>3. call' = CallRecord' /\ call'.test = call.test /\ call'.next = 1
      BY <1>0, <3>1 DEF CallRecord
    <3> QED BY <1>0, <3>1, <3>2, <3>3 DEF CallKept
  <2>3. CASE call.type \notin TestNames
    BY <1>10, <1>n, <2>3 DEF WfaRcvProc, Returns, AtOnce
  <2> QED BY <2>2, <2>3
<1>11. CASE AtOnce(WfaRcvNotCare /\ UNCHANGED console)
  <2>1. /\ receiver = "calls" /\ call.func = "RcvNotCare" /\ receiver' = "moves" /\ UNCHANGED <<wmmps_info, torn>>
        /\ call' = [call EXCEPT !.next = wmmps_info.state + 1]
    BY <1>11 DEF WfaRcvNotCare, Calls, AtOnce
  <2>2. wmmps_info.state <= 4 /\ (~torn => Handler = "RcvNotCare")
    BY <2>1 DEF TypeInv, CallKept
  <2>3. call' = CallRecord' /\ call'.test = call.test /\ call'.next = wmmps_info.state + 1
    BY <1>0, <2>1 DEF CallRecord
  <2>4. wmmps_info.state \in Nat /\ wmmps_info.test \in TestNames \cup {"none"} /\ wmmps_info.state + 1 \in 1 .. 5
    BY <1>0, <2>2
  <2>5. ~torn => stationRecvProcStatetbl(wmmps_info.test, wmmps_info.state + 1) # "none"
    BY <2>2, <2>4, HandlerPlace DEF Handler
  <2> QED BY <1>0, <2>1, <2>3, <2>4, <2>5 DEF CallKept
<1> QED BY <1>1, <1>2, <1>3, <1>4, <1>5, <1>6, <1>7, <1>8, <1>9, <1>10, <1>11 DEF Next, Receiver

\* Every step of the system keeps the types.
LEMMA TypeStep == TypeInv /\ [Next]_vars => TypeInv'
BY RangesStep, CallStep DEF TypeInv

\* The types hold in the initial state.
LEMMA TypeInit == Init => TypeInv
<1> SUFFICES ASSUME Init PROVE TypeInv
  OBVIOUS
<1>1. TypeOK /\ ConsoleHasTest /\ RowsKept
  BY StationAssumption DEF Init, StationInit, ConsoleInit, NoInfo, TypeOK, Kept, ConsoleHasTest, ConsoleRecord, RowsKept
<1>2. CallKept
  BY DEF Init, StationInit, NoCall, CallKept, CallRecord
<1> QED BY <1>1, <1>2 DEF TypeInv

\* The globals of wfa_wmmps.c keep to their ranges, for every number of starts, hellos,
\* stops, retries and frames, all tests and every disturbance.
THEOREM TypeCorrect == Spec => []TypeOK
<1>1. TypeInv => TypeOK
  BY DEF TypeInv
<1> QED BY <1>1, TypeInit, TypeStep, PTL DEF Spec

\* Whatever the other thread, the commands and the network do, the receiving thread leaves the
\* row of its test only after a command that came while it handled a message.
THEOREM RowsStayKept == Spec => []RowsKept
<1>1. TypeInv => RowsKept
  BY DEF TypeInv
<1> QED BY <1>1, TypeInit, TypeStep, PTL DEF Spec

----------------------------------------------------------------------------
(* The power save that a RecvStop has turned off *)

\* After a quiet stop no thread is left that could turn power save on, and none comes: the
\* receiving thread makes a sender only when it is woken, and only a RecvStart wakes it.
QuietInv == stopped = "quiet" => power = "off" /\ NoSender /\ receiver # "woken"

\* No RecvStop has been in the initial state.
LEMMA QuietInit == Init => QuietInv
BY DEF Init, QuietInv

\* Only a sender that runs takes a step.
LEMMA SenderRuns == \A k \in Threads : Sender(k) => Running(k)
<1> SUFFICES ASSUME NEW k \in Threads, Sender(k) PROVE sender[k].at \notin {"none", "end"}
  BY DEF Running
<1>1. CASE \/ AtOnce(OpenSocket(k) /\ UNCHANGED console) \/ AtOnce(SenderDone(k) /\ UNCHANGED console)
           \/ AtOnce(SendHello(k) /\ UNCHANGED console) \/ AtOnce(WfaStaSndConfirm(k) /\ UNCHANGED console)
           \/ AtOnce(StartEntry(k) /\ UNCHANGED console)
  BY <1>1 DEF AtOnce, OpenSocket, SenderDone, SendHello, WfaStaSndConfirm, StartEntry
<1>2. CASE Timed(SenderWakes(k) /\ UNCHANGED console, ~Busy)
  BY <1>2 DEF Timed, SenderWakes
<1>3. CASE Timed(WfaStaSnd(k) /\ UNCHANGED console, ~Busy)
  BY <1>3 DEF Timed, WfaStaSnd
<1>4. CASE Timed(SendFails(k) /\ UNCHANGED console, FALSE)
  BY <1>4 DEF Timed, SendFails
<1>5. CASE Timed(WfaStaSndVOCyclic(k) /\ UNCHANGED console, ~Busy)
  BY <1>5 DEF Timed, WfaStaSndVOCyclic
<1>6. CASE Timed(WfaStaWaitStop(k) /\ UNCHANGED console, ~Busy)
  BY <1>6 DEF Timed, WfaStaWaitStop
<1> QED BY <1>1, <1>2, <1>3, <1>4, <1>5, <1>6 DEF Sender

\* Every step of the system keeps the quiet.
LEMMA QuietStep == QuietInv /\ [Next]_vars => QuietInv'
<1> SUFFICES ASSUME QuietInv, [Next]_vars PROVE QuietInv'
  OBVIOUS
<1> USE DEF QuietInv, NoSender, Running
<1>u. ASSUME UNCHANGED stopped, UNCHANGED sender, power' \in {power, "off"}, receiver' = "woken" => receiver = "woken"
      PROVE  QuietInv'
  BY <1>u
<1>1. CASE Start
  BY <1>1 DEF Start
<1>2. CASE Stop
  BY <1>2 DEF Stop, RecvStop
<1>3. CASE Stopped \/ Reset
  BY <1>3, <1>u DEF Stopped, Reset, RecvStopped, TGReset, Timed
<1>4. CASE Lose \/ ConsoleStarts \/ ConsoleTimesOut
  BY <1>4, <1>u DEF Lose, ConsoleStarts, ConsoleTimesOut, ConsoleStart, TimeOut, Timed
<1>5. CASE Console
  BY <1>5, <1>u DEF Console, AtOnce, RcvHello, Ignore, RcvReset, RcvConf, RcvFrame, RcvVOSndCyclicFrame, RcvVOSndCyclicStop,
     WaitStop
<1>6. CASE Receiver
  <2>1. CASE AtOnce(CreateSender /\ UNCHANGED console)
    BY <2>1 DEF AtOnce, CreateSender
  <2>2. CASE ~AtOnce(CreateSender /\ UNCHANGED console)
    <3>1. UNCHANGED <<stopped, sender>> /\ power' \in {power, "off"} /\ (receiver' = "woken" => receiver = "woken")
      BY <1>6, <2>2 DEF Receiver, AtOnce, Timed, GiveUp, SkipTurn, Block, ReceiverDone, EndTurn, Hear, LookUp, WfaRcvStop,
         WfaRcvProc, WfaRcvNotCare, MovesOn, Returns, ReceiveReset, ReceiveIgnored, StopHeard, ReceiverWakes
    <3> QED BY <3>1, <1>u
  <2> QED BY <2>1, <2>2
<1>7. ASSUME NEW k \in Threads, Sender(k) PROVE QuietInv'
  <2>1. Running(k)
    BY <1>7, SenderRuns
  <2>2. UNCHANGED stopped
    BY <1>7 DEF Sender, AtOnce, Timed
  <2> QED BY <2>1, <2>2
<1>8. CASE UNCHANGED vars
  BY <1>8, <1>u DEF vars
<1> QED BY <1>1, <1>2, <1>3, <1>4, <1>5, <1>6, <1>7, <1>8 DEF Next

\* Power save that a RecvStop turned off when no thread was left to send stays off until the
\* next RecvStart, whatever the network and the console do.
THEOREM PowerSaveStaysOff == Spec => []PowerStaysOff
<1>1. QuietInv => PowerStaysOff
  BY DEF QuietInv, PowerStaysOff
<1> QED BY <1>1, QuietInit, QuietStep, PTL DEF Spec

----------------------------------------------------------------------------
(* The stages of a calm run.  Ready waits for a RecvStart; from Hello on the *)
(* station has a test, whose name comes in Hello; Data is the exchange of    *)
(* frames, Stops that of the stops; Over is left by RecvStop, Stopping by    *)
(* its end, which leads back to Ready.  None of them rests on the tables of  *)
(* the station and the console fitting each other.                           *)

Places == {"none", "begins", "sleeps", "turns", "acts", "end"}
\* Every thread that ever sent has a place.
SenderLinked ==
  /\ sender = [k \in Threads |-> [at |-> sender[k].at, does |-> sender[k].does, sent |-> sender[k].sent]]
  /\ \A k \in Threads : sender[k].at \in Places
\* A socket that nothing keeps open holds no message.
InboxLinked ==
  /\ inbox = [k \in Threads |-> inbox[k]]
  /\ \A k \in Threads : k \notin Kept(psSockfd, reading) => inbox[k] = <<>>
\* What holds in every run, calm or not; a console that is done has nothing left to read.
Links ==
  /\ disturbed \in Nat /\ starts \in Nat
  /\ SenderLinked /\ InboxLinked
  /\ ~listening => toConsole = <<>>
  /\ listening => con.ended = "none"

AtMostOne == \A j, k \in Threads : Running(j) /\ Running(k) => j = k
\* No thread has still to open the socket of the station.
NoneBegins == \A k \in Threads : sender[k].at # "begins"
\* The kinds of message that the console has still to read, and whose they are.
OnlySends(types, fds) == toConsole \in Seq([type : types, ac : AC, from : fds])

\* No test, before the first one or when RecvStop is over: the console of the next one may
\* have begun.
Ready ==
  /\ agent = "ready" /\ (starts = 0 \/ stopped # "none")
  /\ ~gtgWmmPS /\ psSockfd = 0 /\ receiver = "waits" /\ NoSender /\ wmmps_info = NoInfo
  /\ toConsole = <<>>
  /\ consoles = IF listening THEN starts + 1 ELSE starts
  /\ listening => ~con.known

\* RecvStop has reset the test and waits for its threads: the receiving one waits, or
\* something will end its wait for the stop.
Stopping ==
  /\ agent = "stopping" /\ starts > 0 /\ stopped # "none"
  /\ psSockfd = 0 /\ NoneBegins /\ wmmps_info = NoInfo
  /\ ~listening /\ consoles = starts
  /\ \/ receiver \in {"waits", "sleeps", "runs", "ends"} /\ ~gtgWmmPS
     \/ receiver = "stops" /\ (stop_flag \/ \E k \in Threads : sender[k].at = "acts" /\ sender[k].does.does = "WaitStop")

InTest == agent = "ready" /\ starts > 0 /\ stopped = "none"

\* Before the name of the test has come to the station: it is not sent yet, or it is all
\* that the socket holds, or the receiving thread has it in hand.
Unnamed ==
  /\ psSockfd # 0 => inbox[psSockfd] = <<>>
  /\ ~Handles
  /\ IF listening THEN ~con.known /\ consoles = starts ELSE consoles = starts - 1
Named ==
  /\ listening /\ con.known /\ consoles = starts
  /\ psSockfd # 0 /\ con.from = psSockfd
  /\ IF Handles THEN inbox[psSockfd] = <<>> /\ call.type = con.test
                ELSE inbox[psSockfd] = <<con.test>>
\* The thread that has the name finds the function for it, and stores the position after it.
Naming ==
  /\ receiver = "heard" => call.test = "B_D"
  /\ receiver = "calls" => call.func = "RcvProc"
  /\ receiver = "moves" => num_hello <= 1 /\ (num_hello = 1 => \A k \in Threads : sender[k].at # "turns")
Hello ==
  /\ InTest /\ gtgWmmPS
  /\ wmmps_info = [test |-> IF receiver = "moves" THEN con.test ELSE "B_D", state |-> 0, stream |-> TRUE]
  /\ state_num = 1 /\ num_stops = 0 /\ ~resetsnd /\ ~resetWMMPS
  /\ receiver \in {"woken", "sleeps", "runs", "receives", "heard", "calls", "moves"}
  /\ receiver = "woken" => NoSender /\ psSockfd = 0
  /\ receiver = "receives" => reading = psSockfd
  /\ receiver = "sleeps" => call = NoCall
  /\ psSockfd = 0 => num_hello = 0
  /\ \A k \in Threads : Running(k) => IF sender[k].at = "begins" THEN psSockfd = 0
                                      ELSE k = psSockfd /\ sender[k].at \in {"sleeps", "turns"}
  /\ OnlySends({"HELLO"}, {psSockfd}) /\ (psSockfd = 0 => toConsole = <<>>)
  /\ Unnamed \/ Named
  /\ Naming

\* The console would take a stop where it stands.
Accepts == Waits \/ Cyclical
\* A message in hand is a frame or a stop, and a stop leads to WfaRcvStop.
Handling ==
  /\ receiver \in {"heard", "calls"} => call.type \in {"DEFAULT", "STOP"}
  /\ receiver = "calls" => call.func \notin {"RcvProc", "Reset"} /\ (call.type = "STOP" => call.func = "Stop")
\* From the name to the end of the exchange of stops: one sender, in a row that goes on.
Exchange ==
  /\ InTest /\ gtgWmmPS /\ ~resetWMMPS
  /\ wmmps_info.state > 0 /\ wmmps_info.test \in TestNames /\ wmmps_info.stream
  /\ state_num \in DOMAIN SendRow
  /\ num_hello <= MaxHello
  /\ psSockfd # 0 /\ con.known /\ con.from = psSockfd /\ consoles = starts
  /\ receiver \in {"runs", "receives", "heard", "calls", "moves", "stops", "ends"} /\ reading \in {0, psSockfd}
  /\ Handling
  /\ \A k \in Threads : Running(k) => k = psSockfd /\ sender[k].at \in {"sleeps", "turns", "acts"}
  /\ \A k \in Threads : sender[k].at = "acts" => sender[k].does = SendRow[state_num]
  /\ inbox[psSockfd] \in Seq({"DEFAULT", "STOP"})
Data ==
  /\ Exchange /\ num_stops = 0
  /\ listening /\ OnlySends({"HELLO", "CONFIRM", "DEFAULT"}, Threads)

\* The console's stop is on its way to the station, or in the hands of the receiving thread.
HasStop ==
  \/ \E j \in 1 .. Len(inbox[psSockfd]) : inbox[psSockfd][j] = "STOP"
  \/ receiver \in {"heard", "calls"} /\ call.type = "STOP"
\* A console that accepts has a stop to read; one that is done has answered it.
Stops ==
  /\ Exchange /\ num_stops \in 1 .. MaxStops
  /\ sender[psSockfd].at \in {"turns", "acts"} /\ SendRow[state_num].does = "WaitStop"
  /\ IF listening THEN OnlySends({"STOP"}, Threads) /\ (Accepts => toConsole # <<>>)
     ELSE receiver # "stops" => HasStop

\* The last stop has closed the socket: the receiving thread is out of its loop, knows, or
\* the console will never be done and no RecvStop is due.
Over ==
  /\ InTest /\ ~gtgWmmPS /\ psSockfd = 0 /\ NoneBegins /\ receiver # "woken"
  /\ \/ receiver \in {"waits", "sleeps", "runs", "ends"} \/ (receiver = "stops" /\ stop_flag)
     \/ listening /\ con.known /\ ~Accepts /\ OnlySends({"STOP"}, Threads)

\* In a calm run no start was lost, one thread sends, and the run is in one of the stages.
StageInv == calm => ~deaf /\ AtMostOne /\ (Ready \/ Stopping \/ Hello \/ Data \/ Stops \/ Over)

\* A sender leaves the console, the receiving thread and the commands alone.
LEMMA SenderFrame ==
  ASSUME NEW k \in Threads, Sender(k)
  PROVE  UNCHANGED <<console, receiving, control, consoles, stopped, torn, wmmps_info>>
BY DEF Sender, AtOnce, Timed, OpenSocket, SenderDone, SendHello, WfaStaSndConfirm, StartEntry, SenderWakes, WfaStaSnd,
   SendFails, WfaStaSndVOCyclic, WfaStaWaitStop

\* So does the receiving thread with the console and the commands.
LEMMA ReceiverFrame ==
  ASSUME Receiver
  PROVE  UNCHANGED <<console, control, consoles, stopped, torn, state_num>> /\ receiver # "waits"
BY DEF Receiver, AtOnce, Timed, CreateSender, GiveUp, SkipTurn, Block, ReceiverDone, EndTurn, Hear, LookUp, WfaRcvStop,
   WfaRcvProc, WfaRcvNotCare, MovesOn, Returns, ReceiveReset, ReceiveIgnored, StopHeard, ReceiverWakes, Heard, Calls

\* The console leaves the station alone, and does nothing that no message asks for.
LEMMA ConsoleFrame ==
  ASSUME Console
  PROVE  UNCHANGED <<station, history>> /\ Reads
BY DEF Console, AtOnce, RcvHello, Ignore, RcvReset, RcvConf, RcvFrame, RcvVOSndCyclicFrame, RcvVOSndCyclicStop, WaitStop,
   Plain

\* What a step of a calm run is: each timed one is due.
CalmStep ==
  \/ Start /\ ~Busy /\ (starts > 0 => stopped # "none")
  \/ Stop /\ ~Busy /\ con.ended # "none" /\ consoles = starts /\ starts > 0
  \/ Stopped /\ ~Busy /\ ~Asleep
  \/ Reset /\ ~gtgWmmPS
  \/ ConsoleStarts /\ agent = "ready" /\ wmmps_info.state = 0
       /\ (gtgWmmPS \/ (NoSender /\ receiver = "waits"))
  \/ Receiver \/ Console
  \/ \E k \in Threads : Sender(k) /\ (sender[k].at \in {"sleeps", "acts"} => ~Busy)
  \/ UNCHANGED vars

\* A step to a calm run is one of a calm run.
LEMMA CalmSteps ==
  ASSUME disturbed \in Nat, [Next]_vars, calm'
  PROVE  calm /\ CalmStep
<1>0. ASSUME InTime(FALSE) PROVE FALSE
  BY <1>0 DEF InTime, calm
<1>1. CASE Start
  BY <1>1 DEF Start, InTime, calm, CalmStep
<1>2. CASE Stop
  BY <1>2 DEF Stop, InTime, calm, CalmStep
<1>3. CASE Stopped
  BY <1>3 DEF Stopped, Timed, InTime, calm, CalmStep
<1>4. CASE Reset
  BY <1>4 DEF Reset, InTime, calm, CalmStep
<1>5. CASE Lose
  BY <1>5, <1>0 DEF Lose
<1>6. CASE ConsoleStarts
  BY <1>6 DEF ConsoleStarts, InTime, calm, CalmStep
<1>7. CASE ConsoleTimesOut
  BY <1>7, <1>0 DEF ConsoleTimesOut, Timed
<1>8. CASE Receiver
  <2>1. calm
    BY <1>8 DEF Receiver, AtOnce, Timed, InTime, calm
  <2> QED BY <1>8, <2>1 DEF CalmStep
<1>9. CASE Console
  BY <1>9, ConsoleFrame DEF calm, CalmStep
<1>10. ASSUME NEW k \in Threads, Sender(k) PROVE calm /\ CalmStep
  <2>1. calm
    BY <1>10 DEF Sender, AtOnce, Timed, InTime, calm
  <2>2. ASSUME NEW A, Timed(A, ~Busy) PROVE ~Busy
    BY <2>2 DEF Timed, InTime, calm
  <2>3. sender[k].at \in {"sleeps", "acts"} => ~Busy
    BY <1>10, <2>2, Zenon DEF Sender, AtOnce, OpenSocket, SenderDone, SendHello, WfaStaSndConfirm, StartEntry
  <2> QED BY <1>10, <2>1, <2>3 DEF CalmStep
<1>11. CASE UNCHANGED vars
  BY <1>11 DEF vars, calm, CalmStep
<1> QED BY <1>1, <1>2, <1>3, <1>4, <1>5, <1>6, <1>7, <1>8, <1>9, <1>10, <1>11 DEF Next

\* Sockets opened, closed or blocked in keep the link of the sockets.
LEMMA SocketsLinked ==
  ASSUME InboxLinked, NEW fd, NEW blocked, Sockets(fd, blocked)
  PROVE  InboxLinked'
BY DEF InboxLinked, Sockets

\* A message taken off keeps the link of the sockets.
LEMMA HearLinked ==
  ASSUME InboxLinked, Hear
  PROVE  InboxLinked'
BY DEF InboxLinked, Hear

\* A delivery goes to a socket that is kept open.
LEMMA DeliverLinked ==
  ASSUME InboxLinked, NEW unicast, NEW cast, Deliver(unicast, cast), UNCHANGED <<psSockfd, reading>>
  PROVE  InboxLinked'
BY DEF InboxLinked, Deliver

\* A sender that goes on has a place.
LEMMA SenderTyped ==
  ASSUME SenderLinked, NEW k, NEW at \in Places, NEW does, NEW sent,
         sender' = [sender EXCEPT ![k] = [at |-> at, does |-> does, sent |-> sent]]
  PROVE  SenderLinked' /\ (k \in Threads => sender'[k].at = at /\ sender'[k].does = does)
BY DEF SenderLinked

\* A sender that counts a frame stays at what it does.
LEMMA SenderCounts ==
  ASSUME SenderLinked, NEW k \in Threads, sender' = [sender EXCEPT ![k].sent = @ + 1]
  PROVE  SenderLinked' /\ sender'[k].at = sender[k].at /\ sender'[k].does = sender[k].does
<1>1. sender' = [sender EXCEPT ![k] = [at |-> sender[k].at, does |-> sender[k].does, sent |-> sender[k].sent + 1]]
  <2>1. sender[k] = [at |-> sender[k].at, does |-> sender[k].does, sent |-> sender[k].sent]
    BY Zenon DEF SenderLinked
  <2> DEFINE r == sender[k]
  <2>2. [r EXCEPT !.sent = r.sent + 1] = [at |-> r.at, does |-> r.does, sent |-> r.sent + 1]
    <3> HIDE DEF r
    <3>1. r = [at |-> r.at, does |-> r.does, sent |-> r.sent]
      BY <2>1 DEF r
    <3> QED BY <3>1
  <2>3. sender' = [sender EXCEPT ![k] = [r EXCEPT !.sent = r.sent + 1]]
    BY Zenon
  <2> QED BY <2>2, <2>3, Zenon
<1>2. sender[k].at \in Places
  BY DEF SenderLinked
<1>3. SenderLinked'
  BY <1>1, <1>2 DEF SenderLinked
<1>4. DOMAIN sender = Threads
  BY Zenon DEF SenderLinked
<1> QED BY <1>1, <1>3, <1>4

\* Every step of the system keeps the links.
LEMMA LinksStep ==
  ASSUME TypeInv, Links, [Next]_vars
  PROVE  Links'
<1>1. InboxLinked'
  <2>0. InboxLinked
    BY DEF Links, InboxLinked, SenderLinked
  <2>s. ASSUME SameSockets PROVE InboxLinked'
    BY <2>0, <2>s DEF SameSockets, InboxLinked
  <2>1. CASE Start \/ Stopped
    BY <2>1, <2>s DEF Start, RecvStart, Stopped, RecvStopped, Timed
  <2>2. CASE Stop \/ Reset
    BY <2>2, <2>0, SocketsLinked DEF Stop, RecvStop, Reset, TGReset
  <2>3. CASE Lose
    BY <2>3, <2>0 DEF Lose, InboxLinked
  <2>4. CASE ConsoleStarts \/ ConsoleTimesOut \/ UNCHANGED vars
    BY <2>4, <2>0 DEF ConsoleStarts, ConsoleStart, ConsoleTimesOut, TimeOut, Timed, InboxLinked, vars
  <2>5. CASE Receiver
    <3>1. CASE AtOnce(GiveUp /\ UNCHANGED console) \/ AtOnce(Block /\ UNCHANGED console)
               \/ AtOnce(StopHeard /\ UNCHANGED console)
      BY <3>1, <2>0, SocketsLinked DEF AtOnce, GiveUp, Block, StopHeard
    <3>2. CASE AtOnce(Hear /\ UNCHANGED console)
      BY <3>2, <2>0, HearLinked DEF AtOnce
    <3> QED BY <2>5, <2>s, <3>1, <3>2 DEF Receiver, AtOnce, Timed, CreateSender, SkipTurn, ReceiverDone, ReceiverWakes,
           EndTurn, Hear, LookUp, WfaRcvStop, WfaRcvProc, WfaRcvNotCare, MovesOn, Returns, ReceiveReset, ReceiveIgnored
  <2>6. CASE Console
    <3>1. UNCHANGED <<psSockfd, reading>>
      BY <2>6, ConsoleFrame
    <3>2. CASE UNCHANGED inbox
      BY <3>1, <3>2, <2>0 DEF InboxLinked
    <3>3. ASSUME NEW unicast, NEW cast, Deliver(unicast, cast) PROVE InboxLinked'
      BY <3>1, <3>3, <2>0, DeliverLinked
    <3> QED BY <2>6, <3>2, <3>3 DEF Console, AtOnce, RcvHello, Ignore, RcvReset, RcvConf, RcvFrame, RcvVOSndCyclicFrame,
           RcvVOSndCyclicStop, WaitStop, Reply
  <2>7. ASSUME NEW k \in Threads, Sender(k) PROVE InboxLinked'
    <3>1. SameSockets \/ \E fd, blocked : Sockets(fd, blocked)
      BY <2>7, Zenon DEF Sender, AtOnce, Timed, OpenSocket, SenderDone, SendHello, WfaStaSndConfirm, StartEntry, SenderWakes,
         WfaStaSnd, SendFails, WfaStaSndVOCyclic, WfaStaWaitStop
    <3> QED BY <3>1, <2>s, <2>0, SocketsLinked
  <2> QED BY <2>1, <2>2, <2>3, <2>4, <2>5, <2>6, <2>7 DEF Next
<1>2. SenderLinked'
  <2>0. SenderLinked
    BY DEF Links, InboxLinked, SenderLinked
  <2>u. ASSUME UNCHANGED sender PROVE SenderLinked'
    BY <2>0, <2>u DEF SenderLinked
  <2>1. CASE UNCHANGED sender
    BY <2>1, <2>u
  <2>2. CASE AtOnce(CreateSender /\ UNCHANGED console)
    BY <2>2, <2>0, SenderTyped, Zenon DEF AtOnce, CreateSender, At, Places
  <2>3. ASSUME NEW k \in Threads, Sender(k) PROVE SenderLinked'
    <3>1. ASSUME NEW place \in Places, Goes(k, place) PROVE SenderLinked'
      BY <3>1, <2>0, SenderTyped, Zenon DEF Goes, At
    <3>2. CASE AtOnce(StartEntry(k) /\ UNCHANGED console)
      BY <3>2, <2>0, SenderTyped, Zenon DEF StartEntry, AtOnce, Places
    <3>3. CASE Timed(WfaStaSndVOCyclic(k) /\ UNCHANGED console, ~Busy)
      <4>1. CASE sender' = [sender EXCEPT ![k].sent = @ + 1]
        BY <4>1, <2>0, SenderCounts
      <4> QED BY <3>3, <3>1, <4>1 DEF WfaStaSndVOCyclic, Timed, Places
    <3> QED BY <2>3, <3>1, <3>2, <3>3, <2>u DEF Sender, AtOnce, Timed, OpenSocket, SenderDone, SendHello, WfaStaSndConfirm,
           SenderWakes, WfaStaSnd, SendFails, WfaStaWaitStop, Places
  <2>4. CASE Receiver
    <3>1. UNCHANGED sender \/ AtOnce(CreateSender /\ UNCHANGED console)
      BY <2>4 DEF Receiver, AtOnce, Timed, GiveUp, SkipTurn, Block, ReceiverDone, EndTurn, Hear, LookUp, WfaRcvStop,
         WfaRcvProc, WfaRcvNotCare, MovesOn, Returns, ReceiveReset, ReceiveIgnored, StopHeard, ReceiverWakes
    <3> QED BY <3>1, <2>u, <2>2
  <2>5. Start \/ Stop \/ Stopped \/ Reset \/ Lose \/ ConsoleStarts \/ ConsoleTimesOut \/ Console \/ UNCHANGED vars
           => UNCHANGED sender
    BY ConsoleFrame DEF Start, RecvStart, Stop, RecvStop, Stopped, RecvStopped, Reset, TGReset, Lose, ConsoleStarts,
       ConsoleStart, ConsoleTimesOut, TimeOut, Timed, vars
  <2> QED BY <2>1, <2>3, <2>4, <2>5 DEF Next
<1>3. /\ disturbed' \in Nat /\ starts' \in Nat
      /\ ~listening' => toConsole' = <<>>
      /\ listening' => con'.ended = "none"
  <2> DEFINE Goal == /\ disturbed' \in Nat /\ starts' \in Nat
                     /\ ~listening' => toConsole' = <<>>
                     /\ listening' => con'.ended = "none"
  <2>0. /\ disturbed \in Nat /\ starts \in Nat
        /\ ~listening => toConsole = <<>>
        /\ listening => con.ended = "none"
    BY DEF Links, InboxLinked, SenderLinked
  <2>d. ASSUME NEW due, InTime(due) PROVE disturbed' \in Nat
    BY <2>0, <2>d DEF InTime
  <2>1. CASE Start \/ Stop \/ Stopped \/ Reset
    BY <2>1, <2>0, <2>d DEF Start, RecvStart, Stop, RecvStop, Stopped, RecvStopped, Reset, TGReset, Timed
  <2>2. CASE Lose
    BY <2>2, <2>0, <2>d DEF Lose
  <2>3. CASE ConsoleStarts \/ ConsoleTimesOut
    <3>1. disturbed' \in Nat
      BY <2>3, <2>d DEF ConsoleStarts, ConsoleTimesOut, Timed
    <3>2. CASE ConsoleStarts
      BY <3>1, <3>2, <2>0 DEF ConsoleStarts, ConsoleStart
    <3>3. CASE ConsoleTimesOut
      BY <3>1, <3>3, <2>0 DEF ConsoleTimesOut, TimeOut, Timed, Exit
    <3> QED BY <2>3, <3>2, <3>3
  <2>4. CASE Receiver
    <3>1. UNCHANGED <<console, control>>
      BY <2>4, ReceiverFrame
    <3>2. disturbed' \in Nat
      BY <2>4, <2>0, <2>d DEF Receiver, AtOnce, Timed
    <3>3. ASSUME NEW messages, Send(messages) PROVE ~listening' => toConsole' = <<>>
      BY <3>1, <3>3, <2>0 DEF Send
    <3>4. ~listening' => toConsole' = <<>>
      BY <2>4, <3>1, <3>3, <2>0 DEF Receiver, AtOnce, Timed, CreateSender, GiveUp, SkipTurn, Block, ReceiverDone, EndTurn,
         Hear, LookUp, WfaRcvStop, WfaRcvProc, WfaRcvNotCare, MovesOn, Returns, ReceiveReset, ReceiveIgnored, StopHeard,
         ReceiverWakes, WfaStaResetAll
    <3> QED BY <3>1, <3>2, <3>4, <2>0
  <2>5. CASE Console
    <3>1. UNCHANGED <<station, history>>
      BY <2>5, ConsoleFrame
    <3>2. ~listening' => toConsole' = <<>>
      BY <2>5 DEF Console, AtOnce, RcvHello, Ignore, RcvReset, RcvConf, RcvFrame, RcvVOSndCyclicFrame, RcvVOSndCyclicStop,
         WaitStop, Read
    <3>3. listening' => con'.ended = "none"
      <4>1. CASE AtOnce(RcvHello)
        <5>1. con' \in {con, [con EXCEPT !.known = TRUE, !.state = 1, !.from = Arrived.from]} /\ UNCHANGED listening
          BY <4>1 DEF RcvHello, AtOnce, Stays
        <5>2. con = ConsoleRecord
          BY DEF TypeInv, ConsoleHasTest
        <5>3. [con EXCEPT !.known = TRUE, !.state = 1, !.from = Arrived.from].ended = con.ended
          BY <5>2 DEF ConsoleRecord
        <5> QED BY <5>1, <5>3, <2>0
      <4>2. CASE AtOnce(RcvConf) \/ AtOnce(RcvFrame)
        <5>1. con = ConsoleRecord
          BY DEF TypeInv, ConsoleHasTest
        <5> QED BY <4>2, <5>1, <2>0 DEF RcvConf, RcvFrame, AtOnce, Stays, ConsoleRecord
      <4> QED BY <2>5, <4>1, <4>2, <2>0 DEF Console, AtOnce, Ignore, RcvReset, RcvVOSndCyclicFrame, RcvVOSndCyclicStop,
             WaitStop, Exit, Stays
    <3> QED BY <3>1, <3>2, <3>3, <2>0
  <2>6. ASSUME NEW k \in Threads, Sender(k) PROVE Goal
    <3>1. UNCHANGED <<console, control>>
      BY <2>6, SenderFrame
    <3>2. disturbed' \in Nat
      BY <2>6, <2>0, <2>d DEF Sender, AtOnce, Timed
    <3>3. ASSUME NEW messages, Send(messages) PROVE ~listening' => toConsole' = <<>>
      BY <3>1, <3>3, <2>0 DEF Send
    <3>4. ~listening' => toConsole' = <<>>
      BY <2>6, <3>1, <3>3, <2>0 DEF Sender, AtOnce, Timed, OpenSocket, SenderDone, SendHello, WfaStaSndConfirm, StartEntry,
         SenderWakes, WfaStaSnd, SendFails, WfaStaSndVOCyclic, WfaStaWaitStop
    <3> QED BY <3>1, <3>2, <3>4, <2>0
  <2>7. CASE UNCHANGED vars
    BY <2>7, <2>0 DEF vars
  <2> QED BY <2>1, <2>2, <2>3, <2>4, <2>5, <2>6, <2>7 DEF Next
<1> QED BY <1>1, <1>2, <1>3 DEF Links, InboxLinked, SenderLinked

\* A step of a sender leaves the others where they are.
LEMMA SenderOnly ==
  ASSUME Links, NEW k \in Threads, Sender(k)
  PROVE  \A j \in Threads : j # k => sender'[j] = sender[j]
<1>1. DOMAIN sender = Threads
  BY Zenon DEF Links, InboxLinked, SenderLinked
<1>2. ASSUME NEW r, sender' = [sender EXCEPT ![k] = r] PROVE \A j \in Threads : j # k => sender'[j] = sender[j]
  BY <1>1, <1>2
<1>3. UNCHANGED sender \/ \E r : sender' = [sender EXCEPT ![k] = r]
  BY Zenon DEF Sender, AtOnce, Timed, OpenSocket, SenderDone, SendHello, WfaStaSndConfirm, StartEntry, SenderWakes, WfaStaSnd,
     SendFails, WfaStaSndVOCyclic, WfaStaWaitStop, Goes
<1> QED BY <1>2, <1>3

\* No step of a sender leads back to where it begins.
LEMMA SenderMoves ==
  ASSUME Links, NEW k \in Threads, Sender(k)
  PROVE  sender'[k].at # "begins"
<1>0. DOMAIN sender = Threads /\ SenderLinked
  BY Zenon DEF Links, InboxLinked, SenderLinked
<1>1. ASSUME NEW r, r.at # "begins", sender' = [sender EXCEPT ![k] = r] PROVE sender'[k].at # "begins"
  BY <1>0, <1>1
<1>2. ASSUME NEW place \in {"turns", "sleeps", "end"}, Goes(k, place) PROVE sender'[k].at # "begins"
  BY <1>2, <1>1 DEF Goes, At
<1>3. CASE AtOnce(OpenSocket(k) /\ UNCHANGED console) \/ AtOnce(SenderDone(k) /\ UNCHANGED console)
           \/ AtOnce(SendHello(k) /\ UNCHANGED console) \/ Timed(SenderWakes(k) /\ UNCHANGED console, ~Busy)
           \/ Timed(WfaStaSnd(k) /\ UNCHANGED console, ~Busy) \/ Timed(WfaStaWaitStop(k) /\ UNCHANGED console, ~Busy)
           \/ Timed(SendFails(k) /\ UNCHANGED console, FALSE)
  BY <1>3, <1>2 DEF AtOnce, Timed, OpenSocket, SenderDone, SendHello, SenderWakes, WfaStaSnd, SendFails, WfaStaWaitStop
<1>4. CASE AtOnce(WfaStaSndConfirm(k) /\ UNCHANGED console)
  BY <1>4 DEF AtOnce, WfaStaSndConfirm
<1>5. CASE AtOnce(StartEntry(k) /\ UNCHANGED console)
  BY <1>5, <1>1 DEF AtOnce, StartEntry
<1>6. CASE Timed(WfaStaSndVOCyclic(k) /\ UNCHANGED console, ~Busy)
  <2>1. sender[k].at = "acts"
    BY <1>6 DEF Timed, WfaStaSndVOCyclic
  <2>2. CASE sender' = [sender EXCEPT ![k].sent = @ + 1]
    BY <2>1, <2>2, <1>0, SenderCounts
  <2> QED BY <1>6, <2>2, <1>2 DEF Timed, WfaStaSndVOCyclic
<1> QED BY <1>3, <1>4, <1>5, <1>6 DEF Sender

\* One thread at a time sends, if none does when the next one is made.
LEMMA OneStep ==
  ASSUME Links, AtMostOne, receiver = "woken" => NoSender, [Next]_vars
  PROVE  AtMostOne'
<1>u. ASSUME UNCHANGED sender PROVE AtMostOne'
  BY <1>u DEF AtMostOne, Running
<1>1. CASE Receiver
  <2>1. CASE AtOnce(CreateSender /\ UNCHANGED console)
    <3>1. NoSender
      BY <2>1 DEF CreateSender, AtOnce
    <3>2. PICK k : sender' = [sender EXCEPT ![k] = At("begins")]
      BY <2>1, Zenon DEF CreateSender, AtOnce
    <3>3. DOMAIN sender = Threads
      BY Zenon DEF Links, InboxLinked, SenderLinked
    <3>4. \A j \in Threads : j # k => sender'[j] = sender[j]
      BY <3>2, <3>3
    <3> QED BY <3>1, <3>4 DEF NoSender, Running, AtMostOne
  <2>2. CASE ~AtOnce(CreateSender /\ UNCHANGED console)
    <3>1. UNCHANGED sender
      BY <1>1, <2>2 DEF Receiver, AtOnce, Timed, GiveUp, SkipTurn, Block, ReceiverDone, EndTurn, Hear, LookUp, WfaRcvStop,
         WfaRcvProc, WfaRcvNotCare, MovesOn, Returns, ReceiveReset, ReceiveIgnored, StopHeard, ReceiverWakes
    <3> QED BY <3>1, <1>u
  <2> QED BY <2>1, <2>2
<1>2. ASSUME NEW k \in Threads, Sender(k) PROVE AtMostOne'
  <2>1. Running(k) /\ \A j \in Threads : j # k => sender'[j] = sender[j]
    BY <1>2, SenderRuns, SenderOnly
  <2> QED BY <2>1 DEF AtMostOne, Running
<1>3. Start \/ Stop \/ Stopped \/ Reset \/ Lose \/ ConsoleStarts \/ ConsoleTimesOut \/ Console \/ UNCHANGED vars
         => UNCHANGED sender
  BY ConsoleFrame DEF Start, RecvStart, Stop, RecvStop, Stopped, RecvStopped, Reset, TGReset, Lose, ConsoleStarts,
     ConsoleStart, ConsoleTimesOut, TimeOut, Timed, vars
<1> QED BY <1>1, <1>2, <1>3, <1>u DEF Next

\* From the wait for a start.
LEMMA ReadyStep ==
  ASSUME TypeInv, Links, ~deaf, Ready, CalmStep
  PROVE  ~deaf' /\ (Ready' \/ Stopping' \/ Hello')
<1>0. reading = 0 /\ ~Receiver /\ ~Console /\ \A k \in Threads : ~Sender(k)
  BY ReceiverFrame, ConsoleFrame, SenderRuns DEF Ready, Reads, TypeInv, TypeOK, NoSender
<1>1. CASE Start
  <2>1. ~deaf' /\ InTest' /\ gtgWmmPS' /\ wmmps_info' = [test |-> "B_D", state |-> 0, stream |-> TRUE]
    <3>1. ~deaf'
      BY <1>1, Zenon DEF Start, RecvStart, Ready
    <3>2. InTest' /\ gtgWmmPS' /\ wmmps_info' = [test |-> "B_D", state |-> 0, stream |-> TRUE]
      BY <1>1 DEF Start, RecvStart, wfaWmmpsInitFlag, InTest, Links, InboxLinked, SenderLinked
    <3> QED BY <3>1, <3>2
  <2>2. /\ state_num' = 1 /\ num_stops' = 0 /\ ~resetsnd' /\ ~resetWMMPS' /\ num_hello' = 0
        /\ receiver' = "woken" /\ UNCHANGED <<sender, psSockfd, toConsole, listening, con, consoles>>
    BY <1>1 DEF Start, RecvStart, wfaWmmpsInitFlag, Ready, SameSockets
  <2>3. Unnamed'
    BY <1>1, <2>2 DEF Start, RecvStart, Unnamed, Ready, Handles, Links, InboxLinked, SenderLinked
  <2>4. NoSender' /\ psSockfd' = 0 /\ toConsole' = <<>>
    BY <2>2 DEF Ready, NoSender, Running
  <2> QED BY <2>1, <2>2, <2>3, <2>4 DEF Hello, Naming, OnlySends, NoSender
<1>2. CASE Stop /\ ~Busy /\ con.ended # "none" /\ consoles = starts /\ starts > 0
  BY <1>2 DEF Stop, RecvStop, Sockets, Ready, Links, InboxLinked, SenderLinked, Stopping, NoneBegins, NoSender, Running,
     NoInfo
<1>3. CASE Stopped
  BY <1>3 DEF Stopped, Timed, RecvStopped, Ready
<1>4. CASE Reset
  BY <1>4 DEF Reset, Timed, TGReset, Sockets, Ready, NoSender, Running, NoInfo
<1>5. CASE ConsoleStarts
  BY <1>5 DEF ConsoleStarts, ConsoleStart, Ready, NoSender, Running, NoInfo, Links, InboxLinked, SenderLinked
<1>6. CASE UNCHANGED vars
  BY <1>6 DEF vars, Ready, NoSender, Running, NoInfo
<1> QED BY <1>0, <1>1, <1>2, <1>3, <1>4, <1>5, <1>6 DEF CalmStep

\* From a RecvStop.
LEMMA StoppingStep ==
  ASSUME TypeInv, Links, ~deaf, Stopping, CalmStep
  PROVE  ~deaf' /\ (Ready' \/ Stopping')
<1>1. CASE Start \/ Stop \/ Reset \/ (ConsoleStarts /\ agent = "ready") \/ Console
  BY <1>1, ConsoleFrame DEF Start, RecvStart, Stop, RecvStop, Reset, Timed, TGReset, Stopping, Reads
<1>2. CASE Stopped /\ ~Busy /\ ~Asleep
  <2>1. NoSender
    BY <1>2 DEF Busy, Asleep, Ends, Stopping, NoSender, Running, Links, InboxLinked, SenderLinked, Places
  <2>2. receiver = "waits"
    BY <1>2 DEF Busy, Asleep, Stopping
  <2> QED BY <1>2, <2>1, <2>2 DEF Stopped, Timed, RecvStopped, SameSockets, Stopping, Ready, NoSender, Running, Links,
         InboxLinked, SenderLinked
<1>3. CASE Receiver
  <2>1. CASE AtOnce(StopHeard /\ UNCHANGED console)
    BY <2>1 DEF AtOnce, StopHeard, Sockets, Stopping, NoneBegins
  <2>2. CASE AtOnce(ReceiverDone /\ UNCHANGED console) \/ Timed(ReceiverWakes /\ UNCHANGED console, ~Busy)
    BY <2>2 DEF AtOnce, Timed, ReceiverDone, ReceiverWakes, SameSockets, Stopping, NoneBegins
  <2>3. CASE AtOnce(EndTurn /\ UNCHANGED console) \/ AtOnce(GiveUp /\ UNCHANGED console)
    <3>1. /\ receiver' = "runs" /\ ~gtgWmmPS' /\ psSockfd' = 0
          /\ UNCHANGED <<agent, starts, deaf, stopped, wmmps_info, listening, consoles, sender>>
      <4>1. CASE AtOnce(EndTurn /\ UNCHANGED console)
        BY <4>1 DEF AtOnce, EndTurn, SameSockets, Stopping
      <4>2. CASE AtOnce(GiveUp /\ UNCHANGED console)
        BY <4>2 DEF AtOnce, GiveUp, Sockets, Stopping
      <4> QED BY <2>3, <4>1, <4>2
    <3> QED BY <3>1 DEF Stopping, NoneBegins
  <2> QED BY <1>3, <2>1, <2>2, <2>3 DEF Receiver, AtOnce, CreateSender, SkipTurn, Block, Hear, LookUp, WfaRcvStop, WfaRcvProc,
         WfaRcvNotCare, MovesOn, Calls, ReceiveReset, ReceiveIgnored, Heard, Stopping
<1>4. ASSUME NEW k \in Threads, Sender(k) PROVE ~deaf' /\ Stopping'
  <2>1. UNCHANGED <<console, receiver, control, consoles, stopped, wmmps_info>>
    BY <1>4, SenderFrame
  <2>2. \A j \in Threads : j # k => sender'[j] = sender[j]
    BY <1>4, SenderOnly
  <2>3. psSockfd' = 0 /\ sender'[k].at # "begins" /\ (~gtgWmmPS => ~gtgWmmPS')
    <3>1. psSockfd = 0 /\ Ends(k) /\ sender[k].at # "begins"
      BY DEF Stopping, NoneBegins, Ends
    <3>2. psSockfd' = 0 /\ (~gtgWmmPS => ~gtgWmmPS')
      BY <1>4, <3>1 DEF Sender, AtOnce, Timed, OpenSocket, SenderDone, SendHello, WfaStaSndConfirm, StartEntry, SenderWakes,
         WfaStaSnd, SendFails, WfaStaSndVOCyclic, WfaStaWaitStop, Sockets, SameSockets
    <3> QED BY <1>4, <3>2, SenderMoves
  <2>4. CASE sender[k].at = "acts" /\ sender[k].does.does = "WaitStop"
    <3>1. stop_flag'
      BY <1>4, <2>4 DEF AC, Sender, AtOnce, Timed, OpenSocket, SenderDone, SendHello, WfaStaSndConfirm, StartEntry,
         SenderWakes, WfaStaSnd, SendFails, WfaStaSndVOCyclic, WfaStaWaitStop
    <3> QED BY <2>1, <2>2, <2>3, <3>1 DEF Stopping, NoneBegins
  <2>5. CASE ~(sender[k].at = "acts" /\ sender[k].does.does = "WaitStop")
    <3>1. UNCHANGED stop_flag
      BY <1>4, <2>5 DEF Sender, AtOnce, Timed, OpenSocket, SenderDone, SendHello, WfaStaSndConfirm, StartEntry, SenderWakes,
         WfaStaSnd, SendFails, WfaStaSndVOCyclic, WfaStaWaitStop
    <3> QED BY <2>1, <2>2, <2>3, <2>5, <3>1 DEF Stopping, NoneBegins
  <2> QED BY <2>4, <2>5
<1>5. CASE UNCHANGED vars
  BY <1>5 DEF vars, Stopping, NoneBegins
<1> QED BY <1>1, <1>2, <1>3, <1>4, <1>5 DEF CalmStep

\* The tests, one by one.
LEMMA AllTests ==
  TestNames = {"B_D", "B_H", "B_B", "B_M", "M_D", "B_Z", "M_Y", "L_1", "A_Y", "B_W", "A_J", "M_V", "M_U", "A_U", "M_L",
               "B_K", "M_B", "M_K", "M_W"}
BY DEF TestNames, StationData

\* Every test's data are entries, whatever entries are.
LEMMA DataEntries ==
  ASSUME NEW S, \A act \in AC \cup {"2VO", "VOCyclic"} : On(act) \in S /\ Off(act) \in S
  PROVE  \A t \in TestNames : StationData[t] \in Seq(S)
<1>0. \A act \in {"VO", "VI", "BE", "BK", "2VO", "VOCyclic"} : On(act) \in S /\ Off(act) \in S
  BY DEF AC
<1>1. /\ StationData["B_D"] \in Seq(S) /\ StationData["B_H"] \in Seq(S) /\ StationData["B_B"] \in Seq(S)
      /\ StationData["B_M"] \in Seq(S) /\ StationData["M_D"] \in Seq(S) /\ StationData["B_Z"] \in Seq(S)
  BY <1>0 DEF StationData
<1>2. /\ StationData["M_Y"] \in Seq(S) /\ StationData["L_1"] \in Seq(S)
      /\ StationData["A_Y"] \in Seq(S) /\ StationData["B_W"] \in Seq(S)
  BY <1>0 DEF StationData
<1>3. /\ StationData["A_J"] \in Seq(S) /\ StationData["M_V"] \in Seq(S) /\ StationData["M_U"] \in Seq(S)
      /\ StationData["A_U"] \in Seq(S) /\ StationData["M_L"] \in Seq(S)
  BY <1>0 DEF StationData
<1>4. /\ StationData["B_K"] \in Seq(S) /\ StationData["M_B"] \in Seq(S)
      /\ StationData["M_K"] \in Seq(S) /\ StationData["M_W"] \in Seq(S)
  BY <1>0 DEF StationData
<1> QED BY <1>1, <1>2, <1>3, <1>4, AllTests

\* A row is the confirm, the data and the exchange of stops.
LEMMA RowEntries ==
  ASSUME NEW t \in TestNames
  PROVE  LET row == stationProcStatetbl(t)
         IN  /\ Len(StationData[t]) \in Nat
             /\ DOMAIN row = 1 .. Len(StationData[t]) + 2
             /\ row[1].does = "Confirm" /\ row[Len(StationData[t]) + 2].does = "WaitStop"
             /\ \A n \in 1 .. Len(StationData[t]) : row[n + 1] = StationData[t][n]
<1> DEFINE first == <<On("Confirm")>>
           data == StationData[t]
           last == <<On("WaitStop")>>
           S == [does : AC \cup {"Confirm", "2VO", "VOCyclic", "WaitStop"}, power : {"on", "off"}]
<1>1. data \in Seq(S) /\ first \in Seq(S) /\ last \in Seq(S) /\ Len(first) = 1 /\ Len(last) = 1
  <2>1. \A act \in AC \cup {"Confirm", "2VO", "VOCyclic", "WaitStop"} : On(act) \in S /\ Off(act) \in S
    BY DEF On, Off
  <2> HIDE DEF S
  <2>2. data \in Seq(S)
    BY <2>1, DataEntries
  <2> QED BY <2>1, <2>2
<1>2. first[1].does = "Confirm" /\ last[1].does = "WaitStop"
  BY DEF On
<1>3. stationProcStatetbl(t) = first \o data \o last
  BY DEF stationProcStatetbl
<1> HIDE DEF first, data, last, S
<1>4. first \o data \in Seq(S) /\ Len(first \o data) = 1 + Len(data) /\ Len(data) \in Nat
  BY <1>1, ConcatProperties
<1>9. (first \o data)[1] = first[1] /\ \A n \in 1 .. Len(data) : (first \o data)[n + 1] = data[n]
  BY <1>1, <1>4
<1>5. /\ first \o data \o last \in Seq(S) /\ Len(first \o data \o last) = Len(data) + 2
      /\ (first \o data \o last)[Len(data) + 2] = last[1]
      /\ \A n \in 1 .. Len(data) + 1 : (first \o data \o last)[n] = (first \o data)[n]
  BY <1>1, <1>4, ConcatProperties
<1>6. DOMAIN (first \o data \o last) = 1 .. Len(data) + 2
  BY <1>5
<1>7. (first \o data \o last)[1].does = "Confirm"
  BY <1>2, <1>4, <1>5, <1>9
<1>8. \A n \in 1 .. Len(data) : (first \o data \o last)[n + 1] = data[n]
  BY <1>4, <1>5, <1>9
<1> QED BY <1>2, <1>3, <1>4, <1>5, <1>6, <1>7, <1>8 DEF data

\* A row goes on until its exchange of stops.
LEMMA RowGoesOn ==
  ASSUME NEW t \in TestNames
  PROVE  /\ 1 \in DOMAIN stationProcStatetbl(t)
         /\ \A n \in DOMAIN stationProcStatetbl(t) :
              stationProcStatetbl(t)[n].does # "WaitStop" => n + 1 \in DOMAIN stationProcStatetbl(t)
<1> DEFINE row == stationProcStatetbl(t)
           data == StationData[t]
<1>1. Len(data) \in Nat /\ DOMAIN row = 1 .. Len(data) + 2 /\ row[Len(data) + 2].does = "WaitStop"
  BY RowEntries
<1> HIDE DEF row, data
<1>2. 1 \in DOMAIN row /\ \A n \in DOMAIN row : row[n].does # "WaitStop" => n + 1 \in DOMAIN row
  BY <1>1
<1> QED BY <1>2 DEF row

\* What a thread sends, and what the console has still to read, stay of a kind.
LEMMA SendKind ==
  ASSUME NEW S, toConsole \in Seq(S), NEW messages \in Seq(S), Send(messages)
  PROVE  toConsole' \in Seq(S)
BY ConcatProperties DEF Send

\* What the console reads is of that kind.
LEMMA ReadKind ==
  ASSUME NEW S, toConsole \in Seq(S), Reads, Read
  PROVE  Arrived \in S /\ toConsole' \in Seq(S)
<1>1. Head(toConsole) \in S /\ Tail(toConsole) \in Seq(S)
  BY HeadTailProperties DEF Reads
<1>2. <<>> \in Seq(S)
  OBVIOUS
<1> QED BY <1>1, <1>2 DEF Read, Arrived

\* A sequence is one over every larger set.
LEMMA KindGrows ==
  ASSUME NEW S, NEW T, S \subseteq T, NEW s \in Seq(S)
  PROVE  s \in Seq(T)
OBVIOUS

\* No name of a test is one of the other messages.
LEMMA NamesApart == {"STOP", "RESET", "RESET_RESP", "DEFAULT"} \cap TestNames = {}
BY DEF TestNames, StationData

\* What the receiving thread may hear before the test has begun is the name.
LEMMA HelloHears ==
  ASSUME TypeInv, Hello, Heard
  PROVE  Named /\ ~Handles /\ reading = psSockfd /\ Type = con.test
<1>1. reading = psSockfd /\ psSockfd # 0 /\ inbox[psSockfd] # <<>> /\ ~Handles
  BY DEF Heard, Hello, Handles, TypeInv, TypeOK
<1>2. Named
  BY <1>1 DEF Hello, Unnamed
<1> QED BY <1>1, <1>2 DEF Named, Type

\* What it has in hand is the name, too.
LEMMA HelloHandles ==
  ASSUME TypeInv, Hello, Handles
  PROVE  /\ Named /\ inbox[psSockfd] = <<>> /\ call.type = con.test /\ con.test \in TestNames
         /\ call.type \notin {"STOP", "RESET"} /\ call = CallRecord
<1>1. Named
  BY DEF Hello, Unnamed
<1>2. call.type = con.test /\ con.test \in TestNames /\ inbox[psSockfd] = <<>>
  BY <1>1 DEF Named, TypeInv, ConsoleHasTest
<1> QED BY <1>1, <1>2, NamesApart DEF TypeInv, CallKept

\* From the start to the name of the test.
LEMMA HelloStep ==
  ASSUME TypeInv, Links, ~deaf, AtMostOne, Hello, CalmStep
  PROVE  ~deaf' /\ (Hello' \/ Data')
<1>0. /\ psSockfd \in 0 .. MaxStarts /\ reading \in {0, psSockfd} /\ (receiver # "receives" => reading = 0)
      /\ con = ConsoleRecord /\ DOMAIN sender = Threads /\ consoles \in Nat /\ starts \in Nat
  BY Zenon DEF TypeInv, TypeOK, Hello, ConsoleHasTest, Links, InboxLinked, SenderLinked
<1>f. ASSUME UNCHANGED <<listening, con, consoles, starts, psSockfd>>, psSockfd # 0 => inbox'[psSockfd] = inbox[psSockfd],
             UNCHANGED receiving \/ (~Handles /\ ~Handles')
      PROVE  (Unnamed \/ Named)'
  BY <1>f DEF Hello, Unnamed, Named, Handles
<1>g. ASSUME ~Handles' PROVE Naming'
  BY <1>g DEF Handles, Naming
<1>w. receiver = "moves" => listening /\ con.known
  BY DEF Hello, Unnamed, Named, Handles
<1>1. CASE (Start /\ (starts > 0 => stopped # "none")) \/ Stopped \/ (Reset /\ ~gtgWmmPS)
           \/ (Stop /\ con.ended # "none" /\ consoles = starts)
  BY <1>1, <1>0 DEF Start, Stopped, RecvStopped, Timed, Hello, InTest, Links, InboxLinked, SenderLinked, Unnamed, Named
<1>2. CASE ConsoleStarts
  <2>1. /\ ~listening /\ UNCHANGED <<station, inbox, toConsole, stopped>> /\ consoles' = consoles + 1 /\ listening'
        /\ ~con'.known
    BY <1>2 DEF ConsoleStarts, ConsoleStart
  <2>2. (Unnamed \/ Named)' /\ ~Handles'
    BY <2>1, <1>0 DEF Hello, Unnamed, Named, Handles
  <2>3. UNCHANGED <<deaf, agent, starts, gtgWmmPS, psSockfd, reading, wmmps_info, state_num, counters, receiver, call, sender>>
        /\ Naming' /\ receiver # "moves"
    BY <2>1, <2>2, <1>g DEF Handles
  <2> HIDE DEF station
  <2> QED BY <2>1, <2>2, <2>3 DEF Hello, InTest, OnlySends, NoSender, Running
<1>3. CASE Receiver
  <2>0. UNCHANGED <<con, listening, agent, starts, deaf, consoles, stopped, state_num>>
    BY <1>3, ReceiverFrame
  <2>1. CASE AtOnce(CreateSender /\ UNCHANGED console)
    <3>1. /\ receiver = "woken" /\ receiver' = "sleeps" /\ NoSender /\ psSockfd = 0 /\ reading = 0
          /\ UNCHANGED <<gtgWmmPS, psSockfd, wmmps_info, state_num, counters, toConsole, inbox>>
      BY <2>1, <1>0 DEF AtOnce, CreateSender, SameSockets, Hello
    <3>2. \A k \in Threads : Running(k)' => sender'[k].at = "begins"
      <4>1. PICK k : sender' = [sender EXCEPT ![k] = At("begins")]
        BY <2>1, Zenon DEF CreateSender, AtOnce
      <4> QED BY <4>1, <3>1, <1>0 DEF NoSender, Running, At
    <3>3. (Unnamed \/ Named)' /\ Naming' /\ call' = NoCall
      BY <2>1, <3>1, <2>0, <1>f, <1>g DEF Handles, AtOnce, CreateSender, TypeInv, CallKept
    <3> QED BY <2>0, <3>1, <3>2, <3>3 DEF Hello, InTest, OnlySends
  <2>2. CASE AtOnce(GiveUp /\ UNCHANGED console) \/ AtOnce(EndTurn /\ UNCHANGED console)
    <3>1. receiver # "ends" /\ ~resetsnd /\ ~(num_hello > MaxHello /\ psSockfd = 0)
      BY StationAssumption DEF Hello
    <3> QED BY <2>2, <3>1, Zenon DEF AtOnce, GiveUp, EndTurn
  <2>3. CASE AtOnce(SkipTurn /\ UNCHANGED console) \/ AtOnce(ReceiverDone /\ UNCHANGED console)
             \/ AtOnce(StopHeard /\ UNCHANGED console)
    BY <2>3 DEF AtOnce, SkipTurn, ReceiverDone, StopHeard, Hello
  <2>4. CASE AtOnce(Block /\ UNCHANGED console)
    <3>1. /\ receiver' = "receives" /\ reading' = psSockfd /\ psSockfd # 0
          /\ UNCHANGED <<gtgWmmPS, psSockfd, wmmps_info, state_num, counters, toConsole, sender>>
      BY <2>4 DEF AtOnce, Block, Sockets
    <3>2. inbox'[psSockfd] = inbox[psSockfd]
      BY <2>4, <1>0 DEF AtOnce, Block, Sockets, Kept, Threads
    <3>3. (Unnamed \/ Named)' /\ Naming' /\ receiver = "runs"
      BY <2>4, <3>1, <3>2, <2>0, <1>f, <1>g DEF Handles, AtOnce, Block
    <3> QED BY <2>0, <3>1, <3>3 DEF Hello, InTest, OnlySends, Running
  <2>5. CASE Timed(ReceiverWakes /\ UNCHANGED console, ~Busy)
    <3>1. /\ receiver = "sleeps" /\ receiver' = "runs"
          /\ UNCHANGED <<gtgWmmPS, psSockfd, reading, inbox, wmmps_info, state_num, counters, toConsole, sender>>
      BY <2>5 DEF Timed, ReceiverWakes, SameSockets, Hello, NoCall
    <3>3. (Unnamed \/ Named)' /\ Naming'
      BY <3>1, <2>0, <1>f, <1>g DEF Handles
    <3> QED BY <2>0, <3>1, <3>3 DEF Hello, InTest, OnlySends, Running
  <2>6. CASE AtOnce(Hear /\ UNCHANGED console)
    <3>1. Named /\ ~Handles /\ reading = psSockfd /\ Type = con.test /\ Heard /\ receiver = "receives"
      BY <2>6, HelloHears DEF AtOnce, Hear, Heard
    <3>2. /\ receiver' = "heard" /\ reading' = 0 /\ call' = [type |-> con.test, test |-> "B_D", func |-> "none", next |-> 0]
          /\ UNCHANGED <<gtgWmmPS, psSockfd, wmmps_info, state_num, counters, toConsole, sender>>
      BY <2>6, <3>1 DEF AtOnce, Hear, Hello
    <3>3. inbox'[psSockfd] = <<>>
      <4>1. psSockfd \in Threads /\ psSockfd \in Kept(psSockfd, 0) /\ inbox[psSockfd] = <<con.test>>
        BY <3>1, <1>0 DEF Kept, Named, Threads
      <4>2. inbox'[psSockfd] = Tail(inbox[psSockfd])
        BY <2>6, <4>1, <3>1 DEF AtOnce, Hear
      <4> QED BY <4>1, <4>2
    <3>4. Named' /\ Naming'
      BY <3>1, <3>2, <3>3, <2>0 DEF Named, Naming, Handles
    <3> QED BY <2>0, <3>1, <3>2, <3>4 DEF Hello, InTest, OnlySends, Running, Handles
  <2>7. CASE AtOnce(LookUp /\ UNCHANGED console)
    <3>1. /\ Named /\ inbox[psSockfd] = <<>> /\ call.type = con.test /\ call.type \notin {"STOP", "RESET"} /\ call = CallRecord
          /\ receiver = "heard" /\ call.test = "B_D" /\ wmmps_info.state = 0
      BY <2>7, HelloHandles DEF AtOnce, LookUp, Handles, Hello, Naming
    <3>2. stationRecvProcStatetbl("B_D", 0) = "RcvProc"
      BY FirstTest, DownlinkRange DEF stationRecvProcStatetbl
    <3>3. call' = [call EXCEPT !.func = "RcvProc"] /\ ~resetsnd'
      BY <2>7, <3>1, <3>2 DEF AtOnce, LookUp, Hello
    <3>4. /\ receiver' = "calls" /\ call'.type = con.test /\ call'.func = "RcvProc"
          /\ UNCHANGED <<gtgWmmPS, psSockfd, reading, inbox, wmmps_info, state_num, num_hello, num_stops, resetWMMPS,
                         toConsole, sender>>
      BY <2>7, <3>1, <3>3 DEF AtOnce, LookUp, SameSockets, CallRecord
    <3>5. Named' /\ Naming'
      BY <3>1, <3>4, <2>0 DEF Named, Naming, Handles
    <3> QED BY <2>0, <3>1, <3>3, <3>4, <3>5 DEF Hello, InTest, OnlySends, Running
  <2>8. CASE AtOnce(WfaRcvProc /\ UNCHANGED console)
    <3>1. /\ Named /\ inbox[psSockfd] = <<>> /\ call.type = con.test /\ con.test \in TestNames /\ call = CallRecord
          /\ receiver = "calls"
      BY <2>8, HelloHandles DEF AtOnce, WfaRcvProc, Calls, Handles
    <3>2. /\ receiver' = "moves" /\ num_hello' = 0
          /\ wmmps_info' = [wmmps_info EXCEPT !.test = con.test] /\ call' = [call EXCEPT !.next = wmmps_info.state + 1]
          /\ UNCHANGED <<gtgWmmPS, psSockfd, reading, inbox, state_num, num_stops, resetsnd, resetWMMPS, toConsole, sender>>
      BY <2>8, <3>1 DEF AtOnce, WfaRcvProc, SameSockets
    <3>3. wmmps_info' = [test |-> con.test, state |-> 0, stream |-> TRUE] /\ call'.type = con.test
      BY <3>1, <3>2 DEF Hello, CallRecord
    <3>4. Named' /\ Naming'
      BY <3>1, <3>2, <3>3, <2>0 DEF Named, Naming, Handles
    <3> QED BY <2>0, <3>1, <3>2, <3>3, <3>4 DEF Hello, InTest, OnlySends, Running, Named
  <2>9. CASE AtOnce(WfaRcvStop /\ UNCHANGED console) \/ AtOnce(WfaRcvNotCare /\ UNCHANGED console)
             \/ AtOnce(ReceiveReset /\ UNCHANGED console) \/ AtOnce(ReceiveIgnored /\ UNCHANGED console)
    BY <2>9 DEF AtOnce, WfaRcvStop, WfaRcvNotCare, ReceiveReset, ReceiveIgnored, Calls, Hello, Naming
  <2>10. CASE AtOnce(MovesOn /\ UNCHANGED console)
    <3>1. Named /\ inbox[psSockfd] = <<>> /\ con.test \in TestNames /\ receiver = "moves" /\ call.next > 0
      <4>1. receiver = "moves"
        BY <2>10 DEF AtOnce, MovesOn
      <4> QED BY <4>1, HelloHandles DEF Handles, TypeInv, CallKept
    <3>2. /\ receiver' = "ends" /\ wmmps_info' = [test |-> con.test, state |-> call.next, stream |-> TRUE]
          /\ UNCHANGED <<gtgWmmPS, psSockfd, reading, inbox, num_hello, num_stops, resetWMMPS, toConsole, sender>>
      BY <2>10, <3>1 DEF AtOnce, MovesOn, Returns, SameSockets, Hello
    <3>4. inbox'[psSockfd] \in Seq({"DEFAULT", "STOP"})
      <4>1. <<>> \in Seq({"DEFAULT", "STOP"})
        OBVIOUS
      <4> QED BY <4>1, <3>1, <3>2
    <3>5. wmmps_info'.state > 0 /\ wmmps_info'.test \in TestNames /\ wmmps_info'.stream /\ num_hello' <= MaxHello
      BY <3>1, <3>2, StationAssumption DEF Hello, Naming, TypeInv, TypeOK
    <3>6. state_num' \in DOMAIN SendRow'
      <4>1. SendRow' = stationProcStatetbl(con.test)
        BY <3>1, <3>2, FirstTest DEF SendRow
      <4> QED BY <4>1, <3>1, <2>0, RowGoesOn DEF Hello
    <3>7. toConsole' \in Seq([type : {"HELLO", "CONFIRM", "DEFAULT"}, ac : AC, from : Threads])
      <4> DEFINE S == [type : {"HELLO"}, ac : AC, from : {psSockfd}]
                 T == [type : {"HELLO", "CONFIRM", "DEFAULT"}, ac : AC, from : Threads]
      <4>1. S \subseteq T
        BY <3>1, <1>0 DEF Named, Threads
      <4>2. toConsole' \in Seq(S)
        BY <3>2 DEF Hello, OnlySends
      <4> HIDE DEF S, T
      <4>3. toConsole' \in Seq(T)
        BY <4>1, <4>2, KindGrows
      <4> QED BY <4>3 DEF T
    <3>8. \A k \in Threads : Running(k)' => k = psSockfd /\ sender'[k].at \in {"sleeps", "turns"}
      BY <3>1, <3>2 DEF Hello, Named, Running
    <3>9. \A k \in Threads : sender'[k].at # "acts"
      BY <3>8, Zenon DEF Running
    <3>10. /\ InTest' /\ gtgWmmPS' /\ ~resetWMMPS' /\ psSockfd' # 0 /\ con'.known /\ con'.from = psSockfd'
           /\ consoles' = starts' /\ reading' \in {0, psSockfd'} /\ listening' /\ num_stops' = 0 /\ deaf' = deaf
      BY <2>0, <3>1, <3>2, <1>0 DEF Hello, InTest, Named
    <3>11. \A k \in Threads : /\ Running(k)' => k = psSockfd' /\ sender'[k].at \in {"sleeps", "turns", "acts"}
                              /\ sender'[k].at # "acts"
      BY <3>2, <3>8, <3>9
    <3> QED BY <3>2, <3>4, <3>5, <3>6, <3>7, <3>10, <3>11 DEF Data, Exchange, Handling, OnlySends
  <2> QED BY <1>3, <2>1, <2>2, <2>3, <2>4, <2>5, <2>6, <2>7, <2>8, <2>9, <2>10 DEF Receiver
<1>4. CASE Console
  <2>1. UNCHANGED <<station, history>> /\ Reads
    BY <1>4, ConsoleFrame
  <2>2. Arrived.type = "HELLO" /\ Arrived.from = psSockfd
    <3>1. toConsole \in Seq([type : {"HELLO"}, ac : AC, from : {psSockfd}]) /\ toConsole # <<>>
      BY <2>1 DEF Reads, Hello, OnlySends
    <3>2. Head(toConsole) \in [type : {"HELLO"}, ac : AC, from : {psSockfd}]
      BY <3>1, HeadTailProperties
    <3> QED BY <3>2 DEF Arrived
  <2>3. RcvHello
    BY <1>4, <2>2 DEF Console, AtOnce, Ignore, RcvReset, RcvConf, RcvFrame, RcvVOSndCyclicFrame, RcvVOSndCyclicStop, WaitStop,
       Plain
  <2>4. psSockfd # 0 /\ listening
    BY <2>1 DEF Reads, Hello
  <2>5. toConsole' \in Seq([type : {"HELLO"}, ac : AC, from : {psSockfd}]) /\ UNCHANGED listening
    BY <2>1, <2>3, ReadKind DEF RcvHello, Hello, OnlySends, Stays
  <2>6. (Unnamed \/ Named)'
    <3>1. CASE con.known
      BY <3>1, <2>1, <2>3, <2>5, <1>f DEF RcvHello, Handles
    <3>2. CASE ~con.known
      <4>1. Unnamed
        BY <3>2 DEF Hello, Named
      <4>2. con' = [con EXCEPT !.known = TRUE, !.state = 1, !.from = Arrived.from] /\ Reply(<<con.test>>)
        BY <2>3, <3>2 DEF RcvHello
      <4>3. con'.known /\ con'.from = psSockfd /\ con'.test = con.test
        BY <4>2, <2>2, <1>0 DEF ConsoleRecord
      <4>4. inbox'[psSockfd] = <<con.test>>
        <5>1. inbox[psSockfd] = <<>> /\ psSockfd \in Threads
          BY <4>1, <2>4, <1>0 DEF Unnamed, Threads
        <5>2. inbox'[psSockfd] = <<>> \o <<con.test>> \o <<>> \o <<>>
          BY <4>2, <4>3, <5>1, <2>4 DEF Reply, Deliver, Kept
        <5> QED BY <5>2
      <4> QED BY <4>1, <4>3, <4>4, <2>1, <2>4, <2>5 DEF Named, Unnamed, Handles
    <3> QED BY <3>1, <3>2
  <2>7. UNCHANGED <<deaf, agent, starts, gtgWmmPS, psSockfd, reading, wmmps_info, state_num, counters, receiver, call, sender,
                    stopped>>
    BY <2>1
  <2>8. Naming' /\ (receiver = "moves" => con' = con)
    BY <2>3, <2>7, <1>w DEF Hello, Naming, RcvHello
  <2> HIDE DEF station
  <2> QED BY <2>4, <2>5, <2>6, <2>7, <2>8 DEF Hello, InTest, OnlySends, NoSender, Running
<1>5. ASSUME NEW k \in Threads, Sender(k), sender[k].at \in {"sleeps", "acts"} => ~Busy PROVE ~deaf' /\ Hello'
  <2>0. UNCHANGED <<con, listening, receiver, call, agent, starts, deaf, consoles, stopped, wmmps_info>>
    BY <1>5, SenderFrame
  <2>1. Running(k) /\ (\A j \in Threads : j # k => sender'[j] = sender[j])
    BY <1>5, SenderRuns, SenderOnly
  <2>2. /\ wmmps_info.state = 0 /\ wmmps_info.stream /\ sender[k].at # "acts" /\ receiver # "woken"
        /\ sender[k].at = "turns" => ~Ends(k) /\ k = psSockfd
    BY <2>1 DEF Hello, Running, Ends, NoSender, Threads
  <2>3. CASE AtOnce(OpenSocket(k) /\ UNCHANGED console)
    <3>1. psSockfd = 0 /\ reading = 0 /\ ~Handles'
      BY <2>3, <2>0, <1>0 DEF Hello, Unnamed, Named, Handles, AtOnce, OpenSocket, Running
    <3>2. /\ psSockfd' = k /\ reading' = 0 /\ sender' = [sender EXCEPT ![k] = At("sleeps")]
          /\ UNCHANGED <<gtgWmmPS, state_num, counters, toConsole>>
      BY <2>3, <2>2, <3>1 DEF AtOnce, OpenSocket, Sockets, Goes
    <3>3. inbox'[k] = <<>>
      <4>1. inbox[k] = <<>> /\ k # 0
        BY <3>1 DEF Links, InboxLinked, SenderLinked, Kept, Threads
      <4> QED BY <4>1, <2>3, <2>2, <3>1 DEF AtOnce, OpenSocket, Sockets, Kept
    <3>4. Unnamed'
      BY <3>1, <3>2, <3>3, <2>0 DEF Hello, Unnamed, Named, Handles
    <3>5. \A j \in Threads : Running(j)' => j = k /\ sender'[j].at = "sleeps"
      <4>1. \A j \in Threads : Running(j) => j = k
        BY <2>1 DEF AtMostOne
      <4>2. sender'[k].at = "sleeps"
        BY <3>2, <1>0 DEF At
      <4> QED BY <4>1, <4>2, <2>1 DEF Running
    <3>6. toConsole' = <<>> /\ k # 0
      BY <3>1, <3>2 DEF Hello, Threads
    <3>7. OnlySends({"HELLO"}, {psSockfd})'
      BY <3>6 DEF OnlySends
    <3>8. UNCHANGED <<gtgWmmPS, state_num, num_stops, resetsnd, resetWMMPS>> /\ receiver' # "receives"
      BY <2>0, <3>1, <3>2, <1>0 DEF TypeInv, TypeOK
    <3> QED BY <2>0, <2>2, <3>1, <3>2, <3>4, <3>5, <3>6, <3>7, <3>8, <1>g DEF Hello, InTest
  <2>4. CASE Timed(SenderWakes(k) /\ UNCHANGED console, ~Busy)
    <3>1. /\ sender[k].at = "sleeps" /\ sender' = [sender EXCEPT ![k] = At("turns")]
          /\ UNCHANGED <<gtgWmmPS, psSockfd, reading, inbox, state_num, counters, toConsole>>
      BY <2>4 DEF Timed, SenderWakes, Goes, SameSockets
    <3>2. (Unnamed \/ Named)'
      BY <3>1, <2>0, <1>f
    <3>3. sender'[k].at = "turns" /\ Naming'
      <4>1. receiver # "moves"
        BY <1>5, <3>1 DEF Busy
      <4> QED BY <4>1, <3>1, <2>0, <1>0 DEF At, Hello, Naming
    <3> QED BY <2>0, <2>1, <2>2, <3>1, <3>2, <3>3 DEF Hello, InTest, OnlySends, Running
  <2>5. CASE AtOnce(SendHello(k) /\ UNCHANGED console)
    <3>1. /\ sender[k].at = "turns" /\ sender' = [sender EXCEPT ![k] = At("sleeps")] /\ k = psSockfd
          /\ UNCHANGED <<gtgWmmPS, psSockfd, reading, inbox, state_num, num_stops, resetsnd, resetWMMPS>>
          /\ Send(<<Message("HELLO", "BE")>>) /\ num_hello' = num_hello + 1
      BY <2>5, <2>2 DEF AtOnce, SendHello, Goes, SameSockets
    <3>2. (Unnamed \/ Named)'
      BY <3>1, <2>0, <1>f
    <3>3. sender'[k].at = "sleeps" /\ psSockfd # 0
      BY <3>1, <1>0 DEF At, Threads
    <3>4. toConsole' \in Seq([type : {"HELLO"}, ac : AC, from : {psSockfd}])
      <4>1. <<Message("HELLO", "BE")>> \in Seq([type : {"HELLO"}, ac : AC, from : {psSockfd}])
        BY DEF Message, AC
      <4> QED BY <4>1, <3>1, SendKind DEF Hello, OnlySends
    <3>5. Naming'
      <4>1. \A j \in Threads : sender'[j].at # "turns"
        BY <2>1, <3>3 DEF AtMostOne, Running
      <4>2. receiver = "moves" => num_hello' <= 1
        BY <3>1 DEF Hello, Naming, TypeInv, TypeOK
      <4> QED BY <4>1, <4>2, <2>0 DEF Hello, Naming
    <3> QED BY <2>0, <2>1, <2>2, <3>1, <3>2, <3>3, <3>4, <3>5 DEF Hello, InTest, OnlySends, Running
  <2>6. /\ ~AtOnce(SenderDone(k) /\ UNCHANGED console) /\ ~AtOnce(WfaStaSndConfirm(k) /\ UNCHANGED console)
        /\ ~AtOnce(StartEntry(k) /\ UNCHANGED console)
    BY <2>2 DEF AtOnce, SenderDone, WfaStaSndConfirm, StartEntry
  <2>7. /\ ~Timed(WfaStaSnd(k) /\ UNCHANGED console, ~Busy) /\ ~Timed(SendFails(k) /\ UNCHANGED console, FALSE)
        /\ ~Timed(WfaStaSndVOCyclic(k) /\ UNCHANGED console, ~Busy)
        /\ ~Timed(WfaStaWaitStop(k) /\ UNCHANGED console, ~Busy)
    BY <2>2 DEF Timed, WfaStaSnd, SendFails, WfaStaSndVOCyclic, WfaStaWaitStop
  <2> QED BY <1>5, <2>3, <2>4, <2>5, <2>6, <2>7, Zenon DEF Sender
<1>6. CASE UNCHANGED vars
  <2>1. UNCHANGED <<deaf, agent, starts, gtgWmmPS, psSockfd, reading, wmmps_info, state_num, counters, receiver, call,
                    sender, stopped, toConsole, listening, con, consoles, inbox>>
    BY <1>6 DEF vars
  <2>2. (Unnamed \/ Named)' /\ Naming'
    BY <2>1, <1>f DEF Hello, Naming
  <2> QED BY <2>1, <2>2 DEF Hello, InTest, OnlySends, NoSender, Running
<1> QED BY <1>1, <1>2, <1>3, <1>4, <1>5, <1>6 DEF CalmStep

\* What the console delivers to the socket of the test.
LEMMA DeliverKind ==
  ASSUME psSockfd \in Threads, UNCHANGED <<psSockfd, reading>>, con'.from = psSockfd,
         NEW S, "DEFAULT" \in S, inbox[psSockfd] \in Seq(S), NEW unicast, unicast.first \in Seq(S), unicast.last \in Seq(S),
         NEW cast, Deliver(unicast, cast)
  PROVE  inbox'[psSockfd] \in Seq(S)
<1> DEFINE middle == IF cast /\ psSockfd \in bound THEN <<"DEFAULT">> ELSE <<>>
<1>1. middle \in Seq(S)
  OBVIOUS
<1>2. inbox'[psSockfd] = inbox[psSockfd] \o unicast.first \o middle \o unicast.last
  <2>1. psSockfd \in Kept(psSockfd, reading)
    BY DEF Kept, Threads
  <2> QED BY <2>1, Zenon DEF Deliver
<1> HIDE DEF middle
<1> QED BY <1>1, <1>2, ConcatProperties

\* A console's answer to a stop is on its way to the station.
LEMMA StopDelivered ==
  ASSUME psSockfd \in Threads, UNCHANGED <<psSockfd, reading>>, con'.from = psSockfd,
         inbox[psSockfd] \in Seq({"DEFAULT", "STOP"}), Reply(<<"STOP">>)
  PROVE  HasStop'
<1>1. inbox'[psSockfd] = inbox[psSockfd] \o <<"STOP">> \o <<>> \o <<>>
  BY DEF Reply, Deliver, Kept, Threads
<1>2. inbox'[psSockfd][Len(inbox[psSockfd]) + 1] = "STOP" /\ Len(inbox'[psSockfd]) = Len(inbox[psSockfd]) + 1
  BY <1>1
<1>3. Len(inbox[psSockfd]) \in Nat
  OBVIOUS
<1>4. Len(inbox[psSockfd]) + 1 \in 1 .. Len(inbox'[psSockfd])
  BY <1>2, <1>3
<1> QED BY <1>2, <1>4 DEF HasStop

\* What the receiving thread may do after the name: it takes messages until a stop.
LEMMA ExchangeReceives ==
  ASSUME TypeInv, Links, Exchange, Receiver, ~AtOnce(StopHeard /\ UNCHANGED console)
  PROVE  /\ Exchange'
         /\ UNCHANGED <<console, agent, starts, deaf, toConsole, num_stops, sender, state_num, psSockfd, SendRow>>
         /\ wmmps_info'.test = wmmps_info.test
         /\ receiver' # "stops" /\ HasStop => HasStop'
         /\ receiver # "stops"
<1>0. UNCHANGED <<con, listening, agent, starts, deaf, consoles, stopped, state_num>>
  BY ReceiverFrame
<1>1. psSockfd \in Threads /\ (receiver = "receives" => reading = psSockfd) /\ DOMAIN sender = Threads
  <2>1. psSockfd \in Threads
    BY DEF Exchange, TypeInv, TypeOK, Threads
  <2>2. (receiver = "receives" => reading = psSockfd) /\ DOMAIN sender = Threads
    BY Zenon DEF Links, InboxLinked, SenderLinked, Exchange, TypeInv, TypeOK
  <2> QED BY <2>1, <2>2
<1> DEFINE Goal == /\ Exchange'
                   /\ UNCHANGED <<console, agent, starts, deaf, toConsole, num_stops, sender, state_num, psSockfd, SendRow>>
                   /\ wmmps_info'.test = wmmps_info.test
                   /\ receiver' # "stops" /\ HasStop => HasStop'
                   /\ receiver # "stops"
           Frame == UNCHANGED <<psSockfd, toConsole, num_stops, sender, gtgWmmPS, resetWMMPS, num_hello>>
           InLoop == {"runs", "receives", "heard", "calls", "moves", "ends"}
<1>k. ASSUME Frame, wmmps_info'.test = wmmps_info.test, wmmps_info'.stream = wmmps_info.stream, wmmps_info'.state > 0,
             inbox'[psSockfd] \in Seq({"DEFAULT", "STOP"}), reading' \in {0, psSockfd}, Handling',
             receiver' \in InLoop \cup {"stops"}, receiver # "stops", receiver' # "stops" /\ HasStop => HasStop'
      PROVE  Goal
  <2>1. SendRow' = SendRow
    BY <1>k DEF SendRow
  <2> QED BY <1>k, <1>0, <2>1 DEF Exchange, InTest, Running
<1>u. ASSUME Frame, UNCHANGED wmmps_info, inbox'[psSockfd] = inbox[psSockfd], reading' \in {0, psSockfd}, Handling',
             receiver' \in InLoop \cup {"stops"}, receiver # "stops",
             receiver' # "stops" => (receiver \in {"heard", "calls"} /\ call.type = "STOP"
                                       => receiver' \in {"heard", "calls"} /\ call'.type = "STOP")
      PROVE  Goal
  <2>1. receiver' # "stops" /\ HasStop => HasStop'
    BY <1>u DEF HasStop
  <2> HIDE DEF Goal
  <2> QED BY <1>k, <1>u, <2>1 DEF Exchange
<1>s. ASSUME SameSockets PROVE inbox'[psSockfd] = inbox[psSockfd] /\ reading' \in {0, psSockfd} /\ psSockfd' = psSockfd
  BY <1>s DEF SameSockets, Exchange
<1>h. ASSUME receiver' \notin {"heard", "calls"} PROVE Handling'
  BY <1>h DEF Handling
<1>w. wmmps_info.state > 0 /\ wmmps_info.state \in Nat /\ wmmps_info.test \in TestNames \cup {"none"}
      /\ call = CallRecord /\ Handling
  BY DEF TypeInv, TypeOK, CallKept, Exchange
<1>2. CASE AtOnce(SkipTurn /\ UNCHANGED console)
  <2>1. Frame /\ UNCHANGED <<wmmps_info, receiver>> /\ receiver = "runs" /\ SameSockets
    BY <1>2 DEF AtOnce, SkipTurn, SameSockets
  <2> QED BY <2>1, <1>u, <1>s, <1>h
<1>3. CASE AtOnce(Block /\ UNCHANGED console)
  <2>1. Frame /\ UNCHANGED wmmps_info /\ receiver' = "receives" /\ reading' = psSockfd /\ receiver = "runs"
    BY <1>3 DEF AtOnce, Block, Sockets
  <2>2. inbox'[psSockfd] = inbox[psSockfd]
    BY <1>3, <1>1 DEF AtOnce, Block, Sockets, Kept, Threads
  <2> QED BY <2>1, <2>2, <1>u, <1>h
<1>4. CASE AtOnce(EndTurn /\ UNCHANGED console)
  <2>1. Frame /\ UNCHANGED wmmps_info /\ receiver' = "runs" /\ receiver = "ends" /\ SameSockets
    BY <1>4 DEF AtOnce, EndTurn, SameSockets
  <2> QED BY <2>1, <1>u, <1>s, <1>h
<1>5. CASE AtOnce(Hear /\ UNCHANGED console)
  <2>1. /\ Frame /\ UNCHANGED wmmps_info /\ receiver = "receives" /\ receiver' = "heard" /\ reading = psSockfd
        /\ reading' = 0 /\ call' = [type |-> Type, test |-> wmmps_info.test, func |-> "none", next |-> 0]
        /\ inbox[psSockfd] # <<>>
    BY <1>5, <1>1 DEF AtOnce, Hear, Heard
  <2>2. inbox'[psSockfd] = Tail(inbox[psSockfd])
    BY <1>5, <2>1, <1>1 DEF AtOnce, Hear, Kept, Threads
  <2>3. inbox'[psSockfd] \in Seq({"DEFAULT", "STOP"}) /\ Type \in {"DEFAULT", "STOP"}
    BY <2>1, <2>2, HeadTailProperties DEF Exchange, Type
  <2>4. call'.type = Type /\ Handling'
    BY <2>1, <2>3 DEF Handling
  <2>5. HasStop => HasStop'
    <3>1. ASSUME Type # "STOP", NEW j \in 1 .. Len(inbox[psSockfd]), inbox[psSockfd][j] = "STOP"
          PROVE  HasStop'
      <4> DEFINE s == inbox[psSockfd]
      <4>1. s \in Seq({"DEFAULT", "STOP"}) /\ s # <<>> /\ Head(s) # "STOP" /\ s[j] = "STOP" /\ j \in 1 .. Len(s)
        BY <2>1, <2>2, <3>1 DEF Type, Exchange
      <4>2. inbox'[psSockfd'] = Tail(s)
        BY <2>1, <2>2
      <4> HIDE DEF s
      <4>3. j - 1 \in 1 .. Len(Tail(s)) /\ Tail(s)[j - 1] = "STOP"
        BY <4>1
      <4> QED BY <4>2, <4>3 DEF HasStop
    <3>2. Type = "STOP" => HasStop'
      BY <2>1, <2>4 DEF HasStop
    <3> QED BY <2>1, <3>1, <3>2 DEF HasStop
  <2> QED BY <2>1, <2>3, <2>4, <2>5, <1>k, <1>w
<1>6. CASE AtOnce(LookUp /\ UNCHANGED console)
  <2> DEFINE func == stationRecvProcStatetbl(call.test, wmmps_info.state)
             stop == call.type = "STOP" /\ wmmps_info.state > 0
             next == CASE stop -> "Stop" [] call.type = "RESET" -> "Reset" [] OTHER -> func
  <2>1. /\ Frame /\ UNCHANGED wmmps_info /\ receiver = "heard" /\ receiver' = "calls" /\ SameSockets
        /\ call' = [call EXCEPT !.func = next]
    BY <1>6 DEF AtOnce, LookUp, SameSockets
  <2>2. call.type \in {"DEFAULT", "STOP"}
    BY <2>1, <1>w DEF Handling
  <2>3. func \notin {"RcvProc", "Reset"}
    <3>1. call.test \in TestNames \cup {"none"}
      BY DEF TypeInv, CallKept
    <3>2. func # "RcvProc"
      <4> HIDE DEF func
      <4> QED BY <1>w, <3>1, HandlerPlace DEF func
    <3>3. func # "Reset"
      BY DEF stationRecvProcStatetbl
    <3> QED BY <3>2, <3>3
  <2>4. next = IF call.type = "STOP" THEN "Stop" ELSE func
    <3> HIDE DEF func
    <3> QED BY <2>2, <1>w
  <2>5. call'.type = call.type /\ call'.func = next
    <3> HIDE DEF next
    <3> QED BY <2>1, <1>w DEF CallRecord
  <2>6. Handling'
    <3> HIDE DEF next, func
    <3> QED BY <2>1, <2>2, <2>3, <2>4, <2>5 DEF Handling
  <2> HIDE DEF next, func
  <2> QED BY <2>1, <2>5, <2>6, <1>u, <1>s
<1>7. CASE AtOnce(WfaRcvStop /\ UNCHANGED console)
  <2>1. /\ Frame /\ UNCHANGED wmmps_info /\ receiver = "calls" /\ SameSockets
        /\ receiver' = (IF call.type = "STOP" THEN "stops" ELSE "ends")
    BY <1>7 DEF AtOnce, WfaRcvStop, SameSockets, Calls, Returns
  <2> QED BY <2>1, <1>u, <1>s, <1>h
<1>8. CASE AtOnce(WfaRcvNotCare /\ UNCHANGED console)
  <2>1. /\ Frame /\ UNCHANGED wmmps_info /\ receiver = "calls" /\ SameSockets /\ receiver' = "moves"
        /\ call.type = "DEFAULT"
    BY <1>8 DEF AtOnce, WfaRcvNotCare, SameSockets, Calls
  <2> QED BY <2>1, <1>u, <1>s, <1>h
<1>9. CASE AtOnce(MovesOn /\ UNCHANGED console)
  <2>1. /\ Frame /\ wmmps_info' = [wmmps_info EXCEPT !.state = call.next] /\ receiver = "moves" /\ SameSockets
        /\ receiver' = "ends"
    BY <1>9 DEF AtOnce, MovesOn, SameSockets, Returns
  <2>2. wmmps_info \in [test : TestNames \cup {"none"}, state : 0 .. 5, stream : BOOLEAN] /\ call.next > 0
    BY <2>1 DEF TypeInv, TypeOK, CallKept
  <2>3. wmmps_info'.test = wmmps_info.test /\ wmmps_info'.stream = wmmps_info.stream /\ wmmps_info'.state = call.next
    BY <2>1, <2>2
  <2>4. receiver' # "stops" /\ HasStop => HasStop'
    BY <2>1, <1>s DEF HasStop
  <2>5. inbox'[psSockfd] \in Seq({"DEFAULT", "STOP"})
    BY <2>1, <1>s DEF Exchange
  <2> QED BY <2>1, <2>2, <2>3, <2>4, <2>5, <1>k, <1>s, <1>h
<1>10. CASE AtOnce(ReceiveIgnored /\ UNCHANGED console)
  <2>1. /\ Frame /\ UNCHANGED wmmps_info /\ receiver = "calls" /\ SameSockets /\ receiver' = "ends"
        /\ call.func # "Stop"
    BY <1>10 DEF AtOnce, ReceiveIgnored, SameSockets, Calls, Returns
  <2>2. call.type # "STOP"
    BY <2>1, <1>w DEF Handling
  <2> QED BY <2>1, <2>2, <1>u, <1>s, <1>h
<1>11. /\ ~AtOnce(GiveUp /\ UNCHANGED console) /\ ~AtOnce(WfaRcvProc /\ UNCHANGED console)
       /\ ~AtOnce(ReceiveReset /\ UNCHANGED console)
  <2>1. ~(num_hello > MaxHello)
    BY StationAssumption DEF Exchange, TypeInv, TypeOK
  <2>2. ~AtOnce(GiveUp /\ UNCHANGED console)
    BY <2>1, Zenon DEF AtOnce, GiveUp
  <2>3. ~Calls({"RcvProc"}) /\ (Calls({"Reset", "RcvNotCare"}) => call.func # "Reset" /\ call.type = "DEFAULT")
    BY <1>w DEF Handling, Calls
  <2> QED BY <2>2, <2>3 DEF AtOnce, WfaRcvProc, ReceiveReset
<1>12. /\ ~AtOnce(CreateSender /\ UNCHANGED console) /\ ~AtOnce(ReceiverDone /\ UNCHANGED console)
       /\ ~Timed(ReceiverWakes /\ UNCHANGED console, ~Busy)
  BY DEF AtOnce, Timed, CreateSender, ReceiverDone, ReceiverWakes, Exchange
<1> QED BY <1>2, <1>3, <1>4, <1>5, <1>6, <1>7, <1>8, <1>9, <1>10, <1>11, <1>12, Zenon DEF Receiver

\* What a position of the console's table is: a category it takes, and how it answers.
Answers == [takes : AC, echo : Seq(AC), cast : BOOLEAN, stop : BOOLEAN]

\* Every position of the table is one, so that an answer is a sequence of frames.
LEMMA AnswersTyped == \A t \in TestNames : consoleProcStatetbl[t] \in Seq(Answers)
<1>1. \A ac \in AC, echo \in Seq(AC), cast, stop \in BOOLEAN : Takes(ac, echo, cast, stop) \in Answers
  BY DEF Takes, Answers
<1>2. /\ <<>> \in Seq(AC) /\ \A a \in AC : <<a>> \in Seq(AC) /\ <<a, a>> \in Seq(AC)
      /\ <<"VO", "VI", "BE", "BK">> \in Seq(AC)
  BY DEF AC
<1>3. {"VO", "VI", "BE", "BK"} = AC
  BY DEF AC
<1> HIDE DEF Answers
<1>4. /\ RcvVO \in Answers /\ RcvVI \in Answers /\ RcvBE \in Answers /\ RcvVOE \in Answers /\ RcvVIE \in Answers
      /\ RcvBKE \in Answers
  BY <1>1, <1>2, <1>3, Zenon DEF RcvVO, RcvVI, RcvBE, RcvVOE, RcvVIE, RcvBKE
<1>5. /\ RcvVOSnd \in Answers /\ RcvVOSnd2VO \in Answers /\ RcvVOSndCyclic \in Answers /\ RcvVOSndE \in Answers
      /\ RcvVOSndAllE \in Answers /\ RcvVOSndBcastE \in Answers
  BY <1>1, <1>2, <1>3 DEF RcvVOSnd, RcvVOSnd2VO, RcvVOSndCyclic, RcvVOSndE, RcvVOSndAllE, RcvVOSndBcastE
<1>6. /\ RcvVISnd \in Answers /\ RcvVISndE \in Answers /\ RcvVISndBE \in Answers /\ RcvVISndBK \in Answers
      /\ RcvVISndVOE \in Answers /\ RcvVISndBcast \in Answers
  BY <1>1, <1>2, <1>3 DEF RcvVISnd, RcvVISndE, RcvVISndBE, RcvVISndBK, RcvVISndVOE, RcvVISndBcast
<1>7. RcvBESnd \in Answers /\ RcvBESndE \in Answers /\ RcvBESndBcast \in Answers /\ RcvBESndBcastE \in Answers
  BY <1>1, <1>2, <1>3 DEF RcvBESnd, RcvBESndE, RcvBESndBcast, RcvBESndBcastE
<1> DEFINE tbl == consoleProcStatetbl
<1>8. /\ tbl["B_D"] \in Seq(Answers) /\ tbl["B_H"] \in Seq(Answers) /\ tbl["B_B"] \in Seq(Answers)
      /\ tbl["B_M"] \in Seq(Answers) /\ tbl["M_D"] \in Seq(Answers) /\ tbl["B_Z"] \in Seq(Answers)
  BY <1>4, <1>5, <1>6, <1>7 DEF consoleProcStatetbl
<1>9. /\ tbl["M_Y"] \in Seq(Answers) /\ tbl["L_1"] \in Seq(Answers)
      /\ tbl["A_Y"] \in Seq(Answers) /\ tbl["B_W"] \in Seq(Answers) /\ tbl["A_J"] \in Seq(Answers)
  BY <1>4, <1>5, <1>6, <1>7 DEF consoleProcStatetbl
<1>10. /\ tbl["M_V"] \in Seq(Answers) /\ tbl["M_U"] \in Seq(Answers)
       /\ tbl["A_U"] \in Seq(Answers) /\ tbl["M_L"] \in Seq(Answers)
  BY <1>4, <1>5, <1>6, <1>7 DEF consoleProcStatetbl
<1>11. /\ tbl["B_K"] \in Seq(Answers) /\ tbl["M_B"] \in Seq(Answers)
       /\ tbl["M_K"] \in Seq(Answers) /\ tbl["M_W"] \in Seq(Answers)
  BY <1>4, <1>5, <1>6, <1>7 DEF consoleProcStatetbl
<1> HIDE DEF tbl
<1>12. \A t \in TestNames : tbl[t] \in Seq(Answers)
  BY <1>8, <1>9, <1>10, <1>11, AllTests
<1> QED BY <1>12 DEF tbl

\* What the console may do with what the station sends: it stays, but for a stop it accepts.
LEMMA ExchangeHeard ==
  ASSUME TypeInv, Links, Exchange, Console, Arrived.type \in {"HELLO", "CONFIRM", "DEFAULT", "STOP"}
  PROVE  /\ Exchange' /\ Read /\ UNCHANGED <<station, history>>
         /\ IF Arrived.type = "STOP" THEN IF Accepts THEN ~listening' /\ HasStop' ELSE listening' /\ ~Accepts'
                                     ELSE listening'
<1>0. UNCHANGED <<station, history>> /\ Reads /\ listening
  BY ConsoleFrame DEF Reads
<1>1. /\ psSockfd \in Threads /\ con = ConsoleRecord /\ con.known /\ con.from = psSockfd
      /\ con.test \in TestNames /\ Len(Row) \in Nat /\ inbox[psSockfd] \in Seq({"DEFAULT", "STOP"})
  <2>1. psSockfd \in Threads
    BY DEF Exchange, TypeInv, TypeOK, Threads
  <2>2. con = ConsoleRecord /\ con.test \in TestNames
    BY <1>0 DEF TypeInv, ConsoleHasTest
  <2> QED BY <2>1, <2>2, RowLength DEF Exchange, Row
<1>s. /\ <<>> \in Seq({"DEFAULT", "STOP"}) /\ <<"STOP">> \in Seq({"DEFAULT", "STOP"})
      /\ <<"DEFAULT">> \in Seq({"DEFAULT", "STOP"})
  OBVIOUS
<1>2. ASSUME con'.known, con'.from = psSockfd, inbox'[psSockfd] \in Seq({"DEFAULT", "STOP"}) PROVE Exchange'
  <2>1. UNCHANGED <<agent, starts, stopped, gtgWmmPS, resetWMMPS, wmmps_info, state_num, num_hello, psSockfd, consoles,
                    receiver, call, reading, sender>>
    BY <1>0
  <2> HIDE DEF station, history
  <2> QED BY <1>2, <2>1 DEF Exchange, InTest, SendRow, Running, Handling
<1>3. ASSUME NEW unicast, unicast.first \in Seq({"DEFAULT", "STOP"}), unicast.last \in Seq({"DEFAULT", "STOP"}), NEW cast,
             Deliver(unicast, cast), con'.from = psSockfd
      PROVE  inbox'[psSockfd] \in Seq({"DEFAULT", "STOP"})
  BY <1>0, <1>1, <1>3, DeliverKind
<1>4. ASSUME NEW messages \in Seq({"DEFAULT", "STOP"}), Reply(messages), con'.known, con'.from = psSockfd PROVE Exchange'
  <2> DEFINE unicast == [first |-> messages, last |-> <<>>]
  <2>1. unicast.first \in Seq({"DEFAULT", "STOP"}) /\ unicast.last \in Seq({"DEFAULT", "STOP"}) /\ Deliver(unicast, FALSE)
    <3>1. unicast.first = messages /\ unicast.last = <<>>
      OBVIOUS
    <3>2. Deliver(unicast, FALSE)
      BY <1>4, Zenon DEF Reply
    <3> QED BY <3>1, <3>2, <1>4, <1>s
  <2> HIDE DEF unicast
  <2> QED BY <2>1, <1>2, <1>3, <1>4
<1>5. Waits => con.state # 1
  BY <1>1 DEF Waits
<1>6. CASE UNCHANGED <<con, inbox, listening>> /\ Read /\ (Arrived.type = "STOP" => ~Accepts)
  <2>1. Exchange'
    BY <1>0, <1>1, <1>2, <1>6
  <2>2. Accepts' <=> Accepts
    BY <1>6 DEF Accepts, Waits, Cyclical, Row
  <2> QED BY <1>0, <1>6, <2>1, <2>2
<1>7. CASE AtOnce(RcvHello)
  BY <1>7, <1>1, <1>6 DEF AtOnce, RcvHello, Stays
<1>8. CASE AtOnce(Ignore)
  <2>1. UNCHANGED <<con, inbox, listening>> /\ Read /\ ~Due
    BY <1>8, <1>1 DEF AtOnce, Ignore, Stays
  <2>2. Arrived.type = "STOP" => ~Accepts
    BY <2>1, <1>5 DEF Due, Accepts, Cyclical
  <2> QED BY <2>1, <2>2, <1>6
<1>9. ~AtOnce(RcvReset)
  BY DEF AtOnce, RcvReset
<1>10. CASE AtOnce(RcvConf)
  <2>1. Arrived.type = "CONFIRM"
    BY <1>10, <1>5 DEF AtOnce, RcvConf, Due, Cyclical
  <2>2. con' = [con EXCEPT !.state = 2] /\ listening' /\ Read
    BY <1>10, <1>0 DEF AtOnce, RcvConf, Stays
  <2>3. con'.known /\ con'.from = psSockfd
    BY <2>2, <1>1 DEF ConsoleRecord
  <2>4. \E messages \in Seq({"DEFAULT", "STOP"}) : Reply(messages)
    <3>1. Reply(<<"DEFAULT">>) \/ Reply(<<>>)
      BY <1>10, Zenon DEF AtOnce, RcvConf
    <3> QED BY <3>1, <1>s
  <2> QED BY <1>0, <1>4, <2>1, <2>2, <2>3, <2>4
<1>11. CASE AtOnce(RcvFrame)
  <2>1. Arrived.type # "STOP"
    BY <1>11, <1>5 DEF AtOnce, RcvFrame, Due
  <2>2. con' = [con EXCEPT !.state = @ + 1] /\ listening' /\ Read
    BY <1>11, <1>0 DEF AtOnce, RcvFrame, Stays
  <2>3. con'.known /\ con'.from = psSockfd
    BY <2>2, <1>1 DEF ConsoleRecord
  <2> DEFINE entry == Row[con.state - 1]
             unicast == [first |-> [j \in 1 .. Len(entry.echo) |-> "DEFAULT"],
                         last |-> IF entry.stop THEN <<"STOP">> ELSE <<>>]
  <2>4. Deliver(unicast, entry.cast)
    BY <1>11 DEF AtOnce, RcvFrame
  <2>5. unicast.first \in Seq({"DEFAULT", "STOP"}) /\ unicast.last \in Seq({"DEFAULT", "STOP"})
    <3>1. Len(entry.echo) \in Nat
      <4>1. con.state - 1 \in 1 .. Len(Row)
        BY <1>1, <1>11 DEF AtOnce, RcvFrame, Waits, TypeInv, TypeOK
      <4>2. Row \in Seq(Answers)
        BY <1>1, AnswersTyped DEF Row
      <4>3. entry \in Answers
        BY <4>1, <4>2
      <4> QED BY <4>3 DEF Answers
    <3> HIDE DEF entry
    <3>2. [j \in 1 .. Len(entry.echo) |-> "DEFAULT"] \in Seq({"DEFAULT", "STOP"})
      BY <3>1
    <3>3. (IF entry.stop THEN <<"STOP">> ELSE <<>>) \in Seq({"DEFAULT", "STOP"})
      BY <1>s, Zenon
    <3> QED BY <3>2, <3>3
  <2>6. Exchange'
    <3> HIDE DEF unicast, entry
    <3> QED BY <2>3, <2>4, <2>5, <1>2, <1>3
  <2> QED BY <1>0, <2>1, <2>2, <2>6
<1>12. CASE AtOnce(RcvVOSndCyclicFrame)
  <2>1. UNCHANGED <<con, listening>> /\ Arrived.type = "DEFAULT" /\ Read /\ Reply(<<"DEFAULT">>)
    BY <1>12 DEF AtOnce, RcvVOSndCyclicFrame, Stays
  <2>2. Exchange'
    BY <2>1, <1>1, <1>4, <1>s
  <2> QED BY <1>0, <2>1, <2>2
<1>13. CASE AtOnce(RcvVOSndCyclicStop) \/ AtOnce(WaitStop)
  <2>1. Accepts /\ Read /\ Reply(<<"STOP">>)
    BY <1>13 DEF AtOnce, RcvVOSndCyclicStop, WaitStop, Accepts
  <2>2. con'.known /\ con'.from = psSockfd
    BY <1>13, <1>1 DEF AtOnce, RcvVOSndCyclicStop, WaitStop, Exit, ConsoleRecord
  <2>3. IF Arrived.type = "STOP" THEN ~listening' ELSE listening'
    BY <1>13, <1>0 DEF AtOnce, RcvVOSndCyclicStop, WaitStop, Exit, Stays
  <2>4. Exchange'
    BY <2>1, <2>2, <1>4, <1>s
  <2>5. HasStop'
    BY <1>0, <1>1, <2>1, <2>2, StopDelivered
  <2> QED BY <1>0, <2>1, <2>3, <2>4, <2>5
<1> QED BY <1>7, <1>8, <1>9, <1>10, <1>11, <1>12, <1>13 DEF Console

\* What the sender may do after the name: it goes on in its row.
LEMMA ExchangeSends ==
  ASSUME TypeInv, Links, Exchange, NEW k \in Threads, Sender(k), ~WfaStaWaitStop(k)
  PROVE  /\ Exchange' /\ UNCHANGED <<console, control, psSockfd, num_stops, inbox, receiver, call>>
         /\ OnlySends({"HELLO", "CONFIRM", "DEFAULT"}, Threads) => OnlySends({"HELLO", "CONFIRM", "DEFAULT"}, Threads)'
         /\ sender[psSockfd].at \in {"turns", "acts"} /\ SendRow[state_num].does = "WaitStop"
              => UNCHANGED <<toConsole, state_num, SendRow>> /\ sender'[psSockfd].at = "acts"
<1>0. UNCHANGED <<con, listening, receiver, call, agent, starts, deaf, consoles, stopped, wmmps_info>>
  BY SenderFrame
<1>1. Running(k) /\ k = psSockfd /\ \A j \in Threads : j # k => sender'[j] = sender[j] /\ ~Running(j)
  BY SenderRuns, SenderOnly DEF Exchange
<1>2. /\ ~Ends(k) /\ wmmps_info.state > 0 /\ Sendable /\ state_num \in DOMAIN SendRow /\ DOMAIN sender = Threads
      /\ psSockfd # 0 /\ gtgWmmPS
  BY Zenon DEF Exchange, Ends, Sendable, Links, InboxLinked, SenderLinked
<1>3. SendRow' = SendRow
  BY <1>0 DEF SendRow
<1>4. SendRow[state_num].does # "WaitStop" => state_num + 1 \in DOMAIN SendRow
  <2>1. SendRow = stationProcStatetbl(wmmps_info.test) /\ wmmps_info.test \in TestNames
    BY FirstTest DEF Exchange, SendRow
  <2> QED BY <2>1, <1>2, RowGoesOn
<1>5. sender[k].at = "acts" => sender[k].does = SendRow[state_num]
  BY DEF Exchange
<1>e. ASSUME UNCHANGED <<gtgWmmPS, psSockfd, reading, inbox, num_hello, resetWMMPS>>,
             state_num' \in DOMAIN SendRow, sender'[k].at \in {"sleeps", "turns", "acts"},
             sender'[k].at = "acts" => sender'[k].does = SendRow[state_num']
      PROVE  Exchange'
  <2>1. \A j \in Threads : Running(j)' => j = k
    BY <1>1, <1>e DEF Running
  <2>2. \A j \in Threads : sender'[j].at = "acts" => j = k
    BY <2>1, Zenon DEF Running
  <2> QED BY <1>0, <1>1, <1>3, <1>e, <2>1, <2>2 DEF Exchange, InTest, Handling
<1>s. ASSUME NEW messages \in Seq([type : {"HELLO", "CONFIRM", "DEFAULT"}, ac : AC, from : Threads]), Send(messages),
             OnlySends({"HELLO", "CONFIRM", "DEFAULT"}, Threads)
      PROVE  OnlySends({"HELLO", "CONFIRM", "DEFAULT"}, Threads)'
  BY <1>s, SendKind DEF OnlySends
<1>m. ASSUME NEW type \in {"CONFIRM", "DEFAULT"}, NEW ac \in AC
      PROVE  /\ <<Message(type, ac)>> \in Seq([type : {"HELLO", "CONFIRM", "DEFAULT"}, ac : AC, from : Threads])
             /\ <<Message(type, ac), Message(type, ac)>>
                   \in Seq([type : {"HELLO", "CONFIRM", "DEFAULT"}, ac : AC, from : Threads])
  <2>1. Message(type, ac) \in [type : {"HELLO", "CONFIRM", "DEFAULT"}, ac : AC, from : Threads]
    BY <1>1 DEF Message
  <2> QED BY <2>1
<1>6. CASE Timed(SenderWakes(k) /\ UNCHANGED console, ~Busy)
  <2>1. /\ sender' = [sender EXCEPT ![k] = At("turns")] /\ sender[k].at = "sleeps"
        /\ UNCHANGED <<gtgWmmPS, psSockfd, reading, inbox, num_hello, resetWMMPS, state_num, num_stops, toConsole>>
    BY <1>6 DEF Timed, SenderWakes, Goes, SameSockets
  <2>2. sender'[k].at = "turns"
    BY <2>1, <1>2 DEF At
  <2> QED BY <1>0, <1>1, <1>2, <1>e, <2>1, <2>2 DEF OnlySends
<1>7. CASE AtOnce(WfaStaSndConfirm(k) /\ UNCHANGED console)
  <2>1. /\ sender[k].at = "turns" /\ SendRow[state_num].does = "Confirm" /\ state_num' = state_num + 1
        /\ UNCHANGED <<gtgWmmPS, psSockfd, reading, inbox, num_hello, resetWMMPS, num_stops, sender>>
        /\ Send(<<Message("CONFIRM", "BE")>>)
    BY <1>7 DEF AtOnce, WfaStaSndConfirm, SameSockets
  <2>2. Exchange'
    BY <1>e, <1>4, <2>1
  <2>3. "BE" \in AC
    BY DEF AC
  <2> QED BY <1>0, <1>1, <1>s, <1>m, <2>1, <2>2, <2>3
<1>8. CASE AtOnce(StartEntry(k) /\ UNCHANGED console)
  <2>1. /\ sender' = [sender EXCEPT ![k] = [at |-> "acts", does |-> SendRow[state_num], sent |-> 0]]
        /\ UNCHANGED <<gtgWmmPS, psSockfd, reading, inbox, num_hello, resetWMMPS, state_num, num_stops, toConsole>>
    BY <1>8 DEF AtOnce, StartEntry, SameSockets
  <2>2. sender'[k].at = "acts" /\ sender'[k].does = SendRow[state_num]
    BY <2>1, <1>2
  <2> QED BY <1>0, <1>1, <1>2, <1>3, <1>e, <2>1, <2>2 DEF OnlySends
<1>9. CASE Timed(WfaStaSnd(k) /\ UNCHANGED console, ~Busy)
  <2> DEFINE what == sender[k].does.does
             ac == IF what = "2VO" THEN "VO" ELSE what
  <2>1. /\ sender[k].at = "acts" /\ what \in AC \cup {"2VO"} /\ state_num' = state_num + 1
        /\ sender' = [sender EXCEPT ![k] = At("turns")]
        /\ UNCHANGED <<gtgWmmPS, psSockfd, reading, inbox, num_hello, resetWMMPS, num_stops>>
        /\ Send(IF what = "2VO" THEN <<Message("DEFAULT", ac), Message("DEFAULT", ac)>> ELSE <<Message("DEFAULT", ac)>>)
    BY <1>9, <1>2 DEF Timed, WfaStaSnd, Goes, SameSockets
  <2>2. SendRow[state_num].does # "WaitStop" /\ sender'[k].at = "turns" /\ ac \in AC
    BY <2>1, <1>2, <1>5 DEF At, AC
  <2> HIDE DEF what, ac
  <2>3. Exchange'
    BY <1>e, <1>4, <2>1, <2>2
  <2>4. OnlySends({"HELLO", "CONFIRM", "DEFAULT"}, Threads) => OnlySends({"HELLO", "CONFIRM", "DEFAULT"}, Threads)'
    <3>1. CASE what = "2VO"
      BY <3>1, <2>1, <2>2, <1>s, <1>m
    <3>2. CASE what # "2VO"
      BY <3>2, <2>1, <2>2, <1>s, <1>m
    <3> QED BY <3>1, <3>2
  <2> QED BY <1>0, <1>1, <2>1, <2>2, <2>3, <2>4
<1>10. CASE Timed(WfaStaSndVOCyclic(k) /\ UNCHANGED console, ~Busy)
  <2>1. /\ sender[k].at = "acts" /\ sender[k].does.does = "VOCyclic" /\ Send(<<Message("DEFAULT", "VO")>>)
        /\ UNCHANGED <<gtgWmmPS, psSockfd, reading, inbox, num_hello, resetWMMPS, num_stops>>
        /\ \/ sender' = [sender EXCEPT ![k].sent = @ + 1] /\ UNCHANGED state_num
           \/ sender' = [sender EXCEPT ![k] = At("turns")] /\ state_num' = state_num + 1
    BY <1>10 DEF Timed, WfaStaSndVOCyclic, Goes, SameSockets
  <2>2. SendRow[state_num].does # "WaitStop"
    BY <2>1, <1>5
  <2>3. Exchange'
    <3>1. CASE sender' = [sender EXCEPT ![k].sent = @ + 1] /\ UNCHANGED state_num
      <4>1. sender'[k].at = sender[k].at /\ sender'[k].does = sender[k].does
        BY <3>1, SenderCounts DEF Links, InboxLinked, SenderLinked
      <4> QED BY <3>1, <4>1, <2>1, <1>2, <1>5, <1>e
    <3>2. CASE sender' = [sender EXCEPT ![k] = At("turns")] /\ state_num' = state_num + 1
      <4>1. sender'[k].at = "turns"
        BY <3>2, <1>2 DEF At
      <4> QED BY <3>2, <4>1, <2>1, <2>2, <1>4, <1>e
    <3> QED BY <2>1, <3>1, <3>2
  <2>4. "VO" \in AC
    BY DEF AC
  <2> QED BY <1>0, <1>1, <1>s, <1>m, <2>1, <2>2, <2>3, <2>4
<1>11. CASE Timed(SendFails(k) /\ UNCHANGED console, FALSE)
  <2>1. /\ sender' = [sender EXCEPT ![k] = At("turns")] /\ sender[k].at = "acts" /\ sender[k].does.does \in AC \cup {"2VO"}
        /\ UNCHANGED <<gtgWmmPS, psSockfd, reading, inbox, num_hello, resetWMMPS, state_num, num_stops, toConsole>>
    BY <1>11 DEF Timed, SendFails, Goes, SameSockets
  <2>2. sender'[k].at = "turns" /\ SendRow[state_num].does # "WaitStop"
    BY <2>1, <1>2, <1>5 DEF At, AC
  <2> QED BY <1>0, <1>1, <1>2, <1>e, <2>1, <2>2 DEF OnlySends
<1>12. ~AtOnce(OpenSocket(k) /\ UNCHANGED console) /\ ~AtOnce(SenderDone(k) /\ UNCHANGED console)
       /\ ~AtOnce(SendHello(k) /\ UNCHANGED console)
  <2>1. sender[k].at \in {"sleeps", "turns", "acts"} /\ wmmps_info.state # 0
    BY <1>1, <1>2 DEF Exchange
  <2>2. sender[k].at # "begins"
    BY <2>1
  <2> QED BY <2>1, <2>2, <1>2, Zenon DEF AtOnce, OpenSocket, SenderDone, SendHello
<1> QED BY <1>6, <1>7, <1>8, <1>9, <1>10, <1>11, <1>12 DEF Sender, Timed

\* The station's stop: one more, or the last one.
LEMMA ExchangeStops ==
  ASSUME TypeInv, Links, Data \/ Stops, NEW k \in Threads, Sender(k), WfaStaWaitStop(k), ~Busy
  PROVE  Stops' \/ Over'
<1>0. UNCHANGED <<con, listening, receiver, call, agent, starts, deaf, consoles, stopped, wmmps_info>>
  BY SenderFrame
<1>1. Running(k) /\ k = psSockfd /\ \A j \in Threads : j # k => sender'[j] = sender[j] /\ ~Running(j)
  BY SenderRuns, SenderOnly DEF Exchange, Data, Stops
<1>2. /\ sender[k].at = "acts" /\ sender[k].does.does = "WaitStop" /\ sender[k].does = SendRow[state_num]
      /\ Sendable /\ DOMAIN sender = Threads /\ psSockfd # 0 /\ gtgWmmPS
  BY Zenon DEF WfaStaWaitStop, Exchange, Sendable, Links, InboxLinked, SenderLinked, Data, Stops
<1>3. /\ num_stops' = num_stops + 1 /\ stop_flag' = TRUE /\ Send(<<Message("STOP", "BE")>>)
      /\ sender' = [sender EXCEPT ![k] = At("turns")]
      /\ UNCHANGED <<wmmps_info, state_num, num_hello, resetWMMPS>>
  BY DEF WfaStaWaitStop, Goes
<1>4. sender'[k].at = "turns" /\ \A j \in Threads : Running(j)' => j = k
  BY <1>1, <1>2, <1>3 DEF At, Running
<1>5. listening => toConsole = <<>> /\ toConsole' \in Seq([type : {"STOP"}, ac : AC, from : Threads]) /\ toConsole' # <<>>
  <2>1. listening => toConsole = <<>>
    BY DEF Busy, Reads
  <2>2. Message("STOP", "BE") \in [type : {"STOP"}, ac : AC, from : Threads]
    BY <1>1 DEF Message, AC
  <2>3. listening => toConsole' = <<>> \o <<Message("STOP", "BE")>>
    BY <2>1, <1>2, <1>3 DEF Send
  <2>4. ASSUME NEW S, NEW m \in S PROVE <<>> \o <<m>> \in Seq(S) /\ <<>> \o <<m>> # <<>>
    OBVIOUS
  <2>5. /\ <<>> \o <<Message("STOP", "BE")>> \in Seq([type : {"STOP"}, ac : AC, from : Threads])
        /\ <<>> \o <<Message("STOP", "BE")>> # <<>>
    BY <2>2, <2>4
  <2> QED BY <2>1, <2>3, <2>5, Zenon
<1>6. ~listening => receiver = "stops"
  <2>1. ASSUME ~listening, receiver # "stops" PROVE FALSE
    <3>1. Exchange /\ HasStop
      BY <2>1 DEF Data, Stops
    <3>2. inbox[psSockfd] # <<>> \/ receiver \in {"heard", "calls"}
      BY <3>1 DEF HasStop
    <3>3. receiver = "receives" => reading = psSockfd
      BY <3>1 DEF Exchange, TypeInv, TypeOK
    <3> QED BY <2>1, <3>1, <3>2, <3>3, <1>2 DEF Exchange, Busy, Heard
  <2> QED BY <2>1
<1>7. num_stops \in Nat /\ MaxStops \in Nat \ {0} /\ (num_stops # 0 => Stops) /\ num_stops <= MaxStops
  BY StationAssumption DEF Data, Stops, TypeInv, TypeOK
<1>8. CASE num_stops + 1 > MaxStops
  <2>1. gtgWmmPS' = FALSE /\ psSockfd' = 0
    BY <1>8 DEF WfaStaWaitStop, Sockets
  <2>2. listening => con.known /\ ~Accepts
    BY <1>5, <1>7, <1>8 DEF Stops, Exchange
  <2>3. listening' => (con.known /\ ~Accepts)'
    BY <2>2, <1>0 DEF Accepts, Waits, Cyclical, Row
  <2>4. InTest' /\ receiver' # "woken" /\ NoneBegins'
    <3>1. Exchange
      BY DEF Data, Stops
    <3> QED BY <3>1, <1>0, <1>4 DEF Exchange, InTest, NoneBegins, Running
  <2> QED BY <1>0, <1>3, <1>5, <1>6, <2>1, <2>3, <2>4 DEF Over, OnlySends
<1>9. CASE ~(num_stops + 1 > MaxStops)
  <2>1. UNCHANGED <<gtgWmmPS, psSockfd, reading, inbox>>
    BY <1>9 DEF WfaStaWaitStop, SameSockets
  <2>2. num_stops' \in 1 .. MaxStops
    BY <1>3, <1>7, <1>9
  <2>3. SendRow' = SendRow
    BY <1>0 DEF SendRow
  <2>4. Exchange'
    <3>1. Exchange
      BY DEF Data, Stops
    <3>2. \A j \in Threads : sender'[j].at # "acts"
      BY <1>4, Zenon DEF Running
    <3> QED BY <3>1, <3>2, <1>0, <1>1, <1>3, <1>4, <2>1, <2>3 DEF Exchange, InTest, Handling
  <2>5. sender'[psSockfd'].at = "turns" /\ SendRow'[state_num'].does = "WaitStop"
    BY <1>1, <1>2, <1>3, <1>4, <2>1, <2>3
  <2> QED BY <1>0, <1>5, <1>6, <2>2, <2>4, <2>5 DEF Stops, OnlySends
<1> QED BY <1>8, <1>9

\* From the name of the test to its end.
LEMMA ExchangeStep ==
  ASSUME TypeInv, Links, ~deaf, Data \/ Stops, CalmStep
  PROVE  ~deaf' /\ (Data' \/ Stops' \/ Over' \/ Stopping')
<1>0. /\ Exchange /\ InTest /\ psSockfd # 0 /\ gtgWmmPS /\ wmmps_info.state > 0
      /\ NoneBegins
  <2>1. Exchange
    BY DEF Data, Stops
  <2> QED BY <2>1 DEF Exchange, NoneBegins, Running
<1>1. CASE (Start /\ (starts > 0 => stopped # "none")) \/ Stopped \/ (Reset /\ ~gtgWmmPS)
           \/ (ConsoleStarts /\ wmmps_info.state = 0)
  <2>1. wmmps_info.state # 0
    BY <1>0
  <2> QED BY <1>1, <1>0, <2>1 DEF Stopped, RecvStopped, Timed, InTest
<1>2. CASE Stop /\ ~Busy /\ con.ended # "none" /\ starts > 0
  <2>1. ~listening /\ Stops
    BY <1>2 DEF Links, InboxLinked, SenderLinked, Data
  <2>2. receiver = "stops"
    <3>1. ASSUME receiver # "stops" PROVE FALSE
      <4>1. inbox[psSockfd] # <<>> \/ receiver \in {"heard", "calls"}
        BY <2>1, <3>1 DEF Stops, HasStop
      <4>2. receiver = "receives" => reading = psSockfd
        BY <1>0 DEF Exchange, TypeInv, TypeOK
      <4> QED BY <1>0, <1>2, <3>1, <4>1, <4>2 DEF Exchange, Busy, Heard
    <3> QED BY <3>1
  <2>3. psSockfd \in Threads /\ sender[psSockfd].at = "acts" /\ sender[psSockfd].does.does = "WaitStop"
    <3>1. psSockfd \in Threads
      BY <1>0 DEF TypeInv, TypeOK, Threads
    <3>2. sender[psSockfd].at # "turns"
      BY <3>1, <1>0, <1>2 DEF Busy
    <3> QED BY <1>0, <2>1, <3>1, <3>2 DEF Stops, Exchange
  <2>4. /\ agent' = "stopping" /\ psSockfd' = 0 /\ wmmps_info' = NoInfo /\ stopped' # "none"
        /\ UNCHANGED <<starts, deaf, listening, consoles, receiver, sender>>
    BY <1>2 DEF Stop, RecvStop, Sockets
  <2>5. consoles = starts
    BY <1>0 DEF Exchange
  <2> QED BY <1>0, <1>2, <2>1, <2>2, <2>3, <2>4, <2>5 DEF Stopping, NoneBegins
<1>3. CASE AtOnce(StopHeard /\ UNCHANGED console)
  <2>1. /\ ~gtgWmmPS' /\ psSockfd' = 0 /\ receiver' = "sleeps" /\ UNCHANGED <<agent, starts, deaf, stopped, sender>>
    BY <1>3 DEF AtOnce, StopHeard, Sockets
  <2> QED BY <1>0, <2>1 DEF Over, InTest, NoneBegins
<1>4. CASE Receiver /\ ~AtOnce(StopHeard /\ UNCHANGED console)
  <2>1. /\ Exchange'
        /\ UNCHANGED <<console, agent, starts, deaf, toConsole, num_stops, sender, state_num, psSockfd, SendRow>>
        /\ receiver' # "stops" /\ HasStop => HasStop'
        /\ receiver # "stops"
    BY <1>0, <1>4, ExchangeReceives
  <2>2. CASE Data
    BY <2>1, <2>2 DEF Data, OnlySends
  <2>3. CASE Stops
    BY <2>1, <2>3 DEF Stops, OnlySends, Accepts, Waits, Cyclical, Row, HasStop
  <2> QED BY <2>1, <2>2, <2>3
<1>5. CASE Console
  <2>0. UNCHANGED <<station, history>> /\ Reads
    BY <1>5, ConsoleFrame
  <2>1. CASE Data
    <3>1. toConsole \in Seq([type : {"HELLO", "CONFIRM", "DEFAULT"}, ac : AC, from : Threads])
      BY <2>1 DEF Data, OnlySends
    <3>2. Arrived.type \in {"HELLO", "CONFIRM", "DEFAULT"}
      <4>1. Head(toConsole) \in [type : {"HELLO", "CONFIRM", "DEFAULT"}, ac : AC, from : Threads]
        BY <2>0, <3>1, HeadTailProperties DEF Reads
      <4> QED BY <4>1 DEF Arrived
    <3>3. Exchange' /\ Read /\ listening'
      BY <1>0, <1>5, <3>2, ExchangeHeard
    <3>4. toConsole' \in Seq([type : {"HELLO", "CONFIRM", "DEFAULT"}, ac : AC, from : Threads])
      BY <2>0, <3>1, <3>3, ReadKind
    <3> QED BY <2>0, <2>1, <3>3, <3>4 DEF Data, OnlySends
  <2>2. CASE Stops
    <3>1. toConsole \in Seq([type : {"STOP"}, ac : AC, from : Threads])
      BY <2>0, <2>2 DEF Stops, OnlySends, Reads
    <3>2. Arrived.type = "STOP"
      <4>1. Head(toConsole) \in [type : {"STOP"}, ac : AC, from : Threads]
        BY <2>0, <3>1, HeadTailProperties DEF Reads
      <4> QED BY <4>1 DEF Arrived
    <3>3. Exchange' /\ Read /\ IF Accepts THEN ~listening' /\ HasStop' ELSE listening' /\ ~Accepts'
      BY <1>0, <1>5, <3>2, ExchangeHeard
    <3>4. toConsole' \in Seq([type : {"STOP"}, ac : AC, from : Threads])
      BY <2>0, <3>1, <3>3, ReadKind
    <3>5. UNCHANGED <<num_stops, sender, psSockfd, state_num, SendRow, deaf>>
      BY <2>0 DEF SendRow
    <3> QED BY <2>2, <3>3, <3>4, <3>5 DEF Stops, OnlySends, HasStop
  <2> QED BY <2>1, <2>2
<1>6. ASSUME NEW k \in Threads, Sender(k), sender[k].at \in {"sleeps", "acts"} => ~Busy
      PROVE  ~deaf' /\ (Data' \/ Stops' \/ Over')
  <2>0. UNCHANGED <<deaf, listening, con>>
    BY <1>6, SenderFrame
  <2>1. CASE WfaStaWaitStop(k)
    <3>1. ~Busy
      BY <1>6, <2>1 DEF WfaStaWaitStop
    <3> QED BY <1>6, <2>0, <2>1, <3>1, ExchangeStops
  <2>2. CASE ~WfaStaWaitStop(k)
    <3>1. /\ Exchange' /\ UNCHANGED <<console, control, psSockfd, num_stops, inbox, receiver, call>>
          /\ OnlySends({"HELLO", "CONFIRM", "DEFAULT"}, Threads) => OnlySends({"HELLO", "CONFIRM", "DEFAULT"}, Threads)'
          /\ sender[psSockfd].at \in {"turns", "acts"} /\ SendRow[state_num].does = "WaitStop"
                => UNCHANGED <<toConsole, state_num, SendRow>> /\ sender'[psSockfd].at = "acts"
      BY <1>0, <1>6, <2>2, ExchangeSends
    <3>2. CASE Data
      BY <2>0, <3>1, <3>2 DEF Data
    <3>3. CASE Stops
      BY <2>0, <3>1, <3>3 DEF Stops, OnlySends, Accepts, Waits, Cyclical, Row, HasStop
    <3> QED BY <3>2, <3>3
  <2> QED BY <2>1, <2>2
<1>7. CASE UNCHANGED vars
  <2>1. UNCHANGED <<deaf, agent, starts, gtgWmmPS, psSockfd, reading, wmmps_info, state_num, counters, receiver, call,
                    sender, stopped, toConsole, listening, con, consoles, inbox>>
    BY <1>7 DEF vars
  <2>2. UNCHANGED SendRow /\ Exchange'
    BY <2>1, <1>0 DEF SendRow, Exchange, InTest, Running, Handling
  <2> QED BY <2>1, <2>2 DEF Data, Stops, OnlySends, Accepts, Waits, Cyclical, Row, HasStop
<1> QED BY <1>1, <1>2, <1>3, <1>4, <1>5, <1>6, <1>7 DEF CalmStep

\* From the end of the test to its RecvStop.
LEMMA OverStep ==
  ASSUME TypeInv, Links, ~deaf, Over, CalmStep
  PROVE  ~deaf' /\ (Over' \/ Stopping')
<1>0. InTest /\ ~gtgWmmPS /\ psSockfd = 0 /\ NoneBegins /\ receiver # "woken"
  BY DEF Over
<1>s. ASSUME receiver \in {"waits", "sleeps", "runs", "ends"} \/ (receiver = "stops" /\ stop_flag),
             ~gtgWmmPS', psSockfd' = 0, NoneBegins',
             UNCHANGED <<agent, starts, deaf, stopped>>,
             \/ receiver' \in {"waits", "sleeps", "runs", "ends"}
             \/ receiver' = "stops" /\ stop_flag'
      PROVE  ~deaf' /\ Over'
  BY <1>s, <1>0 DEF Over, InTest
<1>n. ASSUME listening, con.known, ~Accepts, OnlySends({"STOP"}, Threads), ~gtgWmmPS', psSockfd' = 0, NoneBegins',
             receiver' # "woken", UNCHANGED <<agent, starts, deaf, stopped, listening, con>>,
             toConsole' \in Seq([type : {"STOP"}, ac : AC, from : Threads])
      PROVE  ~deaf' /\ Over'
  BY <1>n, <1>0 DEF Over, InTest, OnlySends, Accepts, Waits, Cyclical, Row
<1> DEFINE Kept1 == receiver \in {"waits", "sleeps", "runs", "ends"} \/ (receiver = "stops" /\ stop_flag)
           Kept2 == listening /\ con.known /\ ~Accepts /\ OnlySends({"STOP"}, Threads)
<1>k. Kept1 \/ Kept2
  BY DEF Over
<1>1. CASE (Start /\ (starts > 0 => stopped # "none")) \/ Stopped
  BY <1>1, <1>0 DEF Stopped, RecvStopped, Timed, InTest
<1>2. CASE Stop /\ ~Busy /\ con.ended # "none" /\ consoles = starts
  <2>1. ~listening
    BY <1>2 DEF Links, InboxLinked, SenderLinked
  <2>2. receiver \in {"waits", "sleeps", "runs", "ends"}
    BY <1>2, <1>k, <2>1 DEF Busy
  <2> QED BY <1>0, <1>2, <2>1, <2>2 DEF Stop, RecvStop, Sockets, Stopping, NoneBegins, InTest
<1>3. CASE Reset
  <2>1. /\ ~gtgWmmPS' /\ psSockfd' = 0
        /\ UNCHANGED <<agent, starts, deaf, stopped, listening, con, toConsole, receiver, stop_flag, sender>>
    BY <1>3 DEF Reset, Timed, TGReset, Sockets
  <2> QED BY <2>1, <1>0, <1>k, <1>s, <1>n DEF NoneBegins, OnlySends
<1>4. CASE ConsoleStarts
  <2>1. ~listening /\ UNCHANGED <<gtgWmmPS, psSockfd, agent, starts, deaf, stopped, receiver, stop_flag, sender>>
    BY <1>4 DEF ConsoleStarts, ConsoleStart
  <2> QED BY <2>1, <1>0, <1>k, <1>s DEF NoneBegins
<1>5. CASE Receiver
  <2>1. UNCHANGED <<console, control, consoles, stopped, state_num>>
    BY <1>5, ReceiverFrame
  <2>2. /\ ~gtgWmmPS' /\ psSockfd' = 0 /\ UNCHANGED <<sender, toConsole>> /\ receiver' # "woken"
    <3>1. CASE AtOnce(GiveUp /\ UNCHANGED console) \/ AtOnce(ReceiveReset /\ UNCHANGED console)
      BY <3>1, <1>0 DEF AtOnce, GiveUp, ReceiveReset, WfaStaResetAll, Send, Sendable, Sockets, SameSockets, Returns
    <3>2. CASE AtOnce(WfaRcvStop /\ UNCHANGED console) \/ AtOnce(WfaRcvProc /\ UNCHANGED console)
               \/ AtOnce(WfaRcvNotCare /\ UNCHANGED console) \/ AtOnce(MovesOn /\ UNCHANGED console)
               \/ AtOnce(LookUp /\ UNCHANGED console) \/ AtOnce(ReceiveIgnored /\ UNCHANGED console)
      BY <3>2, <1>0 DEF AtOnce, WfaRcvStop, WfaRcvProc, WfaRcvNotCare, MovesOn, LookUp, ReceiveIgnored, SameSockets, Returns
    <3>3. CASE AtOnce(CreateSender /\ UNCHANGED console) \/ AtOnce(SkipTurn /\ UNCHANGED console)
               \/ AtOnce(Block /\ UNCHANGED console) \/ AtOnce(ReceiverDone /\ UNCHANGED console)
               \/ AtOnce(EndTurn /\ UNCHANGED console) \/ AtOnce(Hear /\ UNCHANGED console)
               \/ AtOnce(StopHeard /\ UNCHANGED console) \/ Timed(ReceiverWakes /\ UNCHANGED console, ~Busy)
      BY <3>3, <1>0 DEF AtOnce, Timed, CreateSender, SkipTurn, Block, ReceiverDone, EndTurn, Hear, StopHeard, ReceiverWakes,
         Sockets, SameSockets
    <3> QED BY <1>5, <3>1, <3>2, <3>3, Zenon DEF Receiver
  <2>3. Kept1 => receiver' \in {"waits", "sleeps", "runs", "ends"} \/ (receiver' = "stops" /\ stop_flag')
    BY <1>5, <1>0 DEF Receiver, AtOnce, Timed, CreateSender, GiveUp, SkipTurn, Block, ReceiverDone, EndTurn, Hear, Heard,
       LookUp, WfaRcvStop, WfaRcvProc, WfaRcvNotCare, MovesOn, Calls, ReceiveReset, ReceiveIgnored, StopHeard, ReceiverWakes
  <2> QED BY <2>1, <2>2, <2>3, <1>0, <1>k, <1>s, <1>n DEF NoneBegins, OnlySends
<1>6. CASE Console
  <2>1. UNCHANGED <<station, history>> /\ Reads
    BY <1>6, ConsoleFrame
  <2>2. CASE Kept1
    BY <2>1, <2>2, <1>0, <1>s DEF NoneBegins
  <2>3. CASE Kept2
    <3>1. toConsole \in Seq([type : {"STOP"}, ac : AC, from : Threads])
      BY <2>3 DEF OnlySends
    <3>2. Arrived.type = "STOP" /\ con.known /\ ~Accepts /\ Len(Row) \in Nat
      <4>1. Head(toConsole) \in [type : {"STOP"}, ac : AC, from : Threads]
        BY <2>1, <3>1, HeadTailProperties DEF Reads
      <4> QED BY <4>1, <2>3, RowLength DEF Arrived, Row, TypeInv, ConsoleHasTest
    <3>3. ~Due
      BY <3>2 DEF Due, Accepts
    <3>4. Ignore
      BY <1>6, <3>2, <3>3 DEF Console, AtOnce, RcvHello, RcvReset, RcvConf, RcvFrame, RcvVOSndCyclicFrame, RcvVOSndCyclicStop,
         WaitStop, Accepts
    <3>5. UNCHANGED <<con, listening>> /\ Read
      BY <3>2, <3>4 DEF Ignore, Stays
    <3>6. toConsole' \in Seq([type : {"STOP"}, ac : AC, from : Threads])
      BY <2>1, <3>1, <3>5, ReadKind
    <3> QED BY <2>1, <2>3, <3>5, <3>6, <1>0, <1>n DEF NoneBegins
  <2> QED BY <2>2, <2>3, <1>k
<1>7. ASSUME NEW k \in Threads, Sender(k) PROVE ~deaf' /\ Over'
  <2>0. UNCHANGED <<con, listening, receiver, agent, starts, deaf, consoles, stopped, wmmps_info>>
    BY <1>7, SenderFrame
  <2>1. /\ \A j \in Threads : j # k => sender'[j] = sender[j]
        /\ sender[k].at # "begins" /\ DOMAIN sender = Threads
    BY <1>7, <1>0, SenderOnly, Zenon DEF NoneBegins, Links, InboxLinked, SenderLinked
  <2>2. Ends(k) /\ ~Sendable
    BY <1>0 DEF Ends, Sendable
  <2>3. ~gtgWmmPS' /\ psSockfd' = 0 /\ UNCHANGED toConsole /\ (stop_flag => stop_flag')
    <3>1. CASE Timed(WfaStaWaitStop(k) /\ UNCHANGED console, ~Busy)
      BY <3>1, <1>0, <2>2 DEF Timed, WfaStaWaitStop, Send, Sockets, SameSockets
    <3>2. CASE Timed(WfaStaSnd(k) /\ UNCHANGED console, ~Busy)
      <4>1. UNCHANGED <<gtgWmmPS, psSockfd, stop_flag>> /\ \E messages : Send(messages)
        BY <3>2, Zenon DEF Timed, WfaStaSnd, SameSockets
      <4> QED BY <4>1, <1>0, <2>2 DEF Send
    <3>5. CASE Timed(WfaStaSndVOCyclic(k) /\ UNCHANGED console, ~Busy)
      BY <3>5, <1>0, <2>2 DEF Timed, WfaStaSndVOCyclic, Send, SameSockets
    <3>6. CASE Timed(SendFails(k) /\ UNCHANGED console, FALSE) \/ Timed(SenderWakes(k) /\ UNCHANGED console, ~Busy)
      <4>1. UNCHANGED <<gtgWmmPS, psSockfd, stop_flag, toConsole>>
        BY <3>6, Zenon DEF Timed, SenderWakes, SendFails, SameSockets
      <4> QED BY <4>1, <1>0, Zenon
    <3>3. CASE AtOnce(SenderDone(k) /\ UNCHANGED console)
      BY <3>3, <1>0 DEF AtOnce, SenderDone, SameSockets
    <3>4. ~AtOnce(OpenSocket(k) /\ UNCHANGED console) /\ ~AtOnce(SendHello(k) /\ UNCHANGED console)
          /\ ~AtOnce(WfaStaSndConfirm(k) /\ UNCHANGED console) /\ ~AtOnce(StartEntry(k) /\ UNCHANGED console)
      BY <2>1, <2>2 DEF AtOnce, OpenSocket, SendHello, WfaStaSndConfirm, StartEntry
    <3> QED BY <1>7, <3>1, <3>2, <3>3, <3>4, <3>5, <3>6, Zenon DEF Sender
  <2>4. sender'[k].at # "begins"
    BY <1>7, <1>0, <2>1, <2>2, SenderMoves
  <2>5. NoneBegins'
    BY <2>1, <2>4, <1>0 DEF NoneBegins
  <2> QED BY <2>0, <2>3, <2>5, <1>0, <1>k, <1>s, <1>n DEF OnlySends
<1>8. CASE UNCHANGED vars
  <2>1. UNCHANGED <<gtgWmmPS, psSockfd, agent, starts, deaf, stopped, receiver, stop_flag, sender, listening, con, toConsole>>
    BY <1>8 DEF vars
  <2> QED BY <2>1, <1>0, <1>k, <1>s, <1>n DEF NoneBegins, OnlySends
<1> QED BY <1>1, <1>2, <1>3, <1>4, <1>5, <1>6, <1>7, <1>8 DEF CalmStep

\* What holds in every state: the types, the links and the stages.
Inv == TypeInv /\ Links /\ StageInv

\* The system begins ready.
LEMMA StageInit == Init => Inv
<1> SUFFICES ASSUME Init PROVE Inv
  OBVIOUS
<1>1. TypeInv
  BY TypeInit
<1>2. Links
  BY DEF Init, StationInit, ConsoleInit, Links, InboxLinked, SenderLinked, At, Places
<1>3. ~deaf /\ AtMostOne /\ Ready
  BY DEF Init, StationInit, ConsoleInit, AtMostOne, Running, At, Ready, NoSender
<1> QED BY <1>1, <1>2, <1>3 DEF Inv, StageInv

\* Every step of a calm run leads from a stage to a stage.
LEMMA StageStep == Inv /\ [Next]_vars => Inv'
<1> SUFFICES ASSUME Inv, [Next]_vars PROVE Inv'
  OBVIOUS
<1>1. TypeInv /\ Links /\ TypeInv' /\ Links'
  BY TypeStep, LinksStep DEF Inv
<1>2. ASSUME calm' PROVE ~deaf' /\ AtMostOne' /\ (Ready \/ Stopping \/ Hello \/ Data \/ Stops \/ Over)'
  <2>1. calm /\ CalmStep
    BY <1>1, <1>2, CalmSteps DEF Links, InboxLinked, SenderLinked
  <2>2. ~deaf /\ AtMostOne /\ (Ready \/ Stopping \/ Hello \/ Data \/ Stops \/ Over)
    BY <2>1 DEF Inv, StageInv
  <2>3. receiver = "woken" => NoSender
    BY <2>2 DEF Ready, Stopping, Hello, Data, Stops, Exchange, Over
  <2>4. AtMostOne'
    BY <1>1, <2>2, <2>3, OneStep
  <2> QED BY <1>1, <2>1, <2>2, <2>4, ReadyStep, StoppingStep, HelloStep, ExchangeStep, OverStep
<1> QED BY <1>1, <1>2 DEF Inv, StageInv

\* In a calm run no start of a test is lost, whatever the tests, their number and their tables.
THEOREM StartsAreHeard == Spec => []StartHeard
<1>1. Inv => StartHeard
  BY DEF Inv, StageInv, StartHeard
<1> QED BY <1>1, StageInit, StageStep, PTL DEF Spec

\* In a calm run at most one thread sends for the station.
THEOREM OneSenderSends == Spec => []OneSender
<1>1. Inv => OneSender
  <2> SUFFICES ASSUME AtMostOne PROVE Cardinality({k \in Threads : Running(k)}) <= 1
    BY DEF Inv, StageInv, OneSender
  <2> DEFINE S == {k \in Threads : Running(k)}
  <2>1. CASE S = {}
    BY <2>1, FS_EmptySet
  <2>2. CASE S # {}
    <3>1. PICK x : x \in S
      BY <2>2
    <3>2. S = {x}
      BY <3>1 DEF AtMostOne
    <3>3. Cardinality({x}) = 1
      BY FS_Singleton, Zenon
    <3> QED BY <3>2, <3>3
  <2> QED BY <2>1, <2>2
<1> QED BY <1>1, StageInit, StageStep, PTL DEF Spec

----------------------------------------------------------------------------
(* The two programs in step.  In every stage what the station has sent and  *)
(* the console has still to read brings the console to where the station    *)
(* is: here the tables of the two have to fit, entry by entry.              *)

\* The console takes, entry by entry, the frames of the category that the station sends.
Matches(data, row) ==
  /\ Len(row) = Len(data)
  /\ \A n \in 1 .. Len(data) : data[n].does \in AC /\ row[n].takes = data[n].does

\* The tables of the two programs match in 17 of the 19 tests.
LEMMA RowsMatch ==
  \A t \in TestNames \ {"L_1", "M_U"} : Matches(StationData[t], consoleProcStatetbl[t])
<1> DEFINE d == StationData
           r == consoleProcStatetbl
<1>1. /\ RcvVO.takes = "VO" /\ RcvVOE.takes = "VO" /\ RcvVOSnd.takes = "VO" /\ RcvVOSnd2VO.takes = "VO"
      /\ RcvVOSndE.takes = "VO" /\ RcvVOSndAllE.takes = "VO" /\ RcvVOSndBcastE.takes = "VO"
  BY DEF RcvVO, RcvVOE, RcvVOSnd, RcvVOSnd2VO, RcvVOSndE, RcvVOSndAllE, RcvVOSndBcastE, Takes
<1>2. /\ RcvVI.takes = "VI" /\ RcvVIE.takes = "VI" /\ RcvVISnd.takes = "VI" /\ RcvVISndE.takes = "VI"
      /\ RcvVISndBE.takes = "VI" /\ RcvVISndBK.takes = "VI" /\ RcvVISndVOE.takes = "VI" /\ RcvVISndBcast.takes = "VI"
  BY DEF RcvVI, RcvVIE, RcvVISnd, RcvVISndE, RcvVISndBE, RcvVISndBK, RcvVISndVOE, RcvVISndBcast, Takes
<1>3. /\ RcvBE.takes = "BE" /\ RcvBESnd.takes = "BE" /\ RcvBESndE.takes = "BE" /\ RcvBESndBcast.takes = "BE"
      /\ RcvBESndBcastE.takes = "BE" /\ RcvBKE.takes = "BK"
  BY DEF RcvBE, RcvBESnd, RcvBESndE, RcvBESndBcast, RcvBESndBcastE, RcvBKE, Takes
<1>4. \A ac \in AC : On(ac).does = ac /\ Off(ac).does = ac
  BY DEF On, Off
<1>5. AC = {"VO", "VI", "BE", "BK"}
  BY DEF AC
<1>6. /\ Matches(d["B_D"], r["B_D"])
      /\ Matches(d["B_H"], r["B_H"])
      /\ Matches(d["B_B"], r["B_B"])
  BY <1>1, <1>2, <1>3, <1>4, <1>5 DEF Matches, StationData, consoleProcStatetbl
<1>7. /\ Matches(d["B_M"], r["B_M"])
      /\ Matches(d["M_D"], r["M_D"])
      /\ Matches(d["B_Z"], r["B_Z"])
  BY <1>1, <1>2, <1>3, <1>4, <1>5 DEF Matches, StationData, consoleProcStatetbl
<1>8. /\ Matches(d["M_Y"], r["M_Y"])
      /\ Matches(d["A_Y"], r["A_Y"])
      /\ Matches(d["B_W"], r["B_W"])
  BY <1>1, <1>2, <1>3, <1>4, <1>5 DEF Matches, StationData, consoleProcStatetbl
<1>9. /\ Matches(d["A_J"], r["A_J"])
      /\ Matches(d["M_V"], r["M_V"])
      /\ Matches(d["A_U"], r["A_U"])
  BY <1>1, <1>2, <1>3, <1>4, <1>5 DEF Matches, StationData, consoleProcStatetbl
<1>10. /\ Matches(d["M_L"], r["M_L"])
       /\ Matches(d["B_K"], r["B_K"])
       /\ Matches(d["M_B"], r["M_B"])
  BY <1>1, <1>2, <1>3, <1>4, <1>5 DEF Matches, StationData, consoleProcStatetbl
<1>11. /\ Matches(d["M_K"], r["M_K"])
       /\ Matches(d["M_W"], r["M_W"])
  BY <1>1, <1>2, <1>3, <1>4, <1>5 DEF Matches, StationData, consoleProcStatetbl
<1> HIDE DEF d, r
<1>12. \A t \in TestNames \ {"L_1", "M_U"} : Matches(d[t], r[t])
  BY <1>6, <1>7, <1>8, <1>9, <1>10, <1>11, AllTests
<1> QED BY <1>12 DEF d, r

\* The others: L.1 sends for a while, and the last entry of M.U is two frames.
LEMMA OtherRows ==
  /\ Len(StationData["L_1"]) = 1 /\ StationData["L_1"][1].does = "VOCyclic" /\ Len(consoleProcStatetbl["L_1"]) = 1
  /\ Len(StationData["M_U"]) = 3 /\ Len(consoleProcStatetbl["M_U"]) = 4
  /\ StationData["M_U"][1].does = "VI" /\ StationData["M_U"][2].does = "BE" /\ StationData["M_U"][3].does = "2VO"
  /\ consoleProcStatetbl["M_U"][1].takes = "VI" /\ consoleProcStatetbl["M_U"][2].takes = "BE"
  /\ consoleProcStatetbl["M_U"][3].takes = "VO" /\ consoleProcStatetbl["M_U"][4].takes = "VO"
BY DEF StationData, consoleProcStatetbl, On, RcvVISnd, RcvBESnd, RcvVOSnd, RcvVOSndE, Takes

\* Where the console is in its row when all that came before entry n of the station's row
\* has been read.
Place(t, n) == IF t = "L_1" /\ n = 3 THEN 2 ELSE IF t = "M_U" /\ n = 5 THEN 6 ELSE n
\* Where the console takes what entry n sends, and is then at the place of the next entry.
Fits(t, n) ==
  LET does  == stationProcStatetbl(t)[n].does
      place == Place(t, n)
      row   == consoleProcStatetbl[t]
  IN  \/ does = "Confirm" /\ n = 1 /\ Place(t, 2) = 2
      \/ /\ does \in AC /\ t # "L_1" /\ n > 1 /\ Place(t, n + 1) = place + 1
         /\ place - 1 \in 1 .. Len(row) /\ row[place - 1].takes = does
      \/ /\ does = "2VO" /\ t # "L_1" /\ n > 1 /\ Place(t, n + 1) = place + 2
         /\ place - 1 \in 1 .. Len(row) /\ place \in 1 .. Len(row)
         /\ row[place - 1].takes = "VO" /\ row[place].takes = "VO"
      \/ does = "VOCyclic" /\ t = "L_1" /\ n = 2
      \/ does = "WaitStop" /\ n > 1 /\ place = IF t = "L_1" THEN 2 ELSE Len(row) + 2

\* The two programs' tables fit, entry by entry.
LEMMA TablesFit ==
  ASSUME NEW t \in TestNames, NEW n \in DOMAIN stationProcStatetbl(t)
  PROVE  Fits(t, n)
<1> DEFINE row == stationProcStatetbl(t)
           data == StationData[t]
<1>1. /\ Len(data) \in Nat /\ DOMAIN row = 1 .. Len(data) + 2
      /\ row[1].does = "Confirm" /\ row[Len(data) + 2].does = "WaitStop"
      /\ \A m \in 1 .. Len(data) : row[m + 1] = data[m]
  BY RowEntries
<1>n. n \in Nat
  BY <1>1
<1>2. n = 1 \/ n = Len(data) + 2 \/ (n - 1 \in 1 .. Len(data) /\ row[n] = data[n - 1])
  <2> HIDE DEF row, data
  <2>1. n \in 1 .. Len(data) + 2
    BY <1>1 DEF row
  <2>2. ASSUME n # 1, n # Len(data) + 2 PROVE n - 1 \in 1 .. Len(data) /\ row[n] = data[n - 1]
    <3>1. n - 1 \in 1 .. Len(data) /\ (n - 1) + 1 = n
      BY <2>1, <2>2, <1>1
    <3> QED BY <3>1, <1>1
  <2> QED BY <2>2
<1>3. CASE t = "L_1"
  <2>1. Len(data) = 1 /\ data[1].does = "VOCyclic"
    BY <1>3, OtherRows
  <2> HIDE DEF row, data
  <2>2. (n = 1 /\ row[n].does = "Confirm") \/ (n = 2 /\ row[n].does = "VOCyclic") \/ (n = 3 /\ row[n].does = "WaitStop")
    BY <1>1, <1>2, <2>1
  <2> QED BY <1>3, <2>2 DEF Fits, Place, row
<1>4. CASE t = "M_U"
  <2>1. Len(data) = 3 /\ data[1].does = "VI" /\ data[2].does = "BE" /\ data[3].does = "2VO"
    BY <1>4, OtherRows
  <2> HIDE DEF row, data
  <2>2. \/ n = 1 /\ row[n].does = "Confirm"
        \/ n = 2 /\ row[n].does = "VI"
        \/ n = 3 /\ row[n].does = "BE"
        \/ n = 4 /\ row[n].does = "2VO"
        \/ n = 5 /\ row[n].does = "WaitStop"
    BY <1>1, <1>2, <2>1
  <2>3. "VI" \in AC /\ "BE" \in AC
    BY DEF AC
  <2> QED BY <1>4, <2>2, <2>3, OtherRows DEF Fits, Place, row
<1>5. CASE t \notin {"L_1", "M_U"}
  <2> DEFINE takes == consoleProcStatetbl[t]
  <2>1. Len(takes) = Len(data) /\ \A m \in 1 .. Len(data) : data[m].does \in AC /\ takes[m].takes = data[m].does
    BY <1>5, RowsMatch DEF Matches
  <2>2. Place(t, n) = n /\ Place(t, n + 1) = n + 1 /\ Place(t, 2) = 2
    BY <1>5 DEF Place
  <2> HIDE DEF row, data, takes
  <2>3. CASE n = 1
    BY <2>2, <2>3, <1>1 DEF Fits, row
  <2>4. CASE n = Len(data) + 2
    <3>1. row[n].does = "WaitStop" /\ n > 1
      BY <2>4, <1>1
    <3> QED BY <3>1, <1>5, <2>1, <2>2, <2>4 DEF Fits, row, takes
  <2>5. CASE n - 1 \in 1 .. Len(data) /\ row[n] = data[n - 1]
    <3>1. data[n - 1].does \in AC /\ takes[n - 1].takes = data[n - 1].does
      BY <2>1, <2>5
    <3>2. row[n].does \in AC /\ takes[n - 1].takes = row[n].does /\ n > 1
      <4>1. row[n].does = data[n - 1].does
        BY <2>5
      <4>2. n > 1
        BY <2>5, <1>1, <1>n
      <4> QED BY <3>1, <4>1, <4>2
    <3> QED BY <3>2, <1>5, <2>1, <2>2, <2>5 DEF Fits, row, takes
  <2> QED BY <1>2, <2>3, <2>4, <2>5
<1> QED BY <1>3, <1>4, <1>5

\* What the console takes in a position of its row.
Taken(t, s, m) ==
  IF s = 1 THEN m.type = "CONFIRM"
           ELSE /\ m.type = "DEFAULT" /\ s - 1 \in 1 .. Len(consoleProcStatetbl[t])
                /\ m.ac = consoleProcStatetbl[t][s - 1].takes

\* The one hello under way is read before the next one, and answered once.
HelloAgrees ==
  /\ \A k \in Threads : sender[k].at = "turns" => toConsole = <<>>
  /\ listening /\ con.known => con.state = 1

\* What is under way brings the console to where the station is, frame by frame.
Underway ==
  \/ /\ Cyclical /\ state_num \in {2, 3}
     /\ toConsole \in Seq([type : {"DEFAULT"}, ac : {"VO"}, from : Threads])
  \/ /\ ~Cyclical /\ con.state + Len(toConsole) = Place(con.test, state_num)
     /\ \A j \in 1 .. Len(toConsole) : Taken(con.test, con.state + j - 1, toConsole[j])
\* The two have one test.  The stop of the console is still to come; before the confirm the
\* station has at most hellos under way, and none when its sender is past its sleep.
DataAgrees ==
  /\ wmmps_info.test = con.test /\ (receiver = "stops" => ~stop_flag)
  /\ \/ /\ state_num = 1 /\ con.state = 1 /\ OnlySends({"HELLO"}, Threads)
        /\ sender[psSockfd].at \in {"turns", "acts"} => toConsole = <<>>
     \/ state_num > 1 /\ Underway
\* A console that has not read the stop is at its end, or in the frames of L.1.
StopsAgree == listening => Accepts
\* The console that a stop is under way to takes it; one that was just started has none.
OverAgrees == listening /\ toConsole # <<>> => con.known /\ Accepts /\ OnlySends({"STOP"}, Threads)

\* In a calm run the two programs are in step in every stage.
StepsAgree ==
  calm => \/ Ready \/ Stopping
          \/ Hello /\ HelloAgrees
          \/ Data /\ DataAgrees
          \/ Stops /\ StopsAgree
          \/ Over /\ OverAgrees

\* The first message to the console, and the rest.
LEMMA ReadsFirst ==
  ASSUME NEW S, toConsole \in Seq(S), Reads, Read, listening'
  PROVE  /\ Arrived = toConsole[1] /\ Len(toConsole) \in Nat \ {0}
         /\ toConsole' = Tail(toConsole) /\ Len(toConsole') = Len(toConsole) - 1
         /\ \A j \in 1 .. Len(toConsole') : toConsole'[j] = toConsole[j + 1]
BY DEF Reads, Read, Arrived

\* Up to the name of the test.
LEMMA HelloAgreesStep ==
  ASSUME TypeInv, Links, AtMostOne, Hello, HelloAgrees, CalmStep, Hello' \/ Data'
  PROVE  (Hello /\ HelloAgrees)' \/ (Data /\ DataAgrees)'
<1>0. /\ wmmps_info.state = 0 /\ state_num = 1 /\ DOMAIN sender = Threads /\ receiver # "stops"
      /\ \A k \in Threads : sender[k].at # "acts"
      /\ psSockfd # 0 => psSockfd \in Threads
  <2>1. DOMAIN sender = Threads
    BY Zenon DEF Links, SenderLinked
  <2>2. \A k \in Threads : sender[k].at # "acts"
    BY DEF Hello, Running
  <2> QED BY <2>1, <2>2 DEF Hello, TypeInv, TypeOK, Threads
<1>h. ASSUME UNCHANGED wmmps_info \/ wmmps_info'.state = 0, HelloAgrees' PROVE (Hello /\ HelloAgrees)'
  <2>1. ~(wmmps_info'.state > 0)
    BY <1>0, <1>h
  <2> QED BY <2>1, <1>h DEF Data, Exchange
<1>u. ASSUME UNCHANGED wmmps_info \/ wmmps_info'.state = 0, UNCHANGED <<sender, toConsole, con, listening>>
      PROVE  (Hello /\ HelloAgrees)'
  BY <1>u, <1>h DEF HelloAgrees
<1>1. ~((Start /\ (starts > 0 => stopped # "none")) \/ Stopped \/ (Reset /\ ~gtgWmmPS)
        \/ (Stop /\ con.ended # "none" /\ consoles = starts))
  BY DEF Start, Stopped, RecvStopped, Timed, Hello, InTest, Links, Unnamed, Named
<1>2. CASE ConsoleStarts
  <2>1. UNCHANGED <<wmmps_info, sender, toConsole>> /\ ~con'.known
    BY <1>2 DEF ConsoleStarts, ConsoleStart
  <2> QED BY <2>1, <1>h DEF HelloAgrees
<1>3. CASE AtOnce(MovesOn /\ UNCHANGED console)
  <2>1. Named /\ receiver = "moves" /\ call.next > 0
    <3>1. receiver = "moves"
      BY <1>3 DEF AtOnce, MovesOn
    <3> QED BY <3>1, HelloHandles DEF Handles, TypeInv, CallKept
  <2>2. /\ wmmps_info' = [test |-> con.test, state |-> call.next, stream |-> wmmps_info.stream] /\ receiver' = "ends"
        /\ UNCHANGED <<con, listening, psSockfd, sender, toConsole, state_num>>
    BY <1>3, <2>1 DEF AtOnce, MovesOn, Returns, SameSockets, Hello
  <2>3. Data'
    BY <2>1, <2>2 DEF Hello
  <2>4. toConsole' \in Seq([type : {"HELLO"}, ac : AC, from : Threads])
    <3>1. [type : {"HELLO"}, ac : AC, from : {psSockfd}] \subseteq [type : {"HELLO"}, ac : AC, from : Threads]
      BY <2>1, <1>0 DEF Named
    <3>2. toConsole \in Seq([type : {"HELLO"}, ac : AC, from : {psSockfd}])
      BY DEF Hello, OnlySends
    <3>3. toConsole \in Seq([type : {"HELLO"}, ac : AC, from : Threads])
      <4> DEFINE S == [type : {"HELLO"}, ac : AC, from : {psSockfd}]
                 T == [type : {"HELLO"}, ac : AC, from : Threads]
      <4>1. S \subseteq T /\ toConsole \in Seq(S)
        BY <3>1, <3>2
      <4> HIDE DEF S, T
      <4>2. toConsole \in Seq(T)
        BY <4>1, KindGrows
      <4> QED BY <4>2 DEF T
    <3> QED BY <2>2, <3>3
  <2>5. con.state = 1 /\ psSockfd \in Threads
    BY <2>1, <1>0 DEF HelloAgrees, Named
  <2> QED BY <1>0, <2>1, <2>2, <2>3, <2>4, <2>5 DEF DataAgrees, HelloAgrees, OnlySends
<1>4. CASE Receiver /\ ~AtOnce(MovesOn /\ UNCHANGED console)
  <2>0. UNCHANGED console
    BY <1>4, ReceiverFrame
  <2>1. CASE AtOnce(CreateSender /\ UNCHANGED console)
    <3>1. NoSender /\ UNCHANGED <<wmmps_info, toConsole>>
      BY <2>1 DEF AtOnce, CreateSender, Hello
    <3>2. PICK k : sender' = [sender EXCEPT ![k] = At("begins")]
      BY <2>1, Zenon DEF CreateSender, AtOnce
    <3>3. \A j \in Threads : sender'[j].at # "turns"
      BY <3>1, <3>2, <1>0 DEF NoSender, Running, At
    <3> QED BY <2>0, <3>1, <3>3, <1>h DEF HelloAgrees
  <2>2. ~AtOnce(GiveUp /\ UNCHANGED console) /\ ~AtOnce(EndTurn /\ UNCHANGED console)
    <3>1. receiver # "ends" /\ ~resetsnd /\ ~(num_hello > MaxHello /\ psSockfd = 0)
      BY StationAssumption DEF Hello
    <3> QED BY <3>1, Zenon DEF AtOnce, GiveUp, EndTurn
  <2>3. ~Calls({"Stop", "RcvStop"}) /\ ~Calls({"RcvNotCare"}) /\ ~Calls({"Reset", "RcvNotCare"})
        /\ ~Calls({"RcvVOCyclic", "none"})
    BY DEF Calls, Hello, Naming
  <2>4. CASE AtOnce(WfaRcvProc /\ UNCHANGED console)
    <3>1. UNCHANGED <<sender, toConsole>> /\ wmmps_info' \in {wmmps_info, [wmmps_info EXCEPT !.test = call.type]}
      BY <2>4 DEF AtOnce, WfaRcvProc
    <3>2. wmmps_info'.state = 0
      BY <3>1, <1>0 DEF Hello
    <3> QED BY <3>1, <3>2, <2>0, <1>u
  <2>5. CASE AtOnce(Hear /\ UNCHANGED console) \/ AtOnce(LookUp /\ UNCHANGED console)
             \/ AtOnce(SkipTurn /\ UNCHANGED console) \/ AtOnce(Block /\ UNCHANGED console)
             \/ AtOnce(ReceiverDone /\ UNCHANGED console) \/ Timed(ReceiverWakes /\ UNCHANGED console, ~Busy)
    BY <2>5, <2>0, <1>u DEF AtOnce, Timed, Hear, LookUp, SkipTurn, Block, ReceiverDone, ReceiverWakes
  <2> QED BY <1>4, <1>0, <2>1, <2>2, <2>3, <2>4, <2>5, Zenon DEF Receiver, AtOnce, WfaRcvStop, WfaRcvNotCare, ReceiveReset,
         ReceiveIgnored, StopHeard
<1>5. CASE Console
  <2>1. UNCHANGED <<wmmps_info, sender>> /\ Reads
    BY <1>5, ConsoleFrame
  <2>2. Arrived.type = "HELLO"
    <3>1. Head(toConsole) \in [type : {"HELLO"}, ac : AC, from : {psSockfd}]
      BY <2>1, HeadTailProperties DEF Reads, Hello, OnlySends
    <3> QED BY <3>1 DEF Arrived
  <2>3. RcvHello
    BY <1>5, <2>2 DEF Console, AtOnce, Ignore, RcvReset, RcvConf, RcvFrame, RcvVOSndCyclicFrame, RcvVOSndCyclicStop, WaitStop,
       Plain
  <2>4. con'.state = 1
    <3>1. con = ConsoleRecord
      BY DEF TypeInv, ConsoleHasTest
    <3> QED BY <2>1, <2>3, <3>1 DEF RcvHello, HelloAgrees, ConsoleRecord, Reads
  <2>5. \A k \in Threads : sender[k].at # "turns"
    BY <2>1 DEF HelloAgrees, Reads
  <2> QED BY <2>1, <2>4, <2>5, <1>h DEF HelloAgrees
<1>6. ASSUME NEW k \in Threads, Sender(k), sender[k].at \in {"sleeps", "acts"} => ~Busy PROVE (Hello /\ HelloAgrees)'
  <2>0. UNCHANGED <<con, listening, wmmps_info>>
    BY <1>6, SenderFrame
  <2>1. \A j \in Threads : j # k => sender'[j].at # "turns"
    BY <1>6, SenderRuns, SenderOnly DEF AtMostOne, Running
  <2>2. sender'[k].at = "turns" => toConsole' = <<>>
    <3>1. CASE Timed(SenderWakes(k) /\ UNCHANGED console, ~Busy)
      <4>1. sender[k].at = "sleeps" /\ UNCHANGED toConsole
        BY <3>1 DEF Timed, SenderWakes
      <4>2. toConsole = <<>>
        BY <4>1, <1>6 DEF Busy, Reads, Links
      <4> QED BY <4>1, <4>2
    <3>2. CASE sender'[k].at # "turns"
      BY <3>2
    <3>3. ASSUME NEW place, Goes(k, place) PROVE sender'[k].at = place
      BY <3>3, <1>0 DEF Goes, At
    <3>4. sender[k].at # "acts"
      BY <1>0
    <3>5. /\ ~Timed(WfaStaSnd(k) /\ UNCHANGED console, ~Busy) /\ ~Timed(SendFails(k) /\ UNCHANGED console, FALSE)
          /\ ~Timed(WfaStaSndVOCyclic(k) /\ UNCHANGED console, ~Busy)
          /\ ~Timed(WfaStaWaitStop(k) /\ UNCHANGED console, ~Busy)
      BY <3>4 DEF Timed, WfaStaSnd, SendFails, WfaStaSndVOCyclic, WfaStaWaitStop
    <3>6. ~AtOnce(WfaStaSndConfirm(k) /\ UNCHANGED console) /\ ~AtOnce(StartEntry(k) /\ UNCHANGED console)
      BY <1>0 DEF AtOnce, WfaStaSndConfirm, StartEntry
    <3>7. CASE AtOnce(OpenSocket(k) /\ UNCHANGED console) \/ AtOnce(SenderDone(k) /\ UNCHANGED console)
               \/ AtOnce(SendHello(k) /\ UNCHANGED console)
      <4>1. Goes(k, "sleeps") \/ Goes(k, "end")
        BY <3>7, Zenon DEF AtOnce, OpenSocket, SenderDone, SendHello
      <4> QED BY <4>1, <3>3
    <3> QED BY <1>6, <3>1, <3>5, <3>6, <3>7, Zenon DEF Sender
  <2> QED BY <2>0, <2>1, <2>2, <1>h DEF HelloAgrees
<1>7. CASE UNCHANGED vars
  <2>1. UNCHANGED <<wmmps_info, sender, toConsole, con, listening>>
    BY <1>7 DEF vars
  <2> QED BY <2>1, <1>u
<1> QED BY <1>1, <1>2, <1>3, <1>4, <1>5, <1>6, <1>7 DEF CalmStep

\* What the console reads of what the station sends: it takes every frame in its turn.
LEMMA HeardAgrees ==
  ASSUME TypeInv, Data, DataAgrees, Console, Read, listening'
  PROVE  DataAgrees'
<1> SUFFICES /\ con'.test = con.test
             /\ \/ /\ state_num = 1 /\ con'.state = 1 /\ sender[psSockfd].at \notin {"turns", "acts"}
                   /\ toConsole' \in Seq([type : {"HELLO"}, ac : AC, from : Threads])
                \/ /\ state_num > 1
                   /\ \/ /\ Cyclical' /\ state_num \in {2, 3}
                         /\ toConsole' \in Seq([type : {"DEFAULT"}, ac : {"VO"}, from : Threads])
                      \/ /\ ~Cyclical' /\ con'.state + Len(toConsole') = Place(con.test, state_num)
                         /\ \A j \in 1 .. Len(toConsole') : Taken(con.test, con'.state + j - 1, toConsole'[j])
  BY ConsoleFrame DEF DataAgrees, Underway, OnlySends
<1>0. Reads /\ listening /\ con.known /\ con = ConsoleRecord /\ con.test \in TestNames
      /\ con.state \in 1 .. Len(Row) + 2 /\ Len(Row) \in Nat
  BY ConsoleFrame, RowLength DEF Reads, Data, Exchange, TypeInv, TypeOK, ConsoleHasTest, Row
<1>1. CASE state_num = 1 /\ con.state = 1 /\ OnlySends({"HELLO"}, Threads)
           /\ (sender[psSockfd].at \in {"turns", "acts"} => toConsole = <<>>)
  <2>1. Arrived.type = "HELLO" /\ toConsole' \in Seq([type : {"HELLO"}, ac : AC, from : Threads])
    <3>1. /\ Arrived \in [type : {"HELLO"}, ac : AC, from : Threads]
          /\ toConsole' \in Seq([type : {"HELLO"}, ac : AC, from : Threads])
      BY <1>0, <1>1, ReadKind DEF OnlySends
    <3> QED BY <3>1
  <2>2. RcvHello
    BY <2>1 DEF Console, AtOnce, Ignore, RcvReset, RcvConf, RcvFrame, RcvVOSndCyclicFrame, RcvVOSndCyclicStop, WaitStop, Plain
  <2>3. UNCHANGED con
    BY <1>0, <2>2 DEF RcvHello
  <2> QED BY <1>0, <1>1, <2>1, <2>3 DEF Reads
<1>2. CASE /\ state_num \in {2, 3} /\ Cyclical
           /\ toConsole \in Seq([type : {"DEFAULT"}, ac : {"VO"}, from : Threads])
  <2>1. /\ Arrived.type = "DEFAULT" /\ Arrived.ac = "VO"
        /\ toConsole' \in Seq([type : {"DEFAULT"}, ac : {"VO"}, from : Threads])
    <3>1. /\ Arrived \in [type : {"DEFAULT"}, ac : {"VO"}, from : Threads]
          /\ toConsole' \in Seq([type : {"DEFAULT"}, ac : {"VO"}, from : Threads])
      BY <1>0, <1>2, ReadKind
    <3> QED BY <3>1
  <2>2. ~Waits /\ Due /\ con.state # 1
    <3>1. ~Waits /\ con.state = 2
      BY <1>2, OtherRows DEF Cyclical, Waits, Row
    <3> QED BY <2>1, <3>1, <1>2 DEF Due
  <2>3. UNCHANGED con
    BY <1>0, <1>2, <2>1, <2>2 DEF Console, AtOnce, RcvHello, Ignore, RcvReset, RcvConf, RcvFrame, RcvVOSndCyclicFrame,
       RcvVOSndCyclicStop, WaitStop, Plain
  <2> QED BY <1>2, <2>1, <2>3 DEF Cyclical
<1>3. CASE /\ state_num > 1 /\ ~Cyclical /\ con.state + Len(toConsole) = Place(con.test, state_num)
           /\ \A j \in 1 .. Len(toConsole) : Taken(con.test, con.state + j - 1, toConsole[j])
  <2>1. toConsole \in Seq([type : {"HELLO", "CONFIRM", "DEFAULT"}, ac : AC, from : Threads])
    BY DEF Data, OnlySends
  <2>2. /\ Arrived = toConsole[1] /\ Len(toConsole) \in Nat \ {0}
        /\ toConsole' = Tail(toConsole) /\ Len(toConsole') = Len(toConsole) - 1
        /\ \A j \in 1 .. Len(toConsole') : toConsole'[j] = toConsole[j + 1]
    BY <1>0, <2>1, ReadsFirst
  <2>3. Taken(con.test, con.state, Arrived)
    <3>1. Taken(con.test, con.state + 1 - 1, toConsole[1])
      BY <1>3, <2>2
    <3>2. con.state + 1 - 1 = con.state
      BY <1>0
    <3> QED BY <2>2, <3>1, <3>2
  <2>4. con'.state = con.state + 1 /\ con'.test = con.test
    <3>1. CASE con.state = 1
      <4>1. Arrived.type = "CONFIRM" /\ Due /\ ~Waits /\ ~Cyclical
        BY <3>1, <2>3, <1>0 DEF Taken, Due, Waits, Cyclical
      <4>2. con' = [con EXCEPT !.state = 2]
        BY <1>0, <4>1, <3>1 DEF Console, AtOnce, RcvHello, Ignore, RcvReset, RcvConf, RcvFrame, RcvVOSndCyclicFrame,
           RcvVOSndCyclicStop, WaitStop, Plain
      <4> QED BY <1>0, <3>1, <4>2 DEF ConsoleRecord
    <3>2. CASE con.state # 1
      <4>1. Arrived.type = "DEFAULT" /\ Due /\ ~Waits /\ ~Cyclical
        BY <3>2, <2>3, <1>0, <1>3 DEF Taken, Due, Waits, Row
      <4>2. con' = [con EXCEPT !.state = @ + 1]
        BY <1>0, <4>1, <3>2 DEF Console, AtOnce, RcvHello, Ignore, RcvReset, RcvConf, RcvFrame, RcvVOSndCyclicFrame,
           RcvVOSndCyclicStop, WaitStop, Plain
      <4> QED BY <1>0, <4>2 DEF ConsoleRecord
    <3> QED BY <3>1, <3>2
  <2>5. con'.state + Len(toConsole') = Place(con.test, state_num)
    BY <1>0, <1>3, <2>2, <2>4
  <2>6. CASE Cyclical'
    <3>1. con.test = "L_1" /\ con.state = 1
      BY <2>4, <2>6, <1>0 DEF Cyclical
    <3>2. state_num \in {2, 3} /\ Len(toConsole') = 0
      <4>1. state_num \in 1 .. 3
        <5>1. wmmps_info.test = "L_1" /\ state_num \in DOMAIN SendRow
          BY <3>1 DEF DataAgrees, Data, Exchange
        <5>2. DOMAIN stationProcStatetbl("L_1") = 1 .. 3
          <6>1. DOMAIN stationProcStatetbl("L_1") = 1 .. Len(StationData["L_1"]) + 2
            BY FirstTest, RowEntries
          <6> QED BY <6>1, OtherRows
        <5> QED BY <5>1, <5>2 DEF SendRow
      <4> QED BY <4>1, <1>3, <2>2, <3>1 DEF Place
    <3>3. toConsole' = <<>>
      BY <2>1, <2>2, <3>2
    <3> QED BY <1>3, <2>4, <2>6, <3>2, <3>3
  <2>7. CASE ~Cyclical'
    <3>1. ASSUME NEW j \in 1 .. Len(toConsole') PROVE Taken(con.test, con'.state + j - 1, toConsole'[j])
      <4>1. j + 1 \in 1 .. Len(toConsole) /\ con.state + (j + 1) - 1 = con'.state + j - 1
        BY <1>0, <2>2, <2>4
      <4>2. Taken(con.test, con.state + (j + 1) - 1, toConsole[j + 1])
        BY <1>3, <4>1
      <4> QED BY <2>2, <4>1, <4>2
    <3> QED BY <1>3, <2>4, <2>5, <2>7, <3>1
  <2> QED BY <2>6, <2>7
<1> QED BY <1>1, <1>2, <1>3 DEF DataAgrees, Underway

\* Where the row of the station stands the console's table fits.
LEMMA EntryFits ==
  ASSUME TypeInv, Data, DataAgrees
  PROVE  /\ con.test \in TestNames /\ Len(Row) \in Nat /\ con.state \in 1 .. Len(Row) + 2
         /\ state_num \in Nat /\ SendRow = stationProcStatetbl(con.test) /\ Fits(con.test, state_num)
<1>1. con.test \in TestNames /\ Len(Row) \in Nat /\ con.state \in 1 .. Len(Row) + 2
  BY RowLength DEF Data, Exchange, TypeInv, TypeOK, ConsoleHasTest, Row
<1>2. SendRow = stationProcStatetbl(con.test)
  BY <1>1, FirstTest DEF DataAgrees, SendRow
<1>3. state_num \in DOMAIN stationProcStatetbl(con.test)
  BY <1>2 DEF Data, Exchange
<1>4. state_num \in Nat
  <2>1. DOMAIN stationProcStatetbl(con.test) = 1 .. Len(StationData[con.test]) + 2 /\ Len(StationData[con.test]) \in Nat
    BY <1>1, RowEntries
  <2> QED BY <1>3, <2>1
<1> QED BY <1>1, <1>2, <1>3, <1>4, TablesFit

\* What the station sends after the name: the frame that the console takes next.
LEMMA SentAgrees ==
  ASSUME TypeInv, Links, Data, DataAgrees, NEW k \in Threads, Sender(k), sender[k].at \in {"sleeps", "acts"} => ~Busy,
         ~WfaStaWaitStop(k)
  PROVE  DataAgrees'
<1>0. /\ UNCHANGED <<con, listening, receiver, wmmps_info, psSockfd>> /\ Exchange'
  <2>1. UNCHANGED psSockfd /\ Exchange'
    BY ExchangeSends DEF Data
  <2> QED BY <2>1, SenderFrame
<1>1. /\ k = psSockfd /\ sender[k].at \in {"sleeps", "turns", "acts"} /\ DOMAIN sender = Threads
      /\ Sendable /\ listening /\ ~Ends(k) /\ wmmps_info.state > 0
      /\ sender[k].at = "acts" => sender[k].does = SendRow[state_num]
  <2>1. /\ k = psSockfd /\ sender[k].at \in {"sleeps", "turns", "acts"}
        /\ (sender[k].at = "acts" => sender[k].does = SendRow[state_num])
    BY SenderRuns DEF Data, Exchange
  <2>2. DOMAIN sender = Threads
    BY Zenon DEF Links, SenderLinked
  <2> QED BY <2>1, <2>2 DEF Data, Exchange, Ends, Sendable
<1>2. /\ con.test \in TestNames /\ Len(Row) \in Nat /\ con.state \in 1 .. Len(Row) + 2
      /\ state_num \in Nat /\ SendRow = stationProcStatetbl(con.test) /\ Fits(con.test, state_num)
  BY EntryFits
<1>3. sender[k].at \in {"sleeps", "acts"} => toConsole = <<>>
  BY <1>1 DEF Busy, Reads
<1>r. UNCHANGED stop_flag /\ Row' = Row /\ (Cyclical' <=> Cyclical)
  BY <1>0, <1>1, Zenon DEF Sender, AtOnce, Timed, OpenSocket, SenderDone, SendHello, WfaStaSndConfirm, StartEntry,
     SenderWakes, WfaStaSnd, SendFails, WfaStaSndVOCyclic, Row, Cyclical
<1>a. ASSUME \/ /\ state_num' = 1 /\ con.state = 1 /\ toConsole' \in Seq([type : {"HELLO"}, ac : AC, from : Threads])
                /\ sender'[psSockfd].at \in {"turns", "acts"} => toConsole' = <<>>
             \/ state_num' > 1 /\ Underway'
      PROVE  DataAgrees'
  BY <1>a, <1>0, <1>r DEF DataAgrees, OnlySends
<1>4. CASE Timed(SenderWakes(k) /\ UNCHANGED console, ~Busy)
  <2>1. toConsole = <<>> /\ UNCHANGED <<toConsole, state_num>>
    BY <1>3, <1>4 DEF Timed, SenderWakes
  <2> QED BY <2>1, <1>0, <1>r, <1>a DEF DataAgrees, Underway, OnlySends
<1>5. CASE AtOnce(WfaStaSndConfirm(k) /\ UNCHANGED console)
  <2>1. /\ sender[k].at = "turns" /\ SendRow[state_num].does = "Confirm" /\ state_num' = state_num + 1
        /\ Send(<<Message("CONFIRM", "BE")>>)
    BY <1>5 DEF AtOnce, WfaStaSndConfirm
  <2>2. state_num = 1 /\ Place(con.test, 2) = 2
    BY <2>1, <1>2 DEF Fits, AC
  <2>3. con.state = 1 /\ toConsole = <<>>
    BY <2>1, <2>2, <1>1 DEF DataAgrees
  <2>4. toConsole' = <<Message("CONFIRM", "BE")>>
    BY <2>1, <2>3, <1>1 DEF Send
  <2>5. Taken(con.test, 1, Message("CONFIRM", "BE"))
    BY DEF Taken, Message
  <2>6. state_num' = 2 /\ Underway'
    BY <2>1, <2>2, <2>3, <2>4, <2>5, <1>0, <1>r DEF Underway, Cyclical
  <2> QED BY <2>6, <1>a
<1>6. CASE AtOnce(StartEntry(k) /\ UNCHANGED console)
  <2>1. sender[k].at = "turns" /\ UNCHANGED <<toConsole, state_num>>
    BY <1>6 DEF AtOnce, StartEntry
  <2> QED BY <2>1, <1>0, <1>1, <1>r, <1>a DEF DataAgrees, Underway, OnlySends
<1>7. CASE Timed(WfaStaSnd(k) /\ UNCHANGED console, ~Busy)
  <2> DEFINE what == sender[k].does.does
             ac == IF what = "2VO" THEN "VO" ELSE what
             m == Message("DEFAULT", ac)
             t == con.test
  <2>1. /\ what \in AC \cup {"2VO"} /\ what = SendRow[state_num].does /\ state_num' = state_num + 1 /\ toConsole = <<>>
        /\ Send(IF what = "2VO" THEN <<m, m>> ELSE <<m>>)
    BY <1>7, <1>1, <1>3 DEF Timed, WfaStaSnd
  <2>2. m.type = "DEFAULT" /\ m.ac = ac
    BY DEF Message
  <2> HIDE DEF what, m
  <2>3. toConsole' = IF what = "2VO" THEN <<m, m>> ELSE <<m>>
    BY <2>1, <1>1 DEF Send
  <2>4. /\ t # "L_1" /\ state_num > 1 /\ Place(t, state_num) - 1 \in 1 .. Len(Row)
        /\ Row[Place(t, state_num) - 1].takes = ac
        /\ IF what = "2VO" THEN /\ Place(t, state_num + 1) = Place(t, state_num) + 2
                                /\ Place(t, state_num) \in 1 .. Len(Row) /\ Row[Place(t, state_num)].takes = "VO"
                           ELSE Place(t, state_num + 1) = Place(t, state_num) + 1
    BY <2>1, <1>2 DEF Fits, Row, AC
  <2>5. ~Cyclical /\ con.state = Place(t, state_num)
    BY <2>1, <2>4, <1>2 DEF Cyclical, DataAgrees, Underway
  <2>6. Taken(t, con.state, m)
    BY <2>2, <2>4, <2>5, <1>2 DEF Taken, Row
  <2>7. ASSUME what = "2VO" PROVE Taken(t, con.state + 1, m)
    <3>1. con.state \in 1 .. Len(Row) /\ Row[con.state].takes = "VO" /\ m.ac = "VO"
      BY <2>2, <2>4, <2>5, <2>7
    <3>2. con.state + 1 # 1 /\ con.state + 1 - 1 = con.state
      BY <1>2
    <3> QED BY <2>2, <3>1, <3>2 DEF Taken, Row
  <2>8. con.state + Len(toConsole') = Place(t, state_num')
    BY <2>1, <2>3, <2>4, <2>5, <1>2
  <2>9. \A j \in 1 .. Len(toConsole') : Taken(t, con.state + j - 1, toConsole'[j])
    <3>1. CASE what = "2VO"
      <4>1. toConsole' = <<m, m>> /\ Len(toConsole') = 2 /\ toConsole'[1] = m /\ toConsole'[2] = m
        BY <2>3, <3>1
      <4>2. con.state + 1 - 1 = con.state /\ con.state + 2 - 1 = con.state + 1
        BY <1>2
      <4> QED BY <2>6, <2>7, <3>1, <4>1, <4>2
    <3>2. CASE what # "2VO"
      <4>1. toConsole' = <<m>> /\ Len(toConsole') = 1 /\ toConsole'[1] = m
        BY <2>3, <3>2
      <4>2. con.state + 1 - 1 = con.state
        BY <1>2
      <4> QED BY <2>6, <4>1, <4>2
    <3> QED BY <3>1, <3>2
  <2>10. Underway' /\ state_num' > 1
    BY <2>1, <2>4, <2>5, <2>8, <2>9, <1>0, <1>2, <1>r DEF Underway
  <2> QED BY <2>10, <1>a
<1>8. CASE Timed(WfaStaSndVOCyclic(k) /\ UNCHANGED console, ~Busy)
  <2>1. /\ SendRow[state_num].does = "VOCyclic" /\ Send(<<Message("DEFAULT", "VO")>>) /\ toConsole = <<>>
        /\ state_num' \in {state_num, state_num + 1}
    BY <1>8, <1>1, <1>3 DEF Timed, WfaStaSndVOCyclic
  <2>2. con.test = "L_1" /\ state_num = 2
    BY <2>1, <1>2 DEF Fits, AC
  <2>3. Cyclical
    BY <2>1, <2>2, <1>2 DEF DataAgrees, Underway, Place, Cyclical
  <2>4. toConsole' = <<Message("DEFAULT", "VO")>>
    BY <2>1, <1>1 DEF Send
  <2>5. toConsole' \in Seq([type : {"DEFAULT"}, ac : {"VO"}, from : Threads])
    <3>1. Message("DEFAULT", "VO") \in [type : {"DEFAULT"}, ac : {"VO"}, from : Threads]
      BY <1>1 DEF Message
    <3> QED BY <2>4, <3>1
  <2>6. state_num' > 1 /\ Underway'
    BY <2>1, <2>2, <2>3, <2>5, <1>r DEF Underway
  <2> QED BY <2>6, <1>a
<1>9. CASE Timed(SendFails(k) /\ UNCHANGED console, FALSE)
  <2>1. toConsole = <<>> /\ UNCHANGED <<toConsole, state_num>>
    BY <1>3, <1>9 DEF Timed, SendFails
  <2> QED BY <2>1, <1>0, <1>r, <1>a DEF DataAgrees, Underway, OnlySends
<1>10. ~AtOnce(OpenSocket(k) /\ UNCHANGED console) /\ ~AtOnce(SenderDone(k) /\ UNCHANGED console)
       /\ ~AtOnce(SendHello(k) /\ UNCHANGED console)
  <2>1. wmmps_info.state # 0 /\ state_num \in DOMAIN SendRow /\ sender[k].at # "begins"
    BY <1>1 DEF Data, Exchange
  <2> QED BY <2>1, <1>1, Zenon DEF AtOnce, OpenSocket, SenderDone, SendHello
<1> QED BY <1>4, <1>5, <1>6, <1>7, <1>8, <1>9, <1>10 DEF Sender, Timed

\* From the name of the test to its end the two programs stay in step: the station's first stop
\* finds the console where it accepts, and is the last message that it reads.
LEMMA ExchangeAgreesStep ==
  ASSUME TypeInv, Links, \/ Data /\ DataAgrees
                         \/ Stops /\ StopsAgree,
         CalmStep, Data' \/ Stops' \/ Over' \/ Stopping'
  PROVE  Stopping' \/ (Data /\ DataAgrees)' \/ (Stops /\ StopsAgree)' \/ (Over /\ OverAgrees)'
<1>0. /\ Exchange /\ InTest /\ gtgWmmPS /\ wmmps_info.state # 0 /\ con.known /\ num_stops \in Nat
      /\ Data => num_stops = 0 /\ listening /\ DataAgrees
      /\ Stops => num_stops # 0 /\ StopsAgree
  <2>1. Exchange /\ num_stops \in Nat
    BY DEF Data, Stops, TypeInv, TypeOK
  <2>2. (Data => num_stops = 0 /\ listening) /\ (Stops => num_stops # 0)
    BY DEF Data, Stops
  <2> QED BY <2>1, <2>2 DEF Exchange
<1>d. ASSUME Exchange', num_stops' = 0, DataAgrees' PROVE (Data /\ DataAgrees)'
  BY <1>d DEF Exchange, InTest, Stops, Over, Stopping
<1>s. ASSUME Exchange', num_stops' # 0, StopsAgree' PROVE (Stops /\ StopsAgree)'
  BY <1>s DEF Exchange, InTest, Data, Over, Stopping
<1>1. ~(Start /\ (starts > 0 => stopped # "none")) /\ ~Stopped /\ ~(Reset /\ ~gtgWmmPS)
      /\ ~(ConsoleStarts /\ wmmps_info.state = 0)
  BY <1>0 DEF Start, Stopped, RecvStopped, Timed, InTest
<1>2. CASE Stop
  <2>1. agent' = "stopping"
    BY <1>2 DEF Stop, RecvStop
  <2> QED BY <2>1 DEF Data, Stops, Over, Exchange, InTest
<1>3. CASE AtOnce(StopHeard /\ UNCHANGED console)
  <2>1. receiver = "stops" /\ stop_flag /\ ~gtgWmmPS' /\ UNCHANGED <<agent, toConsole, listening, con>>
    BY <1>3 DEF AtOnce, StopHeard
  <2>2. Stops /\ StopsAgree
    BY <1>0, <2>1 DEF DataAgrees
  <2>3. Over'
    BY <1>0, <2>1 DEF Data, Stops, Exchange, Stopping, InTest
  <2>4. listening => OnlySends({"STOP"}, Threads) /\ Accepts
    BY <2>2 DEF Stops, StopsAgree
  <2> QED BY <1>0, <2>1, <2>3, <2>4 DEF OverAgrees, OnlySends, Accepts, Waits, Cyclical, Row
<1>4. CASE Receiver /\ ~AtOnce(StopHeard /\ UNCHANGED console)
  <2>1. /\ Exchange' /\ UNCHANGED <<listening, con, toConsole, num_stops, sender, state_num, psSockfd>>
        /\ wmmps_info'.test = wmmps_info.test /\ receiver # "stops"
    BY <1>0, <1>4, ExchangeReceives
  <2>2. receiver' = "stops" => ~stop_flag'
    <3>1. CASE AtOnce(WfaRcvStop /\ UNCHANGED console)
      BY <3>1 DEF AtOnce, WfaRcvStop
    <3>2. ~AtOnce(WfaRcvStop /\ UNCHANGED console) => receiver' # "stops"
      BY <1>4, <2>1 DEF Receiver, AtOnce, Timed, CreateSender, GiveUp, SkipTurn, Block, ReceiverDone, EndTurn, Hear, LookUp,
         WfaRcvProc, WfaRcvNotCare, MovesOn, Returns, ReceiveReset, ReceiveIgnored, ReceiverWakes
    <3> QED BY <3>1, <3>2
  <2>3. CASE Data
    <3>1. DataAgrees'
      BY <1>0, <2>1, <2>2, <2>3 DEF DataAgrees, Underway, OnlySends, Cyclical
    <3> QED BY <3>1, <1>0, <1>d, <2>1, <2>3
  <2>4. CASE Stops
    <3>1. StopsAgree'
      BY <1>0, <2>1, <2>4 DEF StopsAgree, Accepts, Waits, Cyclical, Row
    <3> QED BY <3>1, <1>0, <1>s, <2>1, <2>4
  <2> QED BY <2>3, <2>4
<1>5. CASE Console
  <2>0. UNCHANGED <<station, history>> /\ Reads
    BY <1>5, ConsoleFrame
  <2>1. CASE Data
    <3>1. Arrived.type \in {"HELLO", "CONFIRM", "DEFAULT"}
      <4>1. Head(toConsole) \in [type : {"HELLO", "CONFIRM", "DEFAULT"}, ac : AC, from : Threads]
        BY <2>0, <2>1, HeadTailProperties DEF Reads, Data, OnlySends
      <4> QED BY <4>1 DEF Arrived
    <3>2. Exchange' /\ Read /\ listening'
      BY <1>0, <1>5, <3>1, ExchangeHeard
    <3>3. DataAgrees'
      BY <1>0, <1>5, <2>1, <3>2, HeardAgrees
    <3> QED BY <1>0, <1>d, <2>0, <2>1, <3>2, <3>3
  <2>2. CASE Stops
    <3>1. Arrived.type = "STOP"
      <4>1. Head(toConsole) \in [type : {"STOP"}, ac : AC, from : Threads]
        BY <2>0, <2>2, HeadTailProperties DEF Reads, Stops, OnlySends
      <4> QED BY <4>1 DEF Arrived
    <3>2. Exchange' /\ ~listening'
      BY <1>0, <1>5, <2>0, <2>2, <3>1, ExchangeHeard DEF StopsAgree, Reads
    <3> QED BY <1>0, <1>s, <2>0, <2>2, <3>2 DEF StopsAgree
  <2> QED BY <2>1, <2>2
<1>6. ASSUME NEW k \in Threads, Sender(k), sender[k].at \in {"sleeps", "acts"} => ~Busy
      PROVE  (Data /\ DataAgrees)' \/ (Stops /\ StopsAgree)' \/ (Over /\ OverAgrees)'
  <2>0. UNCHANGED <<listening, con, agent>> /\ ~Stopping'
    BY <1>0, <1>6, SenderFrame DEF Stopping, InTest
  <2>1. CASE WfaStaWaitStop(k) /\ Data
    <3>0. num_stops = 0 /\ ~(num_stops + 1 > MaxStops)
      BY <1>0, <2>1, StationAssumption
    <3>1. sender[k].at = "acts" /\ sender[k].does.does = "WaitStop" /\ num_stops' = num_stops + 1 /\ gtgWmmPS' = gtgWmmPS
      BY <2>1, <3>0 DEF WfaStaWaitStop
    <3>2. num_stops' = 1 /\ gtgWmmPS'
      BY <1>0, <3>0, <3>1
    <3>3. Stops'
      BY <2>0, <3>2 DEF Data, Over
    <3>4. toConsole = <<>>
      BY <1>0, <1>6, <2>1, <3>1 DEF Busy, Reads
    <3>5. /\ SendRow[state_num].does = "WaitStop" /\ con.test \in TestNames /\ Len(Row) \in Nat
          /\ SendRow = stationProcStatetbl(con.test) /\ Fits(con.test, state_num)
      <4>1. SendRow[state_num].does = "WaitStop"
        BY <1>0, <3>1 DEF Exchange
      <4> QED BY <4>1, <1>0, <2>1, EntryFits
    <3>6. state_num > 1 /\ Place(con.test, state_num) = IF con.test = "L_1" THEN 2 ELSE Len(Row) + 2
      BY <3>5 DEF Fits, AC, Row
    <3>7. Cyclical \/ con.state = Place(con.test, state_num)
      <4>1. Underway /\ Len(toConsole) = 0 /\ con.state \in Nat
        BY <1>0, <2>1, <3>4, <3>5, <3>6, EntryFits DEF DataAgrees
      <4> QED BY <4>1 DEF Underway
    <3>8. Accepts
      BY <3>6, <3>7 DEF Accepts, Waits, Cyclical
    <3> QED BY <2>0, <3>3, <3>8 DEF StopsAgree, Accepts, Waits, Cyclical, Row
  <2>2. CASE WfaStaWaitStop(k) /\ Stops
    <3>1. ~listening /\ num_stops' = num_stops + 1
      BY <1>0, <1>6, <2>2 DEF WfaStaWaitStop, StopsAgree, Stops, Busy, Reads
    <3> QED BY <1>0, <2>0, <3>1 DEF Data, StopsAgree, OverAgrees
  <2>3. CASE ~WfaStaWaitStop(k)
    <3>1. Exchange' /\ UNCHANGED num_stops
      BY <1>0, <1>6, <2>3, ExchangeSends
    <3>2. CASE Data
      BY <1>0, <1>6, <1>d, <2>3, <3>1, <3>2, SentAgrees
    <3>3. CASE Stops
      BY <1>0, <1>s, <2>0, <3>1, <3>3 DEF StopsAgree, Accepts, Waits, Cyclical, Row
    <3> QED BY <3>2, <3>3
  <2> QED BY <2>1, <2>2, <2>3
<1>7. CASE UNCHANGED vars
  <2>1. UNCHANGED <<agent, starts, stopped, gtgWmmPS, psSockfd, reading, wmmps_info, state_num, counters, receiver, call,
                    sender, stop_flag, toConsole, listening, con, consoles, inbox>>
    BY <1>7 DEF vars
  <2>2. Exchange' /\ UNCHANGED num_stops
    <3>1. UNCHANGED SendRow
      BY <2>1 DEF SendRow
    <3> QED BY <2>1, <3>1, <1>0 DEF Exchange, InTest, Running, Handling
  <2>3. CASE Data
    <3>1. DataAgrees'
      BY <1>0, <2>1, <2>3 DEF DataAgrees, Underway, OnlySends, Cyclical
    <3> QED BY <3>1, <1>0, <1>d, <2>2, <2>3
  <2>4. CASE Stops
    <3>1. StopsAgree'
      BY <1>0, <2>1, <2>4 DEF StopsAgree, Accepts, Waits, Cyclical, Row
    <3> QED BY <3>1, <1>0, <1>s, <2>2, <2>4
  <2> QED BY <2>3, <2>4
<1> QED BY <1>1, <1>2, <1>3, <1>4, <1>5, <1>6, <1>7 DEF CalmStep

\* After the end of the test only its stops are under way, to a console that accepts.
LEMMA OverAgreesStep ==
  ASSUME TypeInv, Links, Over, OverAgrees, CalmStep, Over' \/ Stopping'
  PROVE  (Over /\ OverAgrees)' \/ Stopping'
<1>0. InTest /\ ~gtgWmmPS /\ psSockfd = 0 /\ NoneBegins
  BY DEF Over
<1>u. ASSUME UNCHANGED <<toConsole, listening, con>> PROVE OverAgrees'
  BY <1>u DEF OverAgrees, OnlySends, Accepts, Waits, Cyclical, Row
<1>1. CASE (Start /\ (starts > 0 => stopped # "none")) \/ Stopped
  BY <1>1, <1>0 DEF Stopped, RecvStopped, Timed, InTest
<1>2. CASE Stop \/ Reset
  BY <1>2, <1>u DEF Stop, RecvStop, Reset, Timed, TGReset
<1>3. CASE ConsoleStarts
  <2>1. ~listening /\ UNCHANGED toConsole
    BY <1>3 DEF ConsoleStarts, ConsoleStart
  <2>2. toConsole' = <<>>
    BY <2>1 DEF Links
  <2> QED BY <2>2 DEF OverAgrees
<1>4. CASE Receiver
  <2>1. UNCHANGED <<listening, con>>
    BY <1>4, ReceiverFrame
  <2>2. UNCHANGED toConsole
    <3>1. CASE AtOnce(GiveUp /\ UNCHANGED console) \/ AtOnce(ReceiveReset /\ UNCHANGED console)
      BY <3>1, <1>0 DEF AtOnce, GiveUp, ReceiveReset, WfaStaResetAll, Send, Sendable
    <3>2. CASE ~AtOnce(GiveUp /\ UNCHANGED console) /\ ~AtOnce(ReceiveReset /\ UNCHANGED console)
      BY <1>4, <3>2 DEF Receiver, AtOnce, Timed, CreateSender, SkipTurn, Block, ReceiverDone, EndTurn, Hear, LookUp,
         WfaRcvStop, WfaRcvProc, WfaRcvNotCare, MovesOn, ReceiveIgnored, StopHeard, ReceiverWakes
    <3> QED BY <3>1, <3>2
  <2> QED BY <2>1, <2>2, <1>u
<1>5. CASE Console
  <2>0. Reads
    BY <1>5, ConsoleFrame
  <2>1. con.known /\ Accepts /\ toConsole \in Seq([type : {"STOP"}, ac : AC, from : Threads])
    BY <2>0 DEF Reads, OverAgrees, OnlySends
  <2>2. Arrived.type = "STOP"
    <3>1. Head(toConsole) \in [type : {"STOP"}, ac : AC, from : Threads]
      BY <2>0, <2>1, HeadTailProperties DEF Reads
    <3> QED BY <3>1 DEF Arrived
  <2>3. con.state # 1 /\ Due
    <3>1. con.test \in TestNames /\ Len(Row) \in Nat
      BY <2>1, RowLength DEF TypeInv, ConsoleHasTest, Row
    <3> QED BY <2>1, <2>2, <3>1 DEF Accepts, Waits, Cyclical, Due
  <2>4. ~listening'
    BY <1>5, <2>1, <2>2, <2>3 DEF Console, AtOnce, RcvHello, Ignore, RcvReset, RcvConf, RcvFrame, RcvVOSndCyclicFrame,
       RcvVOSndCyclicStop, WaitStop, Exit, Accepts, Plain
  <2> QED BY <2>4 DEF OverAgrees
<1>6. ASSUME NEW k \in Threads, Sender(k) PROVE OverAgrees'
  <2>1. UNCHANGED <<con, listening>>
    BY <1>6, SenderFrame
  <2>2. Ends(k) /\ ~Sendable
    BY <1>0 DEF Ends, Sendable
  <2>3. UNCHANGED toConsole
    BY <1>6, <2>2 DEF Sender, AtOnce, Timed, OpenSocket, SenderDone, SendHello, WfaStaSndConfirm, StartEntry, SenderWakes,
       WfaStaSnd, SendFails, WfaStaSndVOCyclic, WfaStaWaitStop, Send
  <2> QED BY <2>1, <2>3, <1>u
<1>7. CASE UNCHANGED vars
  BY <1>7, <1>u DEF vars
<1> QED BY <1>1, <1>2, <1>3, <1>4, <1>5, <1>6, <1>7 DEF CalmStep

\* A test begins with nothing under way.
LEMMA ReadyAgreesStep ==
  ASSUME TypeInv, Links, Ready, CalmStep, Hello'
  PROVE  HelloAgrees'
<1>1. Start
  <2>1. agent = "ready" /\ (starts = 0 \/ stopped # "none") /\ starts \in Nat
    BY DEF Ready, Links
  <2>2. ASSUME UNCHANGED <<agent, starts, stopped, gtgWmmPS>> PROVE FALSE
    BY <2>2 DEF Ready, Hello
  <2>3. ~Receiver
    BY ReceiverFrame DEF Ready
  <2>4. \A k \in Threads : ~Sender(k)
    BY SenderRuns DEF Ready, NoSender
  <2>5. ~Console
    BY ConsoleFrame DEF Ready, Reads
  <2>6. ~Stop /\ ~Stopped /\ ~Reset /\ ~ConsoleStarts /\ ~UNCHANGED vars
    <3>1. ~Stop /\ ~Stopped
      BY <2>1 DEF Stop, RecvStop, Stopped, Timed, RecvStopped, Hello, InTest
    <3>2. ~Reset
      BY <2>1 DEF Reset, Timed, TGReset, Hello
    <3>3. ~ConsoleStarts /\ ~UNCHANGED vars
      BY <2>2 DEF ConsoleStarts, ConsoleStart, vars
    <3> QED BY <3>1, <3>2, <3>3
  <2> QED BY <2>3, <2>4, <2>5, <2>6 DEF CalmStep
<1>2. UNCHANGED <<sender, listening, con, toConsole>>
  BY <1>1 DEF Start, RecvStart
<1> QED BY <1>2 DEF HelloAgrees, Ready

\* What holds in every state, and that the two programs are in step.
StepInv == Inv /\ StepsAgree

\* They are in the initial state.
LEMMA StepsInit == Init => StepInv
<1> SUFFICES ASSUME Init PROVE StepInv
  OBVIOUS
<1>1. Ready
  BY DEF Init, StationInit, ConsoleInit, Ready, NoSender, Running, At
<1> QED BY <1>1, StageInit DEF StepInv, StepsAgree

\* Every step of a calm run keeps them in step.
LEMMA StepsStep == StepInv /\ [Next]_vars => StepInv'
<1> SUFFICES ASSUME StepInv, [Next]_vars PROVE StepInv'
  OBVIOUS
<1>1. TypeInv /\ Links /\ Inv'
  BY StageStep DEF StepInv, Inv
<1>2. ASSUME calm'
      PROVE  \/ Ready' \/ Stopping'
             \/ (Hello /\ HelloAgrees)' \/ (Data /\ DataAgrees)' \/ (Stops /\ StopsAgree)' \/ (Over /\ OverAgrees)'
  <2>1. calm /\ CalmStep
    BY <1>1, <1>2, CalmSteps DEF Links
  <2>2. /\ ~deaf /\ AtMostOne
        /\ \/ Ready \/ Stopping
           \/ Hello /\ HelloAgrees
           \/ Data /\ DataAgrees
           \/ Stops /\ StopsAgree
           \/ Over /\ OverAgrees
    BY <2>1 DEF StepInv, Inv, StageInv, StepsAgree
  <2>3. CASE Ready
    BY <1>1, <2>1, <2>2, <2>3, ReadyStep, ReadyAgreesStep
  <2>4. CASE Stopping
    BY <1>1, <2>1, <2>2, <2>4, StoppingStep
  <2>5. CASE Hello /\ HelloAgrees
    BY <1>1, <2>1, <2>2, <2>5, HelloStep, HelloAgreesStep
  <2>6. CASE (Data /\ DataAgrees) \/ (Stops /\ StopsAgree)
    BY <1>1, <2>1, <2>2, <2>6, ExchangeStep, ExchangeAgreesStep
  <2>7. CASE Over /\ OverAgrees
    BY <1>1, <2>1, <2>2, <2>7, OverStep, OverAgreesStep
  <2> QED BY <2>2, <2>3, <2>4, <2>5, <2>6, <2>7
<1>3. StepsAgree'
  BY <1>2 DEF StepsAgree
<1> QED BY <1>1, <1>3 DEF StepInv

\* Where the two programs are in step, what the console reads is due.
LEMMA StepsAreDue == StepInv => FramesDue
<1> SUFFICES ASSUME StepInv, calm, Reads, con.known, Arrived.type # "HELLO"
             PROVE  Due /\ (Waits => Arrived.type = "STOP")
  BY DEF FramesDue
<1>1. /\ TypeInv /\ Links
      /\ \/ Ready \/ Stopping
         \/ Hello /\ HelloAgrees
         \/ Data /\ DataAgrees
         \/ Stops /\ StopsAgree
         \/ Over /\ OverAgrees
  BY DEF StepInv, Inv, StepsAgree
<1>2. con.test \in TestNames /\ Len(Row) \in Nat /\ con.state \in 1 .. Len(Row) + 2
  BY <1>1, RowLength DEF TypeInv, TypeOK, ConsoleHasTest, Row
<1>3. ~Ready /\ ~Stopping
  BY DEF Ready, Stopping, Reads
<1>4. ASSUME NEW type, NEW fds, OnlySends({type}, fds) PROVE Arrived.type = type
  <2>1. Head(toConsole) \in [type : {type}, ac : AC, from : fds]
    BY <1>4, HeadTailProperties DEF Reads, OnlySends
  <2> QED BY <2>1 DEF Arrived
<1>5. CASE Hello
  BY <1>4, <1>5 DEF Hello
<1>6. CASE (Stops /\ StopsAgree) \/ (Over /\ OverAgrees)
  <2>1. Accepts /\ OnlySends({"STOP"}, Threads)
    BY <1>6 DEF Stops, StopsAgree, OverAgrees, Reads
  <2>2. Arrived.type = "STOP"
    BY <2>1, <1>4
  <2> QED BY <1>2, <2>1, <2>2 DEF Accepts, Waits, Cyclical, Due
<1>7. CASE Data /\ DataAgrees
  <2>1. Underway
    <3>1. ~OnlySends({"HELLO"}, Threads)
      BY <1>4
    <3> QED BY <1>7, <3>1 DEF DataAgrees
  <2>2. CASE /\ Cyclical
             /\ toConsole \in Seq([type : {"DEFAULT"}, ac : {"VO"}, from : Threads])
    <3>1. Arrived \in [type : {"DEFAULT"}, ac : {"VO"}, from : Threads]
      BY <2>2, HeadTailProperties DEF Reads, Arrived
    <3>2. ~Waits
      BY <2>2, OtherRows DEF Cyclical, Waits, Row
    <3> QED BY <2>2, <3>1, <3>2 DEF Due, Cyclical
  <2>3. CASE /\ ~Cyclical
             /\ \A j \in 1 .. Len(toConsole) : Taken(con.test, con.state + j - 1, toConsole[j])
    <3>1. toConsole \in Seq([type : {"HELLO", "CONFIRM", "DEFAULT"}, ac : AC, from : Threads])
      BY <1>7 DEF Data, OnlySends
    <3>2. Arrived = toConsole[1] /\ Len(toConsole) \in Nat \ {0}
      BY <3>1 DEF Reads, Arrived
    <3>3. Taken(con.test, con.state, Arrived)
      <4>1. Taken(con.test, con.state + 1 - 1, toConsole[1]) /\ con.state + 1 - 1 = con.state
        BY <1>2, <2>3, <3>2
      <4> QED BY <3>2, <4>1
    <3> QED BY <1>2, <2>3, <3>3 DEF Taken, Due, Waits, Row
  <2> QED BY <2>1, <2>2, <2>3 DEF Underway
<1> QED BY <1>1, <1>3, <1>5, <1>6, <1>7

\* In a calm run the station sends a console that knows it, but for hellos, nothing that is not
\* due, whatever the tests, their number and how long L.1 sends.
THEOREM FramesAreDue == Spec => []FramesDue
BY StepsInit, StepsStep, StepsAreDue, PTL DEF Spec

=============================================================================

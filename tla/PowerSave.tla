------------------------------ MODULE PowerSave ------------------------------
(***************************************************************************)
(* The power-save station and the console together, over a network that    *)
(* keeps the order and may lose messages.                                  *)
(*                                                                         *)
(* A run is calm while it is the one the sleeps of the two programs are    *)
(* for: nothing is lost, what is under way arrives before a sleep ends,    *)
(* and the commands come when the test manager sends them, that is         *)
(* RecvStop when the console of the test is done and the rest after        *)
(* RecvStop.  Any other step is a disturbance; they may come anywhere, up  *)
(* to a bound.                                                             *)
(***************************************************************************)
EXTENDS PowerSaveConsole

CONSTANTS
  Tests,       \* for each console that may be started, the tests it may be started for
  MaxDisturbed \* disturbances of a run

ASSUME PowerSaveAssumption ==
  Tests \in Seq(SUBSET TestNames) /\ MaxDisturbed \in Nat

VARIABLES
  disturbed,  \* disturbances so far
  consoles,   \* consoles so far
  torn,       \* the last command came while the receiving thread handled a message
  stopped     \* how the last RecvStop found the senders: "quiet", "busy", or "none" since RecvStart

history == <<disturbed, consoles, torn, stopped>>
vars == <<station, console, inbox, toConsole, history>>

Init ==
  /\ StationInit /\ ConsoleInit
  /\ disturbed = 0 /\ consoles = 0 /\ torn = FALSE /\ stopped = "none"

\* Something happens without a sleep in between.
Busy ==
  \/ Reads
  \/ receiver = "woken"
  \/ receiver = "runs" /\ (~gtgWmmPS \/ resetsnd \/ psSockfd # 0)
  \/ Heard
  \/ receiver \in {"heard", "calls", "moves", "ends"}
  \/ receiver = "stops" /\ stop_flag
  \/ \E k \in Threads : \/ sender[k].at = "begins"
                        \/ sender[k].at = "turns" /\ (Ends(k) \/ wmmps_info.state > 0 \/ num_hello <= MaxHello)
Asleep == receiver = "sleeps" \/ \E k \in Threads : sender[k].at \in {"sleeps", "acts"}

calm == disturbed = 0
InTime(due) ==
  /\ disturbed' = IF due THEN disturbed ELSE disturbed + 1
  /\ disturbed' <= MaxDisturbed

\* A step at once, and one that is timed: a disturbance unless it is due.
AtOnce(A) == A /\ UNCHANGED history
Timed(A, due) == A /\ InTime(due) /\ UNCHANGED <<consoles, torn, stopped>>

\* A command writes the globals that the handling of a message is reading and writing.
Tears == torn' = (receiver \in {"heard", "calls", "moves"})

Start ==
  /\ RecvStart
  /\ InTime(~Busy /\ (starts > 0 => stopped # "none"))
  /\ stopped' = "none"
  /\ Tears
  /\ UNCHANGED <<console, consoles>>

Stop ==
  /\ RecvStop
  /\ InTime(~Busy /\ con.ended # "none" /\ consoles = starts /\ starts > 0)
  /\ stopped' = IF NoSender /\ receiver # "woken" THEN "quiet" ELSE "busy"
  /\ Tears
  /\ UNCHANGED <<console, consoles>>

Stopped == Timed(RecvStopped /\ UNCHANGED console, ~Busy /\ ~Asleep)

Reset ==
  /\ TGReset
  /\ InTime(~gtgWmmPS)
  /\ Tears
  /\ UNCHANGED <<console, consoles, stopped>>

Lose ==
  /\ \/ /\ toConsole # <<>>
        /\ toConsole' = Tail(toConsole) /\ UNCHANGED inbox
     \/ \E k \in Threads :
          /\ inbox[k] # <<>>
          /\ inbox' = [inbox EXCEPT ![k] = Tail(@)] /\ UNCHANGED toConsole
  /\ InTime(FALSE)
  /\ UNCHANGED <<station, console, consoles, torn, stopped>>

\* In time: before the hellos have run out, and when the last test is over.
ConsoleStarts ==
  /\ consoles < Len(Tests)
  /\ consoles' = consoles + 1
  /\ \E t \in Tests[consoles + 1] : ConsoleStart(t)
  /\ InTime(num_hello <= MaxHello /\ ~Busy /\ agent = "ready"
                   /\ wmmps_info.state = 0 /\ (gtgWmmPS \/ (NoSender /\ receiver = "waits")))
  /\ UNCHANGED <<torn, stopped>>
ConsoleTimesOut == Timed(TimeOut, FALSE)

Receiver ==
  \/ AtOnce(CreateSender /\ UNCHANGED console)
  \/ AtOnce(GiveUp /\ UNCHANGED console)
  \/ AtOnce(EndTurn /\ UNCHANGED console)
  \/ AtOnce(SkipTurn /\ UNCHANGED console)
  \/ AtOnce(Block /\ UNCHANGED console)
  \/ AtOnce(ReceiverDone /\ UNCHANGED console)
  \/ AtOnce(Hear /\ UNCHANGED console)
  \/ AtOnce(LookUp /\ UNCHANGED console)
  \/ AtOnce(WfaRcvStop /\ UNCHANGED console)
  \/ AtOnce(WfaRcvProc /\ UNCHANGED console)
  \/ AtOnce(WfaRcvNotCare /\ UNCHANGED console)
  \/ AtOnce(MovesOn /\ UNCHANGED console)
  \/ AtOnce(ReceiveReset /\ UNCHANGED console)
  \/ AtOnce(ReceiveIgnored /\ UNCHANGED console)
  \/ AtOnce(StopHeard /\ UNCHANGED console)
  \/ Timed(ReceiverWakes /\ UNCHANGED console, ~Busy)

Sender(k) ==
  \/ AtOnce(OpenSocket(k) /\ UNCHANGED console)
  \/ AtOnce(SenderDone(k) /\ UNCHANGED console)
  \/ AtOnce(SendHello(k) /\ UNCHANGED console)
  \/ AtOnce(WfaStaSndConfirm(k) /\ UNCHANGED console)
  \/ AtOnce(StartEntry(k) /\ UNCHANGED console)
  \/ Timed(SenderWakes(k) /\ UNCHANGED console, ~Busy)
  \/ Timed(WfaStaSnd(k) /\ UNCHANGED console, ~Busy)
  \/ Timed(SendFails(k) /\ UNCHANGED console, FALSE)
  \/ Timed(WfaStaSndVOCyclic(k) /\ UNCHANGED console, ~Busy)
  \/ Timed(WfaStaWaitStop(k) /\ UNCHANGED console, ~Busy)

Console ==
  \/ AtOnce(RcvHello)
  \/ AtOnce(Ignore)
  \/ AtOnce(RcvReset)
  \/ AtOnce(RcvConf)
  \/ AtOnce(RcvFrame)
  \/ AtOnce(RcvVOSndCyclicFrame)
  \/ AtOnce(RcvVOSndCyclicStop)
  \/ AtOnce(WaitStop)

Next ==
  \/ Start \/ Stop \/ Stopped \/ Reset \/ Lose \/ ConsoleStarts \/ ConsoleTimesOut
  \/ Receiver \/ Console
  \/ \E k \in Threads : Sender(k)

\* Threads and processes that can go on do; commands, losses and time-outs need not come.
Spec ==
  /\ Init /\ [][Next]_vars
  /\ WF_vars(Receiver) /\ WF_vars(Console) /\ WF_vars(Stopped)
  /\ \A k \in Threads : WF_vars(Sender(k))

----------------------------------------------------------------------------
(* Properties *)

\* The globals of wfa_wmmps.c keep to their ranges, and a socket the thread is blocked in
\* or that has the port is one some sender opened.
TypeOK ==
  /\ psSockfd \in 0 .. MaxStarts /\ reading \in 0 .. MaxStarts /\ bound \subseteq Kept(psSockfd, reading)
  /\ wmmps_info \in [test : TestNames \cup {"none"}, state : 0 .. 5, stream : BOOLEAN]
  /\ num_hello \in 0 .. MaxHello + 1 /\ num_stops \in Nat /\ num_retry \in Nat
  /\ receiver \in {"waits", "woken", "sleeps", "runs", "receives", "heard", "calls", "moves", "stops", "ends"}
  /\ (receiver = "receives") <=> (reading # 0)
  /\ con.known => con.state \in 1 .. Len(Row) + 2

\* The receiving thread leaves the row of its test, to a position without a handler, only if a
\* command came while it handled a message, and then only until the next command: it reads the
\* test (wfa_wmmps.c:974), looks up the function (1006-1007) and stores the position (525, 714)
\* without a lock against RecvStart, RecvStop and the reset (wfa_tg.c:608).
RowsKept == ~torn /\ wmmps_info.state > 0 => Handler # "none"

\* A calm test ends: the console passes it, and the two threads are done with it
\* (wfa_wmmps.c:669-671, wfa_thr.c:545-549).  The tables of both programs fit together.
TestEnds ==
  (calm /\ gtgWmmPS /\ listening)
     ~> (~calm \/ (con.ended = "passed" /\ NoSender /\ receiver = "waits" /\ psSockfd = 0))

\* In a calm run nothing comes to a console that is not due where it stands, and at its end
\* only the stop does: the tables of the two programs agree on every frame of every test.
FramesDue ==
  calm /\ Reads /\ con.known /\ Arrived.type # "HELLO" => Due /\ (Waits => Arrived.type = "STOP")

\* In a calm run every RecvStart finds the receiving thread at its wait, whose condition has
\* no predicate (wfa_wmmps.c:937): the start of a test is not lost after the last one.
StartHeard == calm => ~deaf

\* In a calm run one thread at a time sends for the station.
OneSender == calm => Cardinality({k \in Threads : Running(k)}) <= 1

\* A sender that has heard the name of the test quits, whatever is lost and whether or not the
\* console is there (wfa_thr.c:548), unless another RecvStart takes its globals over.
SenderQuits ==
  \A k \in Threads, n \in 1 .. MaxStarts :
     (sender[k].at = "turns" /\ wmmps_info.state > 0 /\ starts = n)
        ~> (sender[k].at = "end" \/ starts > n)

\* A RecvStop that found no sender has turned power save off for good, until the next start.
PowerStaysOff == stopped = "quiet" => power = "off"

=============================================================================

--------------------------- MODULE PowerSaveConsole ---------------------------
(***************************************************************************)
(* The console, wfa_con: a process that runs one test with the stations    *)
(* that say hello to it and exits after the stops.  One station is         *)
(* modelled.                                                               *)
(***************************************************************************)
EXTENDS PowerSaveStation

VARIABLES
  con  \* the test, the position in its row, where the station's hello came from, how it ended

console == <<con, listening>>
ConsoleInit ==
  /\ listening = FALSE
  /\ con = [test |-> "none", known |-> FALSE, state |-> 0, from |-> 0, ended |-> "none"]

Exit(how) == listening' = FALSE /\ con' = [con EXCEPT !.ended = how]
Stays == UNCHANGED listening

\* Messages to the socket of the hello, and a broadcast to the one that has the port.
Deliver(unicast, cast) ==
  inbox' = [k \in Threads |->
              IF k \notin Kept(psSockfd, reading) THEN inbox[k]
              ELSE inbox[k] \o (IF k = con'.from THEN unicast.first ELSE <<>>)
                            \o (IF cast /\ k \in bound THEN <<"DEFAULT">> ELSE <<>>)
                            \o (IF k = con'.from THEN unicast.last ELSE <<>>)]
Reply(messages) == Deliver([first |-> messages, last |-> <<>>], FALSE)

\* The test manager starts a console for a test.
ConsoleStart(test) ==
  /\ ~listening
  /\ listening' = TRUE
  /\ con' = [test |-> test, known |-> FALSE, state |-> 0, from |-> 0, ended |-> "none"]
  /\ UNCHANGED <<station, inbox, toConsole>>

\* Its timer thread ends it when nothing comes for too long.
TimeOut ==
  /\ listening /\ toConsole = <<>>
  /\ Exit("timeout")
  /\ UNCHANGED <<station, inbox, toConsole>>

\* What is left for a console that has exited is lost.
Arrived == Head(toConsole)
Reads == listening /\ toConsole # <<>>
Read == toConsole' = IF listening' THEN Tail(toConsole) ELSE <<>>
Row == consoleProcStatetbl[con.test]

\* Mutant of RcvHello: a hello of a station that is known is answered, too.
RcvHelloAgain ==
  /\ Reads /\ Arrived.type = "HELLO"
  /\ con' = [con EXCEPT !.known = TRUE, !.state = 1, !.from = IF con.known THEN @ ELSE Arrived.from]
  /\ Reply(<<con.test>>)
  /\ Stays /\ Read
  /\ UNCHANGED station

\* The first hello makes the station known and is answered with the name of the test;
\* another one is not answered.
RcvHello ==
  /\ Reads /\ Arrived.type = "HELLO"
  /\ IF con.known
     THEN UNCHANGED <<con, inbox>>
     ELSE /\ con' = [con EXCEPT !.known = TRUE, !.state = 1, !.from = Arrived.from]
          /\ Reply(<<con.test>>)
  /\ Stays /\ Read
  /\ UNCHANGED station

\* A station that is not known, or a frame that is not due, is not answered.
Waits == con.state = Len(Row) + 2
Cyclical == con.test = "L_1" /\ con.state = 2
Due ==
  CASE con.state = 1 -> Arrived.type = "CONFIRM"
    [] Waits -> TRUE
    [] Cyclical -> Arrived.type = "STOP" \/ (Arrived.type = "DEFAULT" /\ Arrived.ac \in {"VO", "BE"})
    [] OTHER -> Arrived.type = "DEFAULT" /\ Arrived.ac = Row[con.state - 1].takes
Plain == Reads /\ Arrived.type \notin {"HELLO", "RESET", "RESET_STOP"}

Ignore ==
  /\ Reads /\ Arrived.type # "HELLO"
  /\ con.known => Plain /\ ~Due
  /\ UNCHANGED <<con, inbox>>
  /\ Stays /\ Read
  /\ UNCHANGED station

\* A reset of the station is answered, and ends the console.
RcvReset ==
  /\ Reads /\ Arrived.type \in {"RESET", "RESET_STOP"} /\ con.known
  /\ Exit("reset")
  /\ Reply(IF Arrived.type = "RESET" THEN <<"RESET_RESP">> ELSE <<>>)
  /\ Read
  /\ UNCHANGED station

\* The confirm of the test's name; test B.Z answers it.
RcvConf ==
  /\ Plain /\ con.known /\ con.state = 1 /\ Due
  /\ con' = [con EXCEPT !.state = 2]
  /\ Reply(IF con.test = "B_Z" THEN <<"DEFAULT">> ELSE <<>>)
  /\ Stays /\ Read
  /\ UNCHANGED station

\* A frame that is due is answered as the row says.
RcvFrame ==
  /\ Plain /\ con.known /\ con.state > 1 /\ ~Waits /\ ~Cyclical /\ Due
  /\ con' = [con EXCEPT !.state = @ + 1]
  /\ LET entry == Row[con.state - 1]
     IN  Deliver([first |-> [j \in 1 .. Len(entry.echo) |-> "DEFAULT"],
                  last |-> IF entry.stop THEN <<"STOP">> ELSE <<>>], entry.cast)
  /\ Stays /\ Read
  /\ UNCHANGED station

\* Test L.1 echoes frames until the station's stop, which it answers and exits.
RcvVOSndCyclicFrame ==
  /\ Plain /\ con.known /\ Cyclical /\ Due /\ Arrived.type = "DEFAULT"
  /\ UNCHANGED con
  /\ Reply(<<"DEFAULT">>)
  /\ Stays /\ Read
  /\ UNCHANGED station

RcvVOSndCyclicStop ==
  /\ Plain /\ con.known /\ Cyclical /\ Arrived.type = "STOP"
  /\ Exit("passed")
  /\ Reply(<<"STOP">>)
  /\ Read
  /\ UNCHANGED station

\* At the end every message is answered with a stop, and the station's stop ends the console.
WaitStop ==
  /\ Plain /\ con.known /\ Waits
  /\ IF Arrived.type = "STOP" THEN Exit("passed") ELSE Stays /\ UNCHANGED con
  /\ Reply(<<"STOP">>)
  /\ Read
  /\ UNCHANGED station

=============================================================================

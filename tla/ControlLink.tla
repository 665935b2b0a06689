---------------------------- MODULE ControlLink ----------------------------
(***************************************************************************)
(* The way of a command and its answer: the test manager's connection to   *)
(* the control agent wfa_ca (ca/wfa_ca.c), the agent's connection to the   *)
(* device program wfa_dut (dut/wfa_dut.c), the TLVs on it (lib/wfa_tlv.c), *)
(* the answers made of them (lib/wfa_ca_resp.c) and the service that       *)
(* starts both programs again when they end (WTGService/WTG.c).            *)
(*                                                                         *)
(* Responses travel as words of four bytes, because both programs count    *)
(* them: a word is a pair of 16-bit halves, so that a TLV header and a     *)
(* status or an id are told apart only by where they stand.  A             *)
(* dutCmdResponse_t is scaled to EntryWords.  Commands travel whole: each  *)
(* is one send() and one recv().                                           *)
(***************************************************************************)
EXTENDS Integers, Sequences

CONSTANTS
  Asked,       \* the kinds of command this test manager sends
  MaxCrashes,  \* bound: processes that end by themselves
  Deadline     \* TRUE: the test manager gives up a command nobody works on

\* The commands, by what the programs make of them: "sendBad" and "recvStartBad"
\* name a stream that is unknown, "recvStopBad" one that is unknown and then one that
\* is not, "typo" is no command of the agent's table.
Kinds == {"config", "recvStart", "recvStartBad", "send", "sendBad", "recvStop",
          "recvStopBad", "typo"}

ASSUME LinkAssumption == Asked \subseteq Kinds /\ MaxCrashes \in Nat /\ Deadline \in BOOLEAN

VARIABLES
  awaiting, last,        \* the test manager: the command it waits for, what became of the last
  tmUp, knock,           \* it has a connection; the agent has not accepted it yet
  caIn,                  \* the command on that connection, unread
  caPc, gCaSockfd, gSock, caCmdBuf,  \* the agent: its place, its sockets, what it keeps
  dutKnock, dutIn, toCa, \* the link: an unaccepted connection, commands and responses on their way
  dutPc, gxcSockfd, owed,            \* the device: its place, its socket, what threads owe
  crashes

tmVars   == <<awaiting, last, tmUp>>
caVars   == <<caPc, gCaSockfd, gSock, caCmdBuf>>
dutVars  == <<dutPc, gxcSockfd, owed>>
linkVars == <<dutKnock, dutIn, toCa>>
vars == <<tmVars, knock, caIn, caVars, linkVars, dutVars, crashes>>

Init ==
  /\ awaiting = "none" /\ last = "none" /\ tmUp = FALSE /\ knock = FALSE
  /\ caIn = "none"
  /\ caPc = "down" /\ gCaSockfd = "none" /\ gSock = "none" /\ caCmdBuf = <<>>
  /\ dutKnock = "none" /\ dutIn = <<>> /\ toCa = <<>>
  /\ dutPc = "up" /\ gxcSockfd = "none" /\ owed = 0
  /\ crashes = 0

-----------------------------------------------------------------------------
(* Sockets: a peer that closes leaves a socket on which the first send is  *)
(* lost and resets it, and the second one raises SIGPIPE, which neither    *)
(* program handles.                                                        *)

Sockets == {"none", "open", "closed", "reset"}
Closed(s) == IF s = "open" THEN "closed" ELSE s

\* Mutant of Kills: SIGPIPE is ignored.
NeverKills(s) == FALSE

Kills(s) == s = "reset"
AfterSend(s) == IF s = "closed" THEN "reset" ELSE s

-----------------------------------------------------------------------------
(* Responses as words. *)

COMPLETE == 4
ERROR    == 3
INVALID  == 2
CONFIG_RESP     == 4
SEND_RESP       == 5
RECV_START_RESP == 6
RECV_STOP_RESP  == 7

EntryWords == 2
Zero == <<0, 0>>
Zeros(n) == [i \in 1 .. n |-> Zero]
TLV(tag, value) == <<<<tag, Len(value)>>>> \o value
Entry(id) == << <<COMPLETE, 0>>, <<id, 0>> >>
Status(s) == << <<s, 0>> >>

\* The responses a handler may leave in respBuf, <<>> for a length of 0.  RecvStop
\* counts the unknown stream into the length it sends but not into the TLV's: the
\* one entry in the TLV is the unknown stream's, zero as the buffer was cleared, the
\* known one's is cut off, and what follows the TLV are the zeros of respBuf.
Responses(c) ==
  CASE c = "config"       -> {TLV(CONFIG_RESP, Entry(1))}
    [] c = "recvStart"    -> {TLV(RECV_START_RESP, Status(COMPLETE))}
    [] c = "recvStartBad" -> {<<>>}
    [] c = "send"         -> {<<>>}
    [] c = "sendBad"      -> {TLV(SEND_RESP, Status(INVALID))}
    [] c = "recvStop"     -> {TLV(RECV_STOP_RESP, Entry(1))}
    [] c = "recvStopBad"  -> {TLV(RECV_STOP_RESP, <<Zero, Zero>>) \o Zeros(EntryWords)}

\* What the thread that sends last reports of a stream when it is done.
SendReport == TLV(SEND_RESP, Entry(1))

-----------------------------------------------------------------------------
(* Responses as the agent takes them apart. *)

\* Mutant of Complete: the header is not counted as received.
CompleteStrict(buf) == Head(buf)[2] + 1 < Len(buf)

\* The buffer starts with a header and all that it announces.
Complete(buf) == Len(buf) > 1 /\ Head(buf)[2] + 1 <= Len(buf)

\* Mutant of Rest: only the value is removed, the header stays.
RestWithHeader(buf) == SubSeq(buf, Head(buf)[2] + 1, Len(buf))

Rest(buf) == SubSeq(buf, Head(buf)[2] + 2, Len(buf))

\* Mutant of HasHandler: the first row of the table, caCmdNotDefinedYet, is called too.
EveryTag(tag) == TRUE

HasHandler(tag) == tag # 0

Generic(status) ==
  CASE status = COMPLETE -> "COMPLETE" [] status = ERROR -> "ERROR" [] OTHER -> "INVALID"

\* A response of as many entries as fit in it: one that is not COMPLETE makes an
\* ERROR, none makes a COMPLETE.
OfEntries(buf) ==
  IF \E i \in 1 .. Head(buf)[2] \div EntryWords :
       buf[2 + (i - 1) * EntryWords][1] # COMPLETE
  THEN "ERROR" ELSE "COMPLETE"

\* What the handler of the first response says to the test manager.
AnswerOf(buf) ==
  LET tag == Head(buf)[1]
  IN CASE tag = CONFIG_RESP     -> IF buf[2][1] = COMPLETE THEN "COMPLETE" ELSE "INVALID"
       [] tag = RECV_START_RESP -> Generic(buf[2][1])
       [] tag \in {SEND_RESP, RECV_STOP_RESP} -> OfEntries(buf)
       [] OTHER -> "ERROR"

-----------------------------------------------------------------------------
(* The test manager, which is not part of the repository: it sends a       *)
(* command and waits for its answer.  Its deadline, where it has one, is   *)
(* longer than any command takes: it ends the wait for an answer that      *)
(* cannot come any more.  Bound: it has at most one connection that the    *)
(* agent did not accept.                                                   *)

\* Nothing of a command is left on its way.
Quiet == /\ caPc = "select" /\ caIn = "none" /\ ~knock
         /\ dutKnock = "none" /\ dutIn = <<>> /\ toCa = <<>> /\ owed = 0

\* What the agent has not read of the last connection it will never read.
Connect ==
  /\ ~tmUp /\ awaiting = "none" /\ caPc \notin {"down", "dying"} /\ ~knock
  /\ tmUp' = TRUE /\ knock' = TRUE /\ caIn' = "none"
  /\ UNCHANGED <<awaiting, last, caVars, linkVars, dutVars, crashes>>

\* Of two commands in one recv() the first is found: the rest is text of its last word.
Ask(c) ==
  /\ tmUp /\ awaiting = "none"
  /\ awaiting' = c /\ last' = "none" /\ caIn' = IF caIn = "none" THEN c ELSE caIn
  /\ UNCHANGED <<tmUp, knock, caVars, linkVars, dutVars, crashes>>

Hangup ==
  /\ tmUp' = FALSE
  /\ gCaSockfd' = Closed(gCaSockfd)
  /\ UNCHANGED <<knock, caIn, caPc, gSock, caCmdBuf, linkVars, dutVars, crashes>>

\* A test session ends.
Disconnect == tmUp /\ awaiting = "none" /\ ~knock /\ Hangup /\ UNCHANGED <<awaiting, last>>

GiveUp ==
  /\ awaiting # "none"
  /\ ~tmUp \/ (Deadline /\ Quiet)
  /\ awaiting' = "none" /\ last' = "gaveUp"
  /\ Hangup

\* What arrives on its connection is the answer to what it awaits.
Hears(answer) ==
  IF awaiting = "none"
  THEN last' = "stray" /\ UNCHANGED awaiting
  ELSE last' = answer /\ awaiting' = "none"

-----------------------------------------------------------------------------
(* The control agent. *)

\* The main loop looks for a connection before it looks at anything else.
AtSelect == caPc = "select" /\ ~knock

CaAccept ==
  /\ caPc = "select" /\ knock
  /\ knock' = FALSE /\ gCaSockfd' = "open"
  /\ UNCHANGED <<tmVars, caIn, caPc, gSock, caCmdBuf, linkVars, dutVars, crashes>>

CaEof ==
  /\ AtSelect
  /\ gCaSockfd = "reset" \/ (gCaSockfd = "closed" /\ caIn = "none")
  /\ gCaSockfd' = "none" /\ caIn' = "none"
  /\ UNCHANGED <<tmVars, knock, caPc, gSock, caCmdBuf, linkVars, dutVars, crashes>>

\* A command is read, and told to be running, even if who sent it is gone.
CaRead ==
  /\ AtSelect /\ gCaSockfd \in {"open", "closed"}
  /\ gCaSockfd' = AfterSend(gCaSockfd)
  /\ caIn' = "none"

\* One that is in the table goes to the device, over the connection there is.
CaForward ==
  /\ CaRead /\ caIn \notin {"none", "typo"}
  /\ dutIn' = IF gSock = "open" THEN Append(dutIn, caIn) ELSE dutIn
  /\ gSock' = AfterSend(gSock)
  /\ caPc' = IF Kills(gSock) THEN "dying" ELSE "select"
  /\ UNCHANGED <<tmVars, knock, caCmdBuf, dutKnock, toCa, dutVars, crashes>>

CaReject ==
  /\ CaRead /\ caIn = "typo"
  /\ caPc' = "refuse"
  /\ UNCHANGED <<tmVars, knock, gSock, caCmdBuf, linkVars, dutVars, crashes>>

\* A line to the test manager, after which the agent is at next.
CaSays(answer, next) ==
  /\ IF gCaSockfd = "open" THEN Hears(answer) ELSE UNCHANGED <<awaiting, last>>
  /\ gCaSockfd' = AfterSend(gCaSockfd)
  /\ caPc' = IF Kills(gCaSockfd) THEN "dying" ELSE next

\* One second later.
CaRefuse ==
  /\ caPc = "refuse"
  /\ CaSays("INVALID", "select")
  /\ UNCHANGED <<tmUp, knock, caIn, gSock, caCmdBuf, linkVars, dutVars, crashes>>

\* Everything the device sent, behind what was kept, which is zeroed first.  The
\* device's socket is only looked at while there is a test manager's: the bound
\* given to select() leaves out the last socket unless it is that one.
CaRecv ==
  /\ AtSelect /\ gCaSockfd # "none" /\ toCa # <<>>
  /\ caCmdBuf' = Zeros(Len(caCmdBuf)) \o toCa /\ toCa' = <<>>
  /\ caPc' = "parse"
  /\ UNCHANGED <<tmVars, knock, caIn, gCaSockfd, gSock, dutKnock, dutIn, dutVars, crashes>>

CaRecvEof ==
  /\ AtSelect /\ gCaSockfd # "none" /\ toCa = <<>> /\ gSock \in {"closed", "reset"}
  /\ caCmdBuf # <<>> /\ caCmdBuf' = <<>>
  /\ UNCHANGED <<tmVars, knock, caIn, caPc, gCaSockfd, gSock, linkVars, dutVars, crashes>>

\* One turn of the loop over the responses received.
CaParse ==
  /\ caPc = "parse"
  /\ IF ~Complete(caCmdBuf)
     THEN caPc' = "select" /\ UNCHANGED <<caCmdBuf, awaiting, last, gCaSockfd>>
     ELSE /\ caCmdBuf' = Rest(caCmdBuf)
          /\ IF HasHandler(Head(caCmdBuf)[1])
             THEN CaSays(AnswerOf(caCmdBuf), "parse")
             ELSE UNCHANGED <<awaiting, last, gCaSockfd, caPc>>
  /\ UNCHANGED <<tmUp, knock, caIn, gSock, linkVars, dutVars, crashes>>

\* The process ends, and its sockets with it.
CaDown ==
  /\ caPc = "dying" /\ caPc' = "down"
  /\ tmUp' = FALSE /\ knock' = FALSE /\ caIn' = "none" /\ gCaSockfd' = "none"
  /\ gSock' = "none" /\ caCmdBuf' = <<>> /\ toCa' = <<>>
  /\ gxcSockfd' = Closed(gxcSockfd) /\ dutKnock' = Closed(dutKnock)
  /\ UNCHANGED <<awaiting, last, dutIn, dutPc, owed, crashes>>

\* The service starts it again ten seconds later, until it finds the device; by then
\* the device took notice of the end of the last connection.
CaStart ==
  /\ caPc = "down" /\ dutPc = "up" /\ dutKnock = "none" /\ dutIn = <<>>
  /\ caPc' = "select" /\ gSock' = "open" /\ dutKnock' = "open"
  /\ UNCHANGED <<tmVars, knock, caIn, gCaSockfd, caCmdBuf, dutIn, toCa, dutVars, crashes>>

-----------------------------------------------------------------------------
(* The device. *)

\* The new connection takes the place of the last one, which is not closed.
DutAccept ==
  /\ dutPc = "up" /\ dutKnock # "none"
  /\ gxcSockfd' = dutKnock /\ dutKnock' = "none"
  /\ UNCHANGED <<tmVars, knock, caIn, caVars, dutIn, toCa, dutPc, owed, crashes>>

DutEof ==
  /\ dutPc = "up" /\ dutKnock = "none" /\ dutIn = <<>> /\ gxcSockfd \in {"closed", "reset"}
  /\ gxcSockfd' = "none"
  /\ UNCHANGED <<tmVars, knock, caIn, caVars, linkVars, dutPc, owed, crashes>>

\* wfaCtrlSend: nothing is sent of a length of 0.
DutSays(words) ==
  IF words = <<>>
  THEN UNCHANGED <<toCa, gxcSockfd, dutPc>>
  ELSE /\ toCa' = IF gxcSockfd = "open" THEN toCa \o words ELSE toCa
       /\ gxcSockfd' = AfterSend(gxcSockfd)
       /\ dutPc' = IF Kills(gxcSockfd) THEN "dying" ELSE dutPc

\* One recv() is one command, whatever else it brought.
DutHandle ==
  /\ dutPc = "up" /\ dutKnock = "none" /\ gxcSockfd # "none" /\ dutIn # <<>>
  /\ dutIn' = <<>>
  /\ owed' = IF Head(dutIn) = "send" THEN owed + 1 ELSE owed
  /\ \E words \in Responses(Head(dutIn)) : DutSays(words)
  /\ UNCHANGED <<tmVars, knock, caIn, caVars, dutKnock, crashes>>

\* The response of a thread, to whoever is connected by then.
DutDeferred ==
  /\ dutPc = "up" /\ owed > 0
  /\ owed' = owed - 1
  /\ DutSays(SendReport)
  /\ UNCHANGED <<tmVars, knock, caIn, caVars, dutKnock, dutIn, crashes>>

DutDown ==
  /\ dutPc = "dying" /\ dutPc' = "down"
  /\ gxcSockfd' = "none" /\ owed' = 0 /\ dutIn' = <<>> /\ dutKnock' = "none"
  /\ gSock' = Closed(gSock)
  /\ UNCHANGED <<tmVars, knock, caIn, caPc, gCaSockfd, caCmdBuf, toCa, crashes>>

\* Five seconds later.
DutStart ==
  /\ dutPc = "down" /\ dutPc' = "up"
  /\ UNCHANGED <<tmVars, knock, caIn, caVars, linkVars, gxcSockfd, owed, crashes>>

\* A process ends by itself.
Crash ==
  /\ crashes < MaxCrashes /\ crashes' = crashes + 1
  /\ \/ caPc \notin {"down", "dying"} /\ caPc' = "dying" /\ UNCHANGED dutPc
     \/ dutPc = "up" /\ dutPc' = "dying" /\ UNCHANGED caPc
  /\ UNCHANGED <<tmVars, knock, caIn, gCaSockfd, gSock, caCmdBuf, linkVars, gxcSockfd, owed>>

-----------------------------------------------------------------------------
TM  == Connect \/ Disconnect \/ GiveUp \/ \E c \in Asked : Ask(c)
CA  == CaAccept \/ CaEof \/ CaForward \/ CaReject \/ CaRefuse \/ CaRecv \/ CaRecvEof \/ CaParse
DUT == DutAccept \/ DutEof \/ DutHandle
WTG == CaDown \/ CaStart \/ DutDown \/ DutStart

Next == TM \/ CA \/ DUT \/ DutDeferred \/ WTG \/ Crash

Spec == Init /\ [][Next]_vars

\* The processes and threads run, and the service starts what ended.
Running ==
  /\ WF_vars(CA) /\ WF_vars(DUT) /\ WF_vars(DutDeferred)
  /\ WF_vars(CaDown) /\ WF_vars(CaStart) /\ WF_vars(DutDown) /\ WF_vars(DutStart)

FairSpec == Spec /\ Running

\* A test manager that goes on with its tests, whatever became of the last command.
Insists == WF_vars(Connect) /\ SF_vars(\E c \in Asked : Ask(c)) /\ WF_vars(GiveUp)

InsistSpec == FairSpec /\ Insists

-----------------------------------------------------------------------------
(* Properties. *)

Answers == {"COMPLETE", "ERROR", "INVALID"}
MaxWords == 1 + 2 * EntryWords

\* The type of every variable, with what fills the buffers: a process that ended leaves
\* one response behind at most, so that the agent's buffer never holds more responses
\* than processes ended, the one asked for and the word it kept (caCmdBuf[WFA_BUFF_8K]).
TypeOK ==
  /\ awaiting \in Kinds \cup {"none"}
  /\ last \in Answers \cup {"none", "gaveUp", "stray"}
  /\ tmUp \in BOOLEAN /\ knock \in BOOLEAN
  /\ caIn \in Kinds \cup {"none"}
  /\ caPc \in {"down", "select", "parse", "refuse", "dying"}
  /\ {gCaSockfd, gSock, dutKnock, gxcSockfd} \subseteq Sockets
  /\ \A i \in 1 .. Len(caCmdBuf) : caCmdBuf[i] \in Nat \X Nat
  /\ \A i \in 1 .. Len(toCa) : toCa[i] \in Nat \X Nat
  /\ Len(caCmdBuf) <= 1 + (crashes + 1) * MaxWords
  /\ Len(toCa) <= (crashes + 1) * MaxWords
  /\ Len(dutIn) <= crashes + 1 /\ \A i \in 1 .. Len(dutIn) : dutIn[i] \in Kinds
  /\ dutPc \in {"up", "down", "dying"}
  /\ owed \in 0 .. crashes + 1
  /\ crashes \in 0 .. MaxCrashes

\* Between two responses the agent keeps nothing of them that could be taken for one:
\* at most the last word of the zeros that follow a RecvStop's TLV, and the next
\* response is read from its header (ca/wfa_ca.c, the loop over caCmdBuf).
FramingKept ==
  caPc = "select" => Len(caCmdBuf) <= 1 /\ \A i \in 1 .. Len(caCmdBuf) : caCmdBuf[i] = Zero

\* What the programs promise of each command: an unknown stream before one that is
\* stopped is an ERROR for both.
Promised ==
  [c \in Asked |->
     CASE c = "typo" -> {"INVALID"}
       [] c = "recvStopBad" -> {"ERROR"}
       [] OTHER -> {"COMPLETE"}]

Service == INSTANCE CommandService WITH Commands <- Asked

\* The two programs, their sockets and buffers implement the service: every command is
\* answered, once, with the answer of its own kind, and nothing else is said
\* (ca/wfa_ca.c main, dut/wfa_dut.c main, lib/wfa_ca_resp.c).
ServiceProvided == Service!Spec

\* However the agent and the device end, commands are answered again: the agent that
\* writes to a device that is gone ends too, by SIGPIPE, and the service starts it
\* with a new connection (ca/wfa_ca.c send(gSock), WTGService/WTG.c startControlAgent).
AnswersResume == []<>(last \in Answers)

\* A Send that the device refuses for an unknown stream is not answered COMPLETE
\* (lib/wfa_tg.c wfaTGSendStart, lib/wfa_ca_resp.c wfaTrafficAgentSendResp).
RejectionReported == [][awaiting = "sendBad" => last' # "COMPLETE"]_vars
=============================================================================

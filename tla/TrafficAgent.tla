---------------------------- MODULE TrafficAgent ----------------------------
(***************************************************************************)
(* The traffic agent of wfa_dut: the stream table and the command handlers *)
(* the main loop runs (lib/wfa_tg.c), the pool of stream threads that send *)
(* and receive (wfa_wmm_thread, lib/wfa_thr.c) and the process-wide alarm  *)
(* that ends timed senders (tmout_stop_send).                              *)
(*                                                                         *)
(* A handler that neither blocks nor hands a stream to a thread is one     *)
(* action; RecvStart, Send and RecvStop advance one stream id at a time,   *)
(* because the threads they start or wait for run between the ids.  What   *)
(* is sent on the wire, the statistics and the addresses are left out.     *)
(***************************************************************************)
EXTENDS Integers, Sequences, FiniteSets

CONSTANTS
  MaxStreams,  \* WFA_MAX_TRAFFIC_STREAMS, the rows of gStreams
  NumThreads,  \* WFA_THREADS_NUM, the stream threads
  MaxFd,       \* descriptors the process may have open for traffic sockets
  MaxId,       \* bound: the last stream id handed out
  MaxBatch,    \* bound: stream ids named in one command
  Profiles,    \* the profiles the test manager configures
  Habits,      \* what the test manager can be relied on to do, see below
  Prompt,      \* TRUE: a runnable thread runs within the code's 1 s sleeps
  Disturbed    \* TRUE: sends may fail and bursts may overrun

Kinds  == {"FILE", "IPTV", "TRANSC", "CALI"}   \* FILE_TX and MCAST; IPTV and BURST; TRANSC; CALI_RTD
Loops  == {"long", "rate", "burst"}    \* wfaSendLongFile, wfaSendBitrateData, wfaSendBurstData
Profile == [dir : {"SEND", "RECV", "NONE"}, kind : Kinds \cup {"NONE"}, loop : Loops,
            timed : BOOLEAN,           \* maxcnt = 0
            zero  : BOOLEAN,           \* duration = 0
            delay : BOOLEAN]           \* 0 < startdelay < 100
HabitNames == {"patient", "unhurried", "quiet", "ordered", "recvFirst", "oneSend"}

ASSUME ConstantsAssumption ==
  /\ MaxStreams \in Nat \ {0}
  /\ NumThreads \in Nat \ {0}
  /\ MaxFd \in Nat
  /\ MaxId \in Nat
  /\ MaxBatch \in Nat \ {0}
  /\ Profiles \subseteq {p \in Profile : p.dir # "NONE" /\ p.kind # "NONE"}
  /\ Habits \subseteq HabitNames
  /\ Prompt \in BOOLEAN /\ Disturbed \in BOOLEAN

Slots   == 0 .. MaxStreams - 1
Threads == 0 .. NumThreads - 1
Fds     == 1 .. MaxFd
Ids     == 1 .. MaxId
NoSlot  == -1     \* findStreamProfile() = NULL
NoSock  == -1

NoProfile == [dir |-> "NONE", kind |-> "NONE", loop |-> "long",
              timed |-> TRUE, zero |-> TRUE, delay |-> FALSE]
Cleared   == [id |-> 0, tblidx |-> 0, active |-> FALSE, prof |-> NoProfile]

VARIABLES
  gStreams,    \* the stream table: slot -> [id, tblidx, active, prof]
  slotCnt,     \* rows in use
  streamId,    \* the last id handed out
  usedThread,  \* the next thread a start is posted to
  thr_flag,    \* wmm_thr[t].thr_flag: the id posted to thread t, 0 for none
  gtgSend, gtgTransac,
  runLoop,
  sendThrId,
  tgSockfds,   \* slot -> the socket its receiver opened, NoSock for none
  alarm,       \* SIGALRM is pending
  openFds,     \* traffic descriptors open in the process
  wpc,         \* where each stream thread is
  wid, wslot, wsock,  \* its myStreamId, the row of its myStream, its mySock
  mpc, asked, next,   \* the handler the main loop is in, its ids, the next one
  pending,     \* the command the test manager awaits a response for
  fresh, live, \* the script's ids: configured, and receiving
  awaited,     \* the script's ids: in the last Send
  fault        \* how the process died, "none" while it lives

tableVars  == <<gStreams, slotCnt, streamId>>
flagVars   == <<gtgSend, gtgTransac, runLoop, sendThrId, alarm>>
threadVars == <<wpc, wid, wslot, wsock>>
mainVars   == <<mpc, asked, next>>
scriptVars == <<pending, fresh, live, awaited>>
vars == <<tableVars, usedThread, thr_flag, flagVars, tgSockfds, openFds,
          threadVars, mainVars, scriptVars, fault>>

WorkerStates ==
  {"start", "toWait", "waiting", "take", "taken", "init", "delay", "long", "rate",
   "burst", "rest", "transac", "flush", "report", "clear", "recvInit", "recving", "rtransac"}
MainStates ==
  {"idle", "select", "accept", "recvStart", "recvStartSignal", "send", "sendSignal",
   "stopWait", "recvStop"}
Commands == {"none", "recvStart", "send", "recvStop"}

Init ==
  /\ gStreams = [s \in Slots |-> Cleared]
  /\ slotCnt = 0 /\ streamId = 0 /\ usedThread = 0
  /\ thr_flag = [t \in Threads |-> 0]
  /\ gtgSend = 0 /\ gtgTransac = 0
  /\ runLoop = FALSE /\ sendThrId = 0 /\ alarm = FALSE
  /\ tgSockfds = [s \in Slots |-> NoSock]
  /\ openFds = {}
  /\ wpc = [t \in Threads |-> "start"]
  /\ wid = [t \in Threads |-> 0]
  /\ wslot = [t \in Threads |-> NoSlot]
  /\ wsock = [t \in Threads |-> NoSock]
  /\ mpc = "idle" /\ asked = <<>> /\ next = 1
  /\ pending = "none" /\ fresh = {} /\ live = {} /\ awaited = {}
  /\ fault = "none"

-----------------------------------------------------------------------------
(* Helpers. *)

FirstWith(id, s) == gStreams[s].id = id /\ \A r \in Slots : r < s => gStreams[r].id # id

\* Mutant of FindSlot: only the rows in use are searched.
FindSlotInUse(id) ==
  IF \E s \in Slots : s < slotCnt /\ FirstWith(id, s)
  THEN CHOOSE s \in Slots : FirstWith(id, s)
  ELSE NoSlot

\* The first row whose id matches; id 0 matches a row that was never used.
FindSlot(id) ==
  IF \E s \in Slots : FirstWith(id, s)
  THEN CHOOSE s \in Slots : FirstWith(id, s)
  ELSE NoSlot

ProfileOf(id) == gStreams[FindSlot(id)].prof
Names(id, d) == FindSlot(id) # NoSlot /\ ProfileOf(id).dir = d
Transactions == {"TRANSC", "CALI"}

\* Mutant of NextId: ids follow the rows of the table.
NextIdByRow == slotCnt + 1

NextId == streamId + 1

\* Mutant of NewRow: tblidx taken after slotCnt was advanced.
NewRowOffByOne(row, id, p) == [id |-> id, tblidx |-> row + 1, active |-> FALSE, prof |-> p]

NewRow(row, id, p) == [id |-> id, tblidx |-> row, active |-> FALSE, prof |-> p]

\* The response to a command is on the control link.
Answered(tag) == pending' = IF pending = tag THEN "none" ELSE pending

\* Mutant of Locked: the poster signals without taking the mutex.
NeverLocked(t) == FALSE

\* thr_flag_mutex of thread t is held from the thread's test of its flag, which
\* found none, to its wait.
Locked(t) == wpc[t] = "toWait"

Sending == {"long", "rate", "burst"}

(***************************************************************************)
(* Under Prompt, a thread that can take a step takes it before a sleep of  *)
(* a second or more ends elsewhere.  A "rate" or "burst" sender is not     *)
(* held to that: it may notice a cleared runLoop a second late.            *)
(***************************************************************************)
MainRests == mpc \in {"idle", "select", "accept", "stopWait"}
AtOnce(t) == \/ wpc[t] \in {"start", "toWait", "take", "taken", "init", "recvInit",
                            "flush", "clear"}
             \/ wpc[t] = "delay" /\ ~gStreams[wslot[t]].prof.delay
             \/ wpc[t] = "long" /\ ~runLoop
Soon(t) == AtOnce(t) \/ (wpc[t] \in {"transac", "rtransac"} /\ gtgTransac = 0)
SecondPasses == Prompt => MainRests /\ \A t \in Threads : ~Soon(t)

-----------------------------------------------------------------------------
(* The test manager, behind the control agent: which command comes next.   *)
(* "patient" waits for the response of one command before the next;        *)
(* "unhurried" leaves the threads the time to do what they can at once;    *)
(* "ordered" configures, starts each id once, stops receivers, then resets *)
(* and uses no id it was not given; "recvFirst" has receivers running      *)
(* before it sends; "oneSend" names all the senders of a test in one       *)
(* command; "quiet" starts over only when every thread is idle again.      *)

Does(h) == h \in Habits
MayAsk  == /\ mpc = "idle" /\ fault = "none"
           /\ Does("patient") => pending = "none"
           /\ Does("unhurried") => \A t \in Threads : ~AtOnce(t)
Batches ==
  {q \in UNION {[1 .. n -> Ids] : n \in 1 .. MaxBatch} :
     \A i, j \in DOMAIN q : i # j => q[i] # q[j]}
Named(ids) == {ids[i] : i \in DOMAIN ids}
Among(ids, S) == Does("ordered") => Named(ids) \subseteq S
OfDir(S, d) == {id \in S : Names(id, d)}
Note(S) == IF Does("ordered") THEN S ELSE {}
IsIdle(t) == wpc[t] = "waiting" /\ thr_flag[t] = 0

MayStartOver == /\ Does("ordered") => live = {}
                /\ Does("quiet") => \A t \in Threads : IsIdle(t)
MayConfigure == /\ MayStartOver
                /\ Does("ordered") => usedThread = 0 /\ slotCnt < MaxStreams
MaySend(ids) ==
  /\ Does("recvFirst") => live # {} /\ OfDir(fresh, "RECV") = {}
  /\ Does("oneSend") => Len(ids) = Cardinality(OfDir(fresh, "SEND"))

-----------------------------------------------------------------------------
(* The main loop's select, on the control link and the receivers' sockets. *)

BackToSelect == mpc' = "select" /\ UNCHANGED <<asked, next>>

\* The sockets the table holds are put into the set, whether they are still open
\* or not.  With a closed one select() fails, the failure is passed over, the set
\* is as it was before the call, and the loop takes its own listening socket for
\* ready: it blocks in accept() until somebody connects.
Stale == \E s \in Slots : tgSockfds[s] \notin openFds \cup {NoSock}
Select ==
  /\ fault = "none" /\ mpc = "select"
  /\ mpc' = IF Stale THEN "accept" ELSE "idle"
  /\ UNCHANGED <<tableVars, usedThread, thr_flag, flagVars, tgSockfds, openFds,
                 threadVars, asked, next, scriptVars, fault>>

\* A datagram for a receiver wakes the loop, which leaves it to the receiver.
Wake ==
  /\ fault = "none" /\ mpc = "idle"
  /\ \E s \in Slots : tgSockfds[s] \in openFds
  /\ BackToSelect
  /\ UNCHANGED <<tableVars, usedThread, thr_flag, flagVars, tgSockfds, openFds,
                 threadVars, scriptVars, fault>>

-----------------------------------------------------------------------------
(* Commands that are handled in one go. *)

\* wfaTGConfig: a full table starts over, and a table that starts over is cleared.
Config(p) ==
  /\ MayAsk /\ MayConfigure /\ streamId < MaxId
  /\ LET rows == IF slotCnt \in {0, MaxStreams} THEN [s \in Slots |-> Cleared] ELSE gStreams
         row  == IF slotCnt = MaxStreams THEN 0 ELSE slotCnt
     IN /\ gStreams' = [rows EXCEPT ![row] = NewRow(row, NextId, p)]
        /\ slotCnt' = row + 1
  /\ streamId' = NextId
  /\ fresh' = Note(fresh \cup {NextId})
  /\ BackToSelect
  /\ UNCHANGED <<usedThread, thr_flag, flagVars, tgSockfds, openFds, threadVars,
                 pending, live, awaited, fault>>

\* wfaTGSendPing: a ping takes a stream id of its own but no row.
SendPing ==
  /\ MayAsk /\ streamId < MaxId /\ ~Does("ordered")
  /\ streamId' = NextId
  /\ BackToSelect
  /\ UNCHANGED <<gStreams, slotCnt, usedThread, thr_flag, flagVars, tgSockfds, openFds,
                 threadVars, scriptVars, fault>>

\* wfaTGStopPing: the id of a sending stream stops that stream's alarm as well.
StopPing(id) ==
  /\ MayAsk /\ ~Does("ordered")
  /\ IF gtgTransac = id /\ gtgSend = id
     THEN /\ gtgTransac' = 0 /\ gtgSend' = 0 /\ alarm' = FALSE
          /\ fault' = IF FindSlot(id) = NoSlot THEN "null" ELSE fault
     ELSE UNCHANGED <<gtgTransac, gtgSend, alarm, fault>>
  /\ BackToSelect
  /\ UNCHANGED <<tableVars, usedThread, thr_flag, runLoop, sendThrId, tgSockfds, openFds,
                 threadVars, scriptVars>>

\* wfaTGReset: closes the receivers' sockets and clears the flags.  Its memset
\* takes the number of rows for a size, so it covers the first 32 bytes of the
\* table: the integers of row 0 and the profile type behind them.
ClearedBytes(row) == [row EXCEPT !.id = 0, !.tblidx = 0, !.active = FALSE, !.prof.kind = "NONE"]
Reset ==
  /\ MayAsk /\ MayStartOver
  /\ openFds' = openFds \ {tgSockfds[s] : s \in Slots}
  /\ tgSockfds' = [s \in Slots |-> NoSock]
  /\ alarm' = FALSE /\ runLoop' = FALSE
  /\ gtgSend' = 0 /\ gtgTransac' = 0
  /\ usedThread' = 0 /\ slotCnt' = 0
  /\ gStreams' = [gStreams EXCEPT ![0] = ClearedBytes(@)]
  /\ fresh' = {} /\ live' = {} /\ awaited' = {}
  /\ BackToSelect
  /\ UNCHANGED <<streamId, thr_flag, sendThrId, threadVars, pending, fault>>

-----------------------------------------------------------------------------
(* Commands that walk their stream ids. *)

Begin(state, cmd, ids) ==
  /\ mpc' = state /\ asked' = ids /\ next' = 1
  /\ pending' = IF Does("patient") THEN cmd ELSE "none"
  /\ UNCHANGED <<tableVars, usedThread, thr_flag, flagVars, tgSockfds, openFds,
                 threadVars, fault>>

More == next <= Len(asked)
Current == asked[next]
Leave == mpc' = "select" /\ asked' = <<>> /\ next' = 1

\* Hand stream id to thread usedThread; the flag is written before the mutex is taken.
Post(id, state) ==
  IF usedThread < NumThreads
  THEN /\ thr_flag' = [thr_flag EXCEPT ![usedThread] = id]
       /\ mpc' = state /\ UNCHANGED <<asked, next, fault>>
  ELSE fault' = "bounds" /\ UNCHANGED <<thr_flag, mainVars>>
Activate(s) == gStreams' = [gStreams EXCEPT ![s].active = TRUE]

\* Mutant of NextThread: every start goes to the same thread.
SameThread == usedThread

NextThread == usedThread + 1

\* Lock, signal, unlock, usedThread++.
Signal ==
  /\ fault = "none"
  /\ mpc \in {"recvStartSignal", "sendSignal"}
  /\ ~Locked(usedThread)
  /\ wpc' = [wpc EXCEPT ![usedThread] = IF @ = "waiting" THEN "start" ELSE @]
  /\ usedThread' = NextThread
  /\ mpc' = IF mpc = "recvStartSignal" THEN "recvStart" ELSE "send"
  /\ next' = next + 1
  /\ UNCHANGED <<tableVars, thr_flag, flagVars, tgSockfds, openFds, wid, wslot, wsock,
                 asked, scriptVars, fault>>

RecvStart(ids) ==
  /\ MayAsk /\ Among(ids, OfDir(fresh, "RECV"))
  /\ fresh' = Note(fresh \ Named(ids))
  /\ live' = Note(live \cup Named(ids)) /\ UNCHANGED awaited
  /\ Begin("recvStart", "recvStart", ids)

\* An id that is unknown or not a receiver ends the command without a response.
RecvStartReject ==
  /\ fault = "none" /\ mpc = "recvStart" /\ More
  /\ ~Names(Current, "RECV")
  /\ Leave
  /\ UNCHANGED <<tableVars, usedThread, thr_flag, flagVars, tgSockfds, openFds,
                 threadVars, scriptVars, fault>>

RecvStartOne ==
  /\ fault = "none" /\ mpc = "recvStart" /\ More
  /\ Names(Current, "RECV")
  /\ Activate(FindSlot(Current))
  /\ gtgTransac' = IF ProfileOf(Current).kind \in Transactions THEN Current ELSE gtgTransac
  /\ Post(Current, "recvStartSignal")
  /\ UNCHANGED <<slotCnt, streamId, usedThread, gtgSend, runLoop, sendThrId, alarm,
                 tgSockfds, openFds, threadVars, scriptVars>>

RecvStartEnd ==
  /\ fault = "none" /\ mpc = "recvStart" /\ ~More
  /\ Leave /\ Answered("recvStart")
  /\ UNCHANGED <<tableVars, usedThread, thr_flag, flagVars, tgSockfds, openFds,
                 threadVars, fresh, live, awaited, fault>>

Send(ids) ==
  /\ MayAsk /\ Among(ids, OfDir(fresh, "SEND")) /\ MaySend(ids)
  /\ fresh' = Note(fresh \ Named(ids))
  /\ awaited' = Note(Named(ids)) /\ UNCHANGED live
  /\ Begin("send", "send", ids)

\* An id that is unknown or not a sender ends the command with INVALID; the
\* streams before it have been started.
SendReject ==
  /\ fault = "none" /\ mpc = "send" /\ More
  /\ ~Names(Current, "SEND")
  /\ Leave /\ Answered("send")
  /\ UNCHANGED <<tableVars, usedThread, thr_flag, flagVars, tgSockfds, openFds,
                 threadVars, fresh, live, awaited, fault>>

SendOne ==
  /\ fault = "none" /\ mpc = "send" /\ More
  /\ Names(Current, "SEND")
  /\ Activate(FindSlot(Current))
  /\ gtgSend' = Current
  /\ gtgTransac' = IF ProfileOf(Current).kind \in {"FILE", "TRANSC"} THEN Current ELSE gtgTransac
  /\ Post(Current, "sendSignal")
  /\ UNCHANGED <<slotCnt, streamId, usedThread, runLoop, sendThrId, alarm,
                 tgSockfds, openFds, threadVars, scriptVars>>

\* The response is left to the threads.
SendEnd ==
  /\ fault = "none" /\ mpc = "send" /\ ~More
  /\ Leave
  /\ UNCHANGED <<tableVars, usedThread, thr_flag, flagVars, tgSockfds, openFds,
                 threadVars, scriptVars, fault>>

RecvStop(ids) ==
  /\ MayAsk /\ Among(ids, live)
  /\ live' = Note(live \ Named(ids))
  /\ UNCHANGED <<fresh, awaited>>
  /\ Begin("stopWait", "recvStop", ids)

\* while(sendThrId != 0) sleep(1);
RecvStopWaited ==
  /\ fault = "none" /\ mpc = "stopWait" /\ sendThrId = 0
  /\ mpc' = "recvStop"
  /\ UNCHANGED <<tableVars, usedThread, thr_flag, flagVars, tgSockfds, openFds,
                 threadVars, asked, next, scriptVars, fault>>

\* A sender's id ends the command with INVALID.
RecvStopReject ==
  /\ fault = "none" /\ mpc = "recvStop" /\ More
  /\ FindSlot(Current) # NoSlot /\ ~Names(Current, "RECV")
  /\ Leave /\ Answered("recvStop")
  /\ UNCHANGED <<tableVars, usedThread, thr_flag, flagVars, tgSockfds, openFds,
                 threadVars, fresh, live, awaited, fault>>

\* Mutant of Unlist: the entry keeps the closed socket.
Keep(s) == UNCHANGED tgSockfds

Unlist(s) == tgSockfds' = [tgSockfds EXCEPT ![gStreams[s].tblidx] = NoSock]

\* An unknown id is skipped; a receiver's socket is closed under its thread.
RecvStopOne ==
  /\ fault = "none" /\ mpc = "recvStop" /\ More
  /\ ~(FindSlot(Current) # NoSlot /\ ~Names(Current, "RECV"))
  /\ next' = next + 1
  /\ LET s == FindSlot(Current) IN
       IF s = NoSlot
       THEN UNCHANGED <<gtgTransac, tgSockfds, openFds>>
       ELSE /\ gtgTransac' = IF ProfileOf(Current).kind \in Transactions THEN 0 ELSE gtgTransac
            /\ openFds' = openFds \ {tgSockfds[gStreams[s].tblidx]}
            /\ Unlist(s)
  /\ UNCHANGED <<tableVars, usedThread, thr_flag, gtgSend, runLoop, sendThrId, alarm,
                 threadVars, mpc, asked, scriptVars, fault>>

\* The last id's row is marked inactive: an unknown last id dereferences NULL.
RecvStopEnd ==
  /\ fault = "none" /\ mpc = "recvStop" /\ ~More
  /\ LET s == FindSlot(asked[Len(asked)])
     IN IF s = NoSlot
        THEN fault' = "null" /\ UNCHANGED <<gStreams, mainVars, pending>>
        ELSE /\ gStreams' = [gStreams EXCEPT ![s].active = FALSE]
             /\ Leave /\ UNCHANGED fault
             /\ Answered("recvStop")
  /\ UNCHANGED <<slotCnt, streamId, usedThread, thr_flag, flagVars, tgSockfds, openFds,
                 threadVars, fresh, live, awaited>>

-----------------------------------------------------------------------------
(* tmout_stop_send: the SIGALRM handler, in whichever thread it lands. *)
Alarm ==
  /\ fault = "none" /\ alarm /\ SecondPasses
  /\ alarm' = FALSE /\ runLoop' = FALSE
  /\ usedThread' = 0 /\ slotCnt' = 0
  /\ IF gtgTransac # 0
     THEN gtgSend' = 0 /\ gtgTransac' = 0
     ELSE UNCHANGED <<gtgSend, gtgTransac>>
  /\ thr_flag' = [t \in Threads |-> 0]
  /\ UNCHANGED <<gStreams, streamId, sendThrId, tgSockfds, openFds, threadVars,
                 mainVars, scriptVars, fault>>

-----------------------------------------------------------------------------
(* A stream thread waits for work: lock, test the flag, wait or go on. *)

Move(t, from, to) ==
  fault = "none" /\ wpc[t] = from /\ wpc' = [wpc EXCEPT ![t] = to]

\* Back to the top of the thread's loop; its locals are written before they are
\* read again.
Again(t, from) ==
  /\ Move(t, from, "start")
  /\ wid' = [wid EXCEPT ![t] = 0]
  /\ wslot' = [wslot EXCEPT ![t] = NoSlot]
  /\ wsock' = [wsock EXCEPT ![t] = NoSock]

\* Take the mutex and test the flag: with a stream posted, release and go on.
Test(t) ==
  /\ Move(t, "start", IF thr_flag[t] = 0 THEN "toWait" ELSE "take")
  /\ UNCHANGED <<tableVars, usedThread, thr_flag, flagVars, tgSockfds, openFds, wid,
                 wslot, wsock, mainVars, scriptVars, fault>>

CondWait(t) ==
  /\ Move(t, "toWait", "waiting")
  /\ UNCHANGED <<tableVars, usedThread, thr_flag, flagVars, tgSockfds, openFds, wid,
                 wslot, wsock, mainVars, scriptVars, fault>>

\* The flag is read again, outside the mutex.
Take(t) ==
  /\ Move(t, "take", "taken")
  /\ wid' = [wid EXCEPT ![t] = thr_flag[t]]
  /\ UNCHANGED <<tableVars, usedThread, thr_flag, flagVars, tgSockfds, openFds, wslot, wsock,
                 mainVars, scriptVars, fault>>

\* It is cleared, whatever it holds by now; the lookup's result is used without a test.
Find(t) ==
  LET s == FindSlot(wid[t]) IN
  /\ thr_flag' = [thr_flag EXCEPT ![t] = 0]
  /\ IF s = NoSlot
     THEN Move(t, "taken", "taken") /\ fault' = "null" /\ UNCHANGED <<wid, wslot, wsock>>
     ELSE /\ IF gStreams[s].prof.dir = "NONE"
             THEN Again(t, "taken")
             ELSE /\ Move(t, "taken", IF gStreams[s].prof.dir = "SEND" THEN "init" ELSE "recvInit")
                  /\ wslot' = [wslot EXCEPT ![t] = s]
                  /\ UNCHANGED <<wid, wsock>>
          /\ UNCHANGED fault
  /\ UNCHANGED <<tableVars, usedThread, flagVars, tgSockfds, openFds, mainVars, scriptVars>>

-----------------------------------------------------------------------------
(* A sending thread. *)

MyProf(t) == gStreams[wslot[t]].prof

\* The kernel gives a new socket the lowest free descriptor.
FreeFds   == Fds \ openFds
Lowest(f) == \A g \in FreeFds : f <= g
OpenSocket(t, f) ==
  /\ openFds' = openFds \cup {f}
  /\ wsock' = [wsock EXCEPT ![t] = f]
  /\ UNCHANGED <<wid, wslot>>

\* Mutant of SendInit: the thread is recorded before its socket exists.
SendInitRecordsFirst(t) ==
  /\ IF FreeFds # {}
     THEN Move(t, "init", "delay") /\ \E f \in FreeFds : Lowest(f) /\ OpenSocket(t, f)
     ELSE Again(t, "init") /\ UNCHANGED openFds
  /\ sendThrId' = t
  /\ UNCHANGED <<tableVars, usedThread, thr_flag, gtgSend, gtgTransac, runLoop,
                 alarm, tgSockfds, mainVars, scriptVars, fault>>

\* No socket: back to waiting, and no response for the stream.
SendInit(t) ==
  /\ IF FreeFds # {}
     THEN /\ Move(t, "init", "delay") /\ sendThrId' = t
          /\ \E f \in FreeFds : Lowest(f) /\ OpenSocket(t, f)
     ELSE Again(t, "init") /\ UNCHANGED <<openFds, sendThrId>>
  /\ UNCHANGED <<tableVars, usedThread, thr_flag, gtgSend, gtgTransac, runLoop,
                 alarm, tgSockfds, mainVars, scriptVars, fault>>

\* Mutant of Arm: the timer is left out.
ArmNot(p) == UNCHANGED alarm

Arm(p) == alarm' = IF p.timed THEN ~p.zero ELSE alarm

\* The start delay is over: arm the alarm (for 0 s: disarm it) unless the stream
\* counts frames, then enter the send loop.  The send routine looks its stream up
\* by id and does nothing without it or with a zero duration; the two that pace
\* their frames also refuse a rate beyond their maximum, or without memory.  Arming
\* and setting runLoop are one step, as the alarm is at least a second away.
Runs(t) == FindSlot(wid[t]) # NoSlot /\ ~ProfileOf(wid[t]).zero
MayRefuse(t) == ~Runs(t) \/ MyProf(t).loop # "long"
Launch(t) ==
  /\ wpc[t] = "delay" /\ Arm(MyProf(t))
  /\ CASE MyProf(t).kind \in {"FILE", "IPTV"} ->
            /\ \/ Runs(t) /\ Move(t, "delay", MyProf(t).loop) /\ runLoop' = TRUE
               \/ MayRefuse(t) /\ Move(t, "delay", "flush") /\ UNCHANGED runLoop
            /\ UNCHANGED gtgTransac
       [] MyProf(t).kind \in Transactions ->
            Move(t, "delay", "transac") /\ gtgTransac' = wid[t] /\ UNCHANGED runLoop
       [] OTHER -> Move(t, "delay", "report") /\ UNCHANGED <<runLoop, gtgTransac>>
  /\ UNCHANGED <<tableVars, usedThread, thr_flag, gtgSend, sendThrId, tgSockfds,
                 openFds, wid, wslot, wsock, mainVars, scriptVars, fault>>

\* while(runLoop): wfaSendLongFile clears gtgSend on its way out.
LongStop(t) ==
  /\ Move(t, "long", "flush") /\ ~runLoop
  /\ gtgSend' = 0
  /\ UNCHANGED <<tableVars, usedThread, thr_flag, gtgTransac, runLoop, sendThrId,
                 alarm, tgSockfds, openFds, wid, wslot, wsock, mainVars, scriptVars,
                 fault>>

\* wfaSendBitrateData and wfaSendBurstData look at runLoop when the frames of a
\* second, or of a burst, are sent, and sleep one second more.
PacedStop(t) ==
  /\ wpc[t] \in {"rate", "burst"} /\ ~runLoop
  /\ Move(t, wpc[t], "rest")
  /\ UNCHANGED <<tableVars, usedThread, thr_flag, flagVars, tgSockfds, openFds, wid, wslot,
                 wsock, mainVars, scriptVars, fault>>

\* ECONNRESET or EPIPE in wfaSendLongFile ends every send loop of the process.
SendBroken(t) ==
  /\ Disturbed /\ Move(t, "long", "long") /\ runLoop
  /\ runLoop' = FALSE
  /\ UNCHANGED <<tableVars, usedThread, thr_flag, gtgSend, gtgTransac, sendThrId,
                 alarm, tgSockfds, openFds, wid, wslot, wsock, mainVars, scriptVars,
                 fault>>

\* wfaSendBurstData gives up 1000 bursts after its duration.
BurstOverrun(t) ==
  /\ Disturbed /\ Move(t, "burst", "rest") /\ runLoop
  /\ UNCHANGED <<tableVars, usedThread, thr_flag, flagVars, tgSockfds, openFds, wid, wslot,
                 wsock, mainVars, scriptVars, fault>>

\* A transaction ends when gtgTransac is cleared, when its frames are counted out,
\* or when a timed one is two seconds over its duration.
TransacStop(t) ==
  /\ Move(t, "transac", "flush")
  /\ gtgTransac' = IF MyProf(t).timed THEN gtgTransac ELSE 0
  /\ UNCHANGED <<tableVars, usedThread, thr_flag, gtgSend, runLoop, sendThrId,
                 alarm, tgSockfds, openFds, wid, wslot, wsock, mainVars, scriptVars,
                 fault>>

CloseSend(t) ==
  /\ wpc[t] \in {"flush", "rest"} /\ (wpc[t] = "rest" => SecondPasses)
  /\ Move(t, wpc[t], "report")
  /\ openFds' = openFds \ {wsock[t]}
  /\ wsock' = [wsock EXCEPT ![t] = NoSock]
  /\ UNCHANGED <<tableVars, usedThread, thr_flag, flagVars, tgSockfds, wid, wslot, mainVars,
                 scriptVars, fault>>

\* Mutant of Reported: the direction is not looked at.
ReportedAnyDir(row) == row.id # 0 /\ row.active

Reported(row) == row.id # 0 /\ row.prof.dir = "SEND" /\ row.active
ActiveSenders == {gStreams[s].id : s \in {r \in Slots : Reported(gStreams[r])}}

\* Mutant of IsReporter: every sender responds for itself.
EverySender(t) == TRUE

IsReporter(t) == t = sendThrId

\* One second later the thread that set sendThrId last sends the statistics of
\* every active sender (wfaSentStatsResp), which marks all rows inactive.
Report(t) ==
  /\ SecondPasses
  /\ IF IsReporter(t)
     THEN /\ Move(t, "report", "clear")
          /\ gStreams' = [s \in Slots |-> [gStreams[s] EXCEPT !.active = FALSE]]
          /\ Answered("send")
          /\ UNCHANGED <<wid, wslot, wsock>>
     ELSE Again(t, "report") /\ UNCHANGED <<gStreams, pending>>
  /\ UNCHANGED <<slotCnt, streamId, usedThread, thr_flag, flagVars, tgSockfds, openFds,
                 mainVars, fresh, live, awaited, fault>>

\* Mutant of ClearSender: sendThrId is kept.
KeepSender(t) ==
  /\ Again(t, "clear")
  /\ UNCHANGED <<tableVars, usedThread, thr_flag, flagVars, tgSockfds, openFds, mainVars,
                 scriptVars, fault>>

ClearSender(t) ==
  /\ Again(t, "clear")
  /\ sendThrId' = 0
  /\ UNCHANGED <<tableVars, usedThread, thr_flag, gtgSend, gtgTransac, runLoop,
                 alarm, tgSockfds, openFds, mainVars, scriptVars, fault>>

-----------------------------------------------------------------------------
(* A receiving thread. *)

RecvInit(t) ==
  LET kind == MyProf(t).kind IN
  /\ wpc[t] = "recvInit"
  /\ IF kind # "NONE" /\ FreeFds # {}
     THEN /\ Move(t, "recvInit", IF kind \in Transactions THEN "rtransac" ELSE "recving")
          /\ \E f \in FreeFds :
               /\ Lowest(f) /\ OpenSocket(t, f)
               /\ tgSockfds' = [tgSockfds EXCEPT ![gStreams[wslot[t]].tblidx] = f]
          /\ gtgTransac' = IF kind \in Transactions THEN wid[t] ELSE gtgTransac
          /\ UNCHANGED thr_flag
     ELSE /\ Again(t, "recvInit")
          /\ thr_flag' = IF kind \in Transactions THEN [thr_flag EXCEPT ![t] = 0] ELSE thr_flag
          /\ UNCHANGED <<openFds, tgSockfds, gtgTransac>>
  /\ UNCHANGED <<tableVars, usedThread, gtgSend, runLoop, sendThrId, alarm,
                 mainVars, scriptVars, fault>>

\* Mutant of RecvExit: the thread closes its socket as well.
RecvExitCloses(t) ==
  /\ Again(t, "recving")
  /\ tgSockfds[gStreams[wslot[t]].tblidx] = NoSock
  /\ thr_flag' = [thr_flag EXCEPT ![t] = 0]
  /\ openFds' = openFds \ {wsock[t]}
  /\ UNCHANGED <<tableVars, usedThread, flagVars, tgSockfds, mainVars, scriptVars, fault>>

\* Mutant of RecvExit: the thread looks at its own copy of the descriptor.
RecvExitOwnCopy(t) ==
  /\ Again(t, "recving")
  /\ wsock[t] = NoSock
  /\ thr_flag' = [thr_flag EXCEPT ![t] = 0]
  /\ UNCHANGED <<tableVars, usedThread, flagVars, tgSockfds, openFds, mainVars, scriptVars, fault>>

\* After a receive that returned nothing the thread looks at its table entry, by
\* the row's tblidx; leaving, it clears its flag.
RecvExit(t) ==
  /\ Again(t, "recving")
  /\ tgSockfds[gStreams[wslot[t]].tblidx] = NoSock
  /\ thr_flag' = [thr_flag EXCEPT ![t] = 0]
  /\ UNCHANGED <<tableVars, usedThread, flagVars, tgSockfds, openFds, mainVars, scriptVars,
                 fault>>

\* A transaction receiver closes its descriptor, whoever owns the number by now.
TransacExit(t) ==
  /\ Again(t, "rtransac") /\ gtgTransac = 0
  /\ thr_flag' = [thr_flag EXCEPT ![t] = 0]
  /\ openFds' = openFds \ {wsock[t]}
  /\ UNCHANGED <<tableVars, usedThread, flagVars, tgSockfds, mainVars, scriptVars, fault>>

-----------------------------------------------------------------------------
Worker(t) ==
  \/ Test(t) \/ CondWait(t) \/ Take(t) \/ Find(t)
  \/ SendInit(t) \/ Launch(t) \/ LongStop(t) \/ PacedStop(t) \/ TransacStop(t)
  \/ CloseSend(t) \/ Report(t) \/ ClearSender(t)
  \/ RecvInit(t) \/ RecvExit(t) \/ TransacExit(t)

Main ==
  \/ Select
  \/ Signal
  \/ RecvStartReject \/ RecvStartOne \/ RecvStartEnd
  \/ SendReject \/ SendOne \/ SendEnd
  \/ RecvStopWaited \/ RecvStopReject \/ RecvStopOne \/ RecvStopEnd

TestManager ==
  \/ \E p \in Profiles : Config(p)
  \/ SendPing
  \/ \E id \in Ids : StopPing(id)
  \/ Reset
  \/ \E ids \in Batches : RecvStart(ids) \/ Send(ids) \/ RecvStop(ids)

Next ==
  \/ TestManager
  \/ Main
  \/ Wake
  \/ Alarm
  \/ \E t \in Threads : Worker(t) \/ SendBroken(t) \/ BurstOverrun(t)

Spec == Init /\ [][Next]_vars

\* Threads and the main loop run, and an armed alarm fires.  Nothing obliges the test manager
\* to send a command, or a send to fail.  A paced sender tries a frame that could not be sent
\* again without a look at runLoop (wfa_tg.c:1439-1454, 1632-1647): that it comes to PacedStop
\* assumes that the frame is sent in the end.
Fairness ==
  /\ WF_vars(Main) /\ WF_vars(Alarm)
  /\ \A t \in Threads : WF_vars(Worker(t))
FairSpec == Spec /\ Fairness

-----------------------------------------------------------------------------
(* Properties that hold however the test manager behaves. *)

Row == [id : 0 .. MaxId, tblidx : Slots, active : BOOLEAN, prof : Profile]

TableTypeOK ==
  /\ gStreams \in [Slots -> Row]
  /\ slotCnt \in 0 .. MaxStreams /\ streamId \in 0 .. MaxId
FlagTypeOK ==
  /\ usedThread \in 0 .. NumThreads
  /\ thr_flag \in [Threads -> 0 .. MaxId]
  /\ gtgSend \in 0 .. MaxId /\ gtgTransac \in 0 .. MaxId
  /\ runLoop \in BOOLEAN /\ alarm \in BOOLEAN
  /\ sendThrId \in Threads
SocketTypeOK ==
  /\ tgSockfds \in [Slots -> Fds \cup {NoSock}]
  /\ openFds \subseteq Fds
  /\ wsock \in [Threads -> Fds \cup {NoSock}]
ThreadTypeOK ==
  /\ wpc \in [Threads -> WorkerStates]
  /\ wid \in [Threads -> 0 .. MaxId]
  /\ wslot \in [Threads -> Slots \cup {NoSlot}]
MainTypeOK ==
  /\ mpc \in MainStates /\ asked \in Seq(Ids) /\ next \in Nat \ {0}
  /\ fault \in {"none", "null", "bounds"}
ScriptTypeOK ==
  pending \in Commands /\ fresh \subseteq Ids /\ live \subseteq Ids /\ awaited \subseteq Ids

\* Every variable keeps its range.
TypeOK ==
  TableTypeOK /\ FlagTypeOK /\ SocketTypeOK /\ ThreadTypeOK /\ MainTypeOK /\ ScriptTypeOK

\* A start that is posted is never slept through: while a thread is about to
\* wait, or waits, with its flag set, the signal for it is still to come
\* (wfa_tg.c:440-443 and 719-722 against wfa_thr.c:619-636).
NoLostWakeup ==
  \A t \in Threads :
    thr_flag[t] # 0 /\ wpc[t] \in {"toWait", "waiting"} =>
      fault # "none" \/ (mpc \in {"recvStartSignal", "sendSignal"} /\ t = usedThread)

\* The rows that carry an id carry their own index, by which receivers find and
\* lose their sockets, and no two carry the same id, whatever a reset or a full
\* table left behind (wfa_tg.c:319-353, 752-824).
TableIndexed ==
  \A s \in Slots : gStreams[s].id # 0 =>
    /\ gStreams[s].tblidx = s /\ gStreams[s].id <= streamId
    /\ \A r \in Slots : gStreams[r].id = gStreams[s].id => r = s

\* RecvStop waits for the thread recorded in sendThrId (wfa_tg.c:525): that thread
\* is still on its way to clear it, so the wait is never for nobody.
RecordedIsSending ==
  sendThrId # 0 =>
    wpc[sendThrId] \in {"delay", "rest", "transac", "flush", "report", "clear"} \cup Sending

\* A stream id never names two streams: a row's id changes only to 0 or to an id
\* never handed out before (wfa_tg.c:346, 166).
IdsNeverRecycled ==
  [][\A s \in Slots : gStreams'[s].id \notin {0, gStreams[s].id} =>
        gStreams'[s].id > streamId]_vars

-----------------------------------------------------------------------------
(* Properties that hold for a test manager with the habits of HabitNames. *)

\* No handler reads past the threads or dereferences a stream it did not find.
NoFault == fault = "none"

\* The start posted to a thread stays until that thread has taken it: no later
\* post, alarm or leaving receiver overwrites it (wfa_tg.c:440, 719;
\* wfa_thr.c:146-149, 637-638, 1071).
StartsDelivered ==
  [][\A t \in Threads : thr_flag[t] # 0 =>
        \/ thr_flag'[t] = thr_flag[t]
        \/ wpc[t] = "taken" /\ wid'[t] = thr_flag[t]]_vars

\* The main loop never sits in accept() without a connection to accept
\* (wfa_dut.c:255-293, wfa_sock.c:238-246).
MainLoopListens == mpc # "accept"

Reporting == \E t \in Threads : wpc[t] = "report" /\ wpc'[t] = "clear"

\* A Send has one response: no thread reports when none is awaited
\* (wfa_thr.c:918-923).
OneResponse == [][Reporting => pending = "send"]_vars

\* The response to a Send lists exactly the streams the Send named, and all of
\* them have left their send loops (wfa_thr.c:298-352, 912-923).
ReportComplete ==
  [][Reporting =>
       /\ ActiveSenders = awaited
       /\ \A t \in Threads : wid[t] \in awaited => wpc[t] \notin Sending]_vars

\* The threads that own a socket: a sender until it closes it, a receiver as long
\* as the table has its socket.
Owners ==
  {t \in Threads : \/ wpc[t] \in {"delay", "rest", "flush", "transac"} \cup Sending
                   \/ /\ wpc[t] = "recving"
                      /\ tgSockfds[gStreams[wslot[t]].tblidx] = wsock[t]}

\* Nobody closes or shares a socket that is in use, though descriptors are closed
\* by number from the main loop, the owner and a reset (wfa_tg.c:576-580, 763-770;
\* wfa_thr.c:717-721).
SocketsOwned ==
  \A t \in Owners : /\ wsock[t] \in openFds
                    /\ \A u \in Owners : wsock[t] = wsock[u] => t = u

\* A Send is answered and a RecvStop ends its wait (wfa_tg.c:525, wfa_thr.c:918).
SendAnswered     == pending = "send" ~> pending # "send"
RecvStopAnswered == pending = "recvStop" ~> pending # "recvStop"

\* After its stop a receiver gives its thread back to the pool (wfa_thr.c:1010-1071).
ReceiversLeave == \A t \in Threads : wpc[t] = "recving" /\ wid[t] \notin live ~> wpc[t] # "recving"
=============================================================================

# Verification of the Wi-Fi Test Suite Linux DUT and control agent

TLA+ modules of the programs in this repository, the TLC configurations that check
them and TLAPS proofs about them. Source references are `file:line` under `src/`.

## The system

A test manager (a program of the Wi-Fi Alliance, not in the repository) drives a device
under test. On the device run two programs: `wfa_ca`, the *control agent*, turns text
commands into TLVs; `wfa_dut`, the *device program*, executes them. Commands and answers
travel

    test manager --text--> wfa_ca --TLV--> wfa_dut main loop --> handler
    test manager <--text-- wfa_ca <--TLV-- main loop, or a stream thread

| Component | State | Operations | Correct when |
|---|---|---|---|
| Traffic agent, handlers (`lib/wfa_tg.c`) | `gStreams`, `slotCnt`, `streamId`, `usedThread`, `gtgSend`, `gtgTransac`, `tgSockfds` | Config, RecvStart, Send, RecvStop, Reset, SendPing, StopPing | ids name one stream; rows are found; a start reaches its thread; RecvStop ends |
| Stream threads (`lib/wfa_thr.c` `wfa_wmm_thread`) | `wmm_thr[t].thr_flag`, `sendThrId`, locals | wait, take, send by one of four loops, receive, report | nothing posted is lost; one report per Send, after its streams stopped; sockets are closed by their owners |
| Alarm (`tmout_stop_send`) | one `SIGALRM` per process, `runLoop` | stops all senders, resets `usedThread`, `slotCnt`, all flags | timed Sends end |
| Device main loop (`dut/wfa_dut.c`, `lib/wfa_sock.c`) | `gxcSockfd`, the select set | select, accept, receive, dispatch, respond | it always comes back to the control link |
| Control agent (`ca/wfa_ca.c`) | `gCaSockfd`, `gSock`, `caCmdBuf`, `caCmdBufPos` | accept, look up and forward, receive, take responses apart | each command gets one answer, of its kind |
| Response handlers (`lib/wfa_ca_resp.c`) | `gRespStr` | one per response tag | status and ids of the response are those of the answer |
| TLV (`lib/wfa_tlv.c`) | none | encode, decode | lengths are respected |
| Command parsers (`lib/wfa_cmdproc.c`), tables (`lib/wfa_cmdtbl.c`), station handlers (`lib/wfa_cs.c`) | buffers | one parser and one handler per command | name, tag, handler and response handler fit together |
| WMM power-save station (`lib/wfa_wmmps.c`, parts of `wfa_thr.c`) | `sta_state`, `stop_flag`, `gtgWmmPS`, `psSockfd`, tables of states | hello, test frames, stop | a test runs to its stop; nobody waits for ever |
| WMM power-save console (`console_src/`) | tables of states, timer | the other side of the same protocol | same |
| WTG service (`WTGService/WTG.c`) | command lines, one thread per program | start and restart both programs | what ended runs again |
| Helpers (`lib/wfa_miscs.c`), scripts | none | conversions, shell | conversions are inverse to each other |

Interaction: handlers run in the main loop and hand streams to threads through
`thr_flag` and a condition variable; threads read the stream table without a lock, send
their response over the main loop's `gxcSockfd`, and are stopped through `runLoop` (by
the signal handler), `gtgTransac`, or by closing their socket under them. The agent and
the device are joined by a TCP connection the agent opens once; both are restarted by
the WTG service.

What is hard: the order of flag, signal and wait; one alarm, one `runLoop` and one
`sendThrId` for all streams; descriptors closed by number from three places and reused
by the kernel; state that a reset or the alarm clears while threads still use it;
responses without the name of their command; a byte stream cut into TLVs; processes
that end and are restarted. `PROJECT.json` lists these hazards at their lines.

## Modules

| Module | Models |
|---|---|
| `TrafficAgent` | the traffic agent: stream table, handlers, stream threads, alarm, and the main loop's select on their sockets |
| `MCTrafficAgent` | sets of profiles for TLC |
| `TrafficAgentProofs` | theorems about `TrafficAgent`, whatever the test manager does |
| `TrafficTestProofs` | theorems about `TrafficAgent` under the habits of a test: faults, sockets, starts |
| `TrafficReportProofs` | the same for the response to a Send; extends the former |
| `CommandService` | the abstract promise: a command is answered once, by an answer of its kind |
| `ControlLink` | test manager, agent, device and service as processes with sockets and buffers; implements `CommandService` |
| `MCControlLink` | sets of commands for TLC |
| `ControlLinkProofs` | theorems about `ControlLink`, and that it implements `CommandService` |
| `Parsers` | the command parsers: text to tag and parameters |
| `Handlers` | the device's table of commands: parameters to steps on the station, and the response |
| `Responses` | the agent's table of responses: a response to what the test manager is told |
| `Station` | the three of them around the state that stays between commands |
| `MCStation` | the commands of five tests for TLC |
| `StationRuns` | lemmas: what a sequence of steps does to the station |
| `StationCommands` | lemmas: what each parser, handler and response handler of the tables yields |
| `StationProofs` | theorems about `Station` |
| `WmmTests` | the tables of the power-save tests, of the station and of the console |
| `PowerSaveStation` | the commands, the receiving thread and the sending threads of the power-save station |
| `PowerSaveConsole` | the console |
| `PowerSave` | both over a network, with the test manager's commands |
| `MCPowerSave` | the tests for TLC |
| `PowerSaveProofs` | theorems about `PowerSave` |

### TrafficAgent

One row of `gStreams` is a record of id, `tblidx`, active and profile; a profile keeps
what control depends on: direction, kind, which send loop it takes (`long` for
`wfaSendLongFile`, `rate` for `wfaSendBitrateData`, `burst` for `wfaSendBurstData`),
whether it has a duration or counts frames, whether the duration is 0 and whether it
starts late. Each thread has a place `wpc[t]` in `wfa_wmm_thread` and the locals
`myStreamId`, `myStream`, `mySock`. Handlers that neither block nor start threads are one
action; RecvStart, Send and RecvStop advance id by id, and a start is two actions, the
write of the flag (`Post`) and lock, signal, unlock (`Signal`), because threads run in
between. The mutex is held exactly from a thread's test of its flag to its wait, which
is `Locked`. The alarm is one action that may come between any two others. Descriptors
are numbers and a new socket takes the lowest free one, as the kernel does, so that
reuse of a number is visible. `fault` records a dereferenced NULL or an index past the
threads. `Reset` clears what its `memset` really covers: 32 bytes.

The test manager is part of the model because the handlers check little. It may do
anything (`Habits = {}`) or be relied on for some of these habits, each a condition on
when it sends a command:

- `patient`: one command at a time;
- `unhurried`: threads have had the time to do what they can at once;
- `ordered`: configure, start each id once, stop the receivers, reset or configure
  again, with no ids but those it was given;
- `recvFirst`: receivers run before senders start, as in every two-way test;
- `oneSend`: one Send names all senders of a test;
- `quiet`: a new test starts when all threads are idle again.

`Prompt` says that a runnable thread runs before a sleep of a second elsewhere ends:
the code relies on such sleeps (the report's one second, `wfa_thr.c:911`; alarms of whole
seconds). The runs use it; `TrafficAgentProofs` does not need it, so that what `Free` checks also
holds of threads that are kept from running for any time. `TrafficTestProofs` does.
`Disturbed` lets sends fail and bursts overrun.

A thread reads its flag, looks up the stream and clears the flag in two steps (`Take`, `Find`;
`wfa_thr.c:637-641`), so that a start, the alarm or a Reset can come in between. A paced sender
(`rate`, `burst`) may be refused after it has armed the alarm (`MayRefuse`: too high a rate, no memory,
no stream; `wfa_tg.c:1375-1403`, `1589`); it then reports at once. A frame that cannot be sent is
tried again without a look at `runLoop`, so that `PacedStop` comes only when frames are sent.

### ControlLink

A command is read (`CaEof`, `CaRead`), and what was read is forwarded (`CaForward`) or refused
(`CaReject`). Commands travel whole; of two that are in the socket at one `recv()` the second is
text behind the first, and text nobody read goes with its connection (`Connect`). Responses travel as words of four bytes, since both programs
count bytes of them: a word is a pair of halves, so a header <tag, length>, a status and
an id can only be told apart by position, as in the code. A `dutCmdResponse_t` is scaled
to two words. Each socket end is none, open, closed by its peer or reset: the first send
after the peer closed is lost, the second raises SIGPIPE, which neither program handles,
and ends the process (`Kills`). The agent's parse loop is one action per response. The
device handles one command per `recv()`; the response to a Send is left to a thread
(`owed`), which sends to whoever is connected by then. RecvStop with an unknown id before
a known one answers with the zeros of its cleared buffer in the TLV and the known entry behind it
(`wfa_tg.c:533`, `638`), to which the agent says ERROR; both are modelled. `Crash` ends either program at any point, the service starts
them again. The test manager waits for each answer, or (`Deadline`) gives up, but only
when no answer can come any more: its deadline is longer than any command takes.

### Station

A command is a record of its name and its keywords with their values. `Parsers` gives for
each of the agent's parsers the tag, the size of the parameter structure and the fields
the handlers branch on, a field the parser leaves alone being empty; a keyword that is
missing, or a value the parser refuses, is `WFA_FAILURE`. `Handlers` gives for each entry
of `gWfaCmdFuncTbl` its outcomes: the steps (a `set_network`, an interface taken down, a
file opened) in the order of the code, and the response with the fields it fills. A
response built in a local structure has leftovers in the others. `Responses` gives for
each entry of `wfaCmdRespProcFuncTbl` what it reads and says. `Station` applies the steps: the
supplicant and the shell are external, and are what the commands make of them: a setting
is kept (`set`), is taken over when the network is enabled (`used`), and a file is one of
`MaxFiles`. A run of steps is a recursive function, so that it can be proved about.
`StationAssumption` leaves the three commands of the streams out of the tests: they are
`TrafficAgent`'s. What stays between commands is what can make one depend on another:
`parms`, the device's `parmsVal`, which `wfaDecodeTLV` leaves as it is when the parameters
do not fit (the commands of 656 bytes against a buffer of 640), the network, the
interface, lost files, and in the agent the bytes of an incomplete response (`kept`). The
agent is modelled for both values of `WFA_PC_CONSOLE`, which decides over one handler
(`wfa_cs.c:998`). The service restarts a device that ends.

### PowerSave

One thread receives from the console and one, made for each test, sends. All they know of
the test is in globals without a lock, and they wait for each other by sleeping. Every
sleep, `recvfrom` and condition wait ends one action and begins the next, so that what
another thread or a command does in between is seen. A closed socket lives on, and keeps
the port, while a thread is blocked in it (`reading`, `bound`): it is then the old thread
that gets the messages. `wmmps_info` keeps the test, the position in the receive table and
whether a stream is named; `state_num` is the position in the send table. The console's
handlers are data: the category they take, what they echo, whether they broadcast and
whether they add a stop. The station does not tell categories apart (`WfaRcvNotCare`).

The receiving thread handles a message in up to four steps, since the main loop writes the same
globals without a lock: it takes the message off and reads the test (`Hear`, `wfa_wmmps.c:966-974`), it
looks up the function at the position of now (`LookUp`, `1006-1007`), the function does its work
(`WfaRcvProc`, `WfaRcvNotCare`, `WfaRcvStop`, `ReceiveReset`, `ReceiveIgnored`) and loads the position,
and `MovesOn` stores it (`(*state)++`, `525`, `714`). A RecvStop (`memset`, `wfa_tg.c:608`), a RecvStart
or a Reset that falls between them leaves a position the table of the test has no function for: the
thread then ignores messages until the next command. The history variable `torn` is set by a command
that comes at such a moment and cleared by the next one that does not, and `RowsKept` says that this
is the only way off the table. `SendFails` is a frame that `sendto()` refuses: the position stays.
A sender started without a stream opens a socket all the same if `findTGProfile(0)` finds a
free row (`OpenSocket`).

The network keeps the order of messages and may lose any. A run is `calm` while it is
what the sleeps of the two programs are made for: nothing is lost, what is under way
arrives before a sleep ends, the console is started while the station says hello, and
RecvStop comes when the console of its own test is done (`consoles = starts`: with three
starts, a RecvStop on the strength of the console of an earlier test loses the next start). Every
other step is a disturbance (a loss, the console's time-out, a command at any other moment, a
sleep that ends before a message came), and `MaxDisturbed` of them may come anywhere. `TestEnds`,
`StartHeard`, `OneSender` and `FramesDue` are claimed of calm runs, since the code has nothing but
its sleeps to bring them about; `RowsKept`, `SenderQuits` and `PowerStaysOff` of all.

The model is of builds with `WFA_WMM_PS_EXT` and without `WFA_WMM_AC`: with it the
station's message codes start at 38 and the console's at 20 (`wfa_wmmps.h:66`, `wfa_con.h:41`), so
that no test passes the first hello.

## Runs

| Run | Bounds | Shows |
|---|---|---|
| `Free` | 2 rows, 2 threads, 1 descriptor, 2 ids, one id per command, burst sender and transaction receiver; no habits, prompt threads | type invariant, no lost wakeup, table indexed, recorded thread is sending, ids never recycled |
| `Tests` | 3 rows, 3 threads, 3 descriptors, 5 ids, two ids per command; all habits | no fault, sockets owned, main loop listens, starts delivered, one response, report complete |
| `TestsLive` | same with 3 ids, sends that fail, bursts, a counted stream | Send answered, RecvStop answered, receivers leave |
| `Service` | one test manager, six kinds of command, unbounded in number | refinement of `CommandService` with its liveness; framing of the buffer |
| `Recovery` | two processes that end | types and buffer bounds; answers resume |
| `Station` | five tests of up to 40 commands each, every command of the agent's table in one; 2 files | own printer, nothing left printed, silence explained, station configured, open network clean, EAP used, other interfaces leave the station alone, interface comes back |
| `PowerSave` | 2 starts, 2 consoles, the first for any of 19 tests, 1 disturbance; 2 hellos, 2 stops, 2 frames of test L.1, 1 retry | rows are kept but for torn commands, what comes to the console is due, a calm test ends on both sides, starts are heard, one sender, senders quit, power save stays off |
| `TransacEnd` | all habits, transaction receivers | violation: the main loop blocks in accept() |
| `HastyReset` | all habits but `quiet` | violation: a leaving receiver erases the next start |
| `StartDelay` | all habits, a delayed sender | violation: statistics sent when a delayed stream has just begun |
| `NoReceiver` | all habits but `recvFirst` | violation: two responses to a Send |
| `RejectedSend` | a Send for an unknown stream | violation: answered COMPLETE |

Why the bounds are enough. Two streams and two threads show every pair of a poster and
a waiter, of two senders that share `runLoop` and `sendThrId`, and of a receiver that
leaves and a stream that reuses its descriptor; the third row and thread of `Tests` let a
receiver run next to two senders, and five ids let a second and a third test run on the
table of the first. `Free` has fewer descriptors than streams so that opening a socket
fails. `MaxId` bounds the ids ever handed out, `MaxBatch` the ids in one command; the
real limits (32 rows and threads) are parameters. In `ControlLink` one command is under
way at a time, so that one agent, one device and two crashes show a crash of each, of one
twice, and a crash during recovery from another. `Station` takes commands of one test in any
order and number, which is more than any pair: what an earlier command leaves can only be
in the variables, and all of them are finite. The commands are split into five tests, each with
those that change or read the same part of the state. In `PowerSave` two
starts let what one test leaves meet the next, with the first of every row of the tables;
`MaxHello`, `MaxStops`, `MaxRetry` and `Cyclic` are counters that end a loop, and each is passed at
a small value as at its own (20, 10, 3 and 3000). The base run has 131 810 states. With two
disturbances TLC finds no violation either (899 918 states), at seven times the cost. The bound on
disturbances also bounds the frames `sendto()` refuses: a sender all of whose frames are refused
repeats its entry until RecvStop, so `SenderQuits` is claimed of sends that succeed in the end. TLC does not check deadlock: a system
whose test manager sends nothing, or that has used its ids, rests.

Each passing property has a mutant in `PROJECT.json` (a dropped guard, a wrong index, a
missing reset) that TLC finds to violate it.

`InterfaceComesBack` leaves re-association out, which is wrong: `wfaStaReAssociate` formats the command
that brings the interface up and never runs it (`wfa_cs.c:226`). Two answers of `Station` are known to be wrong and are named in its properties instead of
being a finding, as no comment or doc says otherwise: `sta_set_sleep` and
`sta_set_opportunistic_ps` send 8 bytes of a longer TLV, so that the agent waits for the rest and
takes the next response for it (`wfa_cs.c:3445`, `3463`); and `wfaStaSetEapSIM` sets the key management
after it has enabled the network (`wfa_cs.c:1236`).

### Fairness

`TrafficAgent.FairSpec`: weak fairness of the main loop, of each thread and of the
alarm: they are preemptively scheduled threads and a timer, and no step of theirs waits
for a step that recurs only now and then. Nothing obliges the test manager to send, or a
send to fail. One assumption is about the network: a paced sender repeats a frame that was not sent
without a look at `runLoop` (`wfa_tg.c:1439-1454`), so that fairness of `PacedStop` is that of frames
which are sent in the end. Where every send of a socket fails, such a sender outlives the alarm and its
Send is not answered. `ControlLink.FairSpec`: weak fairness of agent, device, threads and of the
service's restarts. `InsistSpec` adds a test manager that reconnects, asks again and
gives up dead waits; it asks with strong fairness, since it could otherwise connect and
disconnect for ever. `PowerSave.Spec`: weak fairness of the two programs' threads and of the
end of RecvStop's sleep; commands, consoles, losses and time-outs need not come.

## Findings

The five violation runs, each with the comment or doc it contradicts, are in
`PROJECT.json` under `findings`. In short: a transaction receiver leaves a closed socket
in the select table; a leaving receiver erases a posted start; a short stream reports
while one with a longer start delay has just begun; thread 0 and "no sender" share one
value; an INVALID of four bytes is taken for zero streams and answered COMPLETE.

Three more places where the code goes wrong are named in the hazards, and the passing runs keep
away from them: a receiver that is stopped before it has opened its socket never leaves
(`wfa_thr.c:1023`; the habit `unhurried`), a late sender that is refused after arming the alarm leaves it
to the next test (`wfa_tg.c:1389`; no run has a late paced sender), and a re-association does
not bring the interface up (`wfa_cs.c:226`; exempted in `InterfaceComesBack`).

## Proofs

`TrafficAgentProofs` proves for all values of the constants that satisfy
`ConstantsAssumption`, whatever the habits:

- `TypeCorrect`: `[]TypeOK`. `TypeOK` is not inductive. The invariant proved is
  `TypeInv == TypeOK /\ PostInRange /\ RowHeld`: `PostInRange` says that a start being
  posted has a thread to go to (`usedThread` indexes `wmm_thr[]`), which the flag written
  by `Signal` needs; `RowHeld` says that a thread past the lookup of its stream holds a
  row of the table, which every later step that reads or writes the row needs. `TypeStep`
  has one step per action; `RangeFacts`, `RowFacts`, `IdFacts` and `LoopType` are the facts
  on ranges, rows, ids and the shared `runLoop` that they cite;
- `WakeupNeverLost`: `[]NoLostWakeup`, from types and the places of poster and thread;
- `RecordedSends`: `[]RecordedIsSending`;
- `TableStaysIndexed`: `[]TableIndexed`, from `TableSteps`, which says what any step does to the table;
- `IdsStayUnique`: the action property `IdsNeverRecycled`, from the same lemma.

`FindSlotType` (a lookup returns a row with that id or none) and `BatchType` (the ids of a
command) are stated once. Only the constants' assumption is used.

`PowerSaveProofs` proves for all values of the constants that satisfy `StationAssumption`
and `PowerSaveAssumption`, so for every list of tests and every number of starts, hellos,
stops, retries, frames and disturbances:

- `TypeCorrect`: `[]TypeOK`, and `RowsStayKept`: `[]RowsKept`, from one invariant, `TypeInv ==
  TypeOK /\ ConsoleHasTest /\ CallKept /\ RowsKept`. `TypeOK` alone is not inductive: a console that
  runs needs a test, or its position has no row to be in (`ConsoleHasTest`). `RowsKept` rests on what the
  receiving thread carries from one of its steps to the next (`CallKept`): unless a command has torn
  them apart, the test it read is still the test, the function it looked up is the one of the position,
  and the position it is to store has a function. That there is one is in the table (`HandlerPlace`):
  behind every handler that moves on there is another one, which also bounds the position when it is
  torn. `RangesStep` and `CallStep` have one step per action; `SocketsTyped` and `HearTyped` are what all
  actions on sockets keep;
- `PowerSaveStaysOff`: `[]PowerStaysOff`, from `QuietInv`: after a quiet stop there is no
  sender, and the receiver that makes one has not been woken;
- `StartsAreHeard`: `[]StartHeard`, and `OneSenderSends`: `[]OneSender`, of calm runs. Neither can be
  seen from the variables it speaks of: that the receiving thread is back at its wait rests on
  what the console has sent, what is still in a socket and where each sleep is. The invariant `Inv ==
  TypeInv /\ Links /\ StageInv` therefore follows a test through its stages,

      Ready -> Hello -> Data -> Stops -> Over -> Stopping -> Ready

  each of which says where both threads, the console, the socket and the network are. `Ready` waits
  for RecvStart; in `Hello` the name of the test is not sent, or is all that the socket holds; `Data` is
  the exchange of frames; in `Stops` a console that would take a stop has one to read, and one that is
  done has left its stop in the socket; in `Over` the last stop has closed the socket, and the receiving
  thread is out of its loop, or the console will never be done and no RecvStop is due; `Stopping` is
  RecvStop's own sleep. `Links` holds in all runs: a socket nothing keeps open is empty, a console
  that is done has nothing to read. `CalmSteps` gives what a step of a calm run is, and one
  lemma for each stage where its steps lead (`ReadyStep` to `OverStep`). None of this uses that the two
  programs' tables fit: starts are heard with any tables, since too many stops end the test too. It
  needs that there is a second stop to send (`MaxStops` at least 1 in `StationAssumption`; 10 in
  the code): with 0 the only stop closes the socket under the receiving thread;
- `FramesAreDue`: `[]FramesDue`, of calm runs. This one is about the tables. `RowEntries` says what
  a row of the station's table is, `RowsMatch` and `OtherRows` compare the tables test by test, and
  `TablesFit` states it of each entry: where the console is when everything before entry `n` has been
  read (`Place`), it takes what the entry sends, and is then at the place of the next one. Two
  tests are not entry by entry: `L.1`, which sends for a while against one entry of the console, and `M.U`,
  whose last entry is two frames. `StepsAgree` adds to each stage that the two programs are in step: in
  `Data`, the messages under way are those that bring the console from its position to the
  station's (`Underway`); the first stop finds the console where it accepts one (`StopsAgree`), and
  it is the last message that it reads (`OverAgrees`). `SentAgrees` and `HeardAgrees` keep that through a
  message that is sent and one that is read; that a sender wakes only when nothing is under
  way is what the calm run gives them.

`Inv` and `StepsAgree` were checked before they were proved: TLC finds no state of three starts, two of them of
chosen tests, and one disturbance that violates them (138 777 states).

`TrafficTestProofs` and `TrafficReportProofs` prove what holds of tests only. Each theorem names
the assumption it rests on; all of them are habits, or shapes of a profile, that the code
needs and does not check. `Tests.cfg` satisfies every one, and the violation runs show that they are
not idle: without `quiet` a start is erased (`HastyReset`), without `recvFirst` there are two
responses (`NoReceiver`), with a transaction receiver the main loop blocks (`TransacEnd`), with a
start delay the report comes early (`StartDelay`).

| Assumption | Says | Theorems |
|---|---|---|
| `OrderlyTests` | the habits `ordered` and `quiet`, `Prompt`, no more streams than threads (`wfa_main.h:24-32` gives both the same number) | `FaultFree` |
| and `PlainReceivers` | no receiver of transactions | `MainLoopKeepsListening`, `SocketsStayOwned` |
| `DeliveryTests` | `OrderlyTests`, `recvFirst`, `oneSend`, sends that do not fail; a late sender with a duration is a long one | `StartsReachThreads` |
| `ReportTests` | `DeliveryTests` and `patient` | `OneReportPerSend` |
| and `LongSenders` | senders that send until the alarm and start at once | `ReportsAreComplete` |

They are layers of one invariant:

- `OrderlyInv`: every id that somebody still uses (in a command, in a flag, alive) is in the table,
  and there are threads left for the starts to come. So no lookup fails and `usedThread` stays below
  `NumThreads`;
- `OnceInv`: a stream is started once: no two threads, and no thread and a flag, have the
  same id, and none has one that is still to be started;
- `SocketInv`: a sender's socket is open, its own, and not in the select table; the sockets in the
  table are open and listed once;
- `DeliveryInv`: the alarm is armed in a test, which lasts until `usedThread` is reset, or by a sender
  that then runs (`StartsInTest`, `AlarmSends`), so none is pending when a test begins; the threads the next starts are posted to are at rest with no flag, and while
  somebody sends or the alarm is pending every id of the test has been started;
- `ReportInv == CommandInv /\ FirstReceives /\ NotFirst /\ NoneToReport`: thread 0 always goes
  to a receiver, so that the value 0 of `sendThrId`, which also means nobody, names no sender; and
  when no Send is awaited no thread is on its way to a report;
- `Listed` and `LoopsInv`: the active streams are those of the Send, and when one sender has left
  its loop none is still to enter it.

`ControlLinkProofs` proves for every set of commands, every bound on the processes that end, with
or without a deadline:

- `TypeCorrect`: `[]TypeOK`, with the bounds of the buffers, and `FramingStaysKept`: `[]FramingKept`,
  from `LinkInv`, which counts. There are `a` responses on their way to the agent and `b` in its
  buffer, and the bytes of each place are that many whole responses with zeros between them
  (`Whole`, `StartsAt`, `Frames`); with the responses that are owed and the commands that are not
  yet read, they are no more than one for the awaited command and one for each process that ended
  (`Behind`, `Budget`). A bound on the buffer is inductive only with the
  count, and the framing only with the zeros, because the agent steps over them a word at a time;
- `ServedUntilCrash` and `ServiceImplemented`: the refinement of `CommandService`, step by step. `Stage`
  says where the one awaited command is as long as no process has ended (`StepServes` has one step
  per action). Without crashes and deadline `Spec` implements the service; with them it does until
  the first process ends, but for a wait that is given up.

`StationProofs` proves for every `Suites` that satisfies `StationAssumption`, so for any commands
with any keywords and values, in any order, for any number of files and both builds:
`StationStaysConfigured`, `OpenNetworkStaysClean`, `EapStaysUsed`, `OwnPrinterAnswers`,
`NothingLeftIsPrinted`, `OnlySilentWait`, `TypeCorrect`, and the action properties `StationLeftAlone`
and `InterfaceStaysUp`. The argument goes through three modules:

- `StationRuns`: by kind of steps, what a run of them does to the station: a network that is disabled, set
  and enabled uses what it was told; steps on another interface do nothing; only the first step
  opens a file. Induction over the length of a run is stated of a set of numbers (`Induction`), which the
  provers can instantiate;
- `StationCommands`: row by row, the tables. `ParserTags`: which name has which tag, `Rows`: which handler
  a tag has, `Printers`: which response handler answers it and which fields it reads, `CleanHandlers`: that
  the handler filled or cleared them;
- `StationProofs`: `CommandEffect` states for every tag what its handler leaves of the station, `Effect`;
  every step then keeps `StationInv == PhaseInv /\ ShapeInv /\ StationConfigured /\ ResponseInv /\
  SecurityInv`, which relates what device and agent hold to the last command: the TLV is that
  command's, the response is the answer to it, and the network is what it asked for. `parms` needs no
  invariant: the effects are proved of whatever parameters an earlier command left. `TypeInv` adds the
  files: a handler takes one only if it found room (`HandlerOpens`).

Of `StationConfigured` and `SecurityInv` the proofs need what the runs of TLC only sample: `Effect` has to
hold for every value of every keyword. Guards of the model that overlapped for values no test has
(in `WmmWord`, `Wep`, `PresetParams` and `Apply`) came to light in the proofs and were corrected.

Left to TLC, and why:

- liveness, which the prover cannot treat (no `ENABLED`): `SendAnswered`, `RecvStopAnswered`,
  `ReceiversLeave`, `AnswersResume`, `TestEnds`, `SenderQuits` and the fairness of `ServiceProvided`;
- the properties of streams outside the assumptions above, where the violation runs are.

## Not modelled, and why

- Power save: the rows of `WFA_WMM_AC`; several stations (`can_quit`); `L.1AP`; the console's own
  reset, which one station does not bring about (`expectedmsgrcdl1`); spurious wakeups; the code
  no build reaches (`wfaWmmPowerSaveProcess`, `#if 0`, and `wfa_thr.c:931-957`); `psTxMsg`, a buffer shared
  by both threads and by `wfaTGSetPrio` of other streams, and `BUILD_APTS_MSG`'s `unsigned long`
  words, which are 8 bytes on 64-bit builds (`wfa_wmmps.c:727`).
- After a lost answer to the hello, or a RecvStop in the middle of a test, the receiver stays
  in `recvfrom()` on a socket that is closed (`wfa_wmmps.c:962`) and the next start is slept through;
  `TestEnds` and `StartHeard` are therefore claimed of calm runs only.
- Power save: the steps in which a sending thread reads `sta_test`, `rcv_state` and `state_num` are one,
  as are its `state_num++` and `wfaWmmpsInitFlag`'s zero; and the flag of a stream thread that
  `WfaRcvProc` writes (`wfa_wmmps.c:522-524`).
- Statistics, payloads, addresses, priorities: no control depends on them here.
  `wfaConnectUDPPeer`'s result is not looked at by the code. Code under `WFA_VOICE_EXT` is
  not built.
- Responses that arrive in pieces (`wfa_ca.c:340`): `ControlLink` receives all that was
  sent, as the `sleep(1)` before `recv()` makes likely.
- A test manager that gives up while an answer may still come.
- What the shell commands of the handlers print, beyond whether a file is there; texts and
  addresses, beyond whether they are given. So the interface of a command whose parameters were not
  copied (`wfa_tlv.c:78`) is one that is not the station's; that such leftovers may be longer than the 16
  characters of the handlers' `ifname_s` (`wfa_cs.c:93-105`, `260-261`) is not in the model; truncation of `keyMgmtType` (`wfa_cmdproc.c:1714`), which
  copies 7 characters into 8.
- `WTG.conf` and the start of the service; `wfa_miscs.c`, whose conversions decide nothing here; the
  shell scripts.

## Plan

1. Done: `TrafficAgent`, its proofs, `CommandService`, `ControlLink`.
2. Done: `Parsers`, `Handlers`, `Responses`, `Station`; `WmmTests`, `PowerSaveStation`, `PowerSaveConsole`,
   `PowerSave`.
3. Done: `TypeOK`, `RowsKept` and `PowerStaysOff` of `PowerSave`; the framing of `ControlLink` and the safety
   part of its refinement; the habits of `TrafficAgent`'s tests; every property of `Station`; `StartHeard`, `OneSender`
   and `FramesDue` of `PowerSave`'s calm runs. Every invariant and action property that a run
   checks is stated by a theorem; liveness is what TLC alone checks.
4. Helpers of `wfa_miscs.c` as pure operators against reference definitions, and the reading of
   `WTG.conf`, if a property ever depends on them.

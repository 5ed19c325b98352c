# A verification project for the OpenFlow switch

This directory holds TLA+ specifications of the switch in this repository, the
TLC configurations that check them on small instances, and proofs for TLAPS of
what the flow tables, the pipeline, the supervision of the light link, the
control channel, the connection, the queues and the prototype promise, for
tables, packets, ports, pings and messages of any number. Every invariant and
every action property that a passing run checks is also proved; what is about
progress is only model-checked.
The reference is the code under `src/`; a comment in a module names the file it
models, and `PROJECT.json` ("map") names the lines behind every definition.

To repeat a check: `tlc -config MC_OFTableMng.cfg MC_OFTableMng.tla`; to repeat
the proofs: `tlapm` on each of the modules whose name ends in `_proofs`.

## 1. The system

The program is a set of Click elements (`src/Elements`) that make a Click
router an OpenFlow 1.4/1.5 switch. Its ports are wired, wireless (WLAN) and
visible-light (VLC) interfaces; the light link is supervised by pings and the
switch falls back to WLAN when it breaks. `src/OpenFlow.click` connects the
elements. `src/Socket` is an older, stand-alone prototype with threads of its
own and its own copies of most classes. There are no tests; what documents
there are is comments, above all in `Elements/Utilities/openflow_1_5.h`, the
OpenFlow header.

Click runs elements on one thread: a `push` to the next element is a nested
call, and timers and sockets are served between such calls. Hence most of what
is hard here is not parallelism but nesting, order, timers against late
answers, and state that outlives the message it was made for.

| Component | State | Operations | Talks to |
|---|---|---|---|
| Flow tables: `OFTable`, `OFTableFlowEntry`, `OFOXMField`, `OFAction` | a vector of shared entries: match, priority, timeout, counters, action | purge, add and sort, look a packet up from the back | table manager |
| Table manager: `OFTableMng` | two buffers of tables, active and inactive; a copy of itself per table, each with the packets it sent to the controller | FLOW_MOD (ADD only), lookup in every table, AGGREGATE_STATS, TABLE_FEATURES, TABLE_STATS | pipeline |
| Port manager: `OFPortMng` | collected port descriptions | PACKET_OUT, PORT_DESC, routing by fixed addresses and flooding | pipeline; every wrapper, by nested push |
| Pipeline: `OFPipeline` | state of the VLC port, renewal timer | dispatch, PORT_STATUS, renewal of six forwarding rules | managers, wrappers, responder |
| Interface wrapper: `OFInterfaceWrapper` | sequence numbers, tries, state of the port | ping timer, answers, PORT_STATUS | the wrapper at the other end, pipeline |
| Responder: `OFResponder` | version, role of the controller, pieces of a multipart request | HELLO, ECHO, FEATURES, CONFIG, BARRIER, ROLE, DESC | socket |
| Classifier: `OFClassifier` | none but the call stack | splits one read into messages, dispatches them | socket, responder, pipeline |
| Connection: `OFSocket` | file descriptor, the packet being written, the task of a pulling input | accept (server), read, blocking write, task, end of the connection | controller |
| Queues: `OFQueue`, `OFVLCQueue` | a FIFO, counters | push, pull, acknowledgement | pipeline, wrapper, device, VLC module |
| Prototype: `Socket/` | the shared queue, two flags, its responder's state, ports, tables, a thread per live port | reader thread, worker thread, main thread, port threads | controller, the system's list of devices |
| Physical port: `OFPhysicalPort` | a raw socket | unused by the elements | - |
| Formatting: `OFEtherEncap`, `OFHexPlotter`, `Messages`, `Shared`, `Utilities` | none | layout and printing | - |

What makes each of them correct, and hard:

- **Tables.** A packet is given to an entry of the highest priority that
  accepts it. That rests on a vector staying sorted through purges and an
  unstable `std::sort`. FLOW_MOD builds the next tables from the active ones
  and swaps; the entries are shared between the two generations. Nothing may
  be forgotten early, come back, or be counted twice.
- **Ping supervision.** A broken link must be noticed whatever answers are
  still on their way, a live one must not be reported down too early, a
  repaired one must be seen; counters wrap.
- **Rules of the timer.** Rules expire after exactly the period at which they
  are renewed; a FLOW_MOD of the controller purges them too; the timer may be
  late; the VLC rules must go when the port does.
- **Failover.** Wrapper and pipeline each hold a state of the VLC port.
- **Control channel.** Several messages in one read, multipart requests in
  pieces over several reads, roles of controllers.
- **Connection.** Partial writes, a full kernel buffer, a peer that goes.
- **Prototype.** A queue whose reads take no lock, a worker that may miss the
  start of the reader, reads that are split and queued again, and a main thread
  that deletes the pipeline under the threads of its ports.
- **Queues.** A full queue of a port ends the program, since it pushes to an
  output that `OpenFlow.click` does not connect; pings and packets share it. The
  VLC module fetches frames by acknowledging them.

`PROJECT.json` ("hazards") lists these at their lines, with the properties that
would catch each.

## 2. Modules

| Module | Models | State and actions |
|---|---|---|
| `OFTable` | `OFTable.cc`, `OFTableFlowEntry.cc` | operators only: `deleteOldFlows`, `addFlow`, `checkPacketInTable`, over a heap of entries |
| `OFTableMng` | `OFTableMng.cc` | `activTables`, `inactivTables`, heap `flows`, clock; `FlowModAdd`, `FlowModOther`, `checkPacketInFlow`, `Tick` |
| `PriorityTable` | what the manager promises | sets of entries; `Add`, `Apply`, `Tick` |
| `OFPacketIn` | `OFTableMng.cc`, extends `OFTableMng` | `buffers` of the managers' copies; `AddFlowMng`, `HandlePacket` (PACKET_IN) |
| `PortState` | port states and the byte swap | - |
| `OFInterfaceWrapper` | `OFInterfaceWrapper.cc`, both ends of a link | `run_timer`, `PingRequest`, `PingResponse`; link: `Lose`, `Break`, `Repair` |
| `OFPortMng` | `OFPortMng.cc` | `PortDescRequest`, `PacketOut`, `PacketIn` |
| `OFPipeline` | `OFPipeline.cc`, extends `OFPortMng` | `run_timer`, `FlowModAdd`, `PortStatus`, `Tick` |
| `Failover` | composition of wrapper and pipeline | the step of the wrapper that sends a PORT_STATUS is the step in which the pipeline handles it; `Packet` (what arrives on other ports) and `Controller` (FLOW_MOD, PACKET_OUT, PORT_DESC) come in between |
| `OFResponder` | `OFResponder.cc` | one action per kind of message |
| `OFClassifier` | `OFClassifier.cc`, composed with the responder | `Receive` (one read), `Handle` (one message) |
| `OFSocket` | `OFSocket.cc`, client and server, pushed to and pulling | `Accept`, `ReadMessages`, `ReadEnd`, `push`, `Write`, `WriteFails`, `RunTask`, `TaskPulls`, `TaskWouldBlock`, `TaskEnds`; the controller and the hosts that connect |
| `OFQueue` | `OFQueue.cc`, what `OpenFlow.click` puts in front of it, and what the wrapper receives and passes on | `normalMessage`, `FromPipeline`, `sendPacketToPipeline`, pings, `pull` |
| `OFVLCQueue` | `OFVLCQueue.cc` | `ToQueue`, `ACKFromVLC`, `WrongPacket` |
| `Queues` | the two queues in one router | the steps of either, until an overrun ends the program |
| `BoundedFIFO` | what a queue promises | `Put`, `Take`, `Forget` |
| `SocketMain` | `Socket/main.cc`, `TCPClient.cc` | one action per step of a thread between two accesses to what is shared |
| `SocketResponder` | `Socket/OFResponder_Test.cc`, `Socket/OFPipeline.cc` | one action per kind of message |
| `SocketPipeline` | `Socket/OFPipeline.cc`, `OFPortMng.cc`, `OFPhysicalPort.cc`, `OFTableMng.cc`, `OFTable.cc`, `TCPClient.cc` | `SocketMain` with the pipeline's ports, tables and port threads around it: `PipelineResponds`, `PortThread`, `MainJoins`, `MainCloses` |
| `*_proofs` | - | theorems, section 5 |
| `MC_*` | - | instances for TLC |

Variables have the names of the members they stand for (`activTables`,
`portDesc`, `pingTrys`, `multipartMsg`); what exists only to state a property is
marked `history`. Definitions under a comment `Mutant` are plausible mistakes
in the definition that follows them. No specification uses them; they show
that a property notices the mistake.

### Abstractions

- A match is the set of packets it accepts. An action is one that succeeds
  (`OUTPUT`, `CONTROLLER`, `DROP`) or one that the switch parses and does not carry out. TTL
  handling in the IP branch is left out (see section 6).
- The clock is in whole seconds, read once per action. FLOW_MODs carry
  APPLY_ACTIONS and name existing tables: any other table number ends the
  process (a hazard, not a state).
- In `OFPipeline` the timer's rules are a set with the seconds left to each,
  an abstraction of table 0 of `OFTableMng`, which has the lookup and the sort.
- The link of the wrappers keeps order. It loses frames only while it is down;
  since it may go down and up again between any two steps, every loss pattern
  occurs. The numbers of pings are a `uint64_t`; the model wraps after two or
  three, which is the harder case. `_pingTrys` wraps after five, not 256.
- The port state is stored in network order and compared as stored, as in the
  code (`PortState`).
- A read from the controller ends where a message ends. (The code takes
  whatever TCP delivers; the hazard at `OFSocket.cc:389` says what is lost.)
- `OFClassifier` handles one message per step although the code handles a whole
  read in one nested call; no other action is enabled in between.
- `OFSocket` numbers the packets modulo `Numbers` and writes each in
  `PacketLength` units. Upstream of a pulling input is one count of waiting
  packets with its Notifier. Hosts connect to a server only while nobody is
  served: afterwards nobody is accepted.
- `OFPacketIn` keeps the length of each buffer; what is in it is never read.
- `OFQueue` has one queue of one port. That the wrapper sends a ping at every
  timer event and answers every ping request is all that counts here; when it
  does is module `OFInterfaceWrapper`.
- A device of the prototype is the contents of the files `OFPortMng` reads of it
  (state, speed, duplex). The prototype's tables are built and stay empty: its
  responder prints FLOW_MODs and does nothing else with them.
- Undefined behaviour is a choice over what may follow: a packet deleted twice
  lets the process go on or end; memory behind a packet holds a message or not;
  a thread that uses what another has deleted may end the process.
- Contents of replies are modelled where a property needs them (type, id,
  ports, flags), byte layout never.

## 3. Runs

| Run | Instance | Distinct states | Shows |
|---|---|---|---|
| `tables` | 2 tables, 2 packets, 5 FLOW_MODs, 4 entries, clock to 3 | 800,376 | order, sharing and generations of the tables, ids of PACKET_INs without gap or repetition, nothing forgotten early or brought back, implementation of `PriorityTable` |
| `ping` | both ends ping, 3 numbers, 5 tries, 4 and 1 pings in flight | 481,644 | old answers are not confused, a break is noticed, no false alarm, a repair is seen and stays seen |
| `pipeline` | 3 ports, 2 ids, 2 PORT_DESC requests, period 5 s, timer up to 3 s late; PACKET_OUTs for every output, one too many and reserved numbers | 29,547 | two generations of rules at most, rules renewed in time, VLC rules gone after the second renewal, complete port descriptions, pushes to outputs that exist |
| `failover` | one pinging end, 2 numbers, period 2 s, timer up to 1 s late; a unicast, a broadcast, 3 PACKET_OUTs, 1 PORT_DESC request | 204,984 | no unicast packet goes to a port reported down; a lasting break is bypassed |
| `control` | reads of up to 3 messages out of 16 | 67,163 | who is answered, in what order; pieces and roles over any history of reads |
| `socket` | client and server, pushed to and pulling; packets of 3 units, a kernel buffer of 4, 2 packets per read, 3 hosts | 184,784 | the stream stays whole, every call returns and no wake-up is lost, the end is noticed, denied hosts come to nothing |
| `queues` | a port's queue of 3, 5 frames accepted, 2 received; a VLC queue of 2, 3 frames, 3 acknowledgements | 248,832 | every frame is accounted for, both queues implement `BoundedFIFO`, what is accepted is sent |
| `prototype` | 4 scripts of 5 messages, up to 3 in a read; 2 lists of devices; undefined ids are 1 | 966,689 | the half-locked queue, the order of handling, what is answered and how the switch describes itself, how the program ends |
| `expired_applied`, `second_port_desc`, `live_unused`, `paired` | as above, smaller | - | each finds the one violation listed in section 4 |

### The bounds

`tables`: four entries suffice for two of equal priority in one table next to
an older and a newer one, and a clock to 3 lets them expire in any order and be
purged by each other's ADD, with lookups before, between and after. Two of the
entries send to the controller, in different tables, so that their buffers could
get mixed. The proofs do not depend on these numbers.

`ping`: a port is reported down at the fourth timer event without an answer, so
four pings in flight are the case in which answers to all of them are still to
come. It is also sharp: with five, `RepairIsFinal` fails, because a link slower
than four periods is reported down and live in turn although it loses nothing.
The other end may have one ping in flight only to keep the instance small; the
two directions do not share state but the link.

`pipeline`: the period is 5 so that "up to three seconds late" is more than
half of it and less than all of it. Two requests are one more than the first,
which is the only one that is answered. `failover` reduces the wrapper to what
the composition adds; its liveness is about one link. What is forwarded and what
the controller sends changes neither the port's state nor its copy; one packet of
each kind, and one PORT_DESC request, let that be seen.

`control`: three messages are the least with something in front of, in and
behind a PACKET_OUT or a message of a foreign version. At most two pieces are
kept at a time (`MaxPieces`), enough for a matching and a foreign third.

`socket`: the kernel's buffer is larger than one packet and smaller than two,
so that a write may be complete, partial or impossible. Of the three hosts one is
found by both routing tables, one by DENY and one by neither; a host that only
ALLOW finds is treated like the first. Two may wait to be accepted, so that a
denied one is in front of an allowed one.

`queues`: the port's queue takes three frames and is offered five, so that it is
full, emptied and filled again, and overruns; three acknowledgements for a VLC
queue of two are one more than it may hold.

`prototype`: five messages in reads of up to three give a split read that is
split again while another read is queued behind it. One of the two lists of
devices has an entry that is no device in front of a live port, the other one
behind the loopback device: the two ways in which numbers and positions part.
The ids that are read behind a packet or never set are 1, which is also the id
of the first message of each script: the harder case. The proofs allow any.

### Fairness

- Wrapper and failover: Click's timers fire (weak fairness of `run_timer` and
  of the clock) and a frame on the link is delivered or lost in the end (the
  device and the medium). `Break` and `Repair` are under no obligation; the
  liveness properties begin with `<>[]up` or `<>[]~up`.
- Socket: the process runs (weak fairness of `Handling`); the event loop comes
  back to the socket and to the element's task although timers take turns with
  them (strong fairness of `selected` and `RunTask`: Click's select loop serves
  all of them); a controller that keeps the connection reads. Without the last
  one the switch may block for ever, see the hazard at `OFSocket.cc:527`.
- Queues: `ToDevice` pulls whenever its device takes frames (weak fairness of
  `DevicePulls`). The VLC module owes no acknowledgement.
- Prototype: the operating system runs the worker and lets the reader push what
  it has read. A key press, the end of the connection and errors may never come;
  that the program ends after a key press is not claimed, because `main` joins a
  reader that blocks until the controller sends.
- Tables, pipeline and control need none: their properties are about what no
  step may do.

Deadlock is checked except in `socket`, `queues` and `prototype`, where the
process ends or a bound is reached.

## 4. Where the code differs from its documents

Found by a run:

| Run | Code | Document (`Elements/Utilities/openflow_1_5.h`) |
|---|---|---|
| `expired_applied` | `OFTable.cc:158` passes over an entry until its timeout and applies it afterwards | :1665 "Max time before discarding" |
| `second_port_desc` | `OFPortMng.cc:62` never clears the descriptions; only the first request is answered | :2449 the reply body |
| `live_unused` | `OFPipeline.cc:181` compares a state in network order; a VLC port that came back is not used again | :357 `OFPPS_LIVE` |
| `paired` | `OFResponder.cc:460` answers with the id of another request when pieces share a read | :175 "Replies use the same id" |

Seen in the code and not the subject of a run:

- DELETE and MODIFY are dropped (`OFTableMng.cc:111`; :1630). The model has it:
  `FlowModOther`.
- An entry counts a packet when it is consulted, before any field is compared
  (`OFTableFlowEntry.cc:155`; :1351 "Number of packets matched by a flow entry"). The
  model has it: `Consulted`.
- A PACKET_OUT without an in_port reaches output 0 too (`OFPortMng.cc:168`; :81 "Ports
  are numbered starting from 1"). That output leads to the responder, which takes
  the packet for a message of an unknown version and sends it to the controller as a
  PACKET_IN. The model has it: `PacketOut`, `Outputs`.
- `REPLY_MORE` is computed from a counter of something else (`OFPortMng.cc:83`;
  :2506).
- A packet for a fixed address may leave through the port it came from
  (`OFPortMng.cc:354`; :89), and `OFPP_ALL` is an output number that does not
  exist (`OFPortMng.cc:215`; :98). The model has both.
- A ROLE_REPLY's generation is overwritten with the role
  (`OFResponder.cc:329`), and GET_CONFIG_REPLY holds constants
  (`OFResponder.cc:253`).
- Of generation ids any that differs is refused as stale (`OFResponder.cc:290`;
  :2243 "old generation_id"). The model has it: `Stale`.
- The counters of lookups and matches that TABLE_STATS reports are never
  incremented (:2802), and `max_entries`, 10000,
  is not enforced. The length of the TABLE_FEATURES reply is a `uint16_t` and
  wraps from 45 tables on. The idle timeout acts like a hard one: no packet
  renews it.
- The Ethernet type is compared unswapped, so that no TTL is ever decremented
  (`OFPipeline.cc:114`).
- The prototype refuses a role request of the master's own generation as stale
  and accepts older ones (`OFResponder_Test.cc:316`). Its SET_CONFIG handler always
  looks behind the packet (`OFResponder_Test.cc:192`); what it takes for a
  BARRIER_REQUEST there it answers with the id found there, and the worker sends that
  answer again (`Socket/main.cc:38`). The STALE error's id is never set
  (`OFResponder_Test.cc:318`). Either may be the id of a request that was answered, in
  spite of :175. The model has both: `SetConfig`, `RoleRequest`, with `Undefined`.
- `OFQueue.cc:116` pushes what a full queue cannot take to an output that
  `OpenFlow.click` leaves unconnected: the program ends. If the device stalls,
  pings alone do this. The model has it: `normalMessage`. All three interfaces of
  `OpenFlow.click` use the form with four arguments, without VLC and pings, and
  nothing there reaches `sendPacketToInterface`, so that TransmittedPackets
  stays 0.
- `OFVLCQueue` tests for an empty queue after adding to it, its `pull()` overrides
  nothing, and its ready flag is never FALSE. The model has it: `ToQueue`.
- `OFSocket.hh:55` says that LOCALIP and LOCALPORT make the socket a client;
  `configure` looks at the outputs and CLIENT only. `OFSocket.hh:39` speaks of one
  connection at a time; the process ends with the first.
- The prototype copies four bytes of a hardware address
  (`Socket/OFPhysicalPort.cc:47`) and leaves it uninitialised when the file cannot
  be read; its pipeline deletes the managers before it joins the threads that use
  them; a failure to connect is printed and the program goes on. The model has the
  latter two: `PortThread`, `setup`.
- The prototype's port manager numbers its ports from 0 (:81) and indexes them by
  number (`Socket/OFPortMng.cc:248`), which counts entries that are no ports.
  PACKET_OUT would reach it, but is only printed.
- The last piece of a multipart request is taken without a comparison with those
  that are kept (`Socket/OFResponder_Test.cc:428`, `OFResponder.cc:439`), so that it
  may be another request's. The models have it (`MultipartLast`, `Desc`);
  `PiecesOfOneRequest` speaks of the pieces that are kept.
- A broadcast goes to every port but its own, and a PACKET_OUT to the one it names,
  whatever the state of that port (`OFPortMng.cc:298`, :202): a VLC port that is
  reported down still gets both. The model has it: `Packet`, `Controller`.

## 5. What is proved

All theorems hold for every value of the constants that the named assumption of
the module allows; TLC evaluates each assumption on the instances of section 3.

### Flow tables

`OFTableMng_proofs` proves for every set of tables and
packets, every set of FLOW_MODs and all bounds, from `TableAssumption` alone
(the FLOW_MODs are well-formed and the bounds are natural numbers):

| Theorem | Property of run `tables` |
|---|---|
| `TypeCorrect` | `TypeOK` |
| `EntriesHaveOneHome` | `OneHome` |
| `GenerationsAreConsecutive` | `ConsecutiveGenerations` |
| `PriorityIsRespected` | `HighestPriorityWins` |
| `DeletionIsNotEarly` | `NoEarlyDeletion` |
| `RemovalIsFinal` | `NoResurrection` |
| `PurgeReachesEveryTable` | `PurgeIsGlobal` |
| `Refinement` | `ImplementsPriorityTable` |

The argument. None of the properties is inductive by itself. The invariant is

    IInv == TypeOK /\ TablesSorted /\ OneHome /\ ConsecutiveGenerations

`TypeOK` makes the entries of a table indices of the heap. `TablesSorted` is
what the scan from the back relies on: `HighestPriorityWins` follows from it at
every time, because the position found is the last that takes the packet and
no position before it has a higher priority. `TablesSorted` is preserved since
`deleteOldFlows` keeps the order (`DeleteOldFlowsKeeps`: the copy holds exactly
the unexpired entries, each as often as before, in their order) and since
`addFlow` sorts (`AddFlowAdds`: for every outcome the unstable sort may have,
the new table is sorted, and has the old entries and the new one).
`OneHome` needs both lemmas too, and that the new entry's index is larger than
all others. `ConsecutiveGenerations` holds after an ADD by what the copy left
out, and stays true as the clock only grows.

The action properties follow from `IInv` and one lemma on what an ADD removes
(`AddStep`). `NoResurrection` is the reason why building the copies from the
active tables matters: the inactive ones still hold what was removed.

For the implementation of `PriorityTable` an entry of a table maps to a record
of its number, priority, timeout and accepted packets; an ADD maps to `Add`, a
lookup to `Apply` of an entry among the best, the dropped FLOW_MODs and ticks to
a stutter and `Tick`. `LookupIsTotal` shows that the scan finds an entry
whenever one would take the packet.

These are theorems about `OFTableMng!Spec`, while the run checks `PacketInSpec`,
which has the managers and buffers too. `OFPacketIn_proofs` closes the gap, from
`ManagerAssumption` (the tables are numbered from 0):

| Theorem | Property of run `tables` |
|---|---|
| `ManagersKeepTables` | `PacketInSpec => Spec` |
| `ManagerKeepsPromises` | all of the above, of `PacketInSpec` |
| `BuffersStayApart` | `BuffersAreApart` |

`BuffersAreApart` needs that no two entries have the same copy of the manager and
none has the pipeline's own (`CopiesAreOwn`): each ADD makes a copy per table with
numbers that no copy had before (`CopyManagersAdds`), and the entry takes one of
them.

### Pipeline and failover

`OFPipeline_proofs`, from `PortAssumption` (three ports at least) and
`PipelineAssumption` (a positive period):

| Theorem | Property of run `pipeline` |
|---|---|
| `TypeCorrect` | `TypeOK` |
| `RulesDoNotPileUp` | `TwoGenerations` |
| `RulesAreAlwaysThere` | `RulesAreRenewed` |
| `RulesLapse` | `VLCRulesLapse` |
| `ReplyDescribesEveryPort` | `ReplyIsComplete` |

The invariant ties the age of a rule to the timer (`TwoAges`): what is left to a
rule is what is left to the timer, or that less one period. The second kind is
there only if the event before fired at the very second it was due; a late timer
finds all its rules expired. From this follow the bound on the generations, that
the rules of the last event are still there (`Fresh`), and that one event without
the VLC port leaves VLC rules of the older kind only (`OneAgeLapses`), which the
next event purges. For the reply: a request adds all descriptions or, seen from
the next request, was not made (`AllOrNone`).

`Failover_proofs`, from `WrapperAssumption` (two numbers and five tries at least)
and `FailoverAssumption` (what the pipeline assumes, and packets and PACKET_OUTs of
the kinds it knows):

| Theorem | Property |
|---|---|
| `NumbersAreNotConfused` | `AnswersAreRecent` of run `ping` |
| `NoAlarmIsFalse` | `NoFalseAlarm` of run `ping` |
| `DownPortIsAvoided` | `DownIsAvoided` of run `failover` |
| `SwitchIsWrapperAndPipeline` | `SwitchSpec => Spec /\ P!Spec` |
| `SwitchSupervises` | `AnswersAreRecent` and `NoFalseAlarm`, of the switch |
| `SwitchForwards` | what is proved of the pipeline, of the switch |

`AnswersAreRecent` needs the order of everything on the link (`AnswerInv`). What an
end remembers as answered, the responses on their way to it and its requests on
their way to the other carry, from the oldest to the youngest, first the number
before the current one and then the current one (`Chain`). A timer event takes a
new number only if the current one was answered; then all of them carry it, and
it becomes the one before. The numbers wrap, but two of them suffice to tell the
current one from the one before.

`NoFalseAlarm` follows because the tries of a live port are timer events without a
response and never more than three (`TriesAreSilent`), although the counter wraps
while the port is down. For `DownIsAvoided`, a port that goes down reports it in
the same step (`DownIsReported`), and no report makes the pipeline use the port,
because both stored states differ from `OFPPS_LIVE` in host order - the reason
why `live_unused` is violated. The theorem is about unicast packets for the addresses that
have fixed ways out, on any port; only these are routed by the port's state. `SwitchIsWrapperAndPipeline` says that every step of
the composition is one that the wrappers allow and one that the pipeline allows;
the last two theorems are what follows from it. So the rules lapse and are renewed
as proved although the port's state is what the pings make of it.

### Control channel

`OFClassifier_proofs`, from `ClassifierAssumption` (reads are sequences of messages)
and `XidAssumption` (requests and replies are paired by id, as `openflow_1_5.h:175`
says: in a read only pieces of multipart requests may share one, and the requests
that the pipeline answers have no id of those):

| Theorem | Property of run `control` |
|---|---|
| `ReadIsAnswered` | `BatchIsAnswered` |
| `PiecesBelongTogether` | `PiecesOfOneRequest` |
| `MasterStays` | `MasterIsFinal` |

The classifier goes through a read from its end. What is split off a read is always
its beginning (`SplitOffIsFront`), what is still to be handled is the front of that
(`TodoIsFront`), and the answers that are out are those to the positions behind it,
one each, in that order (`HandledAreAnswered`). Every step moves one position from
the one side to the other. The answer to a multipart request belongs to no
position, as its pieces may have come in earlier reads; `PiecesAreDesc` keeps its
id apart from those of the others. `MasterIsFinal` needs that no role is confirmed
before a controller is stored (`RolesAreStored`).

### Connection

`OFSocket_proofs`, from `SocketAssumption`, for packets and buffers of any size:

| Theorem | Property of run `socket` |
|---|---|
| `NothingIsTorn` | `StreamIsWhole` |
| `DeniedDoNotEndIt` | the safety parts of `DeniedAreHarmless` |

The stream is what the controller holds of a packet, what the kernel has and what
is still to be written, one behind the other. A write, however short, and a read
that completes no packet move the borders between the three and leave the stream
as it is; a packet that is taken grows it at the end by all its parts, and a packet
that the controller completes goes from the front (`Whole`, of any stream). That a
denied host is never served and does not end the server follows from `HostInv`,
which relates the connection to the host that was accepted.

### Queues

`Queues_proofs`, from `QueueAssumption` and `VlcQueueAssumption`:

| Theorem | Property of run `queues` |
|---|---|
| `NoFrameUnaccounted` | `FramesAreAccounted` |
| `QueuesKeepOrder` | `KeepsOrder`, the refinement of `BoundedFIFO` by either queue |

### Prototype

`SocketPipeline_proofs` proves of the three threads, for every number of messages,
every size of a read, every set of scripts and any undefined ids, from `MainAssumption`
and `UndefinedAssumption` alone:

| Theorem | Property of run `prototype` |
|---|---|
| `TypeCorrect` | `TypeOK` |
| `FrontIsStable` | `PopsWhatItHandled` |
| `MasterIsUnique` | `OneMaster` |
| `PiecesBelongTogether` | `PiecesOfOneRequest` |
| `FirstReadFirstHandled` | `HeadsInOrder` |
| `EachHasItsPlace` | `NothingLostOrDoubled` |
| `NothingUnasked` | `AnswersAreAsked` |

The invariant behind the first four is

    IInv == TypeOK /\ NothingEmpty /\ PopsWhatItHandled /\ OneMaster /\ PiecesOfOneRequest

The worker copies the front without the lock and pops later. That both are the
same packet rests on two facts: only the worker removes from the queue while the
program is sound, and whoever pushes - the reader, or the responder with what it
split off - pushes at the end (`FrontStays`). The worker's `Head` and `Tail` need
packets that are not empty: `NothingEmpty` says so of the reader's buffer and
the worker's copy, and a rest is queued only if there is one (`RestIsPacket`).
`OneMaster` holds for every order in which split role requests are handled,
because all masters are demoted before a new one is appended
(`DemotedEffect`). `PiecesOfOneRequest` is preserved because each new piece is
compared with the last one kept.

The others are invariants relative to `IInv`. For `HeadsInOrder`, `OrderInv` orders
what was handled, what the worker holds and the packets of the queue by the first
message of each, and says that a rest that is queued again holds no message that
came first in its read (`RestsHaveNoHeads`). For
`NothingLostOrDoubled`, `PlaceInv` numbers the places where a message may be - the
reader's buffer, what was handled, the packets still to be handled - and says that
each message that was read is in exactly one of them (`OnePlace`). There is one
lemma for each way in which places change, for instance a read, or the worker's
handling of a packet with a rest. It holds as long as the program is sound, that
is until a packet may have been deleted twice. For `AnswersAreAsked`, `AskInv`
counts the pieces that are kept too: each may still be answered. The ids that
SET_CONFIG's handler finds behind the packet may be any, so the theorem allows each
id two more answers for each SET_CONFIG that was handled, and none without one. The
STALE error, which has no id of its own, is not counted as an answer to one.

The run checks the program with its pipeline; the module carries the results over
and proves how the program describes itself and how it is left:

| Theorem | Property of run `prototype` |
|---|---|
| `ProgramKeepsThreads` | `PopsWhatItHandled`, `OneMaster`, `PiecesOfOneRequest` |
| `ProgramHandlesAll` | `HeadsInOrder`, `NothingLostOrDoubled`, `AnswersAreAsked` |
| `SwitchIsDescribed` | `DescribesTheSwitch` |
| `ProgramEndsOrderly` | `QuitIsOrderly` |

The program is no refinement of `SocketMain`: a port's thread that finds its
manager deleted may end the process where none of the three threads could. It
changes nothing else, so the invariant is preserved (`StepOfThreads`).
`DescribesTheSwitch`: what is described is what the constructors left
(`DescribesWhatItHas`), whenever it is asked for. That a port's number is its own
and that there is one port for each readable device is a fact about ranks: the
readable entries take the places 0, 1, ... without a gap (`PlacesAreTaken`), and
of two entries the later one has more entries before it. `QuitIsOrderly` holds
since the reader looks at `run` before each read and main goes on only when every
port's thread is joined (`QuitInv`).

### Only model-checked

All liveness properties: `BreakIsNoticed`, `RepairIsFinal`, `LossIsBypassed`,
`HandlingEnds`, `EndIsNoticed`, `AcceptedIsSent`, `HandledInTheEnd`, and of
`DeniedAreHarmless` that a host that is allowed is not kept out by denied ones.
Fairness and ENABLED are outside of the prover's reach. No invariant and no action
property of a passing run is left to TLC alone. The bounds that keep the
instances finite (`MaxTime`, `MaxFlows`, `MaxInFlight` and the like) are arbitrary
in the proofs.

## 6. Not modelled

- The TABLE_FEATURES, TABLE_STATS and AGGREGATE_STATS replies of the elements' table manager and the
  layout of all replies: no state changes, and wording is not the subject.
- Datagram and UNIX sockets and `cleanup()` of `OFSocket`: no configuration uses
  the first two, and the last only closes. Messages cut by TCP, see the
  abstractions: nothing in the code puts the pieces together, so that after a cut
  the classifier takes the middle of a message for a header, and no property of
  the control channel would survive.
- `OFPhysicalPort` of the elements: raw sockets, created by nobody.
- FLOW_MOD and PACKET_OUT of the prototype: its responder prints them. Methods of
  its tables and ports that only those would call are never reached.
- A device of the prototype without a readable address: its constructor fails to
  parse one (`Socket/OFPortMng.cc:69`), the exception ends the program, and there is
  nothing after it to model.
- FLOW_MODs for tables that do not exist (the exception ends the process) and
  entries without APPLY_ACTIONS (an uninitialised member is copied).
- Reference counts of packets: several elements kill a packet they no longer
  own.
- The TTL of the IP branch and the GROUP_FEATURES reply of `OFPipeline`: data that
  no later step reads.
- Byte counters of the wrapper, which nothing reads.
- Formatting elements and data: `OFEtherEncap` (one line of whose source is
  damaged), `OFHexPlotter`, `Messages`, `Shared`, `Utilities`.

## 7. Plan

Done, in this order of importance: tables with their abstract specification and
proofs; ping supervision; pipeline with port manager; failover as their
composition; responder with classifier; connection as client and server, pushed
to and pulling; the prototype with its pipeline; the ids and buffers of the
PACKET_INs; the queues with their abstract specification; proofs of every invariant
and action property of the passing runs.

Left, models: reads that TCP cuts, with the classifier's view of them; one
composition of classifier, table manager and pipeline, in which the timer's ADDs
and the controller's share table 0; an abstract failover ("the VLC port is used
or not") that wrapper and pipeline implement.

Left, proofs: `Failover` as an implementation of that abstract failover; the rules
of `OFPipeline` as an abstraction of table 0 of `OFTableMng`, so that
`TwoGenerations` becomes a theorem about the table itself.

---------------------------- MODULE SocketPipeline ----------------------------
(***************************************************************************)
(* The prototype with its pipeline: Socket/OFPipeline.cc, the port manager *)
(* (Socket/OFPortMng.cc, OFPhysicalPort.cc) that takes its ports from the  *)
(* devices the system lists, the table manager (Socket/OFTableMng.cc,      *)
(* OFTable.cc), whose tables stay empty, and the life of the program       *)
(* around them: a thread for every live port, the connection, and the end, *)
(* when main deletes the pipeline under its threads.                       *)
(*                                                                         *)
(* The three threads of SocketMain take their steps as they are defined    *)
(* there; here they are joined with what they do to the pipeline.          *)
(***************************************************************************)
EXTENDS SocketMain, TLC

CONSTANTS
  Listings,   (* what the directory of the devices may list                  *)
  OFPP_LOCAL  (* the number of the local port                                *)

(* A device as its files describe it; "" is an empty or unreadable file.   *)
Device == [name : STRING, operstate : {"up", "down", "unreadable"},
           speed : {"", "10", "100", "1000", "2500"}, duplex : {"", "half", "full"}]

ASSUME PipelineAssumption ==
  /\ \A l \in Listings : l \in Seq(Device)
  /\ OFPP_LOCAL \notin Nat

VARIABLES
  listing,    (* the devices in the order of the directory                   *)
  ports,      (* portsMng->_OFPhysicalPorts                                  *)
  tables,     (* tablesMng->tables                                           *)
  threads,    (* the threads of the live ports: "running", "ended", "joined" *)
  open,       (* sock is connected                                           *)
  described,  (* history: what the managers' replies said to the controller  *)
  late        (* history: reads that ended after the key was pressed         *)

portsMng == <<listing, ports>>
pipeline == <<portsMng, tables, threads>>
allVars == <<vars, pipeline, open, described, late>>

-----------------------------------------------------------------------------
(* The physical ports.                                                     *)
OFPhysicalPort(no, state, curr) == [port_no |-> no, state |-> state, curr |-> curr]

(* ofp_port_features, by the two files' contents.                          *)
Features(d) ==
  IF d.operstate = "down" \/ d.speed \notin {"10", "100", "1000"}
  THEN <<"OTHER">>
  ELSE <<d.speed, IF d.duplex = "half" THEN "HD" ELSE "FD">>

(* Every entry but the loopback device takes a number, also one whose      *)
(* operstate cannot be opened: that becomes no port.                       *)
Entries(l) == {i \in DOMAIN l : l[i].name # "lo"}

Readable(l) == {i \in Entries(l) : l[i].operstate # "unreadable"}

(* How many of the entries K come before entry i.                          *)
Before(K, i) == Cardinality({j \in K : j < i})

State(d) == IF d.operstate = "down" THEN "LINK_DOWN" ELSE "LIVE"

LocalPort == OFPhysicalPort(OFPP_LOCAL, "LIVE", <<"100", "FD">>)

(* Mutant: the number of a port is that of the live ports before it.       *)
OFPortMng_CountsLive(l) ==
  LET live == {i \in Readable(l) : State(l[i]) = "LIVE"}
  IN Append([k \in 1..Cardinality(Readable(l)) |->
               LET i == CHOOSE i \in Readable(l) : Before(Readable(l), i) = k - 1
               IN OFPhysicalPort(Before(live, i), State(l[i]), Features(l[i]))], LocalPort)

(* The entries in the directory's order, and the local port.  A device     *)
(* whose address cannot be read ends the program here, which then does     *)
(* nothing more.                                                           *)
OFPortMng(l) ==
  Append([k \in 1..Cardinality(Readable(l)) |->
            LET i == CHOOSE i \in Readable(l) : Before(Readable(l), i) = k - 1
            IN OFPhysicalPort(Before(Entries(l), i), State(l[i]), Features(l[i]))], LocalPort)

(* The descriptor is a constant: ports that are live share it.             *)
fd(p) == IF p.state = "LIVE" THEN 1 ELSE 0

HasThread(p) == p.state = "LIVE" /\ p.port_no # OFPP_LOCAL /\ fd(p) >= 0

numberOfTables == 2

OFTable(tableNo) == [table_id |-> tableNo, flowEntries |-> <<>>]

OFTableMng(n) == [i \in 1..n |-> OFTable(i - 1)]

(* setup() connects or fails, which is printed, and the program goes on.   *)
setup == BOOLEAN

(* main() builds the pipeline before it connects and starts its threads.   *)
PipelineInit ==
  /\ listing \in Listings
  /\ ports = OFPortMng(listing)
  /\ tables = OFTableMng(numberOfTables)
  /\ threads = [i \in {j \in DOMAIN ports : HasThread(ports[j])} |-> "running"]
  /\ open \in setup
  /\ described = <<>> /\ late = 0

-----------------------------------------------------------------------------
(* What the managers say.  Each is asked for everything and answers what   *)
(* it knows; an answer of the ports goes before one of the tables.         *)
DescribePorts == [i \in DOMAIN ports |-> ports[i]]

DescribeTables == [i \in DOMAIN tables |-> tables[i].table_id]

FlowCount == FoldSeq(LAMBDA t, n : n + Len(t.flowEntries), 0, tables)

(* OFPortMng::push and OFTableMng::push; <<>> is an empty packet.          *)
PortsAnswer(m) == IF m.type = "PORT_DESC" THEN DescribePorts ELSE <<>>

TablesAnswer(m) ==
  CASE m.type = "TABLE_FEATURES"  -> DescribeTables
    [] m.type = "AGGREGATE_STATS" -> <<FlowCount>>
    [] OTHER -> <<>>

Description(m) == IF PortsAnswer(m) # <<>> THEN PortsAnswer(m) ELSE TablesAnswer(m)

(* The type of the first piece decides whether the pipeline is asked, and  *)
(* the last piece is what it is asked.                                     *)
IsAsked(m) ==
  /\ m.type \in Multipart /\ ~m.more
  /\ Head(Append(multipartMsg, Piece(m))).type \in {"TABLE_FEATURES", "PORT_DESC"}

(* Once the managers are deleted nothing is known of what they say.        *)
PipelineResponds(m) ==
  described' = IF IsAsked(m) /\ open /\ Sound /\ Description(m) # <<>>
               THEN Append(described, [type |-> m.type, xid |-> m.xid, body |-> Description(m)])
               ELSE described

-----------------------------------------------------------------------------
(* The steps of the three threads.                                         *)
WorkerHandles ==
  /\ simple_action
  /\ PipelineResponds(script[Head(request)])
  /\ UNCHANGED <<pipeline, open, late>>

WorkerGoesOn ==
  /\ WorkerTests \/ WorkerLooks \/ WorkerCopies \/ WorkerPops \/ WorkerDeletes \/ WorkerCrashes
  /\ UNCHANGED <<pipeline, open, described, late>>

(* Without a connection every read fails.                                  *)
ReaderReceives ==
  /\ open /\ receive
  /\ late' = IF run THEN late ELSE late + 1
  /\ UNCHANGED <<pipeline, open, described>>

(* The end of the stream closes the socket.                                *)
ReaderIsClosed ==
  /\ open /\ receive_Closed
  /\ open' = FALSE
  /\ UNCHANGED <<pipeline, described, late>>

ReaderGoesOn ==
  /\ ReaderStarts \/ ReaderTests \/ receive_Fails \/ ReaderPushes \/ ReaderEnds
  /\ UNCHANGED <<pipeline, open, described, late>>

MainGoesOn ==
  /\ MainInput \/ MainDeletes \/ MainExits
  /\ UNCHANGED <<pipeline, open, described, late>>

(* ~OFPipeline: the managers are gone when the threads are joined, one     *)
(* after the other.                                                        *)
MainJoins ==
  /\ main = "drain"
  /\ \E i \in DOMAIN threads :
       /\ threads[i] = "ended"
       /\ \A j \in DOMAIN threads : j < i => threads[j] = "joined"
       /\ threads' = [threads EXCEPT ![i] = "joined"]
  /\ UNCHANGED <<vars, portsMng, tables, open, described, late>>

(* Mutant: the threads are forgotten like that of the queue.               *)
MainCloses_Detached ==
  /\ MainDrains
  /\ open' = FALSE
  /\ UNCHANGED <<pipeline, described, late>>

(* Then the connection is closed and the queue is drained.                 *)
MainCloses ==
  /\ \A i \in DOMAIN threads : threads[i] = "joined"
  /\ MainDrains
  /\ open' = FALSE
  /\ UNCHANGED <<pipeline, described, late>>

(* OFPipeline::selected: the thread of a port asks the first port with its *)
(* descriptor, which returns nothing, and ends.  It may find the manager   *)
(* deleted, and then anything may follow.                                  *)
PortThread ==
  /\ \E i \in DOMAIN threads :
       threads[i] = "running" /\ threads' = [threads EXCEPT ![i] = "ended"]
  /\ alive' \in IF Sound THEN {TRUE} ELSE BOOLEAN
  /\ UNCHANGED <<script, socketQueue, run, main, readerVars, workerVars,
                 portsMng, tables, open, described, late>>

-----------------------------------------------------------------------------
WorkerSteps == alive /\ (WorkerHandles \/ WorkerGoesOn) /\ UNCHANGED script

Pushes == alive /\ ReaderPushes /\ UNCHANGED <<script, pipeline, open, described, late>>

ProgramInit == Init /\ PipelineInit

ProgramNext ==
  \/ WorkerSteps
  \/ alive /\ (ReaderReceives \/ ReaderIsClosed \/ ReaderGoesOn) /\ UNCHANGED script
  \/ alive /\ (MainGoesOn \/ MainCloses) /\ UNCHANGED script
  \/ alive /\ (MainJoins \/ PortThread)

ProgramSpec == ProgramInit /\ [][ProgramNext]_allVars

(* As in SocketMain.                                                       *)
FairProgramSpec == ProgramSpec /\ WF_allVars(WorkerSteps) /\ WF_allVars(Pushes)

-----------------------------------------------------------------------------
(* Whatever pieces of other requests decided that the pipeline is asked:   *)
(* what it says answers a message that was handled, by type and id, and    *)
(* describes the switch.  Every device that can be read is a port, with a  *)
(* number of its own although the directory lists entries that are none,   *)
(* and live if it is not down; every table is there once.                  *)
DescribesTheSwitch ==
  \A d \in Range(described) :
    /\ \E i \in DOMAIN handled : script[handled[i]].type = d.type /\ script[handled[i]].xid = d.xid
    /\ d.type = "PORT_DESC" =>
         LET devices == {i \in DOMAIN listing :
                           listing[i].name # "lo" /\ listing[i].operstate # "unreadable"}
             live    == {i \in devices : listing[i].operstate # "down"}
         IN /\ Len(d.body) = Cardinality(devices) + 1
            /\ Cardinality({p.port_no : p \in Range(d.body)}) = Len(d.body)
            /\ Cardinality({p \in Range(d.body) : p.state = "LIVE"}) = Cardinality(live) + 1
    /\ d.type = "TABLE_FEATURES" => IsInjective(d.body) /\ Len(d.body) = numberOfTables

(* After the key at most one read still ends, however much the controller  *)
(* sends, and when the program is left no thread of a port is running.     *)
QuitIsOrderly ==
  /\ late <= 1
  /\ main = "exit" => \A i \in DOMAIN threads : threads[i] # "running"
=============================================================================

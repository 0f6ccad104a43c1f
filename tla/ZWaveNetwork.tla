--------------------------- MODULE ZWaveNetwork ----------------------------
(***************************************************************************)
(* ZWaveNetwork.cpp and FibaroFgr222.cpp: which nodes there are, which     *)
(* command objects each has, and what the objects remember of the node.    *)
(*                                                                         *)
(* The queue below stands for the one of ZWaveProtocol, from the side of   *)
(* its callers (see RequestQueue): requests are carried out one by one,    *)
(* perhaps more than once or, when one is given up, not at all; after a    *)
(* give-up the next one is not sent.  The nodes and the radio are          *)
(* external.  A report of a node travels in air[n] as a snapshot and       *)
(* arrives in order.                                                       *)
(***************************************************************************)
EXTENDS Integers, Sequences, FiniteSets

CONSTANTS
    Nodes,          \* the ids of the nodes in the network, the controller's too
    Listed,         \* Listed[n]: the class list of its information frame, a
                    \* sequence of bytes, up to MARK
    Start,          \* Start[n]: the parameters of the device at the beginning
    Posts,          \* the parameters a client may POST, as the getters return them
    Position,       \* the positions to which somebody may turn a shutter
    MaxPosts,       \* bound on POSTs
    MaxEvents,      \* bound on what nodes do on their own
    MaxFaults       \* bound on requests and frames lost or repeated

Controller == 1
FGR222 == 770       \* stands for manufacturer 271 and product 770

(* enum Command::Class, the classes that have a command object.            *)
BASIC == 32
CONFIGURATION == 112
MANUFACTURER_SPECIFIC == 114
MANUFACTURER_PROPRIETARY == 145
Class == {BASIC, CONFIGURATION, MANUFACTURER_SPECIFIC, MANUFACTURER_PROPRIETARY}

(* The classes of the command objects; "none" where a node has none.       *)
Kind == {"none", "BasicCommand", "ConfigCommand", "FibaroFgr222Config",
         "ManufacturerSpecificCommand", "FibaroFgr222"}

(* What a command object of a class tracks: the members value, slatTime,   *)
(* manufacturer with product and id, blinds and slat.                      *)
Members == [c \in Class |->
    CASE c = BASIC -> {"value"}
      [] c = CONFIGURATION -> {"slatTime"}
      [] c = MANUFACTURER_SPECIFIC -> {"product"}
      [] c = MANUFACTURER_PROPRIETARY -> {"blinds", "slat"}]
Param == {"value", "slatTime", "product", "blinds", "slat"}

(* A parameter that may be missing, an optional<> of the code.             *)
None == -1
Optional == Nat \cup {None}
PostParam == {"state", "dim", "position.blinds", "position.slat",
              "config.slatTime", "config.calibrate"}

ASSUME NodesAssumption ==
    /\ Nodes \subseteq 1..255
    /\ Listed \in [Nodes -> Seq(0..255)]
    /\ Start \in [Nodes -> [Param -> Nat]]
ASSUME ValuesAssumption ==
    /\ Posts \subseteq [PostParam -> Optional]
    /\ Position \subseteq Nat
ASSUME BoundsAssumption == {MaxPosts, MaxEvents, MaxFaults} \subseteq Nat

VARIABLES
    queue,          \* requests not carried out yet, in order
    stuck,          \* the one at the front was not sent
    air,            \* air[n]: frames from node n not received yet
    commands,       \* commands[n][c]: the kind of object in Node::commands
    tracked,        \* tracked[n][p]: the members of these objects
    deviceName,     \* deviceName[n]: Node::deviceName
    device,         \* device[n][p]: the parameters of the device itself
    posts, events, lost, repeats    \* how much of the bounds is used up

hostVars == <<commands, tracked, deviceName>>
vars == <<queue, stuck, air, commands, tracked, deviceName, device, posts, events,
          lost, repeats>>

-----------------------------------------------------------------------------
(* Requests and frames.  A set and a report carry the values of some       *)
(* parameters; an information frame is the same each time.                 *)
Discover == [op |-> "discover"]
Info(n) == [op |-> "info", node |-> n]
GetRequest(n, c) == [op |-> "get", node |-> n, class |-> c]
SetRequest(n, c, f) == [op |-> "set", node |-> n, class |-> c, values |-> f]

NodeInfo == [frame |-> "info"]
Report(c, f) == [frame |-> "report", class |-> c, values |-> f]

(* Slip: the flags of a report are not looked at.                          *)
UpdateAll(old, f) == [p \in Param |-> f[p]]
Update(old, f) == [p \in Param |-> IF f[p] = None THEN old[p] ELSE f[p]]
Only(f, S) == [p \in Param |-> IF p \in S THEN f[p] ELSE None]
Nothing == [p \in Param |-> None]

(* What the objects of a node do one after another: std::map orders them   *)
(* by class.                                                               *)
InClassOrder(f) == f[BASIC] \o f[CONFIGURATION]
                   \o f[MANUFACTURER_SPECIFIC] \o f[MANUFACTURER_PROPRIETARY]

-----------------------------------------------------------------------------
(* sendGet of the command objects.  That of ConfigCommand does nothing.    *)
SendGet(n, c, kind) ==
    IF kind \in {"none", "ConfigCommand"} THEN <<>> ELSE <<GetRequest(n, c)>>

(* sendSet of the command objects, given the parameters of a POST.         *)
SetBasic(n, post) ==
    LET value == IF post["dim"] # None THEN post["dim"]
                 ELSE IF post["state"] = 0 THEN 0 ELSE 255
    IN IF post["state"] = None /\ post["dim"] = None THEN <<>>
       ELSE <<SetRequest(n, BASIC, [Nothing EXCEPT !["value"] = value])>>

(* Calibration changes no parameter.                                       *)
SetConfig(n, post) ==
    IF post["config.slatTime"] # None
    THEN <<SetRequest(n, CONFIGURATION,
                [Nothing EXCEPT !["slatTime"] = post["config.slatTime"]])>>
    ELSE IF post["config.calibrate"] # None
    THEN <<SetRequest(n, CONFIGURATION, Nothing)>>
    ELSE <<>>

(* Blinds at 0 become 1 for the device when slats are to be open.          *)
SetFibaro(n, post) ==
    LET blinds == post["position.blinds"]
        slat == post["position.slat"]
        lifted == IF blinds = 0 /\ slat > 0 THEN 1 ELSE blinds
    IN IF blinds = None /\ slat = None THEN <<>>
       ELSE <<SetRequest(n, MANUFACTURER_PROPRIETARY,
                [Nothing EXCEPT !["blinds"] = lifted, !["slat"] = slat])>>

SendSet(n, kind, post) ==
    CASE kind = "BasicCommand" -> SetBasic(n, post)
      [] kind = "FibaroFgr222Config" -> SetConfig(n, post)
      [] kind = "FibaroFgr222" -> SetFibaro(n, post)
      [] OTHER -> <<>>

(* ZWaveNetwork::get: what a client's GET returns; nothing when the node   *)
(* has no command object.                                                  *)
Get(n) ==
    LET classes == {c \in Class : commands[n][c] \notin {"none", "ConfigCommand"}}
    IN Only(tracked[n], UNION {Members[c] : c \in classes})

(* The command objects of made, in place of the ones there were before;    *)
(* their members start at 0.  The other objects keep the values in old.    *)
Install(n, made, old) ==
    /\ commands' = [commands EXCEPT ![n] =
            [c \in Class |-> IF made[c] = "none" THEN @[c] ELSE made[c]]]
    /\ tracked' = [tracked EXCEPT ![n] = [p \in Param |->
            IF \E c \in Class : made[c] # "none" /\ p \in Members[c]
            THEN 0 ELSE old[p]]]

-----------------------------------------------------------------------------
(* The constructor asks for the nodes.                                     *)
Init ==
    /\ queue = <<Discover>>
    /\ stuck = FALSE
    /\ air = [n \in Nodes |-> <<>>]
    /\ commands = [n \in Nodes |-> [c \in Class |-> "none"]]
    /\ tracked = [n \in Nodes |-> [p \in Param |-> 0]]
    /\ deviceName = [n \in Nodes |-> ""]
    /\ device = Start
    /\ posts = 0 /\ events = 0 /\ lost = 0 /\ repeats = 0

(* A POST of a client: sendSet.  It answers false and does nothing when    *)
(* the node has no command object yet.  The slat time is not reported by   *)
(* the device and therefore set directly.                                  *)
SendSetParameters(n, post) ==
    /\ posts < MaxPosts
    /\ \E c \in Class : commands[n][c] # "none"
    /\ queue' = queue \o
            InClassOrder([c \in Class |-> SendSet(n, commands[n][c], post)])
    /\ tracked' = IF commands[n][CONFIGURATION] = "FibaroFgr222Config"
                     /\ post["config.slatTime"] # None
                  THEN [tracked EXCEPT ![n].slatTime = post["config.slatTime"]]
                  ELSE tracked
    /\ posts' = posts + 1
    /\ UNCHANGED <<stuck, air, commands, deviceName, device, events, lost, repeats>>

-----------------------------------------------------------------------------
(* The controller answers SERIAL_API_GET_INIT_DATA: onResponse asks for    *)
(* the information frame of each other node, in the order of their ids.    *)
OnResponse ==
    LET others == Nodes \ {Controller}
    IN /\ queue # <<>> /\ ~stuck /\ Head(queue).op = "discover"
       /\ \E found \in [1..Cardinality(others) -> others] :
            /\ \A i, j \in DOMAIN found : i < j => found[i] < found[j]
            /\ \A n \in others : \E i \in DOMAIN found : found[i] = n
            /\ queue' = Tail(queue) \o [i \in DOMAIN found |-> Info(found[i])]
       /\ UNCHANGED <<stuck, air, hostVars, device, posts, events, lost, repeats>>

(* A node carries out the request at the front.  (External.)  A set of     *)
(* positions is reported, one of a configuration never is, a basic one is  *)
(* when the device likes to.                                               *)
Answer(r) ==
    CASE r.op = "info" -> {<<NodeInfo>>}
      [] r.op = "get" -> {<<Report(r.class, Only(device[r.node], Members[r.class]))>>}
      [] r.op = "set" /\ r.class = BASIC -> {<<>>, <<Report(r.class, r.values)>>}
      [] r.op = "set" /\ r.class = MANUFACTURER_PROPRIETARY ->
            {<<Report(r.class, r.values)>>}
      [] OTHER -> {<<>>}

CarryOut(r) ==
    /\ \E answer \in Answer(r) :
            air' = [air EXCEPT ![r.node] = @ \o answer]
    /\ device' = IF r.op = "set"
                 THEN [device EXCEPT ![r.node] = Update(@, r.values)]
                 ELSE device
    /\ UNCHANGED <<stuck, hostVars, posts, events>>

Deliver ==
    /\ queue # <<>> /\ ~stuck /\ Head(queue).op # "discover"
    /\ CarryOut(Head(queue))
    /\ queue' = Tail(queue)
    /\ UNCHANGED <<lost, repeats>>

(* The protocol sends the front request again although the node got it.    *)
Repeat ==
    /\ lost + repeats < MaxFaults
    /\ queue # <<>> /\ ~stuck /\ Head(queue).op # "discover"
    /\ CarryOut(Head(queue))
    /\ repeats' = repeats + 1
    /\ UNCHANGED <<queue, lost>>

-----------------------------------------------------------------------------
(* onRequest, ZW_APPLICATION_UPDATE, with updateNode.  The begin of the    *)
(* frame is passed instead of the begin of the class list, together with   *)
(* the length of the list.                                                 *)
Header(n) == <<73, 132, n, 3 + Len(Listed[n]), 4, 17, 0>>

Classes(n) ==
    LET data == Header(n) \o Listed[n]
    IN {data[i] : i \in 1..Len(Listed[n])}

Generic(c) ==
    CASE c = BASIC -> "BasicCommand"
      [] c = CONFIGURATION -> "ConfigCommand"
      [] c = MANUFACTURER_SPECIFIC -> "ManufacturerSpecificCommand"
      [] c = MANUFACTURER_PROPRIETARY -> "none"

UpdateNode(n) ==
    LET made == [c \in Class |->
                    IF c \in Classes(n) THEN Generic(c) ELSE "none"]
    IN /\ Install(n, made, tracked[n])
       /\ queue' = queue \o
            InClassOrder([c \in Class |-> SendGet(n, c, commands'[n][c])])
       /\ UNCHANGED deviceName

ReceiveNodeInfo(n) ==
    /\ air[n] # <<>> /\ Head(air[n]).frame = "info"
    /\ air' = [air EXCEPT ![n] = Tail(@)]
    /\ UpdateNode(n)
    /\ UNCHANGED <<stuck, device, posts, events, lost, repeats>>

(* onRequest, APPLICATION_COMMAND_HANDLER, with onCommand of the object    *)
(* that the node has for the class of the report.                          *)
ReceiveReport(n) ==
    /\ air[n] # <<>> /\ Head(air[n]).frame = "report"
    /\ air' = [air EXCEPT ![n] = Tail(@)]
    /\ UNCHANGED <<stuck, device, posts, events, lost, repeats>>

(* No object: find() fails.  A plain ConfigCommand: its onWord is empty.   *)
Ignore(n) ==
    /\ ReceiveReport(n)
    /\ commands[n][Head(air[n]).class] \in {"none", "ConfigCommand"}
    /\ UNCHANGED <<queue, hostVars>>

(* BasicCommand, FibaroFgr222Config::onWord, FibaroFgr222::onCommand: the  *)
(* values that the report has are remembered.                              *)
Track(n) ==
    /\ ReceiveReport(n)
    /\ commands[n][Head(air[n]).class]
            \in {"BasicCommand", "FibaroFgr222Config", "FibaroFgr222"}
    /\ tracked' = [tracked EXCEPT ![n] = Update(@, Head(air[n]).values)]
    /\ UNCHANGED <<queue, commands, deviceName>>

(* ManufacturerSpecificCommand: a known device gets its own objects, and   *)
(* the current state of these is asked for.                                *)
Fibaro(c) ==
    CASE c = CONFIGURATION -> "FibaroFgr222Config"
      [] c = MANUFACTURER_PROPRIETARY -> "FibaroFgr222"
      [] OTHER -> "none"

(* Slip: the new objects are not asked for their state.                    *)
KnownDeviceSilent(n, product) ==
    /\ product = FGR222
    /\ deviceName' = [deviceName EXCEPT ![n] = "Fibaro FGR-222"]
    /\ Install(n, [c \in Class |-> Fibaro(c)],
               [tracked[n] EXCEPT !.product = product])
    /\ UNCHANGED queue

(* Slip: a node that is known already keeps the objects it has.            *)
KnownDeviceOnce(n, product) ==
    LET made == [c \in Class |->
                    IF deviceName[n] = "" THEN Fibaro(c) ELSE "none"]
    IN /\ product = FGR222
       /\ deviceName' = [deviceName EXCEPT ![n] = "Fibaro FGR-222"]
       /\ Install(n, made, [tracked[n] EXCEPT !.product = product])
       /\ queue' = queue \o
            InClassOrder([c \in Class |-> SendGet(n, c, made[c])])

(* Slip: all objects are asked, as in updateNode.                          *)
KnownDeviceAsksAll(n, product) ==
    /\ product = FGR222
    /\ deviceName' = [deviceName EXCEPT ![n] = "Fibaro FGR-222"]
    /\ Install(n, [c \in Class |-> Fibaro(c)],
               [tracked[n] EXCEPT !.product = product])
    /\ queue' = queue \o
            InClassOrder([c \in Class |-> SendGet(n, c, commands'[n][c])])

KnownDevice(n, product) ==
    LET made == [c \in Class |-> Fibaro(c)]
    IN /\ product = FGR222
       /\ deviceName' = [deviceName EXCEPT ![n] = "Fibaro FGR-222"]
       /\ Install(n, made, [tracked[n] EXCEPT !.product = product])
       /\ queue' = queue \o
            InClassOrder([c \in Class |-> SendGet(n, c, made[c])])

UnknownDevice(n, product) ==
    /\ product # FGR222
    /\ tracked' = [tracked EXCEPT ![n].product = product]
    /\ UNCHANGED <<queue, commands, deviceName>>

Identify(n) ==
    /\ ReceiveReport(n)
    /\ commands[n][Head(air[n]).class] = "ManufacturerSpecificCommand"
    /\ \/ KnownDevice(n, Head(air[n]).values.product)
       \/ UnknownDevice(n, Head(air[n]).values.product)

-----------------------------------------------------------------------------
(* What nodes do on their own (external): somebody presses a button on the *)
(* shutter and it reports what has changed; a node is included again, or   *)
(* has its button pressed, and sends its information frame.                *)
Turn(n, p, v) ==
    /\ events < MaxEvents
    /\ device[n].product = FGR222
    /\ device[n][p] # v
    /\ device' = [device EXCEPT ![n][p] = v]
    /\ air' = [air EXCEPT ![n] =
            Append(@, Report(MANUFACTURER_PROPRIETARY, [Nothing EXCEPT ![p] = v]))]
    /\ events' = events + 1
    /\ UNCHANGED <<queue, stuck, hostVars, posts, lost, repeats>>

Announce(n) ==
    /\ events < MaxEvents
    /\ n # Controller
    /\ air' = [air EXCEPT ![n] = Append(@, NodeInfo)]
    /\ events' = events + 1
    /\ UNCHANGED <<queue, stuck, hostVars, device, posts, lost, repeats>>

(* The protocol gives the request at the front up.  resendRequest does not *)
(* send the one behind it, and sendRequest sends into an empty queue only. *)
LoseRequest ==
    /\ lost + repeats < MaxFaults
    /\ queue # <<>> /\ ~stuck
    /\ queue' = Tail(queue)
    /\ stuck' = (Tail(queue) # <<>>)
    /\ lost' = lost + 1
    /\ UNCHANGED <<air, hostVars, device, posts, events, repeats>>

(* A late NACK or expiry makes resendRequest send the front request after  *)
(* all, or a late answer to the one given up ends it unsent, and the next  *)
(* one is sent.                                                            *)
Stray ==
    /\ stuck /\ queue # <<>>
    /\ stuck' = FALSE
    /\ \/ UNCHANGED queue
       \/ queue' = Tail(queue)
    /\ UNCHANGED <<air, hostVars, device, posts, events, lost, repeats>>

(* A frame is lost on the radio.                                           *)
LoseFrame(n) ==
    /\ lost + repeats < MaxFaults
    /\ air[n] # <<>>
    /\ air' = [air EXCEPT ![n] = Tail(@)]
    /\ lost' = lost + 1
    /\ UNCHANGED <<queue, stuck, hostVars, device, posts, events, repeats>>

-----------------------------------------------------------------------------
Receive == \E n \in Nodes : ReceiveNodeInfo(n) \/ Ignore(n) \/ Track(n) \/ Identify(n)

Next ==
    \/ OnResponse \/ Deliver \/ Repeat \/ LoseRequest \/ Stray
    \/ Receive
    \/ \E n \in Nodes :
        \/ Announce(n) \/ LoseFrame(n)
        \/ \E post \in Posts : SendSetParameters(n, post)
        \/ \E p \in Members[MANUFACTURER_PROPRIETARY], v \in Position : Turn(n, p, v)

Spec == Init /\ [][Next]_vars

(* The protocol carries out the request it has sent, or gives it up, and   *)
(* the loop reads what arrives.  Behind a give-up nothing must happen.     *)
FairSpec == Spec /\ WF_vars(OnResponse \/ Deliver) /\ WF_vars(Receive)
-----------------------------------------------------------------------------
(* TypeOK: every variable has its type.  An object of each class is of one *)
(* that can be made for it.                                                *)
KindOf(c) ==
    CASE c = BASIC -> {"none", "BasicCommand"}
      [] c = CONFIGURATION -> {"none", "ConfigCommand", "FibaroFgr222Config"}
      [] c = MANUFACTURER_SPECIFIC -> {"none", "ManufacturerSpecificCommand"}
      [] c = MANUFACTURER_PROPRIETARY -> {"none", "FibaroFgr222"}

Values == [Param -> Optional]
Request == {Discover} \cup [op : {"info"}, node : Nodes]
    \cup [op : {"get"}, node : Nodes, class : Class]
    \cup [op : {"set"}, node : Nodes, class : Class, values : Values]
Frame == {NodeInfo} \cup [frame : {"report"}, class : Class, values : Values]

TypeOK ==
    /\ queue \in Seq(Request)
    /\ stuck \in BOOLEAN
    /\ air \in [Nodes -> Seq(Frame)]
    /\ commands \in [Nodes -> [Class -> Kind]]
    /\ \A n \in Nodes, c \in Class : commands[n][c] \in KindOf(c)
    /\ tracked \in [Nodes -> [Param -> Nat]]
    /\ deviceName \in [Nodes -> {"", "Fibaro FGR-222"}]
    /\ device \in [Nodes -> [Param -> Nat]]
    /\ posts \in 0..MaxPosts /\ events \in 0..MaxEvents
    /\ lost \in 0..MaxFaults /\ repeats \in 0..MaxFaults

-----------------------------------------------------------------------------
Quiet == queue = <<>> /\ \A n \in Nodes : air[n] = <<>>

(* QuietGetIsTrue: when all requests are done, all frames have been        *)
(* received and none was lost, a GET returns what the device is really     *)
(* set to, for everything that the device reports when it changes: product *)
(* and positions.  ZWaveNetwork::get and onCommand must not leave an old   *)
(* value, nor the 0 of a new command object.                               *)
QuietGetIsTrue ==
    Quiet /\ lost = 0 =>
        \A n \in Nodes, p \in {"product", "blinds", "slat"} :
            Get(n)[p] \in {None, device[n][p]}

(* QuietTable: then each FGR-222 whose frame led updateNode to ask for the *)
(* manufacturer has its own command objects, also when it sent its frame   *)
(* again, which puts a plain ConfigCommand in their place.                 *)
QuietTable ==
    Quiet /\ lost = 0 =>
        \A n \in Nodes \ {Controller} :
            MANUFACTURER_SPECIFIC \in Classes(n) /\ device[n].product = FGR222 =>
                /\ commands[n][CONFIGURATION] = "FibaroFgr222Config"
                /\ commands[n][MANUFACTURER_PROPRIETARY] = "FibaroFgr222"
                /\ deviceName[n] = "Fibaro FGR-222"

(* Settles: the gets that frames and reports set off come to an end: when  *)
(* clients and nodes do nothing more, all frames have been received, and   *)
(* the queue is empty for good, or stuck behind a request that was given   *)
(* up: then ZWaveProtocol may send nothing any more.                       *)
Settles == <>[]((queue = <<>> \/ stuck) /\ \A n \in Nodes : air[n] = <<>>)
=============================================================================

# A verification of Coconut

Coconut connects sensors on a 6LoWPAN radio network, through a home gateway, to a cloud.
This directory holds TLA+ models of it, the TLC configurations that check them on small
instances, and proofs, checked by TLAPS, of what holds for every instance. Paths below are
relative to the repository; `proxy/` stands for
`gateway/openwrt/openwrt-yun/package/network/services/sensor-proxy/src/`,
`sensor/` for `sensor/6lowpan/sensor/`, `contiki/` for `sensor/6lowpan/contiki-sensinode/`,
`server/` for `cloud/network_server/`.

## 1. The system

| part | source | state it keeps | operations |
|---|---|---|---|
| sensor firmware: join and report | `sensor/main.c`, `crypto.c`, `message.c` | `auth_success`, `reg_success`, `network_shared_key`, `master_key` (all in RAM) | timer (hello, register, report), server hello, error, data, boot |
| sensor firmware: objects | `sensor/object.c`, `resource.c`, `subscriber.c`, `device.c`, `policy.c` | lists over memory pools of two blocks | insert, find, subscribe, unsubscribe, set and get resources, policies |
| gateway proxy | `proxy/sensor_proxy.c`, `session.c`, `crypto.c`, `message.c` | the network key, the session list, the last source address, the websocket | client hello, sensor data, AUTH answer, other answer, answer without session, reconnect, start |
| border router | `gateway/contiki/border-router/`, `contiki/core/net/rpl/`, `contiki/tools/tunslip6.c` | `prefix_set`, the DAGs of RPL, addresses, routes | ask for a prefix, take it, become root with it; hear a DIO or a DAO, lose a link; boot |
| serial line of the border router | `contiki/core/dev/slip.c`, `contiki/core/sys/process.c` | a ring of bytes with three indices, a state, a poll flag | a byte comes (interrupt), the process is polled |
| network server, device side | `server/handler/device_handler.py` | `clients`, the open coroutines, device documents and history | open, message (AUTH, NEW_DEVICE, REPORT, GET_CONFIG, LOG), close |
| network server, app side | `server/handler/app_rpc_handler.py`, `device_handler.py:207-429` | the table of transactions of a connection | get and set resources and policies, answer |
| message codec | `server/lib/ws_message/message.py` | none | build, parse |
| app server | `cloud/app_server/handler/`, `model/`, `lib/session.py` | device documents, policies, users, sessions, cookies | add, view and configure a device, policies, login |

How they interact. A sensor talks to the proxy in UDP datagrams, which the radio loses, repeats
and reorders. The proxy talks to the network server over one websocket, in order, until it
breaks. The network server answers each request from a coroutine of its own, which waits for the
database. The app server shares that database and calls the network server by JSON-RPC.

The border router is the root of the radio network: a microcontroller on a serial line (SLIP) to the
gateway, where `tunslip6` tells it the prefix to use and forwards packets.

A join. The sensor says hello with its password, encrypted for the cloud or, if it has one, with a
network key. The proxy asks the server (AUTH), which compares the password and returns it. The
proxy makes a master key of the password and the random number of the hello, encrypts the network
key with it and sends a server hello. The sensor decrypts it, registers its objects (NEW_DEVICE),
and then reports (REPORT).

What is hard about it:

- every answer of the proxy, also the late ones of the server, goes to the source of the *last*
  datagram (`sensor_proxy.c:167`, `:434`, `:477`), not to the session it concerns;
- nothing a sensor decrypts is checked: a wrong key gives bytes that are used as a key
  (`main.c:508-519`);
- `new_session` links past the head, so the list has one session and a new sensor evicts the
  former (`session.c:16`);
- each start of the proxy draws a new key under the same version, 1 (`crypto.c:29`);
- server requests finish in any order, also after their connection is gone
  (`device_handler.py:459`), and `open` and `on_close` race on `clients`;
- sensors and proxy keep everything in RAM and restart independently;
- both servers read a device's document, wait, and write it back whole
  (`device_handler.py:106-136`), no index keeps device ids unique, and a sensor sends the reports
  of its objects back to back;
- the serial interrupt and the process that empties its ring share indices of two bytes without a lock,
  on a processor that stores one byte at a time (`slip.c:209-240`);
- the border router asks for its prefix every second until an answer comes, so more come than it needs,
  each of which rebuilds its DAG; its tables hold two DAGs (`border-router.c:128`, `rpl-dag.c:431`);
- the same tables are written when the router hears DIOs, of its own DAGs at versions from before it rebooted,
  and of others (`rpl-dag.c:1089-1228`);
- sensor and gateway lay a C struct over a message, the server puts bytes together in Python: byte
  order and bit order must meet.

What makes each part correct:

- sensor: its beliefs (joined, registered) are true; its reports are acceptable; it never stays in
  the network with a key nobody has;
- proxy: it gives the network key only for a password the server confirmed, and marks a session
  authenticated only for the device it serves; it tells a sensor what it must do to rejoin;
- server: it confirms only devices of the gateway's owner; what it confirmed is stored;
- all together: only the owner's devices ever hold a key; a sensor alone in its network joins and
  its reports arrive once faults end;
- codec: what is parsed is what was built;
- device documents: one owner a device, and no update lost;
- serial line: packets come out whole, apart, in order, and each is noticed;
- border router: once it has a prefix it stays root with it, a DAG that is rebuilt is told from the old one,
  and no version that its nodes have is newer than its own for long;
- lists over pools: no block is linked that is free, none is lost.

## 2. The modules

| module | what it models |
|---|---|
| `CoconutNet` | constants, messages, keys; the radio (a set of datagrams a direction) and the websocket (a queue a direction) |
| `SensorNode` | the sensor's process thread and message handler |
| `SensorProxy` | the proxy's main loop, one action for each branch |
| `NetworkServer` | `open`, `on_message`, `on_close` and the handlers, as concurrent coroutines |
| `Coconut` | the parts together, losses, broken connections, restarts; properties; fairness |
| `JoinService` | what the join promises, without messages |
| `CoconutProofs` | theorems about `Coconut` and their proofs |
| `SoloProofs` | theorems about a sensor alone, upon the lemmas of `CoconutProofs` |
| `DeviceRegistry` | the documents of one device under the calls of both servers, cut at their waits |
| `ObjectStore` | what the gateways expect of the documents: each call is one step |
| `DeviceProofs` | theorems about `DeviceRegistry` and their proofs |
| `WsCodec` | message headers in C and in Python |
| `WsCodecProofs` | theorems about `WsCodec` and their proofs |
| `SlipLine` | the serial line: interrupt and process, step by step |
| `PacketQueue` | what the serial line promises: a queue of two packets |
| `SlipProofs` | theorems about `SlipLine` and their proofs |
| `SlipQueueProofs` | that `SlipLine` implements `PacketQueue` |
| `BorderRouter` | the prefix loop, the tables of RPL, the DIOs and DAOs that change them, the host and the line to it |
| `Lollipop` | the versions of a DAG: which comes next, which is newer |
| `RootService` | what the nodes expect of a border router: a root that remembers versions and outbids those it hears |
| `BorderProofs` | theorems about `BorderRouter` and their proofs |
| `MCCoconut`, `MCDeviceRegistry`, `MCWsCodec`, `MCSlipLine`, `MCBorderRouter` | the instances for TLC |

### The join protocol

State. `network_shared_key[s]`, `auth_success[s]`, `reg_success[s]` and `random_num[s]` are the
globals of the firmware of `s`. `sessions` is the linked list from `header` on, `addr` the variable
of that name in `main`, `g_network_shared_key` the key. `entry` says whether `clients` has the
gateway; `opening` and `closing` count the `open` coroutines that wait and the closes the server
has not noticed; `running` holds the requests in progress, each with whether its connection is up;
`registered` the devices with stored objects and `reported` those with a history.

Actions. `Timer` is the body of `if(etimer_expired(&et))`. `RecvServerHello`, `RecvError` and
`RecvData` are the three branches of `message_handler`. `HandleClientHello` and
`HandleSensorData` are the two branches of the proxy's loop for datagrams, with whatever each
writes or sends; `HandleAuthReply`, `HandleDataReply` and `HandleOrphanReply` the three for
websocket messages. `Accept` runs `on_message` until the handler waits, `DeviceAuth`,
`DeviceNew` and `DeviceReport` the rest of a handler and the answer; a request is checked at the
moment it ends, which is one of the orders the database allows. `Connect`, `Break`, `Restart`
and `Reboot` are the environment's. `PROJECT.json` names the lines of each definition.

Data. A key is the number of the start that drew it; `Junk` stands for 16 bytes that come of a wrong
decryption. A password is its owner; a master key the pair of password and random number. A report
is one message: objects and values are left out, and so are the lengths, the padding and the bit
layout of headers (a gateway and sensors of one byte order are assumed). A datagram of a kind no
part of the code sends is not in flight.

Abstractions a reader should know of:

- `websocket_write` succeeds or fails as a whole (`CanWrite`); a write that is reported failed and
  flushed later is not modelled;
- a `sendto` that fails is a datagram lost; its effect on `auth_flag` (`sensor_proxy.c:439`) is not
  modelled;
- the database neither fails nor changes its devices; `Added` and `Valid` are constants;
- the decryptions of OpenSSL and of the radio chip do not fail;
- two equal requests of one connection are worked on one after the other (`Accept`);
- a connection with an unknown license is not modelled;
- a sensor's address is its device id: a session found by address (`sensor_proxy.c:178`) is that of the device,
  and the assignment of the id at `:199` never overwrites another one's.

### The device documents

State. `docs` holds the documents of one device; its order means nothing, as `find_one` and `update`
take any document that matches. `call[c]` is a request in progress: its kind, its user, the objects
it is about, the operation of the database it waits for (`step`), the document it read (`read`) and
the calls acknowledged before it began (`prior`, a history variable). `listed` holds the users whose
cookie lists the device. Devices are independent: every query and update names its device.

Actions. `Begin` takes a request up to its first wait. `AddFind`, `AddFactory` and `AddInsert` are the
parts of `DeviceAddHandler.post` between its waits, `NewFind` and `NewWrite` those of `device_new`,
`ReportFind`, `ReportWrite` and `ReportStats` those of `device_report`; `Fail` ends a call without
effect. `Login` is `do_login`, as far as the list of devices goes. After its insertion an add always
fails, for the document in the cookie holds an `ObjectId` (`AddInsert`).

Data. The value of an object is the call that wrote it. A registration writes the values of all
objects, a report that of one, as the firmware sends them. A report whose object is not there ends
in a `KeyError`, as it does in the code; so `Reported` is a set of at most one document.
A gateway's license does not change while a call runs, so the user is chosen as the call begins; a
call whose gateway is gone by then is among those that `Fail`.

### The codec

`DeviceBuild` and `DeviceParse` are the structs of `message.h`, `build_message` and `parse_message` the
Python functions. The device is a sensor, little-endian, and so is the server; a gateway may be either
(ar71xx is big-endian), and passes what sensors send as it came. What a gateway builds by itself is a
request of its own byte order, and on a big-endian one is outside this model. Parameters are their
length, the method and the device id are bytes that are copied. A device sends requests and responses;
the server answers what it parsed. The answer's id is written with its bytes exchanged, so the device
gets another number than it sent (`message.py:341`); nothing in the code compares ids there, and no
property speaks of it.

### The serial line

State. `state`, `begin`, `end`, `pkt_end` and `rxbuf` are those of `slip.c`; `needspoll` is the flag of the
process, `pc` the place in `slip_poll_handler`, `at` and `outbuf` its index and the bytes it has copied.
`line` counts frames and bytes as they come, and is what a byte is known by: a cell of `rxbuf` holds
which byte of which frame it is, so that merging, cutting or overtaking show.

Actions. `Interrupt` is one call of `slip_input_byte`, with a disjunct for each branch. It may come
between any two of the process' steps: `Poll`, the test for a greeting (`Greeting`, `NoGreeting`), the
test for a packet (`Test`), each byte of the copy (`Copy`), the two bytes of the assignment to `begin`
(`Release`, `Released`), and the check for a second packet (`Second`).

Abstractions. The greeting `CLIENT` is one symbol, and flushing it one step, for `state` keeps the
interrupt out meanwhile. Values of bytes are not tracked. A comparison of two indices is atomic; only
stores are cut. A packet too long for `uip_buf` is held in `outbuf` so that `queue` can name it, and is
not delivered, as in the code. `Burst` bounds the bytes that come between the release of a packet and the
check for a second one.

### The border router

State. `prefix_set`, `dag_table`, `current_dag`, `addresses` (of `uip_ds6_if`) and `routes` are those of
the router; `questions` and `answers` are on the serial line, of which `PacketQueue` says that it keeps
the order and may lose; `host` is the prefix `tunslip6` was started with. A DAG in `dag_table` has its id, its
version, whether it is joined, and whether the router's rank in it is that of a root. `seen`, `last` and `met` are
history: the prefixes taken since the boot, the last one, and the DAGs heard of before their prefix was taken.

Actions. `RequestPrefix` is the body of the loop in `border_router_process`; `RecvPrefix` is
`slip_input_callback` with `set_prefix_64`, and what `rpl_set_root` and `rpl_set_prefix` change (`NewRoot`,
or `NoRoot` when the table is full). A question is asked again whether or not one is on its way, and an
answer is taken whether or not a prefix is set. `AnswerPrefix` is `tunslip6`.

`RecvDio` is `rpl_process_dio`: without an instance the router joins the DAG it hears of (`JoinInstance`), with one
it adds the DAG to its table (`AddDag`; a full table costs the instance) or looks what is new about it
(`KnownDag`: a root that hears a newer version of its DAG takes the one after that; any other router takes the
version and repairs). `ParentEvent` is `rpl_process_parent_event` with `rpl_select_dag` and the local repair, on
news of a parent; `RecalculateRanks` runs it when a link has changed. `Dao` and `NoPathDao` are `dao_input`, with
its checks of the instance, the DAG and the room for a route; `PurgeRoute` is a route that runs out or whose
next hop is lost. `Reboot`, `Lose` and `RestartHost` are the environment's.

Abstractions.

- A DAG is known by its prefix: two routers on the air with one prefix would have two DAG ids in the code.
- Ranks and parents are left out but for the root's rank: which parent is best, and whether one is accepted, is a
  choice (`ParentEvent` has every outcome the code may have). A DIO has at least the rank of a root. Parents of a DAG
  that was left stay allocated in the code (`rpl_free_dag` frees those of a joined one); here a DIO may find no room for
  its parent at any time.
- DAOs name their DAG (`RPL_DAO_SPECIFY_DAG` is set wherever an instance may have two DAGs, `rpl-conf.h:107`). The loop
  check of `dao_input` asks for a parent of lower rank; a root has none, and for other routers a DAO that is
  ignored is one that does not come.
- The default route, DIS, timers, and what the router sends are left out, and so is `last_sender`, which decides what
  goes back to the host.
- `RPL_LOLLIPOP_INCREMENT` masks a value nobody takes, so a version counts through its byte.

What a router does that hears another router's DAG. Before it has a prefix it joins, as any node does. As a root, it
adds the DAG to its table, and `rpl_select_dag` computes the rank of the best DAG, its own, from a parent it does not
have (`rpl-dag.c:620`): the rank is infinite, all DAGs are repaired, and the router keeps its prefix but is root no more,
until an answer comes, which it no longer asks for. The properties except this, and a table that is full, by
`Undisturbed`: since it booted the router has heard of no more DAGs than its table holds, and, having a prefix, of none but
those it was told (one it was in before may be the first it is told: its own of before a reboot). It is
what the code does, and no comment or test says what ought to happen. `InstanceKept` holds in this case too.

## 3. The runs

| run | instance | checks |
|---|---|---|
| `pair` | two devices of one owner, one start, one disconnection, two datagrams and two websocket messages a direction, two requests at once | `RegistrationSound`, `SessionBinding`, `ReportsLand` |
| `stranger` | one device of the owner and one of another user, two starts, a reboot each, a late `on_close` | `TypeOK`, `KeySecrecy`, `OnlyMembersJoin`, `ImplementsJoin` |
| `solo_live` | one sensor, two random numbers, three starts, two disconnections, with fairness | `SoloKeyGenuine`, `SoloNeverRefused`, `EventuallyJoined`, `EventuallyReported` |
| `adding` | two users and their gateways, four calls, two objects, from an empty database | `TypeOK`, `OnlyAdders`, `RegistrationKept` |
| `added` | the same, with the device added | `OneDocument`, `OwnerManages`, `FreshValue`, `AtomicUnlessOvertaken` |
| `codec` | ids and lengths at the borders of a byte and a word | `TypeOK`, `RequestsUnderstood`, `AnswersRecognised` |
| `line` | a ring of four, packets of two, indices of two digits to base 3; four frames of up to 3, 1, 5 and 0 bytes | `TypeOK`, `NoLostWakeup`, `NotDeaf`, `InOrder`, `KeepsPackets`, `StandsStill` |
| `router` | three prefixes, two of them the host's; places for two DAGs, two addresses and one route; DIOs of version 241; a restart of the host, a reboot, two nodes | `TypeOK`, `RootKept`, `InstanceKept`, `NewDagNewVersion`, `RootWhileUndisturbed`, `AgainAndAgainRoutes` |
| `two_keys` | two sensors, no fault | `OneSessionKey`, violated |
| `midjoin` | one sensor, one reboot | `DecodeOrLeave`, violated |
| `add_race` | two users, two calls | `OneDocument`, violated |
| `responses` | as `codec` | `ResponsesUnderstood`, violated |

What the violations show. `cloud/README.md:15` says all sensors of a network share one session
key. In `two_keys` sensor 2 sends while the server checks sensor 1; the server hello for 1 goes to
2, which decrypts it with its own master key and uses the result. `cloud/README.md:36-37` says a
sensor decodes the key or leaves. In `midjoin` a sensor reboots in the middle of its join, decodes
the answer to its former self and stays; its messages then reach the server as garbage, and no
answer ever makes it leave.

`SoloKeyGenuine` and `midjoin` belong together: with one sensor, a reboot in mid-join is the *only*
way to junk; no repetition, reordering or restart of the gateway is enough.

`cloud/app_server/handler/device.py:68` refuses a device that others have. In `add_race` two users ask
before either inserts, and both get a document. `OneDocument` and `OwnerManages` begin from a device with
one document, where that race is over; what becomes of the owners of several is `OnlyAdders`.
`message.py:21` gives a response the type 1. In `responses` the server reads 4 and drops it, for sensors
put the type above two bits of version and the server looks below them.

`FreshValue` says exactly how an acknowledged report gets lost: `device_report` writes the whole document
it read before its wait, so a report of *another* object that overlaps restores the old value, and nothing
else does. `AtomicUnlessOvertaken` says the rest: until that happens, any number of overlapping calls behave
as those of `ObjectStore`, where a registration or a report changes the values of its objects, and no others,
at one moment between its beginning and its answer.

`OnlyMembersJoin` is luck as much as design. A server hello may go to the wrong sensor, and a sensor takes any
it gets; a stranger is not let in this way because its own datagram, which makes it the source that answers go
to, makes or finds a session of its own. That session is the only one of the list, so an answer about another
device finds none (`session.c:16`, `sensor_proxy.c:419`). A list that kept its other sessions would break the
property, as the mutant of `Linked` shows.

`SoloNeverRefused` bounds what the errors of the proxy can mean. With one sensor, before a restart of the
gateway or of the sensor, neither `INVALID_PWD` nor `INVALID_KEY_VERSION` nor `SESSION_NOT_FOUND` is ever sent:
the one error is `SERVER_ERROR`, which costs a hello and no key. The server helps: a request that arrives before
`open` has entered the gateway ends in a `KeyError` and gets no answer, instead of a refusal.

Bounds. Every bound is a constant. For the documents, each call is made at most once: two adds and two
registrations, or a registration and two reports that overlap, and one call to spare, are the
cases in question; two users are an owner and another. The codec treats bytes alike, so the numbers
next to 0, 256 and 65536 stand for the rest; the theorems cover all. `MaxStarts`, `MaxReboots` and `MaxDrops` bound how often parts
fail: the hazards need one restart (old key, same version), or two for the liveness run, where a
sensor must rejoin from a key that was itself obtained after a restart. `UdpCap` and `WsCap` bound
what is in flight; when a channel is full a datagram is lost and a write fails, so the bounds also
exercise the loss and `SERVER_ERROR` paths. Two datagrams and two requests are enough for one
sensor's exchange to overtake another's. `Patient = TRUE` lets the timer expire only when no
exchange of the sensor is on its way, and `Duplicates = FALSE` lets the radio deliver a datagram once;
both keep the instances small. All runs of the join have them so: what repeated datagrams and a timer that expires
during an exchange do is covered by the theorems alone, which hold for all values of both. The liveness
properties are checked without them.

On the serial line, `Burst = 1`: between the release of a packet and the check for a second one lie a few
instructions, and a byte of a UART with a buffer of one takes hundreds. The bound matters: TLC shows that
with `Burst = 2` a full ring can go unnoticed while `begin` is half stored, and with 3 two frames merge. The
proofs of `NoLostWakeup` and `StandsStill` need no bound. The frames of `line` are the least with which a
packet is too long to copy, too long for the ring, wraps, is empty, and comes while two wait. `PacketQueue` lets any
frame be given up at its end (`GiveUp`), since a malformed one is: that a whole one is dropped just there is not
excluded by `KeepsPackets`.

In `router`, three prefixes against a table of two fill it, by DIOs or by answers; two questions in flight let an answer
be late or repeated. The one version heard, 241, is newer than the first of a DAG (240) and older than what a root makes of
it (242), so DIOs come that are newer, the same and older. That a version is one byte and wraps is the business of
`NextIsNewer`, for all of them. One place for routes and two nodes make the table of routes full.

Fairness. Contiki's timer fires again and again; the two event loops serve what waits, and the proxy
reconnects in each round: weak fairness. The radio may lose any datagram but not all of a kind for
ever, so what a datagram triggers has strong fairness. No fairness for losses, disconnections,
restarts or reboots. `Prompt = TRUE`, that the server notices a dead connection before the next is
up, is needed for liveness: otherwise `on_close` removes the new entry of `clients`, and nothing
ever works again on that connection. Two sensors need not both join: they can evict each other's
session for ever, so liveness is about a sensor alone.

The serial line's process has weak fairness, for the scheduler runs a polled process to its end. The border
router's timer fires again and again and its nodes announce themselves again and again, to the DAG they last heard of (weak fairness);
of the questions and answers that are sent again and again not all are lost (strong fairness).

Symmetry is used where no temporal property is checked: devices of one owner are interchangeable,
and so are random numbers.

## 4. The proofs

`CoconutProofs` proves, for every set of sensors, every bound, and either value of `Duplicates`,
`Patient` and `Prompt`, from the assumptions in `CoconutNet` (a valid device is added, an added
device exists; no password is `NoPwd`; there is a random number; bounds are natural numbers):

| theorem | says |
|---|---|
| `TypeCorrect` | `TypeOK` always holds |
| `KeysAreSecret` | `KeySecrecy` always holds |
| `SessionsAreBound` | `SessionBinding` always holds |
| `RegistrationIsSound` | `RegistrationSound` always holds |
| `ReportsAlwaysLand` | `ReportsLand` always holds |
| `ProtocolImplementsJoin` | the protocol implements `JoinService` |
| `StrangersStayOut` | `OnlyMembersJoin` always holds |

The argument. None of the invariants is inductive. They are strengthened in three layers.

1. `TypeInv` adds `SessionsShape`, that the session list has at most one element: only with it do
   the handlers update the session they found. `RunningLive`, that a request with a live connection
   runs only while the proxy is connected, is needed because an answer may not enter the queue of a
   broken connection.
2. `AuthInv` adds what is on its way: `ReplyInv` (a success of the server is about a valid device,
   carries that device's password if it answers AUTH, and names a registered device if it answers
   NEW_DEVICE) and `HelloInv` (a server hello is made for a valid device's password, and its key is
   of a start that has happened). A session becomes authenticated by a reply, a sensor gets a key
   by a server hello.
3. `RegInv` adds `AnswerInv`: a confirmation on its way to the sensors names a registered device.
   `ReportsLand` then follows a report from the sensor through the proxy into the server.

`StrangersStayOut` rests on `AuthInv` and on `JoinerInv`: a server hello on its way is *for* a device of the
owner, not only made with such a device's password; data on its way comes from such a device, since only a
sensor past the handshake sends any; and whenever there is a session, `addr` is a device of the owner or the
one the session serves. So an answer that goes to a stranger is about the stranger, and the server never
confirmed one.

The refinement maps `epoch` to the proxy's key number, `held` to the sensors' keys, `enrolled` to
`registered` and `confirmed` to the sensors that believe they are registered. A server hello taken
is `Grant` or, if it decrypts to junk, `Forget`; a reboot is `Forget`; NEW_DEVICE is `Enrol`; its
answer is `Confirm`; a start of the proxy is `NewKey`; everything else is a stutter.

`DeviceProofs` takes any set of users, of calls and of objects; it assumes only that `Nobody` is neither
user nor call.

| theorem | says |
|---|---|
| `OnlyAddersHold`, `RegistrationIsKept` | from an empty database, `OnlyAdders` and `RegistrationKept` hold |
| `AddedOnce`, `OwnersManage`, `ValuesAreFresh`, `AddedRegistrationIsKept` | from a device that is added, `OneDocument`, `OwnerManages`, `FreshValue` and `RegistrationKept` hold |
| `DocumentsAreAStore` | from a device that is added, `AtomicUnlessOvertaken` holds |

What is stored was read before, so each invariant also speaks of what waits to be written.
`WritersInv`: the owner and the gateway a call is about to write have added the device. `WholeInv`: a
document, and one about to be written, has the values of all objects or of none. `AddedInv`: with one
document, what waits is for its owner, and no add gets past its question. `FreshInv`: an old value waits
to be written only by a report that will then have overtaken the call that replaced it; the step in
question is a report that writes another object back after that call has written (`FreshStep`).
`OneCallMoves` says once what a step leaves of the other calls.

`DocumentsAreAStore` is a refinement step by step. The mapping takes the values of the one document as they
are; a call has stored once it waits for `stats` or has its answer. It needs `AtomicInv`: what a report that
waits to write has read of another object is still what the document has, or a call that the report did not
know as acknowledged has stored that object since. From it follows that a report which writes back what it read
changes its own object only (`WritesBackTheSame`), for otherwise that call would now be overtaken. That a call is overtaken once
and for all is `OvertakenStays`.

`TypesHold` states `TypeOK` for both beginnings.

`WsCodecProofs` proves `RequestsAreUnderstood`, `AnswersAreRecognised` and `BytesAreBytes` (its `TypeOK`) for
all ids and lengths of 16 bits. They rest on `RoundTrip`: a number written low byte first, read high byte first and exchanged is
the number again. The invariant says of a message on its way that it is what its sender builds.

`SoloProofs` proves `SoloKeyIsGenuine` and `SoloIsNeverRefused`. The first: a sensor alone takes no junk for its key until it reboots. The
invariant, `SoloInv`, says that there is then one random number in the system: every hello and server
hello in flight has it and so has the gateway's session, whichever hello made it; so whatever server hello
the sensor decrypts was made for its master key. It needs the typing invariant of `CoconutProofs`, and
that the answer to AUTH finds the one session by its device.

The second holds while the gateway is in its first start. `WelcomeInv` takes the three refusals one by one.
`MessagesAgree` and `KeyAgrees`: whatever is under a network key is under the first one, and has its version.
`SessionPresumed`: data on its way, a server hello on its way and a sensor that has joined each presume that
the gateway has a session, and there it is. `RequestsRight`: every AUTH on its way to the server or in progress
there carries the password of the device it names, and every answer to one is a success. That a hello's key
opens the password, and that an authenticated session has the right one, is `SessionBinding`; that the key of a
server hello is the first, `HelloInv` with `SoloInv`.

`SlipProofs` proves, for every size of the ring, of packets and of a byte, and every `Burst`:

| theorem | says |
|---|---|
| `TypeCorrect` | `TypeOK`: indices stay in the ring, except `begin` while half stored |
| `NoLostWakeupHolds` | `NoLostWakeup` |
| `StandsStillHolds` | `StandsStill` |
| `NotDeafHolds` | `NotDeaf` |

The invariant adds to the types that `pkt_end` lies between `begin` (or, while that is stored, what it
becomes) and `end` in the ring (`RingOK`), and that whoever sets `pkt_end` apart from `begin` sets
`needspoll` or is a process that will look again (`WakeOK`). `NotDeaf` needs, besides, that two packets wait only
while the first has not been released or the process is about to look for the second.

`SlipQueueProofs` proves `LineIsQueue`: `Queue!Init` and `[][Queue!Next]_(Queue!vars)`, the safety part of
`KeepsPackets`, for every size of the ring, of packets, of frames and of a byte, from `Burst \in {0, 1}`. The
invariant, `QueueInv`, adds to that of `SlipProofs` what the ring holds, in three parts. `FrontInv`: the bytes
before `pkt_end` are of one frame, without a gap; after a release nothing waits there until the one byte has
come, and that byte does not bring `end` round to the packet's place (here `Burst` is needed: `begin` is half
stored, so the test for a full ring cannot be trusted). `TailInv`: the bytes from `pkt_end` to `end` are those
of the frame that is coming, all but the lost ones, or, with two packets, those of the second. `CopyInv`: what
is copied so far is the packet's beginning, and once released `outbuf` is a whole packet. A byte is then
`Byte` or `ByteLost`, an end `Arrive` or `GiveUp`, `Second` is `Take`, and every other step of the process a
stutter.

It proves `TakenInOrder` too, that `InOrder` holds, from the same `Burst \in {0, 1}`. `OrderInv` orders the
frames from the one taken last through the one that is copied and those in the ring to the one that is coming;
`QueueInv` says which bytes are whose.

`BorderProofs` proves, for every set of prefixes, of nodes and of versions that are heard, tables of every size with at
least as many addresses as DAGs (`TableAssumption`; both are 2), and any number of failures:

| theorem | says |
|---|---|
| `TypeCorrect` | `TypeOK` always holds |
| `RootIsKept` | `RootKept` always holds |
| `InstanceIsKept` | `InstanceKept` always holds |
| `NewDagsHaveNewVersions` | `NewDagNewVersion`, of every answer in every state |
| `NextIsNewer` | the version after a version is newer, and not older, for all of a byte |
| `RouterIsRoot` | `RootWhileUndisturbed`: the router implements `RootService` |

The invariant, `Inv`. `Good`: the DAGs in the table have prefixes of their own, all heard or told since the boot; the current
DAG and no other is joined; without one the table is empty. So are the addresses of prefixes heard or told. Hence, by
the pigeonhole principle (`PlaceLeft`, `AddressLeft`), the table and the list of addresses have a place for
the next prefix until there are more than they hold, which is `InstanceKept`. Until it has a prefix the router is root of
nothing. Once it has, and while it is `Undisturbed`, it is root of *every* DAG in the table, also of those it left
(`AllRoot`), and each prefix told has a DAG there (`Holds`). This is what `RootKept` needs to be inductive: a
DIO can then only be of a DAG the router is root of, and change its version (`RootDio`), for `rpl_process_dio` returns
before it looks for parents.

`RouterIsRoot` maps `root` to the prefix of the current DAG if the router's rank in it is the root's, `known` to the
versions the table has of each prefix, `reach` to the nodes with routes. An answer is `Lead`: the version of its
prefix is the next, the other prefixes keep theirs (`AnswerVersions`). A DIO is `Hear` before there is a prefix and
`Outbid` after (`RecvDioLeaves`, `RootDio`); a change of links is `Move`; a DAO, a No-Path DAO and a route that runs out
are `Route`. Everything else but a reboot is a stutter.

Only model-checked: the liveness properties `EventuallyJoined`, `EventuallyReported` and `AgainAndAgainRoutes`, and
the fairness part of `KeepsPackets`, that a packet which waits is taken. Fairness and ENABLED are out of the
prover's reach. Every invariant and every other action property of a run that passes is a theorem.

## 5. Plan

In this order; the join protocol comes first because everything else depends on it.

| step | module | about | to prove |
|---|---|---|---|
| done | the modules of section 2 | join, registration, reports; device documents; the codec; the border router and its line | section 4 |
| 1 | policies and gateways of the app server | documents of `device_policy.py` and `device_manager.py` | as for the devices |
| 2 | app server sessions | cookie against memcached and database | to be decided |

Dropped after reading: a model of the app server's requests to gateways, since none gets through
(`app_rpc_handler.py:28` calls a method that does not exist, `:42` logs a name that does not exist, and
`get_msg_id`, `device_handler.py:399`, finds no id in an empty table); a model of subscriptions, since
`main.c:373` looks in the wrong array and no handler ever adds a subscriber; the sensor's other request
handlers, which nobody calls, as no request of the app server gets through; the policies of the sensor
(`policy.c`, `device.c`), compiled only with `POLICY_SUPPORT`, which no build defines; and
`DeviceViewHandler.post`, which raises before it writes.

Not to be modelled: vendored code (Contiki, OpenWrt, cJSON, jQuery, pygeocoder and the like), the
flash file table (read-only), generated device profiles, HTML and forms, and the simulators under
`test/`.

## 6. Running

    tlc -workers 2 -config pair.cfg MCCoconut.tla
    tlc -workers 2 -config added.cfg MCDeviceRegistry.tla
    tlc -workers 2 -config codec.cfg MCWsCodec.tla
    tlc -workers 2 -config line.cfg MCSlipLine.tla
    tlc -workers 2 -config router.cfg MCBorderRouter.tla
    tlapm CoconutProofs.tla
    tlapm SoloProofs.tla
    tlapm DeviceProofs.tla
    tlapm WsCodecProofs.tla
    tlapm SlipProofs.tla
    tlapm SlipQueueProofs.tla
    tlapm BorderProofs.tla

The violation runs stop at their counterexample. Two runs disable the check for deadlock: in `line` the
frames are bounded and the process sleeps after the last, and in `router` a router with a prefix, its
failures spent, has nothing more to ask. In the others the sensors' timers never stop, a user can always
log in, and a device can always send.

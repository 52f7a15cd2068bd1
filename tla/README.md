# A verified model of the Minecraft protocol client

TLA+ modules, TLC runs and TLAPS proofs for the client library in
`src/Minecraft`, the demo program in `src/Demo`, and the script in `src/Tools`
that generates the table of packet ids. The unit tests of the repository
(`src/Tests`) cover the encoding of single values; nothing tests the two threaded
endpoints, the client's life cycle, the framing of packets, the demo's two
threads or the parser behind the table. These are what the modules here are
about.

## 1. The system

```
   main loop     input thread              demo (Demo)
       |   \      /
       |    encodePacket                   packet coder (PacketCoder, Packets,
     decode      |                         PacketStream)
       |         |
   DataSource  DataSink                    byte streams (DataSource, DataSink)
       |         |
   Receiving   Sending  endpoint           one worker thread each
       |         |                         (ReceivingEndpoint, SendingEndpoint)
       +-- fd ---+
           |                               connect, disconnect (Client)
         server
```

| component | state | operations | hard behaviour | correct when |
|---|---|---|---|---|
| **DataSink, DataSource** (`DataSink.hpp`, `DataSource.hpp`) | none, interfaces | `pushByte(s)`; `pullByte(s)`, `readByte(s)` | several callers | one call's bytes stay together; each byte once, in order; reads remove nothing |
| **Sending endpoint** (`SendingConnectionEndpoint`) | queue, mutex, condition variable, `stopSending`, intermediate buffer, worker thread | push, `start`, destructor, the worker's loop | pushes race the worker and the destructor; `notify_one` after the unlock; `stopSending` written without the mutex; partial and failing `send()` | bytes keep their order; no wakeup of a push is lost; the destructor stops the thread |
| **Receiving endpoint** (`ReceivingConnectionEndpoint`) | queue, mutex, condition variable, `stopSending`, intermediate buffer, worker thread | pull and read, `start`, destructor, the worker's loop | blocking `recv()`; one `notify_one` for many readers; end of stream, error and close in any order | bytes keep their order; a reader whose bytes are there gets them; the destructor stops the thread |
| **Client** (`Client.cpp`) | `serverFD`, `connected`, the two endpoints | `connect`, `disconnect`, destructor, `getSink`, `getSource` | failures half way; descriptor numbers that the kernel gives out again; threads that outlive the connection | a connected client talks to its own server; nobody closes another's socket; `connect` returns |
| **Packet coder** (`PacketCoder.hpp/.ipp`, `VarInt`, `Position`, `UUID`, `Conditional`) | none | encode and decode each kind of field, `encodePacket` | boundary values, partial groups of a VarInteger, signs of a Position, byte counts that must add up | decoding undoes encoding; the length of a packet is its length |
| **Packets** (15 structures) | none | `contents()` | conditions that refer to earlier fields | the layouts of both sides agree |
| **Demo** (`main.cpp`) | `running`, `state`, `player`, `otherPlayers`, `dataLength` | login, packet loop, input thread | two threads over one sink and unprotected shared data; an id with two meanings | login first; each question of the server answered once, in order; nothing pushed after the end |
| **Packet table generator** (`PacketIDGrabber.py`) | flags of what is expected next, row and column counters, one `Packet` object for all packets, the list of packets | tags and texts of the page, the loop over the names | state left over from the table before; names that change while they are compared | what the page says is extracted; names are unique |
| **Packet identifiers** (`PacketID.tpp`, generated `PacketID.hpp`) | tables | id to name | - | not modelled |
| **Proxies** (`simpleProxy.py`, `simpleProxyScript.py`), **Test doubles** (`Testing`), **Utils** | - | - | - | not modelled |

The components meet at few places. Threads push packets into the sink, which is
the queue of the sending endpoint; its worker empties the queue into the socket.
The worker of the receiving endpoint fills the other queue, from which the
packet loop pulls. The client creates the socket and hands its descriptor
number to both endpoints by `start`; it owns them, so its destructor runs
theirs. The demo's threads share the client and, without any lock, `player` and
`running`.

The hazards that follow from this are listed at their lines in `PROJECT.json`,
each with the properties that would catch it going wrong, or the reason why
none does.

## 2. The modules

| module | what it is |
|---|---|
| `DataSink`, `DataSource` | abstract specifications: what the interfaces promise their callers |
| `SendingEndpoint`, `ReceivingEndpoint` | the two endpoints, every step that another thread can observe an action of its own; each implements the abstract one |
| `Client` | any number of clients over one descriptor table; the endpoints are reduced to their use of a descriptor |
| `PacketCoder` | the codecs as functions on byte sequences, widths as parameters |
| `Packets` | the layouts of the 15 packets |
| `PacketChannel` | abstract specification: packets in, packets out, one by one and in order |
| `PacketStream` | `encodePacket` against the packet loop, one field per step; implements `PacketChannel` |
| `Responder` | abstract specification: questions in, answers out in their order, commands in between |
| `Demo` | login, packet loop, input thread and a server, whole packets over one sink; implements `Responder` |
| `PacketIDGrabber` | the parser as an automaton over a page it reads, and the loop that makes the names unique |
| `MC*` | small instances for TLC: constants and symmetry |
| `StreamLemmas` | facts about concatenation, prefixes and pieces of sequences; induction over a set of numbers and what a recursive function is at each of its points |
| `*_proof` | the theorems of one module each |

How they compose. `SendingEndpoint` and `ReceivingEndpoint` are shown to
implement `DataSink` and `DataSource` (`Sink == INSTANCE DataSink WITH sent <-
wire`, `Source == INSTANCE DataSource WITH arrived <- received`). That is what
entitles `PacketStream` and `Demo` to treat the connection as a sequence of
bytes, or of packets, that keeps its order and in which pushes are never torn;
`PacketStream` is shown to implement `PacketChannel` (`Channel == INSTANCE PacketChannel
WITH Message <- SeenPackets, sent <- SentSeen`): the reader gets the id and, of every packet,
the values its case decodes. That is what entitles `Demo` to read packets as wholes. `Client` instead looks at the life cycle of the descriptor
that both endpoints use. `Demo` implements `Responder` (`Responses == INSTANCE Responder
WITH inbox <- SubSeq(served, Done + 1, Len(served)), output <- pushed`): a packet of
the server stays in the inbox until the round of the loop that handles it has
pushed its answer. `PacketIDGrabber` runs when the project is configured and shares
nothing with the others.

### Correspondence with the code

`PROJECT.json` maps each definition to the lines it stands for. The main ideas:

*SendingEndpoint.* A producer goes through `PushCall`, `PushLock`, one
`PushInsert` per byte, `PushUnlock` and `PushNotify`, so the notification is
apart from the unlock. The worker takes the mutex when it starts and gives it
up only inside `wait`. The wait is three steps: the predicate is evaluated
(`WorkerPredicate`), the thread then blocks (`WorkerBlock`), and reacquires the
mutex after a wakeup. `StopSet`, `StopNotify` and `StopJoin` are the
destructor; `StopSet` needs no mutex because the code takes none. `send()` may
accept any positive number of the bytes, block while the peer does not read,
fail, or raise SIGPIPE. A `pushByte` is a push of a packet of length 1.

*ReceivingEndpoint.* The mutex is not a variable: no thread of this class does
anything another could see between two steps that hold it, so a critical
section is one action. The worker's `recv()` is two steps (`RecvEnter` and what
it returns) since it blocks, and the handling of the result is a third: bytes,
0, EBADF, or another error, of which the last inserts a range of length -1,
which throws (`process = "terminated"`). `Disconnect` is the client's
`shutdown` and then `close`, which is how the code gets a worker out of
`recv()`. A read that asks for no bytes is one of the calls.

*Client.* `table` is the descriptor table of the process; `socket()` takes any
free number. An endpoint keeps the number it was started with. `recv()` that
was entered stays on its socket, one that is entered later uses whatever the
number means then. `start` on an endpoint that was started before assigns to a
joinable `std::thread`, which ends the process (`process = "reassigned"`).

*PacketCoder.* A decoder returns the value, the bytes it pulled, the bytes it
claims to have used, and whether it throws; keeping the two counts apart lets
`BytesAccounted` compare them. The number of data bits of a VarInteger byte
and all the widths are constants, so the partial last group (32 = 4 x 7 + 4)
appears with small numbers too. Encoders and decoders are recursive functions (`Groups`,
`Gathered`, `Shifted`, `EncodeBehind`), so that they can be proved about. `ValuesOf`
is the values a field has room for: a `Position` holds 26 and 12 bits of each of its
`int64_t`, and the length of a string is a VarInt. A VarInteger whose last byte has not come is
waited for; the code would throw after as many bytes as the type has room for, which no
bytes of the encoder lead to.

*PacketStream.* `EncodePacket` appends a whole packet; the reader pulls the
length, the id, each field of the case, the rest (`PullRest`), and then
`dataLength` bytes a second time (`PullAgain`, `main.cpp:470`), one per step and blocking
for missing bytes. `dataLength` may become negative, which stands for the
wrapped around `size_t`. A vector is decoded into the number of elements the
tests resize it to.

*Demo.* Packets are records of a kind and what the properties tell apart of their
contents; `Offers` are the packets the server may send once the player is logged
in. `main` and `input` are the places of the two threads. `player.x +=
offset` is a read (`ActMove`) and a write (`WriteMove`), because `player` is
shared without synchronisation; a command builds a packet from the state of
that moment and pushes it afterwards. `hide` builds and pushes one packet after
the other. An exception of `std::stod` ends the input thread (`"thrown"`) and
leaves `running` set. The four packets that change another player share
`CaseEntity`; what they change is `Updated`. `main = "ended"` is the return from `main()`;
the destructors that run after it are the matter of `Client` and the endpoints, and
`Sending_destructor` shows that one of them may not return.

*PacketIDGrabber.* An action is a tag or a text of the page, and calls the handler
that `feed` would call; `expected`, `row_count`, `col_count` and `is_packet` are
the fields of the parser, and `packet` is the one object it fills for every packet
and copies into `packet_list`. `page` is the reader's place and what the open table
says, and `wanted` what the parser should extract. A name is the sequence of its
short name and the suffixes it got; its parts are compared as wholes, as no short
name, state or target of the page contains an underscore. `MakeUnique` is one turn of the loop: it
changes the names of other packets too, also of those whose turn is over.

## 3. The runs

Every passing run checks the type invariant of its module and properties that a
single unit test would hardly reach; each property has a mutant in the module,
a plausible bug of the code, under which TLC finds it violated.

| run | states | bounds | what it shows |
|---|---|---|---|
| `Sending` | 161,512 | 2 producers, 3 pushes of 3 or 1 bytes, intermediate and socket buffer 2, 1 spurious wakeup | bytes neither lost, repeated nor torn (`StreamIntegrity`), no push forgotten (`NoLostWakeup`), silence after the destructor (`DestroyedIsQuiet`), refinement of `DataSink` (`SinkSpec`); pushes return, everything is sent, a destructor that finds bytes queued returns |
| `Receiving_safety` | 2.84 million | 2 readers, 3 bytes of 2 values, 2 calls for 0 to 2 bytes | the same for the other direction (`StreamIntegrity`, `SourceSpec`); readers with different demands are not all left asleep on bytes that would do for each (`NoStandstill`); only a reset by the peer ends the process (`TerminatedOnlyByReset`) |
| `Receiving_live` | 202,595 | 2 readers, 2 bytes, 3 calls for 1 byte | one `notify_one` serves many readers of equal demands (`BatonHeld`, `ReadersServed`); the destructor returns once the descriptor is closed (`StopAfterClose`) |
| `Client_safety` | 3.19 million | 2 clients, 2 descriptors, 3 sockets | a connected client is wired to its own socket, only its client closes a socket, traffic of a connected client is with its server |
| `PacketStream_safety` | 76,917 | pairs out of 67 packets of all layouts, bytes of 4 bits, VarIntegers of 7 | the reader stays on packet boundaries, values come out as they went in, nothing throws, every byte is counted once, the loop waits only between packets (`NeverWaits`); refinement of `PacketChannel` (`ChannelSpec`) |
| `PacketID_safety` | 9.59 million | pages of 3 tables, 3 rows and 3 columns, 4 headings of which 3 share a short name, 1 deviation from the layout | the parser extracts what a regular page says (`Extracted`), no heading names two packets on any page (`HeadingsOnce`), names are unique in the end (`UniqueNames`) |
| `Demo` | 556,718 | 2 players, 2 keys, 4 packets of the server and 1 of them on the way, 1 command, `hide` of 2 blocks | login first, entities tracked, quiet after the end, refinement of `Responder` (`ResponderSpec`); the end of the input is noticed (`EndNoticed`) |
| `Sending_callback` | violation | | the callback gets the bytes that are next, not those that were sent |
| `Sending_destructor` | violation | | the destructor of an idle endpoint can wait for ever |
| `Receiving_destructor` | violation | | the destructor of an endpoint with an open, idle socket waits for ever |
| `Client_crosstalk` | violation | 2 clients, 2 descriptors, 2 sockets | after a disconnect the endpoints use the connection of another client |
| `Client_reconnect` | violation | 2 clients, 1 descriptor, 2 sockets | connect, disconnect, connect ends the process |

**Why the bounds are enough.** Two producers and packets that can be told apart
are what a torn insertion needs; a packet longer than the intermediate buffer
is sent in pieces, and a socket buffer of the same size makes `send()` block and
accept less than it is offered. Two readers are what a notification given to
the wrong one needs, and the proofs of `NoStandstill` and `BatonHeld` cover more. Two descriptors
and three sockets let a number be reused while another client is connected.
Two packets are enough for framing: where the second is read depends on the
first alone. The VarIntegers of 7 bits have two whole groups and a partial one,
and the values on both sides of each number of bytes are among the packets. In
the demo two players and two keys can be confused and four packets of the
server hold the end of the login and three more: two questions and something
between them, or two spawns and an update. One command is enough because
`ResponderSpec` and the four invariants of the demo are proved for any number. For
the names three packets that
share one are what is needed for a suffix to be added in two turns of the loop;
three rows are one more than the parser reads, three columns are those it reads.

The bounds are constants: `MaxPushes`, `MaxBytes`, `MaxCalls`, `MaxSpurious`,
`MaxSockets`, `MaxPackets`, `MaxServed`, `MaxInFlight`, `MaxWords`, `MaxTables`,
`MaxRows`, `MaxCols`, `MaxOdd`. Every run says
`CHECK_DEADLOCK FALSE`, because every model may stop: at a bound, with an idle
connection, or at the end of the process.

**Symmetry** is used in safety runs only, over readers, clients, ids of packets and
headings of one short name, which the modules treat alike. **`HideBlocks`** is 2 for
the 34 blocks of the code: the loop has a turn that goes on and one that ends it.

**Fairness** is weak fairness of each thread of a running process, which is
what a preemptive scheduler gives: the worker (`WorkerStep`), a producer or
reader inside a call, a destructor in progress. Nobody is required to call
anything; the peer need not read, send or leave; no failure and no spurious
wakeup has to happen. The mutex is not assumed to be fair. That is why
`PushReturns` and `EverythingSent` are stated for connections that hold and
whose peer keeps reading (`PeerKeepsReading`, `SocketHolds`): behind a dead
socket the worker spins with the mutex held and never hands it out. `MaxPushes` bounds the
rounds in both: were other threads to push without end, a mutex that is not fair could pass
one of them over for ever. In
`ReceivingEndpoint` a disconnect that was begun goes on. In `Demo` both threads are
scheduled and their pushes return, which is `PushReturns`; the user need neither
press the key that `main` waits for before it connects nor type a word, and the
server need not send. That is why `EndNoticed` excepts a loop that waits for a
silent server.

## 4. Disagreements with what the repository says

Five runs end in a counterexample; the lines and the statements they contradict
are in `PROJECT.json` under "findings".

* `Sending_callback`: the range passed to the callback is computed after
  `erase` (`SendingConnectionEndpoint.cpp:63-65`).
* `Sending_destructor`: `stopSending` is written and notified without the
  mutex, between the worker's test and its sleep
  (`SendingConnectionEndpoint.cpp:54, 71-73`). `StopWhenBusy` shows the case in
  which the destructor does return.
* `Receiving_destructor`: nothing interrupts `recv()`
  (`ReceivingConnectionEndpoint.cpp:93, 115-118`). `StopAfterClose` shows that a
  client that disconnects first is safe.
* `Client_crosstalk`: `disconnect` closes a number that two running threads go
  on using (`Client.cpp:52-63`).
* `Client_reconnect`: the second `start` meets a thread that was never joined
  (`Client.cpp:46`, `ReceivingConnectionEndpoint.cpp:86`).

Other observations, which no statement of the repository settles:

* Readers with different demands can lose a wakeup: the one `notify_one` may
  wake a reader whose bytes have not come. `BatonHeld` is about equal
  demands. `NoStandstill` is what still holds: the readers are not all left asleep with the
  bytes of each of them there.
* A dead socket makes the worker spin with the mutex held, and pushes starve.
* After the end of the stream `recv()` returns 0 for ever: the receiving worker
  spins and waiting readers are not released.
* A failed `connect` leaves its descriptor open. If `shutdown` fails,
  `disconnect` returns early, and the destructor then joins threads that nobody
  stopped.
* `connect` accepts addresses only, since it uses `inet_pton`.
* In the demo a teleport between the read and the write of `player.x += offset`
  is lost; a player that is spawned again leaves a stale first entry that gets
  the updates (`EntitiesTracked` is about players spawned once); `end` takes
  effect only after another packet of the server; after the end of the input
  the last command is repeated, or `/` collects arguments, for ever; an
  argument of `/` is written to a copy (`auto arg`, `main.cpp:307`) and lost.
* The fields of a packet are encoded and decoded by a fold over `+`
  (`PacketCoder.ipp:13, 19`), whose operands C++ may evaluate in any order; gcc and clang
  evaluate them from left to right, and so does the model.
* A missing argument of the demo is never reported: `i != argc` holds in every turn
  of the loop (`main.cpp:97, 107, 116`).
* `playerUUID` of `LoginStartPacket` is not part of its contents.
* The default `readBytes` of `DataSource.hpp:51-57` returns the next byte n times,
  where line 43 says "the next bytes". Both sources of the repository override it,
  so `DataSource` states what the comment says.
* A heading of the page without a table shifts the names: the next table is given
  the name of that heading, and the next heading is skipped
  (`PacketIDGrabber.py:116`). `HeadingsOnce` is what still holds.
* The big-endian branches of the integer coder are compiled on no machine that
  the build supports, and nothing decodes an enum; neither is modelled.

## 5. The proofs

TLC checks small instances; the theorems hold for every value of the constants
that satisfies the named assumptions (`SendingAssumption`,
`ReceivingAssumption`, `ClientAssumption`, `DemoAssumption`, `GrabberAssumption`,
`CoderAssumption`, `StreamAssumption`). They only say that bounds are numbers, buffers
are not empty, names are different, that the server sends packets a server sends, that
the widths of integers are positive and a `Position` fills its `uint64_t`, that
packets hold values of their types and are not longer than a VarInt can say, that a
Conditional refers to a bool before it, and that the reader's layout of a packet begins
the sender's. A page may have any number of tables, rows and columns. On a page of
the expected layout, which `Extracted` is about, each of the first two rows of a table has
the three cells that a packet needs, or more (`PacketCells`).

| theorem | argument |
|---|---|
| `SendingEndpoint_proof`: `TypeCorrect`, `StreamCorrect`, `WakeupCorrect`, `QuietCorrect`, `SinkRefinement` | `IInv` adds who holds the mutex (`MutexDiscipline`), what the worker knows while it does (`WorkerKnowledge`: its chunk is the head of the queue, an empty queue stays empty until it sleeps), that a producer at the lock has its whole packet (`PacketsWhole`), and the life cycle (`LifeCycle`). `StreamIntegrity` alone is not inductive: that `erase` removes what was sent depends on `WorkerKnowledge`, which depends on `MutexDiscipline`. Each step then maps to a push, to a forward or to a stutter of `DataSink` |
| `ReceivingEndpoint_proof`: `TypeCorrect`, `StreamCorrect`, `TerminationCorrect`, `SourceRefinement` | `IInv` adds that a failed `recv()` left no bytes and where its error came from (`ErrorsExplained`). Critical sections are single actions, so each is a pull, a read, an arrival or a stutter of `DataSource` |
| `ReceivingEndpoint_proof`: `StandstillCorrect`, `BatonCorrect` | `NoStandstill` is inductive together with `IInv`, of which it needs the types and that nothing runs before `start`: a worker that appends bytes notifies next, whoever takes bytes does too, and `notify_one` makes a sleeper ready (`NotifyWakes`). Only a reader without enough bytes goes back to sleep without a notification of its own, and then not every sleeper has its bytes. For readers with one demand in common it says the same as `BatonHeld`, which is a corollary |
| `Client_proof`: `TypeCorrect`, `WiredCorrect`, `ClosesCorrect`, `TalksCorrect` | `IInv` says that a client holds a descriptor from its `socket()` to its `close()` and the descriptor means a socket it opened (`HeldIsOpened`), that no two clients opened the same (`OpenedApart`), that threads have descriptors (`ThreadsHaveFDs`), and when each endpoint is wired (`Wired`). The action properties follow from it step by step |
| `Demo_proof`: `TypeCorrect`, `LoginCorrect`, `QuietCorrect` | `IInv` says who runs when (`Control`), what a command has still to push (`Commands`), that the first packet of the server, and no other, is the one that begins the play state, and that the state is play as soon as it was handled (`Served`), and how many packets were pushed when (`Pushed`). The type of `otherPlayers` depends on `Served`, as two kinds of packet share an id |
| `Demo_proof`: `ResponderRefinement` | every step is an answer, a question, a command or a stutter of `Responder`. A keep alive is answered in the play state only, so that each is answered rests on `Served` |
| `Demo_proof`: `EntitiesCorrect` | `EntitiesTracked` speaks about some entry of an entity; inductive is `Tracked`, about the first one, which `find_if` finds, and which exists exactly when the entity was spawned. The packet handled last is the only one by which `ServerView` differs from before (`ViewHears`) |
| `PacketCoder_proof`: `FieldBack` | for each kind of field, and any bytes behind it: the value comes back, exactly the bytes of the field are pulled and counted, and nothing throws. A VarInteger by induction over the groups left, with what was gathered so far as the low bits; an integer by induction over its bytes; a Position by taking its three fields apart again, signs included |
| `PacketStream_proof`: `TypeCorrect`, `AlignedCorrect`, `DeliveredCorrect`, `NeverThrowsCorrect`, `BytesCorrect` | `IInv` says what is in the stream at each place of the loop: the fields of the packet in hand that were not decoded (`AtID`, `InBody`), and then the packets not begun, whole. `Aligned` alone is not inductive, as it does not say that the bytes in hand are the fields the reader expects. That a Conditional is present for the reader when it was for the sender rests on the values decoded before (`InBody`), and each field on `FieldBack` |
| `PacketStream_proof`: `NeverWaitsCorrect` | by `IInv`, what lies ahead in the stream at each place of the loop is the rest of the packet in hand (`WholePacket`, `Ahead`), and a field is not longer than what is left (`FieldAhead`); behind the rest of a packet `dataLength` is 0 until the next length is read (`BetweenPackets`) |
| `PacketStream_proof`: `ChannelRefinement` | `EncodePacket` is a `Send` of what the reader may see of the packet, the last step of a round a `Receive` (`RestReceives`), all others are stutters. That the packet received is the next one sent is `Delivered` of the state before, extended by the id and values in hand |
| `PacketStream_proof`: `ProtocolLayouts` | the layouts of `Packets` satisfy `IsLayout`, which the other theorems assume, for any sizes of the keys and signatures: most consist of fields without a condition (`PlainLayout`), the others have one bool as the second field, and every Conditional refers to it (`AfterBool`) |
| `PacketIDGrabber_proof`: `ExtractedCorrect` | `Followed` says that on a page without deviation the parser's flags are what the place on the page calls for (`Awaited`), its counters are the row and column of the page (`Counted`), and its object holds what the cells that have come said (`Taken`), whatever the table before left in it |
| `PacketIDGrabber_proof`: `TypeCorrect`, `HeadingsCorrect`, `NamesCorrect` | `IInv` says that the heading in the parser's object was given to no packet while it may still be (`HeadingsTaken`), and that no name continues another one (`NamesMade`): uniqueness of the names the loop is done with is not inductive alone, as a later turn may extend one of them and meet a name that was left alone |

A proof that a step preserves the invariant has one step per action. Each
`IInv` was checked by TLC before it was proved.

So every invariant of the passing runs is a theorem, and so are the action
properties of `Client` and the safety parts of the four refinements.

Induction over data, where it is needed, is not taken from the library, whose
induction theorems take an operator as a parameter. `StreamLemmas` states it for sets
instead (`SetInduction`, `DownInduction`: a set of numbers that holds 0 and the
successor of each of its members holds all of them), which rests on `LeastOf`, that
a set of numbers has a least member; the set is that of the numbers for which the
claim is true. `Recursion`, `UpRecursion` and `DownRecursion` say that a recursive
function satisfies its equation.

**Only model-checked.** All liveness and fairness (`PushReturns`, `EverythingSent`,
`StopWhenBusy`, `ReadersServed`, `StopAfterClose`, `EndNoticed`),
which the prover does not handle. The five runs that end in a counterexample are
disagreements, which need no proof. Of `StreamAssumption` the part
about the layouts of `Packets` is `ProtocolLayouts`; that the packets of the run hold values
of their types and are short enough is evaluated by TLC at the start of
`PacketStream_safety`.

## 6. What is not modelled

* `setCallback` and the pointer it sets: a choice made before `start`. The
  callback is user code; the range it is given is modelled.
* In `Demo` two of the three coordinates, one angle of a rotation, food and
  saturation, which are assigned beside the ones that are kept; logging, the packet
  dump and the arguments of `main`, on which nothing else depends.
* Encryption and compression, which the program does not support.
* `PacketID.tpp`, a template whose table the script fills in and a switch that
  prints it; the text of the generated file.
* The proxies: 42 lines that hand every packet to a library. The sources and sinks
  of the unit tests, which are sequential. The formatting utilities.
* Memory: allocation failures, and the data race on `stopSending` beyond the
  orders in which its value can be seen.

## 7. Plan

Done, in this order: the endpoints and their abstract specifications, since
everything rests on them; their proofs; the client's life cycle and its proof;
the codecs and the framing; the demo and the proofs of its control properties; the
generator of the packet table and its proof; the demo's liveness, and the demo
shown to implement `Responder`; the proofs of the codecs, of the framing, of the
entities and of the parser; what still holds for readers with different demands, and
the framing shown to implement `PacketChannel`.

What is left, in the order of its worth:

1. `Client` composed with the detailed endpoints for one client, so that
   disconnect, close and join are checked against the real worker loops.
2. `PacketStream` on top of `DataSource`, with the bytes of a packet arriving
   in pieces.
3. Proofs: that readers of `PacketStream` which also resize vectors stay aligned,
   and the safety part of what `StopWhenBusy` and `StopAfterClose` rest on (a
   destructor that joins has set `stopSending` for good).

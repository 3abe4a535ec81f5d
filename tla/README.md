# A TLA+ verification of the Telink ZigBee gateway host

The program (`src/gateway_forSDK`) is a single-threaded C process that stands
between smartphone Apps, which talk to it over TCP, and a ZigBee coordinator on
a serial line. A `poll()` loop serves four kinds of sources: the serial line, the
terminal, the listening socket and the accepted clients. This directory holds
TLA+ models of its parts and of their composition, TLC configurations that check
them, and proofs that hold for every size of the system.

## 1. The system

| Part | Source | State | Operations |
|---|---|---|---|
| Main loop | `main.c` | `pollFds`, the snapshot of clients | start; one iteration: poll, then serve one source or all readable clients |
| TCP server | `server.c` | the listening socket | `server_open`, `server_acceptNewConn`, `server_send`, `processTcpCmd` |
| Socket pool | `server.c` | `sockets[10]`, `curNum` | search, add, delete, snapshot |
| App commands | `appCmd.c` | none | the dispatch on the command byte, the reports to all clients |
| Node table | `nodes.c` | `nodeTbl[10]`, `curNodeNum` | reset, search, add, get |
| Coordinator commands | `socCmd.c` | `transSeqNumber` | one function per ZigBee command: build, `write()`, `tcflush()` |
| Serial port set-up | `socCmd.c` | the terminal settings | `socOpen` |
| Coordinator reader and handlers | `socCmd.c` | `retryAttempts`, locals left uninitialised | `processSocCmd`, `zll_ctrlRspHandler`, `zll_dataRspHandler` |
| Console | `cli.c` | six saved parameters, the buffer of `stdin` | `processConsoleCommand` |

How they interact. Everything is a call from the loop: a device announcement on
the serial line goes through the reader to `zll_ctrlRspHandler`, which adds a
node and sends a report to each client of the pool; an App command goes from
`recv()` to a handler that writes a frame to the serial line or, for a query,
reports every node to *all* clients; console commands write frames. There is no
thread, no lock and no timer. What is concurrent is the outside: Apps connect,
write, stop reading, close and abort, the coordinator sends or its line hangs up,
and the user types, between any two system calls. Nothing is persisted. The models
of the loop hold for at most seven clients at once, beyond which `pollFds`
overflows and nothing is defined.

What is hard: the pool and descriptors that the kernel reuses; clients that
vanish inside a broadcast or inside the list of readable clients; a `send()` that
blocks the loop; the fixed priority of the sources, some of which can stay ready
for ever; a console prompt that blocks the loop; two byte streams, of the serial
line and of each App, taken for whole messages; counters and static variables that
outlive a message. `PROJECT.json` lists the hazards one by one, each with its
line and the properties that cover it.

What makes the parts correct: the pool is a set of open descriptors without
duplicates and its count is right; the table remembers the first announcement of
every device until it is full; a transaction number identifies a message; the
console uses the parameters last given and resets a device only within a
touchlink; all clients are told the same; clients that are gone are noticed and
queries are answered; the reader turns the bytes of the line into the messages
that were sent, and `recv()` the bytes of a connection into commands that were
written.

## 2. The modules

| Module | Stands for | Remarks |
|---|---|---|
| `SocketPool` | the pool of `server.c` | one operator per function; `PoolSpec` uses it in any order |
| `BoundedSet` | what the pool promises | abstract specification |
| `NodeTable` | `nodes.c` | `announced` is a history of the calls |
| `NodeDirectory` | what the table promises | abstract specification |
| `SocCmd` | the `zllSoc...` functions | `uart` is a history: frames and what the flush left of them |
| `Console` | `cli.c` | extends `SocCmd`; a line is a sequence of the chunks that one `read(0)` takes, each a record |
| `SocReader` | the byte reads of `processSocCmd` | one action per `read()` or sleep |
| `MessageChannel` | what the serial line is to the rest | abstract specification |
| `AppStream` | `recv()` and the buffer of `processTcpCmd`, the filter of `app_cmdHandler` | the bytes of one connection; `looked` is a history, the commands that had come at the last `recv()` |
| `Mailbox` | what a connection is to the rest | abstract specification |
| `Tcp` | the kernel's TCP, accept/recv/send/close | external: not code of the repository |
| `Gateway` | `main.c`, `server.c`, `appCmd.c`, the handlers of `socCmd.c` | extends `SocketPool`, `NodeTable`, `Console` and `Tcp` |
| `Broadcaster` | what the gateway promises its Apps | abstract specification |
| `SocketPoolProofs`, `NodeTableProofs`, `SocCmdProofs`, `ConsoleProofs`, `SocReaderProofs`, `AppStreamProofs`, `GatewayProofs` | theorems and proofs | each extends the module it is about; `TableLemmas` holds what they share |
| `MC...` | instances for TLC, and properties that need a history | |

An operator, a variable and a constant of the code keep their names
(`socketPool_add`, `nodeTbl`, `MAX_NODE_NUM` as `MaxNodeNum`). Operators marked
*fault* in a comment are variants of the next definition with a plausible mistake
in it; no specification uses them. They serve to see that a property can fail.

**Atomicity in `Gateway`.** A step of the process reaches at most to its next
call that the outside can tell apart: `socOpen` and `server_open` at the start,
each `send()` of a broadcast (`server_send`), each readable client
(`ServeClient`), each `getc()` (`KeyPress`). Apps, coordinator and user act
between any two of these. What the process has yet to do is in two sets: `work`
holds the readable clients of the last poll, `todo` the messages to send; both are
served in the order of the code (by slot, and of several broadcasts one after the
other by `turn`). Writing frames to the serial line and changing the tables happens
inside one step, since nobody else reads them.

**Correspondence.** `AtPoll` is the `poll()` call; `ServeSerial`, `ServeStdin`,
`ServeListen` and `PollClients` are the four branches after it, in the order of
the `else if` chain; `processTcpCmd` has one disjunct for data, for the end of the
connection (close, then delete) and for an error (ignored by the code). A
`send()` to an App that has stopped reading, with full buffers (`link = "stuck"`),
is not enabled: the loop waits. `pc` becomes `"exited"` when `socOpen` or
`server_open` fails, by the close command and by `exit` of the console, and
`"SIGPIPE"` when the process sends on a connection its peer has reset, since no
code handles that signal. A hung-up serial line is readable for ever: each round
either finds nothing or, from what the stack holds, a message nobody sent. The
end of `stdin` is readable for ever too, and each read of it an invalid command.

**Abstractions.** Frame lengths, endpoints, check bytes and printed text are left
out. In `Gateway` an App's command arrives whole, and one `recv()` takes all that
the App has written; `AppStream` shows of the byte stream that this is so where
commands are not cut, and what remains true where they are. An App connects once:
an App of the model is one connection. `tcflush` after `write()` leaves a frame
whole, cut or lost, whichever the `Fates` of a configuration allow. A `uint32_t`
on the stack holds any value of `Garbage`. The address that marks an empty entry
is an ordinary value an announcement may carry.

**Undefined behaviour.** `processSocCmd` compares no length with the size of
`rspBuf`. `SocReader` reads as the code does, whatever the length, and only when
bytes have in fact been written behind the buffer does it enter the state
`"overrun"`: what the process does from then on is undefined, and no property says
anything of it. A round whose body is shorter than two bytes makes the `switch` read
its `cmd1` from what the stack holds (`Stack`), be it a message handled before; the
model records what the handlers get, so `received` then grows by something nobody
sent. In the same way a handler of `AppStream` gets the bytes of `Stack` where
`recv()` brought fewer than it reads, the command byte included. `AppStream` lets
the network cut a connection's bytes anywhere, lets any number of them wait, and
lets operands be any bytes.

## 3. The runs

Passing runs:

| Run | Instance | Shows |
|---|---|---|
| `socket_pool` | 5 descriptors, 3 slots | count and distinctness hold for every sequence of calls; the pool implements `BoundedSet` |
| `node_table` | 4 address pairs, 3 device ids, 2 entries, 4 calls | the table lists the first distinct devices in order, with their types; it implements `NodeDirectory` |
| `console` | 18 commands, 4 parameter lists, lines that two reads take, 3 lines or end of file, a counter modulo 2 (2.1 million states) | parameters are those last given and keep the widths of their variables; transaction numbers are ambiguous only a whole round apart |
| `soc_reader` | 3 message bodies, one longer than the buffer, 3 messages, 5 pauses, a line that may hang up (601 thousand) | while the line is up and regular the reader keeps within its buffer, implements `MessageChannel` and leaves no message behind; where it is not, what was received stays, and the reader returns to `poll()` unless it wrote behind its buffer |
| `app_stream` | 5 commands of 2 to 9 bytes, one with a start byte for an operand, 3 written, a buffer of 9, a stack with an earlier command (1.3 million) | uncut, a connection implements `Mailbox`; cut, what is handled begins with a written command or at a start byte within one, never twice; an App that waits for each command to be taken loses none |
| `gateway` | 3 Apps that may stop reading, 3 descriptors, 2 slots, 2 devices or answers, 2 queries (4 million up to symmetry) | no closed, reused or stale descriptor; the gateway implements `Broadcaster` |
| `gateway_live` | 2 Apps, each App command, a console reset, end of `stdin`, hang-up, fairness (556 thousand) | a reset follows its touchlink; clients that are gone leave the pool and queries are answered, unless the loop is held up |

Why these bounds are enough. The tables treat all slots alike, so three slots show
a hole between two others, and more descriptors than slots show the refusal; the
theorems cover every size. A counter modulo 2 wraps within three frames, and the
theorem covers every modulus. Three Apps for two slots give a full pool, a client
left out and a descriptor reused after a close while two others are served; two
devices give a query of two broadcasts, so that a client can leave, or block the
loop, inside one and between two. `rspBuf` of four bytes is filled exactly by one
message and overrun by another, a length of 255 from the stack is the one for which
a failed read passes for a whole body, and five pauses use up the retries of the
process exactly. A buffer of nine bytes holds the longest command exactly and two
shorter ones together, and three commands cut anywhere are enough for a piece that
begins with an operand equal to the start byte. `Fates` is `{"whole"}` in every
instance: no code reads what became of a frame, so a second fate only multiplies
the states. `CHECK_DEADLOCK FALSE` stands where the bounded environment runs dry or
the process ends.

Runs that expect a violation. Each checks one statement of a comment and finds the
behaviour of the code that contradicts it; `PROJECT.json` quotes the line
(section "findings"):

| Run | Statement | What the code does |
|---|---|---|
| `key_press` | press a key | the rest of an earlier line counts as the key |
| `reader_retries` | try again | the retries are those of the process, not of a message |
| `reports_agree` | the type of the joined device | a switch is reported as unknown, later as a switch |
| `all_connected` | send to all connected Apps | an App accepted over the pool's limit hears nothing |
| `app_commands` | handle the received commands | the second command of one `recv()` is dropped |

Seen while modelling, without a run of their own, because one look at the code
settles them: `pollFds` has ten entries for up to thirteen sources (`main.c:17`,
`server.h:7`); `zllSocAddGroup` writes its frame twice with one transaction
number (`socCmd.c:916-920`, against `socCmd.h:78`), which is the exception in
`NumbersIdentifyMessages`; several commands begin with 0x29 where `socCmd.h:86`
says "Always be 0x49"; an App's toggle (`appCmd.h:128`) is sent as On
(`socCmd.c:618`); `zllSocFlashReset` omits the start byte; `getParam` reports a
number it has not read (`cli.c:260`), the exception in `ParamsAreLastGiven`; the
length byte is used whether or not it has arrived, and never compared with the size
of `rspBuf` (`socCmd.c:382-387`), hence `Regular` in `SocReader`; a recv() that finds
a start byte alone makes `app_cmdHandler` dispatch on a byte of the stack, and an
operand equal to the start byte can make it take the rest of a cut command for a
command (`appCmd.c:62-66`), hence the two cases of `HandledTracesToWritten`; a `sendresettofn` in a line of more than 49
characters supplies its own key press; the User Guide's `setstate` is no command,
and its hexadecimal values are not parsed as such.

## 4. Fairness

`Gateway!FairSpec` asks weak fairness of the loop only: the operating system keeps
scheduling the process, and a step it can take is not put off for ever. Apps, the
coordinator and the user owe nothing. The clients come last in the chain of
sources, so the loop's fairness alone gives them no service while others keep it
busy; the bounds on messages, connections and lines make the others fall silent in
`gateway_live`. What no bound silences is named: `Held` is the disjunction of the
five conditions under which the loop serves no client (the end of `stdin`, a
prompt without a key press, no descriptor left for a waiting connection, a hung-up
line, a `send()` to an App that does not read). `DisconnectNoticed` and
`QueryAnswered` promise service to every client unless one of them holds from some
point on for ever. Weak fairness is enough: an App that has become stuck and
resumes can become stuck again only by a `send()`, which is progress. (The instance
has a descriptor for each App, so that the third of the five does not occur
there.)

`SocReader!FairSpec` adds that the line carries the bytes it was given, and
`AppStream!StreamSpec` that the network does. That a sleep of 10 ms lasts until the
next bytes are there is an assumption on the coordinator, in the guard of `Wake`.
`EventuallyDelivered` and `ReturnsToPoll` except the line that has hung up, the
first also messages that do not fit the buffer and headers that come in two pieces,
the second the reader that has written behind its buffer and terminal settings under
which `read()` without data returns 0;
`EveryCommandHandled` is about an App that writes a command when the last has been
taken, and holds although it closes its end without waiting.

## 5. The proofs

Every invariant and every refinement of an abstract specification that a passing
run checks is also a theorem, for all values of the constants. What TLC alone
shows is liveness (see the end of this section).

**Tables.** `SocketPoolProofs`: `PoolTypeCorrect`, `PoolCountCorrect`,
`PoolHasNoDuplicates` and `PoolRefinement` (the pool implements `BoundedSet`). The
inductive invariant joins the three properties: the type alone does not keep the
count from going below zero, which needs that it equals the number of used slots,
and that a deletion removes a descriptor altogether needs that it sits in one slot
only.

`NodeTableProofs`: `NodeTypeCorrect`, `NodesAlwaysDistinct`, `NodesNeverForgotten`,
`NodeRefinement` (the table implements `NodeDirectory`) and
`NodesListFirstAnnouncements`. The count stays within the table because it is the
number of filled entries; that a refusal means a full table needs that every entry
that is not filled is entirely empty. The last theorem relates the table to the
whole history of calls, without a fold over it: an announcement is a *first* one
when no earlier one has its addresses, and its place is the number of first ones
before it. `ListInv` adds that the filled entries are the leading ones and that
their addresses were announced. Then a device that is not found has not been
announced, so its announcement is a first one, and the entry it goes to is its
place.

**Commands and console.** `SocCmdProofs`: `NumbersIdentify`, for every modulus of
the counter. The invariant ties the counter to the frames: between two ZCL frames
the numbers advance by one for each frame that is not the copy of a group frame.

`ConsoleProofs`: `ConsoleTypeCorrect` and `ConsoleKeepsParams`.
`getConsoleCommandParams` passes one variable, `tmpInt`, through six calls of
`getParam`; the model has it as a recursive function, which the proof unrolls
(`ParamsSpec`: what each saved parameter may be after one line). With it the
invariant is the property itself and the types: a parameter is cut to its width by
whichever line stored it last.

**Byte streams.** Both proofs name bytes by the message, or command, they belong to
and their position in it: every byte of the serial line, the first byte of a
receive buffer.

`SocReaderProofs`: `ReaderKeepsToBuffer` and `ReaderRefinement` (the reader and the
line implement `MessageChannel`). Neither has a hypothesis on the constants. What
they need of the line is `Regular`, a predicate of the state: start and length bytes
came together, there were at most five pauses inside messages, and the messages sent
hold their `cmd1` and fit `rspBuf`. Five is the limit of the code, not of the proof,
since `retryAttempts` is never reset; the run `reader_retries` has six pauses and
loses a message. The reader keeps to its buffer for one reason only: it never takes
another byte for a length. So `BufferHolds` is as deep as the refinement and follows
from the same invariant. `ChannelInv` says of a regular line that is up that the
reader is in step with the messages (`Synced`): the next byte of the line is the one
its control state waits for (`NextRead`), `rspBuf` holds the bytes before it, what is
on the wire follows the last byte of the line, and retries are left (`RetriesLeft`:
no read has failed but in a pause, and in each pause at most one). `LengthKept` says
that what has been read of a body and what is missing make up the length found: since
`read()` returns no more than is missing, the subtraction on the `u8` does not wrap,
except for a length of 255. Of a regular line that has hung up, the invariant says
that nothing is left to be read, so that nothing more is written into the buffer.
`MessageChannel` promises nothing new once `up` is false: what was delivered stays a
prefix of what is delivered (`Stray`), since a hung-up line can hand an earlier
message to the `switch` again and a reader out of step anything.

`AppStreamProofs`: `TraceOfHandled` and `StreamRefinement` (an uncut connection
implements `Mailbox`), for any operands and any cuts. `TextInv` says that the bytes
written are the commands, one behind the other, so that each place of the text lies
in one of them (`Last(n)` is where the n-th ends), and no step changes what the text
holds at a place. `SourceInv` then has it that each command handled was found either
at the first byte of a command written, and agrees with that command as far as
`recv()` had brought its bytes, or at a later byte of one, which the filter lets pass
only if it equals the start byte; and that the places follow one another. `BoxInv`
says of an uncut connection that what has come ends with a command and so does what
has been taken, hence `recv()` finds the commands that came since the last one, the
first of them at the beginning of the buffer.

**The whole process.** `GatewayProofs`:

- `PoolStaysOpen`, `NoDescriptorGoesStale` and `GatewayCountsClients` from
  `DescriptorInv`, which adds to the two properties that a connection in the
  backlog is there once and has no descriptor yet: `accept()` would otherwise take
  an open descriptor away from the pool.
- `ResetNextToTouchlink` and `GatewayNumbers` from `FrameInv`: while the program
  waits for a key, the last frame was the touchlink command and no client is left
  to be served.
- `GatewayTypeCorrect` and `GatewayForgetsNoNode` from these with `TableInv` and
  `Typed`. `TableInv` says that an entry of the node table is empty or holds what a
  device announced, since the reports are made from the entries.
- `GatewayRefinement`: the gateway implements `Broadcaster`. The inbox of a member
  is what it has received followed by what `todo` still has for it, in the order of
  the turns. `QueueInv` adds that a member has at most one message in each turn and
  that who was never accepted has received nothing. A `send()` then moves the first
  message of one member from `todo` to its `got` and is a stutter; the step that
  fills `todo` is the announcement, to all members alike; a member that leaves
  takes its part of `todo` along, which disturbs no other.
- `GatewayKeepsBoundedSet`, `GatewayKeepsDirectory` and
  `GatewayListsFirstAnnouncements`: a step of the gateway is a step of `PoolSpec`
  and of `NodeSpec` or leaves their variables alone (`StepOfTables`), so what the
  tables implement by themselves they implement in the gateway.

The parts carry over to the whole by their lemmas (`AddStep`, `ClearSlot`,
`NodesAddStep`, `CtrlStep`, `ZclStep`): each says what one call of a function
changes, and the proofs about `Gateway` cite it for the steps that make that call.
`TableLemmas` has the least element of a set of naturals, that a proper subset of
the indices leaves room, and what a piece of a sequence is.

**Assumptions.** The named assumptions of the modules. Those on the tables, the
counter, the stack and the buffers are facts of the C types (`GarbageAssumption` is
that a `u8`, or a number, is what an uninitialised variable holds;
`StackAssumption` that `buf` holds bytes). `BufLenAssumption` asks in `AppStream`
that the buffer holds the longest command, nine bytes of fifty. `SocMsgAssumption`
and `MessageAssumption` say that what the coordinator sends has addresses,
identifiers and bytes of their types, and a body no longer than its length byte can
say, `ChunkAssumption` and `LineAssumption` that a
line is taken in at least one read, each leaving at least its end for `getc()`,
with parameters that are numbers or not. `CommandAssumption` is about the Apps: a
command begins with the start byte and has all operands its handler reads, any bytes. `BoundsAssumption` says that the bounds
of an instance are numbers. TLC evaluates all of them in the runs.

**Only model-checked.** Liveness, which the prover does not reach:
`EventuallyDelivered`, `ReturnsToPoll`, `EveryCommandHandled`, `DisconnectNoticed`
and `QueryAnswered`.

## 6. What is not modelled

`zllSocSetHueSat`, `zllSocStoreScene` and `zllSocRecallScene`, which nothing calls,
are in `SocSpec` and so in the theorem about it, but in no run.
`server_close` and `socClose` are left out: they run when the process ends and the kernel
closes everything anyway. Not modelled either: what the process does after it has written
behind `rspBuf`, which is undefined; the
contents of frames beyond the command, its addresses and its parameters; more than
seven clients, since `pollFds` then overflows; the coordinator's firmware and the
Apps; the types, build files and interface documents, which have no behaviour.

## 7. Plan

1. Done: the tables with their abstract specifications; commands, console, reader,
   byte stream of an App; the gateway composed of them, with sources that stay
   ready or block for ever.
2. Done: proofs of the invariants and the refinements of every component and of
   the gateway.
3. Done: the two byte streams without restrictions on cuts, operands and lengths;
   what remains true of a line after it has failed or ceased to be regular.
4. Open: the composition of `Gateway` with `SocReader` and `AppStream` in one
   module, in place of the two refinements that stand between them.

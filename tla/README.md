# A TLA+ verification of deno-irc

deno-irc is an IRC client library for Deno, Node.js and Bun: a small core (one
connection, one event emitter, one parser) and some sixty plugins that talk
through events. The program is single-threaded JavaScript. What is hard about
it is not parallelism but everything that happens *between two awaits*: a
`connect()` that is awaited while the application calls another one, a socket
that ends while nobody reads, timers that outlive the connection they were
started for, listeners that change the set of listeners being called, state
that survives a reconnection.

The modules here model that, TLC checks them on small instances, and TLAPS
proves the most important results for every instance. All references
`file.ts:line` are to the repository.

## 1. The system

| Part | State | Operations | Interacts with |
|---|---|---|---|
| `core/client.ts` CoreClient | `conn`, `state.remoteAddr`, `chunk` (incomplete last line), the running `loop()`s | `connect`, `loop`/`read`, `close`, `send`, `disconnect`, `emitError` | runtime (awaits), emitter (events) |
| `core/events.ts` EventEmitter | listeners by event, memorized counts, multi events | `emit`, `on`, `once`, `off`, `count`, `createMultiEvent`, `memorizeCurrentListenerCounts` | called by everybody; listeners run inside `emit` |
| `core/hooks.ts` Hooks | none (patches methods) | `hookCall`, `beforeCall`, `afterCall`, `beforeMutate` | antiflood, batch, echo_message, message_split, verbose |
| `core/parsers.ts` | none | `parseChunk`, `parseMessage`, tags | `loop()` |
| `core/plugins.ts` | the stack and the set of loaded plugins of one call | `loadPlugins` | the constructor |
| `core/queue.ts` | `pending`, `queue` | `add`, settling | antiflood |
| `core/errors.ts`, `core/protocol.ts` | none | constructors, tables | everybody |
| `runtime/node.ts`, `bun.ts` | `chunks`, `pendingRead`, `ended`, `error` | socket events, `read`, `write`, `close` | CoreClient reads, the platform pushes |
| `runtime/deno.ts` | none (delegates) | the same | CoreClient |
| `plugins/cap.ts`, `registration.ts`, `register.ts` | capabilities, `completeAfterAck`, temporary listeners, SASL timer, `state.user` | one listener per CAP / AUTHENTICATE / SASL / 001 line | the server; each other through `utils` |
| `plugins/reconnect.ts` | `currentAttempts`, `timeout` | listeners of `error:connect`, `raw:error`, `connecting`, `register`; the timer | calls `connect()` |
| `plugins/ping_timeout.ts` | `started`, two timers | listeners of `register`, `raw`, `disconnected`, `error`; the timers | calls `ping()`, `disconnect()` |
| `plugins/antiflood.ts` | the queue | hook on `send()` | queue, client |
| `names`, `nicklist`, `mode`, `chanmodes`, `isupport`, ... | who is where with which prefix | one listener per line | each other, through events |
| `who`, `whois`, `list`, `motd`, `monitor`, `userhost_in_names`, `batch` | buffers of replies that come in several lines, tokens of WHOX, `state.userhosts`, `state.batches` | one listener per line, most of them one for "disconnected" | batch hides lines from all others |
| `privmsg`, `notice`, `ctcp`, `action`, `ping`, `version`, `time`, `clientinfo`, `message_tags` | none | a method that sends a line, a listener that reads one and may answer | `send()`, each other's events, the same plugins of the client at the other end |
| `message_split` | `hostname`, the host of the last RPL_HOSTHIDDEN, or the longest there may be | hooks on `privmsg()` and `notice()`, listener of RPL_HOSTHIDDEN | `privmsg`, `notice`, `state.user` |
| `dcc`, tags in `parsers.ts` / `send()` | none | pure text algorithms, one for writing and one for reading | `ctcp`, `message_tags` |
| `echo_message` | none | hook on `emit()` | `state.user.nick` |
| the other plugins | none | a command, or a line re-emitted as an event | - |

**What makes each part correct.** *Client*: one connection at a time, always
read, closed by its own loop, its end reported with its own address, never
replaced silently, closed when the server ends it; lines are made of the bytes of one
connection. *Emitter*: whoever stays subscribed is called in every emission,
`once` is once, errors are thrown exactly when nobody handles them. *Runtime
connection*: a byte stream, no lost wake-up, `close()` ends the reader.
*Queue*: a FIFO server with a fixed number of places. *Plugin loader*:
dependencies first, once, nothing missing, cycles found. *Reconnect*: retries
failures, its own too, and gives up. *Ping timeout*: leaves a silent
server, and only that one. *Antiflood*: order and spacing, no lost slot.
*Framing*: every line that was received is emitted once, whole, however the
bytes were cut. *Registration*: no `CAP END` too early, one where there is no SASL, no
unauthenticated registration where SASL is required unless the server asks for
it, and every connection settles. *Nicklist and modes*: the client's
picture is the server's. *Messages*: what is said arrives whole and in order,
structured data means the same at both ends, every query is answered once, an
echo is one's own. *Buffered replies*: a reply holds exactly the lines of
its request.

**Hard behaviours.** The list, line by line, is `hazards` in `PROJECT.json`;
a hazard without a property has a note that says why.

## 2. The modules

| Module | Models | State and actions |
|---|---|---|
| `Queue` | `core/queue.ts` | `Add` is `add()`; `Settle` is the settling of a task with the whole `finally` of `run()`, which may start the next task |
| `FifoServer` | abstract specification | arrivals are served in order by a fixed number of servers |
| `Client` | `core/client.ts`, the line boundaries of `parseChunk`, `isSilentError` | one action per stretch between two awaits. `Connect` / `ConnectSucceeds` / `ConnectFails` are `connect()` before and after its await, `LoopReads` / `Dispatch` / `LoopEof` / `LoopError` the loop; `Closing` is what `close()` emits, also when `conn.close()` or a "disconnected" listener throws; `events` is what the last step emitted |
| `Reconnect` | `plugins/reconnect.ts` over `Client` | its listeners run in the step that emits (`ReconnectListeners`), `Fire` is the timer |
| `PingTimeout` | `plugins/ping_timeout.ts` over `Client` | `PingListeners`, `PingServer`, `EmitPingTimeout`; a server may fall silent (`GoesMute`) |
| `Supervision` | the client with both plugins | each step of one with the listeners of the others: `Others`, `Reconnects`, `Pings`, `TimesOut`, `Silences` |
| `NodeConn` | the connection of `runtime/node.ts` (read side; `bun.ts` has the same) | `OnData`, `OnEnd`, `OnError`, `OnClose` push, `Read` pulls; a byte is its position in the stream |
| `ByteStream` | abstract specification | a stream read in order and to its end |
| `Framing` | `read()` and `loop()` of `core/client.ts`, the decoder and `parseChunk()`, over `NodeConn` | each step of the connection with what the client makes of it (`Continue`); characters have one, two or three bytes, those of three being byte order marks |
| `Antiflood` | `plugins/antiflood.ts` over `Queue` | `CallSend`, `CallSendTagged`, `Sent`, `NotSent`, `DelayOver`, `Tick` |
| `PluginLoader` | `core/plugins.ts` | the recursion as a stack of frames |
| `Registration` | `cap.ts`, `registration.ts`, `register.ts`, against an external server | two FIFO channels, one handler per line, `SaslTimer`, `Connected`, `Lost`; `ServerDemands` is a 451 that no line of the client asked for |
| `Emitter` | `core/events.ts` | `On`, `Once`, `Off`, `Emit`; running emissions are a stack of loops (`CallPlain`, `CallWrapper`, `CallBroken`, `Return`, `Throw`, `Finish`) |
| `Channels` | `nicklist`, `names`, `mode` (`parseModes`), `chanmodes`, `join`, `part`, `kick`, `quit`, `nick`, `kill`, the hook of `batch`, `state.user.nick`, against an external server | `World` is what happens on the server, each step saying what it tells the client; `Reader` has one action per line, with all listeners it runs through |
| `Texts` | `message_split.ts` (`splitMessage`), the last parameter in `send()` and `parseMessage()` | operators over sequences of UTF-16 units |
| `Dcc` | `dcc.ts` | `FormatDcc` writes an offer, `CreateDcc` reads it, `Meaning` is the reference |
| `Tags` | tags in `send()`, `parseMessage()`, `escapeTagValue()`, `unescapeTagValue()` | `FormatTags` writes, `ParseTags` reads |
| `Messages` | `privmsg`, `notice`, `message_split`, `echo_message`, `ctcp`, `action`, `ping`, `version`, `time`, `clientinfo`, `dcc`, `message_tags`, over the three modules above | several clients and an external server: `Application` is a call, `Relay`, `Rename`, `HideHost`, `ShowHost` the server, `Receive` one line with all its listeners |
| `Collectors` | `who.ts`, `whois.ts`, `list.ts`, `motd.ts`, the list of `monitor.ts`, the buffers of `names.ts` and `userhost_in_names.ts`, `batch.ts`, against an external server | `AskWho`, `AskWhox` (with a token of the application or the next number), ... are the commands, one action per line that is read, `CollectsInBatch` the hook of `batch`, `Disconnected` the resets; `event` is what the last step reported |
| `MCPluginLoader`, `MCRegistration`, `MCEmitter`, `MCChannels`, `MCMessages`, `MCFraming`, `MCCollectors` | - | the values TLC takes for structured constants |
| `CoreProofs`, `SupervisionProofs`, `EventProofs`, `RegistrationProofs`, `ChannelsProofs`, `CollectorsProofs`, `MessagesProofs` | - | theorems and proofs; those of `Queue`, `Antiflood` and `PluginLoader` are in `CoreProofs`, those of `Client`, `Reconnect`, `PingTimeout` in `SupervisionProofs`, those of `NodeConn`, `Framing` and `Emitter` in `EventProofs` |
| `Induction` | - | lemmas about intervals, least and greatest elements, recursive functions, flattened sequences and folds that the proofs rest on, above all those of `MessagesProofs`, `EventProofs`, `RegistrationProofs` and `ChannelsProofs` |

Composition: `Antiflood` EXTENDS `Queue`; `Reconnect` and `PingTimeout` EXTEND
`Client` with what a plugin does, and `Supervision` EXTENDS both and gives the
next-state relation: a step of the client, of a timer or of a server, together
with the listeners of the plugins that did not take it. `Framing` EXTENDS
`NodeConn`, `Messages` EXTENDS `Texts`, `Dcc` and `Tags`; `Queue` implements `FifoServer` and `NodeConn` implements
`ByteStream` (INSTANCE ... WITH). `Antiflood!UsesQueue` says that the plugin
implements the specification of `Queue`, fairness included, that is: uses the
queue as the queue expects.

Two conventions. JavaScript runs to completion, so a step is everything that
happens until the stack is empty, except where other code can observe the
middle: between two lines of one read (`batch`), and between two listeners
(`Emitter`). And what an operator named `X_Bug_Y` defines is not the program:
it is `X` with a plausible mistake, which the property it is paired with in
`PROJECT.json` (`mutants`) must catch.

## 3. The runs

| Run | Question | Instance, and why it is enough |
|---|---|---|
| `Antiflood` | slots exact, FIFO, in the order of the calls and spaced, no slot lost | 3 messages + 1 tagged: one sends, one waits, one arrives later; delay of 2 ticks so that a delay can be half over; the connection is lost twice |
| `Client` | `OneConnection`, `ConnectionIsRead`, `AddressIsServers`, `LoopClosesItsOwn`, `NoSilentChange`, `EndIsNoticed` | 3 `connect()`s to 2 servers: an old, a present and a next connection; 1 line a read; a `close()` that throws, a "disconnected" listener that does, bytes that Node still has when a connection is closed |
| `Supervision` | reconnect stays within its attempts, tries again when an attempt of its own fails, recovers or gives up; the ping timers follow `started`, a timeout hits the server that was pinged, silence is noticed by one plugin or the other | 2 attempts: the application's call, which counts as one, and one of the plugin, then one more after a registration; 3 connections, so that both may be used up and the plugin's may be lost too; a timer left over from one would hit the next; "connected" listeners may throw or disconnect, a `close()` may throw |
| `Framing` | byte stream, no lost wake-up, `close()` ends the loop; the lines that are emitted are those that came, and all that came is emitted | a buffer of 3, data of up to 7 bytes (three reads), 8 bytes: every way to cut them, including between `\r` and `\n` and within a letter; a byte order mark that comes first in a read or not (3 bytes, so that a read can hold a whole one); an empty line, line ends that are none, one that is not whole |
| `PluginLoader` | dependencies first, all and only what is needed, cycles | every graph of 3 plugins with up to 2 dependencies each, every request of up to 2 |
| `Registration` | capabilities right, `CAP END` and mechanism in order, nobody unauthenticated, everything settles | every method with its prerequisites or without (but `saslExternal` with TLS, whose steps are those of `sasl`); 2 connections, since what one leaves behind shows on the next; one CAP NEW, CAP DEL or unprompted 451 at any point |
| `Emitter` | everyone hears, once is once, handled errors are not thrown | 2 events, a multi event of both, a list that names one twice; 2 listeners and a `once`, limit 2, emissions 2 deep |
| `Channels` | nicklists are the membership, the own nick and the server's modes are known | 3 nicks, so that one is free for renames; 2 channels, for what concerns several; two servers that disagree on `q` and on the prefixes; 2 connections, since everything here survives one; 4 events, enough to join, be renamed, let someone take the old nick and leave |
| `Messages` | texts arrive whole and in order, echoes are one's own, queries are answered once, offers and tags mean the same at both ends | 2 clients and a channel, both with and without echo-message; 2 things said by anybody to anybody, or one and 2 changes of nicks and hosts around it; a nick that is longer than the others, hosts of 1 byte, then of 3 and of 1 again, that are announced (RPL_HOSTHIDDEN) or not, where 2 are assumed before; lines of 26 bytes with room for a text of 3 to 7 bytes, so that the texts of the run are cut at a space, at one of two, at a limit and at a two-byte letter; every DCC file name of up to 3 characters out of a letter, a space, a quote and a backslash; every tag value of up to 2 units out of those that are escaped, separate or could be taken for an escape |
| `Collectors` | a reply holds the lines of its request and no others; the masks are those of the last NAMES | 2 requests of any kind with replies of up to 2 parts: two of one kind one after the other, of two kinds interleaved, of two targets; a token of the application that is also the first number of the plugin; first fields that are a target, the token or neither; in batches with one nested, or in none; a line of WHOIS nobody asked for; a server that sends RPL_LISTSTART, masks and tokens, and one that sends none; 2 connections |
| `ClientPartialLine` | violated: `LinesAreWhole` | see section 6 |
| `RegistrationFallback` | violated: `FallsBack` | see section 6 |

Bounds that are part of a module and not of an instance: `MaxLines` (lines in a
read), `ApplicationConnects`, `MaxEnds`, `MaxData`, `MaxSent`,
`MaxConnections`, `MaxChanges`, `MaxSaid`, `MaxNotices`, `MaxDepth`,
`MaxRequests`, `MaxParts`, `MaxAways`. Each only limits how often the
environment acts. `CHECK_DEADLOCK FALSE` stands where the program may come to
rest: all messages sent, the stream closed, all plugins loaded, the connection
registered, the bound on events of `Channels`, `Messages` or `Collectors`
reached. `Collectors` is checked up to permutations of channels, `Channels` up to permutations of nicks and channels, `Messages` up to those of
the clients, none of which their definitions name.

The types of `Client`, `NodeConn`, `PluginLoader`, `Queue`, `Antiflood`,
`Emitter`, `Registration` and `Messages` are part of the invariants that are
proved and have no run of their own, like the theorem `InitialisedOnce`.

**Preconditions.** Some properties hold for callers and runtimes that behave;
the constants say so and theorems carry them as hypotheses:
`SerialConnect` (the caller awaits `connect()`), `PromptClose` (closing a
connection ends its read at once: Deno and Node, not Bun, whose `close()` is
`socket.end()`), `ApplicationConnects = 1` and at least one attempt for `GivesUp`,
`ListenersDisconnect = FALSE` for the ping timeout. `OnClose` says what may happen
in `close()`; that its error is not one the runtime calls silent (`CloseIsHeard`)
is assumed where a plugin must hear of every lost connection: Deno calls
`BadResource` silent (deno.ts:52), and there the connection goes without a word. The lines of `Collectors`
are those of servers that answer requests of one kind in order and name a target
as it was asked for, and `sound` and `Foreign` name the replies that are not exact. The server of `Channels` has granted `multi-prefix`, names
a nick and a channel always by the same letters, and no argument of a MODE
begins with a sign. The streams of `Framing` are UTF-8 texts without U+FFFD, by
which the properties know what a cut has lost (`IsText`), and a byte order mark in
them does not follow a `\r` (`IsMarked`): dropping it could otherwise bring a
bare `\r` and an `\n` together. In `Messages` nicks and targets have any
lengths, hosts may change at any time, announced or not, and the user name that is
shown may be longer than the one of the options; `TextArrives` exempts those
who may have been relayed a line with a longer prefix than its author had been
told of when it was cut (`overrun`), since nothing the client knows would
have told it. The server has granted `message-tags`, and nobody calls `tagmsg()` with `{}`;
texts are said by `privmsg()` and `notice()` (the `Commands` of the run), have no
surrogate pairs and no word that begins with a colon at the beginning of a part
that starts with a space (`PlainSayings`); a file that is offered has a name, the key of a
tag is not empty and has no `=`, `;` or space, a tag without a value is written without one,
and neither have surrogates (`PlainData`); queries, offers and tags fit the line, which only
texts are cut for. Section 6 says what happens otherwise.

**Fairness.** Only what the runtime does by itself is fair: an awaited
`connect()` or read settles (`ConnectSettles`, `LoopEof`, `Read`, `OnClose`),
the lines of a read are emitted (`Dispatch`), an armed timer fires
(`SaslTimer`, `Pings`, `TimesOut`, `Reconnects`, `Tick`, `DelayOver`), a task
settles because `send()` does. `LoopEof` is strongly fair because every
dispatched line disables it for a moment while a closed connection holds only
finitely many bytes; the timer of `Reconnect` (`Reconnects`) is, because every ERROR line
restarts it, and a server does not send them for ever. Nothing the application
or a peer decides (calling, sending, ending) is fair; lines that were sent do
arrive (`ServerHandles`, `Receive`) while the connection lasts.

## 4. What is proved

For every value of the constants, from the named assumptions of the modules:

* **Queue.** `TypeCorrect`, `SlotsAreExact` and `QueueRefinesServer` (the
  safety part of `IsFifoServer`), from `ConcurrencyAssumption` alone. `SlotsExact` alone is not inductive: the
  invariant `IInv` adds that the waiting tasks are a suffix of `added` without
  repetitions, that exactly the tasks before it have been started, and that
  nobody waits while a slot is free. From it, the tasks in service in
  `FifoServer` are the running ones, and each step maps to an arrival, to a
  completion or to a stutter.
* **Antiflood.** `OrderAndSpacing`: the order of the calls and the delay, for
  any messages and any delay, on top of `IInv` of the queue. `FInv` adds that the
  tasks which run are those that send or wait, that what was written has left
  the line, and that the time since a message was sent and what its timer has
  left make at least the delay. With one slot nobody else runs when a task
  starts, so every message sent has kept its delay.
* **Client.** `TypeCorrect`, `ConnectionStaysRead`; with `SerialConnect`
  `OneConnectionAtATime` and `AddressIsTheServers`, and with `CloseIsHeard` too
  `ChangesAreAnnounced`; with `PromptClose` also `LoopsCloseTheirOwn`.
  `ChangesAreAnnounced` says that a connection that ceases to be `this.conn` is
  followed by "disconnected" or, when its `close()` failed, by an error of kind
  "close"; `AddressIsTheServers` that "disconnected" carries the address of the
  connection that was closed, but for the one a `connect()` replaces (section 6). The invariant adds that at most one
  connection is awaited, that none is open meanwhile (`ConnectsAlone`), that its
  host is `remoteAddr` already, as is that of `conn` (`AddressInv`), and that no loop of an older
  connection is left once there is a new one (`LoopsAlone`).
* **Supervision.** With the assumption `OneCaller` (the application calls
  connect() once, awaits it, and disconnects from no listener of a line; closing
  a connection ends its read at once, with no bytes left; the error of a
  `close()` is not silent) `PingTimersFollow`, `PingedIsLeft`
  and, for a limit above 0, `PluginGivesUp`: the safety
  properties of the run. `SupervisionInv` builds on the invariant of the client.
  What a step of the client means to a plugin is stated once (`ClientFacts`,
  `NoCall`) and proved for each step; the invariants of the plugins
  (`PingInv`, `TimerInv`, `Budget`) follow from these facts alone. `TimerInv`
  says that a pending timer of reconnect goes with no awaited connect(), so that
  nothing but the connection that failed can be there when it fires. `OneCaller`
  is needed: with a second connect() of the application while the timer is
  pending, the timer closes the connection it made (reconnect.ts:70) and the
  counter steps over the limit. With
  `reconnect.attempts` at 0 the counter has passed the limit before the first
  failure.
* **NodeConn and Framing.** `TypeCorrect`, `NoLostWakeUp`, `NothingIsLost`,
  `ReadsContinue` and `ImplementsByteStream` (the safety part of
  `IsByteStream`). The invariant relates `chunks` to the positions of what was
  read and what was received, and a pending read to empty `chunks`; for the
  refinement a second one (`JInv`) says that the socket is quiet once its end
  has been reported. On top of it `LinesArriveWhole`: the lines are those that
  were read, however reads and data events cut the bytes. `LinesArrive` speaks of
  whole lines, the invariant (`Framed`) of every byte as well: each that was
  read begins a letter that is there, or one that was cut, or adds nothing
  (`Letters`), the emitted lines are what lies between the line ends, and
  `chunk` is what follows the last one, up to a "\r" that may become one. A read
  of n bytes is n reads of one byte for it: parsing an input with one more
  character completes a line or leaves the remainder longer by it (`ParseOne`),
  and parsing twice is parsing once (`FeedOnto`). A byte order mark that a read
  begins with is dropped by the decoder and stands in no line (`IsDropped`).
  From `FramingAssumption`: the streams are texts (`IsText`, `IsMarked`).
* **PluginLoader.** `LoaderTypeCorrect`, `DependenciesFirst`, `InitialisedOnce` and
  `NeededAreLoaded`, for every graph, cyclic or not. The invariant says that the
  stack is without repetitions, that what a frame has passed is loaded, and that
  nothing on the stack is loaded yet. For `NeededAreLoaded` a second one (`NeedInv`)
  adds that the stack is a path of the graph, that what is loaded or on it
  belongs to every set closed under dependencies, and what was requested so far
  is loaded or on it. So what is loaded at the end is closed itself and the
  least such set (`NeededIs`), and what `throw` reports is the end of the path,
  from the plugin that came up again.
* **Emitter.** `EmitterTypeCorrect`, `EmissionsReachEveryone`, `OnceCallsOnce`,
  `HandledErrorsAreNotThrown`, for any events, multi events, listeners and depth
  of nested emissions. None of the three is inductive. The invariant adds that nobody
  is listed twice for an event (`Distinct`), that whoever was there when a loop
  began has been called by it or has its place still to come, whatever was added
  or removed since (`LoopsAttend`), that the memorized listeners of the plugins
  stay (`MemorizedStay`), and for each listener that `once()` makes that it is
  listed nowhere before `on()` and after its call (`CallsKept`).
* **Registration.** `TypeCorrect`, `NobodyRegistersUnauthenticated`,
  `NegotiationIsOrderly` and `PictureFollowsServer`: every safety property of the
  run, for any capabilities, options and servers, and any number of connections
  and of listeners that they leave behind. The invariant `Safe` says which lines
  may be on their way, depending on whether the server has logged the client in
  (`LinesAllowed`): with `sasl` and `saslExternal` no NICK and USER before that,
  unless the server said 451, no `CAP END` before that or the report of a failure,
  and no 903 either. So whoever is registered without being logged in was
  asked for by a 451 and has reported the failure. `EndsOnce` and `AnnouncesOnce` tie the lines that were sent
  to `completeAfterAck` and to the only listener that announces a mechanism.
  `CapsPictured` is what makes `CapsFollowServer` inductive: the client's
  picture together with the lines on their way (`Leads`) comes to what the
  server knows, where a line of CAP LS counts only as long as an `onLs` listens.

* **Channels.** `ModesAreLearnt`, `OwnNickIsFollowed` and
  `ListsFollowMembership`: every property of the run, for any finite set of
  nicks, any channels and servers, and any number of connections and events.
  All three speak of the moments when everything has been read, so the
  invariant has to say what holds in between. It names what is on its way:
  what is left of a registration and what is known by then (`Learning`), one
  line or one listing that follows a step of the server (`Reading`,
  `Collecting`), or nothing (`Idle`). For each of these it says what the client's
  names will *become* when the lines have been read, and that this is the
  membership (`Becomes`): the names without whoever left, with the nick under
  its new name, with the mode at its place among the prefixes, or, within a
  reply to NAMES, the buffer that holds exactly the nicks whose lines were read
  (`Read`). So each action of the server has one lemma that its lines lead to
  the new membership, and each line one lemma that reading it gets there.
  `NoneOpen` and `carried` keep a buffer that survived a connection apart. The
  proofs rest on lemmas on what the folds of `parseModes()` and of
  "mode:channel" come to: that the argument of a prefix mode is the nick
  whatever flag precedes it, that each prefix takes the place of its rank
  (`PriorityIs`, `ArrayPut`), and that the least place held is the highest prefix
  (`HighestIsTop`). From `ChannelsAssumption`: modes of PREFIX are different,
  have a parameter (type "b"), and operators are among them.

* **Collectors.** `ExactReplies` and `UserhostsFollow`: both properties of the
  run, for any channels, nicks and servers, and any number of requests, lines,
  batches and connections. Neither is inductive: they speak of the moment when a
  last line is read, and what the buffers hold then depends on every line that
  came since the reply began, while lines of other kinds came in between. A
  server answers the requests of one kind in order, so the client is always
  at one place in the replies of a kind (`Progress`: the parts read of the reply
  under way, whether its first line was, what its open batches have collected).
  `IInv` asks for such a place, for each kind, from which the lines still
  on their way lead to between two replies (`Leads`, each line being `Due` when
  its turn comes), and which the plugin's buffers agree with (`Keeps`). Then a
  command has one lemma: what the server sends leads from between to
  between, in batches or not (`LeadsReply`, `LeadsInBatches`, `TaggedLines`); and
  a listener has one: its buffer follows the place (`WhoKeeps`, `WhoisKeeps`,
  `ListKeeps`, `MotdKeeps`, `MonitorKeeps`, `NamesKeep`). What the buffers of
  whois.ts, list.ts and names.ts keep beyond it is what an earlier connection
  left (`Older`) and the lines of WHOIS nobody asked for, which is where `Foreign`
  comes from; `EndsWho` adds that the token of a reply to `who()` is in the map
  until its last line, unless another request has taken it. A token of
  the application may be any number, in use or yet to be drawn: a reply
  whose token is taken for another target while it is on its way is `disputed`
  from then on, and without tokens the first field of a line says where it is
  kept, wherever that is. From `CollectorsAssumption`: no channel and no nick
  looks like a token.

* **Messages.** `Types`, `EchoesAreOwn`, `QueriesAreAnsweredOnce`, `TextsArrive` and `DataArriveWhole`, for any clients, nicks,
  texts, queries, offers and tags, and any number of them and of changes.
  `EchoIsOwn` is not inductive: a client may be renamed, and its nick taken by
  another one, while lines with the old nick are on their way. `OwnInv` adds
  that the lines on their way to a client, read one after the other, make it
  know at each of them the nick the server had when it relayed the line
  (`Tracks`). For `AnsweredOnce`, what the application said, the lines that
  wait at the server, those that were relayed and the events are each given
  what they contribute to the sequence of queries or of answers (`Sift`); what c
  has heard, the answers on their way back and the queries on their way to d
  come, in this order, to what c has asked (`Balanced`), and every step moves a
  contribution from one place to the next (`PipeSend`, `PipeRelay`,
  `PipeReceive`, `BalancedStep`). `NamesStay` adds that as long as nobody is
  renamed, a line names its author. `Types` needs that splitting a
  text terminates with parts (`SplitSteps`, `CutIs`): from `RoomAssumption`,
  that every nick, host and target leaves room for a unit, each cut advances.
  `AnsweredOnce` is about the order and the kind of the answers; the words of
  texts are in `TextArrives`, for texts as in `PlainSayings`, and what offers and
  tags mean is in `DataArrives`, for those of `PlainData`; the run
  assumes both as `PlainAssumption`. The first argument follows a text: the parts that
  `splitMessage()` makes have its words, fit the line and can be read again
  (`SplitGood`) with the nick and the host the client has been told of
  (`HostsFollow`, `LineFits`); with a prefix that is not longer they still do
  (`RoomShrinks`), so the server truncates none of the lines of whoever is not
  in `overrun` (`OverrunStays`), the others hear them as messages, and what c said to others and d has
  not heard yet is on its way, in order (`Conveyed`). The second uses the same
  pipe with other contributions (`DataConveyed`) and rests on two facts about
  every file name and every tag value, of any length: `OfferSurvives`,
  that `CreateDcc` reads from what `FormatDcc` writes what the offer means, for
  each of the actions, and `TagsSurvive`, that `ParseTags` reads from what
  `FormatTags` writes the tags that were given. Both recursive readers mark which
  units follow an escape (`Marks`); the places of the escapes that were
  written are marked in the same way, so each unit is read as what it was
  written for (`ReadsBack`), and where a token or a tag ends
  follows from its units having no separator outside of quotes.

An induction over data with an operator as its parameter is out of the prover's
reach; `Induction` states what is needed of it for sets (a set of naturals that
has 0 and all successors has every natural, by its least counterexample) and of
the folds of the community modules for functions. So `HearAll`, the fold of a
CAP line over the listeners that have piled up, `on()` over the names of a multi
event and `off()` over the listeners of an event are within the proofs.

Every invariant and every action property of the runs is proved. Only model-checked is every liveness property (`EndIsNoticed`,
`RecoversOrGivesUp`, `SilenceIsNoticed`, `CloseEndsReads`, `ReceivedIsEmitted`,
`Terminates`, `Settles`, the fairness parts of `IsFifoServer`, `IsByteStream` and
`UsesQueue`), since fairness is beyond the prover.

## 5. The plan

In this order; what is there is ticked.

1. [x] `Queue` with `FifoServer`, and its proofs: the smallest component, used by antiflood.
2. [x] `Client` and its proofs: the core, on which the plugins with timers build.
3. [x] `Reconnect`, `PingTimeout` over `Client`, together in `Supervision`, and its proofs; `NodeConn` with `ByteStream` and proofs.
4. [x] `Antiflood` over `Queue` and proofs; `PluginLoader` and proofs; `Registration`.
5. [x] `Emitter`.
6. [x] `Channels`: `names`, `nicklist`, prefix modes, `state.user.nick`, joins, parts, kicks, renames, netsplits and reconnections against a server's membership.
7. [x] `Collectors`: `who`, `whois`, `list`, `motd`, `monitor`, `userhost_in_names` and nested batches.
8. [x] `Messages` over `Texts`, `Dcc` and `Tags`: what clients say to each other.
9. [x] `Framing`: `parseChunk` and the decoder under every fragmentation of the bytes.
10. [ ] `ConnWrite`: writes on Node, Bun and Deno, with partial writes and errors.
11. [x] Proofs about `Emitter`, `Registration`, `Channels`, `Collectors`, `Messages` and `Framing`.
12. [x] A proof of `DataArrives`.

## 6. Where the code differs from what it says

Shown by a run:

* `ClientPartialLine`: `this.chunk` (client.ts:214) is not reset between
  connections. An incomplete last line of a lost connection is put in front of
  the first line of the next one.
* `RegistrationFallback`: with `saslThenNickServ` (registration.ts:141) NickServ
  is asked before the client is registered; the server refuses with
  ERR_NOTREGISTERED, the client then registers and does not ask again.

Met while modelling, and kept out of the passing runs by a precondition:

* `off()` of a user's listener lowers the memorized count of the plugins'
  listeners (events.ts:127-131): once a listener of the user has come and gone,
  `count()` is one too high, and an error that nobody handles is silently
  dropped, against the comment at client.ts:121-124. `HandledIsNotThrown` states
  the direction that holds; with `=` instead of `>=` it fails after four steps.
* Two overlapping `connect()`s (client.ts:171-191): the second forgets the first,
  whose socket stays open (`SerialConnect`). The reconnect timer
  (reconnect.ts:70) may be one of the two (`ApplicationConnects`).
* A loop whose end is noticed late closes the connection made meanwhile
  (client.ts:223), as on Bun (`PromptClose`).
* `connect()` to another server reports the old connection's end under the new
  address (client.ts:169-173), the exception in `AddressIsServers`.
* A `close()` that throws (client.ts:251-252) gives an error of kind "close" and no
  "disconnected", and `this.conn` is null all the same. On Deno the
  error for a connection that is closed already is a silent one (deno.ts:52): then
  nothing is emitted at all, and what the plugins reset on "disconnected" stays.
* A `"connected"` listener that throws leaves an open connection unread
  (client.ts:193); one that disconnects causes a spurious read error.
* `disconnect()` while `connect()` is awaited does nothing (client.ts:244), and it
  does not stop a pending reconnection.
* The reconnect timer does not look at `this.conn` (reconnect.ts:70): a
  connection that the application made while it was pending is closed.
* With a timer pending, a `connect()` of the application makes
  `currentAttempts` step over `attempts` (reconnect.ts:65, 95), and the plugin
  never gives up; the application's first `connect()` counts as an attempt; after
  a registration the first delay is half of the configured one (reconnect.ts:75);
  a connect error that the runtime calls silent is not retried. With `attempts: 0`
  the comparison is never true after the first "connecting".
* reconnect.ts listens to connect errors and ERROR lines only: a connection that
  just ends, or that ping_timeout closes, is not followed by another one.
* A "disconnected" listener that calls `disconnect()` or `connect()` enters
  `close()` again while `this.conn` is still set (client.ts:249-254): without end
  on Node and Bun, with an error of kind "close" on Deno. A raw listener that
  throws rejects `loop()`, which nobody awaits (client.ts:218).
* Any `"error"` stops the ping timers (ping_timeout.ts:66), also the one
  monitor.ts:142 emits for a full MONITOR list while the connection goes on; only
  a new registration arms them again. With `"monlistfull"` among the commands of
  `Supervision.cfg`, `SilenceIsNoticed` fails. After an ERROR it is the timer of
  reconnect that leaves a server which stays without a word.
* A line dispatched after `disconnect()` arms the ping timers without a
  connection (ping_timeout.ts:38), and the timeout hits the next one.
* A letter of several bytes that a read cuts becomes replacement characters
  (client.ts:238), and a byte order mark at the beginning of a read is dropped,
  wherever in a line that is; one between a `\r` and an `\n` would complete a line
  end. `LinesArrive` knows both (`IsCut`, `IsDropped`).
  The result of `write()` is not looked at: what Bun or Deno did not write of a
  line is lost (bun.ts:139, client.ts:323).
* An error followed by "close" before the next read is reported as a regular end
  (node.ts:80).
* A PRIVMSG with tags bypasses antiflood (antiflood.ts:26); the queue is carried
  over to the next connection.
* A 451 is answered with NICK and USER under every method (registration.ts:191):
  with `sasl` and `saslExternal` a server that says it before SASL has
  succeeded, and lets the negotiation end after the failure, has registered an
  unauthenticated client. With SASL the client may send `CAP END` up to three
  times on one connection (registration.ts:138-154): when the timer fires, at the
  906 that this provokes, and at a 904 that comes late.
* The SASL timer of a lost connection fails SASL on the next one
  (registration.ts:154), and its `off()` removes nothing because `once()` wraps
  the listener. `caps.available` and `caps.enabled` are never reset
  (cap.ts:58-62), so `CapsFollowServer` is stated for the first connection.
* The QUITs of a netsplit come in a batch, which batch.ts:81 keeps from the
  nicklist: those who left stay listed until the next NAMES. A connection lost
  within a NAMES reply leaves its buffer (names.ts:35), which is merged into the
  next reply for that channel. `known` in `Channels` leaves both out of
  `NicklistFollows`.
* state.nicklists survives the connection: after a reconnection it still lists
  the channels of the one before, until they are joined again.
* The entries of a WHO of a nick are kept under the channel of the line
  (who.ts:73): its own reply is empty, and the next WHO of that channel reports
  them (`Foreign`). A WHOX whose fields lack `t`, as in API.md:2335, gets no
  token, and its entries are kept under the first field (who.ts:105-107), a user
  name or a channel: when that is the target of another WHO, or is like a token,
  they are reported with it (`Mistaken`). A token that the application gives
  (who.ts:60) is not compared with those in use, nor is the next number: the
  entries on their way with it go to the later target (`disputed`). Of two
  overlapping requests for one target the first RPL_ENDOFWHO forgets the token of
  the second (who.ts:132-135).
* whois.ts keeps the RPL_AWAY of a message as a field of the next WHOIS of that
  nick, and the fields of a lost connection. list.ts empties its buffer at
  RPL_LISTSTART, which servers may leave out: the channels of a lost connection
  are then reported with the next list.
* motd.ts:26,37 hands out the array it goes on using: an application that keeps it
  sees it change with the next MOTD; in the same way nicklist.ts changes
  the names object of "names_reply".
* `state.monitorList` is neither sent again after a reconnection nor reduced when
  the server answers ERR_MONLISTFULL.
* An argument of a MODE that begins with a sign (`MODE #c +k -key`) is taken for
  modes (mode.ts:95), and every later argument goes to the wrong one.

* `client.msg` is set to `privmsg` before the hook of message_split.ts replaces
  `privmsg` (privmsg.ts:41, message_split.ts:88), and `client.ctcp()` sends by
  itself: neither is split, although API.md:2031 calls `msg` an alias
  of `privmsg`. Without `PlainAssumption` and with `"msg"` among the `Commands` of
  `Messages.cfg`, `TextArrives` fails: the server truncates the text.
* Nothing but texts is cut (message_split.ts:88-110): a query or an offer that is
  longer than a line, with a long file name for one, is truncated by the server
  and loses its end. `Relayed` takes them to fit, so `DataArrives` says nothing
  of such lines.
* splitMessage() may cut between the halves of a surrogate pair
  (message_split.ts:36-42), and both become U+FFFD; without `PlainAssumption` and with `"h"` and `"l"` in a
  text of `MCSayings`, `TextArrives` fails. A limit below the bytes of the first
  character makes its loop endless (charLimit 0, message_split.ts:52-53); the
  model has no value there.
* calcOverhead() counts nick, user name, host and target in UTF-16 units and not
  in bytes, and not the `~` a server may put in front of the user name
  (`UserShown` above `UserLength`). It uses the nick and the host that the client
  has read of: what is cut while a longer nick or host is on its way, or after
  a host changed without RPL_HOSTHIDDEN (CHGHOST is not listened to), may be
  truncated. `hostname` survives the connection: the hidden host of an earlier
  one is assumed for the next (message_split.ts:78-84).
* send() looks for a space from the second character on (client.ts:303): a text
  of a space and a word is sent without the colon, and loses the space and a
  colon after it.
* Tags that are `{}` are sent as `"@ "` (client.ts:310-314), after which
  parseMessage() finds an empty command.
* With echo-message granted, a client's own CTCP queries to a channel or to itself come
  back and are answered by itself (ping.ts:151, version.ts:77): the hook of
  echo_message.ts knows privmsg and notice only, `ctcp_action` and `tagmsg` of
  one's own are reported like those of others.
* A DCC offer with an empty file name is written without it (dcc.ts:486), and the
  fields after it are read one place too early. `localhost` is written and not
  read. A tag with an `=` or a `;` in its key is read as another one
  (client.ts:311-312 escapes values only). Without `PlainAssumption`,
  `DataArrives` fails for such a file name and such a key.
* CTCP without a parameter: `PING` and `ACTION` without an argument are dropped
  (ping.ts:129, action.ts:43), `FINGER` and the others that are unknown are
  emitted as `raw_ctcp:undefined` (ctcp.ts:95-105).

## 7. What is not modelled, and why

The text of messages beyond their last parameter and their tags: prefixes, the
other parameters and what `topic` and the like put into them are data below the
level of the properties. Hooks have no state; a hook appears as the operation it changes.
`verbose`, `throw_on_error`, `invalid_names` and the option checks print or throw.
`state.monitorList` is read and changed by the application alone, and the events
of lines 730 and 731, like those of most one-line plugins, say what the line says.
Writes are settled as a whole: how many bytes the platform took is not modelled
(section 5, item 10). Listeners that throw inside the read loop end it with a
rejection nobody handles, which ends the process; `Emitter` has them, `Client`
has only those of "connected". The fields of an entry and the order of the lines
within a reply are left out of `Collectors`, and which plugin hears a line in a
batch out of everything but `Collectors` and `Channels`. TLS, DNS and the sockets
of the platforms are external: the modules allow every outcome the code handles.
`testing/`, `bench/`, `integration/` are not part of the program. Planned parts are
in section 5; `components` in `PROJECT.json` gives the status of each file.

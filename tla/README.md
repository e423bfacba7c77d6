# Verification of the chat client

The repository is a command-line client for the IPK25-CHAT protocol, in C, with a
UDP and a TCP variant (`src/src/*.c`; `src/README.md` holds the protocol text and
the documentation of the program). This directory holds TLA+ models of it, the
TLC runs that check them on small instances, and proofs for every value of the
constants, checked by TLAPS.

Contents: the system and its parts, the modules, how state and actions correspond
to the code, the runs and their bounds, fairness, the proofs, what the runs found,
what is not modelled, the plan.

## The system

One process, two threads, one socket. `main` parses arguments, starts the
listener thread, and reads lines from standard input; a line is a command or a
message. The listener receives from the server. Both threads send: `main` sends
the commands and the BYE, the listener sends confirmations (UDP) and ERR. SIGINT
runs `graceful_quit` on top of whatever the interrupted thread was doing. **No
variable is protected by a lock.**

| Part | Code | State | Operations |
|---|---|---|---|
| Process, input loop, shutdown | `main.c` | `state`, `listener_thread_running`, the dispatch by state | start, dispatch, `graceful_quit`, `handle_sigint`, `cleanup`, `exit` |
| Session | `state*.c`, `state.h` | `state`: START, AUTH, OPEN, JOIN | which commands are accepted in which state; what a REPLY does in it |
| Commands | `cmd_*.c` | the display name, the message built on the stack | `/auth`, `/join`, a message, `/rename`, `/help` |
| UDP sending | `network_udp.c` | `udp_socket`, `port`, the locals of `send_network_msg_udp` | resolve, take an ID, send, wait, look up, retry, give up |
| UDP listener | `network_udp.c` | `recv_buffer`, `port` | create and bind the socket, adopt the server's dynamic port, one handler per message type |
| Confirmed IDs | `id.c`, `main.c` | `confirmed_msg_ids`, its size, the write index | look up, record a CONFIRM, double the table |
| Seen IDs | `id.c` | `seen_ids`, `seen_count`, its size | `is_message_duplicate` |
| TCP framing | `network_tcp.c` | `recv_buffer`, `line_buffer` and its size | cut the stream into lines, keep the rest |
| TCP client | `network_tcp.c` | `tcp_socket`, `listener_thread_running` | send, receive, one handler per message type, stop, close |
| Datagram layout | `serialize.c`, `deserialize.c`, `messages.c`, `messages.h` | none | one writer and one reader per message type |
| Line buffers | `main.c` | `line` and its block, `unprocessed_line` | `getline`, cut the newline, copy, `strtok` by `main` and the commands |
| Validation | `validation.c`, `maximums.h` | none | one check per kind of parameter |
| Arguments | `args.c`, `defaults.h` | the settings | `parse_args` |
| Debug output | `debug.h` | none | compiled out by default |

The interactions that make it hard:

* the main thread and the listener both increment the message index, scan and
  write the table of confirmed IDs, and the listener reallocates it meanwhile;
* a CONFIRM is recorded by position (the slot before the write index), not by the
  message it names; CONFIRMs may be late, repeated and out of order;
* replies are not matched with requests; the state may change between the
  dispatch of a command and its effect;
* the listener changes `port` in two steps while the main thread may resolve it;
* either thread may call `exit()`, whose cleanup closes the socket, frees the
  tables and cancels the listener, while the other thread runs on;
* a signal handler that never returns interrupts a half-done send;
* buffers are reused: `recv_buffer` keeps the bytes of older datagrams,
  `unprocessed_line` is filled again for each line, `getline` is given back a
  pointer that `strtok` has moved;
* the limits of `maximums.h` meet arrays and buffers that are one byte short of
  them (`display_name`) or sized for another message (`MAX_MSG_SIZE`).

What each part must keep: *session*: JOIN and messages only after an accepted
AUTH, and only the transitions of the state machine; *UDP sending*: stop and wait,
unique IDs, all retransmissions before giving up, no false failure, an end to
every send; *listener*: repeated messages shown once, the port switched before the
session opens; *tables*: no access outside, each slot its own message; *framing*:
the messages written are the messages handled, and read as they were written;
*input*: what is sent is valid, and comes from the line just typed; *arguments*: the
settings are the ones given; *shutdown*: it happens, and BYE is the client's last
command.

## The modules

Threads, network and signals, over whole messages:

| Module | Models |
|---|---|
| `ChatSession` | abstract: the session's state machine, as both variants promise it |
| `UdpClient` | both threads of the UDP client, the network, an external server; implements `ChatSession` |
| `TcpClient` | both threads of the TCP client, shutdown, SIGINT, an external server |

Contents of messages, over the buffers and conversions of one thread:

| Module | Models |
|---|---|
| `CStrings`, `Maximums` | characters, `strncpy`, `strstr`, `strtok`; the limits of `maximums.h` as parameters |
| `Validation` | the checks of `validation.c` |
| `Datagrams` | the bytes that `serialize_*` writes and `deserialize_*` reads |
| `TcpText` | the text that `send_tcp_*_msg` writes and `process_tcp_*_message` reads |
| `IdSet`, `SeenIds` | abstract: a set of IDs; the growing array of `is_message_duplicate`, which implements it |
| `Delivery`, `UdpReceive` | abstract: each chat message shown at most once and confirmed only when shown; the listener's receive buffer and handlers, over `SeenIds` and `Datagrams`, which implement it |
| `MessageStream`, `TcpFraming` | abstract: the server's messages, whole and in order; the buffers of `tcp_listener`, byte by byte, which implement it |
| `TcpReceive` | `TcpFraming` with the messages of the grammar, read by `TcpText` |
| `Arguments` | `parse_args`, comparison by comparison |
| `Program` | the main thread: `Arguments`, then the input loop, the commands with `Validation`, and the message as `Datagrams` or `TcpText` write it |
| `MCProgram`, `MCUdpReceive`, `MCTcpReceive` | lines, command lines and messages for the runs |
| `*Proofs` | theorems and proofs about the module they are named after; `TcpFramingProofs` is about `TcpReceive` as well |
| `CStringsProofs` | lemmas about texts put together of pieces, and about what `strstr` finds in them; `TcpFramingProofs` and `ProgramProofs` use them |

The two groups meet in the actions: a command of `Program` is `Compose` or
`BadArguments` of `UdpClient`, and `SendCommand` or `BadArguments` of `TcpClient`; a
handler of `UdpReceive` is `HandleMsg`, `HandlePing` and so on of `UdpClient`, which
uses the set that `SeenIds` implements; a line of `TcpFraming` is a message of
`TcpClient`. The whole, bytes and threads at once, is too large to check.

Definitions marked `mistake:` in the modules are not part of any specification.
They are variants of the definition that follows them, each with a plausible bug,
and serve to show that a property notices it.

### UdpClient and the code

An action is the code of one thread between two points where the other thread can
see a difference. `pc[t]` is the place: `input` is the loop of `main`; `exec` is a
command between dispatch and its effect; `resolve, load, store, send, wait, scan`
are `send_network_msg_udp` (`getaddrinfo`; the read and the write of
`confirmed_msg_ids_index++`; `sendto`; `nanosleep`; the final look-up); `start,
bind, recv, port, process, grow` are the listener. `success`, `failure` and
`unconfirmed` mean inside `exit()` with that outcome.

* **Commands.** `Dispatch` is `state_*_logic`; `Refuse` is its refusal;
  `BadArguments` and `Compose` are the two outcomes of `cmd_*`.
* **Network.** `toServer` and `toClient` keep every datagram ever sent; handling a
  member any number of times, late or never is loss, duplication, delay and
  reordering. The server confirms whatever reaches it, so a CONFIRM of any message
  sent may arrive at any time (`SrvConfirms`).
* **Server.** External and honest: it answers each request once, accepts one AUTH,
  sends the messages of `ServerKinds` when it likes. `MALFORMED` stands for any
  datagram of unknown type.
* **Undefined behaviour** is a choice over outcomes. `port` between `malloc` and
  `snprintf` resolves to nothing or to some other port (`garbage`); a scan of a
  table that `realloc` or `free` is at finds anything; the memory behind the table
  may hold the ID looked for; the second `free` of the ERR's buffer may crash.
  `torn` remembers such a scan. Properties about the content of the table are
  stated as long as it is false: afterwards the program's behaviour is undefined
  anyway.
* **exit()** is two steps. `Exit`: `cleanup` closes the socket, frees the tables,
  cancels the listener. `Leave`: stdout is flushed and the process ends; a listener
  that called `exit()` has cancelled itself and dies in the write of the flush if
  there is something to write.
* **SIGINT** goes to the main thread, or to the listener while the main thread is
  in the handler. The handler never returns; above a place that holds the
  allocator's or stdio's lock it may hang (`hung`).
* `ForgetCall` clears the locals of a call that returned; the code has no such
  step and the map no entry for it, it keeps equal states equal.

### TcpClient, TcpFraming and the code

`TcpClient` has whole messages, since framing is a question of its own. `Send` is
`send_network_msg_tcp`: on a socket shut down by the other thread's `exit()`, or
after the server has closed its end, `send` raises SIGPIPE, which the program does
not handle (`killed`). `Stop`, `Close` and `DropConnection` test and close the
socket in separate steps, as `cleanup_tcp` and `tcp_listener` do without a lock.

`TcpFraming` cuts the server's byte stream anywhere; `SplitTerminators` says
whether a `recv` may end inside a CRLF. A message holds no CR and no NUL, as the
protocol's grammar says, but it may hold LF.

### Program, UdpReceive, TcpReceive and the code

`Program` has the main thread alone. Of the other thread it keeps what the main
thread can see: a REPLY may change the state between any two steps (`Reply`), and a
message that is not confirmed ends the process (`Send`). The steps are `parse_args`,
one per comparison of an argument with a flag; `GetLine`; `Dispatch` with the whole
command. `line` is the offset of the pointer in `getline`'s block: `TakeWords` moves
it as `strtok` in the commands does, and `getline` then takes it for the start of a
block of `len` bytes. A line that is longer than what is left may be read unnoticed
(`Reuse`) or not, a `realloc` of such a pointer aborts (`GetLineCrashes`). `SetName`
has both outcomes of the NUL that does not fit in `display_name`: in the build of the
repository's Makefile it clears the low byte of `udp_timeout`.

`UdpReceive` handles a datagram in one step, from a buffer indexed by offsets that
is never cleared. Arrival is loss, duplication and reordering at once: any message
of the server may arrive at any time, any number of times. The memory that `realloc`
adds to `seen_ids`, and the buffer before the first datagram, hold anything of
`Junk`. A datagram too short for its type crashes the client, which uses the NULL
that `deserialize_*` returns (`Crash`).

In `TcpText` a keyword is one symbol with the width of its text, so that contents may
hold keywords, sizes are those of the text, and texts stay short.

## The runs

Runs that pass:

| Run | Question | Instance |
|---|---|---|
| `udp_core` | session, table, stop-and-wait, and refinement of `ChatSession`, under every interleaving and network | three commands and BYE, one retransmission, a table of two entries that has to be doubled, a server that may end the session |
| `udp_live` | every send ends; `exit` ends the process; all retransmissions made before giving up; repeated messages shown once | a command and BYE, two retransmissions, stdout a terminal, a server that may be silent or send malformed datagrams, which the listener answers with an ERR |
| `udp_faults` | no new message carries an ID that another one has carried, BYE stays the last word, and Ctrl-C ends the program | two commands that may be sent before the listener has a socket, Ctrl-C in the main thread and then in the listener on top of any step, so that both send from one unlocked index, piped output, a growing table |
| `udp_receive` | what is shown is what was written, once, and confirmed only then | eleven messages of every type, three MSG among them, a buffer of ten bytes, a list of seen IDs of one entry that is doubled twice |
| `tcp_receive` | messages are handled whole, in order, all of them, and read as written; the buffer has room | three messages out of five: contents that look like the grammar, two lines, only blanks; reads of any length that end anywhere but inside a CRLF |
| `tcp_core` | session, the reply a JOIN waits for, the last BYE, the end of the program | three commands, two `/auth` in a row among them, a reply to each, one message of the server on its own, one Ctrl-C, a server that may vanish |
| `program` | settings as given; what is sent is valid, comes from this line, reads back by the documented layout; a chat line is sent if and only if the session is open | seventeen command lines, twenty-one lines of every kind in every state, both protocols |

Runs that find a disagreement, each with one property that a line of the
repository's documentation or comments states:

| Run | What it shows |
|---|---|
| `udp_stale_confirm` | A late CONFIRM of an earlier message overwrites the slot of the current one: a message whose CONFIRM had been recorded is reported as not confirmed. |
| `udp_repeated_reply` | A REPLY delivered twice takes effect twice: only MSG and ERR are looked up among the seen IDs. The second, in state OPEN, ends the program. |
| `tcp_split_crlf` | A CRLF cut between two `recv` calls joins two messages. |
| `tcp_auth_race` | A second `/auth` sets the state back to AUTH after the reply to the first one has opened the session. |
| `program_name_timeout` | A display name of the greatest allowed length overwrites part of the UDP timeout. |

More disagreements can be had by changing an instance or adding a property to it:

* With `EarlyInput = TRUE` in `udp_live.cfg`, `AllTriesBeforeGivingUp` fails: with a
  command waiting on stdin the first message is given up without having been sent,
  because the listener has not made the socket yet.
* With `LineBuffered = FALSE` and `ServerKinds = {"BYE"}` there, `ExitEnds` fails: with
  stdout in a pipe the listener's `exit` cancels the listener itself, and a BYE of the
  server does not end the process.
* With `ServerKinds = {"MALFORMED"}` in `udp_faults.cfg`, `IdsUnique` fails: the ERR with
  which the listener answers has the ID of a message of the main thread, since both
  take it from the index before they increment that (`network_udp.c:266`). "The value
  must never appear as a message identifier of a different message in the communication
  once it has been used" (`src/README.md:297`).
* `IdsFollowGrammar` in `program.cfg` fails: `validate_id` lets a dot through
  (`validation.c:23`), which neither the grammar (`src/README.md:115-116,448`) nor the
  error text of `cmd_auth.c:50` has.
* `WordsSentWhole` there fails: a word longer than its limit is cut before it is
  validated (`cmd_auth.c:33`), and the message sent. "A protocol-level message must not
  be sent to the server in case any of its parameters [...] does not conform to the
  protocol requirements (contains invalid characters, is too long/short)"
  (`src/README.md:163`).

`ConformingMessages`, which holds, therefore promises only what `validation.c` checks: the
grammar, but for a dot in an ID, of parameters that may have been cut.

While the text of messages was modelled these came up, which no run is about:

* A line of blanks gives `strtok` no token and `strcmp` a NULL pointer (`BlankLine`).
* After a command `getline` gets a pointer into its block (`GetLineCrashes`).
* The last line of the input, if no newline ends it, loses its last character.
* A TCP MSG whose content has more than 59 991 characters, less its name, loses its
  CRLF in `snprintf`; `ServerUnderstands` names that case, and shows that it is the
  only one.
* A UDP MSG longer than the receive buffer loses the end of its content;
  `WholeOrCut` says how much.
* `sscanf` drops the leading blanks of a REPLY's content and all lines after its
  first, and takes a content of blanks for a malformed REPLY (`Understood`).

The properties about the table and `IdsUnique` are checked without malformed datagrams,
since the listener's ERR takes its ID from the shared index. `IdsUnique` compares messages
when they are sent, and so tells two messages of one type apart. It excepts a BYE after
a BYE: each thread may send one, and two with one ID are the same bytes, since no command
changes the name in between.

### The bounds

`MaxIndex` (UDP) and `MaxCommands` (TCP) end the user's typing, `MaxServerIds` and
`MaxMessages` the server's messages, `MaxInterrupts` the key presses. Three commands are enough for AUTH, JOIN and a
message, for two AUTH and a JOIN, and for a stale CONFIRM to meet a newer slot; a
table of two entries is full before the last of them. Two server messages give a
REPLY and one message after it, each delivered any number of times. `IdSpace` is
larger than the number of messages, so IDs do not wrap: the wrap after 65535
messages is out of these models. `Retransmissions` is 0, 1 or 2: no retry, one,
and one that is neither the first nor the last. Acting on a message is counted up
to 2, "more than once".

In `tcp_receive`, `MaxRead` is longer than any message, so that three messages are cut
in every way, several of them may come in one read, and the line buffer is
allocated, grown and reused;
the five messages put each separator of the grammar into a content. In
`udp_receive`, the buffer is as long as a limit of three characters makes it, so that one
MSG is longer; each message has its own ID, two of them with their bytes swapped.
In `program`, words have at most two characters and messages at most 24, so that
there are words and lines within, at and above the limits, and content that just
leaves no room for the CRLF. Commands are written `/a`, `/j`, `/r` and `/h`. `FIRST_BLOCK`,
120 in the C library, is 12, so that lines fit, fill and outgrow the block;
`MaxOffset` bounds how far repeated commands move `line` into it. The two
`MessageIds` have a high byte that is zero and one that is not.

### Fairness

Weak fairness of each thread's own steps: the scheduler runs a thread that can
run, `nanosleep` returns, a handler in progress goes on. `FairSpec` of `UdpClient`
has it for commands, sends, `exit` and the listener between two datagrams, `Spec`
of `TcpClient` for the main thread, the listener and `exit`. Nothing is assumed of
the user, the server or the network: no datagram need arrive. In `TcpFraming`
`recv` returns what has arrived.

## The proofs

| Theorem | States |
|---|---|
| `UdpClientProofs!TypeInvariant` | types; the table has exactly `size` entries of 16-bit IDs |
| `UdpClientProofs!ConfirmsHaveASlot` | a CONFIRM is recorded only when there is a slot before the index |
| `UdpClientProofs!MessagesAreShownOnce` | a MSG or ERR of the server takes effect at most once |
| `UdpSessionProofs!SessionIsAuthenticated` | UDP: OPEN, JOIN and session traffic have an accepted AUTH behind them |
| `UdpSessionProofs!SessionUsesDynamicPort` | UDP: JOIN and messages go to the dynamic port only |
| `UdpSessionProofs!UdpImplementsChatSession` | UDP: the client refines `ChatSession` |
| `UdpSessionProofs!ByeIsTheLastCommand` | UDP: no new command on the wire after a BYE, wherever Ctrl-C interrupts either thread |
| `UdpTableProofs!MessageIdsAreUnique` | no new message carries an ID that another one, of whatever type, has carried |
| `UdpTableProofs!TableInOrder` | the table, as described by `TableInv`; the next five rest on it |
| `UdpTableProofs!SlotsHoldTheirOwnIds` | entry *i* holds the ID of message *i* or nothing |
| `UdpTableProofs!ClientStopsAndWaits` | no message before all earlier ones are confirmed |
| `UdpTableProofs!ScansStayInBounds` | no look-up past the end of the table |
| `UdpTableProofs!FailuresAreTrue` | a message given up had not been confirmed |
| `UdpTableProofs!GivesUpAfterAllTries` | a message is given up only after all retransmissions |
| `UdpReceiveProofs!SeenIdsInvariant`, `SeenIdsImplementIdSet` | the array has distinct entries and refines `IdSet` |
| `UdpReceiveProofs!ReceiveTypes` | types of the buffer, the display and the list |
| `UdpReceiveProofs!ReceiveImplementsIdSet` | the list of seen IDs, as the listener uses it, refines `IdSet` |
| `UdpReceiveProofs!ReceiveImplementsDelivery` | the listener refines `Delivery` |
| `UdpReceiveProofs!ShowsWhatWasSent` | what is shown is what a message of the server says, whole or cut at the end of the buffer |
| `TcpClientProofs!TcpTypeInvariant` | types of the TCP client |
| `TcpClientProofs!TcpSessionIsAuthenticated` | TCP: as on UDP |
| `TcpClientProofs!ByeIsTheLastCommand` | TCP: no command after a BYE, however often Ctrl-C is pressed |
| `TcpClientProofs!EveryJoinHasAReply` | TCP: a client in JOIN on a live connection has a reply still to come |
| `TcpFramingProofs!LineAlwaysFits` | `line_buffer` has room for its text and the NUL |
| `TcpFramingProofs!FramingTypes` | types of the buffers of `tcp_listener` |
| `TcpFramingProofs!FramingImplementsStream` | the listener refines `MessageStream` |
| `TcpFramingProofs!ReadsWhatWasMeant` | the *k*-th message handled is read as the *k*-th one written |
| `ProgramProofs!ProgramTypes` | types of the main thread's state |
| `ProgramProofs!OnlyConformingMessages` | every parameter that is sent passes the checks of `validation.c`: the grammar, and a dot in an ID |
| `ProgramProofs!NothingOfEarlierLines` | what is sent comes from the line just read and the name in force |
| `ProgramProofs!ChatLinesAreSent` | a line without a command is sent if and only if the session is open |
| `ProgramProofs!SettingsFollowCommandLine` | the settings are the ones given, for command lines of any length |
| `ProgramProofs!ServerReadsBack` | what is sent, as bytes or as text, reads back field by field; only a MSG that outgrows the buffer is cut |

### Assumptions

They hold for every value of the constants that satisfies the assumptions named in
the modules, which TLC evaluates for the runs' instances.

| Assumption | Says |
|---|---|
| `ConstantsAssumption`, `TcpAssumption` | bounds are numbers, the server's kinds are among those of the protocol |
| `InitialSizeAssumption` | the list of seen IDs has room for an entry |
| `FramingAssumption` | messages are nonempty sequences without CR and NUL; reads and the first allocation are not empty |
| `ReceiveAssumption`, `ServerMessagesAssumption` | the buffer holds at least a header; the server's fields are bytes and 16-bit IDs, texts hold no NUL, equal IDs mean equal messages |
| `MeantAssumption` | the server's messages follow the grammar: a name is one word and within its limit, a content any text; no two have the same text |
| `MaximumsAssumption` | each limit is at least a character |
| `ArgumentsAssumption` | arguments are strings; `strtol` gives a number for each, 250 and 3 for the text of the defaults |
| `ProgramAssumption` | lines hold characters other than NUL; the four words in `commands`; the default name is a valid one; message IDs have 16 bits |
| `BufferIsLargeEnough` | the longest AUTH and its NUL fit the buffer of the `send_tcp_*` functions: 186 of 60007 bytes with the limits of `maximums.h`; only `ServerReadsBack` uses it |

Some theorems have a hypothesis of their own, because the property is false without:

* `"MALFORMED" \notin ServerKinds` (`UdpTableProofs`): the ERR that answers a datagram of
  unknown type takes its ID from the index in the listener, and may share it with a
  command (see "More disagreements"). `MaxIndex + 2 < IdSpace`: IDs do not wrap. Two more than the user's
  messages, since each thread may be interrupted and send a BYE.
* `interrupts = 0 => ...` (`SlotsHoldTheirOwnIds`, `ClientStopsAndWaits`,
  `ScansStayInBounds`) or `MaxInterrupts = 0` (`FailuresAreTrue`,
  `GivesUpAfterAllTries`, which are about steps): Ctrl-C sends the BYE in the middle of
  another send, and from then on two messages are on their way at once. `udp_core`
  checks these properties under the same hypotheses; `udp_stale_confirm` shows
  what happens beyond them.
* `EarlyInput = FALSE` (`GivesUpAfterAllTries`): see "More disagreements" above.
* `SplitTerminators = FALSE` (`FramingTypes`, `FramingImplementsStream`, `ReadsWhatWasMeant`):
  `tcp_split_crlf` shows the message that is lost otherwise. `LineAlwaysFits` has no
  such hypothesis.
* `MAX_MESSAGE_CONTENT_LEN > 1` (`ChatLinesAreSent`): in the code it is 60000; with a
  limit of one character `truncate_message_content` would leave nothing to send.

### Arguments

The properties are not inductive as they stand.

*The UDP session.*

* `TypeOK` of `UdpClient` needs `GrowHoldsConfirm`: what the listener writes after
  `realloc` is the CONFIRM it had in hand before.
* `AuthenticatedSession` needs `SessionInv`: a session message is in hand only
  if the thread saw OPEN, and a REPLY answers a request. The interesting case is an
  OK that answers a JOIN and arrives in state AUTH: the JOIN itself shows that the
  client had been accepted.
* `SessionTrafficOnDynamicPort` needs `PortInv`, which follows the port from the two
  steps of its switch over the state to the destination resolved by a send in
  progress.
* `UdpImplementsChatSession` needs `ChatInv`: a `/join` dispatched in OPEN finds OPEN,
  because the listener leaves OPEN only through `exit`. This is what saves the UDP
  variant from the race that `tcp_auth_race` shows: `cmd_auth` does not set the
  state there.
* `ByeIsTheLastCommand`, of either variant, needs `QuitInv`: whoever sends BYE, the main
  thread is on its way out; the listener gets SIGINT only while the main thread is in
  the handler.
* `ConfirmHasSlot` needs `SlotInv`: a message is on the wire only after somebody has
  incremented the index. `ShownOnce` needs `ShownInv`: whatever took effect is
  among the seen IDs.

*IDs and the table.* `IdInv` says how the index relates to the IDs in use:
the main thread's message has the ID of the index before it increments it and one
less after (`OwnId`); commands are below the index and below every BYE, whichever of
two interleaved increments is lost (`CommandsBelow`); how far the index gets
(`IndexBounded`) bounds every ID below `IdSpace`. The main
thread, about to put a new message on the wire, therefore has an ID above all commands sent
(`FreshId`); a BYE is above them as well, and no command follows one (`QuitInv`). `IdsUnique`
follows.
`TableInv` is about the time before any Ctrl-C. Between two messages every message
sent is acknowledged and there is room for one more entry; while a message is being
sent all before it are acknowledged (`Acknowledged`). An acknowledged message's entry
holds its ID, every other entry nothing (`Entries`). A CONFIRM that is not in the
table yet is therefore the one of the message being sent, and the slot before
the index is its slot: this is what makes recording by position correct, and what
no longer holds once a send has been interrupted. `Growing` keeps this
over the two steps of `realloc`. `FailuresAreTrue` then follows from what a look-up of
an intact table can answer. `GivesUpAfterAllTries` needs `EveryTryCounts`, which
counts the datagrams of the current message against its tries, and `ListenerBound`:
the listener has its socket before the first command.

*Replies on TCP.* `JoinAwaitsReply` counts, and an induction over the stream is out of reach, so
`ReplyInv` lets a function do the counting (`Tally`): it numbers the messages on their way, in
the kernel and in `recv_buffer`, and rises at each REPLY, from `replied` to `answered`.
Appending to the stream, cutting it at a `recv` and handling its first message keep such a
function. The server answers only requests it has (`answered <= Cardinality(Requests)`),
so while a REPLY is on its way fewer have been handled than were asked for. A new JOIN is one
more request; a REPLY that is handled leads out of JOIN.

*The receive buffer.* `ReceiveInv`: the buffer is well-typed, nothing but seen IDs has been
shown, the datagrams fit it, and the list of seen IDs keeps the invariant of
`SeenIdsInvariant`, which is about one call with any ID and so serves here as well.
`DisplayIsSent` then needs what the readers make of a buffer that begins with
a whole or cut datagram and goes on with older bytes: `CString` of a text that the
datagram terminates is that text, and `Fill` puts a NUL behind one that was cut.

*Framing.* `Framed` describes the stream without recursion: a function `T` gives its byte
at each position, and `ends` the position where each message ends; every CR in it
begins a terminator. The buffers are then intervals of the stream, and each
step of the listener moves the ends of the intervals: what `strstr` finds is the end
of the message in hand, the rest that is kept begins with the next message.
`ReadsWhatWasMeant` adds `InOrder`, that the handled messages are the first ones sent, and
`MeantRead`, about a single message: where its pieces stand in the text, that the first " IS "
behind the name is the separator since a name holds no space, and what `sscanf` skips.

*The main thread.* `SessionInv`: the line in hand is `typed` cut to `MAX_MESSAGE_CONTENT_LEN - 1`
characters, and the display name is valid, because it was checked when it was set. `SentInv` adds the two
properties of what has been sent. Both rest on lemmas about words: a word that `strtok`
finds is text of the line, and `strncpy` takes the beginning of it.
`ScanInv`: before argument `argi` the settings are those that the part of the command
line read so far gives. `SettingsAsGiven` speaks of the last place of a flag, counting
values that look like flags only where they are not values; `Least` and
`Ranked`, which number the members of a finite set of numbers, carry that over.

*What the server reads.* `ServerUnderstands` says what a reader of the protocol makes of `wire`,
and `ServerInv` adds what makes it inductive: nothing is sent before the protocol is
chosen, and the name in force is a text. The rest is about one message. Its reader looks
for a NUL, or for the next keyword, and must find the one that the writer put there: a `Key`
of the searched text, NUL, CR or the keyword's symbol, occurs nowhere in front of it
(`FoundBehind`), because the parameters before it are `Plain`, as the checks of
`validation.c` make them, and the keywords before it are other ones. So `FieldAdded` puts a message
together keyword by keyword, with what can be read between any two, and `DatagramOf...` and `TextOf...`
follow. The length of a text is the sum of the lengths of its parts (`SizeJoined`); by it no
AUTH, JOIN or BYE reaches `MAX_MSG_SIZE`. A MSG that does is cut inside its content or its
CRLF (`CutMsg`), so it fills the buffer to its last character and cannot end with CRLF.

Only model-checked:

* every liveness property (`EverySendEnds`, `ExitEnds`, `InterruptEnds`, `ProgramEnds`,
  `EverythingHandled`): liveness under fairness and ENABLED are out of the prover's reach;
* `ImplementsChatSession` of `TcpClient` is false (`tcp_auth_race`).

An induction theorem of the library cannot be applied, since it takes an operator as
a parameter. Where an induction over numbers is needed (`Least`) the proof takes the least
counterexample instead, whose existence `WellFoundedInduction` states without one.

## What is not modelled

* Memory that runs out in the middle of the program, and a socket call that fails
  for a reason other than those named: the program prints a message and exits.
* SIGINT between the `memset` and the `strcpy` of `display_name`, which puts an empty
  name into the BYE: `Program` takes a command in one step.
* The wrap of the 16-bit message ID, and its collision with the value 65535 that
  marks a free entry of the table.
* A timeout for a missing REPLY: the code has none (`src/CHANGELOG.md` lists it), so a
  client whose REPLY is lost stays in JOIN.
* Debug output: compiled out by default.
* A server that breaks the grammar on TCP: a content longer than its limit overflows
  `content[]` in the `process_tcp_*_message` functions (`network_tcp.c:131,173,197`),
  which `TcpText` gives no bound.
* A CONFIRM of a message that was never sent.

## Plan

Done: `UdpClient` first, because sending and confirming without locks is the core
of the program; `SeenIds`; `ChatSession` and its refinement; `TcpFraming`;
`TcpClient`; their type invariants and session theorems. Then the contents:
`Datagrams` and `UdpReceive` with `Delivery`, `TcpText` and `TcpReceive`,
`Arguments`, `Validation` and `Program`. Then the proofs about the table, the
receive buffer, framing, the main thread, the arguments and what the server reads.

Next: the wrap of the message ID, on a small `IdSpace`, as an instance of `UdpClient`
without the bound `MaxIndex < IdSpace`.

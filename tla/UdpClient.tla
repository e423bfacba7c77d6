----------------------------- MODULE UdpClient -----------------------------
(***************************************************************************)
(* The UDP variant of the chat client: the main thread reads commands and  *)
(* sends each message with stop-and-wait retransmission                    *)
(* (network_udp.c, send_network_msg_udp), the listener thread receives     *)
(* datagrams (udp_listener, process_received_udp_message), SIGINT runs     *)
(* graceful_quit on top of whatever a thread was doing (main.c).           *)
(*                                                                         *)
(* The two threads share, without any lock, the application state, the     *)
(* table of confirmed message IDs with its write index (id.c), the server  *)
(* port and the socket.  An action is the code of one thread between two   *)
(* points where the other thread can see the difference.                   *)
(*                                                                         *)
(* The network keeps every datagram ever sent in a set.  Delivering a      *)
(* member any number of times, late, or never is loss, duplication, delay  *)
(* and reordering.  The server is external: it confirms what it gets,      *)
(* answers each request once and sends its own messages when it likes.     *)
(***************************************************************************)
EXTENDS Integers

CONSTANTS
    Retransmissions,  \* udp_retransmissions, the -r argument (uint8_t)
    TableSize,        \* DEFAULT_MSG_CONFIRM_ARR_SIZE, first size of the table
    IdSpace,          \* number of values of uint16_t
    EarlyInput,       \* commands are waiting (stdin is a file or a pipe) before
                      \* the listener thread has bound its socket
    LineBuffered,     \* stdout is a terminal: every printed line is flushed
    ServerKinds,      \* what the server may send on its own initiative
    MaxIndex,         \* bound: the user stops typing commands at this index
    MaxServerIds,     \* bound: messages the server numbers
    MaxInterrupts     \* bound: Ctrl-C presses

ASSUME ConstantsAssumption ==
    /\ Retransmissions \in Nat
    /\ TableSize \in Nat \ {0}
    /\ IdSpace \in Nat \ {0}
    /\ EarlyInput \in BOOLEAN /\ LineBuffered \in BOOLEAN
    /\ ServerKinds \subseteq {"MSG", "PING", "ERR", "BYE", "MALFORMED"}
    /\ MaxIndex \in Nat /\ MaxServerIds \in Nat /\ MaxInterrupts \in Nat

VARIABLES
    state,       \* enum APP_STATE
    port,        \* where getaddrinfo(hostname, port) resolves to
    sock,        \* udp_socket
    exit,        \* "running", or how the process ended
    unflushed,   \* stdout holds text not yet written
    index,       \* confirmed_msg_ids_index
    size,        \* confirmed_msg_array_size
    confirmed,   \* confirmed_msg_ids
    heap,        \* what the table pointer points at: live, moving (in realloc) or freed
    seen,        \* seen_ids, as the set module SeenIds shows it to be
    pc, msg, tries, reg, dest,  \* per thread: place, message in hand, and locals of its send
    rcv,         \* datagram in the listener's recv_buffer
    masked,      \* threads inside the SIGINT handler
    toServer, toClient,         \* every datagram ever sent
    srvNext,     \* the server's message ID sequence
    \* what the properties remember of the past:
    acked,       \* IDs whose CONFIRM add_confirmed_msg_id has recorded
    acted,       \* per server ID, how often the client acted on it (2: or more)
    launched,    \* per thread, how many datagrams the current send put on the wire
    torn,        \* a scan has read the table while it was moved or freed
    interrupts

callVars  == <<msg, tries, reg, dest, launched>>
tableVars == <<index, size, confirmed, heap>>
netVars   == <<toServer, toClient, srvNext>>
logVars   == <<acked, acted, torn, interrupts>>
appVars   == <<state, port, sock, exit, unflushed, seen, rcv, masked>>
vars      == <<appVars, tableVars, pc, callVars, netVars, logVars>>

Threads == {"main", "listener"}
Ids == 0 .. IdSpace - 1
ServerIds == 0 .. MaxServerIds - 1
SentinelSigned == -1               \* mistake: an int entry instead of uint16_t
Sentinel == IdSpace - 1            \* the (uint16_t)-1 the table is filled with
Commands == {"AUTH", "JOIN", "MSG"}
NoMsg == [type |-> "NONE", id |-> 0]

Datagram(type, id) == [type |-> type, id |-> id, ref |-> 0, result |-> "NONE"]
Reply(id, ref, result) ==
    [type |-> "REPLY", id |-> id, ref |-> ref, result |-> result]
NoDatagram == Datagram("NONE", 0)
ToPort(m, p) == [type |-> m.type, id |-> m.id, port |-> p]

Init ==
    /\ state = "START" /\ port = "initial" /\ sock = "none"
    /\ exit = "running" /\ unflushed = FALSE
    /\ index = 0 /\ size = TableSize /\ heap = "live"
    /\ confirmed = [i \in 0 .. TableSize - 1 |-> Sentinel]
    /\ seen = {} /\ rcv = NoDatagram /\ masked = {}
    /\ pc = [t \in Threads |-> IF t = "main" THEN "input" ELSE "start"]
    /\ msg = [t \in Threads |-> NoMsg]
    /\ tries = [t \in Threads |-> 0] /\ launched = [t \in Threads |-> 0]
    /\ reg = [t \in Threads |-> 0] /\ dest = [t \in Threads |-> "initial"]
    /\ toServer = {} /\ toClient = {} /\ srvNext = 0
    /\ acked = {} /\ acted = [i \in ServerIds |-> 0]
    /\ torn = FALSE /\ interrupts = 0

At(t, place) == exit = "running" /\ pc[t] = place
Goto(t, place) == pc' = [pc EXCEPT ![t] = place]
AlwaysBuffered == TRUE             \* mistake: stdout fully buffered on terminals too
Printed == ~LineBuffered           \* printf: the text stays in stdout's buffer
Output == unflushed' = (unflushed \/ Printed)
Id(i) == i % IdSpace               \* size_t passed as uint16_t message_id
Leaving == {"success", "failure", "unconfirmed"}  \* inside exit(), with this status

-----------------------------------------------------------------------------
(* Leaving the process *)

(* exit(status) runs cleanup: the socket is closed, the listener cancelled *)
(* and the two tables freed while the other thread still runs.             *)
Exit(t, status) ==
    /\ Goto(t, status)
    /\ sock' = IF sock = "none" THEN "none" ELSE "closed"
    /\ heap' = "freed"

(* After cleanup, exit() flushes stdout.  A listener that called exit() has *)
(* cancelled itself, and the write of the flush is a cancellation point:    *)
(* with text to write the thread dies there and the process lives on.       *)
Leave(t) ==
    /\ exit = "running" /\ pc[t] \in Leaving
    /\ IF t = "listener" /\ unflushed
         THEN Goto(t, "dead") /\ UNCHANGED exit
         ELSE exit' = pc[t] /\ UNCHANGED pc
    /\ UNCHANGED <<state, port, sock, unflushed, seen, rcv, masked>>
    /\ UNCHANGED <<tableVars, callVars, netVars, logVars>>

-----------------------------------------------------------------------------
(* send_network_msg_udp, by either thread *)

Begin(t, type) ==
    /\ msg' = [msg EXCEPT ![t] = [type |-> type, id |-> Id(index)]]
    /\ Goto(t, "resolve")

ResolvedAtStart == "initial"       \* mistake: the address is looked up only once
CurrentPort == port

(* getaddrinfo(hostname, port): a port that is allocated and not yet        *)
(* written is refused, or taken for some other port.                        *)
Resolve(t) ==
    /\ At(t, "resolve")
    /\ \/ /\ port # "uninit"
          /\ dest' = [dest EXCEPT ![t] = CurrentPort]
          /\ Goto(t, "load")
          /\ UNCHANGED <<sock, heap>>
       \/ /\ port = "uninit"
          /\ dest' = [dest EXCEPT ![t] = "garbage"]
          /\ Goto(t, "load")
          /\ UNCHANGED <<sock, heap>>
       \/ port = "uninit" /\ Exit(t, "failure") /\ UNCHANGED dest
    /\ UNCHANGED <<state, port, exit, unflushed, seen, rcv, masked, index, size,
                   confirmed, msg, tries, reg, launched, netVars, logVars>>

NotCounted(i) == i                 \* mistake: the index is not incremented
Increment(i) == i + 1

(* confirmed_msg_ids_index++ reads and then writes the shared index. *)
LoadIndex(t) ==
    /\ At(t, "load")
    /\ reg' = [reg EXCEPT ![t] = index]
    /\ Goto(t, "store")
    /\ UNCHANGED <<appVars, tableVars, msg, tries, dest, launched, netVars, logVars>>

StoreIndex(t) ==
    /\ At(t, "store")
    /\ index' = Increment(reg[t])
    /\ tries' = [tries EXCEPT ![t] = 0]
    /\ launched' = [launched EXCEPT ![t] = 0]
    /\ Goto(t, "send")
    /\ UNCHANGED <<appVars, size, confirmed, heap, msg, reg, dest, netVars, logVars>>

OneTryFewer(n) == n < Retransmissions   \* mistake: the first send counts as a retry
TriesLeft(n) == n <= Retransmissions

(* A cancelled listener gets no further than sendto, a cancellation point. *)
MaySend(t) == At(t, "send") /\ ~(t = "listener" /\ heap = "freed")

Open == sock \in {"unbound", "autobound", "bound"}

(* sendto succeeds; the kernel binds an unbound socket to a port of its own. *)
SendTo(t) ==
    /\ MaySend(t) /\ Open
    /\ tries' = [tries EXCEPT ![t] = @ + 1]
    /\ launched' = [launched EXCEPT ![t] = @ + 1]
    /\ sock' = IF sock = "unbound" THEN "autobound" ELSE sock
    /\ toServer' = IF dest[t] = "garbage" THEN toServer
                   ELSE toServer \cup {ToPort(msg[t], dest[t])}
    /\ Goto(t, "wait")
    /\ UNCHANGED <<state, port, exit, unflushed, seen, rcv, masked, tableVars,
                   msg, reg, dest, toClient, srvNext, logVars>>

(* sendto fails, with no socket or to no usable port: "continue" goes to   *)
(* the next try without the wait.                                          *)
SendFails(t) ==
    /\ MaySend(t) /\ (~Open \/ dest[t] = "garbage")
    /\ tries' = [tries EXCEPT ![t] = @ + 1]
    /\ Goto(t, IF TriesLeft(tries[t] + 1) THEN "send" ELSE "scan")
    /\ UNCHANGED <<appVars, tableVars, msg, reg, dest, launched, netVars, logVars>>

AnyRecorded(id) ==                 \* mistake: any confirmation will do
    \E i \in 0 .. size - 1 : i < index /\ confirmed[i] # Sentinel
LastSlotMissed(id) ==              \* mistake: the scan stops one entry early
    \E i \in 0 .. size - 1 : i < index - 1 /\ confirmed[i] = id
Recorded(id) == \E i \in 0 .. size - 1 : i < index /\ confirmed[i] = id

(* What the scan of the first index entries for an ID can find: a table     *)
(* that is being moved or is freed holds anything, and so does the memory   *)
(* after its end.                                                           *)
ScanOutcomes(id) ==
    IF heap # "live" THEN BOOLEAN
    ELSE {Recorded(id)} \cup (IF index > size THEN {TRUE} ELSE {})

Scanned == torn' = (torn \/ heap # "live")

(* nanosleep is over: look for the confirmation, else try again. *)
Wake(t) ==
    /\ At(t, "wait")
    /\ \E found \in ScanOutcomes(msg[t].id) :
         Goto(t, IF ~found /\ TriesLeft(tries[t]) THEN "send" ELSE "scan")
    /\ Scanned
    /\ UNCHANGED <<appVars, tableVars, callVars, netVars, acked, acted, interrupts>>

(* The frame of a call that returned is gone. *)
ForgetCall(t) ==
    /\ msg' = [msg EXCEPT ![t] = NoMsg]
    /\ tries' = [tries EXCEPT ![t] = 0] /\ launched' = [launched EXCEPT ![t] = 0]
    /\ reg' = [reg EXCEPT ![t] = 0] /\ dest' = [dest EXCEPT ![t] = "initial"]

(* The send returns: graceful_quit exits, the malformed-message handler     *)
(* frees the buffer a second time, a command returns to the input loop.     *)
Delivered(t) ==
    /\ At(t, "scan") /\ TRUE \in ScanOutcomes(msg[t].id)
    /\ Scanned
    /\ \/ msg[t].type = "BYE" /\ Exit(t, "success") /\ UNCHANGED exit
       \/ msg[t].type = "ERR" /\ Exit(t, "failure") /\ UNCHANGED exit
       \/ msg[t].type = "ERR" /\ exit' = "crash" /\ UNCHANGED <<pc, sock, heap>>
       \/ /\ msg[t].type \in Commands
          /\ Goto(t, "input") /\ UNCHANGED <<sock, heap, exit>>
    /\ ForgetCall(t)
    /\ UNCHANGED <<state, port, unflushed, seen, rcv, masked, index, size, confirmed,
                   netVars, acked, acted, interrupts>>

GiveUpNever(t) ==                  \* mistake: wait until the message is confirmed
    /\ At(t, "scan") /\ FALSE \in ScanOutcomes(msg[t].id)
    /\ Goto(t, "wait")
    /\ UNCHANGED <<appVars, tableVars, callVars, netVars, logVars>>

(* "message with id ... was not confirmed": exit(EXIT_FAILURE). *)
GiveUp(t) ==
    /\ At(t, "scan") /\ FALSE \in ScanOutcomes(msg[t].id)
    /\ Scanned
    /\ Output
    /\ Exit(t, "unconfirmed")
    /\ UNCHANGED <<state, port, exit, seen, rcv, masked, index, size, confirmed,
                   callVars, netVars, acked, acted, interrupts>>

SendStep(t) ==
    \/ Resolve(t) \/ LoadIndex(t) \/ StoreIndex(t)
    \/ SendTo(t) \/ SendFails(t) \/ Wake(t)
    \/ Delivered(t) \/ GiveUp(t) \/ Leave(t)

-----------------------------------------------------------------------------
(* The main thread: the input loop of main and the commands *)

AcceptsAfterAuth(c) ==             \* mistake: a sent AUTH is taken for an accepted one
    IF c = "AUTH" THEN state \in {"START", "AUTH"} ELSE state # "START"
Accepts(c) ==
    IF c = "AUTH" THEN state \in {"START", "AUTH"} ELSE state = "OPEN"

Typing ==
    /\ At("main", "input")
    /\ EarlyInput \/ pc["listener"] \notin {"start", "bind"}

(* state_*_logic calls the command; state_start_logic changes the state     *)
(* before it knows whether the arguments are valid.                         *)
Dispatch(c) ==
    /\ Typing /\ index < MaxIndex
    /\ Accepts(c)
    /\ state' = IF state = "START" THEN "AUTH" ELSE state
    /\ msg' = [msg EXCEPT !["main"] = [type |-> c, id |-> 0]]
    /\ Goto("main", "exec")
    /\ UNCHANGED <<port, sock, exit, unflushed, seen, rcv, masked, tableVars,
                   tries, reg, dest, launched, netVars, logVars>>

(* A command the state does not allow is answered on stdout only. *)
Refuse(c) ==
    /\ Typing /\ ~Accepts(c)
    /\ Output
    /\ UNCHANGED <<state, port, sock, exit, seen, rcv, masked, tableVars, pc,
                   callVars, netVars, logVars>>

(* cmd_auth, cmd_join, cmd_msg with arguments that validation rejects. *)
BadArguments ==
    /\ At("main", "exec")
    /\ Goto("main", "input")
    /\ Output
    /\ ForgetCall("main")
    /\ UNCHANGED <<state, port, sock, exit, seen, rcv, masked, tableVars, netVars, logVars>>

AuthToo(type) ==                   \* mistake: /auth sets its state as /join does
    IF type = "JOIN" THEN "JOIN" ELSE IF type = "AUTH" THEN "AUTH" ELSE state
StateSet(type) == IF type = "JOIN" THEN "JOIN" ELSE state

(* The same with valid ones: the message takes its ID from the index. *)
Compose ==
    /\ At("main", "exec")
    /\ Begin("main", msg["main"].type)
    /\ state' = StateSet(msg["main"].type)
    /\ UNCHANGED <<port, sock, exit, unflushed, seen, rcv, masked, tableVars,
                   tries, reg, dest, launched, netVars, logVars>>

(* graceful_quit at the end of the input. *)
EndOfInput ==
    /\ Typing
    /\ Begin("main", "BYE")
    /\ UNCHANGED <<appVars, tableVars, tries, reg, dest, launched, netVars, logVars>>

(* SIGINT goes to the main thread, or to the listener while the main thread *)
(* is in the handler.  The handler never returns.  Above a thread that      *)
(* holds the allocator's lock it waits for that lock for ever.              *)
HoldsLock == {"exec", "resolve", "process", "port", "grow"} \cup Leaving
AnyThread(t) == t \notin masked     \* mistake: SIGINT is not kept for the main thread
SigintTarget(t) ==
    \/ t = "main" /\ "main" \notin masked
    \/ t = "listener" /\ "main" \in masked /\ "listener" \notin masked
Interrupt(t) ==
    /\ exit = "running" /\ interrupts < MaxInterrupts
    /\ SigintTarget(t) /\ pc[t] # "dead"
    /\ masked' = masked \cup {t}
    /\ interrupts' = interrupts + 1
    /\ \/ Begin(t, "BYE")
       \/ pc[t] \in HoldsLock /\ Goto(t, "hung") /\ UNCHANGED msg
    /\ UNCHANGED <<state, port, sock, exit, unflushed, seen, rcv, tableVars, tries,
                   reg, dest, launched, netVars, acked, acted, torn>>

-----------------------------------------------------------------------------
(* The listener thread: udp_listener *)

CreateSocket ==
    /\ At("listener", "start")
    /\ sock' = "unbound"
    /\ Goto("listener", "bind")
    /\ UNCHANGED <<state, port, exit, unflushed, seen, rcv, masked, tableVars,
                   callVars, netVars, logVars>>

(* A socket the main thread has already sent on cannot be bound any more:   *)
(* the listener closes it and returns.                                      *)
Bind ==
    /\ At("listener", "bind")
    /\ IF sock = "unbound"
         THEN sock' = "bound" /\ Goto("listener", "recv")
         ELSE sock' = "closed" /\ Goto("listener", "dead")
    /\ UNCHANGED <<state, port, exit, unflushed, seen, rcv, masked, tableVars,
                   callVars, netVars, logVars>>

(* The datagram in hand: what recvfrom returned just now or, once the first *)
(* REPLY has changed the port, what it had returned before that.            *)
Fetched(d) ==
    /\ At("listener", "recv") /\ sock = "bound" /\ d \in toClient
    /\ d.type = "REPLY" => port # "initial"
Handling(d, type) ==
    /\ d.type = type
    /\ Fetched(d) \/ (At("listener", "process") /\ d = rcv)

(* The first REPLY makes port point to a new buffer, written afterwards. *)
NewPort(d) ==
    /\ At("listener", "recv") /\ sock = "bound" /\ d \in toClient
    /\ d.type = "REPLY" /\ port = "initial"
    /\ port' = "uninit"
    /\ rcv' = d
    /\ Goto("listener", "port")
    /\ UNCHANGED <<state, sock, exit, unflushed, seen, masked, tableVars,
                   callVars, netVars, logVars>>

WritePort ==
    /\ At("listener", "port")
    /\ port' = "dyn"
    /\ Goto("listener", "process")
    /\ UNCHANGED <<state, sock, exit, unflushed, seen, rcv, masked, tableVars,
                   callVars, netVars, logVars>>

NextDatagram == Goto("listener", "recv") /\ rcv' = NoDatagram

(* The server confirms every message whenever it receives it, so a CONFIRM  *)
(* of any message sent may arrive at any time.                              *)
SrvConfirms == {Datagram("CONFIRM", m.id) : m \in {x \in toServer : x.type # "CONFIRM"}}

(* The CONFIRM for a received message: sent once, to the current port. *)
SendConfirm(id) ==
    toServer' = IF Open THEN toServer \cup {ToPort([type |-> "CONFIRM", id |-> id], port)}
                        ELSE toServer
Act(id) == acted' = [acted EXCEPT ![id] = IF @ = 2 THEN 2 ELSE @ + 1]
Always(id) == TRUE                 \* mistake: no look at the IDs seen
FirstTime(id) == id \notin seen

(* add_confirmed_msg_id: the write into the slot before the write index. *)
Write(table, i, id) == [table EXCEPT ![i - 1] = id]
NotLookedFor(id) == {FALSE}        \* mistake: a repeated CONFIRM is recorded again
AlreadyConfirmed(id) == ScanOutcomes(id)
TableOverfull == index > size      \* mistake: grows one message too late
TableFull == index >= size
HandleConfirm(d) ==
    /\ At("listener", "recv") /\ sock = "bound" /\ d.type = "CONFIRM"
    /\ \E found \in AlreadyConfirmed(d.id) :
         IF found \/ heap = "freed"
           THEN UNCHANGED <<rcv, pc, confirmed, heap, acked>>
         ELSE IF TableFull
           THEN /\ heap' = "moving" /\ rcv' = d /\ Goto("listener", "grow")
                /\ UNCHANGED <<confirmed, acked>>
         ELSE /\ confirmed' = Write(confirmed, index, d.id)
              /\ acked' = acked \cup {d.id}
              /\ UNCHANGED <<rcv, pc, heap>>
    /\ UNCHANGED <<state, port, sock, exit, unflushed, seen, masked, index, size,
                   callVars, netVars, acted, torn, interrupts>>

(* realloc keeps the old entries; the new ones are initialised from the     *)
(* write index on, so those before it keep what the memory held.            *)
Grow ==
    /\ At("listener", "grow")
    /\ size' = 2 * size
    /\ \E junk \in Ids :
         LET grown == [i \in 0 .. 2 * size - 1 |-> IF i < size THEN confirmed[i]
                                                   ELSE IF i < index THEN junk
                                                   ELSE Sentinel]
         IN confirmed' = Write(grown, index, rcv.id)
    /\ heap' = IF heap = "freed" THEN "freed" ELSE "live"
    /\ acked' = acked \cup {rcv.id}
    /\ NextDatagram
    /\ UNCHANGED <<state, port, sock, exit, unflushed, seen, masked, index, callVars,
                   netVars, acted, torn, interrupts>>

(* handle_reply_msg_state_auth, _open and _join; the START case.  Nothing   *)
(* compares ref with the request, nothing looks the ID up among the seen.   *)
HandleReply(d) ==
    /\ Handling(d, "REPLY")
    /\ Output
    /\ Act(d.id)
    /\ rcv' = NoDatagram
    /\ IF state = "START" \/ d.result = "bad"
         THEN Exit("listener", "failure") /\ UNCHANGED <<state, toServer>>
       ELSE IF state = "OPEN"
         THEN Exit("listener", "success") /\ UNCHANGED <<state, toServer>>
       ELSE /\ state' = IF d.result = "OK" \/ state = "JOIN" THEN "OPEN" ELSE state
            /\ SendConfirm(d.id)
            /\ Goto("listener", "recv") /\ UNCHANGED <<sock, heap>>
    /\ UNCHANGED <<port, exit, seen, masked, index, size, confirmed, callVars,
                   toClient, srvNext, acked, torn, interrupts>>

HandleMsg(d) ==
    /\ Handling(d, "MSG")
    /\ IF state = "START"
         THEN Output /\ UNCHANGED <<seen, acted, toServer>>
       ELSE /\ IF FirstTime(d.id) THEN Output /\ Act(d.id)
                                  ELSE UNCHANGED <<unflushed, acted>>
            /\ seen' = seen \cup {d.id}
            /\ SendConfirm(d.id)
    /\ UNCHANGED <<state, port, sock, exit, rcv, masked, tableVars, pc, callVars,
                   toClient, srvNext, acked, torn, interrupts>>

HandlePing(d) ==
    /\ Handling(d, "PING")
    /\ SendConfirm(d.id)
    /\ UNCHANGED <<appVars, tableVars, pc, callVars, toClient, srvNext, logVars>>

HandleErr(d) ==
    /\ Handling(d, "ERR")
    /\ IF FirstTime(d.id) THEN Output /\ Act(d.id) ELSE UNCHANGED <<unflushed, acted>>
    /\ seen' = seen \cup {d.id}
    /\ SendConfirm(d.id)
    /\ Exit("listener", "success")
    /\ UNCHANGED <<state, port, exit, rcv, masked, index, size, confirmed, callVars,
                   toClient, srvNext, acked, torn, interrupts>>

HandleBye(d) ==
    /\ Handling(d, "BYE")
    /\ SendConfirm(d.id)
    /\ Exit("listener", "success")
    /\ UNCHANGED <<state, port, exit, unflushed, seen, rcv, masked, index, size,
                   confirmed, callVars, toClient, srvNext, logVars>>

(* The default case: a CONFIRM for whatever the ID bytes hold, then an ERR  *)
(* by the listener itself, which alone could receive its confirmation.      *)
HandleMalformed(d) ==
    /\ Handling(d, "MALFORMED")
    /\ Output
    /\ SendConfirm(d.id)
    /\ Begin("listener", "ERR")
    /\ UNCHANGED <<state, port, sock, exit, seen, rcv, masked, tableVars, tries, reg,
                   dest, launched, toClient, srvNext, logVars>>

-----------------------------------------------------------------------------
(* The server, external: what a server that follows the protocol does *)

Requests == {m \in toServer : m.type \in {"AUTH", "JOIN"}}
Answered(id) == \E d \in toClient : d.type = "REPLY" /\ d.ref = id
SessionOpen == \E d \in toClient : d.type = "REPLY" /\ d.result = "OK"
SessionOver ==
    \/ \E d \in toClient : d.type \in {"ERR", "BYE"}
    \/ \E m \in toServer : m.type \in {"ERR", "BYE"}

ServerStep(d) == toClient' = toClient \cup {d}
               /\ UNCHANGED <<appVars, tableVars, pc, callVars, toServer, logVars>>

SrvReply(m, result) ==
    /\ exit = "running" /\ ~SessionOver /\ srvNext < MaxServerIds
    /\ ~Answered(m.id)
    /\ m.type = "AUTH" /\ SessionOpen => result = "NOK"
    /\ result = "bad" => "MALFORMED" \in ServerKinds
    /\ ServerStep(Reply(srvNext, m.id, result))
    /\ srvNext' = srvNext + 1

SrvSend(kind) ==
    /\ exit = "running" /\ ~SessionOver /\ srvNext < MaxServerIds
    /\ \E m \in toServer : m.type \in Commands
    /\ kind = "MSG" => SessionOpen
    /\ ServerStep(Datagram(kind, srvNext))
    /\ srvNext' = srvNext + 1

-----------------------------------------------------------------------------
(* The end of the process, or of all that can still happen in it. *)
Done == (exit # "running" \/ pc["main"] = "hung") /\ UNCHANGED vars

CommandStep == BadArguments \/ Compose
Handle(d) ==
    \/ HandleReply(d) \/ HandleMsg(d)
    \/ HandlePing(d) \/ HandleErr(d) \/ HandleBye(d) \/ HandleMalformed(d)
ListenerStep == CreateSocket \/ Bind \/ WritePort \/ Grow
UserStep == (\E c \in Commands : Dispatch(c) \/ Refuse(c)) \/ EndOfInput
Server ==
    \/ \E m \in Requests, result \in {"OK", "NOK", "bad"} : SrvReply(m, result)
    \/ \E kind \in ServerKinds : SrvSend(kind)

Next ==
    \/ UserStep \/ CommandStep \/ ListenerStep \/ Server \/ Done
    \/ \E t \in Threads : SendStep(t) \/ Interrupt(t)
    \/ \E d \in toClient : NewPort(d) \/ Handle(d)
    \/ \E d \in SrvConfirms : HandleConfirm(d)

Spec == Init /\ [][Next]_vars

(* The scheduler runs both threads.  Nothing is assumed of the user, the    *)
(* server or the network.                                                   *)
FairSpec ==
    /\ Spec
    /\ WF_vars(CommandStep) /\ WF_vars(ListenerStep)
    /\ \A t \in Threads : WF_vars(SendStep(t))

-----------------------------------------------------------------------------
(* Properties *)

Places == {"input", "exec", "resolve", "load", "store", "send", "wait", "scan",
           "hung", "dead", "start", "bind", "recv", "port", "process", "grow"} \cup Leaving
OwnTypes == Commands \cup {"NONE", "BYE", "ERR"}
ServerTypes == ServerKinds \cup {"REPLY"}
Ports == {"initial", "uninit", "dyn"}
FromServer == [type : ServerTypes, id : ServerIds, ref : Ids,
               result : {"NONE", "OK", "NOK", "bad"}]
OwnConfirms == [type : {"CONFIRM"}, id : Ids, ref : {0}, result : {"NONE"}]

AppType ==
    /\ state \in {"START", "AUTH", "OPEN", "JOIN"}
    /\ port \in Ports
    /\ sock \in {"none", "unbound", "autobound", "bound", "closed"}
    /\ exit \in {"running", "crash"} \cup Leaving
    /\ unflushed \in BOOLEAN
    /\ seen \subseteq ServerIds
    /\ rcv \in FromServer \cup OwnConfirms \cup {NoDatagram}
    /\ masked \subseteq Threads
TableType ==
    /\ index \in Nat /\ size \in Nat \ {0}
    /\ confirmed \in [0 .. size - 1 -> Ids]
    /\ heap \in {"live", "moving", "freed"}
CallType ==
    /\ pc \in [Threads -> Places]
    /\ msg \in [Threads -> [type : OwnTypes, id : Ids]]
    /\ tries \in [Threads -> Nat] /\ launched \in [Threads -> Nat]
    /\ reg \in [Threads -> Nat]
    /\ dest \in [Threads -> {"initial", "dyn", "garbage"}]
NetType ==
    /\ toServer \subseteq [type : OwnTypes, id : Ids, port : Ports]
                     \cup [type : {"CONFIRM"}, id : ServerIds, port : Ports]
    /\ toClient \subseteq FromServer
    /\ srvNext \in 0 .. MaxServerIds
LogType ==
    /\ acked \subseteq Ids
    /\ acted \in [ServerIds -> 0 .. 2]
    /\ torn \in BOOLEAN
    /\ interrupts \in 0 .. MaxInterrupts

(* Every variable holds a value the program's declarations allow; the table *)
(* has exactly size entries, and every entry is a 16-bit ID.                *)
TypeOK == AppType /\ TableType /\ CallType /\ NetType /\ LogType

ClientMessages == {m \in toServer : m.type # "CONFIRM"}
Authenticated ==
    \E m \in toServer, d \in toClient :
        m.type = "AUTH" /\ d.type = "REPLY" /\ d.ref = m.id /\ d.result = "OK"

(* The client joins channels and sends text only after the server accepted  *)
(* an AUTH it had sent: states OPEN and JOIN, and every JOIN or MSG on the  *)
(* wire, have such a REPLY behind them, although replies are never matched  *)
(* with requests (state_auth.c, state_join.c).                              *)
AuthenticatedSession ==
    (state \in {"OPEN", "JOIN"} \/ \E m \in toServer : m.type \in {"JOIN", "MSG"})
        => Authenticated

(* The client's state follows the session's state machine, whichever way    *)
(* commands and replies, late and repeated ones too, interleave: no second  *)
(* /auth takes an open session back, no reply opens one that the server did *)
(* not accept.                                                              *)
Session == INSTANCE ChatSession WITH accepted <- Authenticated
ImplementsChatSession == Session!Spec

(* Once there is a session, JOIN and MSG go to the server's dynamic port:   *)
(* the switch of the port happens before the reply opens the session.       *)
SessionTrafficOnDynamicPort ==
    \A m \in toServer : m.type \in {"JOIN", "MSG"} => m.port = "dyn"

(* As long as no scan met a table that realloc or free was at:              *)
(* slot i of the table holds the ID of message i or nothing, whatever       *)
(* CONFIRMs are delayed or duplicated and however the table has grown.      *)
(* This is what add_confirmed_msg_id counts on when it writes "the previous *)
(* one".                                                                    *)
SlotHoldsOwnId ==
    ~torn => \A i \in 0 .. size - 1 :
                 heap = "live" /\ i < index => confirmed[i] \in {Sentinel, Id(i)}

(* Stop and wait, under the same condition: no message goes out before      *)
(* every one sent before it has been confirmed by the server.               *)
StopAndWait ==
    ~torn => \A m \in ClientMessages : \A i \in Ids : i < m.id => i \in acked

(* The datagram that goes out is the first one of its message. *)
SendsNew(t) == launched[t] = 0 /\ launched'[t] = 1

(* No message takes an ID that another one has carried, be it of the same   *)
(* type or not, although both threads take IDs from one unlocked index; a   *)
(* retransmission keeps its ID.  The BYEs of two threads that Ctrl-C has    *)
(* interrupted may have one ID: they are the same datagram then, byte for   *)
(* byte, as no command can change the name in between.  It holds for a      *)
(* server that sends no malformed datagrams: the ERR that answers one may   *)
(* have the ID of a command.                                                *)
IdsUnique ==
    [][\A t \in Threads, m \in ClientMessages :
         SendsNew(t) /\ m.id = msg[t].id => m.type = "BYE" /\ msg[t].type = "BYE"]_vars

(* Under the same condition: a scan of the table stays within it, so that   *)
(* no confirmation is found in the memory behind it.                        *)
ScanInBounds ==
    ~torn => \A t \in Threads : pc[t] \in {"wait", "scan"} => index <= size

(* A CONFIRM is recorded only when something has been sent, so the slot     *)
(* before the write index exists.                                           *)
ConfirmHasSlot == (pc["listener"] = "grow" \/ acked # {}) => index >= 1

GivesUp(t) == pc[t] = "scan" /\ pc'[t] = "unconfirmed" /\ ~torn'

(* The client never reports as unconfirmed a message whose CONFIRM it had   *)
(* recorded (under the same condition).                                     *)
NoFalseFailure ==
    [][\A t \in Threads : GivesUp(t) => msg[t].id \notin acked]_vars

(* The client gives a message up only after it has put it on the wire once  *)
(* and then udp_retransmissions more times, unless it resolved the port in  *)
(* the moment it was changed.                                               *)
AllTriesBeforeGivingUp ==
    [][\A t \in Threads : GivesUp(t) /\ dest[t] # "garbage"
                           => launched[t] = Retransmissions + 1]_vars

(* A message or error of the server is shown at most once, however often    *)
(* the network delivers it.                                                 *)
ShownOnce ==
    \A d \in toClient : d.type \in {"MSG", "ERR"} => acted[d.id] <= 1

(* A REPLY takes effect at most once, however often it is delivered.        *)
ReplyTakesEffectOnce ==
    \A d \in toClient : d.type = "REPLY" => acted[d.id] <= 1

(* After the client's BYE it sends no new command: the signal handler never *)
(* gives the main thread back.                                              *)
NoCommandAfterBye ==
    [][\A m \in toServer' \ toServer :
         m.type \in Commands => \A n \in toServer : n.type # "BYE"]_vars

(* Every send ends: the command returns to the input loop or the process    *)
(* ends, with or without a server that answers.                             *)
EverySendEnds ==
    (pc["main"] \in {"resolve", "load", "store", "send", "wait", "scan"})
        ~> (pc["main"] = "input" \/ exit # "running")

(* A thread that calls exit() ends the process; in particular a BYE or ERR  *)
(* of the server ends the program.                                          *)
ExitEnds == \A t \in Threads : (pc[t] \in Leaving) ~> (exit # "running")

(* Ctrl-C in the main thread ends the program, confirmed or not, unless the *)
(* handler waits for a lock of the code it interrupted.                     *)
InterruptEnds ==
    ("main" \in masked) ~> (exit # "running" \/ pc["main"] = "hung")

=============================================================================

----------------------------- MODULE TcpClient -----------------------------
(***************************************************************************)
(* The TCP variant of the chat client: the main thread reads commands and  *)
(* writes messages, the detached listener thread reads the server's        *)
(* messages (network_tcp.c), SIGINT runs graceful_quit on top of whatever  *)
(* a thread was doing (main.c).  state, tcp_socket and                     *)
(* listener_thread_running are shared without a lock.                      *)
(*                                                                         *)
(* Messages are whole here; TcpFraming is about how they are cut.  TCP     *)
(* keeps their order in both directions.  The server is external: it       *)
(* answers the requests in order, sends messages of its own, and closes    *)
(* the connection when it likes.                                           *)
(***************************************************************************)
EXTENDS Integers, Sequences, FiniteSets

CONSTANTS
    ServerKinds,      \* what the server may send on its own initiative
    MaxCommands,      \* bound: commands that reach a cmd_* function
    MaxMessages,      \* bound: messages of the server that are no replies
    MaxInterrupts     \* bound: Ctrl-C presses

ASSUME TcpAssumption ==
    /\ ServerKinds \subseteq {"MSG", "ERR", "BYE", "UNKNOWN"}
    /\ MaxCommands \in Nat /\ MaxMessages \in Nat /\ MaxInterrupts \in Nat

VARIABLES
    state,       \* enum APP_STATE
    sock,        \* tcp_socket: open, shut down, or -1
    running,     \* listener_thread_running
    cleaned,     \* exit() has begun to run cleanup
    exit,        \* "running", or how the process ended
    pc, cmd,     \* per thread: place; the main thread's command
    chunk,       \* received messages not processed yet
    masked,      \* threads inside the SIGINT handler
    toServer, inbox,        \* messages on their way, in order
    peer,        \* the server's end of the connection
    answered,    \* how many requests the server has answered
    \* what the properties remember of the past:
    accepted,    \* the server has accepted an AUTH
    replied,     \* REPLY messages the client has handled
    typed, written, interrupts

appVars == <<state, sock, running, cleaned, exit, chunk, masked>>
netVars == <<toServer, inbox, peer, answered, accepted>>
logVars == <<replied, typed, written, interrupts>>
vars == <<appVars, pc, cmd, netVars, logVars>>

Threads == {"main", "listener"}
Commands == {"AUTH", "JOIN", "MSG"}

Init ==
    /\ state = "START" /\ sock = "open" /\ running = FALSE
    /\ cleaned = FALSE /\ exit = "running"
    /\ pc = [t \in Threads |-> IF t = "main" THEN "input" ELSE "start"]
    /\ cmd = "NONE" /\ chunk = <<>> /\ masked = {}
    /\ toServer = <<>> /\ inbox = <<>> /\ peer = "open" /\ answered = 0
    /\ accepted = FALSE /\ replied = 0
    /\ typed = 0 /\ written = 0 /\ interrupts = 0

At(t, place) == exit = "running" /\ pc[t] = place
Goto(t, place) == pc' = [pc EXCEPT ![t] = place]

-----------------------------------------------------------------------------
(* send_network_msg_tcp and the end of the process, by either thread *)

(* Without a connection the message is dropped.  After cleanup in the other *)
(* thread has shut the socket down send raises SIGPIPE, which ends the      *)
(* process; it may do so as well once the server has closed its end.        *)
Send(t, message, next) ==
    \/ /\ sock # "shut"
       /\ toServer' = IF sock = "open" /\ peer # "closed" THEN Append(toServer, message)
                                                          ELSE toServer
       /\ Goto(t, next)
       /\ UNCHANGED exit
    \/ /\ sock = "shut" \/ (sock = "open" /\ peer = "closed")
       /\ exit' = "killed"
       /\ UNCHANGED <<toServer, pc>>

(* graceful_quit *)
SendBye(t) ==
    /\ At(t, "bye")
    /\ Send(t, "BYE", "exit")
    /\ UNCHANGED <<state, sock, running, cleaned, chunk, masked, cmd, inbox, peer,
                   answered, accepted, logVars>>

(* exit() runs cleanup once.  stop_tcp_listener: a listener that is reading *)
(* is made to see the end of the stream.                                    *)
Stop(t) ==
    /\ At(t, "exit")
    /\ cleaned' = TRUE
    /\ IF cleaned THEN Goto(t, "flush") /\ UNCHANGED <<running, sock>>
       ELSE /\ Goto(t, "close")
            /\ running' = FALSE
            /\ sock' = IF running /\ sock = "open" THEN "shut" ELSE sock
    /\ UNCHANGED <<state, exit, chunk, masked, cmd, netVars, logVars>>

AfterListener(t) == pc["listener"] = "dead"   \* mistake: cleanup joins the listener
(* The listener is detached: nothing waits for it. *)
MayClose(t) == TRUE

(* close_tcp_connection, and the same lines at the end of tcp_listener:     *)
(* test tcp_socket, then close it and set it to -1.                         *)
TestSocket(t, closing, next) ==
    /\ Goto(t, IF sock = "none" THEN next ELSE closing)
    /\ UNCHANGED <<state, sock, running, cleaned, exit, chunk, masked, cmd, netVars,
                   logVars>>
CloseSocket(t, next) ==
    /\ sock' = "none"
    /\ Goto(t, next)
    /\ UNCHANGED <<state, running, cleaned, exit, chunk, masked, cmd, netVars, logVars>>

Close(t) ==
    \/ At(t, "close") /\ MayClose(t) /\ TestSocket(t, "closing", "flush")
    \/ At(t, "closing") /\ CloseSocket(t, "flush")

Leave(t) ==
    /\ At(t, "flush")
    /\ exit' = "ended"
    /\ UNCHANGED <<state, sock, running, cleaned, chunk, masked, pc, cmd, netVars, logVars>>

ExitStep(t) == SendBye(t) \/ Stop(t) \/ Close(t) \/ Leave(t)

-----------------------------------------------------------------------------
(* The main thread *)

AcceptsAfterAuth(c) ==             \* mistake: a sent AUTH is taken for an accepted one
    IF c = "AUTH" THEN state \in {"START", "AUTH"} ELSE state # "START"
Accepts(c) ==
    IF c = "AUTH" THEN state \in {"START", "AUTH"} ELSE state = "OPEN"

(* state_*_logic calls the command.  A command it refuses, and a message    *)
(* about it, changes nothing here.                                          *)
Dispatch(c) ==
    /\ At("main", "input") /\ typed < MaxCommands
    /\ Accepts(c)
    /\ state' = IF state = "START" THEN "AUTH" ELSE state
    /\ cmd' = c
    /\ typed' = typed + 1
    /\ Goto("main", "exec")
    /\ UNCHANGED <<sock, running, cleaned, exit, chunk, masked, netVars, replied,
                   written, interrupts>>

(* Arguments that validation rejects. *)
BadArguments ==
    /\ At("main", "exec")
    /\ cmd' = "NONE"
    /\ Goto("main", "input")
    /\ UNCHANGED <<appVars, netVars, logVars>>

(* cmd_auth and cmd_join set the state before they send. *)
SetState ==
    /\ At("main", "exec")
    /\ state' = IF cmd = "MSG" THEN state ELSE cmd
    /\ Goto("main", "send")
    /\ UNCHANGED <<sock, running, cleaned, exit, chunk, masked, cmd, netVars, logVars>>

SendCommand ==
    /\ At("main", "send")
    /\ Send("main", cmd, "input")
    /\ cmd' = "NONE"
    /\ UNCHANGED <<state, sock, running, cleaned, chunk, masked, inbox, peer, answered,
                   accepted, logVars>>

(* The end of the input: graceful_quit. *)
EndOfInput ==
    /\ At("main", "input")
    /\ Goto("main", "bye")
    /\ UNCHANGED <<appVars, cmd, netVars, logVars>>

(* SIGINT goes to the main thread, or to the listener while the main thread *)
(* is in the handler, which never returns.                                  *)
AnyThread(t) == t \notin masked     \* mistake: SIGINT is not kept for the main thread
SigintTarget(t) ==
    \/ t = "main" /\ "main" \notin masked
    \/ t = "listener" /\ "main" \in masked /\ "listener" \notin masked
Interrupt(t) ==
    /\ exit = "running" /\ interrupts < MaxInterrupts
    /\ SigintTarget(t) /\ pc[t] # "dead"
    /\ masked' = masked \cup {t}
    /\ interrupts' = interrupts + 1
    /\ Goto(t, "bye")
    /\ UNCHANGED <<state, sock, running, cleaned, exit, chunk, cmd, netVars, replied,
                   typed, written>>

-----------------------------------------------------------------------------
(* The listener thread: tcp_listener *)

Start ==
    /\ At("listener", "start")
    /\ running' = TRUE
    /\ Goto("listener", "recv")
    /\ UNCHANGED <<state, sock, cleaned, exit, chunk, masked, cmd, netVars, logVars>>

(* The loop's condition, then recv: some of the messages that have arrived. *)
Recv(n) ==
    /\ At("listener", "recv") /\ running /\ sock # "none"
    /\ chunk' = SubSeq(inbox, 1, n)
    /\ inbox' = SubSeq(inbox, n + 1, Len(inbox))
    /\ Goto("listener", "process")
    /\ UNCHANGED <<state, sock, running, cleaned, exit, masked, cmd, toServer, peer,
                   answered, accepted, logVars>>

(* The loop's condition is false, or recv finds the connection at its end:  *)
(* what arrived before the end is received before it.                       *)
LoopEnds ==
    /\ At("listener", "recv")
    /\ ~running \/ sock # "open" \/ (peer = "closed" /\ inbox = <<>>)
    /\ running' = FALSE
    /\ Goto("listener", "test")
    /\ UNCHANGED <<state, sock, cleaned, exit, chunk, masked, cmd, netVars, logVars>>

DropConnection ==
    \/ At("listener", "test") /\ TestSocket("listener", "drop", "dead")
    \/ At("listener", "drop") /\ CloseSocket("listener", "dead")

(* process_tcp_message takes the next message of the chunk, if it is of one *)
(* of these kinds, and goes on with the chunk.                              *)
Handling(kinds) ==
    /\ At("listener", "process") /\ chunk # <<>> /\ Head(chunk) \in kinds
    /\ chunk' = Tail(chunk)
Unchanged == UNCHANGED <<sock, running, cleaned, exit, masked, cmd, netVars, typed,
                         written, interrupts>>

ToEnd(result) == "END"             \* mistake: the state the protocol ends in
OpensAnyway(result) ==             \* mistake: any reply opens the session
    IF state \in {"AUTH", "JOIN"} THEN "OPEN" ELSE state
OnlyOkReturns(result) ==           \* mistake: a refused JOIN is still waited for
    IF state \in {"AUTH", "JOIN"} /\ result = "OK" THEN "OPEN" ELSE state
StateAfter(result) ==
    IF state = "JOIN" \/ (state = "AUTH" /\ result = "OK") THEN "OPEN" ELSE state

(* process_tcp_reply_message: a reply is not matched with a request. *)
HandleReply ==
    /\ Handling({"OK", "NOK"})
    /\ state' = StateAfter(Head(chunk))
    /\ replied' = replied + 1
    /\ Unchanged /\ UNCHANGED pc

(* A MSG is shown. *)
HandleMsg == Handling({"MSG"}) /\ Unchanged /\ UNCHANGED <<state, replied, pc>>

(* ERR and BYE: exit(EXIT_SUCCESS).  Any other line: ERR is sent first. *)
HandleFinal ==
    /\ Handling({"ERR", "BYE", "UNKNOWN"})
    /\ Goto("listener", IF Head(chunk) = "UNKNOWN" THEN "err" ELSE "exit")
    /\ Unchanged /\ UNCHANGED <<state, replied>>

SendErr ==
    /\ At("listener", "err")
    /\ Send("listener", "ERR", "exit")
    /\ UNCHANGED <<state, sock, running, cleaned, chunk, masked, cmd, inbox, peer,
                   answered, accepted, logVars>>

ChunkDone ==
    /\ At("listener", "process") /\ chunk = <<>>
    /\ Goto("listener", "recv")
    /\ UNCHANGED <<appVars, cmd, netVars, logVars>>

-----------------------------------------------------------------------------
(* The server, external: what a server that follows the protocol does *)

(* The positions of the requests in the stream; they are answered in order. *)
Requests == {i \in DOMAIN toServer : toServer[i] \in {"AUTH", "JOIN"}}
SessionOver ==
    \/ \E i \in DOMAIN toServer : toServer[i] \in {"BYE", "ERR"}
    \/ peer # "open"

SrvWrite(m) ==
    /\ exit = "running" /\ ~SessionOver
    /\ inbox' = Append(inbox, m)
    /\ UNCHANGED <<appVars, pc, cmd, toServer, replied, typed, interrupts>>

SrvReply(result) ==
    /\ \E i \in Requests :
         /\ Cardinality({j \in Requests : j < i}) = answered
         /\ toServer[i] = "AUTH" /\ accepted => result = "NOK"
    /\ SrvWrite(result)
    /\ answered' = answered + 1
    /\ accepted' = (accepted \/ result = "OK")
    /\ UNCHANGED <<peer, written>>

(* ERR and BYE are the last words of the server. *)
SrvSend(kind) ==
    /\ Len(toServer) > 0 /\ written < MaxMessages
    /\ written' = written + 1
    /\ kind = "MSG" => accepted
    /\ SrvWrite(kind)
    /\ peer' = IF kind \in {"ERR", "BYE"} THEN "leaving" ELSE peer
    /\ UNCHANGED <<answered, accepted>>

SrvClose ==
    /\ exit = "running" /\ peer # "closed"
    /\ peer' = "closed"
    /\ UNCHANGED <<appVars, pc, cmd, toServer, inbox, answered, accepted, logVars>>

-----------------------------------------------------------------------------
(* The end of the process. *)
Done == exit # "running" /\ UNCHANGED vars

MainStep == BadArguments \/ SetState \/ SendCommand
ListenerStep ==
    \/ Start \/ LoopEnds \/ DropConnection
    \/ HandleReply \/ HandleMsg \/ HandleFinal \/ SendErr \/ ChunkDone
    \/ \E n \in 1 .. Len(inbox) : Recv(n)
UserStep == EndOfInput \/ \E c \in Commands : Dispatch(c)
Server ==
    \/ \E result \in {"OK", "NOK"} : SrvReply(result)
    \/ \E kind \in ServerKinds : SrvSend(kind)
    \/ SrvClose

Next ==
    \/ UserStep \/ MainStep \/ ListenerStep \/ Server \/ Done
    \/ \E t \in Threads : ExitStep(t) \/ Interrupt(t)

(* The scheduler runs both threads.  Nothing is assumed of the user, the    *)
(* server or the network.                                                   *)
Spec ==
    /\ Init /\ [][Next]_vars
    /\ WF_vars(MainStep) /\ WF_vars(ListenerStep)
    /\ \A t \in Threads : WF_vars(ExitStep(t))

-----------------------------------------------------------------------------
(* Properties *)

Places == {"input", "exec", "send", "bye", "exit", "close", "closing", "flush",
           "start", "recv", "process", "err", "test", "drop", "dead"}
Sendable == Commands \cup {"BYE", "ERR"}
Receivable == {"OK", "NOK"} \cup ServerKinds

(* Every variable holds a value the program's declarations allow. *)
TypeOK ==
    /\ state \in {"START", "AUTH", "OPEN", "JOIN"}
    /\ sock \in {"open", "shut", "none"}
    /\ running \in BOOLEAN /\ cleaned \in BOOLEAN
    /\ exit \in {"running", "ended", "killed"}
    /\ pc \in [Threads -> Places] /\ cmd \in Commands \cup {"NONE"}
    /\ chunk \in Seq(Receivable) /\ inbox \in Seq(Receivable)
    /\ toServer \in Seq(Sendable)
    /\ masked \subseteq Threads
    /\ peer \in {"open", "leaving", "closed"}
    /\ answered \in Nat /\ accepted \in BOOLEAN /\ replied \in Nat
    /\ typed \in Nat /\ written \in Nat /\ interrupts \in Nat

(* The client joins channels and sends text only after the server accepted  *)
(* an AUTH, whatever replies are on their way.                              *)
AuthenticatedSession ==
    (state \in {"OPEN", "JOIN"} \/ \E i \in DOMAIN toServer : toServer[i] \in {"JOIN", "MSG"})
        => accepted

(* On a live connection a client in state JOIN has a reply still to come    *)
(* that takes it back to OPEN: no reply meant for another request uses up   *)
(* the one the JOIN is waiting for.                                         *)
JoinAwaitsReply ==
    state = "JOIN" /\ sock = "open" /\ peer = "open" /\ "main" \notin masked
        => (pc["main"] = "send" /\ cmd = "JOIN") \/ replied < Cardinality(Requests)

(* After BYE the client sends no command: the signal handler never gives    *)
(* the main thread back.                                                    *)
NoCommandAfterBye ==
    \A i, j \in DOMAIN toServer :
        i < j /\ toServer[i] = "BYE" => toServer[j] \notin Commands

(* The client's state follows the session's state machine. *)
Session == INSTANCE ChatSession
ImplementsChatSession == Session!Spec

(* A BYE or ERR of the server, and Ctrl-C, end the program.                 *)
Final(messages) == \E i \in DOMAIN messages : messages[i] \in {"BYE", "ERR"}
ProgramEnds ==
    (Final(inbox) \/ Final(chunk) \/ "main" \in masked) ~> (exit # "running")
=============================================================================

------------------------- MODULE UdpSessionProofs --------------------------
(***************************************************************************)
(* The session of UdpClient for every value of its constants: it has an    *)
(* accepted AUTH behind it, its traffic goes to the server's dynamic port, *)
(* it follows the state machine ChatSession, and BYE is its last message.  *)
(***************************************************************************)
EXTENDS UdpClientProofs

SessionTypes == {"JOIN", "MSG"}
InCall == {"load", "store", "send", "wait", "scan"}

(* Why AuthenticatedSession is inductive: the main thread has a session     *)
(* message in hand only if it saw state OPEN; a REPLY answers some request, *)
(* and a request that is not an AUTH is itself session traffic.             *)
SessionInv ==
    /\ AuthenticatedSession
    /\ msg["main"].type \in SessionTypes => Authenticated
    /\ msg["listener"].type \notin Commands
    /\ \A d \in toClient : d.type = "REPLY" => \E m \in Requests : m.id = d.ref

(* Why SessionTrafficOnDynamicPort is inductive: the reply that opens the   *)
(* session is handled only after the listener has written the new port, and *)
(* a session message resolved its destination after that.                   *)
PortInv ==
    /\ SessionTrafficOnDynamicPort
    /\ state \in {"OPEN", "JOIN"} => port = "dyn"
    /\ msg["main"].type \in SessionTypes => port = "dyn"
    /\ msg["main"].type \in SessionTypes /\ pc["main"] \in InCall => dest["main"] = "dyn"
    /\ msg["listener"].type \notin Commands
    /\ pc["listener"] = "process" => port = "dyn"
    /\ port = "uninit" => pc["listener"] \notin {"start", "bind", "recv", "grow", "input"}

-----------------------------------------------------------------------------
(* Nothing sent is ever taken back, so Authenticated stays true. *)
LEMMA NetworkGrows ==
  ASSUME TypeOK, [Next]_vars
  PROVE  toServer \subseteq toServer' /\ toClient \subseteq toClient'
<1>1. CASE UNCHANGED vars
  BY <1>1 DEF vars, netVars
<1>2. CASE UserStep \/ CommandStep \/ ListenerStep
  BY <1>2
  DEF UserStep, CommandStep, ListenerStep, Dispatch, Refuse, EndOfInput, BadArguments,
      Compose, StateSet, CreateSocket, Bind, WritePort, Grow, netVars
<1>3. CASE Server
  BY <1>3 DEF Server, SrvReply, SrvSend, ServerStep
<1>4. ASSUME NEW t \in Threads, SendStep(t) \/ Interrupt(t)
      PROVE  toServer \subseteq toServer' /\ toClient \subseteq toClient'
  BY <1>4
  DEF SendStep, Interrupt, Resolve, LoadIndex, StoreIndex, SendTo, SendFails, Wake,
      Delivered, GiveUp, Leave, netVars
<1>5. ASSUME NEW d \in toClient, NewPort(d) \/ Handle(d)
      PROVE  toServer \subseteq toServer' /\ toClient \subseteq toClient'
  BY <1>5
  DEF NewPort, Handle, HandleReply, HandleMsg, HandlePing, HandleErr, HandleBye,
      HandleMalformed, SendConfirm, netVars
<1>6. ASSUME NEW d \in SrvConfirms, HandleConfirm(d)
      PROVE  toServer \subseteq toServer' /\ toClient \subseteq toClient'
  BY <1>6 DEF HandleConfirm, netVars
<1> QED
  BY <1>1, <1>2, <1>3, <1>4, <1>5, <1>6 DEF Next, Done

(* An accepted AUTH stays accepted. *)
LEMMA AuthenticatedStays ==
  ASSUME TypeOK, [Next]_vars, Authenticated
  PROVE  Authenticated'
  BY NetworkGrows DEF Authenticated

(* What a step must show to keep SessionInv: where the new state, message   *)
(* in hand, datagrams and replies come from.                                *)
LEMMA SessionKept ==
  ASSUME TypeOK, SessionInv, [Next]_vars,
         state' \in {"OPEN", "JOIN"} => state \in {"OPEN", "JOIN"} \/ Authenticated,
         msg'["main"].type \in SessionTypes =>
             msg["main"].type \in SessionTypes \/ state \in {"OPEN", "JOIN"},
         msg'["listener"].type \notin Commands,
         \A m \in toServer' : m.type \in SessionTypes =>
             m \in toServer \/ msg["main"].type \in SessionTypes,
         \A d \in toClient' : d.type = "REPLY" =>
             d \in toClient \/ \E m \in Requests : m.id = d.ref
  PROVE  SessionInv'
<1>1. Authenticated => Authenticated'
  BY AuthenticatedStays
<1>2. AuthenticatedSession'
  BY <1>1 DEF SessionInv, AuthenticatedSession, SessionTypes
<1>3. \A d \in toClient' : d.type = "REPLY" => \E m \in Requests' : m.id = d.ref
  BY NetworkGrows DEF SessionInv, Requests
<1> QED
  BY <1>1, <1>2, <1>3 DEF SessionInv, AuthenticatedSession

(* An OK to the client in state AUTH: the request it answers was an AUTH,   *)
(* or a JOIN, which has an accepted AUTH behind it.                         *)
LEMMA OkAuthenticates ==
  ASSUME TypeOK, SessionInv, NEW d \in toClient, d.type = "REPLY", d.result = "OK"
  PROVE  Authenticated
<1>1. PICK m \in Requests : m.id = d.ref
  BY DEF SessionInv
<1>2. m \in toServer /\ (m.type = "AUTH" \/ m.type = "JOIN")
  BY DEF Requests
<1>3. CASE m.type = "AUTH"
  BY <1>1, <1>2, <1>3 DEF Authenticated
<1>4. CASE m.type = "JOIN"
  BY <1>2, <1>4 DEF SessionInv, AuthenticatedSession
<1> QED
  BY <1>2, <1>3, <1>4

(* Every step keeps SessionInv. *)
LEMMA SessionStep ==
  ASSUME TypeOK, SessionInv, [Next]_vars
  PROVE  SessionInv'
<1>1. CASE UNCHANGED vars
  BY <1>1, SessionKept
  DEF vars, appVars, callVars, netVars, SessionInv
<1>2. ASSUME NEW c \in Commands, Dispatch(c) \/ Refuse(c) PROVE SessionInv'
  <2>1. CASE Dispatch(c)
    BY <2>1, SessionKept
    DEF Dispatch, Accepts, netVars, TypeOK, AppType, CallType, SessionInv, SessionTypes,
        Commands, Threads
  <2>2. CASE Refuse(c)
    BY <2>2, SessionKept DEF Refuse, callVars, netVars, SessionInv
  <2> QED
    BY <1>2, <2>1, <2>2
<1>3. CASE EndOfInput
  BY <1>3, SessionKept
  DEF EndOfInput, Begin, appVars, netVars, TypeOK, CallType, SessionInv, SessionTypes, Threads
<1>4. CASE CommandStep
  <2>1. CASE BadArguments
    BY <2>1, SessionKept
    DEF BadArguments, ForgetCall, NoMsg, netVars, TypeOK, CallType, SessionInv,
        SessionTypes, Threads
  <2>2. CASE Compose
    BY <2>2, SessionKept
    DEF Compose, StateSet, Begin, netVars, TypeOK, CallType, SessionInv, SessionTypes, Threads
  <2> QED
    BY <1>4, <2>1, <2>2 DEF CommandStep
<1>5. CASE ListenerStep
  BY <1>5, SessionKept
  DEF ListenerStep, CreateSocket, Bind, WritePort, Grow, callVars, netVars, SessionInv
<1>6. CASE Server
  <2>1. UNCHANGED <<state, msg, toServer>>
    BY <1>6 DEF Server, SrvReply, SrvSend, ServerStep, appVars, callVars
  <2>2. \A d \in toClient' : d.type = "REPLY" =>
          d \in toClient \/ \E m \in Requests : m.id = d.ref
    BY <1>6, ConstantsAssumption DEF Server, SrvReply, SrvSend, ServerStep, Reply, Datagram
  <2> QED
    BY <2>1, <2>2, SessionKept DEF SessionInv
<1>7. ASSUME NEW t \in Threads, SendStep(t) PROVE SessionInv'
  <2>1. UNCHANGED <<state, toClient>>
    BY <1>7
    DEF SendStep, Resolve, LoadIndex, StoreIndex, SendTo, SendFails, Wake, Delivered,
        GiveUp, Leave, appVars, netVars
  <2>2. msg' = msg \/ msg' = [msg EXCEPT ![t] = NoMsg]
    BY <1>7
    DEF SendStep, Resolve, LoadIndex, StoreIndex, SendTo, SendFails, Wake, Delivered,
        GiveUp, Leave, ForgetCall, callVars
  <2>3. \A m \in toServer' : m \in toServer \/ m.type = msg[t].type
    <3>1. CASE SendTo(t)
      BY <3>1 DEF SendTo, ToPort
    <3>2. CASE ~SendTo(t)
      BY <1>7, <3>2
      DEF SendStep, Resolve, LoadIndex, StoreIndex, SendFails, Wake, Delivered, GiveUp,
          Leave, netVars
    <3> QED
      BY <3>1, <3>2
  <2>4. \A m \in toServer' : m.type \in SessionTypes =>
          m \in toServer \/ msg["main"].type \in SessionTypes
    BY <2>3 DEF SessionInv, SessionTypes, Commands, Threads
  <2>5. /\ msg'["main"].type \in SessionTypes => msg["main"].type \in SessionTypes
        /\ msg'["listener"].type \notin Commands
    BY <2>2 DEF NoMsg, TypeOK, CallType, SessionInv, SessionTypes, Commands, Threads
  <2> QED
    BY <2>1, <2>4, <2>5, SessionKept
<1>8. ASSUME NEW t \in Threads, Interrupt(t) PROVE SessionInv'
  <2>1. msg' = msg \/ msg' = [msg EXCEPT ![t] = [type |-> "BYE", id |-> Id(index)]]
    BY <1>8 DEF Interrupt, Begin
  <2>2. /\ msg'["main"].type \in SessionTypes => msg["main"].type \in SessionTypes
        /\ msg'["listener"].type \notin Commands
    BY <2>1 DEF TypeOK, CallType, SessionInv, SessionTypes, Commands, Threads
  <2> QED
    BY <1>8, <2>2, SessionKept DEF Interrupt, netVars
<1>9. ASSUME NEW d \in toClient, NewPort(d) \/ Handle(d) PROVE SessionInv'
  <2>1. CASE HandleReply(d)
    <3>1. state' \in {"OPEN", "JOIN"} => state \in {"OPEN", "JOIN"} \/ Authenticated
      BY <2>1, OkAuthenticates DEF HandleReply, Handling
    <3>2. UNCHANGED <<msg, toClient>>
      BY <2>1 DEF HandleReply, callVars
    <3>3. \A m \in toServer' : m.type \in SessionTypes => m \in toServer
      BY <2>1 DEF HandleReply, SendConfirm, ToPort, SessionTypes
    <3> QED
      BY <3>1, <3>2, <3>3, SessionKept DEF SessionInv
  <2>2. CASE NewPort(d) \/ HandleMsg(d) \/ HandlePing(d) \/ HandleErr(d) \/ HandleBye(d)
    <3>1. UNCHANGED <<state, msg, toClient>>
      BY <2>2
      DEF NewPort, HandleMsg, HandlePing, HandleErr, HandleBye, appVars, callVars, netVars
    <3>2. \A m \in toServer' : m.type \in SessionTypes => m \in toServer
      BY <2>2
      DEF NewPort, HandleMsg, HandlePing, HandleErr, HandleBye, SendConfirm, ToPort,
          SessionTypes, netVars
    <3> QED
      BY <3>1, <3>2, SessionKept DEF SessionInv
  <2>3. CASE HandleMalformed(d)
    <3>1. UNCHANGED <<state, toClient>> /\ msg' = [msg EXCEPT !["listener"] =
                                                    [type |-> "ERR", id |-> Id(index)]]
      BY <2>3 DEF HandleMalformed, Begin
    <3>2. \A m \in toServer' : m.type \in SessionTypes => m \in toServer
      BY <2>3 DEF HandleMalformed, SendConfirm, ToPort, SessionTypes
    <3>3. msg'["main"] = msg["main"] /\ msg'["listener"].type \notin Commands
      BY <3>1 DEF TypeOK, CallType, Threads, Commands
    <3> QED
      BY <3>1, <3>2, <3>3, SessionKept DEF SessionInv
  <2> QED
    BY <1>9, <2>1, <2>2, <2>3 DEF Handle
<1>10. ASSUME NEW d \in SrvConfirms, HandleConfirm(d) PROVE SessionInv'
  BY <1>10, SessionKept DEF HandleConfirm, callVars, netVars, SessionInv
<1> QED
  BY <1>1, <1>2, <1>3, <1>4, <1>5, <1>6, <1>7, <1>8, <1>9, <1>10 DEF Next, Done, UserStep

(* The client is in a session, and sends session traffic, only after the    *)
(* server accepted an AUTH of this client (state_auth.c, state_join.c,      *)
(* cmd_join.c, cmd_msg.c), for any number of retransmissions, commands,     *)
(* server messages and interrupts.                                          *)
THEOREM SessionIsAuthenticated == Spec => []AuthenticatedSession
<1>1. Init => SessionInv
  BY DEF Init, SessionInv, AuthenticatedSession, NoMsg, Threads, SessionTypes, Commands
<1>2. TypeOK /\ SessionInv /\ [Next]_vars => SessionInv'
  BY SessionStep
<1>3. SessionInv => AuthenticatedSession
  BY DEF SessionInv
<1> QED
  BY <1>1, <1>2, <1>3, TypeInvariant, PTL DEF Spec

-----------------------------------------------------------------------------
(* Steps of the main thread and of the signal handler keep PortInv. *)
LEMMA PortMainStep ==
  ASSUME TypeOK, PortInv, UserStep \/ CommandStep
  PROVE  PortInv'
<1>1. ASSUME NEW c \in Commands, Dispatch(c) PROVE PortInv'
  BY <1>1
  DEF Dispatch, Typing, Accepts, At, Goto, PortInv, SessionTrafficOnDynamicPort, netVars,
      TypeOK, AppType, CallType, SessionTypes, InCall, Commands, Threads
<1>2. ASSUME NEW c \in Commands, Refuse(c) PROVE PortInv'
  BY <1>2 DEF Refuse, PortInv, SessionTrafficOnDynamicPort, callVars, netVars
<1>3. CASE EndOfInput
  BY <1>3
  DEF EndOfInput, Begin, Goto, PortInv, SessionTrafficOnDynamicPort, appVars, netVars,
      TypeOK, CallType, SessionTypes, Threads
<1>4. CASE BadArguments
  BY <1>4
  DEF BadArguments, ForgetCall, NoMsg, Goto, PortInv, SessionTrafficOnDynamicPort, netVars,
      TypeOK, CallType, SessionTypes, Threads
<1>5. CASE Compose
  BY <1>5
  DEF Compose, StateSet, Begin, Goto, PortInv, SessionTrafficOnDynamicPort, netVars,
      TypeOK, CallType, SessionTypes, InCall, Threads
<1> QED
  BY <1>1, <1>2, <1>3, <1>4, <1>5 DEF UserStep, CommandStep

(* The signal handler's BYE is no session message and resolves its own port. *)
LEMMA PortInterrupt ==
  ASSUME TypeOK, PortInv, NEW t \in Threads, Interrupt(t)
  PROVE  PortInv'
<1>1. UNCHANGED <<state, port, dest, toServer>>
  BY DEF Interrupt, netVars
<1>2. CASE Begin(t, "BYE")
  BY <1>1, <1>2
  DEF Begin, Goto, PortInv, SessionTrafficOnDynamicPort, TypeOK, CallType, SessionTypes,
      InCall, Commands, Threads
<1>3. CASE Goto(t, "hung") /\ UNCHANGED msg
  BY <1>1, <1>3
  DEF Goto, PortInv, SessionTrafficOnDynamicPort, TypeOK, CallType, InCall, Threads
<1> QED
  BY <1>2, <1>3 DEF Interrupt

(* A send resolves its port before it begins and keeps it to its end. *)
LEMMA PortSendStep ==
  ASSUME TypeOK, PortInv, NEW t \in Threads, SendStep(t)
  PROVE  PortInv'
<1>1. UNCHANGED <<state, port>>
  BY DEF SendStep, Resolve, LoadIndex, StoreIndex, SendTo, SendFails, Wake, Delivered,
         GiveUp, Leave, appVars
<1>2. CASE Resolve(t)
  BY <1>1, <1>2
  DEF Resolve, CurrentPort, Exit, Goto, PortInv, SessionTrafficOnDynamicPort, netVars,
      TypeOK, CallType, SessionTypes, InCall, Commands, Threads
<1>3. CASE SendTo(t)
  <2>1. \A m \in toServer' : m.type \in SessionTypes => m.port = "dyn"
    BY <1>3
    DEF SendTo, MaySend, At, ToPort, PortInv, SessionTrafficOnDynamicPort, SessionTypes,
        InCall, Commands, Threads
  <2> QED
    BY <1>1, <1>3, <2>1
    DEF SendTo, MaySend, At, Goto, PortInv, SessionTrafficOnDynamicPort, TypeOK, CallType,
        SessionTypes, InCall, Threads
<1>4. CASE LoadIndex(t) \/ StoreIndex(t) \/ SendFails(t) \/ Wake(t)
  BY <1>1, <1>4
  DEF LoadIndex, StoreIndex, SendFails, Wake, MaySend, At, Goto, PortInv,
      SessionTrafficOnDynamicPort, callVars, netVars, TypeOK, CallType, InCall, Threads
<1>5. CASE Delivered(t)
  <2>1. UNCHANGED toServer /\ msg' = [msg EXCEPT ![t] = NoMsg]
    BY <1>5 DEF Delivered, ForgetCall, netVars
  <2>2. t = "listener" => pc'["listener"] \in Leaving \cup {pc["listener"]}
    BY <1>5 DEF Delivered, PortInv, Exit, Goto, Leaving, TypeOK, CallType, Threads
  <2>3. t = "main" => pc'["listener"] = pc["listener"] /\ dest'["listener"] = dest["listener"]
    BY <1>5 DEF Delivered, Exit, Goto, ForgetCall, TypeOK, CallType, Threads
  <2>4. t = "listener" => pc'["main"] = pc["main"] /\ dest'["main"] = dest["main"]
    BY <1>5 DEF Delivered, Exit, Goto, ForgetCall, TypeOK, CallType, Threads
  <2> QED
    BY <1>1, <2>1, <2>2, <2>3, <2>4
    DEF PortInv, SessionTrafficOnDynamicPort, NoMsg, TypeOK, CallType, SessionTypes,
        Commands, Leaving, Threads
<1>6. CASE GiveUp(t) \/ Leave(t)
  BY <1>1, <1>6
  DEF GiveUp, Leave, Exit, Goto, Leaving, PortInv, SessionTrafficOnDynamicPort, callVars,
      netVars, TypeOK, CallType, InCall, Threads
<1> QED
  BY <1>2, <1>3, <1>4, <1>5, <1>6 DEF SendStep

(* The listener's steps between two datagrams. *)
LEMMA PortListenerStep ==
  ASSUME TypeOK, PortInv, ListenerStep
  PROVE  PortInv'
  BY DEF ListenerStep, CreateSocket, Bind, WritePort, Grow, NextDatagram, At, Goto, PortInv,
         SessionTrafficOnDynamicPort, callVars, netVars, TypeOK, CallType, InCall, Threads

(* The handlers.  By the time a REPLY is handled the port is written. *)
LEMMA PortHandle ==
  ASSUME TypeOK, PortInv, NEW d \in toClient, NewPort(d) \/ Handle(d)
  PROVE  PortInv'
<1>1. CASE NewPort(d)
  BY <1>1
  DEF NewPort, At, Goto, PortInv, SessionTrafficOnDynamicPort, callVars, netVars,
      TypeOK, AppType, CallType, InCall, Threads
<1>2. CASE HandleReply(d)
  <2>1. port = "dyn" /\ UNCHANGED port
    BY <1>2 DEF HandleReply, Handling, Fetched, At, PortInv, TypeOK, AppType, Ports
  <2>2. \A m \in toServer' : m.type \in SessionTypes => m \in toServer
    BY <1>2 DEF HandleReply, SendConfirm, ToPort, SessionTypes
  <2> QED
    BY <1>2, <2>1, <2>2
    DEF HandleReply, Exit, Goto, PortInv, SessionTrafficOnDynamicPort, callVars, TypeOK,
        CallType, SessionTypes, InCall, Threads
<1>3. CASE HandleMsg(d) \/ HandlePing(d)
  <2>1. UNCHANGED <<state, port, pc, msg, dest>>
    BY <1>3 DEF HandleMsg, HandlePing, appVars, callVars
  <2>2. \A m \in toServer' : m.type \in SessionTypes => m \in toServer
    BY <1>3 DEF HandleMsg, HandlePing, SendConfirm, ToPort, SessionTypes
  <2> QED
    BY <2>1, <2>2 DEF PortInv, SessionTrafficOnDynamicPort, SessionTypes
<1>4. CASE HandleErr(d) \/ HandleBye(d)
  <2>1. UNCHANGED <<state, port, msg, dest>> /\ pc' = [pc EXCEPT !["listener"] = "success"]
    BY <1>4 DEF HandleErr, HandleBye, Exit, Goto, callVars
  <2>2. \A m \in toServer' : m.type \in SessionTypes => m \in toServer
    BY <1>4 DEF HandleErr, HandleBye, SendConfirm, ToPort, SessionTypes
  <2> QED
    BY <2>1, <2>2
    DEF PortInv, SessionTrafficOnDynamicPort, SessionTypes, TypeOK, CallType, Threads
<1>5. CASE HandleMalformed(d)
  <2>1. /\ UNCHANGED <<state, port, dest>>
        /\ pc' = [pc EXCEPT !["listener"] = "resolve"]
        /\ msg' = [msg EXCEPT !["listener"] = [type |-> "ERR", id |-> Id(index)]]
    BY <1>5 DEF HandleMalformed, Begin, Goto
  <2>2. \A m \in toServer' : m.type \in SessionTypes => m \in toServer
    BY <1>5 DEF HandleMalformed, SendConfirm, ToPort, SessionTypes
  <2> QED
    BY <2>1, <2>2
    DEF PortInv, SessionTrafficOnDynamicPort, SessionTypes, Commands, TypeOK, CallType,
        Threads
<1> QED
  BY <1>1, <1>2, <1>3, <1>4, <1>5 DEF Handle

(* A CONFIRM touches the table only. *)
LEMMA PortHandleConfirm ==
  ASSUME TypeOK, PortInv, NEW d \in SrvConfirms, HandleConfirm(d)
  PROVE  PortInv'
  BY DEF HandleConfirm, At, Goto, PortInv, SessionTrafficOnDynamicPort, callVars, netVars,
         TypeOK, CallType, InCall, Threads

(* JOIN and MSG are sent to the dynamic port only: the switch of the port   *)
(* in udp_listener comes before the handling of the reply, also with an     *)
(* interrupt or the other thread's send in between.                         *)
THEOREM SessionUsesDynamicPort == Spec => []SessionTrafficOnDynamicPort
<1>1. Init => PortInv
  BY DEF Init, PortInv, SessionTrafficOnDynamicPort, NoMsg, Threads, SessionTypes, Commands
<1>2. TypeOK /\ PortInv /\ [Next]_vars => PortInv'
  <2> SUFFICES ASSUME TypeOK, PortInv, [Next]_vars PROVE PortInv'
    OBVIOUS
  <2>1. CASE UNCHANGED vars
    BY <2>1 DEF vars, appVars, callVars, netVars, PortInv, SessionTrafficOnDynamicPort
  <2>2. CASE Server
    BY <2>2
    DEF Server, SrvReply, SrvSend, ServerStep, appVars, callVars, PortInv,
        SessionTrafficOnDynamicPort
  <2> QED
    BY <2>1, <2>2, PortMainStep, PortListenerStep, PortSendStep, PortInterrupt, PortHandle,
       PortHandleConfirm
    DEF Next, Done
<1>3. PortInv => SessionTrafficOnDynamicPort
  BY DEF PortInv
<1> QED
  BY <1>1, <1>2, <1>3, TypeInvariant, PTL DEF Spec

-----------------------------------------------------------------------------
(* What the mapping of steps needs beside SessionInv: no request exists     *)
(* before the first /auth, and a /join that was dispatched in state OPEN    *)
(* finds the state still OPEN, because the listener leaves OPEN only by     *)
(* exit.                                                                    *)
ChatInv ==
    /\ state = "START" =>
         /\ msg["main"].type \notin Commands
         /\ \A m \in toServer : m.type \notin Commands
    /\ pc["main"] = "exec" /\ msg["main"].type = "JOIN" => state = "OPEN"

(* Only a new reply of the server accepts the client. *)
LEMMA AcceptedByReplyOnly ==
  ASSUME TypeOK, SessionInv, [Next]_vars, toClient' = toClient
  PROVE  Authenticated' = Authenticated
<1>1. Authenticated => Authenticated'
  BY AuthenticatedStays
<1>2. ASSUME Authenticated' PROVE Authenticated
  <2>1. PICK d \in toClient : d.type = "REPLY" /\ d.result = "OK"
    BY <1>2 DEF Authenticated
  <2> QED
    BY <2>1, OkAuthenticates
<1> QED
  BY <1>1, <1>2 DEF Authenticated

(* A step that leaves the state and the replies alone is a stutter, and     *)
(* keeps ChatInv if it adds no request and no command.                      *)
LEMMA QuietStep ==
  ASSUME TypeOK, SessionInv, ChatInv, [Next]_vars,
         state' = state, toClient' = toClient,
         msg'["main"].type \in Commands => msg'["main"].type = msg["main"].type,
         pc'["main"] = "exec" => pc["main"] = "exec",
         \A m \in toServer' : m.type \in Commands =>
             m \in toServer \/ msg["main"].type \in Commands
  PROVE  ChatInv' /\ UNCHANGED <<state, Authenticated>>
<1>1. Authenticated' = Authenticated
  BY AcceptedByReplyOnly
<1>2. ChatInv'
  BY DEF ChatInv, Commands
<1> QED
  BY <1>1, <1>2

(* Every step of the client maps to a step of ChatSession or to a stutter. *)
LEMMA ChatStep ==
  ASSUME TypeOK, SessionInv, ChatInv, [Next]_vars
  PROVE  ChatInv' /\ [Session!Next]_<<state, Authenticated>>
<1>1. CASE UNCHANGED vars
  BY <1>1, QuietStep DEF vars, appVars, callVars, netVars, ChatInv
<1>2. ASSUME NEW c \in Commands, Dispatch(c)
      PROVE  ChatInv' /\ [Session!Next]_<<state, Authenticated>>
  <2>1. Authenticated' = Authenticated
    BY <1>2, AcceptedByReplyOnly DEF Dispatch, netVars
  <2>2. ChatInv'
    BY <1>2 DEF Dispatch, Accepts, ChatInv, TypeOK, CallType, AppType, Threads, netVars
  <2>3. state' = state \/ (state = "START" /\ state' = "AUTH")
    BY <1>2 DEF Dispatch
  <2> QED
    BY <2>1, <2>2, <2>3 DEF Session!Next, Session!Authenticate
<1>3. CASE \E c \in Commands : Refuse(c)
  BY <1>3, QuietStep DEF Refuse, callVars, netVars
<1>4. CASE EndOfInput
  BY <1>4, QuietStep
  DEF EndOfInput, Begin, Goto, appVars, netVars, TypeOK, CallType, Commands, Threads
<1>5. CASE BadArguments
  BY <1>5, QuietStep
  DEF BadArguments, ForgetCall, NoMsg, Goto, netVars, TypeOK, CallType, Commands, Threads
<1>6. CASE Compose
  <2>1. Authenticated' = Authenticated
    BY <1>6, AcceptedByReplyOnly DEF Compose, netVars
  <2>2. /\ msg'["main"].type = msg["main"].type
        /\ pc'["main"] # "exec"
        /\ toServer' = toServer
    BY <1>6 DEF Compose, Begin, Goto, netVars, TypeOK, CallType, Threads
  <2>3. state' = state \/ (state = "OPEN" /\ state' = "JOIN")
    BY <1>6 DEF Compose, StateSet, At, ChatInv
  <2>4. ChatInv'
    BY <2>2, <2>3 DEF ChatInv
  <2> QED
    BY <2>1, <2>3, <2>4 DEF Session!Next, Session!Join
<1>7. CASE ListenerStep
  BY <1>7, QuietStep
  DEF ListenerStep, CreateSocket, Bind, WritePort, Grow, NextDatagram, Goto, callVars,
      netVars, TypeOK, CallType, Threads
<1>8. CASE Server
  <2>1. UNCHANGED <<state, msg, pc, toServer>>
    BY <1>8 DEF Server, SrvReply, SrvSend, ServerStep, appVars, callVars
  <2>2. ChatInv'
    BY <2>1 DEF ChatInv
  <2>3. Authenticated => Authenticated'
    BY AuthenticatedStays
  <2>4. ASSUME ~Authenticated, Authenticated' PROVE state = "AUTH"
    <3>1. \E m \in toServer : m.type = "AUTH"
      BY <2>1, <2>4 DEF Authenticated
    <3>2. state \notin {"OPEN", "JOIN", "START"}
      BY <2>4, <3>1 DEF SessionInv, AuthenticatedSession, ChatInv, Commands
    <3> QED
      BY <3>2 DEF TypeOK, AppType
  <2>5. Authenticated \in BOOLEAN /\ Authenticated' \in BOOLEAN
    BY DEF Authenticated
  <2> QED
    BY <2>1, <2>2, <2>3, <2>4, <2>5 DEF Session!Next, Session!Accept
<1>9. ASSUME NEW t \in Threads, SendStep(t)
      PROVE  ChatInv' /\ [Session!Next]_<<state, Authenticated>>
  <2>1. UNCHANGED <<state, toClient>>
    BY <1>9
    DEF SendStep, Resolve, LoadIndex, StoreIndex, SendTo, SendFails, Wake, Delivered,
        GiveUp, Leave, appVars, netVars
  <2>2. msg' = msg \/ msg' = [msg EXCEPT ![t] = NoMsg]
    BY <1>9
    DEF SendStep, Resolve, LoadIndex, StoreIndex, SendTo, SendFails, Wake, Delivered,
        GiveUp, Leave, ForgetCall, callVars
  <2>3. \A m \in toServer' : m \in toServer \/ m.type = msg[t].type
    <3>1. CASE SendTo(t)
      BY <3>1 DEF SendTo, ToPort
    <3>2. CASE ~SendTo(t)
      BY <1>9, <3>2
      DEF SendStep, Resolve, LoadIndex, StoreIndex, SendFails, Wake, Delivered, GiveUp,
          Leave, netVars
    <3> QED
      BY <3>1, <3>2
  <2>4. \A m \in toServer' : m.type \in Commands =>
          m \in toServer \/ msg["main"].type \in Commands
    BY <2>3 DEF SessionInv, Threads
  <2>5. msg'["main"].type \in Commands => msg'["main"].type = msg["main"].type
    BY <2>2 DEF NoMsg, TypeOK, CallType, Commands, Threads
  <2>6. pc'["main"] = "exec" => pc["main"] = "exec"
    BY <1>9
    DEF SendStep, Resolve, LoadIndex, StoreIndex, SendTo, SendFails, Wake, Delivered,
        GiveUp, Leave, Exit, Goto, Leaving, TypeOK, CallType, Threads
  <2> QED
    BY <2>1, <2>4, <2>5, <2>6, QuietStep
<1>10. ASSUME NEW t \in Threads, Interrupt(t)
       PROVE  ChatInv' /\ [Session!Next]_<<state, Authenticated>>
  BY <1>10, QuietStep
  DEF Interrupt, Begin, Goto, netVars, TypeOK, CallType, Commands, Threads
<1>11. ASSUME NEW d \in toClient, Handle(d)
       PROVE  ChatInv' /\ [Session!Next]_<<state, Authenticated>>
  <2>1. CASE HandleReply(d)
    <3>1. /\ msg'["main"].type = msg["main"].type
          /\ pc'["main"] = "exec" => pc["main"] = "exec"
          /\ toClient' = toClient
      BY <2>1 DEF HandleReply, Exit, Goto, callVars, TypeOK, CallType, Threads
    <3>2. \A m \in toServer' : m.type \in Commands => m \in toServer
      BY <2>1 DEF HandleReply, SendConfirm, ToPort, Commands
    <3>3. \/ state' = state
          \/ state = "AUTH" /\ Authenticated /\ state' = "OPEN"
          \/ state = "JOIN" /\ state' = "OPEN"
      BY <2>1, OkAuthenticates DEF HandleReply, Handling, TypeOK, AppType
    <3>4. Authenticated' = Authenticated
      BY <3>1, AcceptedByReplyOnly
    <3>5. ChatInv'
      BY <3>1, <3>2, <3>3 DEF ChatInv
    <3> QED
      BY <3>3, <3>4, <3>5 DEF Session!Next, Session!Opened, Session!Joined
  <2>2. CASE HandleMsg(d) \/ HandlePing(d) \/ HandleErr(d) \/ HandleBye(d)
    <3>1. UNCHANGED <<state, msg, toClient>>
      BY <2>2
      DEF HandleMsg, HandlePing, HandleErr, HandleBye, appVars, callVars
    <3>2. \A m \in toServer' : m.type \in Commands => m \in toServer
      BY <2>2
      DEF HandleMsg, HandlePing, HandleErr, HandleBye, SendConfirm, ToPort, Commands
    <3>3. pc'["main"] = pc["main"]
      BY <2>2
      DEF HandleMsg, HandlePing, HandleErr, HandleBye, Exit, Goto, TypeOK, CallType, Threads
    <3> QED
      BY <3>1, <3>2, <3>3, QuietStep
  <2>3. CASE HandleMalformed(d)
    <3>1. UNCHANGED <<state, toClient>> /\ msg'["main"] = msg["main"]
      BY <2>3 DEF HandleMalformed, Begin, TypeOK, CallType, Threads
    <3>2. \A m \in toServer' : m.type \in Commands => m \in toServer
      BY <2>3 DEF HandleMalformed, SendConfirm, ToPort, Commands
    <3>3. pc'["main"] = pc["main"]
      BY <2>3 DEF HandleMalformed, Begin, Goto, TypeOK, CallType, Threads
    <3> QED
      BY <3>1, <3>2, <3>3, QuietStep
  <2> QED
    BY <1>11, <2>1, <2>2, <2>3 DEF Handle
<1>12. ASSUME NEW d \in toClient, NewPort(d)
       PROVE  ChatInv' /\ [Session!Next]_<<state, Authenticated>>
  BY <1>12, QuietStep DEF NewPort, Goto, callVars, netVars, TypeOK, CallType, Threads
<1>13. ASSUME NEW d \in SrvConfirms, HandleConfirm(d)
       PROVE  ChatInv' /\ [Session!Next]_<<state, Authenticated>>
  BY <1>13, QuietStep
  DEF HandleConfirm, Goto, callVars, netVars, TypeOK, CallType, Threads
<1> QED
  BY <1>1, <1>2, <1>3, <1>4, <1>5, <1>6, <1>7, <1>8, <1>9, <1>10, <1>11, <1>12, <1>13
  DEF Next, Done, UserStep, CommandStep

(* The client's state follows ChatSession: state_*_logic, cmd_join and the  *)
(* reply handlers, in two threads without a lock, never leave the session's *)
(* state machine, whatever the network and the user do.                     *)
THEOREM UdpImplementsChatSession == Spec => ImplementsChatSession
<1>1. Init => SessionInv /\ ChatInv /\ Session!Init
  BY DEF Init, SessionInv, ChatInv, AuthenticatedSession, Authenticated, NoMsg, Threads,
         SessionTypes, Commands, Session!Init
<1>2. TypeOK /\ SessionInv /\ ChatInv /\ [Next]_vars
        => SessionInv' /\ ChatInv' /\ [Session!Next]_<<state, Authenticated>>
  BY SessionStep, ChatStep
<1> QED
  BY <1>1, <1>2, TypeInvariant, PTL DEF Spec, ImplementsChatSession, Session!Spec

-----------------------------------------------------------------------------
Calling == {"resolve", "load", "store", "send", "wait", "scan"}
ByeSent == \E n \in toServer : n.type = "BYE"

(* The main thread is past its commands: what it may still send is BYE. *)
Quits ==
    /\ pc["main"] \notin {"input", "exec"}
    /\ pc["main"] \in Calling => msg["main"].type = "BYE"

(* Why NoCommandAfterBye holds: whoever sends BYE, the main thread quits,   *)
(* because SIGINT reaches the listener only while the main thread is in the *)
(* handler, which does not return.                                          *)
QuitInv ==
    /\ ByeSent \/ "main" \in masked \/ msg["main"].type = "BYE" => Quits
    /\ msg["listener"].type = "BYE" => "main" \in masked
    /\ msg["listener"].type \notin Commands

-----------------------------------------------------------------------------
(* A step keeps QuitInv if it sends no BYE but the one in hand, and lets    *)
(* nobody who quits come back.                                              *)
LEMMA QuitKept ==
  ASSUME QuitInv,
         ByeSent' => ByeSent \/ \E t \in Threads : msg[t].type = "BYE",
         Quits => Quits',
         masked' = masked,
         msg'["main"].type = "BYE" => msg["main"].type = "BYE" \/ Quits',
         msg'["listener"].type = "BYE" => msg["listener"].type = "BYE",
         msg'["listener"].type \notin Commands
  PROVE  QuitInv'
  BY DEF QuitInv, Threads

(* The main thread's own steps between two sends. *)
LEMMA CommandQuit ==
  ASSUME TypeOK, QuitInv, UserStep \/ CommandStep
  PROVE  QuitInv'
<1>1. ASSUME NEW c \in Commands, Dispatch(c) PROVE QuitInv'
  <2>1. /\ ~Quits /\ toServer' = toServer /\ masked' = masked
        /\ msg' = [msg EXCEPT !["main"] = [type |-> c, id |-> 0]]
    BY <1>1 DEF Dispatch, Typing, At, Quits, netVars
  <2> QED
    BY <2>1, QuitKept DEF TypeOK, CallType, QuitInv, ByeSent, Commands, Threads
<1>2. ASSUME NEW c \in Commands, Refuse(c) PROVE QuitInv'
  BY <1>2, QuitKept DEF Refuse, callVars, netVars, QuitInv, Quits, ByeSent
<1>3. CASE EndOfInput
  <2>1. /\ ~Quits /\ toServer' = toServer /\ masked' = masked
        /\ msg' = [msg EXCEPT !["main"] = [type |-> "BYE", id |-> Id(index)]]
        /\ pc' = [pc EXCEPT !["main"] = "resolve"]
    BY <1>3 DEF EndOfInput, Typing, At, Begin, Goto, Quits, appVars, netVars
  <2>2. Quits'
    BY <2>1 DEF TypeOK, CallType, Quits, Threads
  <2> QED
    BY <2>1, <2>2, QuitKept DEF TypeOK, CallType, QuitInv, ByeSent, Threads
<1>4. CASE BadArguments
  <2>1. /\ ~Quits /\ toServer' = toServer /\ masked' = masked
        /\ msg' = [msg EXCEPT !["main"] = NoMsg]
    BY <1>4 DEF BadArguments, ForgetCall, At, Quits, netVars
  <2> QED
    BY <2>1, QuitKept DEF TypeOK, CallType, QuitInv, ByeSent, NoMsg, Threads
<1>5. CASE Compose
  <2>1. /\ ~Quits /\ toServer' = toServer /\ masked' = masked
        /\ msg' = [msg EXCEPT !["main"] = [type |-> msg["main"].type, id |-> Id(index)]]
    BY <1>5 DEF Compose, Begin, At, Quits, netVars
  <2> QED
    BY <2>1, QuitKept DEF TypeOK, CallType, QuitInv, ByeSent, Threads
<1> QED
  BY <1>1, <1>2, <1>3, <1>4, <1>5 DEF UserStep, CommandStep

(* The steps of a send, and of leaving the process. *)
LEMMA SendQuit ==
  ASSUME TypeOK, QuitInv, NEW t \in Threads, SendStep(t)
  PROVE  QuitInv'
<1>1. masked' = masked
  BY DEF SendStep, Resolve, LoadIndex, StoreIndex, SendTo, SendFails, Wake, Delivered,
         GiveUp, Leave, appVars
<1>2. ByeSent' => ByeSent \/ msg[t].type = "BYE"
  <2>1. toServer' = toServer \/ \E p : toServer' = toServer \cup {ToPort(msg[t], p)}
    BY DEF SendStep, Resolve, LoadIndex, StoreIndex, SendTo, SendFails, Wake, Delivered,
           GiveUp, Leave, netVars
  <2> QED
    BY <2>1 DEF ByeSent, ToPort
<1>3. msg' = msg \/ (msg' = [msg EXCEPT ![t] = NoMsg] /\ Delivered(t))
  BY DEF SendStep, Resolve, LoadIndex, StoreIndex, SendTo, SendFails, Wake, Delivered,
         GiveUp, Leave, ForgetCall, callVars
<1>4. \/ pc' = pc
      \/ pc[t] \in Calling \ {"scan"} /\ \E x \in Calling \cup Leaving : pc' = [pc EXCEPT ![t] = x]
      \/ pc[t] = "scan" /\ \E x \in Leaving : pc' = [pc EXCEPT ![t] = x]
      \/ Delivered(t) /\ msg[t].type \in Commands /\ pc' = [pc EXCEPT ![t] = "input"]
      \/ t = "listener" /\ pc' = [pc EXCEPT ![t] = "dead"]
  BY DEF SendStep, Resolve, LoadIndex, StoreIndex, SendTo, SendFails, Wake, Delivered,
         GiveUp, Leave, MaySend, At, Goto, Exit, Calling, Leaving
<1>5. Quits => Quits'
  <2> SUFFICES ASSUME Quits PROVE Quits'
    OBVIOUS
  <2>1. CASE t = "listener"
    <3>1. pc'["main"] = pc["main"] /\ msg'["main"] = msg["main"]
      BY <1>3, <1>4, <2>1 DEF TypeOK, CallType, Threads
    <3> QED
      BY <3>1 DEF Quits
  <2>2. CASE t = "main"
    <3>1. CASE Delivered(t)
      <4>1. pc[t] = "scan" /\ msg[t].type = "BYE"
        BY <2>2, <3>1 DEF Delivered, At, Quits, Calling
      <4>2. pc'[t] \in Leaving \/ pc' = pc
        BY <1>4, <2>2, <4>1 DEF TypeOK, CallType, Commands, Calling, Threads
      <4>3. pc' # pc
        BY <2>2, <3>1, <4>1
        DEF Delivered, Exit, Goto, TypeOK, CallType, Commands, Threads
      <4> QED
        BY <2>2, <4>2, <4>3 DEF Quits, Leaving, Calling
    <3>2. CASE ~Delivered(t)
      <4>1. msg' = msg
        BY <1>3, <3>2
      <4>2. CASE pc' = pc
        BY <4>1, <4>2 DEF Quits
      <4>3. CASE pc[t] \in Calling
        <5>1. pc'["main"] \in Calling \cup Leaving
          BY <1>4, <2>2, <3>2, <4>3 DEF TypeOK, CallType, Threads
        <5> QED
          BY <2>2, <4>1, <4>3, <5>1 DEF Quits, Leaving, Calling
      <4> QED
        BY <1>4, <2>2, <3>2, <4>2, <4>3 DEF Calling
    <3> QED
      BY <3>1, <3>2
  <2> QED
    BY <2>1, <2>2 DEF Threads
<1>6. /\ msg'["main"].type = "BYE" => msg["main"].type = "BYE"
      /\ msg'["listener"].type = "BYE" => msg["listener"].type = "BYE"
      /\ msg'["listener"].type \notin Commands
  BY <1>3 DEF QuitInv, TypeOK, CallType, NoMsg, Commands, Threads
<1> QED
  BY <1>1, <1>2, <1>5, <1>6, QuitKept

(* Ctrl-C: the main thread first, and never back. *)
LEMMA InterruptQuit ==
  ASSUME TypeOK, QuitInv, NEW t \in Threads, Interrupt(t)
  PROVE  QuitInv'
<1>1. /\ toServer' = toServer /\ masked' = masked \cup {t}
      /\ \/ /\ msg' = [msg EXCEPT ![t] = [type |-> "BYE", id |-> Id(index)]]
            /\ pc' = [pc EXCEPT ![t] = "resolve"]
         \/ msg' = msg /\ pc' = [pc EXCEPT ![t] = "hung"]
  BY DEF Interrupt, Begin, Goto, netVars
<1>2. CASE t = "main"
  BY <1>1, <1>2 DEF TypeOK, CallType, QuitInv, Quits, ByeSent, Calling, Threads
<1>3. CASE t = "listener"
  <2>1. "main" \in masked
    BY <1>3 DEF Interrupt, SigintTarget
  <2>2. pc'["main"] = pc["main"] /\ msg'["main"] = msg["main"]
    BY <1>1, <1>3 DEF TypeOK, CallType, Threads
  <2>3. Quits'
    BY <2>1, <2>2 DEF QuitInv, Quits
  <2>4. msg'["listener"].type \notin Commands
    BY <1>1, <1>3 DEF TypeOK, CallType, QuitInv, Commands, Threads
  <2> QED
    BY <1>1, <2>1, <2>3, <2>4 DEF QuitInv
<1> QED
  BY <1>2, <1>3 DEF Threads

(* The listener's own steps, with and without a message of the server. *)
LEMMA ListenerQuit ==
  ASSUME TypeOK, QuitInv,
         \/ ListenerStep
         \/ \E d \in toClient : NewPort(d) \/ Handle(d)
         \/ \E d \in SrvConfirms : HandleConfirm(d)
  PROVE  QuitInv'
<1>1. masked' = masked
  BY DEF ListenerStep, CreateSocket, Bind, WritePort, Grow, NewPort, Handle, HandleReply,
         HandleMsg, HandlePing, HandleErr, HandleBye, HandleMalformed, HandleConfirm, appVars
<1>2. ByeSent' => ByeSent
  <2>1. \/ toServer' = toServer
        \/ \E d \in toClient : SendConfirm(d.id)
    BY DEF ListenerStep, CreateSocket, Bind, WritePort, Grow, NewPort, Handle, HandleReply,
           HandleMsg, HandlePing, HandleErr, HandleBye, HandleMalformed, HandleConfirm, netVars
  <2> QED
    BY <2>1 DEF ByeSent, SendConfirm, ToPort
<1>3. \/ msg' = msg
      \/ msg' = [msg EXCEPT !["listener"] = [type |-> "ERR", id |-> Id(index)]]
  BY DEF ListenerStep, CreateSocket, Bind, WritePort, Grow, NewPort, Handle, HandleReply,
         HandleMsg, HandlePing, HandleErr, HandleBye, HandleMalformed, HandleConfirm, Begin,
         callVars
<1>4. pc' = pc \/ \E x \in Places : pc' = [pc EXCEPT !["listener"] = x]
  BY DEF ListenerStep, CreateSocket, Bind, WritePort, Grow, NextDatagram, NewPort, Handle,
         HandleReply, HandleMsg, HandlePing, HandleErr, HandleBye, HandleMalformed,
         HandleConfirm, Begin, Exit, Goto, Places, Leaving
<1>5. pc'["main"] = pc["main"] /\ msg'["main"] = msg["main"]
  BY <1>3, <1>4 DEF TypeOK, CallType, Threads
<1>6. /\ msg'["listener"].type = "BYE" => msg["listener"].type = "BYE"
      /\ msg'["listener"].type \notin Commands
  BY <1>3 DEF QuitInv, TypeOK, CallType, Commands, Threads
<1> QED
  BY <1>1, <1>2, <1>5, <1>6, QuitKept DEF Quits

(* Every step keeps QuitInv. *)
LEMMA QuitStep ==
  ASSUME TypeOK, QuitInv, [Next]_vars
  PROVE  QuitInv'
<1>1. CASE UNCHANGED vars \/ Done
  BY <1>1 DEF vars, appVars, callVars, netVars, Done, QuitInv, Quits, ByeSent
<1>2. CASE Server
  <2>1. UNCHANGED <<pc, msg, masked, toServer>>
    BY <1>2 DEF Server, SrvReply, SrvSend, ServerStep, appVars, callVars
  <2> QED
    BY <2>1 DEF QuitInv, Quits, ByeSent
<1> QED
  BY <1>1, <1>2, CommandQuit, SendQuit, InterruptQuit, ListenerQuit DEF Next

(* A command goes on the wire only from a main thread that has not quit. *)
LEMMA NoCommandLeavesQuitter ==
  ASSUME TypeOK, QuitInv, [Next]_vars, NEW m \in toServer' \ toServer, m.type \in Commands
  PROVE  ~Quits
<1>1. PICK t \in Threads : SendTo(t)
  <2>1. CASE UserStep \/ CommandStep \/ Server \/ UNCHANGED vars \/ Done
    BY <2>1
    DEF UserStep, Dispatch, Refuse, EndOfInput, CommandStep, BadArguments, Compose, Server,
        SrvReply, SrvSend, ServerStep, Done, vars, netVars
  <2>2. CASE \/ ListenerStep
             \/ \E d \in toClient : NewPort(d) \/ Handle(d)
             \/ \E d \in SrvConfirms : HandleConfirm(d)
    <3>1. \/ toServer' = toServer
          \/ \E d \in toClient : SendConfirm(d.id)
      BY <2>2
      DEF ListenerStep, CreateSocket, Bind, WritePort, Grow, NewPort, Handle, HandleReply,
          HandleMsg, HandlePing, HandleErr, HandleBye, HandleMalformed, HandleConfirm, netVars
    <3> QED
      BY <3>1 DEF SendConfirm, ToPort, Commands
  <2>3. ASSUME NEW t \in Threads, SendStep(t) \/ Interrupt(t), ~SendTo(t)
        PROVE  toServer' = toServer
    BY <2>3
    DEF SendStep, Resolve, LoadIndex, StoreIndex, SendFails, Wake, Delivered, GiveUp, Leave,
        Interrupt, netVars
  <2> QED
    BY <2>1, <2>2, <2>3 DEF Next
<1>2. m.type = msg[t].type /\ pc[t] = "send"
  BY <1>1 DEF SendTo, MaySend, At, ToPort
<1>3. t = "main"
  BY <1>2 DEF QuitInv, Threads
<1> QED
  BY <1>2, <1>3 DEF Quits, Calling, Commands

(* After BYE the UDP client puts no new command on the wire, although       *)
(* handle_sigint runs on top of a command in any state of its sending, and  *)
(* the listener may run it on top of that.                                  *)
THEOREM ByeIsTheLastCommand == Spec => NoCommandAfterBye
<1>1. Init => QuitInv
  BY DEF Init, QuitInv, Quits, ByeSent, NoMsg, Calling, Commands, Threads
<1>2. TypeOK /\ QuitInv /\ [Next]_vars => QuitInv'
  BY QuitStep
<1>3. TypeOK /\ QuitInv /\ [Next]_vars
        => [\A m \in toServer' \ toServer :
              m.type \in Commands => \A n \in toServer : n.type # "BYE"]_vars
  BY NoCommandLeavesQuitter DEF QuitInv, ByeSent
<1> QED
  BY <1>1, <1>2, <1>3, TypeInvariant, PTL DEF Spec, NoCommandAfterBye
=============================================================================

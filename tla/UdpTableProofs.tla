-------------------------- MODULE UdpTableProofs ---------------------------
(***************************************************************************)
(* Message IDs and the table of confirmed IDs (network_udp.c, id.c), for    *)
(* every size of the table and every number of commands and retransmissions.*)
(***************************************************************************)
EXTENDS UdpSessionProofs

Unsaved == {"resolve", "load", "store"}     \* the index is not yet incremented
Sending == {"send", "wait", "scan"}
SentCommands == {m \in toServer : m.type \in Commands}
SentByes == {m \in toServer : m.type = "BYE"}

(* What the threads send, if the listener never has to answer a malformed   *)
(* datagram: commands and BYE.                                              *)
CallInv ==
    /\ pc["main"] = "exec" => msg["main"].type \in Commands
    /\ pc["main"] \in Calling => msg["main"].type \in Commands \cup {"BYE"}
    /\ pc["listener"] \in Calling => msg["listener"].type = "BYE" /\ "listener" \in masked
    /\ "main" \notin masked => masked = {}
    /\ \A m \in ClientMessages : m.type \in Commands \cup {"BYE"}

(* As long as nobody interrupted the main thread, its message has the ID of *)
(* the index, before it increments it and after.                            *)
OwnId ==
    "main" \notin masked =>
       /\ pc["main"] \in {"resolve", "load"} => msg["main"].id = index
       /\ pc["main"] = "store" => reg["main"] = index /\ msg["main"].id = index
       /\ pc["main"] \in Sending => index = msg["main"].id + 1

(* Commands are below the index and below every BYE, sent or to be sent,    *)
(* whichever of the two threads' increments is lost.                        *)
CommandsBelow ==
    /\ \A m \in SentCommands : m.id < index
    /\ \A m \in SentCommands, t \in Threads :
         /\ pc[t] = "store" => m.id <= reg[t]
         /\ pc[t] \in Calling /\ msg[t].type = "BYE" => m.id < msg[t].id
         /\ pc[t] \in Sending /\ m.id = msg[t].id => m.type = msg[t].type
    /\ \A m \in SentCommands, n \in SentByes : m.id < n.id
    /\ \A m, n \in SentCommands : m.id = n.id => m.type = n.type

(* How far the index gets: the user's messages, then one BYE per thread. *)
Todo(t) == IF pc[t] \in Unsaved THEN 1 ELSE 0
Pending == Todo("main") + Todo("listener")
Limit == MaxIndex + 2 + (IF "listener" \in masked THEN 1 ELSE 0)
IndexBounded ==
    /\ "main" \notin masked =>
         /\ pc["main"] = "input" => index <= MaxIndex
         /\ pc["main"] = "exec" => index < MaxIndex
         /\ pc["main"] \in Calling /\ msg["main"].type \in Commands
              => msg["main"].id < MaxIndex
         /\ pc["main"] \in Calling => msg["main"].id <= MaxIndex
         /\ index <= MaxIndex + 1
    /\ "main" \in masked =>
         /\ index + Pending <= Limit
         /\ \A t \in Threads : pc[t] = "store" => reg[t] + Pending <= Limit

IdInv == CallInv /\ OwnId /\ CommandsBelow /\ IndexBounded

-----------------------------------------------------------------------------
(* The ID of a message is the index itself until the index outgrows it. *)
LEMMA IdIsIndex ==
  ASSUME NEW i \in Nat, i < IdSpace
  PROVE  Id(i) = i
  BY ConstantsAssumption DEF Id, ConstantsAssumption

(* A step of the listener's own, of the server or of the user alone: no     *)
(* message is sent, none is taken in hand.                                  *)
LEMMA IdFrame ==
  ASSUME TypeOK, IdInv,
         UNCHANGED <<index, masked, msg, reg>>,
         \/ pc' = pc
         \/ /\ pc["listener"] \notin Calling
            /\ \E x \in Places \ Calling : pc' = [pc EXCEPT !["listener"] = x],
         \A m \in toServer' : m.type # "CONFIRM" => m \in toServer
  PROVE  IdInv'
<1>1. pc'["main"] = pc["main"]
  BY DEF TypeOK, CallType, Threads
<1>2. pc'["listener"] = pc["listener"]
      \/ (pc["listener"] \notin Calling /\ pc'["listener"] \notin Calling)
  BY DEF TypeOK, CallType, Threads
<1>3. SentCommands' \subseteq SentCommands /\ SentByes' \subseteq SentByes
      /\ ClientMessages' \subseteq ClientMessages
  BY DEF SentCommands, SentByes, ClientMessages, Commands
<1>4. Todo("main")' = Todo("main") /\ Todo("listener")' = Todo("listener")
  BY <1>1, <1>2 DEF Todo, Unsaved, Calling
<1>5. CallInv' /\ OwnId'
  BY <1>1, <1>2, <1>3 DEF IdInv, CallInv, OwnId
<1>6. CommandsBelow'
  BY <1>1, <1>2, <1>3 DEF IdInv, CommandsBelow, Threads, Calling, Sending
<1>7. IndexBounded'
  BY <1>1, <1>2, <1>4 DEF IdInv, IndexBounded, Pending, Limit, Threads, Calling
<1> QED
  BY <1>5, <1>6, <1>7 DEF IdInv

(* The listener without malformed datagrams, and the server. *)
LEMMA ListenerIds ==
  ASSUME "MALFORMED" \notin ServerKinds, TypeOK, GrowHoldsConfirm, IdInv,
         \/ ListenerStep \/ Server
         \/ \E d \in toClient : NewPort(d) \/ Handle(d)
         \/ \E d \in SrvConfirms : HandleConfirm(d)
  PROVE  IdInv'
<1>1. ~\E d \in toClient : HandleMalformed(d)
  BY DEF HandleMalformed, Handling, TypeOK, NetType, FromServer, ServerTypes
<1>2. UNCHANGED <<index, masked, msg, reg>>
  BY <1>1
  DEF ListenerStep, CreateSocket, Bind, WritePort, Grow, NewPort, Handle, HandleReply,
      HandleMsg, HandlePing, HandleErr, HandleBye, HandleConfirm, Server, SrvReply, SrvSend,
      ServerStep, appVars, tableVars, callVars
<1>3. \/ pc' = pc
      \/ /\ pc["listener"] \notin Calling
         /\ \E x \in Places \ Calling : pc' = [pc EXCEPT !["listener"] = x]
  <2>1. pc' = pc \/ \E x \in Places \ Calling : pc' = [pc EXCEPT !["listener"] = x]
    BY <1>1
    DEF ListenerStep, CreateSocket, Bind, WritePort, Grow, NextDatagram, NewPort, Handle,
        HandleReply, HandleMsg, HandlePing, HandleErr, HandleBye, HandleConfirm, Server,
        SrvReply, SrvSend, ServerStep, Exit, Goto, Places, Leaving, Calling
  <2>2. pc["listener"] \notin Calling \/ pc' = pc
    BY DEF ListenerStep, CreateSocket, Bind, WritePort, Grow, NewPort, Handle, HandleReply,
           HandleMsg, HandlePing, HandleErr, HandleBye, HandleMalformed, HandleConfirm,
           Handling, Fetched, At, Calling, Server, SrvReply, SrvSend, ServerStep
  <2> QED
    BY <2>1, <2>2
<1>4. \A m \in toServer' : m.type # "CONFIRM" => m \in toServer
  BY <1>1
  DEF ListenerStep, CreateSocket, Bind, WritePort, Grow, NewPort, Handle, HandleReply,
      HandleMsg, HandlePing, HandleErr, HandleBye, HandleConfirm, SendConfirm, ToPort,
      Server, SrvReply, SrvSend, ServerStep, netVars
<1> QED
  BY <1>2, <1>3, <1>4, IdFrame

(* A main thread at its commands is not in the signal handler. *)
LEMMA UserIsUnmasked ==
  ASSUME QuitInv, CallInv, pc["main"] \in {"input", "exec"}
  PROVE  masked = {}
  BY DEF QuitInv, Quits, CallInv

(* A new message takes the index for its ID. *)
LEMMA BeginIds ==
  ASSUME TypeOK, QuitInv, IdInv, MaxIndex + 2 < IdSpace,
         NEW type \in Commands \cup {"BYE"}, Begin("main", type),
         pc["main"] \in {"input", "exec"}, type \in Commands => index < MaxIndex,
         UNCHANGED <<index, masked, reg, toServer>>
  PROVE  IdInv'
<1>1. masked = {}
  BY UserIsUnmasked DEF IdInv
<1>2. index <= MaxIndex /\ index \in Nat /\ MaxIndex \in Nat
  BY <1>1, ConstantsAssumption
  DEF IdInv, IndexBounded, TypeOK, TableType, ConstantsAssumption
<1>3. Id(index) = index
  BY <1>2, IdIsIndex, ConstantsAssumption DEF ConstantsAssumption
<1>4. /\ pc'["main"] = "resolve" /\ pc'["listener"] = pc["listener"]
      /\ msg'["main"] = [type |-> type, id |-> index] /\ msg'["listener"] = msg["listener"]
  BY <1>3 DEF Begin, Goto, TypeOK, CallType, Threads
<1>5. CallInv' /\ OwnId'
  BY <1>1, <1>4 DEF IdInv, CallInv, OwnId, ClientMessages, Calling, Sending
<1>6. CommandsBelow'
  BY <1>1, <1>4
  DEF IdInv, CallInv, CommandsBelow, SentCommands, SentByes, Calling, Sending, Threads
<1>7. IndexBounded'
  BY <1>1, <1>2, <1>4 DEF IndexBounded, Calling
<1> QED
  BY <1>5, <1>6, <1>7 DEF IdInv

(* The input loop and the commands. *)
LEMMA UserIds ==
  ASSUME TypeOK, QuitInv, IdInv, MaxIndex + 2 < IdSpace, UserStep \/ CommandStep
  PROVE  IdInv'
<1>1. ASSUME NEW c \in Commands, Dispatch(c) PROVE IdInv'
  <2>1. pc["main"] = "input" /\ index < MaxIndex /\ UNCHANGED <<index, masked, reg, toServer>>
    BY <1>1 DEF Dispatch, Typing, At, tableVars, netVars
  <2>2. masked = {}
    BY <2>1, UserIsUnmasked DEF IdInv
  <2>3. /\ pc'["main"] = "exec" /\ pc'["listener"] = pc["listener"]
        /\ msg'["main"].type = c /\ msg'["listener"] = msg["listener"]
    BY <1>1 DEF Dispatch, Goto, TypeOK, CallType, Threads
  <2>4. CallInv' /\ OwnId'
    BY <2>1, <2>2, <2>3 DEF IdInv, CallInv, OwnId, ClientMessages, Calling, Sending
  <2>5. CommandsBelow'
    BY <2>1, <2>3
    DEF IdInv, CommandsBelow, SentCommands, SentByes, Calling, Sending, Threads
  <2>6. IndexBounded'
    BY <2>1, <2>2, <2>3 DEF IdInv, IndexBounded, Calling
  <2> QED
    BY <2>4, <2>5, <2>6 DEF IdInv
<1>2. ASSUME NEW c \in Commands, Refuse(c) PROVE IdInv'
  BY <1>2, IdFrame DEF Refuse, tableVars, callVars, netVars
<1>3. CASE EndOfInput
  BY <1>3, BeginIds DEF EndOfInput, Typing, At, appVars, tableVars, netVars, Commands
<1>4. CASE BadArguments
  <2>1. pc["main"] = "exec" /\ UNCHANGED <<index, masked, toServer>>
    BY <1>4 DEF BadArguments, At, tableVars, netVars
  <2>2. masked = {}
    BY <2>1, UserIsUnmasked DEF IdInv
  <2>3. /\ pc'["main"] = "input" /\ pc'["listener"] = pc["listener"]
        /\ msg'["listener"] = msg["listener"] /\ reg'["listener"] = reg["listener"]
    BY <1>4 DEF BadArguments, ForgetCall, Goto, TypeOK, CallType, Threads
  <2>4. CallInv' /\ OwnId'
    BY <2>1, <2>2, <2>3 DEF IdInv, CallInv, OwnId, ClientMessages, Calling, Sending
  <2>5. CommandsBelow'
    BY <2>1, <2>3
    DEF IdInv, CommandsBelow, SentCommands, SentByes, Calling, Sending, Threads
  <2>6. IndexBounded'
    BY <2>1, <2>2, <2>3, ConstantsAssumption
    DEF IdInv, IndexBounded, Calling, TypeOK, TableType, ConstantsAssumption
  <2> QED
    BY <2>4, <2>5, <2>6 DEF IdInv
<1>5. CASE Compose
  <2>1. pc["main"] = "exec" /\ UNCHANGED <<index, masked, reg, toServer>>
    BY <1>5 DEF Compose, At, tableVars, netVars
  <2>2. masked = {}
    BY <2>1, UserIsUnmasked DEF IdInv
  <2>3. msg["main"].type \in Commands /\ index < MaxIndex
    BY <2>1, <2>2 DEF IdInv, CallInv, IndexBounded
  <2> QED
    BY <1>5, <2>1, <2>3, BeginIds DEF Compose
<1> QED
  BY <1>1, <1>2, <1>3, <1>4, <1>5 DEF UserStep, CommandStep

(* Who is in a call: the main thread, with a command only if nobody has     *)
(* interrupted it, or the listener with its BYE.                            *)
LEMMA CallerIds ==
  ASSUME TypeOK, QuitInv, CallInv, NEW t \in Threads, pc[t] \in Calling
  PROVE  /\ msg[t].type \in Commands \cup {"BYE"}
         /\ "main" \in masked => msg[t].type = "BYE"
         /\ t = "listener" => "main" \in masked /\ "listener" \in masked
         /\ "main" \notin masked => t = "main"
  BY DEF QuitInv, Quits, CallInv, Threads

(* The steps of a send that leave the index and the network alone. *)
LEMMA QuietSendIds ==
  ASSUME TypeOK, QuitInv, IdInv, NEW t \in Threads,
         pc[t] \in Calling \cup Leaving,
         UNCHANGED <<index, masked, msg, reg, toServer>>,
         NEW x \in Calling \cup Leaving \cup {"dead"},
         pc' = [pc EXCEPT ![t] = x],
         x \in Calling => /\ pc[t] \in Calling /\ x # "store"
                          /\ pc[t] \in Unsaved <=> x \in Unsaved
  PROVE  IdInv'
<1>1. pc'[t] = x /\ \A u \in Threads \ {t} : pc'[u] = pc[u]
  BY DEF TypeOK, CallType
<1>2. Todo("main")' <= Todo("main") /\ Todo("listener")' <= Todo("listener")
      /\ Todo("main")' \in {0, 1} /\ Todo("listener")' \in {0, 1}
      /\ Todo("main") \in {0, 1} /\ Todo("listener") \in {0, 1}
  BY <1>1 DEF Todo, Threads, Unsaved, Calling, Leaving
<1>3. CallInv'
  BY <1>1 DEF IdInv, CallInv, ClientMessages, Threads, Leaving, Calling
<1>4. OwnId'
  BY <1>1 DEF IdInv, OwnId, Threads, Leaving, Calling, Sending, Unsaved
<1>5. CommandsBelow'
  BY <1>1
  DEF IdInv, CommandsBelow, SentCommands, SentByes, Leaving, Calling, Sending, Unsaved
<1>6. IndexBounded'
  <2>1. CASE "main" \notin masked
    BY <1>1, <2>1 DEF IdInv, IndexBounded, Threads, Leaving, Calling
  <2>2. CASE "main" \in masked
    <3>1. Limit \in Int /\ index \in Nat /\ Limit' = Limit
      BY ConstantsAssumption DEF Limit, TypeOK, TableType, ConstantsAssumption
    <3>2. \A u \in Threads : pc'[u] = "store" => pc[u] = "store" /\ reg[u] \in Nat
      BY <1>1 DEF TypeOK, CallType, Leaving
    <3>3. Pending' <= Pending /\ Pending \in Int /\ Pending' \in Int
      BY <1>2 DEF Pending
    <3> QED
      BY <2>2, <3>1, <3>2, <3>3 DEF IdInv, IndexBounded
  <2> QED
    BY <2>1, <2>2
<1> QED
  BY <1>3, <1>4, <1>5, <1>6 DEF IdInv

(* Reading the index: what is read is above every command sent. *)
LEMMA LoadIds ==
  ASSUME TypeOK, QuitInv, IdInv, NEW t \in Threads, LoadIndex(t)
  PROVE  IdInv'
<1>1. /\ pc[t] = "load" /\ pc'[t] = "store" /\ reg'[t] = index
      /\ \A u \in Threads \ {t} : pc'[u] = pc[u] /\ reg'[u] = reg[u]
      /\ UNCHANGED <<index, masked, msg, toServer>>
  BY DEF LoadIndex, At, Goto, TypeOK, CallType, appVars, tableVars, netVars
<1>2. Todo("main")' = Todo("main") /\ Todo("listener")' = Todo("listener")
  BY <1>1 DEF Todo, Threads, Unsaved
<1>3. CallInv' /\ OwnId'
  BY <1>1 DEF IdInv, CallInv, OwnId, ClientMessages, Threads, Calling, Sending
<1>4. CommandsBelow'
  <2>1. \A m \in SentCommands : m.id < index /\ m.id \in Nat
    BY DEF IdInv, CommandsBelow, SentCommands, TypeOK, NetType, Ids, ServerIds
  <2> QED
    BY <1>1, <2>1
    DEF IdInv, CommandsBelow, SentCommands, SentByes, Calling, Sending, TypeOK, TableType
<1>5. IndexBounded'
  BY <1>1, <1>2 DEF IdInv, IndexBounded, Pending, Limit, Threads, Calling
<1> QED
  BY <1>3, <1>4, <1>5 DEF IdInv

(* Writing it: also when the other thread has written in between. *)
LEMMA StoreIds ==
  ASSUME TypeOK, QuitInv, IdInv, NEW t \in Threads, StoreIndex(t)
  PROVE  IdInv'
<1>1. /\ pc[t] = "store" /\ pc'[t] = "send" /\ index' = reg[t] + 1
      /\ \A u \in Threads \ {t} : pc'[u] = pc[u]
      /\ UNCHANGED <<masked, msg, reg, toServer>>
  BY DEF StoreIndex, Increment, At, Goto, TypeOK, CallType, appVars, netVars
<1>2. reg[t] \in Nat /\ index \in Nat /\ pc[t] \in Calling
  BY <1>1 DEF TypeOK, CallType, TableType, Calling
<1>3. CallInv' /\ OwnId'
  BY <1>1, <1>2, CallerIds
  DEF IdInv, CallInv, OwnId, ClientMessages, Threads, Calling, Sending
<1>4. CommandsBelow'
  <2>1. \A m \in SentCommands : m.id < index' /\ m.id \in Nat
    BY <1>1, <1>2 DEF IdInv, CommandsBelow, SentCommands, TypeOK, NetType, Ids, ServerIds
  <2>2. "main" \notin masked => msg[t].id = index /\ reg[t] = index
    BY <1>1, <1>2, CallerIds DEF IdInv, OwnId
  <2>3. \A m \in SentCommands : m.id # msg[t].id
    <3>1. CASE "main" \notin masked
      BY <2>2, <3>1, <1>2 DEF IdInv, CommandsBelow, SentCommands, TypeOK, NetType, Ids, ServerIds
    <3>2. CASE "main" \in masked
      <4>1. msg[t].type = "BYE"
        BY <3>2, <1>2, CallerIds DEF IdInv
      <4> QED
        BY <4>1, <1>2, <2>1 DEF IdInv, CommandsBelow, TypeOK, CallType, Ids
    <3> QED
      BY <3>1, <3>2
  <2> QED
    BY <1>1, <2>1, <2>3
    DEF IdInv, CommandsBelow, SentCommands, SentByes, Calling, Sending
<1>5. IndexBounded'
  <2>1. CASE "main" \notin masked
    <3>1. t = "main" /\ reg[t] = index /\ msg[t].id = index
      BY <1>1, <1>2, <2>1, CallerIds DEF IdInv, OwnId
    <3> QED
      BY <1>1, <1>2, <2>1, <3>1, ConstantsAssumption
      DEF IdInv, IndexBounded, Calling, ConstantsAssumption
  <2>2. CASE "main" \in masked
    <3>1. Pending' = Pending - 1 /\ Pending \in Nat /\ Pending' \in Nat
      BY <1>1 DEF Pending, Todo, Threads, Unsaved
    <3>2. Limit \in Nat /\ Limit' = Limit
      BY <1>1, ConstantsAssumption DEF Limit, ConstantsAssumption
    <3>3. index' + Pending' <= Limit
      BY <1>1, <1>2, <2>2, <3>1, <3>2 DEF IdInv, IndexBounded
    <3>4. \A u \in Threads : pc'[u] = "store" => pc[u] = "store" /\ reg'[u] = reg[u]
                                                  /\ reg[u] \in Nat
      BY <1>1 DEF TypeOK, CallType
    <3> QED
      BY <1>1, <2>2, <3>1, <3>2, <3>3, <3>4 DEF IdInv, IndexBounded
  <2> QED
    BY <2>1, <2>2
<1> QED
  BY <1>3, <1>4, <1>5 DEF IdInv

(* Sending: a command on the wire has an ID of its own. *)
LEMMA SendToIds ==
  ASSUME TypeOK, QuitInv, IdInv, NEW t \in Threads, SendTo(t)
  PROVE  IdInv'
<1>1. /\ pc[t] = "send" /\ pc'[t] = "wait"
      /\ \A u \in Threads \ {t} : pc'[u] = pc[u]
      /\ UNCHANGED <<index, masked, msg, reg>>
  BY DEF SendTo, MaySend, At, Goto, TypeOK, CallType, tableVars
<1>2. \A m \in toServer' : m \in toServer \/ (m.type = msg[t].type /\ m.id = msg[t].id)
  BY DEF SendTo, ToPort
<1>3. /\ msg[t].type \in Commands \cup {"BYE"}
      /\ msg[t].id \in Nat /\ index \in Nat
      /\ \A m \in SentCommands : m.id \in Nat
      /\ \A m \in SentByes : m.id \in Nat
  <2>1. msg[t].type \in Commands \cup {"BYE"}
    BY <1>1, CallerIds DEF IdInv, Calling
  <2>2. msg[t].id \in Nat /\ index \in Nat
    BY DEF TypeOK, CallType, TableType, Ids
  <2>3. \A m \in toServer : m.id \in Nat
    BY DEF TypeOK, NetType, Ids, ServerIds
  <2> QED
    BY <2>1, <2>2, <2>3 DEF SentCommands, SentByes
<1>4. Todo("main")' = Todo("main") /\ Todo("listener")' = Todo("listener")
  BY <1>1 DEF Todo, Threads, Unsaved
<1>5. CallInv' /\ OwnId'
  BY <1>1, <1>2, <1>3
  DEF IdInv, CallInv, OwnId, ClientMessages, Threads, Calling, Sending
<1>6. CommandsBelow'
  <2>1. CASE msg[t].type = "BYE"
    <3>1. SentCommands' \subseteq SentCommands
      BY <1>2, <2>1 DEF SentCommands, Commands
    <3>2. \A n \in SentByes' : n \in SentByes \/ n.id = msg[t].id
      BY <1>2 DEF SentByes
    <3>3. \A m \in SentCommands : m.id < msg[t].id
      BY <1>1, <2>1 DEF IdInv, CommandsBelow, Calling
    <3> QED
      BY <1>1, <3>1, <3>2, <3>3 DEF IdInv, CommandsBelow, Calling, Sending
  <2>2. CASE msg[t].type \in Commands
    <3>1. "main" \notin masked /\ t = "main" /\ ~Quits /\ ~ByeSent
      BY <1>1, <2>2, CallerIds DEF IdInv, QuitInv, Quits, Calling, Commands
    <3>2. SentByes' = {}
      BY <1>2, <2>2, <3>1 DEF SentByes, ByeSent, Commands
    <3>3. index = msg["main"].id + 1 /\ pc["listener"] \notin Calling
      BY <1>1, <3>1 DEF IdInv, OwnId, CallInv, Sending
    <3>4. \A m \in SentCommands' : m \in SentCommands
                                   \/ (m.type = msg[t].type /\ m.id = msg[t].id)
      BY <1>2 DEF SentCommands
    <3>5. msg["main"].type # "BYE"
      BY <2>2, <3>1 DEF Commands
    <3> QED
      BY <1>1, <1>3, <3>1, <3>2, <3>3, <3>4, <3>5
      DEF IdInv, CommandsBelow, Calling, Sending, Threads
  <2> QED
    BY <1>3, <2>1, <2>2
<1>7. IndexBounded'
  BY <1>1, <1>4 DEF IdInv, IndexBounded, Pending, Limit, Threads, Calling
<1> QED
  BY <1>5, <1>6, <1>7 DEF IdInv

(* A send that returns: to the input loop after a command, else to exit. *)
LEMMA DeliveredIds ==
  ASSUME TypeOK, QuitInv, IdInv, NEW t \in Threads, Delivered(t)
  PROVE  IdInv'
<1>1. /\ pc[t] = "scan" /\ msg' = [msg EXCEPT ![t] = NoMsg] /\ reg' = [reg EXCEPT ![t] = 0]
      /\ UNCHANGED <<index, masked, toServer>>
  BY DEF Delivered, At, ForgetCall, netVars
<1>2. /\ msg[t].type \in Commands \cup {"BYE"}
      /\ "main" \in masked => msg[t].type = "BYE"
      /\ t = "listener" => "main" \in masked
  BY <1>1, CallerIds DEF IdInv, Calling
<1>3. PICK x \in Leaving \cup {"input"} :
         pc' = [pc EXCEPT ![t] = x] /\ (x = "input" => msg[t].type \in Commands)
  BY <1>2 DEF Delivered, Exit, Goto, Leaving, Commands
<1>4. /\ pc'[t] = x /\ msg'[t] = NoMsg
      /\ \A u \in Threads \ {t} : pc'[u] = pc[u] /\ msg'[u] = msg[u] /\ reg'[u] = reg[u]
  BY <1>1, <1>3 DEF TypeOK, CallType
<1>5. x = "input" => "main" \notin masked /\ t = "main"
  BY <1>2, <1>3 DEF Threads, Commands
<1>6. Todo("main")' = Todo("main") /\ Todo("listener")' = Todo("listener")
  BY <1>1, <1>4 DEF Todo, Threads, Unsaved, Leaving
<1>7. CallInv' /\ OwnId'
  BY <1>1, <1>4
  DEF IdInv, CallInv, OwnId, ClientMessages, Threads, Calling, Sending, Leaving
<1>8. CommandsBelow'
  BY <1>1, <1>4
  DEF IdInv, CommandsBelow, SentCommands, SentByes, Calling, Sending, Leaving
<1>9. IndexBounded'
  <2>1. CASE "main" \notin masked
    <3>1. x = "input" => index <= MaxIndex
      BY <1>1, <1>3, <1>5, <2>1, ConstantsAssumption
      DEF IdInv, OwnId, IndexBounded, Calling, Sending, TypeOK, CallType, Ids,
          ConstantsAssumption
    <3> QED
      BY <1>1, <1>4, <1>5, <2>1, <3>1 DEF IdInv, IndexBounded, Threads, Calling, Leaving
  <2>2. CASE "main" \in masked
    BY <1>1, <1>4, <1>5, <1>6, <2>2 DEF IdInv, IndexBounded, Pending, Limit, Leaving
  <2> QED
    BY <2>1, <2>2
<1> QED
  BY <1>7, <1>8, <1>9 DEF IdInv

(* All steps of a send and of leaving the process. *)
LEMMA SendIds ==
  ASSUME TypeOK, QuitInv, IdInv, NEW t \in Threads, SendStep(t)
  PROVE  IdInv'
<1>1. CASE Resolve(t)
  <2>1. PICK x \in {"load", "failure"} : pc' = [pc EXCEPT ![t] = x]
    BY <1>1 DEF Resolve, Goto, Exit
  <2> QED
    BY <1>1, <2>1, QuietSendIds DEF Resolve, At, Unsaved, Calling, Leaving, netVars
<1>2. CASE SendFails(t) \/ Wake(t)
  <2>1. PICK x \in {"send", "scan"} : pc' = [pc EXCEPT ![t] = x]
    BY <1>2 DEF SendFails, Wake, Goto
  <2> QED
    BY <1>2, <2>1, QuietSendIds
    DEF SendFails, Wake, MaySend, At, Unsaved, Calling, Leaving, appVars, callVars,
        tableVars, netVars
<1>3. CASE GiveUp(t)
  BY <1>3, QuietSendIds DEF GiveUp, Exit, At, Goto, Unsaved, Calling, Leaving, callVars, netVars
<1>4. CASE Leave(t)
  <2>1. pc' = [pc EXCEPT ![t] = pc[t]] \/ pc' = [pc EXCEPT ![t] = "dead"]
    BY <1>4 DEF Leave, Goto, TypeOK, CallType
  <2>2. pc[t] \in Leaving /\ UNCHANGED <<index, masked, msg, reg, toServer>>
    BY <1>4 DEF Leave, tableVars, callVars, netVars
  <2> QED
    BY <2>1, <2>2, QuietSendIds DEF Unsaved, Calling, Leaving
<1> QED
  BY <1>1, <1>2, <1>3, <1>4, LoadIds, StoreIds, SendToIds, DeliveredIds DEF SendStep

(* Ctrl-C: the BYE gets the next ID, above all commands sent. *)
LEMMA InterruptIds ==
  ASSUME TypeOK, QuitInv, IdInv, MaxIndex + 2 < IdSpace, NEW t \in Threads, Interrupt(t)
  PROVE  IdInv'
<1>1. /\ masked' = masked \cup {t} /\ UNCHANGED <<index, reg, toServer>>
      /\ t = "listener" => "main" \in masked
      /\ t \notin masked
  BY DEF Interrupt, SigintTarget, tableVars, netVars
<1>2. index \in Nat /\ MaxIndex \in Nat /\ Limit \in Nat
  BY ConstantsAssumption DEF TypeOK, TableType, Limit, ConstantsAssumption
<1>3. t = "listener" => pc["listener"] \notin Calling
  BY <1>1 DEF IdInv, CallInv
<1>4. index <= MaxIndex + 2
  <2>1. Todo("main") \in Nat /\ Todo("listener") \in Nat
    BY DEF Todo
  <2> QED
    BY <1>1, <1>2, <2>1 DEF IdInv, CallInv, IndexBounded, Limit, Pending, Threads
<1>5. Id(index) = index
  BY <1>2, <1>4, IdIsIndex, ConstantsAssumption DEF ConstantsAssumption
<1>6. PICK x \in {"resolve", "hung"} :
        /\ pc'[t] = x /\ \A u \in Threads \ {t} : pc'[u] = pc[u] /\ msg'[u] = msg[u]
        /\ x = "resolve" => msg'[t] = [type |-> "BYE", id |-> index]
  BY <1>5 DEF Interrupt, Begin, Goto, TypeOK, CallType
<1>7. CallInv'
  BY <1>1, <1>6 DEF IdInv, CallInv, ClientMessages, Threads, Calling
<1>8. OwnId'
  BY <1>1 DEF IdInv, OwnId, CallInv, Threads
<1>9. CommandsBelow'
  BY <1>1, <1>6 DEF IdInv, CommandsBelow, SentCommands, SentByes, Calling, Sending
<1>10. IndexBounded'
  <2>1. "main" \in masked'
    BY <1>1 DEF Threads
  <2>2. CASE t = "main"
    <3>1. masked = {}
      BY <1>1, <2>2 DEF IdInv, CallInv
    <3>2. Limit' = MaxIndex + 2 /\ pc["listener"] \notin Calling
      BY <1>1, <1>2, <2>2, <3>1 DEF Limit, IdInv, CallInv, Calling
    <3>3. pc'["listener"] = pc["listener"] /\ pc'["main"] \in {"resolve", "hung"}
      BY <1>6, <2>2 DEF Threads
    <3>4. ~\E u \in Threads : pc'[u] = "store"
      BY <3>2, <3>3 DEF Calling, Threads
    <3>. PICK p \in {0, 1} : Pending' = p
      BY <3>2, <3>3 DEF Pending, Todo, Unsaved, Calling
    <3>5. index <= MaxIndex + 1
      BY <3>1 DEF IdInv, IndexBounded
    <3>6. index + p <= Limit'
      BY <1>2, <3>2, <3>5
    <3> QED
      BY <1>1, <2>1, <3>4, <3>6 DEF IndexBounded
  <2>3. CASE t = "listener"
    <3>1. Limit' = Limit + 1
      BY <1>1, <1>2, <2>3, ConstantsAssumption DEF Limit, ConstantsAssumption
    <3>2. pc'["main"] = pc["main"] /\ pc'["listener"] \in {"resolve", "hung"}
      BY <1>6, <2>3 DEF Threads
    <3>. PICK p \in {Pending, Pending + 1} : Pending' = p
      BY <1>3, <2>3, <3>2 DEF Pending, Todo, Unsaved, Calling
    <3>4. \A u \in Threads : pc'[u] = "store" => pc[u] = "store" /\ reg[u] \in Nat
      BY <3>2 DEF Threads, TypeOK, CallType
    <3>5. /\ "main" \in masked /\ index + Pending <= Limit
          /\ \A u \in Threads : pc[u] = "store" => reg[u] + Pending <= Limit
      BY <1>1, <2>3 DEF IdInv, IndexBounded
    <3>3. Pending \in Nat
      BY DEF Pending, Todo
    <3>6. index + p <= Limit'
      BY <1>2, <3>1, <3>3, <3>5
    <3>7. \A u \in Threads : pc'[u] = "store" => reg'[u] + Pending' <= Limit'
      BY <1>1, <1>2, <3>1, <3>3, <3>4, <3>5
    <3> QED
      BY <1>1, <2>1, <3>6, <3>7 DEF IndexBounded
  <2> QED
    BY <2>2, <2>3 DEF Threads
<1> QED
  BY <1>7, <1>8, <1>9, <1>10 DEF IdInv

(* Every step keeps IdInv. *)
LEMMA IdStep ==
  ASSUME "MALFORMED" \notin ServerKinds, MaxIndex + 2 < IdSpace,
         TypeOK, GrowHoldsConfirm, QuitInv, IdInv, [Next]_vars
  PROVE  IdInv'
<1>1. CASE UNCHANGED vars \/ Done
  BY <1>1, IdFrame DEF Done, vars, appVars, tableVars, callVars, netVars
<1> QED
  BY <1>1, UserIds, ListenerIds, SendIds, InterruptIds DEF Next

(* Before a command is sent for the first time, its ID is above those of    *)
(* all commands sent.                                                       *)
FreshId ==
    /\ pc["main"] = "wait" => launched["main"] > 0
    /\ "main" \notin masked /\ pc["main"] = "send" /\ launched["main"] = 0
         => \A m \in SentCommands : m.id < msg["main"].id

(* A step that does not lead the main thread to sendto or nanosleep.        *)
LEMMA FreshFrame ==
  ASSUME FreshId,
         pc'["main"] \in {"send", "wait"} =>
             /\ pc'["main"] = pc["main"]
             /\ msg'["main"] = msg["main"] /\ launched'["main"] = launched["main"],
         "main" \notin masked' => "main" \notin masked /\ SentCommands' \subseteq SentCommands
  PROVE  FreshId'
  BY DEF FreshId

(* The steps of the main thread's own send. *)
LEMMA FreshSend ==
  ASSUME TypeOK, QuitInv, IdInv, FreshId, SendStep("main")
  PROVE  FreshId'
<1>1. /\ pc \in [Threads -> Places] /\ launched \in [Threads -> Nat]
      /\ "main" \in Threads
  BY DEF TypeOK, CallType, Threads
<1>2. CASE Resolve("main") \/ LoadIndex("main") \/ Delivered("main") \/ GiveUp("main")
           \/ Leave("main")
  <2>1. pc'["main"] \notin {"send", "wait"} \/ msg["main"].type = "ERR"
    BY <1>1, <1>2
    DEF Resolve, LoadIndex, Delivered, GiveUp, Leave, Exit, Goto, Leaving
  <2>2. pc["main"] \in Calling => msg["main"].type # "ERR"
    BY DEF IdInv, CallInv, Commands
  <2>3. pc'["main"] \notin {"send", "wait"}
    BY <1>1, <1>2, <2>1, <2>2
    DEF Resolve, LoadIndex, Delivered, GiveUp, Leave, Exit, Goto, Leaving, At, Calling
  <2> QED
    BY <2>3 DEF FreshId
<1>3. CASE StoreIndex("main")
  <2>1. /\ pc["main"] = "store" /\ pc'["main"] = "send"
        /\ UNCHANGED <<msg, masked, toServer>>
    BY <1>1, <1>3 DEF StoreIndex, At, Goto, appVars, netVars
  <2>2. "main" \notin masked => msg["main"].id = index
    BY <2>1 DEF IdInv, OwnId
  <2>3. \A m \in SentCommands : m.id < index
    BY DEF IdInv, CommandsBelow
  <2> QED
    BY <2>1, <2>2, <2>3 DEF FreshId, SentCommands
<1>4. CASE SendTo("main")
  <2>1. pc'["main"] = "wait" /\ launched'["main"] = launched["main"] + 1
        /\ launched["main"] \in Nat
    BY <1>1, <1>4 DEF SendTo, Goto
  <2> QED
    BY <2>1 DEF FreshId
<1>5. CASE SendFails("main")
  <2>1. /\ pc["main"] = "send" /\ pc'["main"] \in {"send", "scan"}
        /\ UNCHANGED <<msg, launched, masked, toServer>>
    BY <1>1, <1>5 DEF SendFails, MaySend, At, Goto, appVars, netVars
  <2> QED
    BY <2>1, FreshFrame DEF SentCommands
<1>6. CASE Wake("main")
  <2>1. /\ pc["main"] = "wait" /\ pc'["main"] \in {"send", "scan"}
        /\ UNCHANGED launched
    BY <1>1, <1>6 DEF Wake, At, Goto, callVars
  <2>2. launched'["main"] > 0
    BY <2>1 DEF FreshId
  <2> QED
    BY <1>1, <2>1, <2>2 DEF FreshId
<1> QED
  BY <1>2, <1>3, <1>4, <1>5, <1>6 DEF SendStep

(* Every step keeps the IDs of new commands fresh. *)
LEMMA FreshStep ==
  ASSUME "MALFORMED" \notin ServerKinds, TypeOK, QuitInv, IdInv, FreshId, [Next]_vars
  PROVE  FreshId'
<1>1. pc \in [Threads -> Places] /\ "main" \in Threads /\ "listener" \in Threads
      /\ msg \in [Threads -> [type : OwnTypes, id : Ids]]
      /\ launched \in [Threads -> Nat]
  BY DEF TypeOK, CallType, Threads
<1>2. CASE UserStep \/ CommandStep \/ Server
  <2>1. /\ UNCHANGED <<masked, toServer>>
        /\ pc'["main"] \in {"send", "wait"} => pc' = pc /\ UNCHANGED callVars
    BY <1>1, <1>2
    DEF UserStep, CommandStep, Server, Dispatch, Refuse, EndOfInput, BadArguments, Compose,
        Begin, Goto, SrvReply, SrvSend, ServerStep, appVars, netVars
  <2> QED
    BY <2>1, FreshFrame DEF callVars, SentCommands
<1>3. CASE ListenerStep \/ (\E d \in toClient : NewPort(d) \/ Handle(d))
           \/ (\E d \in SrvConfirms : HandleConfirm(d))
  <2>1. ~\E d \in toClient : HandleMalformed(d)
    BY DEF HandleMalformed, Handling, TypeOK, NetType, FromServer, ServerTypes
  <2>2. /\ UNCHANGED <<callVars, masked>> /\ pc'["main"] = pc["main"]
    BY <1>1, <1>3, <2>1
    DEF ListenerStep, CreateSocket, Bind, WritePort, Grow, NextDatagram, NewPort, Handle,
        HandleReply, HandleMsg, HandlePing, HandleErr, HandleBye, HandleConfirm, Exit, Goto,
        appVars
  <2>3. \A m \in toServer' : m.type # "CONFIRM" => m \in toServer
    BY <1>3, <2>1
    DEF ListenerStep, CreateSocket, Bind, WritePort, Grow, NewPort, Handle, HandleReply,
        HandleMsg, HandlePing, HandleErr, HandleBye, HandleConfirm, SendConfirm, ToPort, netVars
  <2> QED
    BY <2>2, <2>3, FreshFrame DEF callVars, SentCommands, Commands
<1>4. CASE SendStep("main")
  BY <1>4, FreshSend
<1>5. CASE SendStep("listener")
  <2>1. /\ pc'["main"] = pc["main"] /\ msg'["main"] = msg["main"]
        /\ launched'["main"] = launched["main"] /\ UNCHANGED masked
    BY <1>1, <1>5
    DEF SendStep, Resolve, LoadIndex, StoreIndex, SendTo, SendFails, Wake, Delivered, ForgetCall,
        GiveUp, Leave, Exit, Goto, appVars, callVars
  <2>2. "main" \notin masked => UNCHANGED toServer
    <3>1. "main" \notin masked => pc["listener"] \notin Calling
      BY <1>1, CallerIds DEF IdInv
    <3> QED
      BY <1>5, <3>1
      DEF SendStep, Resolve, LoadIndex, StoreIndex, SendTo, MaySend, SendFails, Wake,
          Delivered, GiveUp, Leave, At, Calling, netVars
  <2> QED
    BY <2>1, <2>2, FreshFrame DEF SentCommands
<1>6. ASSUME NEW t \in Threads, Interrupt(t) PROVE FreshId'
  <2>1. "main" \in masked'
    BY <1>6 DEF Interrupt, SigintTarget
  <2>2. /\ t = "main" => pc'["main"] \in {"resolve", "hung"}
        /\ t = "listener" => pc'["main"] = pc["main"] /\ msg'["main"] = msg["main"]
        /\ UNCHANGED launched
    BY <1>1, <1>6 DEF Interrupt, Begin, Goto
  <2> QED
    BY <2>1, <2>2, FreshFrame DEF Threads
<1>7. CASE Done \/ UNCHANGED vars
  BY <1>7, FreshFrame DEF Done, vars, appVars, callVars, netVars, SentCommands
<1> QED
  BY <1>2, <1>3, <1>4, <1>5, <1>6, <1>7 DEF Next, Threads

(* Only sendto counts a datagram. *)
LEMMA NewIsSent ==
  ASSUME TypeOK, [Next]_vars, NEW t \in Threads, SendsNew(t)
  PROVE  SendTo(t)
<1>1. launched[t] = 0 /\ launched'[t] = 1 /\ launched \in [Threads -> Nat]
  BY DEF SendsNew, TypeOK, CallType
<1>2. ASSUME NEW u \in Threads, SendStep(u) PROVE SendTo(t)
  <2>1. CASE SendTo(u)
    <3>1. launched' = [launched EXCEPT ![u] = @ + 1]
      BY <2>1 DEF SendTo
    <3>2. u = t
      BY <1>1, <3>1
    <3> QED
      BY <2>1, <3>2
  <2>2. CASE ~SendTo(u)
    <3>1. launched' = launched \/ launched' = [launched EXCEPT ![u] = 0]
      BY <1>2, <2>2
      DEF SendStep, Resolve, LoadIndex, StoreIndex, SendFails, Wake, Delivered, ForgetCall,
          GiveUp, Leave, callVars
    <3> QED
      BY <1>1, <3>1
  <2> QED
    BY <2>1, <2>2
<1>3. CASE \/ UserStep \/ CommandStep \/ Server \/ Done \/ UNCHANGED vars
           \/ \E u \in Threads : Interrupt(u)
  <2>1. launched' = launched \/ launched' = [launched EXCEPT !["main"] = 0]
    BY <1>3
    DEF UserStep, CommandStep, Server, Dispatch, Refuse, EndOfInput, BadArguments, ForgetCall,
        Compose, SrvReply, SrvSend, ServerStep, Done, vars, callVars, Interrupt
  <2> QED
    BY <1>1, <2>1
<1>4. CASE ListenerStep \/ (\E d \in toClient : NewPort(d) \/ Handle(d))
           \/ (\E d \in SrvConfirms : HandleConfirm(d))
  <2>1. launched' = launched
    BY <1>4
    DEF ListenerStep, CreateSocket, Bind, WritePort, Grow, NewPort, Handle, HandleReply,
        HandleMsg, HandlePing, HandleErr, HandleBye, HandleMalformed, HandleConfirm, callVars
  <2> QED
    BY <1>1, <2>1
<1> QED
  BY <1>2, <1>3, <1>4 DEF Next

(* A new message has an ID that none on the wire has, a BYE after another   *)
(* one excepted.                                                            *)
LEMMA NewIdIsUnused ==
  ASSUME TypeOK, QuitInv, IdInv, FreshId, NEW t \in Threads, SendTo(t), launched[t] = 0,
         NEW m \in ClientMessages, m.id = msg[t].id
  PROVE  m.type = "BYE" /\ msg[t].type = "BYE"
<1>1. pc[t] = "send" /\ pc[t] \in Calling
  BY DEF SendTo, MaySend, At, Calling
<1>2. /\ m.id \in Nat /\ m \in toServer
      /\ m.type \in Commands \cup {"BYE"}
  BY DEF IdInv, CallInv, ClientMessages, TypeOK, NetType, Ids, ServerIds
<1>3. CASE msg[t].type = "BYE"
  <2>1. m \notin SentCommands
    BY <1>1, <1>2, <1>3 DEF IdInv, CommandsBelow
  <2> QED
    BY <1>2, <1>3, <2>1 DEF SentCommands
<1>4. CASE msg[t].type \in Commands
  <2>1. "main" \notin masked /\ t = "main" /\ ~ByeSent
    BY <1>1, <1>4, CallerIds DEF IdInv, QuitInv, Quits, Calling, Commands
  <2>2. m \in SentCommands
    BY <1>2, <2>1 DEF ByeSent, SentCommands
  <2> QED
    BY <1>1, <1>2, <2>1, <2>2 DEF FreshId
<1> QED
  BY <1>1, <1>3, <1>4, CallerIds DEF IdInv

(* It holds at the start: nothing is sent, the index is 0. *)
LEMMA InitIds == Init => IdInv
<1> SUFFICES ASSUME Init PROVE IdInv
  OBVIOUS
<1>1. CallInv /\ OwnId /\ CommandsBelow
  BY DEF Init, CallInv, OwnId, CommandsBelow, SentCommands, SentByes, ClientMessages,
         Calling, Sending, Threads
<1>2. IndexBounded
  BY ConstantsAssumption
  DEF Init, IndexBounded, Calling, Threads, ConstantsAssumption
<1> QED
  BY <1>1, <1>2 DEF IdInv

(* No message takes the ID of another one, of whatever type, although the   *)
(* index is shared and its increment not atomic, wherever Ctrl-C interrupts *)
(* the two threads; BYEs of both threads may be one datagram.  The 16 bits  *)
(* suffice for the messages, and no malformed datagram makes the listener   *)
(* send an ERR, which may share an ID.                                      *)
THEOREM MessageIdsAreUnique ==
  ASSUME "MALFORMED" \notin ServerKinds, MaxIndex + 2 < IdSpace
  PROVE  Spec => IdsUnique
<1>1. Init => QuitInv /\ FreshId
  BY DEF Init, QuitInv, Quits, ByeSent, NoMsg, Calling, Commands, Threads, FreshId
<1>2. TypeOK /\ GrowHoldsConfirm /\ QuitInv /\ IdInv /\ FreshId /\ [Next]_vars
        => QuitInv' /\ IdInv' /\ FreshId'
  BY QuitStep, IdStep, FreshStep
<1>3. TypeOK /\ QuitInv /\ IdInv /\ FreshId /\ [Next]_vars
        => [\A t \in Threads, m \in ClientMessages :
              SendsNew(t) /\ m.id = msg[t].id => m.type = "BYE" /\ msg[t].type = "BYE"]_vars
  <2> SUFFICES ASSUME TypeOK, QuitInv, IdInv, FreshId, [Next]_vars,
                      NEW t \in Threads, NEW m \in ClientMessages,
                      SendsNew(t), m.id = msg[t].id
               PROVE  m.type = "BYE" /\ msg[t].type = "BYE"
    OBVIOUS
  <2> QED
    BY NewIsSent, NewIdIsUnused DEF SendsNew
<1> QED
  BY <1>1, <1>2, <1>3, InitIds, TypeInvariant, PTL DEF Spec, IdsUnique

-----------------------------------------------------------------------------
(* From here on nothing disturbs the main thread, which alone sends         *)
(* messages: no malformed datagram, and no Ctrl-C yet.                      *)
Regular == "MALFORMED" \notin ServerKinds /\ MaxIndex + 2 < IdSpace

(* The places of the main thread before its message counts, see Sending.    *)
Between == {"input", "exec"} \cup Unsaved

MainAlone ==
    /\ masked = {}
    /\ pc["main"] \in Between \cup Sending \cup Leaving
    /\ pc["main"] \in Leaving => heap = "freed"
    /\ heap = "moving" => pc["listener"] = "grow"
    /\ \A m \in ClientMessages : m.id < index

(* What realloc is called for: the CONFIRM of the message being sent, the   *)
(* last one there is room for.                                              *)
Growing ==
    pc["listener"] = "grow" =>
       /\ heap = "moving" /\ pc["main"] \in Sending
       /\ rcv.id = index - 1 /\ index = size /\ index - 1 \notin acked

(* Between two messages every one is acknowledged, while one is sent all    *)
(* before it; the table says so: the entry of an acknowledged message holds *)
(* its ID, every other entry nothing.  There is room for one message more.  *)
Acknowledged ==
    /\ pc["main"] \in Between =>
         index < size /\ \A j \in Ids : j < index => j \in acked
    /\ pc["main"] \in Sending =>
         /\ 1 <= index /\ index <= size
         /\ \A j \in Ids : j < index - 1 => j \in acked
         /\ heap # "freed" /\ index - 1 \in acked => index < size
Entries ==
    heap # "freed" =>
       /\ \A j \in acked : j < index /\ confirmed[j] = j
       /\ \A i \in 0 .. size - 1 : i \notin acked => confirmed[i] = Sentinel

TableInv ==
    /\ MainAlone
    /\ ~torn => Growing /\ Acknowledged /\ Entries /\ StopAndWait

-----------------------------------------------------------------------------
(* Who can be in a call: the main thread. *)
LEMMA OnlyMain ==
  ASSUME IdInv, MainAlone, NEW t \in Threads, pc[t] \in Calling
  PROVE  t = "main"
  BY DEF IdInv, CallInv, MainAlone, Threads

(* A step that leaves the table, the index and the main thread's place      *)
(* alone, or only frees the table.                                          *)
LEMMA TableFrame ==
  ASSUME TypeOK, TableInv,
         UNCHANGED <<masked, index, size, confirmed, acked, torn>>,
         \/ pc' = pc
         \/ /\ pc["listener"] # "grow"
            /\ \E x \in Places \ {"grow"} : pc' = [pc EXCEPT !["listener"] = x]
         \/ /\ pc["main"] \in Between
            /\ \E x \in Between : pc' = [pc EXCEPT !["main"] = x],
         pc["listener"] = "grow" => heap' = heap /\ rcv' = rcv,
         heap' = heap \/ heap' = "freed",
         \A m \in toServer' : m.type # "CONFIRM" => m \in toServer
  PROVE  TableInv'
<1>1. ClientMessages' \subseteq ClientMessages
  BY DEF ClientMessages
<1>2. \/ pc'["main"] = pc["main"]
      \/ pc["main"] \in Between /\ pc'["main"] \in Between
  BY DEF TypeOK, CallType, Threads
<1>3. (pc'["listener"] = "grow" <=> pc["listener"] = "grow")
  BY DEF TypeOK, CallType, Threads
<1>4. MainAlone'
  BY <1>1, <1>2, <1>3 DEF TableInv, MainAlone, Between, Unsaved, Leaving
<1>5. ~torn => Growing'
  <2>1. Growing /\ pc["listener"] = "grow" => pc'["main"] \in Sending
    BY <1>2 DEF Growing, Sending, Between, Unsaved
  <2> QED
    BY <1>3, <2>1 DEF TableInv, Growing
<1>6. ~torn => Acknowledged' /\ Entries'
  BY <1>2 DEF TableInv, Acknowledged, Entries, Between, Unsaved, Sending
<1>7. ~torn => StopAndWait'
  BY <1>1 DEF TableInv, StopAndWait
<1> QED
  BY <1>4, <1>5, <1>6, <1>7 DEF TableInv

(* The input loop, the commands, the server. *)
LEMMA UserTable ==
  ASSUME TypeOK, TableInv, UserStep \/ CommandStep \/ Server
  PROVE  TableInv'
<1>1. /\ UNCHANGED <<masked, index, size, confirmed, acked, torn, heap, rcv, toServer>>
      /\ \/ pc' = pc
         \/ pc["main"] \in Between /\ \E x \in Between : pc' = [pc EXCEPT !["main"] = x]
  BY DEF UserStep, CommandStep, Server, Dispatch, Refuse, EndOfInput, BadArguments, Compose,
         Typing, At, Begin, Goto, SrvReply, SrvSend, ServerStep, Between, Unsaved, appVars,
         tableVars, callVars, netVars, logVars
<1> QED
  BY <1>1, TableFrame

(* The listener, but for CONFIRMs and what they lead to. *)
LEMMA ListenerTable ==
  ASSUME Regular, TypeOK, TableInv,
         \/ CreateSocket \/ Bind \/ WritePort
         \/ \E d \in toClient : NewPort(d) \/ Handle(d)
  PROVE  TableInv'
<1>1. ~\E d \in toClient : HandleMalformed(d)
  BY DEF Regular, HandleMalformed, Handling, TypeOK, NetType, FromServer, ServerTypes
<1>2. UNCHANGED <<masked, index, size, confirmed, acked, torn>>
      /\ (heap' = heap \/ heap' = "freed")
  BY <1>1
  DEF CreateSocket, Bind, WritePort, NewPort, Handle, HandleReply, HandleMsg, HandlePing,
      HandleErr, HandleBye, Exit, appVars, tableVars, logVars
<1>3. pc["listener"] # "grow"
  BY DEF CreateSocket, Bind, WritePort, NewPort, Handle, HandleReply, HandleMsg, HandlePing,
         HandleErr, HandleBye, HandleMalformed, Handling, Fetched, At
<1>4. pc' = pc \/ \E x \in Places \ {"grow"} : pc' = [pc EXCEPT !["listener"] = x]
  BY <1>1
  DEF CreateSocket, Bind, WritePort, NewPort, Handle, HandleReply, HandleMsg, HandlePing,
      HandleErr, HandleBye, Exit, Goto, Places, Leaving
<1>5. \A m \in toServer' : m.type # "CONFIRM" => m \in toServer
  BY <1>1
  DEF CreateSocket, Bind, WritePort, NewPort, Handle, HandleReply, HandleMsg, HandlePing,
      HandleErr, HandleBye, SendConfirm, ToPort, netVars
<1> QED
  BY <1>2, <1>3, <1>4, <1>5, TableFrame

(* A CONFIRM that is not in the table yet is the one of the message being   *)
(* sent, and goes into its slot.                                            *)
LEMMA ConfirmTable ==
  ASSUME Regular, TypeOK, IdInv, TableInv, NEW d \in SrvConfirms, HandleConfirm(d)
  PROVE  TableInv'
<1>1. /\ d.id \in Ids /\ d.id < index /\ index \in Nat /\ size \in Nat
      /\ Ids \subseteq Nat /\ acked \subseteq Ids
      /\ confirmed \in [0 .. size - 1 -> Ids]
  BY DEF SrvConfirms, Datagram, ClientMessages, TableInv, MainAlone, TypeOK, TableType,
         NetType, LogType, Ids, ServerIds
<1>2. pc["listener"] = "recv"
      /\ UNCHANGED <<masked, index, size, torn, toServer>>
  BY DEF HandleConfirm, At, netVars
<1>3. CASE UNCHANGED <<rcv, pc, confirmed, heap, acked>>
  BY <1>2, <1>3, TableFrame
<1>4. CASE torn
  <2>1. /\ \/ heap' = heap /\ pc' = pc
           \/ heap # "freed" /\ heap' = "moving" /\ pc'["listener"] = "grow"
        /\ pc'["main"] = pc["main"]
    BY DEF HandleConfirm, Goto, TypeOK, CallType, Threads
  <2> QED
    BY <1>2, <1>4, <2>1 DEF TableInv, MainAlone, ClientMessages
<1>5. CASE ~torn /\ ~UNCHANGED <<rcv, pc, confirmed, heap, acked>>
  <2>1. PICK found \in ScanOutcomes(d.id) :
          /\ ~found /\ heap # "freed"
          /\ \/ /\ TableFull
                /\ heap' = "moving" /\ rcv' = d /\ Goto("listener", "grow")
                /\ UNCHANGED <<confirmed, acked>>
             \/ /\ ~TableFull
                /\ confirmed' = Write(confirmed, index, d.id) /\ acked' = acked \cup {d.id}
                /\ UNCHANGED <<rcv, pc, heap>>
    BY <1>5 DEF HandleConfirm, AlreadyConfirmed
  <2>2. heap = "live" /\ pc["main"] \in Between \cup Sending
    BY <1>2, <2>1 DEF TableInv, MainAlone, TypeOK, TableType
  <2>3. index <= size
    BY <1>1, <1>5, <2>2 DEF TableInv, Acknowledged
  <2>4. ~Recorded(d.id)
    BY <1>1, <2>1, <2>2, <2>3 DEF ScanOutcomes
  <2>5. d.id \notin acked
    <3>1. SUFFICES ASSUME d.id \in acked PROVE Recorded(d.id)
      BY <2>4
    <3>2. confirmed[d.id] = d.id /\ d.id \in 0 .. size - 1
      <4>1. d.id < index /\ confirmed[d.id] = d.id
        BY <1>5, <2>2, <3>1 DEF TableInv, Entries
      <4>2. d.id \in Nat
        BY <1>1
      <4> QED
        BY <1>1, <2>3, <4>1, <4>2
    <3> QED
      BY <1>1, <3>2 DEF Recorded
  <2>6. pc["main"] \in Sending /\ d.id = index - 1
    <3>1. pc["main"] \notin Between
      BY <1>1, <1>5, <2>5 DEF TableInv, Acknowledged
    <3>2. pc["main"] \in Sending /\ ~(d.id < index - 1)
      BY <1>1, <1>5, <2>2, <2>5, <3>1 DEF TableInv, Acknowledged
    <3>3. d.id \in Nat
      BY <1>1
    <3> QED
      BY <1>1, <3>2, <3>3
  <2>7. CASE TableFull
    <3>1. /\ pc'["listener"] = "grow" /\ pc'["main"] = pc["main"]
          /\ heap' = "moving" /\ rcv'.id = index - 1 /\ index = size
          /\ UNCHANGED <<confirmed, acked>>
      BY <1>1, <2>1, <2>3, <2>6, <2>7 DEF TableFull, Goto, TypeOK, CallType, Threads
    <3>2. MainAlone'
      BY <1>2, <2>1, <3>1 DEF TableInv, MainAlone, ClientMessages
    <3>3. Growing'
      BY <1>2, <2>5, <2>6, <3>1 DEF Growing
    <3>4. Acknowledged' /\ Entries' /\ StopAndWait'
      BY <1>2, <1>5, <2>1, <3>1
      DEF TableInv, Acknowledged, Entries, StopAndWait, ClientMessages
    <3> QED
      BY <3>2, <3>3, <3>4 DEF TableInv
  <2>8. CASE ~TableFull
    <3>1. /\ confirmed' = [confirmed EXCEPT ![index - 1] = index - 1]
          /\ acked' = acked \cup {index - 1} /\ index < size
          /\ UNCHANGED <<pc, heap>>
      BY <1>1, <2>1, <2>6, <2>8 DEF TableFull, Write
    <3>2. MainAlone'
      BY <1>2, <3>1 DEF TableInv, MainAlone, ClientMessages
    <3>3. Growing' /\ StopAndWait'
      BY <1>2, <1>5, <3>1 DEF Growing, TableInv, StopAndWait, ClientMessages
    <3>4. Acknowledged'
      BY <1>1, <1>2, <1>5, <2>1, <2>6, <3>1
      DEF TableInv, Acknowledged, Sending, Between, Unsaved
    <3>5. Entries'
      <4>1. index - 1 \in 0 .. size - 1
        BY <1>1, <2>6, <3>1
      <4>2. /\ \A j \in acked : j < index /\ j \in 0 .. size - 1 /\ confirmed[j] = j
            /\ \A i \in 0 .. size - 1 : i \notin acked => confirmed[i] = Sentinel
        BY <1>1, <1>5, <2>1, <2>3 DEF TableInv, Entries
      <4> QED
        BY <1>1, <1>2, <3>1, <4>1, <4>2 DEF Entries
    <3> QED
      BY <3>2, <3>3, <3>4, <3>5 DEF TableInv
  <2> QED
    BY <2>7, <2>8
<1> QED
  BY <1>3, <1>4, <1>5

(* The doubled table has the old entries, the new one, and free slots. *)
LEMMA GrowTable ==
  ASSUME TypeOK, TableInv, Grow
  PROVE  TableInv'
<1>1. /\ pc["listener"] = "grow" /\ pc'["listener"] = "recv" /\ pc'["main"] = pc["main"]
      /\ UNCHANGED <<masked, index, torn, toServer>> /\ size' = 2 * size
      /\ acked' = acked \cup {rcv.id}
      /\ heap' = IF heap = "freed" THEN "freed" ELSE "live"
  BY DEF Grow, NextDatagram, Goto, At, netVars, TypeOK, CallType, Threads
<1>2. MainAlone'
  BY <1>1 DEF TableInv, MainAlone, ClientMessages
<1>3. ASSUME ~torn PROVE Growing' /\ Acknowledged' /\ Entries' /\ StopAndWait'
  <2>1. /\ heap = "moving" /\ pc["main"] \in Sending
        /\ rcv.id = index - 1 /\ index = size /\ index - 1 \notin acked
        /\ index \in Nat \ {0} /\ acked \subseteq Ids /\ Ids \subseteq Nat
        /\ 2 * size \in Nat /\ index < 2 * size
    BY <1>1, <1>3 DEF TableInv, Growing, TypeOK, TableType, LogType, Ids
  <2>2. PICK junk \in Ids :
          confirmed' = [[i \in 0 .. 2 * size - 1 |-> IF i < size THEN confirmed[i]
                                                     ELSE IF i < index THEN junk
                                                     ELSE Sentinel]
                          EXCEPT ![index - 1] = index - 1]
    BY <2>1 DEF Grow, Write
  <2>3. /\ confirmed'[index - 1] = index - 1
        /\ \A i \in 0 .. size - 1 : i # index - 1 => confirmed'[i] = confirmed[i]
        /\ \A i \in 0 .. 2 * size - 1 : i >= size => confirmed'[i] = Sentinel
    BY <2>1, <2>2
  <2>4. Growing' /\ StopAndWait'
    BY <1>1, <1>3 DEF Growing, TableInv, StopAndWait, ClientMessages
  <2>5. Acknowledged'
    BY <1>1, <1>3, <2>1 DEF TableInv, Acknowledged, Sending, Between, Unsaved
  <2>6. Entries'
    <3>1. /\ \A j \in acked : j < index /\ j \in 0 .. size - 1 /\ confirmed[j] = j
          /\ \A i \in 0 .. size - 1 : i \notin acked => confirmed[i] = Sentinel
      BY <1>3, <2>1 DEF TableInv, Entries
    <3>2. \A j \in acked' : j < index /\ confirmed'[j] = j
      BY <1>1, <2>1, <2>3, <3>1
    <3>3. \A i \in 0 .. size' - 1 : i \notin acked' => confirmed'[i] = Sentinel
      BY <1>1, <2>1, <2>3, <3>1
    <3> QED
      BY <1>1, <3>2, <3>3 DEF Entries
  <2> QED
    BY <2>4, <2>5, <2>6
<1> QED
  BY <1>1, <1>2, <1>3 DEF TableInv

(* The increment of the index: the next slot is free, and there is one. *)
LEMMA StoreTable ==
  ASSUME TypeOK, IdInv, TableInv, NEW t \in Threads, StoreIndex(t)
  PROVE  TableInv'
<1>1. t = "main" /\ pc["main"] = "store"
  BY OnlyMain DEF StoreIndex, At, TableInv, Calling
<1>2. /\ pc'["main"] = "send" /\ pc'["listener"] = pc["listener"]
      /\ index' = index + 1 /\ index \in Nat /\ size \in Nat
      /\ UNCHANGED <<masked, size, confirmed, heap, acked, torn, rcv, toServer>>
  BY <1>1
  DEF StoreIndex, Increment, Goto, IdInv, OwnId, TableInv, MainAlone, TypeOK, TableType,
      CallType, Threads, appVars, netVars, logVars
<1>3. MainAlone'
  <2>1. \A m \in ClientMessages : m.id \in Nat /\ m.id < index
    BY DEF TableInv, MainAlone, ClientMessages, TypeOK, NetType, Ids, ServerIds
  <2> QED
    BY <1>2, <2>1 DEF TableInv, MainAlone, ClientMessages, Between, Sending, Unsaved, Leaving
<1>4. ASSUME ~torn PROVE Growing' /\ Acknowledged' /\ Entries' /\ StopAndWait'
  <2>1. index < size /\ \A j \in Ids : j < index => j \in acked
    BY <1>1, <1>4 DEF TableInv, Acknowledged, Between, Unsaved
  <2>2. \A j \in acked : j \in Nat
    BY DEF TypeOK, LogType, Ids
  <2>3. Growing'
    BY <1>1, <1>2, <1>4 DEF TableInv, Growing, Sending
  <2>4. heap # "freed" => index \notin acked
    BY <1>2, <1>4 DEF TableInv, Entries
  <2>5. Acknowledged'
    BY <1>2, <2>1, <2>4 DEF Acknowledged, Sending, Between, Unsaved
  <2>6. Entries' /\ StopAndWait'
    BY <1>2, <1>4, <2>2 DEF TableInv, Entries, StopAndWait, ClientMessages
  <2> QED
    BY <2>3, <2>5, <2>6
<1> QED
  BY <1>2, <1>3, <1>4 DEF TableInv

(* A message goes out after all before it are acknowledged. *)
LEMMA SendToTable ==
  ASSUME TypeOK, IdInv, TableInv, NEW t \in Threads, SendTo(t)
  PROVE  TableInv'
<1>1. t = "main" /\ pc["main"] = "send"
  BY OnlyMain DEF SendTo, MaySend, At, TableInv, Calling
<1>2. /\ pc'["main"] = "wait" /\ pc'["listener"] = pc["listener"]
      /\ UNCHANGED <<masked, index, size, confirmed, heap, acked, torn, rcv>>
  BY <1>1 DEF SendTo, Goto, TypeOK, CallType, Threads, tableVars, logVars
<1>3. index = msg["main"].id + 1 /\ msg["main"].id \in Nat
  BY <1>1 DEF IdInv, OwnId, TableInv, MainAlone, Sending, TypeOK, CallType, Ids, Threads
<1>4. \A m \in ClientMessages' : m \in ClientMessages \/ m.id = msg["main"].id
  BY <1>1 DEF SendTo, ToPort, ClientMessages
<1>5. MainAlone'
  BY <1>1, <1>2, <1>3, <1>4 DEF TableInv, MainAlone, Sending, Leaving
<1>6. ASSUME ~torn PROVE Growing' /\ Acknowledged' /\ Entries' /\ StopAndWait'
  <2>1. Growing' /\ Entries'
    BY <1>1, <1>2, <1>6 DEF TableInv, Growing, Entries, Sending
  <2>2. Acknowledged'
    BY <1>1, <1>2, <1>6 DEF TableInv, Acknowledged, Sending, Between, Unsaved
  <2>3. \A j \in Ids : j < msg["main"].id => j \in acked
    BY <1>1, <1>3, <1>6 DEF TableInv, Acknowledged, Sending
  <2>4. StopAndWait'
    BY <1>2, <1>4, <1>6, <2>3 DEF TableInv, StopAndWait
  <2> QED
    BY <2>1, <2>2, <2>4
<1> QED
  BY <1>2, <1>5, <1>6 DEF TableInv

(* A scan of a table that is in order finds the message in hand if and only *)
(* if its CONFIRM has been recorded.                                        *)
LEMMA ScanFinds ==
  ASSUME Regular, TypeOK, IdInv, TableInv, ~torn, heap = "live",
         pc["main"] \in Sending
  PROVE  /\ TRUE \in ScanOutcomes(msg["main"].id) => msg["main"].id \in acked
         /\ FALSE \in ScanOutcomes(msg["main"].id) => msg["main"].id \notin acked
         /\ index = msg["main"].id + 1 /\ msg["main"].id \in Ids
<1> DEFINE id == msg["main"].id
<1>1. index = id + 1 /\ id \in Ids /\ id \in Nat /\ id <= MaxIndex
  BY DEF IdInv, OwnId, IndexBounded, TableInv, MainAlone, TypeOK, CallType, Ids, Threads,
         Sending, Calling
<1>2. 1 <= index /\ index <= size /\ index \in Nat /\ size \in Nat
  BY DEF TableInv, Acknowledged, TypeOK, TableType
<1>3. id # Sentinel
  BY <1>1, ConstantsAssumption DEF Regular, Sentinel, ConstantsAssumption
<1>4. /\ \A j \in acked : j < index /\ j \in Nat /\ confirmed[j] = j
      /\ \A i \in 0 .. size - 1 : i \notin acked => confirmed[i] = Sentinel
  BY DEF TableInv, Entries, TypeOK, LogType, Ids
<1> HIDE DEF id
<1>5. ~(index > size)
  BY <1>2
<1>6. /\ TRUE \in ScanOutcomes(id) => Recorded(id)
      /\ FALSE \in ScanOutcomes(id) => ~Recorded(id)
  BY <1>5 DEF ScanOutcomes, Recorded
<1>7. ASSUME Recorded(id) PROVE id \in acked
  <2>1. PICK i \in 0 .. size - 1 : confirmed[i] = id
    BY <1>7 DEF Recorded
  <2> QED
    BY <1>3, <1>4, <2>1
<1>8. ASSUME id \in acked PROVE Recorded(id)
  BY <1>1, <1>2, <1>4, <1>8 DEF Recorded
<1> QED
  BY <1>1, <1>6, <1>7, <1>8 DEF id

(* A command returns to the input loop with its slot filled. *)
LEMMA DeliveredTable ==
  ASSUME Regular, TypeOK, IdInv, TableInv, NEW t \in Threads, Delivered(t)
  PROVE  TableInv'
<1>1. t = "main" /\ pc["main"] = "scan"
  BY OnlyMain DEF Delivered, At, TableInv, Calling
<1>2. /\ pc'["main"] \in Leaving \cup {"input"} /\ pc'["listener"] = pc["listener"]
      /\ pc'["main"] \in Leaving => heap' = "freed"
      /\ heap' = heap \/ heap' = "freed"
      /\ torn' = (torn \/ heap # "live")
      /\ UNCHANGED <<masked, index, size, confirmed, acked, rcv, toServer>>
  <2>1. msg[t].type # "ERR"
    BY <1>1 DEF IdInv, CallInv, Calling, Commands
  <2> QED
    BY <1>1, <2>1
    DEF Delivered, Exit, Goto, Scanned, Leaving, TypeOK, CallType, Threads, netVars
<1>3. MainAlone'
  BY <1>1, <1>2
  DEF TableInv, MainAlone, ClientMessages, Between, Sending, Unsaved, Leaving
<1>4. ASSUME ~torn' PROVE Growing' /\ Acknowledged' /\ Entries' /\ StopAndWait'
  <2>1. ~torn /\ heap = "live"
    BY <1>2, <1>4 DEF TableInv, TypeOK, LogType
  <2>2. msg["main"].id \in acked /\ index = msg["main"].id + 1
    <3>1. TRUE \in ScanOutcomes(msg["main"].id)
      BY <1>1 DEF Delivered
    <3>2. pc["main"] \in Sending
      BY <1>1 DEF Sending
    <3> QED
      BY <2>1, <3>1, <3>2, ScanFinds
  <2>3. index \in Nat /\ msg["main"].id \in Nat
    <3>1. \A j \in acked : j \in Nat
      BY DEF TypeOK, LogType, Ids
    <3> QED
      BY <2>2, <3>1 DEF TypeOK, TableType
  <2>4. index < size /\ \A j \in Ids : j < index => j \in acked
    BY <1>1, <2>1, <2>2, <2>3 DEF TableInv, Acknowledged, Sending, Ids
  <2>5. Growing'
    BY <1>2, <2>1 DEF TableInv, Growing
  <2>6. Acknowledged'
    BY <1>2, <2>4 DEF Acknowledged, Between, Sending, Unsaved, Leaving
  <2>7. Entries' /\ StopAndWait'
    BY <1>2, <2>1 DEF TableInv, Entries, StopAndWait, ClientMessages
  <2> QED
    BY <2>5, <2>6, <2>7
<1> QED
  BY <1>3, <1>4 DEF TableInv

(* The other steps of a send: the main thread stays in it, or the process   *)
(* exits.                                                                   *)
LEMMA OtherSendTable ==
  ASSUME Regular, TypeOK, IdInv, TableInv, NEW t \in Threads,
         Resolve(t) \/ LoadIndex(t) \/ SendFails(t) \/ Wake(t) \/ GiveUp(t)
  PROVE  TableInv'
<1>1. t = "main"
  BY OnlyMain DEF Resolve, LoadIndex, SendFails, MaySend, Wake, GiveUp, At, TableInv, Calling
<1>2. /\ pc'["listener"] = pc["listener"]
      /\ UNCHANGED <<masked, index, size, confirmed, acked, rcv, toServer>>
  BY <1>1
  DEF Resolve, LoadIndex, SendFails, Wake, GiveUp, Exit, Goto, TypeOK, CallType, Threads,
      appVars, tableVars, netVars, logVars
<1>3. \/ /\ pc["main"] \in Unsaved /\ pc'["main"] \in Unsaved \cup Leaving
         /\ pc'["main"] \in Leaving => heap' = "freed"
         /\ pc'["main"] \notin Leaving => heap' = heap
         /\ torn' = torn
      \/ /\ pc["main"] \in Sending /\ pc'["main"] \in Sending
         /\ heap' = heap /\ (~torn' => ~torn)
      \/ /\ pc["main"] \in Sending /\ pc'["main"] \in Leaving
         /\ heap' = "freed" /\ (~torn' => ~torn /\ heap = "live")
  <2>1. CASE Resolve(t) \/ LoadIndex(t)
    BY <1>1, <2>1
    DEF Resolve, LoadIndex, Exit, Goto, At, Unsaved, Leaving, TypeOK, CallType, Threads,
        tableVars, logVars
  <2>2. CASE SendFails(t)
    BY <1>1, <2>2
    DEF SendFails, MaySend, Goto, At, Sending, TypeOK, CallType, Threads, tableVars, logVars
  <2>3. CASE Wake(t)
    BY <1>1, <2>3
    DEF Wake, Scanned, Goto, At, Sending, TypeOK, CallType, LogType, Threads, tableVars
  <2>4. CASE GiveUp(t)
    BY <1>1, <2>4
    DEF GiveUp, Scanned, Exit, Goto, At, Sending, Leaving, TypeOK, CallType, LogType, Threads
  <2> QED
    BY <2>1, <2>2, <2>3, <2>4
<1>4. MainAlone'
  BY <1>2, <1>3
  DEF TableInv, MainAlone, ClientMessages, Between, Sending, Unsaved, Leaving
<1>5. ASSUME ~torn' PROVE Growing' /\ Acknowledged' /\ Entries' /\ StopAndWait'
  <2>1. ~torn
    BY <1>3, <1>5
  <2>2. Growing'
    BY <1>2, <1>3, <1>5, <2>1 DEF TableInv, Growing, Sending, Unsaved
  <2>3. Acknowledged'
    BY <1>2, <1>3, <2>1 DEF TableInv, Acknowledged, Between, Sending, Unsaved, Leaving
  <2>4. Entries' /\ StopAndWait'
    BY <1>2, <1>3, <2>1 DEF TableInv, Entries, StopAndWait, ClientMessages
  <2> QED
    BY <2>2, <2>3, <2>4
<1> QED
  BY <1>4, <1>5 DEF TableInv

(* The end of exit(). *)
LEMMA LeaveTable ==
  ASSUME TypeOK, TableInv, NEW t \in Threads, Leave(t)
  PROVE  TableInv'
<1>1. UNCHANGED <<masked, index, size, confirmed, heap, acked, torn, rcv, toServer>>
  BY DEF Leave, tableVars, netVars, logVars
<1>2. \/ pc' = pc
      \/ pc["listener"] # "grow" /\ \E x \in Places \ {"grow"} : pc' = [pc EXCEPT !["listener"] = x]
  BY DEF Leave, Goto, Leaving, Places
<1> QED
  BY <1>1, <1>2, TableFrame

(* Every step of the program before the first Ctrl-C keeps the table in     *)
(* order.                                                                   *)
LEMMA TableStep ==
  ASSUME Regular, TypeOK, IdInv, TableInv, interrupts' = 0, [Next]_vars
  PROVE  TableInv'
<1>1. CASE UserStep \/ CommandStep \/ Server
  BY <1>1, UserTable
<1>2. CASE ListenerStep \/ \E d \in toClient : NewPort(d) \/ Handle(d)
  <2>1. CASE Grow
    BY <2>1, GrowTable
  <2> QED
    BY <1>2, <2>1, ListenerTable DEF ListenerStep
<1>3. CASE \E d \in SrvConfirms : HandleConfirm(d)
  BY <1>3, ConfirmTable
<1>4. ASSUME NEW t \in Threads, SendStep(t) PROVE TableInv'
  BY <1>4, StoreTable, SendToTable, DeliveredTable, OtherSendTable, LeaveTable DEF SendStep
<1>5. ASSUME NEW t \in Threads, Interrupt(t) PROVE FALSE
  BY <1>5 DEF Interrupt, TypeOK, LogType
<1>6. CASE Done \/ UNCHANGED vars
  BY <1>6, TableFrame DEF Done, vars, appVars, tableVars, callVars, netVars, logVars
<1> QED
  BY <1>1, <1>2, <1>3, <1>4, <1>5, <1>6 DEF Next

(* At the start the table is empty and has room for one message. *)
LEMMA InitTable == Init => TableInv
<1> SUFFICES ASSUME Init PROVE TableInv
  OBVIOUS
<1>1. MainAlone /\ Growing /\ Entries /\ StopAndWait
  BY DEF Init, MainAlone, Growing, Entries, StopAndWait, ClientMessages, Between, Leaving,
         Threads
<1>2. index = 0 /\ size \in Nat \ {0}
  BY ConstantsAssumption DEF Init, ConstantsAssumption
<1>3. Acknowledged
  BY <1>2 DEF Init, Acknowledged, Ids, Between, Unsaved, Sending, Threads
<1> QED
  BY <1>1, <1>3 DEF TableInv

(* The first Ctrl-C is final: the count of them never returns to 0. *)
LEMMA InterruptsCount == TypeOK /\ [Next]_vars /\ interrupts' = 0 => interrupts = 0
<1> SUFFICES ASSUME TypeOK, [Next]_vars, interrupts' = 0 PROVE interrupts = 0
  OBVIOUS
<1>1. ASSUME NEW t \in Threads, SendStep(t) PROVE interrupts = 0
  BY <1>1
  DEF SendStep, Resolve, LoadIndex, StoreIndex, SendTo, SendFails, Wake, Delivered, GiveUp,
      Leave, Exit, logVars
<1>2. ASSUME NEW t \in Threads, Interrupt(t) PROVE FALSE
  BY <1>2 DEF Interrupt, TypeOK, LogType
<1>3. CASE UserStep \/ CommandStep \/ Server \/ Done \/ UNCHANGED vars
  BY <1>3
  DEF UserStep, CommandStep, Server, Dispatch, Refuse, EndOfInput, BadArguments, Compose,
      SrvReply, SrvSend, ServerStep, Done, vars, logVars
<1>4. CASE ListenerStep \/ (\E d \in toClient : NewPort(d) \/ Handle(d))
           \/ (\E d \in SrvConfirms : HandleConfirm(d))
  BY <1>4
  DEF ListenerStep, CreateSocket, Bind, WritePort, Grow, NewPort, Handle, HandleReply,
      HandleMsg, HandlePing, HandleErr, HandleBye, HandleMalformed, HandleConfirm, logVars
<1> QED
  BY <1>1, <1>2, <1>3, <1>4 DEF Next

(* What holds in every state up to the first Ctrl-C. *)
THEOREM TableInOrder ==
  ASSUME Regular
  PROVE  Spec => [](TypeOK /\ IdInv /\ (interrupts = 0 => TableInv))
<1>1. Init => QuitInv
  BY DEF Init, QuitInv, Quits, ByeSent, NoMsg, Calling, Commands, Threads
<1>2. TypeOK /\ GrowHoldsConfirm /\ QuitInv /\ IdInv /\ [Next]_vars => QuitInv' /\ IdInv'
  BY QuitStep, IdStep DEF Regular
<1>3. TypeOK /\ IdInv /\ (interrupts = 0 => TableInv) /\ [Next]_vars
        => (interrupts = 0 => TableInv)'
  BY TableStep, InterruptsCount
<1> QED
  BY <1>1, <1>2, <1>3, InitIds, InitTable, TypeInvariant, PTL DEF Spec

(* An entry before the index holds its own message's ID or nothing. *)
LEMMA TableHoldsOwnIds == Regular /\ TypeOK /\ IdInv /\ TableInv => SlotHoldsOwnId
<1> SUFFICES ASSUME Regular, TypeOK, IdInv, TableInv, ~torn, heap = "live",
                    NEW i \in 0 .. size - 1, i < index
             PROVE  confirmed[i] \in {Sentinel, Id(i)}
  BY DEF SlotHoldsOwnId
<1>1. index <= MaxIndex + 1 /\ index \in Nat /\ size \in Nat
  BY DEF IdInv, IndexBounded, TableInv, MainAlone, TypeOK, TableType
<1>2. Id(i) = i
  BY <1>1, IdIsIndex, ConstantsAssumption DEF Regular, ConstantsAssumption
<1>3. IF i \in acked THEN confirmed[i] = i ELSE confirmed[i] = Sentinel
  BY DEF TableInv, Entries
<1> QED
  BY <1>2, <1>3

(* Slot i of the table holds the ID of message i or nothing, whatever       *)
(* CONFIRMs are lost, late or repeated and however often the table has      *)
(* grown.                                                                   *)
THEOREM SlotsHoldTheirOwnIds ==
  ASSUME "MALFORMED" \notin ServerKinds, MaxIndex + 2 < IdSpace
  PROVE  Spec => [](interrupts = 0 => SlotHoldsOwnId)
<1>1. Regular
  BY DEF Regular
<1>2. TypeOK /\ IdInv /\ (interrupts = 0 => TableInv) => (interrupts = 0 => SlotHoldsOwnId)
  BY <1>1, TableHoldsOwnIds
<1> QED
  BY <1>1, <1>2, TableInOrder, PTL

(* The client sends stop-and-wait: whatever the network does with messages  *)
(* and CONFIRMs, no message goes out before all before it are confirmed.    *)
THEOREM ClientStopsAndWaits ==
  ASSUME "MALFORMED" \notin ServerKinds, MaxIndex + 2 < IdSpace
  PROVE  Spec => [](interrupts = 0 => StopAndWait)
<1>1. Regular
  BY DEF Regular
<1>2. TypeOK /\ IdInv /\ (interrupts = 0 => TableInv) => (interrupts = 0 => StopAndWait)
  BY DEF TableInv, StopAndWait
<1> QED
  BY <1>1, <1>2, TableInOrder, PTL

(* No scan of the table runs past its end. *)
THEOREM ScansStayInBounds ==
  ASSUME "MALFORMED" \notin ServerKinds, MaxIndex + 2 < IdSpace
  PROVE  Spec => [](interrupts = 0 => ScanInBounds)
<1>1. Regular
  BY DEF Regular
<1>2. TypeOK /\ IdInv /\ TableInv => ScanInBounds
  <2> SUFFICES ASSUME TypeOK, IdInv, TableInv, ~torn, NEW t \in Threads,
                      pc[t] \in {"wait", "scan"}
               PROVE  index <= size
    BY DEF ScanInBounds
  <2>1. t = "main"
    BY OnlyMain DEF TableInv, Calling
  <2> QED
    BY <2>1 DEF TableInv, Acknowledged, Sending
<1> QED
  BY <1>1, <1>2, TableInOrder, PTL

(* A thread gives up only in send_network_msg_udp, with the ID not found. *)
LEMMA GivingUpIsGiveUp ==
  ASSUME TypeOK, [Next]_vars, NEW t \in Threads, GivesUp(t)
  PROVE  GiveUp(t)
<1>1. pc[t] = "scan" /\ pc'[t] = "unconfirmed" /\ pc \in [Threads -> Places]
  BY DEF GivesUp, TypeOK, CallType
<1>2. ASSUME NEW u \in Threads, SendStep(u) PROVE GiveUp(t)
  <2>1. u = t
    BY <1>1, <1>2
    DEF SendStep, Resolve, LoadIndex, StoreIndex, SendTo, SendFails, Wake, Delivered, GiveUp,
        Leave, Exit, Goto
  <2> QED
    BY <1>1, <1>2, <2>1
    DEF SendStep, Resolve, LoadIndex, StoreIndex, SendTo, MaySend, SendFails, Wake, Delivered,
        Leave, Leaving, Exit, Goto, At
<1>3. ASSUME NEW u \in Threads, Interrupt(u) PROVE FALSE
  BY <1>1, <1>3 DEF Interrupt, Begin, Goto
<1>4. CASE UserStep \/ CommandStep \/ Server \/ Done \/ UNCHANGED vars
  BY <1>1, <1>4
  DEF UserStep, CommandStep, Server, Dispatch, Refuse, EndOfInput, BadArguments, Compose,
      Begin, Typing, At, Goto, SrvReply, SrvSend, ServerStep, Done, vars
<1>5. CASE ListenerStep \/ (\E d \in toClient : NewPort(d) \/ Handle(d))
           \/ (\E d \in SrvConfirms : HandleConfirm(d))
  BY <1>1, <1>5
  DEF ListenerStep, CreateSocket, Bind, WritePort, Grow, NextDatagram, NewPort, Handle,
      HandleReply, HandleMsg, HandlePing, HandleErr, HandleBye, HandleMalformed,
      HandleConfirm, Handling, Fetched, Begin, At, Exit, Goto
<1> QED
  BY <1>2, <1>3, <1>4, <1>5 DEF Next

(* A message whose CONFIRM has been recorded is never reported as           *)
(* unconfirmed.                                                             *)
LEMMA GiveUpIsRight ==
  ASSUME Regular, TypeOK, IdInv, TableInv, NEW t \in Threads, GiveUp(t), ~torn'
  PROVE  t = "main" /\ msg[t].id \notin acked /\ heap = "live" /\ ~torn
<1>1. t = "main" /\ pc["main"] \in Sending
  BY OnlyMain DEF GiveUp, At, TableInv, Calling, Sending
<1>2. heap = "live" /\ ~torn
  BY DEF GiveUp, Scanned, TypeOK, LogType
<1>3. FALSE \in ScanOutcomes(msg["main"].id)
  BY <1>1 DEF GiveUp
<1> QED
  BY <1>1, <1>2, <1>3, ScanFinds

(* Without a Ctrl-C the client never reports as unconfirmed a message whose *)
(* CONFIRM it has recorded, not even while the table is being moved (a scan *)
(* that met the move excepted).                                             *)
THEOREM FailuresAreTrue ==
  ASSUME "MALFORMED" \notin ServerKinds, MaxIndex + 2 < IdSpace, MaxInterrupts = 0
  PROVE  Spec => NoFalseFailure
<1>1. Regular
  BY DEF Regular
<1>2. TypeOK => interrupts = 0
  BY DEF TypeOK, LogType
<1>3. TypeOK /\ IdInv /\ TableInv /\ [Next]_vars
        => [\A t \in Threads : GivesUp(t) => msg[t].id \notin acked]_vars
  <2> SUFFICES ASSUME TypeOK, IdInv, TableInv, [Next]_vars, NEW t \in Threads, GivesUp(t)
               PROVE  msg[t].id \notin acked
    OBVIOUS
  <2>1. GiveUp(t) /\ ~torn'
    BY GivingUpIsGiveUp DEF GivesUp
  <2> QED
    BY <1>1, <2>1, GiveUpIsRight
<1> QED
  BY <1>1, <1>2, <1>3, TableInOrder, PTL DEF Spec, NoFalseFailure

-----------------------------------------------------------------------------
(* How often a message has been sent.  When commands are typed only after   *)
(* the listener has bound the socket, the socket is there for every send,   *)
(* until exit() closes it.                                                  *)
Receiving == {"recv", "port", "process", "grow"}
ListenerBound ==
    /\ pc["listener"] \in {"start", "bind", "dead"} \cup Receiving \cup Leaving
    /\ pc["listener"] = "start" => sock = "none"
    /\ pc["listener"] = "bind" => sock = "unbound"
    /\ pc["listener"] \in {"start", "bind"} => pc["main"] = "input"
    /\ pc["listener"] \in Receiving /\ heap # "freed" => sock = "bound"
    /\ pc["listener"] \in Leaving \cup {"dead"} => heap = "freed"

(* The counter of tries is the number of datagrams sent, and the last scan  *)
(* comes after all of them or finds the CONFIRM.                            *)
EveryTryCounts ==
    heap # "freed" /\ ~torn /\ pc["main"] \in Sending =>
       /\ dest["main"] # "garbage" => launched["main"] = tries["main"]
       /\ pc["main"] = "send" => tries["main"] <= Retransmissions
       /\ pc["main"] = "wait" => tries["main"] <= Retransmissions + 1
       /\ pc["main"] = "scan" =>
            tries["main"] = Retransmissions + 1 \/ msg["main"].id \in acked

(* The socket stays bound until the process exits. *)
LEMMA BoundStep ==
  ASSUME EarlyInput = FALSE, Regular, TypeOK, IdInv, TableInv, ListenerBound,
         interrupts' = 0, [Next]_vars
  PROVE  ListenerBound'
<1> USE DEF ListenerBound
<1>1. pc \in [Threads -> Places] /\ "main" \in Threads /\ "listener" \in Threads
  BY DEF TypeOK, CallType, Threads
<1>2. CASE UserStep \/ CommandStep \/ Server
  <2>1. /\ UNCHANGED <<sock, heap>> /\ pc'["listener"] = pc["listener"]
        /\ pc["listener"] \in {"start", "bind"} => pc' = pc
    BY <1>1, <1>2
    DEF UserStep, CommandStep, Server, Dispatch, Refuse, EndOfInput, BadArguments, Compose,
        Typing, At, Begin, Goto, SrvReply, SrvSend, ServerStep, appVars, tableVars, callVars,
        netVars, logVars
  <2> QED
    BY <2>1
<1>3. CASE CreateSocket \/ Bind \/ WritePort \/ Grow \/ \E d \in toClient : NewPort(d)
  BY <1>1, <1>3
  DEF CreateSocket, Bind, WritePort, Grow, NextDatagram, NewPort, At, Goto, Receiving,
      Leaving, tableVars
<1>4. ASSUME NEW d \in toClient, Handle(d) PROVE ListenerBound'
  <2>1. ~HandleMalformed(d)
    BY DEF Regular, HandleMalformed, Handling, TypeOK, NetType, FromServer, ServerTypes
  <2>2. pc["listener"] \in Receiving
    BY <1>4, <2>1
    DEF Handle, HandleReply, HandleMsg, HandlePing, HandleErr, HandleBye, Handling, Fetched,
        At, Receiving
  <2>3. \/ pc'["listener"] \in Receiving /\ UNCHANGED <<sock, heap>>
        \/ pc'["listener"] \in Leaving /\ heap' = "freed"
    BY <1>1, <1>4, <2>1, <2>2
    DEF Handle, HandleReply, HandleMsg, HandlePing, HandleErr, HandleBye, Exit, Goto, Receiving,
        Leaving, appVars, tableVars
  <2> QED
    BY <2>2, <2>3 DEF Receiving, Leaving
<1>5. CASE \E d \in SrvConfirms : HandleConfirm(d)
  BY <1>1, <1>5 DEF HandleConfirm, At, Goto, Receiving, Leaving
<1>6. ASSUME NEW t \in Threads, SendStep(t) PROVE ListenerBound'
  <2>1. CASE Leave(t)
    BY <1>1, <2>1 DEF Leave, Goto, Receiving, Leaving, tableVars
  <2>2. CASE ~Leave(t)
    <3>1. t = "main" /\ pc["main"] \in Calling
      BY <1>6, <2>2, OnlyMain
      DEF SendStep, Resolve, LoadIndex, StoreIndex, SendTo, MaySend, SendFails, Wake,
          Delivered, GiveUp, At, TableInv, Calling
    <3>2. pc'["listener"] = pc["listener"] /\ pc["listener"] \notin {"start", "bind"}
      BY <1>1, <1>6, <2>2, <3>1
      DEF SendStep, Resolve, LoadIndex, StoreIndex, SendTo, SendFails, Wake, Delivered, GiveUp,
          Exit, Goto, Calling
    <3>3. (heap' = heap /\ (sock = "bound" => sock' = "bound")) \/ heap' = "freed"
      BY <1>6, <2>2
      DEF SendStep, Resolve, LoadIndex, StoreIndex, SendTo, SendFails, Wake, Delivered, GiveUp,
          Exit, appVars, tableVars
    <3> QED
      BY <3>2, <3>3 DEF Receiving, Leaving
  <2> QED
    BY <2>1, <2>2
<1>7. ASSUME NEW t \in Threads, Interrupt(t) PROVE FALSE
  BY <1>7 DEF Interrupt, TypeOK, LogType
<1>8. CASE Done \/ UNCHANGED vars
  BY <1>8 DEF Done, vars, appVars, tableVars
<1> QED
  BY <1>2, <1>3, <1>4, <1>5, <1>6, <1>7, <1>8 DEF Next, ListenerStep

(* A step of the other thread, or of the main thread outside a send. *)
LEMMA TriesFrame ==
  ASSUME TypeOK, EveryTryCounts,
         pc'["main"] \in Sending => pc'["main"] = pc["main"],
         pc'["main"] \in Sending =>
           UNCHANGED <<dest, launched, tries, msg>>,
         acked \subseteq acked', torn => torn', heap = "freed" => heap' = "freed"
  PROVE  EveryTryCounts'
  BY DEF EveryTryCounts, Sending

(* The steps of the send itself. *)
LEMMA SendTries ==
  ASSUME Regular, TypeOK, IdInv, TableInv, ListenerBound, EveryTryCounts,
         NEW t \in Threads, SendStep(t)
  PROVE  EveryTryCounts'
<1>1. CASE Leave(t)
  BY <1>1, TriesFrame DEF Leave, Goto, Threads, callVars, tableVars, logVars, TypeOK, CallType,
     Leaving, Sending
<1>2. CASE ~Leave(t)
  <2>1. t = "main" /\ pc["main"] \in Calling
    BY <1>2, OnlyMain
    DEF SendStep, Resolve, LoadIndex, StoreIndex, SendTo, MaySend, SendFails, Wake, Delivered,
        GiveUp, At, TableInv, Calling
  <2>2. /\ pc \in [Threads -> Places] /\ tries \in [Threads -> Nat]
        /\ launched \in [Threads -> Nat] /\ "main" \in Threads
        /\ torn \in BOOLEAN /\ Retransmissions \in Nat
    BY ConstantsAssumption DEF TypeOK, CallType, LogType, Threads, ConstantsAssumption
  <2>3. CASE Resolve(t) \/ LoadIndex(t) \/ Delivered(t) \/ GiveUp(t)
    <3>1. pc'["main"] \notin Sending
      <4>1. msg[t].type # "ERR"
        BY <2>1 DEF IdInv, CallInv, Commands
      <4> QED
        BY <2>1, <2>2, <2>3, <4>1
        DEF Resolve, LoadIndex, Delivered, GiveUp, Exit, Goto, Sending
    <3> QED
      BY <3>1 DEF EveryTryCounts
  <2>4. CASE StoreIndex(t)
    <3>1. pc'["main"] = "send" /\ tries'["main"] = 0 /\ launched'["main"] = 0
      BY <2>1, <2>2, <2>4 DEF StoreIndex, Goto
    <3> QED
      BY <2>2, <3>1 DEF EveryTryCounts, Sending
  <2>5. CASE SendTo(t)
    <3>1. /\ pc["main"] = "send" /\ pc'["main"] = "wait"
          /\ tries'["main"] = tries["main"] + 1
          /\ launched'["main"] = launched["main"] + 1
          /\ UNCHANGED <<dest, heap, torn>>
      BY <2>1, <2>2, <2>5 DEF SendTo, MaySend, At, Goto, tableVars, logVars
    <3>2. tries["main"] \in Nat /\ launched["main"] \in Nat
      BY <2>2
    <3> QED
      BY <2>2, <3>1, <3>2 DEF EveryTryCounts, Sending
  <2>6. CASE SendFails(t)
    <3>1. /\ pc["main"] = "send" /\ UNCHANGED <<dest, heap, torn, launched>>
          /\ tries'["main"] = tries["main"] + 1
          /\ pc'["main"] = IF tries["main"] + 1 <= Retransmissions THEN "send" ELSE "scan"
          /\ sock = "bound" => dest["main"] = "garbage"
      BY <2>1, <2>2, <2>6
      DEF SendFails, MaySend, At, Goto, TriesLeft, Open, tableVars, logVars
    <3>2. heap # "freed" => sock = "bound"
      BY <2>1 DEF ListenerBound, Calling
    <3>3. tries["main"] \in Nat
      BY <2>2
    <3> QED
      BY <2>2, <3>1, <3>2, <3>3 DEF EveryTryCounts, Sending
  <2>7. CASE Wake(t)
    <3>1. /\ pc["main"] = "wait" /\ UNCHANGED <<dest, heap, launched, tries, msg, acked>>
          /\ torn' = (torn \/ heap # "live")
      BY <2>1, <2>7 DEF Wake, At, Scanned, tableVars, callVars
    <3>2. PICK found \in ScanOutcomes(msg["main"].id) :
            pc'["main"] = IF ~found /\ tries["main"] <= Retransmissions THEN "send" ELSE "scan"
      BY <2>1, <2>2, <2>7 DEF Wake, Goto, TriesLeft
    <3>3. ASSUME ~torn', found PROVE msg["main"].id \in acked
      <4>1. heap = "live" /\ ~torn
        BY <2>2, <3>1, <3>3
      <4>2. TRUE \in ScanOutcomes(msg["main"].id)
        BY <3>3 DEF ScanOutcomes
      <4>3. pc["main"] \in Sending
        BY <3>1 DEF Sending
      <4> QED
        BY <4>1, <4>2, <4>3, ScanFinds
    <3>4. tries["main"] \in Nat
      BY <2>2
    <3> QED
      BY <2>2, <3>1, <3>2, <3>3, <3>4 DEF EveryTryCounts, Sending
  <2> QED
    BY <1>2, <2>3, <2>4, <2>5, <2>6, <2>7 DEF SendStep
<1> QED
  BY <1>1, <1>2

(* Every step keeps the counters true. *)
LEMMA TriesStep ==
  ASSUME Regular, TypeOK, IdInv, TableInv, ListenerBound, EveryTryCounts,
         interrupts' = 0, [Next]_vars
  PROVE  EveryTryCounts'
<1>1. pc \in [Threads -> Places] /\ "main" \in Threads /\ torn \in BOOLEAN
  BY DEF TypeOK, CallType, LogType, Threads
<1>2. CASE UserStep \/ CommandStep \/ Server
  <2>1. UNCHANGED <<acked, torn, heap>>
        /\ (pc'["main"] \in Sending => pc' = pc /\ UNCHANGED callVars)
    BY <1>1, <1>2
    DEF UserStep, CommandStep, Server, Dispatch, Refuse, EndOfInput, BadArguments, Compose,
        Begin, Goto, SrvReply, SrvSend, ServerStep, Sending, tableVars, logVars
  <2> QED
    BY <2>1, TriesFrame DEF callVars
<1>3. CASE ListenerStep \/ (\E d \in toClient : NewPort(d) \/ Handle(d))
  <2>1. ~\E d \in toClient : HandleMalformed(d)
    BY DEF Regular, HandleMalformed, Handling, TypeOK, NetType, FromServer, ServerTypes
  <2>2. /\ UNCHANGED <<callVars, torn>> /\ acked \subseteq acked'
        /\ pc'["main"] = pc["main"] /\ (heap = "freed" => heap' = "freed")
    BY <1>1, <1>3, <2>1
    DEF ListenerStep, CreateSocket, Bind, WritePort, Grow, NextDatagram, NewPort, Handle,
        HandleReply, HandleMsg, HandlePing, HandleErr, HandleBye, Exit, Goto, tableVars,
        logVars
  <2> QED
    BY <2>2, TriesFrame DEF callVars
<1>4. CASE \E d \in SrvConfirms : HandleConfirm(d)
  <2>1. /\ UNCHANGED <<callVars, torn>> /\ acked \subseteq acked'
        /\ pc'["main"] = pc["main"] /\ (heap = "freed" => heap' = "freed")
    BY <1>1, <1>4 DEF HandleConfirm, Goto
  <2> QED
    BY <2>1, TriesFrame DEF callVars
<1>5. ASSUME NEW t \in Threads, SendStep(t) PROVE EveryTryCounts'
  BY <1>5, SendTries
<1>6. ASSUME NEW t \in Threads, Interrupt(t) PROVE FALSE
  BY <1>6 DEF Interrupt, TypeOK, LogType
<1>7. CASE Done \/ UNCHANGED vars
  BY <1>7, TriesFrame DEF Done, vars, callVars, tableVars, logVars
<1> QED
  BY <1>2, <1>3, <1>4, <1>5, <1>6, <1>7 DEF Next

(* With commands typed after the socket is bound and without a Ctrl-C, the  *)
(* client gives a message up only after it has put it on the wire once and  *)
(* udp_retransmissions more times, for every value of that argument, unless *)
(* it resolved the port in the moment it was changed.                       *)
THEOREM GivesUpAfterAllTries ==
  ASSUME "MALFORMED" \notin ServerKinds, MaxIndex + 2 < IdSpace, MaxInterrupts = 0,
         EarlyInput = FALSE
  PROVE  Spec => AllTriesBeforeGivingUp
<1>1. Regular
  BY DEF Regular
<1>2. TypeOK => interrupts = 0
  BY DEF TypeOK, LogType
<1>3. Init => ListenerBound /\ EveryTryCounts
  BY DEF Init, ListenerBound, EveryTryCounts, Receiving, Leaving, Sending, Threads
<1>4. TypeOK /\ TypeOK' /\ IdInv /\ TableInv /\ ListenerBound /\ EveryTryCounts /\ [Next]_vars
        => ListenerBound' /\ EveryTryCounts'
  <2>1. TypeOK' => interrupts' = 0
    BY DEF TypeOK, LogType
  <2> QED
    BY <1>1, <2>1, BoundStep, TriesStep
<1>5. TypeOK /\ IdInv /\ TableInv /\ EveryTryCounts /\ [Next]_vars
        => [\A t \in Threads : GivesUp(t) /\ dest[t] # "garbage"
                                 => launched[t] = Retransmissions + 1]_vars
  <2> SUFFICES ASSUME TypeOK, IdInv, TableInv, EveryTryCounts, [Next]_vars,
                      NEW t \in Threads, GivesUp(t), dest[t] # "garbage"
               PROVE  launched[t] = Retransmissions + 1
    OBVIOUS
  <2>1. GiveUp(t) /\ ~torn'
    BY GivingUpIsGiveUp DEF GivesUp
  <2>2. t = "main" /\ msg[t].id \notin acked /\ heap = "live" /\ ~torn
    BY <1>1, <2>1, GiveUpIsRight
  <2>3. pc["main"] = "scan"
    BY <2>1, <2>2 DEF GiveUp, At
  <2> QED
    BY <2>2, <2>3 DEF EveryTryCounts, Sending
<1> QED
  BY <1>1, <1>2, <1>3, <1>4, <1>5, TableInOrder, PTL DEF Spec, AllTriesBeforeGivingUp
=============================================================================

-------------------------- MODULE UdpClientProofs --------------------------
(***************************************************************************)
(* Type correctness of the UDP client for every value of the constants.    *)
(* One conjunct is needed beside TypeOK: what Grow records is the ID of a  *)
(* CONFIRM, a 16-bit value, because only a CONFIRM leads to Grow.          *)
(* One lemma per group of actions; a step of a lemma is one action.        *)
(***************************************************************************)
EXTENDS UdpClient, TLAPS

(* The ID of a message is a 16-bit value, whatever the index. *)
LEMMA IdIsId ==
  ASSUME NEW i \in Nat
  PROVE  Id(i) \in Ids
  BY ConstantsAssumption DEF Id, Ids, ConstantsAssumption

(* So are the filler of the table and the ref of a message that has none. *)
LEMMA SentinelIsId == Sentinel \in Ids /\ 0 \in Ids
  BY ConstantsAssumption DEF Sentinel, Ids, ConstantsAssumption

(* The initial values of main.c's globals have their types. *)
THEOREM InitType == Init => TypeOK
<1> SUFFICES ASSUME Init PROVE TypeOK
  OBVIOUS
<1>1. AppType
  BY DEF Init, AppType, Ports, Leaving, NoDatagram
<1>2. TableType
  BY ConstantsAssumption, SentinelIsId DEF Init, TableType
<1>3. CallType
  BY SentinelIsId DEF Init, CallType, Threads, Places, Leaving, OwnTypes, NoMsg
<1>4. NetType
  BY ConstantsAssumption DEF Init, NetType
<1>5. LogType
  <2>1. acted \in [ServerIds -> 0 .. 2]
    BY DEF Init
  <2>2. acked \subseteq Ids /\ torn \in BOOLEAN
    BY DEF Init
  <2>3. interrupts \in 0 .. MaxInterrupts
    BY ConstantsAssumption DEF Init
  <2> QED
    BY <2>1, <2>2, <2>3 DEF LogType
<1> QED
  BY <1>1, <1>2, <1>3, <1>4, <1>5 DEF TypeOK

(* While the table is being doubled the listener holds a CONFIRM. *)
GrowHoldsConfirm == pc["listener"] = "grow" => rcv \in OwnConfirms

(* A step that changes nothing keeps the types. *)
LEMMA StutterType ==
  ASSUME TypeOK, GrowHoldsConfirm, UNCHANGED vars
  PROVE  TypeOK' /\ GrowHoldsConfirm'
  BY DEF TypeOK, AppType, TableType, CallType, NetType, LogType, GrowHoldsConfirm,
         vars, appVars, tableVars, callVars, netVars, logVars

(* The steps of send_network_msg_udp, by either thread, keep the types. *)
LEMMA SendStepType ==
  ASSUME TypeOK, GrowHoldsConfirm, NEW t \in Threads, SendStep(t)
  PROVE  TypeOK' /\ GrowHoldsConfirm'
<1>1. CASE Resolve(t)
  BY <1>1, SentinelIsId
  DEF Resolve, TypeOK, AppType, TableType, CallType, NetType, LogType, GrowHoldsConfirm,
      appVars, tableVars, callVars, netVars, logVars, Goto, At, Exit, Leaving, Places,
      Threads, Commands, OwnTypes, Ports, NoMsg, Scanned, Output, Printed, ForgetCall,
      CurrentPort, Increment, MaySend, ToPort, NoDatagram
<1>2. CASE LoadIndex(t)
  BY <1>2, SentinelIsId
  DEF LoadIndex, TypeOK, AppType, TableType, CallType, NetType, LogType, GrowHoldsConfirm,
      appVars, tableVars, callVars, netVars, logVars, Goto, At, Exit, Leaving, Places,
      Threads, Commands, OwnTypes, Ports, NoMsg, Scanned, Output, Printed, ForgetCall,
      CurrentPort, Increment, MaySend, ToPort, NoDatagram
<1>3. CASE StoreIndex(t)
  BY <1>3, SentinelIsId
  DEF StoreIndex, TypeOK, AppType, TableType, CallType, NetType, LogType, GrowHoldsConfirm,
      appVars, tableVars, callVars, netVars, logVars, Goto, At, Exit, Leaving, Places,
      Threads, Commands, OwnTypes, Ports, NoMsg, Scanned, Output, Printed, ForgetCall,
      CurrentPort, Increment, MaySend, ToPort, NoDatagram
<1>4. CASE SendTo(t)
  BY <1>4, SentinelIsId
  DEF SendTo, TypeOK, AppType, TableType, CallType, NetType, LogType, GrowHoldsConfirm,
      appVars, tableVars, callVars, netVars, logVars, Goto, At, Exit, Leaving, Places,
      Threads, Commands, OwnTypes, Ports, NoMsg, Scanned, Output, Printed, ForgetCall,
      CurrentPort, Increment, MaySend, ToPort, NoDatagram
<1>5. CASE SendFails(t)
  BY <1>5, SentinelIsId
  DEF SendFails, TypeOK, AppType, TableType, CallType, NetType, LogType, GrowHoldsConfirm,
      appVars, tableVars, callVars, netVars, logVars, Goto, At, Exit, Leaving, Places,
      Threads, Commands, OwnTypes, Ports, NoMsg, Scanned, Output, Printed, ForgetCall,
      CurrentPort, Increment, MaySend, ToPort, NoDatagram
<1>6. CASE Wake(t)
  BY <1>6, SentinelIsId
  DEF Wake, TypeOK, AppType, TableType, CallType, NetType, LogType, GrowHoldsConfirm,
      appVars, tableVars, callVars, netVars, logVars, Goto, At, Exit, Leaving, Places,
      Threads, Commands, OwnTypes, Ports, NoMsg, Scanned, Output, Printed, ForgetCall,
      CurrentPort, Increment, MaySend, ToPort, NoDatagram
<1>7. CASE Delivered(t)
  BY <1>7, SentinelIsId
  DEF Delivered, TypeOK, AppType, TableType, CallType, NetType, LogType, GrowHoldsConfirm,
      appVars, tableVars, callVars, netVars, logVars, Goto, At, Exit, Leaving, Places,
      Threads, Commands, OwnTypes, Ports, NoMsg, Scanned, Output, Printed, ForgetCall,
      CurrentPort, Increment, MaySend, ToPort, NoDatagram
<1>8. CASE GiveUp(t)
  BY <1>8, SentinelIsId
  DEF GiveUp, TypeOK, AppType, TableType, CallType, NetType, LogType, GrowHoldsConfirm,
      appVars, tableVars, callVars, netVars, logVars, Goto, At, Exit, Leaving, Places,
      Threads, Commands, OwnTypes, Ports, NoMsg, Scanned, Output, Printed, ForgetCall,
      CurrentPort, Increment, MaySend, ToPort, NoDatagram
<1>9. CASE Leave(t)
  BY <1>9, SentinelIsId
  DEF Leave, TypeOK, AppType, TableType, CallType, NetType, LogType, GrowHoldsConfirm,
      appVars, tableVars, callVars, netVars, logVars, Goto, At, Exit, Leaving, Places,
      Threads, Commands, OwnTypes, Ports, NoMsg, Scanned, Output, Printed, ForgetCall,
      CurrentPort, Increment, MaySend, ToPort, NoDatagram
<1> QED
  BY <1>1, <1>2, <1>3, <1>4, <1>5, <1>6, <1>7, <1>8, <1>9 DEF SendStep

(* So do the input loop and the commands, *)
LEMMA UserStepType ==
  ASSUME TypeOK, GrowHoldsConfirm, UserStep \/ CommandStep
  PROVE  TypeOK' /\ GrowHoldsConfirm'
<1>1. CASE \E c \in Commands : Dispatch(c)
  BY <1>1, SentinelIsId
  DEF Dispatch, TypeOK, AppType, TableType, CallType, NetType, LogType, GrowHoldsConfirm,
      appVars, tableVars, callVars, netVars, logVars, At, Goto, Typing, Commands,
      OwnTypes, Threads, Leaving, Places
<1>2. CASE \E c \in Commands : Refuse(c)
  BY <1>2
  DEF Refuse, TypeOK, AppType, TableType, CallType, NetType, LogType, GrowHoldsConfirm,
      appVars, tableVars, callVars, netVars, logVars, At, Goto, Typing, Output, Printed
<1>3. CASE BadArguments
  BY <1>3, SentinelIsId
  DEF BadArguments, TypeOK, AppType, TableType, CallType, NetType, LogType, GrowHoldsConfirm,
      appVars, tableVars, callVars, netVars, logVars, At, Goto, Output, Printed,
      ForgetCall, NoMsg, OwnTypes, Threads, Leaving, Places
<1>4. CASE Compose
  BY <1>4, IdIsId
  DEF Compose, StateSet, TypeOK, AppType, TableType, CallType, NetType, LogType, GrowHoldsConfirm,
      appVars, tableVars, callVars, netVars, logVars, At, Goto, Begin, OwnTypes, Threads,
      Leaving, Places
<1>5. CASE EndOfInput
  BY <1>5, IdIsId
  DEF EndOfInput, TypeOK, AppType, TableType, CallType, NetType, LogType, GrowHoldsConfirm,
      appVars, tableVars, callVars, netVars, logVars, At, Goto, Typing, Begin, OwnTypes,
      Threads, Leaving, Places
<1> QED
  BY <1>1, <1>2, <1>3, <1>4, <1>5 DEF UserStep, CommandStep

(* the listener's steps between two datagrams, *)
LEMMA ListenerStepType ==
  ASSUME TypeOK, GrowHoldsConfirm, ListenerStep
  PROVE  TypeOK' /\ GrowHoldsConfirm'
<1>1. CASE CreateSocket
  BY <1>1
  DEF CreateSocket, TypeOK, AppType, TableType, CallType, NetType, LogType, GrowHoldsConfirm,
      appVars, tableVars, callVars, netVars, logVars, At, Goto, Threads, Leaving, Places
<1>2. CASE Bind
  BY <1>2
  DEF Bind, TypeOK, AppType, TableType, CallType, NetType, LogType, GrowHoldsConfirm,
      appVars, tableVars, callVars, netVars, logVars, At, Goto, Threads, Leaving, Places
<1>3. CASE WritePort
  BY <1>3
  DEF WritePort, TypeOK, AppType, TableType, CallType, NetType, LogType, GrowHoldsConfirm,
      appVars, tableVars, callVars, netVars, logVars, At, Goto, Ports, Threads, Leaving,
      Places
<1>4. CASE Grow
  <2>1. rcv.id \in Ids
    BY <1>4 DEF Grow, At, GrowHoldsConfirm, OwnConfirms
  <2>2. size' \in Nat \ {0} /\ size' = 2 * size
    BY <1>4 DEF Grow, TypeOK, TableType
  <2>3. confirmed' \in [0 .. size' - 1 -> Ids]
    <3>1. PICK junk \in Ids :
            confirmed' = Write([i \in 0 .. 2 * size - 1 |-> IF i < size THEN confirmed[i]
                                                            ELSE IF i < index THEN junk
                                                            ELSE Sentinel], index, rcv.id)
      BY <1>4 DEF Grow
    <3>2. [i \in 0 .. 2 * size - 1 |-> IF i < size THEN confirmed[i]
                                       ELSE IF i < index THEN junk
                                       ELSE Sentinel] \in [0 .. 2 * size - 1 -> Ids]
      BY SentinelIsId DEF TypeOK, TableType
    <3> QED
      BY <3>1, <3>2, <2>1, <2>2 DEF Write
  <2>4. TableType'
    BY <1>4, <2>2, <2>3 DEF Grow, TypeOK, TableType
  <2>5. AppType' /\ CallType' /\ NetType' /\ LogType' /\ GrowHoldsConfirm'
    BY <1>4, <2>1
    DEF Grow, TypeOK, AppType, CallType, NetType, LogType, GrowHoldsConfirm, callVars,
        netVars, NextDatagram, Goto, Threads, Places
  <2> QED
    BY <2>4, <2>5 DEF TypeOK
<1> QED
  BY <1>1, <1>2, <1>3, <1>4 DEF ListenerStep

(* and the signal handler. *)
LEMMA InterruptType ==
  ASSUME TypeOK, GrowHoldsConfirm, NEW t \in Threads, Interrupt(t)
  PROVE  TypeOK' /\ GrowHoldsConfirm'
<1>1. AppType' /\ TableType' /\ NetType'
  BY DEF Interrupt, TypeOK, AppType, TableType, NetType, tableVars, netVars
<1>2. LogType'
  BY ConstantsAssumption DEF Interrupt, TypeOK, LogType
<1>3. pc' \in [Threads -> Places] /\ msg' \in [Threads -> [type : OwnTypes, id : Ids]]
  <2>1. CASE Begin(t, "BYE")
    BY <2>1, IdIsId DEF Begin, Goto, TypeOK, TableType, CallType, Places, OwnTypes
  <2>2. CASE Goto(t, "hung") /\ UNCHANGED msg
    BY <2>2 DEF Goto, TypeOK, CallType, Places
  <2> QED
    BY <2>1, <2>2 DEF Interrupt
<1>4. CallType'
  BY <1>3 DEF Interrupt, TypeOK, CallType
<1>5. GrowHoldsConfirm'
  <2>1. pc' \in {[pc EXCEPT ![t] = "resolve"], [pc EXCEPT ![t] = "hung"]}
    BY DEF Interrupt, Begin, Goto
  <2> QED
    BY <2>1 DEF Interrupt, TypeOK, CallType, GrowHoldsConfirm, Threads
<1> QED
  BY <1>1, <1>2, <1>4, <1>5 DEF TypeOK

(* What every handler that answers with a CONFIRM, or acts on a message, does *)
(* to the sets it adds to.                                                    *)
LEMMA ConfirmType ==
  ASSUME TypeOK, NEW id \in ServerIds, SendConfirm(id)
  PROVE  toServer' \subseteq [type : OwnTypes, id : Ids, port : Ports]
                      \cup [type : {"CONFIRM"}, id : ServerIds, port : Ports]
  BY DEF TypeOK, AppType, NetType, SendConfirm, ToPort

(* The count of what the client did about a message stays within 0 .. 2. *)
LEMMA ActType ==
  ASSUME TypeOK, NEW id \in ServerIds, Act(id)
  PROVE  acted' \in [ServerIds -> 0 .. 2]
<1>1. (IF acted[id] = 2 THEN 2 ELSE acted[id] + 1) \in 0 .. 2
  BY DEF TypeOK, LogType
<1> QED
  BY <1>1 DEF TypeOK, LogType, Act

(* The handlers of process_received_udp_message keep the types. *)
LEMMA HandleType ==
  ASSUME TypeOK, GrowHoldsConfirm, NEW d \in toClient, NewPort(d) \/ Handle(d)
  PROVE  TypeOK' /\ GrowHoldsConfirm'
<1>0. d \in FromServer /\ d.id \in ServerIds
  BY DEF TypeOK, NetType, FromServer
<1>1. CASE NewPort(d)
  BY <1>0, <1>1
  DEF NewPort, TypeOK, AppType, TableType, CallType, NetType, LogType, GrowHoldsConfirm,
      tableVars, callVars, netVars, logVars, Goto, Ports, Threads, Places
<1>2. CASE HandleReply(d)
  <2>1. acted' \in [ServerIds -> 0 .. 2]
    BY <1>0, <1>2, ActType DEF HandleReply
  <2>2. NetType'
    BY <1>0, <1>2, ConfirmType DEF HandleReply, TypeOK, NetType
  <2>3. AppType' /\ TableType'
    BY <1>2 DEF HandleReply, TypeOK, AppType, TableType, Output, Printed, Exit
  <2>4. CallType' /\ LogType' /\ GrowHoldsConfirm'
    BY <1>2, <2>1
    DEF HandleReply, TypeOK, CallType, LogType, GrowHoldsConfirm, callVars, Exit, Goto,
        Threads, Places, Leaving
  <2> QED
    BY <2>2, <2>3, <2>4 DEF TypeOK
<1>3. CASE HandleMsg(d)
  <2>1. acted' \in [ServerIds -> 0 .. 2]
    BY <1>0, <1>3, ActType DEF HandleMsg, TypeOK, LogType
  <2>2. NetType'
    BY <1>0, <1>3, ConfirmType DEF HandleMsg, TypeOK, NetType
  <2>3. AppType'
    BY <1>0, <1>3 DEF HandleMsg, TypeOK, AppType, Output, Printed
  <2>4. TableType' /\ CallType' /\ LogType' /\ GrowHoldsConfirm'
    BY <1>3, <2>1
    DEF HandleMsg, TypeOK, TableType, CallType, LogType, GrowHoldsConfirm, tableVars, callVars
  <2> QED
    BY <2>2, <2>3, <2>4 DEF TypeOK
<1>4. CASE HandlePing(d)
  <2>1. NetType'
    BY <1>0, <1>4, ConfirmType DEF HandlePing, TypeOK, NetType
  <2> QED
    BY <1>4, <2>1
    DEF HandlePing, TypeOK, AppType, TableType, CallType, LogType, GrowHoldsConfirm,
        appVars, tableVars, callVars, logVars
<1>5. CASE HandleErr(d)
  <2>1. acted' \in [ServerIds -> 0 .. 2]
    BY <1>0, <1>5, ActType DEF HandleErr, TypeOK, LogType
  <2>2. NetType'
    BY <1>0, <1>5, ConfirmType DEF HandleErr, TypeOK, NetType
  <2>3. AppType'
    BY <1>0, <1>5 DEF HandleErr, TypeOK, AppType, Output, Printed, Exit
  <2>4. TableType' /\ CallType' /\ LogType' /\ GrowHoldsConfirm'
    BY <1>5, <2>1
    DEF HandleErr, TypeOK, TableType, CallType, LogType, GrowHoldsConfirm, callVars,
        Exit, Goto, Threads, Places, Leaving
  <2> QED
    BY <2>2, <2>3, <2>4 DEF TypeOK
<1>6. CASE HandleBye(d)
  <2>1. NetType'
    BY <1>0, <1>6, ConfirmType DEF HandleBye, TypeOK, NetType
  <2> QED
    BY <1>6, <2>1
    DEF HandleBye, TypeOK, AppType, TableType, CallType, LogType, GrowHoldsConfirm,
        callVars, logVars, Exit, Goto, Threads, Places, Leaving
<1>7. CASE HandleMalformed(d)
  <2>1. NetType'
    BY <1>0, <1>7, ConfirmType DEF HandleMalformed, TypeOK, NetType
  <2>2. CallType'
    BY <1>7, IdIsId
    DEF HandleMalformed, Begin, Goto, TypeOK, TableType, CallType, Threads, Places, OwnTypes
  <2> QED
    BY <1>7, <2>1, <2>2
    DEF HandleMalformed, Begin, Goto, TypeOK, AppType, TableType, CallType, LogType,
        GrowHoldsConfirm, tableVars, logVars, Output, Printed, Threads
<1> QED
  BY <1>1, <1>2, <1>3, <1>4, <1>5, <1>6, <1>7 DEF Handle

(* add_confirmed_msg_id writes a 16-bit ID into a slot of the table. *)
LEMMA HandleConfirmType ==
  ASSUME TypeOK, GrowHoldsConfirm, NEW d \in SrvConfirms, HandleConfirm(d)
  PROVE  TypeOK' /\ GrowHoldsConfirm'
<1>1. d \in OwnConfirms /\ d.id \in Ids
  BY DEF SrvConfirms, Datagram, OwnConfirms, TypeOK, NetType
<1>2. TableType' /\ LogType'
  BY <1>1 DEF HandleConfirm, Write, TypeOK, TableType, LogType
<1>3. AppType' /\ CallType' /\ GrowHoldsConfirm'
  BY <1>1
  DEF HandleConfirm, TypeOK, AppType, CallType, GrowHoldsConfirm, callVars, Goto,
      Threads, Places
<1>4. NetType'
  BY DEF HandleConfirm, TypeOK, NetType, netVars
<1> QED
  BY <1>2, <1>3, <1>4 DEF TypeOK

(* The server adds datagrams of its own types only. *)
LEMMA ServerType ==
  ASSUME TypeOK, GrowHoldsConfirm, Server
  PROVE  TypeOK' /\ GrowHoldsConfirm'
<1>1. CASE \E m \in Requests, result \in {"OK", "NOK", "bad"} : SrvReply(m, result)
  BY <1>1, ConstantsAssumption
  DEF TypeOK, AppType, TableType, CallType, NetType, LogType, GrowHoldsConfirm,
      appVars, tableVars, callVars, netVars, logVars, At, Goto, SrvReply, Requests,
      ServerStep, Reply, FromServer, ServerTypes, ServerIds
<1>2. CASE \E kind \in ServerKinds : SrvSend(kind)
  BY <1>2, ConstantsAssumption, SentinelIsId
  DEF TypeOK, AppType, TableType, CallType, NetType, LogType, GrowHoldsConfirm,
      appVars, tableVars, callVars, netVars, logVars, At, Goto, SrvSend, ServerStep,
      Datagram, FromServer, ServerTypes, ServerIds
<1> QED
  BY <1>1, <1>2 DEF Server

-----------------------------------------------------------------------------
(* Every variable of the client has its type in every reachable state: no  *)
(* write of add_confirmed_msg_id, doubled table or handler leaves it, for  *)
(* any number of retransmissions, commands and server messages.            *)
THEOREM TypeInvariant == Spec => [](TypeOK /\ GrowHoldsConfirm)
<1>1. Init => TypeOK /\ GrowHoldsConfirm
  BY InitType DEF Init, GrowHoldsConfirm, Threads
<1>2. TypeOK /\ GrowHoldsConfirm /\ [Next]_vars => TypeOK' /\ GrowHoldsConfirm'
  BY StutterType, UserStepType, ListenerStepType, ServerType, SendStepType,
     InterruptType, HandleType, HandleConfirmType
  DEF Next, Done
<1> QED
  BY <1>1, <1>2, PTL DEF Spec

-----------------------------------------------------------------------------
(* The slot that add_confirmed_msg_id writes to: the entry before the index. *)
(* A message is on the wire only after the index has been incremented by     *)
(* somebody, and nothing takes the index back to 0.                          *)
SlotInv ==
    /\ ClientMessages # {} => index >= 1
    /\ \A t \in Threads : pc[t] \in {"send", "wait", "scan"} => index >= 1
    /\ ConfirmHasSlot

(* A step that does not touch the index and sends and records nothing new. *)
LEMMA SlotFrame ==
  ASSUME SlotInv, index' = index, acked' = acked, ClientMessages' \subseteq ClientMessages,
         \A t \in Threads : pc'[t] \in {"send", "wait", "scan"}
                              => pc[t] \in {"send", "wait", "scan"},
         pc'["listener"] = "grow" => pc["listener"] = "grow"
  PROVE  SlotInv'
  BY DEF SlotInv, ConfirmHasSlot

(* The send steps: only StoreIndex moves the index, to one more than a      *)
(* thread has read.                                                         *)
LEMMA SendSlot ==
  ASSUME TypeOK, SlotInv, NEW t \in Threads, SendStep(t)
  PROVE  SlotInv'
<1>1. pc \in [Threads -> Places] /\ reg \in [Threads -> Nat]
  BY DEF TypeOK, CallType
<1>2. CASE StoreIndex(t)
  <2>1. index' >= 1
    BY <1>1, <1>2 DEF StoreIndex, Increment
  <2> QED
    BY <2>1 DEF SlotInv, ConfirmHasSlot
<1>3. CASE SendTo(t)
  <2>1. index >= 1 /\ index' = index
    BY <1>3 DEF SendTo, MaySend, At, SlotInv, tableVars
  <2> QED
    BY <2>1 DEF SlotInv, ConfirmHasSlot
<1>4. CASE \/ Resolve(t) \/ LoadIndex(t) \/ SendFails(t) \/ Wake(t)
           \/ Delivered(t) \/ GiveUp(t) \/ Leave(t)
  <2>1. /\ index' = index /\ acked' = acked /\ ClientMessages' = ClientMessages
        /\ pc'["listener"] = "grow" => pc["listener"] = "grow"
        /\ \A u \in Threads : pc'[u] \in {"send", "wait", "scan"}
                                => pc[u] \in {"send", "wait", "scan"}
    BY <1>1, <1>4
    DEF Resolve, LoadIndex, SendFails, MaySend, Wake, Delivered, GiveUp, Leave, Exit, Goto, At,
        Leaving, Threads, ClientMessages, appVars, tableVars, netVars, logVars
  <2> QED
    BY <2>1, SlotFrame
<1> QED
  BY <1>2, <1>3, <1>4 DEF SendStep

(* The listener's steps: a CONFIRM answers a message that was sent. *)
LEMMA ListenerSlot ==
  ASSUME TypeOK, SlotInv,
         \/ ListenerStep
         \/ \E d \in toClient : NewPort(d) \/ Handle(d)
         \/ \E d \in SrvConfirms : HandleConfirm(d)
  PROVE  SlotInv'
<1>1. pc \in [Threads -> Places]
  BY DEF TypeOK, CallType
<1>2. CASE Grow \/ \E d \in SrvConfirms : HandleConfirm(d)
  <2>1. index >= 1 /\ index' = index
    BY <1>2 DEF Grow, At, HandleConfirm, SrvConfirms, SlotInv, ConfirmHasSlot, ClientMessages
  <2> QED
    BY <2>1 DEF SlotInv, ConfirmHasSlot
<1>3. CASE CreateSocket \/ Bind \/ WritePort \/ \E d \in toClient : NewPort(d) \/ Handle(d)
  <2>1. /\ index' = index /\ acked' = acked
        /\ pc'["listener"] = "grow" => pc["listener"] = "grow"
        /\ \A u \in Threads : pc'[u] \in {"send", "wait", "scan"}
                                => pc[u] \in {"send", "wait", "scan"}
    BY <1>1, <1>3
    DEF CreateSocket, Bind, WritePort, NewPort, Handle, HandleReply, HandleMsg, HandlePing,
        HandleErr, HandleBye, HandleMalformed, Handling, Fetched, Begin, Exit, Goto, At,
        Leaving, Threads, appVars, tableVars, logVars
  <2>2. ClientMessages' \subseteq ClientMessages
    BY <1>3
    DEF CreateSocket, Bind, WritePort, NewPort, Handle, HandleReply, HandleMsg, HandlePing,
        HandleErr, HandleBye, HandleMalformed, SendConfirm, ToPort, ClientMessages, netVars
  <2> QED
    BY <2>1, <2>2, SlotFrame
<1> QED
  BY <1>2, <1>3 DEF ListenerStep

(* add_confirmed_msg_id never writes before the table: whatever the network  *)
(* delivers and however often Ctrl-C interrupts a send, a CONFIRM finds an   *)
(* entry before the index.                                                   *)
THEOREM ConfirmsHaveASlot == Spec => []ConfirmHasSlot
<1>1. Init => SlotInv
  BY DEF Init, SlotInv, ConfirmHasSlot, ClientMessages, Threads
<1>2. TypeOK /\ SlotInv /\ [Next]_vars => SlotInv'
  <2> SUFFICES ASSUME TypeOK, SlotInv, [Next]_vars PROVE SlotInv'
    OBVIOUS
  <2>0. pc \in [Threads -> Places]
    BY DEF TypeOK, CallType
  <2>1. CASE UserStep \/ CommandStep \/ Server \/ Done \/ UNCHANGED vars
    <3>1. /\ index' = index /\ acked' = acked /\ ClientMessages' = ClientMessages
          /\ pc'["listener"] = pc["listener"]
          /\ \A u \in Threads : pc'[u] \in {"send", "wait", "scan"}
                                  => pc[u] \in {"send", "wait", "scan"}
      BY <2>0, <2>1
      DEF UserStep, CommandStep, Server, Dispatch, Refuse, EndOfInput, BadArguments, Compose,
          Begin, Goto, SrvReply, SrvSend, ServerStep, Done, Threads, ClientMessages, vars,
          tableVars, netVars, logVars
    <3> QED
      BY <3>1, SlotFrame
  <2>2. ASSUME NEW t \in Threads, Interrupt(t) PROVE SlotInv'
    <3>1. /\ index' = index /\ acked' = acked /\ ClientMessages' = ClientMessages
          /\ pc'["listener"] = "grow" => pc["listener"] = "grow"
          /\ \A u \in Threads : pc'[u] \in {"send", "wait", "scan"}
                                  => pc[u] \in {"send", "wait", "scan"}
      BY <2>0, <2>2
      DEF Interrupt, Begin, Goto, Threads, ClientMessages, tableVars, netVars
    <3> QED
      BY <3>1, SlotFrame
  <2> QED
    BY <2>1, <2>2, SendSlot, ListenerSlot DEF Next
<1>3. SlotInv => ConfirmHasSlot
  BY DEF SlotInv
<1> QED
  BY <1>1, <1>2, <1>3, TypeInvariant, PTL DEF Spec

-----------------------------------------------------------------------------
(* What the user has been shown is among the seen IDs, and an ID stands for  *)
(* one message of the server.                                                *)
ShownInv ==
    /\ \A d \in toClient : d.id < srvNext
    /\ \A d, e \in toClient : d.id = e.id => d = e
    /\ \A i \in ServerIds : i >= srvNext => acted[i] = 0
    /\ \A d \in toClient : d.type \in {"MSG", "ERR"} =>
         acted[d.id] = 0 \/ (acted[d.id] = 1 /\ d.id \in seen)

(* The client acts on a message of the server: nothing else is disturbed. *)
LEMMA ActShown ==
  ASSUME TypeOK, ShownInv, NEW d \in toClient, UNCHANGED <<toClient, srvNext>>,
         seen \subseteq seen',
         \/ acted' = acted
         \/ Act(d.id) /\ d.type = "REPLY"
         \/ Act(d.id) /\ d.id \notin seen /\ d.id \in seen'
  PROVE  ShownInv'
<1>1. /\ acted \in [ServerIds -> 0 .. 2] /\ srvNext \in Nat /\ ServerIds \subseteq Nat
      /\ \A e \in toClient : e.id \in ServerIds
  BY DEF TypeOK, LogType, NetType, FromServer, ServerIds
<1>2. \A i \in ServerIds : i # d.id => acted'[i] = acted[i]
  BY <1>1 DEF Act
<1>3. /\ \A e \in toClient' : e.id < srvNext'
      /\ \A e, f \in toClient' : e.id = f.id => e = f
  BY DEF ShownInv
<1>4. ASSUME NEW i \in ServerIds', i >= srvNext' PROVE acted'[i] = 0
  <2>1. i \in ServerIds /\ i # d.id /\ acted[i] = 0
    BY <1>1, <1>4 DEF ShownInv, ServerIds
  <2> QED
    BY <1>2, <2>1
<1>5. ASSUME NEW e \in toClient', e.type \in {"MSG", "ERR"}
      PROVE  acted'[e.id] = 0 \/ (acted'[e.id] = 1 /\ e.id \in seen')
  <2>1. e \in toClient /\ e.id \in ServerIds
        /\ (acted[e.id] = 0 \/ (acted[e.id] = 1 /\ e.id \in seen))
    BY <1>1, <1>5 DEF ShownInv
  <2>2. CASE e.id # d.id
    BY <1>2, <2>1, <2>2
  <2>3. CASE e.id = d.id
    <3>1. e = d
      BY <2>1, <2>3 DEF ShownInv
    <3>2. CASE acted' = acted
      BY <2>1, <3>2
    <3>3. CASE Act(d.id) /\ d.id \notin seen /\ d.id \in seen'
      BY <1>1, <2>1, <3>1, <3>3 DEF Act
    <3> QED
      BY <1>5, <3>1, <3>2, <3>3
  <2> QED
    BY <2>2, <2>3
<1> QED
  BY <1>3, <1>4, <1>5 DEF ShownInv

(* A new message of the server has an ID nobody has seen. *)
LEMMA ServerShown ==
  ASSUME TypeOK, ShownInv, Server
  PROVE  ShownInv'
<1>1. PICK d : /\ toClient' = toClient \cup {d} /\ d.id = srvNext
               /\ srvNext' = srvNext + 1 /\ srvNext < MaxServerIds
               /\ UNCHANGED <<acted, seen>>
  <2>1. ASSUME NEW m \in Requests, NEW result, SrvReply(m, result)
        PROVE  /\ ServerStep(Reply(srvNext, m.id, result))
               /\ Reply(srvNext, m.id, result).id = srvNext
               /\ srvNext' = srvNext + 1 /\ srvNext < MaxServerIds
    BY <2>1 DEF SrvReply, Reply
  <2>2. ASSUME NEW kind \in ServerKinds, SrvSend(kind)
        PROVE  /\ ServerStep(Datagram(kind, srvNext))
               /\ Datagram(kind, srvNext).id = srvNext
               /\ srvNext' = srvNext + 1 /\ srvNext < MaxServerIds
    BY <2>2 DEF SrvSend, Datagram
  <2> QED
    BY <2>1, <2>2 DEF Server, ServerStep, appVars, logVars
<1>2. /\ srvNext \in Nat /\ MaxServerIds \in Nat /\ srvNext \in ServerIds
      /\ \A e \in toClient : e.id \in Nat
      /\ \A i \in ServerIds : i \in Nat
  BY <1>1, ConstantsAssumption
  DEF TypeOK, NetType, FromServer, ServerIds, ConstantsAssumption
<1>3. acted[srvNext] = 0
  BY <1>2 DEF ShownInv
<1>4. /\ \A e \in toClient' : e.id < srvNext'
      /\ \A e, f \in toClient' : e.id = f.id => e = f
  BY <1>1, <1>2 DEF ShownInv
<1>5. \A i \in ServerIds : i >= srvNext + 1 => acted[i] = 0
  BY <1>2 DEF ShownInv
<1>6. \A e \in toClient' : e.type \in {"MSG", "ERR"} =>
        acted[e.id] = 0 \/ (acted[e.id] = 1 /\ e.id \in seen)
  BY <1>1, <1>3 DEF ShownInv
<1> QED
  BY <1>1, <1>4, <1>5, <1>6 DEF ShownInv

(* A MSG or ERR of the server is shown at most once, however often the      *)
(* network repeats it, whatever comes in between and wherever Ctrl-C hits.  *)
THEOREM MessagesAreShownOnce == Spec => []ShownOnce
<1>1. Init => ShownInv
  BY DEF Init, ShownInv, ServerIds
<1>2. TypeOK /\ ShownInv /\ [Next]_vars => ShownInv'
  <2> SUFFICES ASSUME TypeOK, ShownInv, [Next]_vars PROVE ShownInv'
    OBVIOUS
  <2>1. ASSUME UNCHANGED <<toClient, srvNext, acted, seen>> PROVE ShownInv'
    BY <2>1 DEF ShownInv
  <2>2. CASE UserStep \/ CommandStep \/ ListenerStep \/ Done \/ UNCHANGED vars
    BY <2>1, <2>2
    DEF UserStep, CommandStep, ListenerStep, Dispatch, Refuse, EndOfInput, BadArguments,
        Compose, CreateSocket, Bind, WritePort, Grow, Done, vars, appVars, netVars, logVars
  <2>3. ASSUME NEW t \in Threads, SendStep(t) \/ Interrupt(t) PROVE ShownInv'
    BY <2>1, <2>3
    DEF SendStep, Resolve, LoadIndex, StoreIndex, SendTo, SendFails, Wake, Delivered, GiveUp,
        Leave, Interrupt, appVars, netVars, logVars
  <2>4. CASE \/ \E d \in toClient : NewPort(d)
             \/ \E d \in SrvConfirms : HandleConfirm(d)
    BY <2>1, <2>4 DEF NewPort, HandleConfirm, netVars, logVars
  <2>5. ASSUME NEW d \in toClient, Handle(d) PROVE ShownInv'
    <3>1. UNCHANGED <<toClient, srvNext>> /\ seen \subseteq seen'
      BY <2>5
      DEF Handle, HandleReply, HandleMsg, HandlePing, HandleErr, HandleBye, HandleMalformed,
          appVars, netVars
    <3>2. \/ acted' = acted
          \/ Act(d.id) /\ d.type = "REPLY"
          \/ Act(d.id) /\ d.id \notin seen /\ d.id \in seen'
      BY <2>5
      DEF Handle, HandleReply, HandleMsg, HandlePing, HandleErr, HandleBye, HandleMalformed,
          Handling, FirstTime, logVars
    <3> QED
      BY <3>1, <3>2, ActShown
  <2> QED
    BY <2>2, <2>3, <2>4, <2>5, ServerShown DEF Next
<1>3. TypeOK /\ ShownInv => ShownOnce
  BY DEF ShownInv, ShownOnce
<1> QED
  BY <1>1, <1>2, <1>3, TypeInvariant, PTL DEF Spec
=============================================================================

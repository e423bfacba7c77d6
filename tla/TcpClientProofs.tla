-------------------------- MODULE TcpClientProofs --------------------------
(***************************************************************************)
(* TcpClient for every value of its constants: its types, that a session   *)
(* has an accepted AUTH behind it, that BYE is the last command, and that a *)
(* JOIN has its reply still to come.                                        *)
(***************************************************************************)
EXTENDS TcpClient, SequenceTheorems, FiniteSetTheorems, TLAPS

(* A command is in hand where one is sent or becomes the state. *)
TypeInv ==
    /\ TypeOK
    /\ At("main", "exec") \/ At("main", "send") => cmd \in Commands

Quit == {"bye", "exit", "close", "closing", "flush"}

(* Why AuthenticatedSession is inductive: as long as the server has         *)
(* accepted no AUTH, no OK is on its way, so that neither the state nor a   *)
(* command in hand or on the wire belongs to a session.                     *)
SessionInv ==
    ~accepted =>
        /\ state \notin {"OPEN", "JOIN"} /\ cmd \notin {"JOIN", "MSG"}
        /\ toServer \in Seq(Sendable \ {"JOIN", "MSG"})
        /\ inbox \in Seq(Receivable \ {"OK"}) /\ chunk \in Seq(Receivable \ {"OK"})

(* Why NoCommandAfterBye is inductive: whoever sends BYE, the main thread   *)
(* has begun to leave, and it never comes back to a command.                *)
QuitInv ==
    /\ NoCommandAfterBye
    /\ "main" \in masked => pc["main"] \in Quit
    /\ pc["listener"] = "bye" => "main" \in masked
    /\ pc["main"] \in Quit \/ toServer \in Seq(Sendable \ {"BYE"})

-----------------------------------------------------------------------------
(* What a send does to the messages on their way and to the thread. *)
LEMMA SendAppends ==
  ASSUME NEW S, toServer \in Seq(S), NEW m \in S, NEW t, NEW next, Send(t, m, next)
  PROVE  toServer' \in Seq(S)
<1>1. Append(toServer, m) \in Seq(S)
  BY AppendProperties
<1> QED
  BY <1>1 DEF Send

(* The steps at the end of the process keep the types. *)
LEMMA ExitType ==
  ASSUME TypeInv, NEW t \in Threads, ExitStep(t)
  PROVE  TypeInv'
<1>1. CASE SendBye(t)
  <2>1. toServer' \in Seq(Sendable)
    <3>1. toServer \in Seq(Sendable) /\ "BYE" \in Sendable
      BY DEF TypeInv, TypeOK, Sendable
    <3>2. Send(t, "BYE", "exit")
      BY <1>1 DEF SendBye
    <3> QED
      BY <3>1, <3>2, SendAppends
  <2>2. \/ exit' = exit /\ pc' = [pc EXCEPT ![t] = "exit"]
        \/ exit' = "killed" /\ pc' = pc
    BY <1>1 DEF SendBye, Send, Goto
  <2> QED
    BY <1>1, <2>1, <2>2 DEF SendBye, logVars, TypeInv, TypeOK, At, Places, Threads
<1>2. CASE Stop(t)
  <2>1. /\ pc' \in {[pc EXCEPT ![t] = "flush"], [pc EXCEPT ![t] = "close"]}
        /\ sock' \in {"open", "shut", "none"} /\ running' \in BOOLEAN /\ cleaned' \in BOOLEAN
    BY <1>2 DEF Stop, Goto, TypeInv, TypeOK
  <2> QED
    BY <1>2, <2>1 DEF Stop, netVars, logVars, TypeInv, TypeOK, At, Places, Threads
<1>3. CASE Close(t)
  <2>1. /\ pc' \in {[pc EXCEPT ![t] = "flush"], [pc EXCEPT ![t] = "closing"]}
        /\ sock' \in {sock, "none"}
        /\ UNCHANGED <<state, running, cleaned, exit, chunk, masked, cmd>>
        /\ UNCHANGED <<netVars, logVars>>
    BY <1>3 DEF Close, TestSocket, CloseSocket, Goto
  <2> QED
    BY <2>1 DEF netVars, logVars, TypeInv, TypeOK, At, Places, Threads
<1>4. CASE Leave(t)
  BY <1>4 DEF Leave, netVars, logVars, TypeInv, TypeOK, At
<1> QED
  BY <1>1, <1>2, <1>3, <1>4 DEF ExitStep

(* The steps of the user, the main thread and Ctrl-C keep the types. *)
LEMMA MainType ==
  ASSUME TypeInv, UserStep \/ MainStep \/ \E t \in Threads : Interrupt(t)
  PROVE  TypeInv'
<1> USE DEF TypeInv, TypeOK, At, Places, Threads
<1>1. ASSUME NEW c \in Commands, Dispatch(c) PROVE TypeInv'
  BY <1>1 DEF Dispatch, Goto, netVars
<1>2. CASE EndOfInput
  BY <1>2 DEF EndOfInput, Goto, appVars, netVars, logVars
<1>3. CASE BadArguments
  BY <1>3 DEF BadArguments, Goto, appVars, netVars, logVars
<1>4. CASE SetState
  <2>1. cmd \in Commands
    BY <1>4 DEF SetState, At
  <2>2. state' \in {"START", "AUTH", "OPEN", "JOIN"}
    BY <1>4, <2>1 DEF SetState, Commands
  <2> QED
    BY <1>4, <2>1, <2>2 DEF SetState, Goto, netVars, logVars
<1>5. CASE SendCommand
  <2>1. toServer \in Seq(Sendable) /\ cmd \in Sendable
    BY <1>5 DEF SendCommand, At, Sendable
  <2>2. toServer' \in Seq(Sendable)
    BY <1>5, <2>1, SendAppends DEF SendCommand
  <2>3. (exit' = "killed" /\ pc' = pc) \/ (exit' = exit /\ pc' = [pc EXCEPT !["main"] = "input"])
    BY <1>5 DEF SendCommand, Send, Goto
  <2> QED
    BY <1>5, <2>2, <2>3 DEF SendCommand, logVars
<1>6. ASSUME NEW t \in Threads, Interrupt(t) PROVE TypeInv'
  BY <1>6 DEF Interrupt, Goto, netVars
<1> QED
  BY <1>1, <1>2, <1>3, <1>4, <1>5, <1>6 DEF UserStep, MainStep

(* Taking messages from the front of a sequence keeps its type. *)
LEMMA PartsOfSeq ==
  ASSUME NEW S, NEW s \in Seq(S)
  PROVE  /\ \A n \in 1 .. Len(s) :
              SubSeq(s, 1, n) \in Seq(S) /\ SubSeq(s, n + 1, Len(s)) \in Seq(S)
         /\ s # <<>> => Tail(s) \in Seq(S)
<1>1. Len(s) \in Nat /\ \A i \in 1 .. Len(s) : s[i] \in S
  BY ElementOfSeq, LenProperties
<1>2. ASSUME NEW n \in 1 .. Len(s)
      PROVE  SubSeq(s, 1, n) \in Seq(S) /\ SubSeq(s, n + 1, Len(s)) \in Seq(S)
  <2>1. SubSeq(s, 1, n) \in Seq(S)
    BY <1>1, SubSeqProperties
  <2>2. SubSeq(s, n + 1, Len(s)) \in Seq(S)
    BY <1>1, SubSeqProperties
  <2> QED
    BY <2>1, <2>2
<1>3. s # <<>> => Tail(s) \in Seq(S)
  BY HeadTailProperties
<1> QED
  BY <1>2, <1>3

(* What the listener's steps do to the received messages: they come from    *)
(* the inbox or from the chunk.                                             *)
LEMMA ListenerQueues ==
  ASSUME NEW S, inbox \in Seq(S), chunk \in Seq(S), ListenerStep
  PROVE  inbox' \in Seq(S) /\ chunk' \in Seq(S)
<1>1. ASSUME NEW n \in 1 .. Len(inbox), Recv(n)
      PROVE  inbox' \in Seq(S) /\ chunk' \in Seq(S)
  BY <1>1, PartsOfSeq DEF Recv
<1>2. CASE HandleReply \/ HandleMsg \/ HandleFinal
  <2>1. chunk # <<>> /\ chunk' = Tail(chunk) /\ inbox' = inbox
    BY <1>2 DEF HandleReply, HandleMsg, HandleFinal, Handling, Unchanged, netVars
  <2> QED
    BY <2>1, PartsOfSeq
<1>3. CASE Start \/ LoopEnds \/ DropConnection \/ SendErr \/ ChunkDone
  BY <1>3
  DEF Start, LoopEnds, DropConnection, TestSocket, CloseSocket, SendErr, ChunkDone,
      appVars, netVars
<1> QED
  BY <1>1, <1>2, <1>3 DEF ListenerStep

(* The listener's steps keep the types. *)
LEMMA ListenerType ==
  ASSUME TypeInv, ListenerStep
  PROVE  TypeInv'
<1>1. inbox' \in Seq(Receivable) /\ chunk' \in Seq(Receivable)
  BY ListenerQueues DEF TypeInv, TypeOK
<1>2. CASE SendErr
  <2>1. toServer \in Seq(Sendable) /\ "ERR" \in Sendable
    BY DEF TypeInv, TypeOK, Sendable
  <2>2. toServer' \in Seq(Sendable)
    BY <1>2, <2>1, SendAppends DEF SendErr
  <2>3. \/ exit' = exit /\ pc' = [pc EXCEPT !["listener"] = "exit"]
        \/ exit' = "killed" /\ pc' = pc
    BY <1>2 DEF SendErr, Send, Goto
  <2> QED
    BY <1>2, <2>2, <2>3 DEF SendErr, logVars, TypeInv, TypeOK, At, Places, Threads
<1>3. CASE Start \/ LoopEnds \/ DropConnection \/ ChunkDone
  <2>1. /\ \E x \in Places : pc' = [pc EXCEPT !["listener"] = x]
        /\ sock' \in {sock, "none"} /\ running' \in {running, TRUE, FALSE}
        /\ UNCHANGED <<state, cleaned, exit, masked, cmd>>
        /\ UNCHANGED <<netVars, logVars>>
    BY <1>3
    DEF Start, LoopEnds, DropConnection, TestSocket, CloseSocket, ChunkDone, appVars, Goto,
        Places
  <2>2. pc' \in [Threads -> Places] /\ pc'["main"] = pc["main"]
    BY <2>1 DEF TypeInv, TypeOK, Threads
  <2>3. sock' \in {"open", "shut", "none"} /\ running' \in BOOLEAN
    BY <2>1 DEF TypeInv, TypeOK
  <2>4. UNCHANGED <<toServer, peer, answered, accepted, replied, typed, written, interrupts>>
    BY <2>1 DEF netVars, logVars
  <2> QED
    BY <1>1, <2>1, <2>2, <2>3, <2>4 DEF TypeInv, TypeOK, At
<1>4. ASSUME NEW n \in 1 .. Len(inbox), Recv(n) PROVE TypeInv'
  BY <1>1, <1>4 DEF Recv, Goto, logVars, TypeInv, TypeOK, At, Places, Threads
<1>5. CASE HandleReply \/ HandleMsg \/ HandleFinal
  <2>1. /\ pc' = pc \/ \E x \in Places : pc' = [pc EXCEPT !["listener"] = x]
        /\ state' \in {state, "OPEN"} /\ replied' \in {replied, replied + 1}
        /\ Unchanged
    BY <1>5
    DEF HandleReply, HandleMsg, HandleFinal, StateAfter, Goto, Places
  <2>2. replied' \in Nat /\ state' \in {"START", "AUTH", "OPEN", "JOIN"}
    BY <2>1 DEF TypeInv, TypeOK
  <2>3. pc' \in [Threads -> Places] /\ pc'["main"] = pc["main"]
    BY <2>1 DEF TypeInv, TypeOK, Threads
  <2>4. UNCHANGED <<sock, running, cleaned, exit, masked, cmd, toServer, peer, answered,
                    accepted, typed, written, interrupts>>
    BY <2>1 DEF Unchanged, netVars
  <2> QED
    BY <1>1, <2>2, <2>3, <2>4 DEF TypeInv, TypeOK, At
<1> QED
  BY <1>2, <1>3, <1>4, <1>5 DEF ListenerStep

(* The server writes one message, or none. *)
LEMMA ServerQueue ==
  ASSUME NEW S, inbox \in Seq(S), Server,
         \A m \in ServerKinds : m \in S,
         "NOK" \in S, "OK" \in S \/ ~accepted'
  PROVE  inbox' \in Seq(S)
<1>1. ASSUME NEW result \in {"OK", "NOK"}, SrvReply(result) PROVE inbox' \in Seq(S)
  BY <1>1, AppendProperties DEF SrvReply, SrvWrite
<1>2. ASSUME NEW kind \in ServerKinds, SrvSend(kind) PROVE inbox' \in Seq(S)
  BY <1>2, AppendProperties DEF SrvSend, SrvWrite
<1>3. CASE SrvClose
  BY <1>3 DEF SrvClose
<1> QED
  BY <1>1, <1>2, <1>3 DEF Server

(* The server's steps keep the types. *)
LEMMA ServerType ==
  ASSUME TypeInv, Server
  PROVE  TypeInv'
<1>1. inbox' \in Seq(Receivable)
  BY ServerQueue DEF TypeInv, TypeOK, Receivable
<1>2. ASSUME NEW result \in {"OK", "NOK"}, SrvReply(result) PROVE TypeInv'
  BY <1>1, <1>2 DEF SrvReply, SrvWrite, appVars, TypeInv, TypeOK, At
<1>3. ASSUME NEW kind \in ServerKinds, SrvSend(kind) PROVE TypeInv'
  BY <1>1, <1>3 DEF SrvSend, SrvWrite, appVars, TypeInv, TypeOK, At
<1>4. CASE SrvClose
  BY <1>4 DEF SrvClose, appVars, logVars, TypeInv, TypeOK, At
<1> QED
  BY <1>2, <1>3, <1>4 DEF Server

(* Every step keeps the types. *)
LEMMA TypeStep ==
  ASSUME TypeInv, [Next]_vars
  PROVE  TypeInv'
<1>1. CASE UNCHANGED vars
  BY <1>1 DEF vars, appVars, netVars, logVars, TypeInv, TypeOK, At
<1> QED
  BY <1>1, ExitType, MainType, ListenerType, ServerType DEF Next, Done

(* The initial state has the types. *)
LEMMA InitType == Init => TypeInv
<1> SUFFICES ASSUME Init PROVE TypeInv
  OBVIOUS
<1>1. chunk \in Seq(Receivable) /\ inbox \in Seq(Receivable) /\ toServer \in Seq(Sendable)
  BY EmptySeq DEF Init
<1>2. pc \in [Threads -> Places] /\ pc["main"] = "input"
  BY DEF Init, Threads, Places
<1> QED
  BY <1>1, <1>2 DEF Init, TypeInv, TypeOK, At

(* Every variable of the TCP client keeps its type: the declarations of     *)
(* network_tcp.c and main.c, under every schedule of the threads, the user  *)
(* and the server.                                                          *)
THEOREM TcpTypeInvariant == Spec => []TypeOK
<1>1. Init => TypeInv
  BY InitType
<1>2. TypeInv /\ [Next]_vars => TypeInv'
  BY TypeStep
<1>3. TypeInv => TypeOK
  BY DEF TypeInv
<1> QED
  BY <1>1, <1>2, <1>3, PTL DEF Spec

-----------------------------------------------------------------------------
(* The main thread takes up a command of the session only in state OPEN,    *)
(* and sends no other.                                                      *)
LEMMA MainSession ==
  ASSUME TypeInv, SessionInv, UserStep \/ MainStep, ~accepted'
  PROVE  SessionInv'
<1>1. ASSUME NEW c \in Commands, Dispatch(c) PROVE SessionInv'
  BY <1>1 DEF Dispatch, Accepts, netVars, SessionInv, TypeInv, TypeOK, Commands
<1>2. CASE EndOfInput
  BY <1>2 DEF EndOfInput, appVars, netVars, SessionInv
<1>3. CASE BadArguments
  BY <1>3 DEF BadArguments, appVars, netVars, SessionInv
<1>4. CASE SetState
  <2>1. cmd \in Commands
    BY <1>4 DEF SetState, TypeInv
  <2> QED
    BY <1>4, <2>1 DEF SetState, netVars, SessionInv, Commands
<1>5. CASE SendCommand
  <2>1. ~accepted /\ cmd \in Commands
    BY <1>5 DEF SendCommand, TypeInv
  <2>2. /\ toServer \in Seq(Sendable \ {"JOIN", "MSG"})
        /\ cmd \in Sendable \ {"JOIN", "MSG"}
    BY <2>1 DEF SessionInv, Sendable
  <2>3. toServer' \in Seq(Sendable \ {"JOIN", "MSG"})
    BY <1>5, <2>2, SendAppends DEF SendCommand
  <2> QED
    BY <1>5, <2>1, <2>3 DEF SendCommand, SessionInv
<1> QED
  BY <1>1, <1>2, <1>3, <1>4, <1>5 DEF UserStep, MainStep

(* The listener opens the session only on an OK that it has received. *)
LEMMA ListenerSession ==
  ASSUME TypeInv, SessionInv, ListenerStep, ~accepted'
  PROVE  SessionInv'
<1>1. ~accepted
  BY DEF ListenerStep, Start, Recv, LoopEnds, DropConnection, TestSocket, CloseSocket,
      HandleReply, HandleMsg, HandleFinal, SendErr, ChunkDone, Unchanged, netVars
<1>2. inbox' \in Seq(Receivable \ {"OK"}) /\ chunk' \in Seq(Receivable \ {"OK"})
  BY <1>1, ListenerQueues DEF SessionInv
<1>3. CASE SendErr
  <2>1. toServer \in Seq(Sendable \ {"JOIN", "MSG"}) /\ "ERR" \in Sendable \ {"JOIN", "MSG"}
    BY <1>1 DEF SessionInv, Sendable
  <2>2. toServer' \in Seq(Sendable \ {"JOIN", "MSG"})
    BY <1>3, <2>1, SendAppends DEF SendErr
  <2> QED
    BY <1>1, <1>2, <1>3, <2>2 DEF SendErr, SessionInv
<1>4. CASE HandleReply
  <2>1. chunk # <<>> /\ Head(chunk) # "OK"
    BY <1>1, <1>4, HeadTailProperties DEF HandleReply, Handling, SessionInv
  <2>2. state' = state
    BY <1>1, <1>4, <2>1 DEF HandleReply, StateAfter, SessionInv
  <2> QED
    BY <1>1, <1>2, <1>4, <2>2 DEF HandleReply, Unchanged, netVars, SessionInv
<1>5. CASE ~SendErr /\ ~HandleReply
  <2>1. UNCHANGED <<state, cmd, toServer>>
    BY <1>5
    DEF ListenerStep, Start, Recv, LoopEnds, DropConnection, TestSocket, CloseSocket,
        HandleMsg, HandleFinal, ChunkDone, Unchanged, appVars, netVars
  <2> QED
    BY <1>1, <1>2, <2>1 DEF SessionInv
<1> QED
  BY <1>3, <1>4, <1>5

(* Every step keeps SessionInv; what is left is the server, the end of the  *)
(* process and Ctrl-C.                                                      *)
LEMMA SessionStep ==
  ASSUME TypeInv, SessionInv, [Next]_vars
  PROVE  SessionInv'
<1> SUFFICES ASSUME ~accepted' PROVE SessionInv'
  BY DEF SessionInv
<1>1. CASE UNCHANGED vars
  BY <1>1 DEF vars, appVars, netVars, SessionInv
<1>2. CASE Server
  <2>1. ~accepted /\ UNCHANGED <<state, cmd, toServer, chunk>>
    <3>1. ASSUME NEW result \in {"OK", "NOK"}, SrvReply(result)
          PROVE  ~accepted /\ UNCHANGED <<state, cmd, toServer, chunk>>
      BY <3>1 DEF SrvReply, SrvWrite, appVars
    <3>2. ASSUME NEW kind \in ServerKinds, SrvSend(kind)
          PROVE  ~accepted /\ UNCHANGED <<state, cmd, toServer, chunk>>
      BY <3>2 DEF SrvSend, SrvWrite, appVars
    <3>3. CASE SrvClose
      BY <3>3 DEF SrvClose, appVars
    <3> QED
      BY <1>2, <3>1, <3>2, <3>3 DEF Server
  <2>2. \A m \in ServerKinds : m \in Receivable \ {"OK"}
    BY TcpAssumption DEF Receivable
  <2>3. inbox' \in Seq(Receivable \ {"OK"})
    <3>1. inbox \in Seq(Receivable \ {"OK"}) /\ "NOK" \in Receivable \ {"OK"}
      BY <2>1 DEF SessionInv, Receivable
    <3> QED
      BY <1>2, <2>2, <3>1, ServerQueue
  <2> QED
    BY <2>1, <2>3 DEF SessionInv
<1>3. ASSUME NEW t \in Threads, ExitStep(t) \/ Interrupt(t) PROVE SessionInv'
  <2>1. ~accepted /\ UNCHANGED <<state, cmd, inbox, chunk>>
    BY <1>3
    DEF ExitStep, SendBye, Stop, Close, TestSocket, CloseSocket, Leave, Interrupt, netVars
  <2>2. toServer \in Seq(Sendable \ {"JOIN", "MSG"}) /\ "BYE" \in Sendable \ {"JOIN", "MSG"}
    BY <2>1 DEF SessionInv, Sendable
  <2>3. toServer' \in Seq(Sendable \ {"JOIN", "MSG"})
    <3>1. CASE SendBye(t)
      BY <3>1, <2>2, SendAppends DEF SendBye
    <3>2. CASE ~SendBye(t)
      BY <1>3, <2>2, <3>2
      DEF ExitStep, Stop, Close, TestSocket, CloseSocket, Leave, Interrupt, netVars
    <3> QED
      BY <3>1, <3>2
  <2> QED
    BY <2>1, <2>3 DEF SessionInv
<1> QED
  BY <1>1, <1>2, <1>3, MainSession, ListenerSession DEF Next, Done

(* On TCP as well, the client is in a session (OPEN, JOIN), or has sent     *)
(* JOIN or MSG, only after the server accepted an AUTH, although the state  *)
(* is written by both threads and replies are not matched with requests.    *)
THEOREM TcpSessionIsAuthenticated == Spec => []AuthenticatedSession
<1>1. Init => TypeInv /\ SessionInv
  <2>1. Init => SessionInv
    BY EmptySeq DEF Init, SessionInv
  <2> QED
    BY <2>1, InitType
<1>2. TypeInv /\ SessionInv /\ [Next]_vars => (TypeInv /\ SessionInv)'
  BY TypeStep, SessionStep
<1>3. TypeInv /\ SessionInv => AuthenticatedSession
  BY ElementOfSeq DEF SessionInv, AuthenticatedSession
<1> QED
  BY <1>1, <1>2, <1>3, PTL DEF Spec

-----------------------------------------------------------------------------
(* A message that is no command may follow any other; a command may follow  *)
(* messages without a BYE.                                                  *)
LEMMA LastWord ==
  ASSUME toServer \in Seq(Sendable), NoCommandAfterBye, NEW m \in Sendable,
         toServer' = Append(toServer, m),
         m \notin Commands \/ toServer \in Seq(Sendable \ {"BYE"})
  PROVE  NoCommandAfterBye'
<1>1. /\ Len(toServer) \in Nat /\ Len(toServer') = Len(toServer) + 1
      /\ \A i \in 1 .. Len(toServer) : toServer'[i] = toServer[i]
      /\ toServer'[Len(toServer) + 1] = m
  BY AppendProperties, LenProperties
<1>2. DOMAIN toServer = 1 .. Len(toServer) /\ DOMAIN toServer' = 1 .. Len(toServer')
  BY AppendProperties, LenProperties
<1>3. SUFFICES ASSUME NEW i \in DOMAIN toServer', NEW j \in DOMAIN toServer',
                      i < j, toServer'[i] = "BYE"
               PROVE  toServer'[j] \notin Commands
  BY DEF NoCommandAfterBye
<1>4. i \in DOMAIN toServer /\ toServer[i] = "BYE"
  BY <1>1, <1>2, <1>3
<1>5. m \notin Commands
  BY <1>2, <1>4, ElementOfSeq
<1>6. CASE j \in DOMAIN toServer
  BY <1>1, <1>2, <1>3, <1>4, <1>6 DEF NoCommandAfterBye
<1>7. CASE j = Len(toServer) + 1
  BY <1>1, <1>5, <1>7
<1> QED
  BY <1>1, <1>2, <1>3, <1>6, <1>7

(* A send of a thread that may: the last word stays the last. *)
LEMMA SendKeepsLastWord ==
  ASSUME TypeInv, QuitInv, NEW m \in Sendable, NEW t, NEW next, Send(t, m, next),
         m \notin Commands \/ pc["main"] \notin Quit
  PROVE  NoCommandAfterBye'
<1>1. toServer' = toServer \/ toServer' = Append(toServer, m)
  BY DEF Send
<1>2. CASE toServer' = toServer
  BY <1>2 DEF QuitInv, NoCommandAfterBye
<1>3. CASE toServer' = Append(toServer, m)
  BY <1>3, LastWord DEF QuitInv, TypeInv, TypeOK
<1> QED
  BY <1>1, <1>2, <1>3

(* The steps that send. *)
LEMMA SendQuit ==
  ASSUME TypeInv, QuitInv, SendCommand \/ SendErr \/ \E t \in Threads : SendBye(t)
  PROVE  QuitInv'
<1>1. CASE SendCommand
  <2>1. cmd \in Sendable \ {"BYE"} /\ pc["main"] \notin Quit
    BY <1>1 DEF SendCommand, At, TypeInv, Sendable, Commands, Quit
  <2>2. NoCommandAfterBye'
    BY <1>1, <2>1, SendKeepsLastWord DEF SendCommand
  <2>3. toServer' \in Seq(Sendable \ {"BYE"})
    BY <1>1, <2>1, SendAppends DEF SendCommand, QuitInv
  <2>4. pc'["listener"] = pc["listener"] /\ masked' = masked
    BY <1>1 DEF SendCommand, Send, Goto, TypeInv, TypeOK, Threads
  <2> QED
    BY <2>1, <2>2, <2>3, <2>4 DEF QuitInv
<1>2. CASE SendErr
  <2>1. NoCommandAfterBye'
    BY <1>2, SendKeepsLastWord DEF SendErr, Sendable, Commands
  <2>2. pc["main"] \in Quit \/ toServer' \in Seq(Sendable \ {"BYE"})
    BY <1>2, SendAppends DEF SendErr, QuitInv, Sendable
  <2>3. /\ pc'["main"] = pc["main"] /\ pc'["listener"] # "bye" /\ masked' = masked
    BY <1>2 DEF SendErr, At, Send, Goto, TypeInv, TypeOK, Threads
  <2> QED
    BY <2>1, <2>2, <2>3 DEF QuitInv
<1>3. ASSUME NEW t \in Threads, SendBye(t) PROVE QuitInv'
  <2>1. NoCommandAfterBye'
    BY <1>3, SendKeepsLastWord DEF SendBye, Sendable, Commands
  <2>2. pc["main"] \in Quit /\ masked' = masked
    BY <1>3 DEF SendBye, At, QuitInv, Threads, Quit
  <2>3. /\ pc'["main"] \in Quit
        /\ pc'["listener"] = "bye" => pc["listener"] = "bye"
    BY <1>3, <2>2 DEF SendBye, Send, Goto, TypeInv, TypeOK, Threads, Quit
  <2> QED
    BY <2>1, <2>2, <2>3 DEF QuitInv
<1> QED
  BY <1>1, <1>2, <1>3

(* A step that does not send keeps QuitInv if it keeps the main thread on   *)
(* its way out.                                                             *)
LEMMA QuitKept ==
  ASSUME QuitInv, UNCHANGED toServer,
         pc["main"] \in Quit => pc'["main"] \in Quit,
         "main" \in masked' => "main" \in masked \/ pc'["main"] \in Quit,
         "main" \in masked => "main" \in masked',
         pc'["listener"] = "bye" => pc["listener"] = "bye" \/ "main" \in masked'
  PROVE  QuitInv'
<1>1. NoCommandAfterBye'
  BY DEF QuitInv, NoCommandAfterBye
<1> QED
  BY <1>1 DEF QuitInv

(* Every step keeps QuitInv. *)
LEMMA QuitStep ==
  ASSUME TypeInv, QuitInv, [Next]_vars
  PROVE  QuitInv'
<1>1. CASE UNCHANGED vars
  BY <1>1, QuitKept DEF vars, appVars, netVars
<1>2. CASE SendCommand \/ SendErr \/ \E t \in Threads : SendBye(t)
  BY <1>2, SendQuit
<1>3. ASSUME NEW c \in Commands, Dispatch(c) PROVE QuitInv'
  BY <1>3, QuitKept DEF Dispatch, At, Goto, netVars, TypeInv, TypeOK, Threads, Quit
<1>4. CASE EndOfInput \/ BadArguments \/ SetState
  BY <1>4, QuitKept
  DEF EndOfInput, BadArguments, SetState, At, Goto, appVars, netVars, TypeInv, TypeOK,
      Threads, Quit
<1>5. ASSUME NEW t \in Threads, Stop(t) \/ Close(t) \/ Leave(t) PROVE QuitInv'
  BY <1>5, QuitKept
  DEF Stop, Close, TestSocket, CloseSocket, Leave, At, Goto, netVars, TypeInv, TypeOK,
      Threads, Quit
<1>6. ASSUME NEW t \in Threads, Interrupt(t) PROVE QuitInv'
  BY <1>6, QuitKept
  DEF Interrupt, SigintTarget, Goto, netVars, TypeInv, TypeOK, Threads, Quit
<1>7. CASE ListenerStep /\ ~SendErr
  <2>1. /\ UNCHANGED <<toServer, masked>>
        /\ pc' = pc \/ \E x \in Places \ {"bye"} : pc' = [pc EXCEPT !["listener"] = x]
    BY <1>7
    DEF ListenerStep, Start, Recv, LoopEnds, DropConnection, TestSocket, CloseSocket,
        HandleReply, HandleMsg, HandleFinal, ChunkDone, Unchanged, Goto, appVars, netVars,
        Places
  <2>2. pc'["main"] = pc["main"] /\ (pc'["listener"] = "bye" => pc["listener"] = "bye")
    BY <2>1 DEF TypeInv, TypeOK, Threads
  <2> QED
    BY <2>1, <2>2, QuitKept
<1>8. CASE Server
  BY <1>8, QuitKept DEF Server, SrvReply, SrvSend, SrvWrite, SrvClose, appVars
<1> QED
  BY <1>1, <1>2, <1>3, <1>4, <1>5, <1>6, <1>7, <1>8
  DEF Next, UserStep, MainStep, ExitStep, Done

(* After BYE, whether Ctrl-C, the end of the input or Ctrl-C during another *)
(* BYE sent it, no command follows: graceful_quit never gives the main      *)
(* thread back, and SIGINT reaches the listener only while the main thread  *)
(* is in it.                                                                *)
THEOREM ByeIsTheLastCommand == Spec => []NoCommandAfterBye
<1>1. Init => TypeInv /\ QuitInv
  <2>1. Init => QuitInv
    BY EmptySeq DEF Init, QuitInv, NoCommandAfterBye, Quit, Threads
  <2> QED
    BY <2>1, InitType
<1>2. TypeInv /\ QuitInv /\ [Next]_vars => (TypeInv /\ QuitInv)'
  BY TypeStep, QuitStep
<1>3. TypeInv /\ QuitInv => NoCommandAfterBye
  BY DEF QuitInv
<1> QED
  BY <1>1, <1>2, <1>3, PTL DEF Spec
-----------------------------------------------------------------------------
(* Replies and requests are counted.  A tally of s begins at a or above     *)
(* before its first message, rises at every reply and ends at b: at most    *)
(* b - a replies are among them.                                            *)
Replies == {"OK", "NOK"}
IsTally(c, s, a, b) ==
    /\ c \in [0 .. Len(s) -> Nat] /\ a <= c[0] /\ c[Len(s)] = b
    /\ \A i, j \in 0 .. Len(s) : i <= j => c[i] <= c[j]
    /\ \A i \in 1 .. Len(s) : s[i] \in Replies => c[i - 1] < c[i]
Tally(s, a, b) == \E c : IsTally(c, s, a, b)

(* Why JoinAwaitsReply is inductive: the replies the client has handled and *)
(* those still on their way answer different requests, so that a JOIN sent  *)
(* now has its reply still to come.                                         *)
ReplyInv ==
    /\ JoinAwaitsReply
    /\ \E n \in Nat : Tally(chunk, replied, n) /\ Tally(inbox, n, answered)
    /\ pc["listener"] \in {"start", "recv"} => chunk = <<>>
    /\ answered <= Cardinality(Requests)

LEMMA TallyRises ==
  ASSUME NEW S, NEW s \in Seq(S), NEW a \in Nat, NEW b \in Nat, Tally(s, a, b)
  PROVE  a <= b
<1>1. PICK c : IsTally(c, s, a, b)
  BY DEF Tally
<1>2. Len(s) \in Nat
  BY LenProperties
<1>3. 0 \in 0 .. Len(s) /\ Len(s) \in 0 .. Len(s) /\ 0 <= Len(s)
  BY <1>2
<1>4. c[0] <= c[Len(s)] /\ c[0] \in Nat /\ a <= c[0] /\ c[Len(s)] = b
  BY <1>1, <1>3 DEF IsTally
<1> QED
  BY <1>4

LEMMA TallyEmpty ==
  ASSUME NEW a \in Nat
  PROVE  Tally(<<>>, a, a)
<1> DEFINE c == [i \in 0 .. 0 |-> a]
<1>1. Len(<<>>) = 0
  OBVIOUS
<1>2. IsTally(c, <<>>, a, a)
  BY <1>1 DEF IsTally
<1> QED
  BY <1>2 DEF Tally

LEMMA TallyLower ==
  ASSUME NEW S, NEW s \in Seq(S), NEW a \in Nat, NEW b \in Nat, NEW d \in Nat, d <= a,
         Tally(s, a, b)
  PROVE  Tally(s, d, b)
<1>1. PICK c : IsTally(c, s, a, b)
  BY DEF Tally
<1>2. 0 \in 0 .. Len(s)
  BY LenProperties
<1>3. c[0] \in Nat /\ a <= c[0]
  BY <1>1, <1>2 DEF IsTally
<1>4. d <= c[0]
  BY <1>3
<1>5. IsTally(c, s, d, b)
  BY <1>1, <1>4 DEF IsTally
<1> QED
  BY <1>5 DEF Tally

LEMMA TallyAppend ==
  ASSUME NEW S, NEW s \in Seq(S), NEW m \in S, NEW a \in Nat, NEW b \in Nat, Tally(s, a, b)
  PROVE  /\ Tally(Append(s, m), a, b + 1)
         /\ m \notin Replies => Tally(Append(s, m), a, b)
<1> DEFINE n == Len(s)
           t == Append(s, m)
<1>1. PICK c : IsTally(c, s, a, b)
  BY DEF Tally
<1>2. n \in Nat /\ Len(t) = n + 1 /\ t[n + 1] = m /\ \A i \in 1 .. n : t[i] = s[i]
  BY AppendProperties, LenProperties
<1>3. /\ c \in [0 .. n -> Nat] /\ a <= c[0] /\ c[n] = b
      /\ \A i, j \in 0 .. n : i <= j => c[i] <= c[j]
      /\ \A i \in 1 .. n : s[i] \in Replies => c[i - 1] < c[i]
  BY <1>1 DEF IsTally
<1> HIDE DEF n, t
<1>4. ASSUME NEW e \in {b, b + 1}, m \in Replies => e = b + 1
      PROVE  Tally(t, a, e)
  <2> DEFINE d == [i \in 0 .. n + 1 |-> IF i = n + 1 THEN e ELSE c[i]]
  <2>1. d \in [0 .. n + 1 -> Nat] /\ a <= d[0] /\ d[n + 1] = e
    BY <1>2, <1>3, <1>4
  <2>2. \A i \in 0 .. n : d[i] = c[i] /\ c[i] <= e
    BY <1>2, <1>3, <1>4
  <2>3. \A i, j \in 0 .. n + 1 : i <= j => d[i] <= d[j]
    BY <1>2, <1>3, <2>1, <2>2
  <2>4. \A i \in 1 .. n + 1 : t[i] \in Replies => d[i - 1] < d[i]
    <3> SUFFICES ASSUME NEW i \in 1 .. n + 1, t[i] \in Replies PROVE d[i - 1] < d[i]
      OBVIOUS
    <3>1. CASE i \in 1 .. n
      BY <1>2, <1>3, <2>2, <3>1
    <3>2. CASE i = n + 1
      BY <1>2, <1>3, <1>4, <2>1, <2>2, <3>2
    <3> QED
      BY <1>2, <3>1, <3>2
  <2> HIDE DEF d
  <2>5. IsTally(d, t, a, e)
    BY <1>2, <2>1, <2>3, <2>4 DEF IsTally
  <2> QED
    BY <2>5 DEF Tally
<1> QED
  BY <1>4 DEF t

(* A tally of a sequence is one of its front and one of its rest. *)
LEMMA TallySplit ==
  ASSUME NEW S, NEW s \in Seq(S), NEW k \in 0 .. Len(s), NEW a \in Nat, NEW b \in Nat,
         Tally(s, a, b),
         NEW front, Len(front) = k, \A i \in 1 .. k : front[i] = s[i],
         NEW rest, Len(rest) = Len(s) - k, \A i \in 1 .. Len(s) - k : rest[i] = s[k + i]
  PROVE  \E n \in Nat : Tally(front, a, n) /\ Tally(rest, n, b)
<1> DEFINE l == Len(s)
<1>1. PICK c : IsTally(c, s, a, b)
  BY DEF Tally
<1>2. l \in Nat /\ k \in 0 .. l
  BY LenProperties
<1>3. /\ c \in [0 .. l -> Nat] /\ a <= c[0] /\ c[l] = b
      /\ \A i, j \in 0 .. l : i <= j => c[i] <= c[j]
      /\ \A i \in 1 .. l : s[i] \in Replies => c[i - 1] < c[i]
  BY <1>1 DEF IsTally
<1>4. Len(front) = k /\ Len(rest) = l - k /\ \A i \in 1 .. l - k : rest[i] = s[k + i]
  OBVIOUS
<1> HIDE DEF l
<1> DEFINE d == [i \in 0 .. k |-> c[i]]
           e == [i \in 0 .. l - k |-> c[k + i]]
<1>5. d \in [0 .. k -> Nat] /\ a <= d[0] /\ d[k] = c[k] /\ c[k] \in Nat
  BY <1>2, <1>3
<1>6. \A i, j \in 0 .. k : i <= j => d[i] <= d[j]
  BY <1>2, <1>3
<1>7. \A i \in 1 .. k : front[i] \in Replies => d[i - 1] < d[i]
  BY <1>2, <1>3
<1>8. IsTally(d, front, a, c[k])
  BY <1>4, <1>5, <1>6, <1>7 DEF IsTally
<1>9. \A i \in 0 .. l - k : k + i \in 0 .. l /\ e[i] = c[k + i] /\ c[k + i] \in Nat
  BY <1>2, <1>3
<1>10. e \in [0 .. l - k -> Nat] /\ c[k] <= e[0] /\ e[l - k] = b
  BY <1>2, <1>3, <1>9
<1>11. \A i, j \in 0 .. l - k : i <= j => e[i] <= e[j]
  BY <1>2, <1>3, <1>9
<1>12. \A i \in 1 .. l - k : rest[i] \in Replies => e[i - 1] < e[i]
  <2> SUFFICES ASSUME NEW i \in 1 .. l - k, rest[i] \in Replies PROVE e[i - 1] < e[i]
    OBVIOUS
  <2>1. k + i \in 1 .. l /\ s[k + i] \in Replies /\ i - 1 \in 0 .. l - k /\ i \in 0 .. l - k
    BY <1>2, <1>4
  <2>2. c[k + i - 1] < c[k + i]
    BY <1>3, <2>1
  <2>3. e[i - 1] = c[k + (i - 1)] /\ e[i] = c[k + i] /\ k + (i - 1) = k + i - 1
    BY <1>2, <1>9, <2>1
  <2> QED
    BY <2>2, <2>3
<1> HIDE DEF d, e
<1>13. IsTally(e, rest, c[k], b)
  BY <1>4, <1>10, <1>11, <1>12 DEF IsTally
<1> QED
  BY <1>5, <1>8, <1>13 DEF Tally
LEMMA TallyTail ==
  ASSUME NEW S, NEW s \in Seq(S), s # <<>>, NEW a \in Nat, NEW b \in Nat, Tally(s, a, b),
         NEW d, d = IF Head(s) \in Replies THEN a + 1 ELSE a
  PROVE  Tally(Tail(s), d, b) /\ d \in Nat
<1> DEFINE front == <<Head(s)>>
<1>1. /\ Tail(s) \in Seq(S) /\ Len(Tail(s)) = Len(s) - 1 /\ Len(s) \in Nat
      /\ \A i \in 1 .. Len(Tail(s)) : Tail(s)[i] = s[i + 1]
  BY HeadTailProperties, LenProperties
<1>2. Len(s) # 0 /\ Head(s) = s[1]
  <2>1. s = <<>> <=> Len(s) = 0
    BY EmptySeq
  <2> QED
    BY <2>1
<1>3. 1 \in 0 .. Len(s) /\ Len(front) = 1 /\ \A i \in 1 .. 1 : front[i] = s[i]
  BY <1>1, <1>2
<1>4. \A i \in 1 .. Len(s) - 1 : Tail(s)[i] = s[1 + i]
  BY <1>1
<1>5. PICK n \in Nat : Tally(front, a, n) /\ Tally(Tail(s), n, b)
  <2> DEFINE rest == Tail(s)
  <2>1. Len(rest) = Len(s) - 1 /\ \A i \in 1 .. Len(s) - 1 : rest[i] = s[1 + i]
    BY <1>1, <1>4
  <2> HIDE DEF front, rest
  <2>2. \E n \in Nat : Tally(front, a, n) /\ Tally(rest, n, b)
    BY <1>3, <2>1, TallySplit
  <2> QED
    BY <2>2 DEF rest
<1>6. PICK c : IsTally(c, front, a, n)
  BY <1>5 DEF Tally
<1>7. /\ c[0] \in Nat /\ c[1] \in Nat /\ a <= c[0] /\ c[1] = n /\ c[0] <= c[1]
      /\ Head(s) \in Replies => c[0] < c[1]
  <2>1. Len(front) = 1 /\ front[1] = Head(s)
    OBVIOUS
  <2> HIDE DEF front
  <2>2. 0 \in 0 .. 1 /\ 1 \in 0 .. 1 /\ 1 \in 1 .. 1 /\ 1 - 1 = 0
    OBVIOUS
  <2> QED
    BY <1>6, <2>1, <2>2 DEF IsTally
<1>8. d <= n /\ d \in Nat
  BY <1>7
<1> QED
  BY <1>1, <1>5, <1>8, TallyLower

(* A message that is sent is one request more, or none. *)
LEMMA RequestsGrow ==
  ASSUME toServer \in Seq(Sendable), NEW m \in Sendable,
         toServer' = Append(toServer, m) \/ toServer' = toServer
  PROVE  /\ IsFiniteSet(Requests) /\ Cardinality(Requests) \in Nat
         /\ Cardinality(Requests)' \in Nat
         /\ Cardinality(Requests) <= Cardinality(Requests)'
         /\ m = "JOIN" /\ toServer' = Append(toServer, m)
              => Cardinality(Requests)' = Cardinality(Requests) + 1
<1> DEFINE n == Len(toServer)
<1>1. n \in Nat /\ DOMAIN toServer = 1 .. n
  BY LenProperties
<1>2. IsFiniteSet(Requests) /\ Cardinality(Requests) \in Nat
  <2>1. IsFiniteSet(1 .. n) /\ Requests \subseteq 1 .. n
    BY <1>1, FS_Interval DEF Requests
  <2> QED
    BY <2>1, FS_Subset, FS_CardinalityType
<1>3. CASE toServer' = toServer
  <2>1. Requests' = Requests
    BY <1>3 DEF Requests
  <2>2. toServer # Append(toServer, m)
    <3>1. Len(Append(toServer, m)) = n + 1
      BY AppendProperties
    <3>2. \A k \in Nat : k + 1 # k
      OBVIOUS
    <3> QED
      BY <1>1, <3>1, <3>2
  <2> QED
    BY <1>2, <1>3, <2>1, <2>2
<1>4. CASE toServer' = Append(toServer, m)
  <2>1. /\ Len(toServer') = n + 1 /\ toServer'[n + 1] = m /\ toServer' \in Seq(Sendable)
        /\ \A i \in 1 .. n : toServer'[i] = toServer[i]
    BY <1>4, AppendProperties
  <2>2. DOMAIN toServer' = 1 .. n + 1
    BY <2>1, LenProperties
  <2>3. Requests' = Requests \cup {i \in {n + 1} : m \in {"AUTH", "JOIN"}}
    <3>1. ASSUME NEW i PROVE i \in Requests' <=>
               i \in Requests \/ (i = n + 1 /\ m \in {"AUTH", "JOIN"})
      BY <1>1, <2>1, <2>2 DEF Requests
    <3> QED
      BY <3>1
  <2>4. n + 1 \notin Requests
    BY <1>1 DEF Requests
  <2>5. CASE m \in {"AUTH", "JOIN"}
    <3>1. Requests' = Requests \cup {n + 1}
      BY <2>3, <2>5
    <3>2. Cardinality(Requests') = Cardinality(Requests) + 1
      BY <1>2, <2>4, <3>1, FS_AddElement
    <3> QED
      BY <1>2, <3>2
  <2>6. CASE m \notin {"AUTH", "JOIN"}
    <3>1. Requests' = Requests
      BY <2>3, <2>6
    <3> QED
      BY <1>2, <2>6, <3>1
  <2> QED
    BY <2>5, <2>6
<1> QED
  BY <1>3, <1>4

(* The server answers a request that it has not answered yet. *)
LEMMA AnsweredIsRequested ==
  ASSUME toServer \in Seq(Sendable), answered \in Nat, NEW i \in Requests,
         Cardinality({j \in Requests : j < i}) = answered
  PROVE  answered + 1 <= Cardinality(Requests)
<1> DEFINE B == {j \in Requests : j < i}
<1>1. IsFiniteSet(Requests) /\ Cardinality(Requests) \in Nat
  <2>1. Len(toServer) \in Nat /\ Requests \subseteq 1 .. Len(toServer)
    BY LenProperties DEF Requests
  <2>2. IsFiniteSet(1 .. Len(toServer))
    BY <2>1, FS_Interval
  <2> QED
    BY <2>1, <2>2, FS_Subset, FS_CardinalityType
<1>2. IsFiniteSet(B) /\ i \notin B
  <2>1. B \in SUBSET Requests
    OBVIOUS
  <2>2. i \in Nat
    <3>1. Len(toServer) \in Nat /\ i \in 1 .. Len(toServer)
      BY LenProperties DEF Requests
    <3> QED
      BY <3>1
  <2> QED
    BY <1>1, <2>1, <2>2, FS_Subset
<1>3. Cardinality(B \cup {i}) = answered + 1
  BY <1>2, FS_AddElement
<1>4. B \cup {i} \in SUBSET Requests
  OBVIOUS
<1> QED
  BY <1>1, <1>3, <1>4, FS_Subset

(* Neither end of a connection comes back, nor the thread that SIGINT took. *)
LEMMA NeverComesBack ==
  ASSUME TypeInv, [Next]_vars
  PROVE  /\ sock' = "open" => sock = "open"
         /\ peer' = "open" => peer = "open"
         /\ masked \subseteq masked'
<1>1. CASE UserStep \/ MainStep \/ Done \/ UNCHANGED vars
  BY <1>1
  DEF UserStep, MainStep, Dispatch, EndOfInput, BadArguments, SetState, SendCommand, Done,
      vars, appVars, netVars
<1>2. CASE ListenerStep
  BY <1>2
  DEF ListenerStep, Start, Recv, LoopEnds, DropConnection, TestSocket, CloseSocket,
      HandleReply, HandleMsg, HandleFinal, SendErr, ChunkDone, Unchanged, appVars, netVars
<1>3. CASE Server
  BY <1>3 DEF Server, SrvReply, SrvSend, SrvWrite, SrvClose, appVars
<1>4. ASSUME NEW t \in Threads, ExitStep(t) \/ Interrupt(t)
      PROVE  /\ sock' = "open" => sock = "open"
             /\ peer' = "open" => peer = "open"
             /\ masked \subseteq masked'
  BY <1>4
  DEF ExitStep, SendBye, Stop, Close, TestSocket, CloseSocket, Leave, Interrupt, netVars
<1> QED
  BY <1>1, <1>2, <1>3, <1>4 DEF Next

(* A step by which neither the state nor the JOIN in hand is new and no     *)
(* reply is handled keeps what a JOIN waits for.                            *)
LEMMA JoinKept ==
  ASSUME TypeInv, JoinAwaitsReply, [Next]_vars,
         state' = "JOIN" => state = "JOIN",
         NEW m \in Sendable, toServer' = Append(toServer, m) \/ toServer' = toServer,
         replied' = replied,
         "main" \notin masked' /\ pc["main"] = "send" => pc'["main"] = "send" /\ cmd' = cmd
  PROVE  JoinAwaitsReply'
<1>1. Cardinality(Requests) <= Cardinality(Requests)'
      /\ Cardinality(Requests) \in Nat /\ Cardinality(Requests)' \in Nat
  BY RequestsGrow DEF TypeInv, TypeOK
<1>2. replied \in Nat
  BY DEF TypeInv, TypeOK
<1>3. SUFFICES ASSUME state' = "JOIN", sock' = "open", peer' = "open", "main" \notin masked'
               PROVE  (pc'["main"] = "send" /\ cmd' = "JOIN")
                      \/ replied' < Cardinality(Requests)'
  BY DEF JoinAwaitsReply
<1>4. state = "JOIN" /\ sock = "open" /\ peer = "open" /\ "main" \notin masked
  BY <1>3, NeverComesBack
<1>5. (pc["main"] = "send" /\ cmd = "JOIN") \/ replied < Cardinality(Requests)
  BY <1>4 DEF JoinAwaitsReply
<1> QED
  BY <1>1, <1>2, <1>3, <1>5

(* The messages received and on their way keep their count in a step that   *)
(* leaves them and the listener's place alone.                              *)
LEMMA ReplyFrame ==
  ASSUME TypeInv, ReplyInv, JoinAwaitsReply',
         UNCHANGED <<chunk, inbox, replied, answered>>,
         NEW m \in Sendable, toServer' = Append(toServer, m) \/ toServer' = toServer,
         pc'["listener"] \in {"start", "recv"} => pc["listener"] \in {"start", "recv"}
  PROVE  ReplyInv'
<1>1. Cardinality(Requests) <= Cardinality(Requests)'
      /\ Cardinality(Requests) \in Nat /\ Cardinality(Requests)' \in Nat
  BY RequestsGrow DEF TypeInv, TypeOK
<1>2. answered' <= Cardinality(Requests)'
  BY <1>1 DEF ReplyInv, TypeInv, TypeOK
<1>3. \E n \in Nat : Tally(chunk', replied', n) /\ Tally(inbox', n, answered')
  BY DEF ReplyInv
<1> QED
  BY <1>2, <1>3 DEF ReplyInv
(* The steps of the main thread: only a JOIN that is sent adds a request    *)
(* for the state JOIN to wait for.                                          *)
LEMMA ReplyMain ==
  ASSUME TypeInv, ReplyInv, UserStep \/ MainStep
  PROVE  ReplyInv'
<1>1. [Next]_vars /\ "ERR" \in Sendable
  BY DEF Next, Sendable
<1>2. pc'["listener"] = pc["listener"]
  BY DEF UserStep, MainStep, Dispatch, EndOfInput, BadArguments, SetState, SendCommand, Send,
         Goto, TypeInv, TypeOK, Threads
<1>3. CASE UserStep \/ BadArguments
  <2>1. /\ UNCHANGED <<chunk, inbox, replied, answered, toServer>>
        /\ state' = "JOIN" => state = "JOIN"
        /\ pc["main"] # "send"
    BY <1>3 DEF UserStep, Dispatch, EndOfInput, BadArguments, At, appVars, netVars, logVars
  <2>2. JoinAwaitsReply'
    BY <1>1, <2>1, JoinKept DEF ReplyInv
  <2> QED
    BY <1>1, <1>2, <2>1, <2>2, ReplyFrame
<1>4. CASE SetState
  <2>1. UNCHANGED <<chunk, inbox, replied, answered, toServer>>
    BY <1>4 DEF SetState, netVars, logVars
  <2>2. /\ pc["main"] # "send" /\ pc'["main"] = "send" /\ cmd' = cmd
        /\ state' = "JOIN" => state = "JOIN" \/ cmd' = "JOIN"
    BY <1>4 DEF SetState, At, Goto, TypeInv, TypeOK, Threads
  <2>3. JoinAwaitsReply'
    <3>1. CASE cmd' = "JOIN"
      BY <2>2, <3>1 DEF JoinAwaitsReply
    <3>2. CASE state' = "JOIN" => state = "JOIN"
      BY <1>1, <2>1, <2>2, <3>2, JoinKept DEF ReplyInv
    <3> QED
      BY <2>2, <3>1, <3>2
  <2> QED
    BY <1>1, <1>2, <2>1, <2>3, ReplyFrame
<1>5. CASE SendCommand
  <2>1. cmd \in Sendable /\ UNCHANGED <<state, chunk, inbox, replied, answered, sock, peer, masked>>
    BY <1>5 DEF SendCommand, TypeInv, Sendable, logVars
  <2>2. toServer' = Append(toServer, cmd) \/ toServer' = toServer
    BY <1>5 DEF SendCommand, Send
  <2>3. /\ Cardinality(Requests) \in Nat /\ Cardinality(Requests)' \in Nat
        /\ Cardinality(Requests) <= Cardinality(Requests)'
        /\ cmd = "JOIN" /\ toServer' = Append(toServer, cmd)
             => Cardinality(Requests)' = Cardinality(Requests) + 1
    BY <2>1, <2>2, RequestsGrow DEF TypeInv, TypeOK
  <2>4. replied <= Cardinality(Requests) /\ replied \in Nat
    <3>1. replied \in Nat /\ answered \in Nat /\ answered <= Cardinality(Requests)
          /\ chunk \in Seq(Receivable) /\ inbox \in Seq(Receivable)
      BY DEF TypeInv, TypeOK, ReplyInv
    <3>2. PICK n \in Nat : Tally(chunk, replied, n) /\ Tally(inbox, n, answered)
      BY DEF ReplyInv
    <3>3. replied <= n /\ n <= answered
      BY <3>1, <3>2, TallyRises
    <3> QED
      BY <2>3, <3>1, <3>2, <3>3
  <2>5. JoinAwaitsReply'
    <3> SUFFICES ASSUME state' = "JOIN", sock' = "open", peer' = "open", "main" \notin masked'
                 PROVE  replied' < Cardinality(Requests)'
      BY DEF JoinAwaitsReply
    <3>1. state = "JOIN" /\ sock = "open" /\ peer = "open" /\ "main" \notin masked
      BY <2>1
    <3>2. CASE cmd = "JOIN"
      <4>1. toServer' = Append(toServer, cmd)
        BY <1>5, <3>1 DEF SendCommand, Send
      <4> QED
        BY <2>1, <2>3, <2>4, <3>2, <4>1
    <3>3. CASE cmd # "JOIN"
      BY <2>1, <2>3, <2>4, <3>1, <3>3 DEF ReplyInv, JoinAwaitsReply
    <3> QED
      BY <3>2, <3>3
  <2> QED
    BY <1>2, <2>1, <2>2, <2>5, ReplyFrame
<1> QED
  BY <1>3, <1>4, <1>5 DEF MainStep

(* No reply puts the client into JOIN; those the listener takes from the    *)
(* stream and handles are counted.                                          *)
LEMMA ReplyListener ==
  ASSUME TypeInv, ReplyInv, ListenerStep
  PROVE  ReplyInv'
<1>1. [Next]_vars /\ "ERR" \in Sendable
  BY DEF Next, Sendable
<1>2. /\ state' = "JOIN" => state = "JOIN"
      /\ pc'["main"] = pc["main"] /\ cmd' = cmd
      /\ toServer' = Append(toServer, "ERR") \/ toServer' = toServer
      /\ answered' = answered
  BY DEF ListenerStep, Start, Recv, LoopEnds, DropConnection, TestSocket, CloseSocket,
      HandleReply, HandleMsg, HandleFinal, SendErr, Send, ChunkDone, Unchanged, appVars,
      netVars, Goto, StateAfter, TypeInv, TypeOK, Threads
<1>3. chunk \in Seq(Receivable) /\ inbox \in Seq(Receivable) /\ replied \in Nat /\ answered \in Nat
  BY DEF TypeInv, TypeOK
<1>4. PICK n \in Nat : Tally(chunk, replied, n) /\ Tally(inbox, n, answered)
  BY DEF ReplyInv
<1>5. CASE Start \/ LoopEnds \/ DropConnection \/ SendErr
  <2>1. UNCHANGED <<chunk, inbox, replied>>
    BY <1>5 DEF Start, LoopEnds, DropConnection, TestSocket, CloseSocket, SendErr, netVars, logVars
  <2>2. pc'["listener"] \in {"start", "recv"} => pc["listener"] \in {"start", "recv"}
    BY <1>5
    DEF Start, LoopEnds, DropConnection, TestSocket, CloseSocket, SendErr, Send, At, Goto,
        TypeInv, TypeOK, Threads
  <2>3. JoinAwaitsReply'
    BY <1>1, <1>2, <2>1, JoinKept DEF ReplyInv
  <2> QED
    BY <1>1, <1>2, <2>1, <2>2, <2>3, ReplyFrame
<1>6. CASE ChunkDone
  <2>1. UNCHANGED <<chunk, inbox, replied, toServer>> /\ chunk' = <<>>
    BY <1>6 DEF ChunkDone, appVars, netVars, logVars
  <2>2. JoinAwaitsReply'
    BY <1>1, <1>2, <2>1, JoinKept DEF ReplyInv
  <2>3. Requests' = Requests
    BY <2>1 DEF Requests
  <2> QED
    BY <1>2, <1>4, <2>1, <2>2, <2>3 DEF ReplyInv
<1>7. ASSUME NEW k \in 1 .. Len(inbox), Recv(k) PROVE ReplyInv'
  <2>1. /\ chunk' = SubSeq(inbox, 1, k) /\ inbox' = SubSeq(inbox, k + 1, Len(inbox))
        /\ UNCHANGED <<replied, toServer>>
        /\ chunk = <<>> /\ pc'["listener"] = "process"
    BY <1>7 DEF Recv, At, Goto, logVars, ReplyInv, TypeInv, TypeOK, Threads
  <2>2. JoinAwaitsReply'
    BY <1>1, <1>2, <2>1, JoinKept DEF ReplyInv
  <2>3. Requests' = Requests
    BY <2>1 DEF Requests
  <2>4. Tally(inbox, replied, answered)
    <3>1. chunk \in Seq(Receivable) /\ replied <= n
      BY <1>3, <1>4, TallyRises
    <3> QED
      BY <1>3, <1>4, <3>1, TallyLower
  <2>5. Len(inbox) \in Nat /\ \A i \in 1 .. Len(inbox) : inbox[i] \in Receivable
    BY <1>3, ElementOfSeq, LenProperties
  <2>6. Len(chunk') = k /\ \A i \in 1 .. k : chunk'[i] = inbox[i]
    <3>1. \A i \in 1 .. k : inbox[i] \in Receivable
      BY <2>5
    <3>2. /\ Len(SubSeq(inbox, 1, k)) = IF 1 <= k THEN k - 1 + 1 ELSE 0
          /\ \A i \in 1 .. k - 1 + 1 : SubSeq(inbox, 1, k)[i] = inbox[1 + i - 1]
      BY <2>5, <3>1, SubSeqProperties
    <3> QED
      BY <2>1, <2>5, <3>2
  <2>7. Len(inbox') = Len(inbox) - k /\ \A i \in 1 .. Len(inbox) - k : inbox'[i] = inbox[k + i]
    <3> DEFINE l == Len(inbox)
               s == SubSeq(inbox, k + 1, l)
    <3>1. \A i \in k + 1 .. l : inbox[i] \in Receivable
      BY <2>5
    <3>2. /\ Len(s) = IF k + 1 <= l THEN l - (k + 1) + 1 ELSE 0
          /\ \A i \in 1 .. l - (k + 1) + 1 : s[i] = inbox[k + 1 + i - 1]
      BY <2>5, <3>1, SubSeqProperties
    <3>3. inbox' = s /\ l \in Nat /\ k \in 1 .. l
      BY <2>1, <2>5
    <3> HIDE DEF s, l
    <3>4. Len(s) = l - k /\ \A i \in 1 .. l - k : s[i] = inbox[k + i]
      BY <3>2, <3>3
    <3> QED
      BY <3>3, <3>4 DEF l
  <2>8. k \in 0 .. Len(inbox)
    BY <2>5
  <2>9. \E i \in Nat : Tally(chunk', replied, i) /\ Tally(inbox', i, answered)
    BY <1>3, <2>4, <2>6, <2>7, <2>8, TallySplit
  <2> QED
    BY <1>2, <2>1, <2>2, <2>3, <2>9 DEF ReplyInv
<1>8. CASE HandleReply \/ HandleMsg \/ HandleFinal
  <2>1. /\ chunk # <<>> /\ chunk' = Tail(chunk) /\ UNCHANGED <<inbox, toServer>>
        /\ replied' = IF Head(chunk) \in Replies THEN replied + 1 ELSE replied
        /\ pc["listener"] = "process"
    BY <1>8
    DEF HandleReply, HandleMsg, HandleFinal, Handling, At, Unchanged, netVars, Replies
  <2>2. pc'["listener"] \notin {"start", "recv"}
    BY <1>8, <2>1
    DEF HandleReply, HandleMsg, HandleFinal, Goto, TypeInv, TypeOK, Threads
  <2>3. (state' = state /\ replied' = replied) \/ state' # "JOIN"
    BY <1>8 DEF HandleReply, HandleMsg, HandleFinal, StateAfter
  <2>4. JoinAwaitsReply'
    <3>1. CASE state' # "JOIN"
      BY <3>1 DEF JoinAwaitsReply
    <3>2. CASE replied' = replied
      BY <1>1, <1>2, <3>2, JoinKept DEF ReplyInv
    <3> QED
      BY <2>3, <3>1, <3>2
  <2>5. Requests' = Requests
    BY <2>1 DEF Requests
  <2>6. Tally(chunk', replied', n) /\ replied' \in Nat
    BY <1>3, <1>4, <2>1, TallyTail
  <2> QED
    BY <1>2, <1>4, <2>1, <2>2, <2>4, <2>5, <2>6 DEF ReplyInv
<1> QED
  BY <1>5, <1>6, <1>7, <1>8 DEF ListenerStep
(* A reply of the server is counted with the request it answers; what the   *)
(* server sends on its own is not counted.                                  *)
LEMMA ReplyServer ==
  ASSUME TypeInv, ReplyInv, Server
  PROVE  ReplyInv'
<1>1. /\ [Next]_vars /\ "ERR" \in Sendable
      /\ UNCHANGED <<state, pc, cmd, masked, chunk, replied, toServer>>
  BY DEF Next, Sendable, Server, SrvReply, SrvSend, SrvWrite, SrvClose, appVars, logVars
<1>2. JoinAwaitsReply'
  BY <1>1, JoinKept DEF ReplyInv
<1>3. inbox \in Seq(Receivable) /\ answered \in Nat /\ toServer \in Seq(Sendable)
  BY DEF TypeInv, TypeOK
<1>4. PICK n \in Nat : Tally(chunk, replied, n) /\ Tally(inbox, n, answered)
  BY DEF ReplyInv
<1>5. Requests' = Requests
  BY <1>1 DEF Requests
<1>6. ASSUME NEW result \in {"OK", "NOK"}, SrvReply(result) PROVE ReplyInv'
  <2>1. inbox' = Append(inbox, result) /\ answered' = answered + 1 /\ result \in Receivable
    BY <1>6 DEF SrvReply, SrvWrite, Receivable
  <2>2. Tally(inbox', n, answered')
    BY <1>3, <1>4, <2>1, TallyAppend
  <2>3. PICK i \in Requests : Cardinality({j \in Requests : j < i}) = answered
    BY <1>6 DEF SrvReply
  <2>4. answered' <= Cardinality(Requests)
    BY <1>3, <2>1, <2>3, AnsweredIsRequested
  <2> QED
    BY <1>1, <1>2, <1>4, <1>5, <2>2, <2>4 DEF ReplyInv
<1>7. ASSUME NEW kind \in ServerKinds, SrvSend(kind) PROVE ReplyInv'
  <2>1. inbox' = Append(inbox, kind) /\ answered' = answered
    BY <1>7 DEF SrvSend, SrvWrite
  <2>2. kind \in Receivable /\ kind \notin Replies
    BY TcpAssumption DEF Receivable, Replies
  <2>3. Tally(inbox', n, answered')
    BY <1>3, <1>4, <2>1, <2>2, TallyAppend
  <2> QED
    BY <1>1, <1>2, <1>4, <1>5, <2>1, <2>3 DEF ReplyInv
<1>8. CASE SrvClose
  BY <1>1, <1>2, <1>8, ReplyFrame DEF SrvClose
<1> QED
  BY <1>6, <1>7, <1>8 DEF Server

(* Every step keeps ReplyInv; the end of the process and Ctrl-C handle no   *)
(* reply and put the client into no state.                                  *)
LEMMA ReplyStep ==
  ASSUME TypeInv, ReplyInv, [Next]_vars
  PROVE  ReplyInv'
<1>1. "BYE" \in Sendable
  BY DEF Sendable
<1>2. ASSUME NEW t \in Threads, ExitStep(t) PROVE ReplyInv'
  <2>1. /\ UNCHANGED <<state, cmd, chunk, inbox, replied, answered>>
        /\ toServer' = Append(toServer, "BYE") \/ toServer' = toServer
    BY <1>2
    DEF ExitStep, SendBye, Send, Stop, Close, TestSocket, CloseSocket, Leave, netVars, logVars
  <2>2. /\ pc["main"] = "send" => pc'["main"] = "send"
        /\ pc'["listener"] \in {"start", "recv"} => pc["listener"] \in {"start", "recv"}
    BY <1>2
    DEF ExitStep, SendBye, Send, Stop, Close, TestSocket, CloseSocket, Leave, At, Goto,
        TypeInv, TypeOK, Threads
  <2>3. JoinAwaitsReply'
    BY <1>1, <2>1, <2>2, JoinKept DEF ReplyInv
  <2> QED
    BY <1>1, <2>1, <2>2, <2>3, ReplyFrame
<1>3. ASSUME NEW t \in Threads, Interrupt(t) PROVE ReplyInv'
  <2>1. UNCHANGED <<state, cmd, chunk, inbox, replied, answered, toServer>>
    BY <1>3 DEF Interrupt, netVars
  <2>2. /\ "main" \notin masked' => pc'["main"] = pc["main"]
        /\ pc'["listener"] \in {"start", "recv"} => pc["listener"] \in {"start", "recv"}
    BY <1>3 DEF Interrupt, SigintTarget, Goto, TypeInv, TypeOK, Threads
  <2>3. JoinAwaitsReply'
    BY <1>1, <2>1, <2>2, JoinKept DEF ReplyInv
  <2> QED
    BY <1>1, <2>1, <2>2, <2>3, ReplyFrame
<1>4. CASE UNCHANGED vars
  <2>1. UNCHANGED <<state, cmd, chunk, inbox, replied, answered, toServer, pc>>
    BY <1>4 DEF vars, appVars, netVars, logVars
  <2>2. JoinAwaitsReply'
    BY <1>1, <2>1, JoinKept DEF ReplyInv
  <2> QED
    BY <1>1, <2>1, <2>2, ReplyFrame
<1> QED
  BY <1>2, <1>3, <1>4, ReplyMain, ReplyListener, ReplyServer DEF Next, Done

LEMMA ReplyInit == Init => ReplyInv
<1> SUFFICES ASSUME Init PROVE ReplyInv
  OBVIOUS
<1>1. Requests = {}
  BY DEF Init, Requests
<1>2. Cardinality(Requests) = 0
  BY <1>1, FS_EmptySet
<1>3. Tally(chunk, replied, 0) /\ Tally(inbox, 0, answered)
  BY TallyEmpty DEF Init
<1> QED
  BY <1>2, <1>3 DEF Init, ReplyInv, JoinAwaitsReply

(* Although replies are not matched with requests (process_tcp_reply_       *)
(* message), a client in state JOIN on a live connection always has a reply *)
(* still to come: however many /auth and /join were sent before, and        *)
(* however their replies are delayed and read together.                     *)
THEOREM EveryJoinHasAReply == Spec => []JoinAwaitsReply
<1>1. Init => TypeInv /\ ReplyInv
  BY InitType, ReplyInit
<1>2. TypeInv /\ ReplyInv /\ [Next]_vars => (TypeInv /\ ReplyInv)'
  BY TypeStep, ReplyStep
<1>3. ReplyInv => JoinAwaitsReply
  BY DEF ReplyInv
<1> QED
  BY <1>1, <1>2, <1>3, PTL DEF Spec
=============================================================================

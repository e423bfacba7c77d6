----------------------------- MODULE UdpReceive -----------------------------
(***************************************************************************)
(* What the UDP listener makes of the bytes it receives (network_udp.c,     *)
(* udp_listener and process_received_udp_message): one receive buffer that  *)
(* is never cleared, the messages read from it, the list of seen IDs, what  *)
(* the user sees and the bytes that go back.                                *)
(*                                                                         *)
(* UdpClient has the listener's interplay with the other threads; here a    *)
(* message has its contents, and handling it is one step.  The server and   *)
(* the network are external: any message may arrive, at any time, in any    *)
(* order, any number of times or never.                                     *)
(***************************************************************************)
EXTENDS SeenIds, Datagrams

CONSTANTS
    ServerMessages,     \* [type, id, result, ref, name, contents], each its own ID
    Junk,               \* what a byte of memory holds before it is written
    OWN_ID,             \* confirmed_msg_ids_index
    OWN_NAME,           \* display_name
    err_string          \* "received malformed message from server"

Byte == 0 .. 255
Uint16 == 0 .. 256 * 256 - 1

(* The server keeps to the protocol; it may write more than MAX_MSG_SIZE.   *)
ASSUME ServerMessagesAssumption ==
    \A m \in ServerMessages :
        /\ m.id \in Ids /\ \A n \in ServerMessages : n.id = m.id => n = m
        /\ m.type \in DOMAIN MSG_TYPE_VAL /\ m.result \in Byte /\ m.ref \in Uint16
        /\ m.name \in Seq(Character) /\ Len(m.name) <= MAX_DISPLAY_NAME_LEN
        /\ m.contents \in Seq(Character)

ASSUME ReceiveAssumption ==
    /\ Ids \subseteq Uint16 /\ Junk \subseteq Byte /\ OWN_ID \in Uint16
    /\ OWN_NAME \in Seq(Character) /\ err_string \in Seq(Character)
    /\ Len(OWN_NAME) + Len(err_string) <= MAX_MESSAGE_CONTENT_LEN
    /\ MAX_DISPLAY_NAME_LEN <= MAX_MESSAGE_CONTENT_LEN

VARIABLES
    state,          \* START, AUTH, OPEN, JOIN
    sent,           \* messages of the server of which a copy has arrived
    recv_buffer,
    numbytes,
    display,        \* the message printed last
    shown,          \* IDs of the MSG and ERR messages printed
    toServer,       \* datagrams sent back
    pc              \* recv, process, ended, crashed

receiver == <<recv_buffer, numbytes>>
output == <<display, shown, toServer>>
rvars == <<vars, state, sent, receiver, output, pc>>

Nothing == [type |-> "nothing"]
Offsets == 0 .. MAX_MSG_SIZE - 1

ReceiveInit ==
    /\ Init
    /\ state = "START" /\ sent = {}
    /\ \E b \in Junk : recv_buffer = [o \in Offsets |-> b]
    /\ numbytes = 0
    /\ display = Nothing /\ shown = <<>> /\ toServer = {}
    /\ pc = "recv"

(* The commands of the main thread that the handlers depend on. *)
MainThread ==
    /\ pc \in {"recv", "process"}
    /\ \/ state = "START" /\ state' = "AUTH"
       \/ state = "OPEN" /\ state' = "JOIN"
    /\ UNCHANGED <<vars, sent, receiver, output, pc>>

(* The layout of the protocol. *)
Header3(m) == <<MSG_TYPE_VAL[m.type], m.id \div 256, m.id % 256>>
Wire(m) == Header3(m) \o
    IF m.type \in {"MSG", "ERR"} THEN m.name \o <<NUL>> \o m.contents \o <<NUL>>
    ELSE IF m.type = "REPLY" THEN <<m.result, m.ref \div 256, m.ref % 256>>
                                    \o m.contents \o <<NUL>>
    ELSE IF m.type = "BYE" THEN m.name \o <<NUL>>
    ELSE <<>>

NoRoomForNul == MAX_MSG_SIZE        \* mistake: the NUL goes behind the buffer
Room == MAX_MSG_SIZE - 1

(* recvfrom drops what does not fit; behind the NUL older bytes remain. *)
NulForgotten(d) == [o \in Offsets |-> IF o < Len(d) THEN d[o + 1] ELSE recv_buffer[o]] \* mistake
Fill(d) == [o \in Offsets |-> IF o < Len(d) THEN d[o + 1]
                              ELSE IF o = Len(d) THEN NUL ELSE recv_buffer[o]]

Recv(m) ==
    /\ pc = "recv"
    /\ sent' = sent \cup {m}
    /\ LET d == strncpy(Wire(m), Room)
       IN  recv_buffer' = Fill(d) /\ numbytes' = Len(d)
    /\ pc' = "process"
    /\ UNCHANGED <<vars, state, output>>

Is(type) == pc = "process" /\ recv_buffer[0] = MSG_TYPE_VAL[type]
Whole(type) == Is(type) /\ ~ReturnsNull(type, numbytes)

SendConfirm(id) == toServer' = toServer \cup {serialize_confirm_msg(id)}
EXIT == pc' = "ended"
Continue == pc' = "recv"

(* printf, unless the message was seen before. *)
ShowAlways(type, m) ==                                \* mistake: answer is not looked at
    /\ is_message_duplicate(m.message_id)
    /\ display' = [type |-> type, id |-> m.message_id, name |-> m.display_name,
                   contents |-> m.message_contents]
    /\ shown' = Append(shown, m.message_id)
ShowOnce(type, m) ==
    /\ is_message_duplicate(m.message_id)
    /\ IF answer' = "duplicate" THEN UNCHANGED <<display, shown>>
       ELSE /\ display' = [type |-> type, id |-> m.message_id, name |-> m.display_name,
                           contents |-> m.message_contents]
            /\ shown' = Append(shown, m.message_id)

ProcessMsg ==
    /\ Whole("MSG") /\ state # "START"
    /\ LET m == deserialize_msg(recv_buffer)
       IN  ShowOnce("MSG", m) /\ SendConfirm(m.message_id)
    /\ Continue
    /\ UNCHANGED <<state, sent, receiver>>

ProcessMsgAtStart ==
    /\ Is("MSG") /\ state = "START"
    /\ Continue
    /\ UNCHANGED <<vars, state, sent, receiver, output>>

ProcessErr ==
    /\ Whole("ERR")
    /\ LET m == deserialize_err_msg(recv_buffer)
       IN  ShowOnce("ERR", m) /\ SendConfirm(m.message_id)
    /\ EXIT
    /\ UNCHANGED <<state, sent, receiver>>

ProcessPing ==
    /\ Whole("PING")
    /\ SendConfirm(deserialize_ping_msg(recv_buffer).message_id)
    /\ Continue
    /\ UNCHANGED <<vars, state, sent, receiver, display, shown>>

ProcessBye ==
    /\ Whole("BYE")
    /\ SendConfirm(deserialize_bye_msg(recv_buffer).message_id)
    /\ EXIT
    /\ UNCHANGED <<vars, state, sent, receiver, display, shown>>

(* add_confirmed_msg_id is UdpClient's. *)
ProcessConfirm ==
    /\ Whole("CONFIRM")
    /\ Continue
    /\ UNCHANGED <<vars, state, sent, receiver, output>>

-----------------------------------------------------------------------------
(* handle_reply_msg_state_auth, _open and _join: a REPLY is shown as often  *)
(* as it arrives; one that is not expected ends the client unanswered.      *)
ReplyEnds ==
    /\ EXIT
    /\ UNCHANGED <<vars, state, sent, receiver, shown, toServer>>

ProcessReplyAtStart == Is("REPLY") /\ state = "START" /\ ReplyEnds /\ UNCHANGED display

PrintReply(m) ==
    display' = [type |-> "REPLY", id |-> m.message_id, result |-> m.result,
                contents |-> m.message_contents]

ProcessReply ==
    /\ Whole("REPLY") /\ state # "START"
    /\ LET m == deserialize_reply_msg(recv_buffer)
       IN  \/ /\ m.result \notin {0, 1}
              /\ ReplyEnds /\ UNCHANGED display
           \/ /\ m.result \in {0, 1} /\ state = "OPEN"
              /\ PrintReply(m) /\ ReplyEnds
           \/ /\ m.result \in {0, 1} /\ state # "OPEN"
              /\ PrintReply(m)
              /\ state' = IF m.result = 1 \/ state = "JOIN" THEN "OPEN" ELSE state
              /\ SendConfirm(m.message_id)
              /\ Continue
              /\ UNCHANGED <<vars, sent, receiver, shown>>

(* A datagram too short for its type: the result is used unchecked. *)
Crash ==
    /\ \E type \in DOMAIN MIN_SIZE : Is(type) /\ ReturnsNull(type, numbytes)
    /\ recv_buffer[0] \in {MSG_TYPE_VAL["REPLY"], MSG_TYPE_VAL["MSG"]} => state # "START"
    /\ pc' = "crashed"
    /\ UNCHANGED <<vars, state, sent, receiver, output>>

(* A type the client does not know, or one only the client sends. *)
ProcessMalformed ==
    /\ pc = "process" /\ \A type \in DOMAIN MIN_SIZE : ~Is(type)
    /\ toServer' = toServer \cup {serialize_confirm_msg(ntohs(recv_buffer, 1)),
                                  serialize_err_msg(OWN_ID, OWN_NAME, err_string)}
    /\ EXIT
    /\ UNCHANGED <<vars, state, sent, receiver, display, shown>>

Ended == pc \in {"ended", "crashed"} /\ UNCHANGED rvars

Listener ==
    \/ ProcessMsg \/ ProcessMsgAtStart \/ ProcessErr \/ ProcessPing \/ ProcessBye
    \/ ProcessConfirm \/ ProcessReplyAtStart \/ ProcessReply \/ Crash \/ ProcessMalformed

ReceiveNext ==
    \/ MainThread \/ Listener \/ Ended
    \/ \E m \in ServerMessages : Recv(m)

ReceiveSpec == ReceiveInit /\ [][ReceiveNext]_rvars

-----------------------------------------------------------------------------
(* Every variable of the listener and of the list of seen IDs has its type. *)
ReceiveTypeOK ==
    /\ TypeOK
    /\ state \in {"START", "AUTH", "OPEN", "JOIN"}
    /\ sent \subseteq ServerMessages
    /\ recv_buffer \in [Offsets -> Byte] /\ numbytes \in Offsets
    /\ shown \in Seq(Ids)
    /\ \A d \in toServer : Len(d) <= MAX_MSG_SIZE /\ \A k \in 1 .. Len(d) : d[k] \in Byte
    /\ pc \in {"recv", "process", "ended", "crashed"}

(* What the user sees is what the server wrote, name and contents, whatever *)
(* earlier and longer datagrams left in the buffer; only a message longer   *)
(* than the buffer loses the end of its contents, and nothing else.         *)
WholeOrCut ==
    display # Nothing =>
        \E m \in sent :
            /\ display.type = m.type /\ display.id = m.id
            /\ IF m.type = "REPLY" THEN display.result = m.result ELSE display.name = m.name
            /\ LET kept == Len(m.contents) - (Len(Wire(m)) - 1 - (MAX_MSG_SIZE - 1))
               IN  display.contents = IF kept < Len(m.contents) THEN strncpy(m.contents, kept)
                                      ELSE m.contents

(* The server reads a CONFIRM as the protocol lays it out. *)
Confirmed == {256 * d[2] + d[3] : d \in {e \in toServer : e[1] = 0}}

(* Every chat message of the server is shown at most once, and the server   *)
(* learns of its arrival only after that, although datagrams are repeated   *)
(* and reordered, the buffer keeps older bytes and the list of IDs grows.   *)
Chat == INSTANCE Delivery WITH Messages <- ServerMessages, confirmed <- Confirmed
ImplementsDelivery == Chat!Spec
=============================================================================

----------------------------- MODULE TcpFraming -----------------------------
(***************************************************************************)
(* How the TCP listener cuts the byte stream into messages                 *)
(* (network_tcp.c, tcp_listener).  Each recv returns some bytes of the     *)
(* stream; the lines they complete are appended to line_buffer and         *)
(* processed one after the other, what is left is saved in line_buffer.    *)
(*                                                                         *)
(* The server is external: it writes whole messages, TCP keeps their order *)
(* and cuts them anywhere.  A message holds no CR and no NUL, as the       *)
(* protocol's grammar says, but it may hold an LF.                         *)
(***************************************************************************)
EXTENDS CStrings

CONSTANTS
    Content,           \* the bytes messages are made of
    Messages,          \* the messages the server may write
    MaxMessages,       \* bound: messages the server writes
    MaxRead,           \* sizeof(recv_buffer) - 1
    SplitTerminators   \* a recv may end between the CR and the LF of a message

ASSUME FramingAssumption ==
    /\ CR \notin Content
    /\ \A m \in Messages : m \in Seq(Content) /\ m # <<>>
    /\ MaxMessages \in Nat
    /\ MaxRead \in Nat /\ MaxRead >= 2
    /\ SplitTerminators \in BOOLEAN

Bytes == Content \cup {CR, LF}

VARIABLES
    sent,      \* messages the server has written
    pending,   \* bytes of them that recv has not returned yet
    buffer,    \* recv_buffer from start on
    line,      \* line_buffer, without its NUL
    capacity,  \* line_buffer_size
    handled,   \* messages passed to process_tcp_message
    pc         \* recv, split, process, ended

vars == <<sent, pending, buffer, line, capacity, handled, pc>>

Init ==
    /\ sent = <<>> /\ pending = <<>> /\ buffer = <<>>
    /\ line = <<>> /\ capacity = 0
    /\ handled = <<>> /\ pc = "recv"

Write(m) ==
    /\ pc # "ended" /\ Len(sent) < MaxMessages
    /\ sent' = Append(sent, m)
    /\ pending' = pending \o m \o <<CR, LF>>
    /\ UNCHANGED <<buffer, line, capacity, handled, pc>>

(* recv returns the first n bytes of what has arrived. *)
Recv(n) ==
    /\ pc = "recv" /\ n <= Len(pending)
    /\ SplitTerminators \/ pending[n] # CR
    /\ buffer' = SubSeq(pending, 1, n)
    /\ pending' = SubSeq(pending, n + 1, Len(pending))
    /\ pc' = "split"
    /\ UNCHANGED <<sent, line, capacity, handled>>

(* Room for the line so far, n bytes more and a NUL. *)
RoomWithoutNul(n) == Len(line) + n     \* mistake: the NUL is forgotten
Room(n) == Len(line) + n + 1

(* malloc, realloc or leave it, then strcat. *)
AppendToLine(s) ==
    /\ line' = line \o s
    /\ capacity' = IF capacity < Room(Len(s)) THEN Room(Len(s)) ELSE capacity

Terminators(s) == {i \in 1 .. Len(s) - 1 : s[i] = CR /\ s[i + 1] = LF}

OneLinePerRead(s, i) == <<>>           \* mistake: start does not move on
AfterLine(s, i) == SubSeq(s, i + 2, Len(s))

(* strstr finds the first CRLF at or after start. *)
CompleteLine ==
    /\ pc = "split"
    /\ \E i \in Terminators(buffer) :
         /\ \A j \in Terminators(buffer) : i <= j
         /\ AppendToLine(SubSeq(buffer, 1, i - 1))
         /\ buffer' = AfterLine(buffer, i)
    /\ pc' = "process"
    /\ UNCHANGED <<sent, pending, handled>>

NotReset == line                       \* mistake: the line is not emptied
Reset == <<>>

Process ==
    /\ pc = "process"
    /\ handled' = Append(handled, line)
    /\ line' = Reset
    /\ pc' = "split"
    /\ UNCHANGED <<sent, pending, buffer, capacity>>

SaveRest ==
    /\ pc = "split" /\ Terminators(buffer) = {}
    /\ IF buffer = <<>> THEN UNCHANGED <<line, capacity>> ELSE AppendToLine(buffer)
    /\ buffer' = <<>>
    /\ pc' = "recv"
    /\ UNCHANGED <<sent, pending, handled>>

(* recv returns 0: the server has closed the connection.  What line_buffer  *)
(* holds is dropped.                                                        *)
End ==
    /\ pc = "recv" /\ pending = <<>>
    /\ pc' = "ended"
    /\ UNCHANGED <<sent, pending, buffer, line, capacity, handled>>

Ended == pc = "ended" /\ UNCHANGED vars

Listener == CompleteLine \/ Process \/ SaveRest \/ \E n \in 1 .. MaxRead : Recv(n)

Next == Listener \/ End \/ Ended \/ \E m \in Messages : Write(m)

(* The listener thread is scheduled, and recv returns what has arrived. *)
Spec == Init /\ [][Next]_vars /\ WF_vars(Listener)

-----------------------------------------------------------------------------
(* Every variable holds a value the declarations allow; what is handled     *)
(* could be a message: it is not empty, not overlong, and holds no CR.      *)
TypeOK ==
    /\ sent \in Seq(Messages) /\ handled \in Seq(Messages)
    /\ pending \in Seq(Bytes) /\ buffer \in Seq(Bytes) /\ line \in Seq(Bytes)
    /\ capacity \in Nat
    /\ pc \in {"recv", "split", "process", "ended"}

(* line_buffer always has room for its text and the NUL, through every      *)
(* sequence of lines completed and rests saved: the first allocation, the   *)
(* growth, and the reuse of a buffer that was made for another line.        *)
LineFits == line # <<>> => Len(line) + 1 <= capacity

(* The listener hands on the messages the server wrote, whole and in order, *)
(* however recv cuts the stream.                                            *)
Stream == INSTANCE MessageStream
ImplementsMessageStream == Stream!Spec

(* Every message the server wrote is handled, also when no further bytes    *)
(* arrive.                                                                  *)
EverythingHandled ==
    \A k \in 1 .. MaxMessages : (Len(sent) >= k) ~> (Len(handled) >= k)
=============================================================================

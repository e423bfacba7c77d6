----------------------------- MODULE Datagrams ------------------------------
(***************************************************************************)
(* The layout of the UDP variant's messages: the struct a create_* function *)
(* fills and serialize_* writes out (messages.c, serialize.c), and what     *)
(* deserialize_* reads from the receive buffer (deserialize.c).             *)
(* A datagram is a sequence of bytes; a buffer is a function from offsets.  *)
(***************************************************************************)
EXTENDS CStrings, Maximums

MSG_TYPE_VAL == [CONFIRM |-> 0, REPLY |-> 1, AUTH |-> 2, JOIN |-> 3,
                 MSG |-> 4, PING |-> 253, ERR |-> 254, BYE |-> 255]

htons(id) == <<id \div 256, id % 256>>

Header(type, id) == <<MSG_TYPE_VAL[type]>> \o htons(id)
Terminated(s) == Append(s, NUL)

serialize_confirm_msg(ref) == Header("CONFIRM", ref)

NameLast(id, username, name, secret) ==           \* mistake: the order of the TCP commands
    Header("AUTH", id) \o Terminated(username) \o Terminated(secret) \o Terminated(name)
serialize_auth_msg(id, username, name, secret) ==
    Header("AUTH", id) \o Terminated(username) \o Terminated(name) \o Terminated(secret)

serialize_join_msg(id, channel, name) ==
    Header("JOIN", id) \o Terminated(channel) \o Terminated(name)

serialize_msg(id, name, content) ==
    Header("MSG", id) \o Terminated(name) \o Terminated(content)

serialize_err_msg(id, name, content) ==
    Header("ERR", id) \o Terminated(name) \o Terminated(content)

serialize_bye_msg(id, name) == Header("BYE", id) \o Terminated(name)

-----------------------------------------------------------------------------
(* Reading from offset 0.  A type's smallest datagram has one character in  *)
(* every text of it; a shorter one gives NULL.                              *)
MIN_SIZE == [CONFIRM |-> 3, REPLY |-> 8, MSG |-> 7, PING |-> 3, ERR |-> 7, BYE |-> 5]
ReturnsNull(type, size) == size < MIN_SIZE[type]

ntohs(buffer, offset) == 256 * buffer[offset] + buffer[offset + 1]

(* The characters from an offset up to the first NUL (or, if there were     *)
(* none, the end of the buffer).                                            *)
CString(buffer, offset) ==
    LET ends == {i \in offset .. MAX_MSG_SIZE - 1 : buffer[i] = NUL} \cup {MAX_MSG_SIZE}
    IN  [i \in 1 .. First(ends) - offset |-> buffer[offset + i - 1]]

deserialize_confirm_msg(buffer) == [ref_message_id |-> ntohs(buffer, 1)]

deserialize_reply_msg(buffer) ==
    [message_id |-> ntohs(buffer, 1), result |-> buffer[3],
     ref_message_id |-> ntohs(buffer, 4), message_contents |-> CString(buffer, 6)]

NameAndContents(buffer) ==
    LET name == CString(buffer, 3)
    IN  [message_id |-> ntohs(buffer, 1), display_name |-> name,
         message_contents |-> CString(buffer, 3 + Len(name) + 1)]

deserialize_msg(buffer) == NameAndContents(buffer)
deserialize_err_msg(buffer) == NameAndContents(buffer)

deserialize_bye_msg(buffer) ==
    [message_id |-> ntohs(buffer, 1), display_name |-> CString(buffer, 3)]

deserialize_ping_msg(buffer) == [message_id |-> ntohs(buffer, 1)]
=============================================================================

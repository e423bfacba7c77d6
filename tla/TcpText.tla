------------------------------ MODULE TcpText -------------------------------
(***************************************************************************)
(* The text of the TCP variant's messages: what the send_tcp_* functions    *)
(* write and what the process_tcp_*_message functions read                  *)
(* (network_tcp.c).  A keyword is one symbol outside the range of           *)
(* characters, with the width of its text; a text is a sequence of          *)
(* characters and keywords.                                                 *)
(***************************************************************************)
EXTENDS CStrings, Maximums, SequencesExt, FiniteSets

AUTH == 301
JOIN == 302
MSG == 303
ERR == 304
BYE == 305
REPLY == 306
AS == 307
USING == 308
FROM == 309
IS == 310
OK == 311
NOK == 312

(* The length of a keyword's text. *)
Width(c) == IF c \in {REPLY, USING} THEN 5
            ELSE IF c \in {AUTH, JOIN, FROM} THEN 4
            ELSE IF c \in {MSG, ERR, BYE, NOK} THEN 3
            ELSE IF c \in {AS, IS, OK} THEN 2
            ELSE 1

(* The length of a text: one for each symbol, and one more for each n that  *)
(* its width exceeds.                                                       *)
Wider(t, n) == Cardinality({i \in DOMAIN t : Width(t[i]) > n})
Size(t) == Len(t) + Wider(t, 1) + Wider(t, 2) + Wider(t, 3) + Wider(t, 4)

Spaced(word) == <<SP, word, SP>>
CRLF == <<CR, LF>>

(* Text of MAX_MSG_SIZE and more is cut, its CRLF first.  The end of a text *)
(* that long is made of single characters.                                  *)
snprintf(t) ==
    IF Size(t) < MAX_MSG_SIZE THEN t
    ELSE SubSeq(t, 1, Len(t) - (Size(t) - (MAX_MSG_SIZE - 1)))

send_tcp_auth_msg(username, name, secret) ==
    snprintf(<<AUTH, SP>> \o username \o Spaced(AS) \o name \o Spaced(USING) \o secret \o CRLF)

send_tcp_join_msg(channel, name) ==
    snprintf(<<JOIN, SP>> \o channel \o Spaced(AS) \o name \o CRLF)

send_tcp_msg_msg(name, content) ==
    snprintf(<<MSG, SP, FROM, SP>> \o name \o Spaced(IS) \o content \o CRLF)

send_tcp_bye_msg(name) == snprintf(<<BYE, SP, FROM, SP>> \o name \o CRLF)

send_tcp_err_msg(name, content) ==
    snprintf(<<ERR, SP, FROM, SP>> \o name \o Spaced(IS) \o content \o CRLF)

-----------------------------------------------------------------------------
Malformed(type) == [type |-> type, malformed |-> TRUE]

From(m) == First(Occurrences(m, <<FROM, SP>>, 1)) + 2
HasFrom(m) == Occurrences(m, <<FROM, SP>>, 1) # {}
Separators(m) == Occurrences(m, Spaced(IS), From(m))

(* The name ends at the first " IS "; whatever follows is content. *)
LastSeparator(m) == CHOOSE i \in Separators(m) : \A j \in Separators(m) : j <= i  \* mistake
Separator(m) == First(Separators(m))

(* The content has no bound: a longer one than the grammar allows is        *)
(* written past the end of content[], which has room for the longest.       *)
NameAndContent(type, m) ==
    IF ~HasFrom(m) \/ Separators(m) = {} THEN Malformed(type)
    ELSE [type |-> type,
          name |-> strncpy(SubSeq(m, From(m), Separator(m) - 1), MAX_DISPLAY_NAME_LEN),
          content |-> SubSeq(m, Separator(m) + 3, Len(m))]

process_tcp_msg_message(m) == NameAndContent("MSG", m)
process_tcp_err_message(m) == NameAndContent("ERR", m)

process_tcp_bye_message(m) ==
    IF HasFrom(m) THEN [type |-> "BYE", name |-> SubSeq(m, From(m), Len(m))]
    ELSE Malformed("BYE")

(* sscanf: a space in the format skips any white space, TAB, VT and FF too; *)
(* the content ends at a CR or LF and must not be empty.                    *)
Blank == {SP, 9, LF, 11, 12, CR}
SkipBlanks(s) == SubSeq(s, First({i \in 1 .. Len(s) : s[i] \notin Blank} \cup {Len(s) + 1}), Len(s))
FirstLine(s) ==
    SubSeq(s, 1, First({i \in 1 .. Len(s) : s[i] \in {CR, LF}} \cup {Len(s) + 1}) - 1)

process_tcp_reply_message(m) ==
    LET rest == SkipBlanks(Tail(m))
        text == SkipBlanks(Tail(rest))
        content == IF text # <<>> /\ Head(text) = IS THEN FirstLine(SkipBlanks(Tail(text)))
                   ELSE <<>>
    IN  IF rest = <<>> \/ content = <<>> THEN Malformed("REPLY")
        ELSE [type |-> "REPLY", result |-> Head(rest), content |-> content]

process_tcp_message(m) ==
    IF IsPrefix(<<REPLY, SP>>, m) THEN process_tcp_reply_message(m)
    ELSE IF IsPrefix(<<MSG, SP, FROM, SP>>, m) THEN process_tcp_msg_message(m)
    ELSE IF IsPrefix(<<ERR, SP, FROM, SP>>, m) THEN process_tcp_err_message(m)
    ELSE IF IsPrefix(<<BYE, SP, FROM, SP>>, m) THEN process_tcp_bye_message(m)
    ELSE Malformed("unknown")
=============================================================================

----------------------------- MODULE Validation -----------------------------
(***************************************************************************)
(* The checks of validation.c on what the user typed.                       *)
(***************************************************************************)
EXTENDS CStrings, Maximums

(* The characters for which isalnum holds. *)
isalnum == (48 .. 57) \cup (65 .. 90) \cup (97 .. 122)

UNDERSCORE == 95
HYPHEN == 45
DOT == 46

EveryCharacter(s, allowed) == \A i \in 1 .. Len(s) : s[i] \in allowed

(* Usernames and channel IDs. *)
AnyCharacterInId(id) == Len(id) \in 1 .. MAX_USERNAME_LEN     \* mistake: the loop is gone
validate_id(id) ==
    /\ Len(id) \in 1 .. MAX_USERNAME_LEN
    /\ EveryCharacter(id, isalnum \cup {UNDERSCORE, HYPHEN, DOT})

validate_secret(secret) ==
    /\ Len(secret) \in 1 .. MAX_SECRET_LEN
    /\ EveryCharacter(secret, isalnum \cup {UNDERSCORE, HYPHEN})

validate_display_name(name) ==
    /\ Len(name) \in 1 .. MAX_DISPLAY_NAME_LEN
    /\ EveryCharacter(name, 33 .. 126)

validate_message_content(content) ==
    /\ content # <<>>
    /\ EveryCharacter(content, {LF} \cup (32 .. 126))

truncate_message_content(content) == strncpy(content, MAX_MESSAGE_CONTENT_LEN)
=============================================================================

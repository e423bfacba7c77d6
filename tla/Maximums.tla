------------------------------ MODULE Maximums ------------------------------
(***************************************************************************)
(* The limits of maximums.h, as parameters.                                 *)
(***************************************************************************)
EXTENDS Integers

CONSTANTS
    MAX_USERNAME_LEN,           \* 20, and so is MAX_CHANNEL_ID_LEN
    MAX_SECRET_LEN,             \* 128
    MAX_DISPLAY_NAME_LEN,       \* 20
    MAX_MESSAGE_CONTENT_LEN     \* 60000

ASSUME MaximumsAssumption ==
    {MAX_USERNAME_LEN, MAX_SECRET_LEN, MAX_DISPLAY_NAME_LEN, MAX_MESSAGE_CONTENT_LEN}
        \subseteq Nat \ {0}

(* The parts of a REPLY and a NUL: a MSG can be longer. *)
MAX_MSG_SIZE == MAX_MESSAGE_CONTENT_LEN + 2 + 2 * 2 + 1
=============================================================================

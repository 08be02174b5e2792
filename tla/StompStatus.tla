----------------------------- MODULE StompStatus -----------------------------
(***************************************************************************)
(* The status object every layer of the library reports through            *)
(* (stomp_status.c, stomp_status.h).  A status is a code and a message;    *)
(* the message is kept as the pair of what it says (text) and the value    *)
(* formatted into its "%s" (detail).  Null stands for a NULL message.      *)
(***************************************************************************)
EXTENDS Integers

\* The enum stomp_status_code_t: a bit mask, so that a receive that found
\* nothing returns STOMP_SUCCESS | STOMP_NO_DATA.
STOMP_FAILURE == 0
STOMP_SUCCESS == 1
STOMP_NO_DATA == 2
SuccessNoData == STOMP_SUCCESS + STOMP_NO_DATA

StatusCode == {STOMP_FAILURE, STOMP_SUCCESS, SuccessNoData}

\* stomp_success: the low bit of the code.
stomp_success(stat) == stat % 2 = STOMP_SUCCESS

Null == "NULL"

\* stomp_status_set releases the old message, formats the new one and stores
\* the code: nothing of the old status survives.
stomp_status_set(code, text, detail) ==
    [code |-> code, text |-> text, detail |-> detail]

\* stomp_status_success: code STOMP_SUCCESS and no message.
stomp_status_success == stomp_status_set(STOMP_SUCCESS, Null, Null)
=============================================================================

--------------------------- MODULE MCStompPrograms ---------------------------
(***************************************************************************)
(* The example programs together: two senders and the server of the        *)
(* messenger, so that a second message can come before the first has been  *)
(* read; and a client and the server of the engine, which name different   *)
(* queues, with two other applications.                                    *)
(***************************************************************************)
EXTENDS StompPrograms

CONSTANTS c, d, s, t, o, q

C == {c}
D == {d}
S == {s}
T == {t}
O == {o, q}
BothCasts == {{c, d, s}, {d, t, o, q}}
=============================================================================

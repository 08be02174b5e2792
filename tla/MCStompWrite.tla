---------------------------- MODULE MCStompWrite ----------------------------
(***************************************************************************)
(* A small instance of StompWrite: the frames the library and its examples *)
(* write, in the ways they differ to the writer.                           *)
(***************************************************************************)
EXTENDS StompWrite

NoHeader == [k \in {} |-> <<>>]

\* stomp_connect with credentials, one of them empty.
Connect == [command |-> "CONNECT",
            headers |-> [k \in {"login", "passcode"} |->
                            IF k = "login" THEN <<"user">> ELSE <<>>],
            body |-> NULL, size |-> -1]

\* stomp_send of a message that stomp_message_format has filled.
Text == [command |-> "SEND", headers |-> [k \in {"destination"} |-> <<"queue">>],
         body |-> <<"x", NUL>>, size |-> 2]

\* A body given with its size, a NUL in the middle of it.
Binary == [command |-> "SEND", headers |-> NoHeader, body |-> <<"x", NUL, "y", NUL>>,
           size |-> 3]

\* The SEND of example/engine/client.c, and the DISCONNECT of its server.
Unsized == [command |-> "SEND", headers |-> NoHeader, body |-> <<"x", "y", NUL>>,
            size |-> -1]
Bare == [command |-> "DISCONNECT", headers |-> NULL, body |-> NULL, size |-> -1]

MCFrames == {Connect, Text, Binary, Unsized, Bare}
=============================================================================

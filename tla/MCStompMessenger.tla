-------------------------- MODULE MCStompMessenger --------------------------
(***************************************************************************)
(* Small instances of StompMessenger.  One runs every call against a short *)
(* history, the other a longer history of the calls that subscribe and     *)
(* send.                                                                   *)
(***************************************************************************)
EXTENDS StompMessenger

EveryPath == {"/queue", "", Null}
EveryRequest == Request

OnePath == {"/queue"}
\* The statuses are written and never read, except into one another, so that states
\* that differ in them alone have the same future as far as the properties of
\* the deep run go.
ButStatus == <<connection, path, call, toBroker, torn, channel, written, broker,
               delivered, clean>>

SubscribeAndSend == {"CONNECT", "SUBSCRIBE", "SEND"}
=============================================================================

---------------------------- MODULE MCChatClient ----------------------------
(* A user who logs in and sends one more message, public or private; any   *)
(* beginning of a line may be entered.  A name may end in a space.         *)
EXTENDS ChatClient

MCLine ==
  [mode \in TypingMode |->
     CASE mode = "Username" -> {<<"name">>}
       [] mode = "Editing" -> {<<"private", "space", "name", "space", "text">>, <<"name">>}
       [] mode = "PrivateUsername" -> {<<"name", "space">>}
       [] mode = "PrivateMessaging" -> {<<"name">>}]

MCIncoming == {"global", "ping", "invalid"}
=============================================================================

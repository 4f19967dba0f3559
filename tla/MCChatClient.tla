---- MODULE MCChatClient ----
(* Model values for ChatClient. *)
EXTENDS ChatClient, TLC
CONSTANTS s1, s2, s3
MCSessions2 == {s1, s2}
MCSessions3 == {s1, s2, s3}
====

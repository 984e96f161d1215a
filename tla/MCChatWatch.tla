---------------------------- MODULE MCChatWatch ----------------------------
(* Two files of one album, the first delivered twice; one user has an album *)
(* rule and wants both, the other wants the first.                          *)
EXTENDS ChatWatch

CONSTANTS m1, m2, plain, album, g1

MCGroupOf == [m \in Messages |-> g1]
MCWants == {<<album, m1>>, <<album, m2>>, <<plain, m1>>}
MCMaxCopies == [m \in Messages |-> IF m = m1 THEN 2 ELSE 1]
=============================================================================

------------------------------ MODULE MCEngine ------------------------------
(***************************************************************************)
(* Engine instantiated for TLC: two topics of the application that project *)
(* to one topic id and so ride one overlay and share one gossip buffer.    *)
(***************************************************************************)
EXTENDS Engine, TLC

CONSTANTS chat, news

MCTopics == {chat, news}
MCTopicId == (chat :> 1) @@ (news :> 1)

=============================================================================

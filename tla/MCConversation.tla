--------------------------- MODULE MCConversation ---------------------------
(* Instances of Conversation for TLC.                                       *)
EXTENDS Conversation

CONSTANTS s1, s2, t1, t2

Said(s) == [session |-> s, role |-> "user", turn |-> None]

\* A page of one session and an older message.
MCShortHistory == <<Said(s1), Said(s1), Said(s1)>>
=============================================================================

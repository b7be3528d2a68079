----------------------------- MODULE MCFanoutLag -----------------------------
(* One topic and a ring of one message, so that forwarders lag, with a      *)
(* replay buffer of three, so that a lag is sometimes recovered and         *)
(* sometimes not, and one retained message.                                 *)
EXTENDS Fanout

CONSTANTS a, p1, s1

MCTopicOf == <<a, a, a, a>>
MCRetainOf == <<"no", "set", "no", "no">>
MCFilterOf == s1 :> a
MCMatches == <<>>
=============================================================================

----------------------------- MODULE MCBroadcast -----------------------------
EXTENDS Broadcast
CONSTANTS u1, u2
MCRequests ==
    {[kind |-> "mass", autoDelete |-> FALSE, to |-> Users],
     [kind |-> "timed", autoDelete |-> TRUE, to |-> Users],
     [kind |-> "private", autoDelete |-> TRUE, to |-> {u1}]}
=============================================================================

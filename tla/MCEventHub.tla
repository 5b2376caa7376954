----------------------------- MODULE MCEventHub -----------------------------
EXTENDS EventHub, TLC

CONSTANTS imapd, midb, p1, p2, s1, s2

MCOwner == (p1 :> imapd) @@ (p2 :> midb) @@ (s1 :> imapd) @@ (s2 :> imapd)

\* One stub may connect again before the daemon has noticed that it is gone.
MCGenerations == (p1 :> 1) @@ (p2 :> 1) @@ (s1 :> 2) @@ (s2 :> 1)
=============================================================================

----------------------------- MODULE MailboxUse -----------------------------
(***************************************************************************)
(* What the store's table of open mailboxes promises, without locks,       *)
(* references or time: a mailbox is opened for the first thread that uses  *)
(* it, stays open for every thread that does and for what clients have     *)
(* opened in it, and may be closed at any other moment.                    *)
(***************************************************************************)
CONSTANTS Dirs, Threads, Kinds, NoDir

VARIABLES open,     \* the mailboxes that are open
          use,      \* the mailbox that each thread works on
          objects   \* what clients have opened in each of them

vars == <<open, use, objects>>

Init ==
    /\ open = {}
    /\ use = [t \in Threads |-> NoDir]
    /\ objects = [d \in Dirs |-> {}]

\* The mailbox is opened if it is not.
Enter(t, d) ==
    /\ use[t] = NoDir
    /\ open' = open \cup {d}
    /\ use' = [use EXCEPT ![t] = d]
    /\ UNCHANGED objects

Leave(t) ==
    /\ use[t] # NoDir
    /\ use' = [use EXCEPT ![t] = NoDir]
    /\ UNCHANGED <<open, objects>>

\* Only who uses a mailbox adds or removes an object in it.
Change(t, k) ==
    /\ use[t] \in open
    /\ objects' = [objects EXCEPT ![use[t]] =
                       IF k \in @ THEN @ \ {k} ELSE @ \cup {k}]
    /\ UNCHANGED <<open, use>>

Close(d) ==
    /\ d \in open /\ objects[d] = {}
    /\ \A t \in Threads : use[t] # d
    /\ open' = open \ {d}
    /\ UNCHANGED <<use, objects>>

Next ==
    \/ \E t \in Threads, d \in Dirs : Enter(t, d)
    \/ \E t \in Threads : Leave(t) \/ \E k \in Kinds : Change(t, k)
    \/ \E d \in Dirs : Close(d)

Spec == Init /\ [][Next]_vars
=============================================================================

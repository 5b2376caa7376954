--------------------------- MODULE ConnectionLife ---------------------------
(***************************************************************************)
(* What the scheduler of lib/contexts_pool.cpp promises of one connection, *)
(* without lists, locks, epoll or timeouts: a context is set up by one     *)
(* listener, is then ready and waiting in turn, is served by one pool      *)
(* thread at a time, and becomes free again only at the end of a service.  *)
(***************************************************************************)
EXTENDS FiniteSets

CONSTANTS
    Ctx,       \* contexts
    Workers    \* pool threads

VARIABLES
    stage,     \* where in its life a context is
    server     \* the pool threads that serve it

vars == <<stage, server>>

Stages == {"free", "setup", "waiting", "ready", "served"}

Init ==
    /\ stage = [c \in Ctx |-> "free"]
    /\ server = [c \in Ctx |-> {}]

\* One context goes from one stage to another that may follow it.
Move(c, from, to) ==
    /\ stage[c] = from
    /\ stage' = [stage EXCEPT ![c] = to]

SetUp(c)  == Move(c, "free", "setup") /\ UNCHANGED server
Refuse(c) == Move(c, "setup", "free") /\ UNCHANGED server
Start(c)  == Move(c, "setup", "waiting") /\ UNCHANGED server

\* Any number of waiting contexts become ready at once.
MakeReady ==
    /\ \E S \in SUBSET {c \in Ctx : stage[c] = "waiting"} :
        stage' = [c \in Ctx |-> IF c \in S THEN "ready" ELSE stage[c]]
    /\ UNCHANGED server

Serve(c, w) ==
    /\ Move(c, "ready", "served")
    /\ \A d \in Ctx : w \notin server[d]
    /\ server' = [server EXCEPT ![c] = {w}]

\* The service ends: more to do, something to wait for, or the connection is closed.
Leave(c, to) ==
    /\ Move(c, "served", to)
    /\ server' = [server EXCEPT ![c] = {}]

Next ==
    \/ MakeReady
    \/ \E c \in Ctx : SetUp(c) \/ Refuse(c) \/ Start(c)
    \/ \E c \in Ctx, w \in Workers : Serve(c, w)
    \/ \E c \in Ctx, to \in {"ready", "waiting", "free"} : Leave(c, to)

Spec == Init /\ [][Next]_vars
=============================================================================

-------------------------------- MODULE Router --------------------------------
(***************************************************************************)
(* The router of llp-server (router.rs) on top of the session manager: a   *)
(* task that takes commands from an unbounded channel, and one sleeping    *)
(* client_read_loop for every registration, which asks for the removal of  *)
(* its client when it wakes up.                                            *)
(*                                                                         *)
(* The server creates the router and hands its handle to the listener; the *)
(* calls of the handle are made here by whoever holds it (Submit).  A      *)
(* client's stream, wrapper and VPN address (never assigned) are contents  *)
(* that no command tells apart, so the map is the set of its ids.          *)
(***************************************************************************)
EXTENDS SessionManager, Sequences

CONSTANTS
    ReadLoopSleep,    \* the hour of client_read_loop, in ticks
    Loops,            \* bound: client_read_loops at the same time
    MaxQueue,         \* bound: commands that callers leave in the channel
    None

ASSUME RouterAssumption ==
    /\ ReadLoopSleep \in Nat /\ MaxQueue \in Nat
    /\ None \notin Ids \union [id : Ids, slept : 0..ReadLoopSleep]

VARIABLES
    clients,     \* ids in the map of registered clients
    rx,          \* the channel of commands
    loops,       \* per loop: the id it was spawned for and the time it slept
    writing,     \* the id to whose stream send_to_client is writing
    removing     \* the id whose session remove_client waits to remove

routerVars == <<clients, rx, loops, writing, removing>>
vars == <<managerVars, routerVars>>

Register(i) == [op |-> "RegisterClient", id |-> i]
Send(i)     == [op |-> "SendToClient", id |-> i]
Remove(i)   == [op |-> "RemoveClient", id |-> i]
Commands    == [op : {"RegisterClient", "SendToClient", "RemoveClient"}, id : Ids]

Asleep(l) == loops[l] # None
Free == {l \in Loops : ~Asleep(l)}

RouterInit ==
    /\ ManagerInit
    /\ clients = {} /\ rx = <<>>
    /\ loops = [l \in Loops |-> None]
    /\ writing = None /\ removing = None

-----------------------------------------------------------------------------
(* The handle.                                                             *)

Submit(command) ==
    /\ Len(rx) < MaxQueue
    /\ rx' = Append(rx, command)
    /\ UNCHANGED <<managerVars, clients, loops, writing, removing>>

-----------------------------------------------------------------------------
(* The router task takes the next command when it is done with the last.   *)

Takes(command) ==
    /\ writing = None /\ removing = None
    /\ rx # <<>> /\ Head(rx) = command
    /\ rx' = Tail(rx)

\* insert replaces an earlier entry; the earlier entry's loop sleeps on.
RegisterClient(i, l) ==
    /\ Takes(Register(i))
    /\ l \in Free
    /\ clients' = clients \union {i}
    /\ loops' = [loops EXCEPT ![l] = [id |-> i, slept |-> 0]]
    /\ UNCHANGED <<managerVars, writing, removing>>

\* A client that is not there is an error; the packet for one that is there
\* goes to its TCP stream, and the task of all clients awaits that.
SendToClient(i) ==
    /\ Takes(Send(i))
    /\ writing' = IF i \in clients THEN i ELSE None
    /\ UNCHANGED <<managerVars, clients, loops, removing>>

\* The write is done or has failed, which removes nothing. No timeout ends it:
\* a client that does not read can make it last for ever.
WriteEnds ==
    /\ writing # None
    /\ writing' = None
    /\ UNCHANGED <<managerVars, clients, rx, loops, removing>>

\* Mutant: the session is looked for before the entry is taken out.
RemoveClientOfSession(i) ==
    /\ Takes(Remove(i))
    /\ clients' = IF i \in Present THEN clients \ {i} ELSE clients
    /\ removing' = IF i \in clients \intersect Present THEN i ELSE None
    /\ UNCHANGED <<managerVars, loops, writing>>

\* remove_client: out of the map, then wait for the lock of the manager.
RemoveClient(i) ==
    /\ Takes(Remove(i))
    /\ clients' = clients \ {i}
    /\ removing' = IF i \in clients THEN i ELSE None
    /\ UNCHANGED <<managerVars, loops, writing>>

\* The session may be gone by then; that is no error.
FinishRemove ==
    /\ removing # None
    /\ RemoveSession(removing) \/ NotFound(removing)
    /\ removing' = None
    /\ UNCHANGED <<clients, rx, loops, writing>>

\* What the router task does without waiting for a client.
RouterStep ==
    \/ \E i \in Ids : \/ SendToClient(i) \/ RemoveClient(i)
                      \/ \E l \in Loops : RegisterClient(i, l)
    \/ FinishRemove

-----------------------------------------------------------------------------
(* The loops.                                                              *)

Due(l) == Asleep(l) /\ loops[l].slept >= ReadLoopSleep

\* Mutant: the loop asks the manager first, and trusts that a client without
\* a session is registered no more.
LoopEndsIfPresent(l) ==
    /\ Due(l)
    /\ rx' = IF loops[l].id \in Present THEN Append(rx, Remove(loops[l].id)) ELSE rx
    /\ loops' = [loops EXCEPT ![l] = None]
    /\ UNCHANGED <<managerVars, clients, writing, removing>>

\* The loop wakes up and sends its command, whoever the id belongs to by now.
LoopEnds(l) ==
    /\ Due(l)
    /\ rx' = Append(rx, Remove(loops[l].id))
    /\ loops' = [loops EXCEPT ![l] = None]
    /\ UNCHANGED <<managerVars, clients, writing, removing>>

Sleep(l) ==
    IF Asleep(l) /\ loops[l].slept < ReadLoopSleep
    THEN [loops[l] EXCEPT !.slept = @ + 1]
    ELSE loops[l]

TimePasses ==
    /\ Tick
    /\ loops' = [l \in Loops |-> Sleep(l)]
    /\ UNCHANGED <<clients, rx, writing, removing>>

-----------------------------------------------------------------------------

\* The other users of the manager: the listener and the cleanup task.
Others(call) == call /\ UNCHANGED routerVars

RouterNext ==
    \/ \E command \in Commands : Submit(command)
    \/ RouterStep \/ WriteEnds
    \/ \E l \in Loops : LoopEnds(l)
    \/ TimePasses
    \/ Others(ManagerCall) \/ Others(CleanupExpired)

RouterSpec == RouterInit /\ [][RouterNext]_vars

\* Time passes, and what can run is run: the router, loops that are due, and
\* the cleanup task. The lock of the manager, for which FinishRemove waits, is
\* held by nobody across an await (listener.rs:193, main.rs:236). That a write
\* to a client ends is not assumed.
FairRouterSpec ==
    /\ RouterSpec
    /\ WF_vars(TimePasses) /\ WF_vars(Others(CleanupExpired))
    /\ WF_vars(RouterStep)
    /\ \A l \in Loops : WF_vars(LoopEnds(l))

-----------------------------------------------------------------------------
(* Properties.                                                             *)

Queued(command) == \E n \in DOMAIN rx : rx[n] = command

RouterTypeOK ==
    /\ clients \subseteq Ids
    /\ rx \in Seq(Commands)
    /\ loops \in [Loops -> [id : Ids, slept : 0..ReadLoopSleep] \union {None}]
    /\ writing \in Ids \union {None} /\ removing \in Ids \union {None}

\* A client is never forgotten: only a loop removes the entry of a client that
\* is gone without a word, and every registered client has a loop that sleeps
\* for it or a command to remove it in the channel, whatever was registered,
\* removed and registered again, and whether or not the manager still has the
\* session (router.rs:195-208, 220-228, 254-263).
EveryClientIsWatched ==
    \A i \in clients : Queued(Remove(i)) \/ \E l \in Loops : Asleep(l) /\ loops[l].id = i

\* Whoever is registered leaves the map in the end, though no step of the
\* router looks at its clients: the loops see to it (router.rs:220-226). Only a
\* client that does not read can prevent it, and then for everybody, since the
\* one task of the router writes to its stream (router.rs:243).
RegisteredLeaves ==
    \/ <>[](writing # None)
    \/ \A i \in Ids : i \in clients ~> i \notin clients
=============================================================================

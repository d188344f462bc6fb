---------------------------- MODULE Router_proofs -----------------------------
(***************************************************************************)
(* Proofs about SessionManager, for every finite set of ids and every      *)
(* choice of thresholds: the limit, the order of the clocks and who may    *)
(* leave; and about Router: its types, that no client is forgotten, and    *)
(* that a router is, for the manager, one more caller, so that the         *)
(* theorems about the manager hold under it.                               *)
(***************************************************************************)
EXTENDS Router, FiniteSetTheorems, TLAPS

(* The session manager.                                                    *)

Clocks == [age : Ticks, idle : Ticks, silent : Ticks]

(* The inductive invariant.                                                *)
ManagerInv == ManagerTypeOK /\ WithinLimit /\ ClocksOrdered

(* A clock that grows older by a tick stays a clock, and keeps its order to*)
(* the others, also where it is capped.                                    *)
LEMMA OlderClocks ==
    /\ 0 \in Ticks
    /\ \A t \in Ticks : Older(t) \in Ticks /\ t <= Older(t)
    /\ \A t, u \in Ticks : t <= u => Older(t) <= Older(u)
<1>1. Cap \in Nat
  BY ManagerAssumption DEF Cap, Larger
<1> QED
  BY <1>1 DEF Ticks, Older

(* The table that is left when sessions are taken out.                     *)
LEMMA FewerSessions ==
    ASSUME ManagerInv, NEW kept \in SUBSET Present,
           sessions' = [i \in kept |-> sessions[i]],
           result' \in {"removed", "cleaned"}
    PROVE  ManagerInv'
<1>1. /\ Present \subseteq Ids
      /\ sessions \in [Present -> Clocks]
  BY DEF ManagerInv, ManagerTypeOK, Clocks
<1>2. Present' = kept /\ sessions' \in [Present' -> Clocks]
  BY <1>1 DEF Present
<1>3. ManagerTypeOK'
  BY <1>1, <1>2 DEF ManagerTypeOK, Clocks
<1>4. WithinLimit'
  <2>1. IsFiniteSet(Present)
    BY <1>1, ManagerAssumption, FS_Subset
  <2>2. Cardinality(kept) <= Cardinality(Present)
    BY <2>1, FS_Subset
  <2>3. Cardinality(kept) \in Nat /\ Cardinality(Present) \in Nat
    BY <2>1, FS_Subset, FS_CardinalityType
  <2> QED
    BY <1>2, <2>2, <2>3, ManagerAssumption DEF ManagerInv, WithinLimit
<1>5. ClocksOrdered'
  BY <1>2 DEF ManagerInv, ClocksOrdered
<1> QED
  BY <1>3, <1>4, <1>5 DEF ManagerInv

(* A call that leaves the table as it is.                                  *)
LEMMA SameSessions ==
    ASSUME ManagerInv, UNCHANGED sessions,
           result' \in {"none", "ok", "TooManySessions", "SessionAlreadyExists",
                        "SessionNotFound", "removed", "cleaned"}
    PROVE  ManagerInv'
BY DEF ManagerInv, ManagerTypeOK, WithinLimit, ClocksOrdered, Present

(* A session that joins the table when there is room.                      *)
LEMMA AddKeeps ==
    ASSUME ManagerInv, NEW i \in Ids, AddSession(i)
    PROVE  ManagerInv'
<1>1. CASE UNCHANGED sessions /\ result' \in {"TooManySessions", "SessionAlreadyExists"}
  BY <1>1, SameSessions
<1>2. ASSUME Cardinality(Present) < MaxSessions, i \notin Present, result' = "ok",
             sessions' = [j \in Present \union {i} |->
                             IF j = i THEN NewSession ELSE sessions[j]]
      PROVE  ManagerInv'
  <2>1. Present \subseteq Ids /\ sessions \in [Present -> Clocks]
    BY DEF ManagerInv, ManagerTypeOK, Clocks
  <2>2. NewSession \in Clocks
    BY OlderClocks DEF NewSession, Clocks
  <2>3. Present' = Present \union {i} /\ sessions' \in [Present' -> Clocks]
    BY <1>2, <2>1, <2>2 DEF Present
  <2>4. ManagerTypeOK'
    BY <1>2, <2>1, <2>3 DEF ManagerTypeOK, Clocks
  <2>5. WithinLimit'
    <3>1. IsFiniteSet(Present)
      BY <2>1, ManagerAssumption, FS_Subset
    <3>2. Cardinality(Present \union {i}) = Cardinality(Present) + 1
      BY <3>1, <1>2, FS_AddElement
    <3>3. Cardinality(Present) \in Nat
      BY <3>1, FS_CardinalityType
    <3> QED
      BY <1>2, <2>3, <3>2, <3>3, ManagerAssumption DEF WithinLimit
  <2>6. ClocksOrdered'
    BY <1>2, <2>3 DEF ManagerInv, ClocksOrdered, NewSession
  <2> QED
    BY <2>4, <2>5, <2>6 DEF ManagerInv
<1>3. Cardinality(Present) \in Nat
  <2>1. IsFiniteSet(Present)
    BY ManagerAssumption, FS_Subset DEF ManagerInv, ManagerTypeOK
  <2> QED
    BY <2>1, FS_CardinalityType
<1> QED
  BY <1>1, <1>2, <1>3, ManagerAssumption DEF AddSession

(* A packet sent or heard resets clocks of one session.                    *)
LEMMA TrafficKeeps ==
    ASSUME ManagerInv, NEW i \in Ids, EncryptVia(i) \/ HeardVia(i)
    PROVE  ManagerInv'
<1>1. Present \subseteq Ids /\ sessions \in [Present -> Clocks] /\ i \in Present
  BY DEF ManagerInv, ManagerTypeOK, Clocks, EncryptVia, HeardVia
<1>2. sessions[i] \in Clocks
  BY <1>1
<1>3. /\ [sessions[i] EXCEPT !.idle = 0] \in Clocks
      /\ [sessions[i] EXCEPT !.idle = 0, !.silent = 0] \in Clocks
  BY <1>2, OlderClocks DEF Clocks
<1>4. sessions' \in [Present -> Clocks] /\ Present' = Present
  BY <1>1, <1>3 DEF EncryptVia, HeardVia, Present
<1>5. ManagerTypeOK'
  BY <1>1, <1>4 DEF ManagerTypeOK, Clocks, EncryptVia, HeardVia
<1>6. WithinLimit'
  BY <1>4 DEF ManagerInv, WithinLimit
<1>7. ClocksOrdered'
  <2>1. \A j \in Present : /\ 0 <= sessions[j].silent /\ 0 <= sessions[j].age
                           /\ sessions[j].idle <= sessions[j].silent
                           /\ sessions[j].silent <= sessions[j].age
    BY <1>1 DEF ManagerInv, ClocksOrdered, Clocks, Ticks
  <2> QED
    BY <1>1, <1>2, <1>4, <2>1 DEF ClocksOrdered, EncryptVia, HeardVia, Clocks
<1> QED
  BY <1>5, <1>6, <1>7 DEF ManagerInv

(* Every session grows older by the same tick.                             *)
LEMMA TickKeeps ==
    ASSUME ManagerInv, Tick
    PROVE  ManagerInv'
<1>1. Present \subseteq Ids /\ sessions \in [Present -> Clocks]
  BY DEF ManagerInv, ManagerTypeOK, Clocks
<1>2. Present' = Present
  BY DEF Tick, Present
<1>3. sessions' \in [Present -> Clocks]
  BY <1>1, OlderClocks DEF Tick, Clocks
<1>4. ManagerTypeOK'
  BY <1>1, <1>2, <1>3 DEF ManagerInv, ManagerTypeOK, Clocks, Tick
<1>5. WithinLimit'
  BY <1>2 DEF ManagerInv, WithinLimit
<1>6. ClocksOrdered'
  BY <1>1, <1>2, OlderClocks DEF Tick, ManagerInv, ClocksOrdered, Clocks
<1> QED
  BY <1>4, <1>5, <1>6 DEF ManagerInv

LEMMA ManagerInitial == ManagerInit => ManagerInv
<1> SUFFICES ASSUME ManagerInit PROVE ManagerInv
  OBVIOUS
<1>1. Present = {}
  BY DEF ManagerInit, Present
<1>2. ManagerTypeOK
  BY <1>1 DEF ManagerInit, ManagerTypeOK
<1>3. WithinLimit
  BY <1>1, FS_EmptySet, ManagerAssumption DEF WithinLimit
<1> QED
  BY <1>1, <1>2, <1>3 DEF ManagerInv, ClocksOrdered

(* ManagerInv is an invariant: the limit, the types and the order of the   *)
(* clocks hold whatever is called in whatever order.                       *)
THEOREM ManagerInvariance == ManagerSpec => []ManagerInv
<1>1. ASSUME ManagerInv, [ManagerNext]_managerVars PROVE ManagerInv'
  <2>1. ASSUME NEW i \in Ids, AddSession(i) PROVE ManagerInv'
    BY <1>1, <2>1, AddKeeps
  <2>2. ASSUME NEW i \in Ids, RemoveSession(i) PROVE ManagerInv'
    BY <1>1, <2>2, FewerSessions DEF RemoveSession
  <2>3. ASSUME NEW i \in Ids, NotFound(i) PROVE ManagerInv'
    BY <1>1, <2>3, SameSessions DEF NotFound
  <2>4. ASSUME NEW i \in Ids, EncryptVia(i) \/ HeardVia(i) PROVE ManagerInv'
    BY <1>1, <2>4, TrafficKeeps
  <2>5. CASE CleanupExpired
    BY <1>1, <2>5, FewerSessions DEF CleanupExpired
  <2>6. CASE Tick
    BY <1>1, <2>6, TickKeeps
  <2>7. CASE UNCHANGED managerVars
    BY <1>1, <2>7, SameSessions DEF managerVars, ManagerInv, ManagerTypeOK
  <2> QED
    BY <1>1, <2>1, <2>2, <2>3, <2>4, <2>5, <2>6, <2>7 DEF ManagerNext, ManagerCall
<1> QED
  BY ManagerInitial, <1>1, PTL DEF ManagerSpec

(* The table never holds more sessions than MAX_SESSIONS (session.rs:320). *)
THEOREM ManagerWithinLimit == ManagerSpec => []WithinLimit
<1>1. ManagerInv => WithinLimit
  BY DEF ManagerInv
<1> QED
  BY ManagerInvariance, <1>1, PTL

(* No call refreshes the keepalive clock without the activity clock.       *)
THEOREM ManagerClocksOrdered == ManagerSpec => []ClocksOrdered
<1>1. ManagerInv => ClocksOrdered
  BY DEF ManagerInv
<1> QED
  BY ManagerInvariance, <1>1, PTL

(* A session leaves when it is removed or due, and is not replaced.        *)
THEOREM ManagerLeaves == ManagerSpec => LeavesOnlyWhenDue
<1> DEFINE MayGo(i) ==
      /\ i \notin Present' => \/ result' = "removed"
                              \/ IsExpired(i) \/ IsKeepaliveTimeout(i)
      /\ i \in Present' => sessions'[i].age >= sessions[i].age
<1>1. ASSUME ManagerInv, [ManagerNext]_managerVars
      PROVE  [\A i \in Present : MayGo(i)]_managerVars
  <2>1. sessions \in [Present -> Clocks] /\ \A i \in Present : sessions[i].age \in Ticks
    BY <1>1 DEF ManagerInv, ManagerTypeOK, Clocks
  <2>2. \A i \in Present : sessions[i].age \in Int
    BY <2>1, ManagerAssumption DEF Ticks
  <2>3. ASSUME NEW i \in Present, UNCHANGED sessions PROVE MayGo(i)
    BY <2>2, <2>3 DEF Present
  <2>4. ASSUME NEW j \in Ids, AddSession(j), NEW i \in Present PROVE MayGo(i)
    <3>1. CASE UNCHANGED sessions
      BY <2>3, <3>1
    <3>2. CASE /\ j \notin Present
               /\ sessions' = [k \in Present \union {j} |->
                                  IF k = j THEN NewSession ELSE sessions[k]]
      BY <2>2, <2>4, <3>2 DEF Present
    <3> QED
      BY <2>4, <3>1, <3>2 DEF AddSession
  <2>5. ASSUME NEW j \in Ids, RemoveSession(j), NEW i \in Present PROVE MayGo(i)
    BY <2>2, <2>5 DEF RemoveSession, Present
  <2>6. ASSUME NEW j \in Ids, NotFound(j), NEW i \in Present PROVE MayGo(i)
    BY <2>3, <2>6 DEF NotFound
  <2>7. ASSUME NEW j \in Ids, EncryptVia(j) \/ HeardVia(j), NEW i \in Present PROVE MayGo(i)
    <3>1. Present' = Present
      BY <2>1, <2>7 DEF EncryptVia, HeardVia, Present
    <3>2. sessions'[i].age = sessions[i].age
      BY <2>1, <2>7 DEF EncryptVia, HeardVia, Clocks
    <3> QED
      BY <2>2, <3>1, <3>2
  <2>8. ASSUME CleanupExpired, NEW i \in Present PROVE MayGo(i)
    BY <2>2, <2>8 DEF CleanupExpired, Present
  <2>9. ASSUME Tick, NEW i \in Present PROVE MayGo(i)
    <3>1. Present' = Present /\ sessions'[i].age = Older(sessions[i].age)
      BY <2>9 DEF Tick, Present
    <3>2. Older(sessions[i].age) \in Ticks /\ sessions[i].age <= Older(sessions[i].age)
      BY <2>1, OlderClocks
    <3> QED
      BY <2>2, <3>1, <3>2, ManagerAssumption DEF Ticks
  <2> HIDE DEF MayGo
  <2> QED
    BY <1>1, <2>4, <2>5, <2>6, <2>7, <2>8, <2>9 DEF ManagerNext, ManagerCall
<1> QED
  BY ManagerInvariance, <1>1, PTL DEF ManagerSpec, LeavesOnlyWhenDue

-----------------------------------------------------------------------------
(* The router.                                                             *)

(* What a loop may be: the id it works for and the time it slept.          *)
Sleeper == [id : Ids, slept : 0..ReadLoopSleep]

(* A command appended to the channel leaves those that are in it.          *)
LEMMA AppendKeeps ==
    ASSUME NEW S, NEW q \in Seq(S), NEW new \in S
    PROVE  /\ Append(q, new) \in Seq(S)
           /\ \E n \in DOMAIN Append(q, new) : Append(q, new)[n] = new
           /\ \A c : (\E n \in DOMAIN q : q[n] = c)
                        => \E n \in DOMAIN Append(q, new) : Append(q, new)[n] = c
<1>1. Append(q, new) \in Seq(S) /\ DOMAIN Append(q, new) = 1..(Len(q) + 1)
  OBVIOUS
<1>2. Append(q, new)[Len(q) + 1] = new /\ Len(q) + 1 \in 1..(Len(q) + 1)
  OBVIOUS
<1>3. \A n \in DOMAIN q : n \in 1..(Len(q) + 1) /\ Append(q, new)[n] = q[n]
  OBVIOUS
<1> QED
  BY <1>1, <1>2, <1>3

(* Taking the head of the channel keeps every command that is not the head.*)
LEMMA TailKeeps ==
    ASSUME NEW S, NEW q \in Seq(S), q # <<>>
    PROVE  /\ Tail(q) \in Seq(S)
           /\ \A c : (\E n \in DOMAIN q : q[n] = c) /\ c # Head(q)
                        => \E n \in DOMAIN Tail(q) : Tail(q)[n] = c
<1>1. Tail(q) \in Seq(S) /\ DOMAIN Tail(q) = 1..(Len(q) - 1)
  OBVIOUS
<1>2. ASSUME NEW c, NEW n \in DOMAIN q, q[n] = c, c # Head(q)
      PROVE  \E m \in DOMAIN Tail(q) : Tail(q)[m] = c
  <2>1. n \in 2..Len(q)
    BY <1>2
  <2>2. n - 1 \in DOMAIN Tail(q) /\ Tail(q)[n - 1] = q[n]
    BY <1>1, <2>1
  <2> QED
    BY <1>2, <2>2
<1> QED
  BY <1>1, <1>2

-----------------------------------------------------------------------------
(* Types.                                                                  *)

LEMMA RouterTypesKept ==
    ASSUME RouterTypeOK, [RouterNext]_vars
    PROVE  RouterTypeOK'
<1>1. /\ clients \subseteq Ids /\ rx \in Seq(Commands)
      /\ loops \in [Loops -> Sleeper \union {None}]
      /\ writing \in Ids \union {None} /\ removing \in Ids \union {None}
  BY DEF RouterTypeOK, Sleeper
<1>2. ASSUME NEW command \in Commands, Submit(command) PROVE RouterTypeOK'
  BY <1>1, <1>2, AppendKeeps DEF Submit, RouterTypeOK, Sleeper
<1>3. ASSUME rx # <<>>, rx' = Tail(rx) PROVE rx' \in Seq(Commands)
  BY <1>1, <1>3
<1>4. ASSUME NEW i \in Ids, NEW l \in Loops, RegisterClient(i, l) PROVE RouterTypeOK'
  <2>1. [id |-> i, slept |-> 0] \in Sleeper
    BY RouterAssumption DEF Sleeper
  <2>2. loops' \in [Loops -> Sleeper \union {None}]
    BY <1>1, <1>4, <2>1 DEF RegisterClient
  <2> QED
    BY <1>1, <1>3, <1>4, <2>2 DEF RegisterClient, Takes, RouterTypeOK, Sleeper
<1>5. ASSUME NEW i \in Ids, SendToClient(i) \/ RemoveClient(i) PROVE RouterTypeOK'
  BY <1>1, <1>3, <1>5 DEF SendToClient, RemoveClient, Takes, RouterTypeOK, Sleeper
<1>6. CASE FinishRemove \/ WriteEnds
  BY <1>1, <1>6 DEF FinishRemove, WriteEnds, RouterTypeOK, Sleeper
<1>7. ASSUME NEW l \in Loops, LoopEnds(l) PROVE RouterTypeOK'
  <2>1. loops[l] \in Sleeper
    BY <1>1, <1>7 DEF LoopEnds, Due, Asleep
  <2>2. Remove(loops[l].id) \in Commands
    BY <2>1 DEF Remove, Commands, Sleeper
  <2>3. rx' \in Seq(Commands)
    BY <1>1, <1>7, <2>2, AppendKeeps DEF LoopEnds
  <2> QED
    BY <1>1, <1>7, <2>3 DEF LoopEnds, RouterTypeOK, Sleeper
<1>8. CASE TimePasses
  <2>1. ASSUME NEW l \in Loops PROVE Sleep(l) \in Sleeper \union {None}
    <3>1. CASE Asleep(l) /\ loops[l].slept < ReadLoopSleep
      <4>1. loops[l] \in Sleeper
        BY <1>1, <3>1 DEF Asleep
      <4>2. loops[l].slept + 1 \in 0..ReadLoopSleep
        BY <3>1, <4>1, RouterAssumption DEF Sleeper
      <4> QED
        BY <3>1, <4>1, <4>2 DEF Sleep, Sleeper
    <3> QED
      BY <1>1, <3>1 DEF Sleep
  <2> QED
    BY <1>1, <1>8, <2>1 DEF TimePasses, RouterTypeOK, Sleeper
<1>9. CASE UNCHANGED routerVars
  BY <1>9 DEF routerVars, RouterTypeOK
<1> QED
  BY <1>2, <1>4, <1>5, <1>6, <1>7, <1>8, <1>9
  DEF RouterNext, RouterStep, Others, vars

(* The fields keep their types, whatever is submitted.                     *)
THEOREM RouterTypeCorrect == RouterSpec => []RouterTypeOK
<1>1. RouterInit => RouterTypeOK
  BY DEF RouterInit, RouterTypeOK
<1> QED
  BY <1>1, RouterTypesKept, PTL DEF RouterSpec

-----------------------------------------------------------------------------
(* No client is forgotten.                                                 *)

(* What watches a client: a loop that sleeps for it, or the command.       *)
Watched(i) == Queued(Remove(i)) \/ \E l \in Loops : Asleep(l) /\ loops[l].id = i

(* A step that takes nothing out of the channel and ends no loop leaves    *)
(* everybody watched who was.                                              *)
LEMMA StillWatched ==
    ASSUME NEW i, Watched(i),
           Queued(Remove(i)) => Queued(Remove(i))',
           \A l \in Loops : Asleep(l) => Asleep(l)' /\ loops'[l].id = loops[l].id
    PROVE  Watched(i)'
BY DEF Watched

(* The head of the channel is handled; the others stay.                    *)
LEMMA TakenOthersWatched ==
    ASSUME RouterTypeOK, NEW i, Watched(i), rx # <<>>, rx' = Tail(rx),
           Head(rx) # Remove(i),
           \A l \in Loops : Asleep(l) => Asleep(l)' /\ loops'[l].id = loops[l].id
    PROVE  Watched(i)'
<1>1. Queued(Remove(i)) => Queued(Remove(i))'
  <2>1. rx \in Seq(Commands)
    BY DEF RouterTypeOK
  <2> HIDE DEF Remove
  <2> QED
    BY <2>1, TailKeeps DEF Queued
<1> QED
  BY <1>1, StillWatched

LEMMA WatchedKept ==
    ASSUME RouterTypeOK, EveryClientIsWatched, [RouterNext]_vars
    PROVE  EveryClientIsWatched'
<1>1. /\ rx \in Seq(Commands) /\ loops \in [Loops -> Sleeper \union {None}]
      /\ \A i \in clients : Watched(i)
  BY DEF RouterTypeOK, EveryClientIsWatched, Watched, Sleeper
<1> SUFFICES ASSUME NEW i \in clients' PROVE Watched(i)'
  BY DEF EveryClientIsWatched, Watched
<1>2. ASSUME NEW command \in Commands, Submit(command) PROVE Watched(i)'
  <2>1. Queued(Remove(i)) => Queued(Remove(i))'
    BY <1>1, <1>2, AppendKeeps DEF Submit, Queued
  <2> QED
    BY <1>1, <1>2, <2>1, StillWatched DEF Submit, Asleep
<1>3. ASSUME NEW j \in Ids, NEW l \in Loops, RegisterClient(j, l) PROVE Watched(i)'
  <2>1. [id |-> j, slept |-> 0] # None
    BY RouterAssumption
  <2>2. CASE i = j
    BY <1>1, <1>3, <2>1, <2>2 DEF RegisterClient, Watched, Asleep
  <2>3. CASE i # j
    <3>1. Watched(i) /\ Head(rx) # Remove(i)
      BY <1>1, <1>3, <2>3 DEF RegisterClient, Takes, Register, Remove
    <3>2. \A k \in Loops : Asleep(k) => Asleep(k)' /\ loops'[k].id = loops[k].id
      BY <1>1, <1>3 DEF RegisterClient, Asleep, Free
    <3> QED
      BY <1>3, <3>1, <3>2, TakenOthersWatched DEF RegisterClient, Takes
  <2> QED
    BY <2>2, <2>3
<1>4. ASSUME NEW j \in Ids, SendToClient(j) PROVE Watched(i)'
  <2>1. Watched(i) /\ Head(rx) # Remove(i)
    BY <1>1, <1>4 DEF SendToClient, Takes, Send, Remove
  <2>2. \A l \in Loops : Asleep(l) => Asleep(l)' /\ loops'[l].id = loops[l].id
    BY <1>4 DEF SendToClient, Asleep
  <2> QED
    BY <1>4, <2>1, <2>2, TakenOthersWatched DEF SendToClient, Takes
<1>5. ASSUME NEW j \in Ids, RemoveClient(j) PROVE Watched(i)'
  <2>1. i \in clients /\ i # j
    BY <1>5 DEF RemoveClient
  <2>2. Watched(i) /\ Head(rx) # Remove(i)
    BY <1>1, <1>5, <2>1 DEF RemoveClient, Takes, Remove
  <2>3. \A l \in Loops : Asleep(l) => Asleep(l)' /\ loops'[l].id = loops[l].id
    BY <1>5 DEF RemoveClient, Asleep
  <2> QED
    BY <1>5, <2>2, <2>3, TakenOthersWatched DEF RemoveClient, Takes
<1>6. CASE FinishRemove \/ WriteEnds
  BY <1>1, <1>6, StillWatched DEF FinishRemove, WriteEnds, Queued, Asleep
<1>7. ASSUME NEW l \in Loops, LoopEnds(l) PROVE Watched(i)'
  <2>1. Watched(i) /\ loops[l] \in Sleeper
    BY <1>1, <1>7 DEF LoopEnds, Due, Asleep
  <2>2. Remove(loops[l].id) \in Commands
    BY <2>1 DEF Remove, Commands, Sleeper
  <2>3. Queued(Remove(i)) => Queued(Remove(i))'
    BY <1>1, <1>7, <2>2, AppendKeeps DEF LoopEnds, Queued
  <2>4. loops[l].id = i => Queued(Remove(i))'
    BY <1>1, <1>7, <2>2, AppendKeeps DEF LoopEnds, Queued
  <2>5. \A k \in Loops \ {l} : Asleep(k) => Asleep(k)' /\ loops'[k].id = loops[k].id
    BY <1>1, <1>7 DEF LoopEnds, Asleep
  <2> QED
    BY <2>1, <2>3, <2>4, <2>5 DEF Watched
<1>8. CASE TimePasses
  <2>1. ASSUME NEW l \in Loops, Asleep(l)
        PROVE  Asleep(l)' /\ loops'[l].id = loops[l].id
    <3>1. loops[l] \in Sleeper
      BY <1>1, <2>1 DEF Asleep
    <3>2. Sleep(l) \in Sleeper /\ Sleep(l).id = loops[l].id
      <4>1. CASE loops[l].slept < ReadLoopSleep
        <5>1. loops[l].slept + 1 \in 0..ReadLoopSleep
          BY <3>1, <4>1, RouterAssumption DEF Sleeper
        <5> QED
          BY <2>1, <3>1, <4>1, <5>1 DEF Sleep, Sleeper
      <4> QED
        BY <2>1, <3>1, <4>1 DEF Sleep
    <3> QED
      BY <1>8, <2>1, <3>2, RouterAssumption DEF TimePasses, Asleep, Sleeper
  <2> QED
    BY <1>1, <1>8, <2>1, StillWatched DEF TimePasses, Queued
<1>9. CASE UNCHANGED routerVars
  BY <1>1, <1>9, StillWatched DEF routerVars, Queued, Asleep
<1> QED
  BY <1>2, <1>3, <1>4, <1>5, <1>6, <1>7, <1>8, <1>9
  DEF RouterNext, RouterStep, Others, vars

(* Every registered client has a loop or a command that will remove it, for*)
(* any number of ids, loops and commands in the channel (router.rs:195).   *)
THEOREM RouterForgetsNobody == RouterSpec => []EveryClientIsWatched
<1>1. RouterInit => EveryClientIsWatched
  BY DEF RouterInit, EveryClientIsWatched
<1> QED
  BY <1>1, RouterTypeCorrect, WatchedKept, PTL DEF RouterSpec

-----------------------------------------------------------------------------
(* The manager under the router.                                           *)

(* Every step of the router is a call of the manager, its clock, or none:  *)
(* what remove_client does to the table, remove_session may do.            *)
THEOREM RouterRunsManager == RouterSpec => ManagerSpec
<1>1. RouterInit => ManagerInit
  BY DEF RouterInit
<1>2. ASSUME RouterTypeOK, [RouterNext]_vars PROVE [ManagerNext]_managerVars
  <2>1. CASE FinishRemove
    <3>1. removing \in Ids
      BY <1>2, <2>1 DEF RouterTypeOK, FinishRemove
    <3> QED
      BY <2>1, <3>1 DEF FinishRemove, ManagerNext, ManagerCall
  <2>2. CASE \/ WriteEnds
             \/ \E command \in Commands : Submit(command)
             \/ \E l \in Loops : LoopEnds(l)
             \/ \E i \in Ids : \/ SendToClient(i) \/ RemoveClient(i)
                               \/ \E l \in Loops : RegisterClient(i, l)
    BY <2>2 DEF WriteEnds, Submit, LoopEnds, SendToClient, RemoveClient, RegisterClient
  <2>3. CASE TimePasses \/ Others(ManagerCall) \/ Others(CleanupExpired)
    BY <2>3 DEF TimePasses, Others, ManagerNext
  <2>4. CASE UNCHANGED vars
    BY <2>4 DEF vars
  <2> QED
    BY <1>2, <2>1, <2>2, <2>3, <2>4 DEF RouterNext, RouterStep
<1> QED
  BY <1>1, <1>2, RouterTypeCorrect, PTL DEF RouterSpec, ManagerSpec

(* So the clocks keep their order, and nobody leaves the table early, with *)
(* the router among the callers (router.rs:262).                           *)
THEOREM RouterLeaves == RouterSpec => LeavesOnlyWhenDue /\ []ClocksOrdered
BY RouterRunsManager, ManagerLeaves, ManagerClocksOrdered, PTL
===============================================================================

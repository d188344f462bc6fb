---------------------------- MODULE DataPath_proofs ----------------------------
(***************************************************************************)
(* Proofs about DataPath: who stands in the queue of which lock and who    *)
(* holds it follows from the places of the actors in the code; hence       *)
(* nobody waits in a circle, and packets are opened and written in order.  *)
(***************************************************************************)
EXTENDS DataPath, FiniteSetTheorems, TLAPS

Modes == {"read", "write"}
Requests == [who : Actors, mode : Modes]

Members(s) == {s[i] : i \in DOMAIN s}

\* Nobody stands twice in one queue.
OnceEach(s) == \A i, j \in DOMAIN s : s[i].who = s[j].who => i = j

Holds(s, a) ==
    \E i \in DOMAIN s :
        /\ s[i].who = a
        /\ i = 1 \/ \A j \in 1..i : s[j].mode = "read"

WellQueued(q) == q \in [Locks -> Seq(Requests)] /\ \A l \in Locks : OnceEach(q[l])

-----------------------------------------------------------------------------
(* The inductive invariant of the locks.                                   *)

\* The modes in which a task at place pc has asked for lock l.
TaskAsks(pc, l) ==
    CASE l = "client_sessions" -> IF pc = "lookup" THEN {"read"}
                                  ELSE IF pc = "idle" THEN {} ELSE {"write"}
      [] l = "clients"         -> IF pc \in {"echo", "nat", "tun"} THEN {"read"} ELSE {}
      [] l = "nat_gateway"     -> IF pc \in {"nat", "tun"} THEN {"write"} ELSE {}
      [] l = "tun_device"      -> IF pc = "tun" THEN {"write"} ELSE {}

ReaderAsks(pc, l) ==
    IF pc = "tun" /\ l = "tun_device" THEN {"write"}
    ELSE IF pc = "route" /\ l = "clients" THEN {"read"} ELSE {}

HandlerAsks(pc, l) ==
    IF pc \in {"registering", "ending"} /\ l = "clients" THEN {"write"} ELSE {}

Asks(a, l) ==
    IF a \in Tasks THEN TaskAsks(task[a].pc, l)
    ELSE IF a \in Clients THEN HandlerAsks(handler[a], l)
    ELSE ReaderAsks(reader.pc, l)

\* The queues hold what the actors have asked for and not yet dropped.
QueuesMatch ==
    \A l \in Locks : \A r \in Requests :
        r \in Members(queue[l]) <=> r.mode \in Asks(r.who, l)

\* The places of the code at which a task has been granted lock l.
Within(l) ==
    CASE l = "client_sessions" -> {"echo", "nat", "tun"}
      [] l = "clients"         -> {"nat", "tun"}
      [] l = "nat_gateway"     -> {"tun"}
      [] l = "tun_device"      -> {}

GuardsHeld ==
    \A t \in Tasks, l \in Locks : task[t].pc \in Within(l) => Holds(queue[l], t)

\* Beyond the counter check there are only packets that were opened.
OnlyGenuine ==
    \A t \in Tasks : task[t].pc \in Within("client_sessions") =>
                        task[t].datagram.kind = "genuine"

LockInv == TypeOK /\ WellQueued(queue) /\ QueuesMatch /\ GuardsHeld /\ OnlyGenuine

(* The inductive invariant of the order.                                   *)

OpenedBehind ==
    \A c \in Clients : \A i \in DOMAIN opened[c] : opened[c][i] < receive_counter[c]

WrittenBehind ==
    \A c \in Clients : \A i \in DOMAIN written[c] : written[c][i] < receive_counter[c]

\* The one packet between the counter check and the device comes after all
\* that were written.
NextToWrite ==
    \A t \in Tasks : task[t].pc \in Within("client_sessions") =>
        LET d == task[t].datagram
        IN  /\ d.counter < receive_counter[d.client]
            /\ \A i \in DOMAIN written[d.client] : written[d.client][i] < d.counter

OrderInv ==
    LockInv /\ OpenedInOrder /\ WrittenInOrder /\ OpenedBehind /\ WrittenBehind /\ NextToWrite

-----------------------------------------------------------------------------
(* Facts about one queue.                                                  *)

\* A request joins a queue at its end and takes nothing from anybody.
LEMMA AppendJoins ==
    ASSUME NEW R, NEW s \in Seq(R), NEW r \in R, OnceEach(s),
           \A m \in Members(s) : m.who # r.who
    PROVE  /\ Append(s, r) \in Seq(R)
           /\ OnceEach(Append(s, r))
           /\ Members(Append(s, r)) = Members(s) \union {r}
           /\ \A b : Holds(s, b) => Holds(Append(s, r), b)
<1> DEFINE p == Append(s, r)
<1>1. /\ p \in Seq(R) /\ Len(p) = Len(s) + 1 /\ DOMAIN p = 1..(Len(s) + 1)
      /\ DOMAIN s = 1..Len(s) /\ Len(s) \in Nat
      /\ \A i \in 1..Len(s) : p[i] = s[i]
      /\ p[Len(s) + 1] = r
  OBVIOUS
<1> HIDE DEF p
<1>2. \A i \in DOMAIN s : s[i].who # r.who
  BY DEF Members
<1>3. OnceEach(p)
  BY <1>1, <1>2 DEF OnceEach
<1>4. Members(p) = Members(s) \union {r}
  BY <1>1 DEF Members
<1>5. \A b : Holds(s, b) => Holds(p, b)
  BY <1>1 DEF Holds
<1>. QED
  BY <1>1, <1>3, <1>4, <1>5 DEF p

\* Actor a leaves a queue; the others keep their order and what they hold.
LEMMA WithoutLeaves ==
    ASSUME NEW R, NEW s \in Seq(R), NEW a, OnceEach(s)
    PROVE  /\ Without(s, a) \in Seq(R)
           /\ OnceEach(Without(s, a))
           /\ Members(Without(s, a)) = {m \in Members(s) : m.who # a}
           /\ \A b : b # a /\ Holds(s, b) => Holds(Without(s, a), b)
<1>0. /\ DOMAIN s = 1..Len(s) /\ Len(s) \in Nat
      /\ \A i \in DOMAIN s : s[i] \in R
  OBVIOUS
<1>1. CASE ~\E i \in DOMAIN s : s[i].who = a
  <2>1. Without(s, a) = s
    BY <1>1 DEF Without
  <2>2. Members(s) = {m \in Members(s) : m.who # a}
    BY <1>1 DEF Members
  <2>. QED
    BY <2>1, <2>2
<1>2. CASE \E i \in DOMAIN s : s[i].who = a
  <2> DEFINE k == CHOOSE i \in DOMAIN s : s[i].who = a
             from(j) == IF j < k THEN j ELSE j + 1
             w == [j \in 1..(Len(s) - 1) |-> s[from(j)]]
  <2>1. k \in 1..Len(s) /\ s[k].who = a
    BY <1>0, <1>2
  <2>2. Without(s, a) = w
    BY <1>2 DEF Without
  <2> HIDE DEF k
  <2>3. Len(s) - 1 \in Nat
    BY <1>0, <2>1
  <2>4. \A j \in 1..(Len(s) - 1) : from(j) \in 1..Len(s) /\ from(j) # k
    BY <1>0, <2>1
  <2>5. \A i, j \in 1..(Len(s) - 1) : from(i) = from(j) => i = j
    BY <1>0, <2>1
  <2>6. \A i \in 1..Len(s) : i # k => \E j \in 1..(Len(s) - 1) : from(j) = i /\ j <= i
    <3> SUFFICES ASSUME NEW i \in 1..Len(s), i # k
                 PROVE  \E j \in 1..(Len(s) - 1) : from(j) = i /\ j <= i
      OBVIOUS
    <3>1. CASE i < k
      BY <1>0, <2>1, <3>1
    <3>2. CASE i > k
      <4>1. i - 1 \in 1..(Len(s) - 1) /\ from(i - 1) = i /\ i - 1 <= i
        BY <1>0, <2>1, <3>2
      <4>. QED
        BY <4>1
    <3>. QED
      BY <1>0, <2>1, <3>1, <3>2
  <2>7. w \in Seq(R) /\ DOMAIN w = 1..(Len(s) - 1)
    <3>1. w \in [1..(Len(s) - 1) -> R]
      BY <1>0, <2>4
    <3>. QED
      BY <2>3, <3>1
  <2>8. \A j \in 1..(Len(s) - 1) : w[j] = s[from(j)]
    OBVIOUS
  <2>9. \A i, j \in 1..(Len(s) - 1) : j <= i => from(j) <= from(i)
    BY <1>0, <2>1
  <2> HIDE DEF from, w
  <2>10. OnceEach(w)
    BY <1>0, <2>4, <2>5, <2>7, <2>8 DEF OnceEach
  <2>11. Members(w) = {m \in Members(s) : m.who # a}
    <3>1. ASSUME NEW m \in Members(w)  PROVE m \in Members(s) /\ m.who # a
      <4>1. PICK j \in 1..(Len(s) - 1) : m = s[from(j)]
        BY <2>7, <2>8 DEF Members
      <4>. QED
        BY <1>0, <2>1, <2>4, <4>1 DEF Members, OnceEach
    <3>2. ASSUME NEW m \in Members(s), m.who # a  PROVE m \in Members(w)
      <4>1. PICK i \in 1..Len(s) : m = s[i]
        BY <1>0 DEF Members
      <4>2. PICK j \in 1..(Len(s) - 1) : from(j) = i
        BY <2>1, <2>6, <3>2, <4>1
      <4>. QED
        BY <2>7, <2>8, <4>1, <4>2 DEF Members
    <3>. QED
      BY <3>1, <3>2
  <2>12. ASSUME NEW b, b # a, Holds(s, b)  PROVE Holds(w, b)
    <3>1. PICK i \in 1..Len(s) : /\ s[i].who = b
                                 /\ i = 1 \/ \A j \in 1..i : s[j].mode = "read"
      BY <1>0, <2>12 DEF Holds
    <3>2. PICK j \in 1..(Len(s) - 1) : from(j) = i /\ j <= i
      BY <2>1, <2>6, <2>12, <3>1
    <3>3. CASE i = 1
      BY <2>7, <2>8, <3>1, <3>2, <3>3 DEF Holds
    <3>4. CASE \A n \in 1..i : s[n].mode = "read"
      <4>1. \A n \in 1..j : n \in 1..(Len(s) - 1) /\ from(n) \in 1..i
        BY <1>0, <2>4, <2>9, <3>2
      <4>2. \A n \in 1..j : w[n].mode = "read"
        BY <2>8, <3>4, <4>1
      <4>. QED
        BY <2>7, <2>8, <3>1, <3>2, <4>2 DEF Holds
    <3>. QED
      BY <3>1, <3>3, <3>4
  <2>. QED
    BY <2>2, <2>7, <2>10, <2>11, <2>12
<1>. QED
  BY <1>1, <1>2

\* A writer holds a lock alone.
LEMMA WriterAlone ==
    ASSUME NEW R, NEW s \in Seq(R), OnceEach(s), NEW a, NEW b, Holds(s, a), Holds(s, b),
           \A m \in Members(s) : m.who = a => m.mode # "read"
    PROVE  a = b
<1>1. PICK i \in DOMAIN s : /\ s[i].who = a
                            /\ i = 1 \/ \A j \in 1..i : s[j].mode = "read"
  BY DEF Holds
<1>2. PICK k \in DOMAIN s : /\ s[k].who = b
                            /\ k = 1 \/ \A j \in 1..k : s[j].mode = "read"
  BY DEF Holds
<1>3. s[i].mode # "read" /\ DOMAIN s = 1..Len(s) /\ Len(s) \in Nat
  BY <1>1 DEF Members
<1>4. i = 1
  BY <1>1, <1>3
<1>. QED
  BY <1>1, <1>2, <1>3, <1>4

\* A queue in which some of S stand has a first one of them.
LEMMA FirstOfThem ==
    ASSUME NEW R, NEW s \in Seq(R), NEW S, \E i \in DOMAIN s : s[i].who \in S
    PROVE  \E i \in DOMAIN s : s[i].who \in S /\ \A j \in DOMAIN s : j < i => s[j].who \notin S
<1>1. DOMAIN s = 1..Len(s) /\ Len(s) \in Nat
  OBVIOUS
<1> DEFINE D == 1..Len(s)
           T == {X \in SUBSET D : \E i \in D : X = 1..i /\ s[i].who \in S}
<1>2. IsFiniteSet(D)
  BY <1>1, FS_Interval
<1>3. IsWellFoundedOn(StrictSubsetOrdering(D), SUBSET D)
  BY <1>2, FS_StrictSubsetOrderingWellFounded, FS_FiniteSubsetsOfFinite
<1>4. T # {}
  <2>1. PICK i \in D : s[i].who \in S
    BY <1>1
  <2>2. 1..i \in SUBSET D
    BY <1>1
  <2>3. 1..i \in T
    BY <2>1, <2>2
  <2>. QED
    BY <2>3
<1>5. PICK X \in T : \A Y \in T : <<Y, X>> \notin StrictSubsetOrdering(D)
  <2> HIDE DEF T
  <2>1. T \subseteq SUBSET D
    BY DEF T
  <2>. QED
    BY <1>3, <1>4, <2>1, WFMin
<1>6. PICK i \in D : X = 1..i /\ s[i].who \in S
  OBVIOUS
<1>7. ASSUME NEW j \in D, j < i, s[j].who \in S  PROVE FALSE
  <2>1. 1..j \in SUBSET D /\ 1..j \subseteq 1..i /\ i \in 1..i /\ i \notin 1..j
    BY <1>1, <1>7
  <2>2. 1..j \in T
    BY <1>7, <2>1
  <2>3. <<1..j, X>> \in StrictSubsetOrdering(D)
    BY <1>6, <2>1 DEF StrictSubsetOrdering
  <2>. QED
    BY <1>5, <2>2, <2>3
<1>. QED
  BY <1>1, <1>6, <1>7

-----------------------------------------------------------------------------
(* Facts about the four queues.                                            *)

\* Asking for a lock adds one request and takes no lock from anybody.
LEMMA Asking ==
    ASSUME NEW q, WellQueued(q), NEW l \in Locks, NEW a \in Actors, NEW mode \in Modes,
           \A m \in Members(q[l]) : m.who # a
    PROVE  /\ WellQueued(Ask(q, l, a, mode))
           /\ Members(Ask(q, l, a, mode)[l]) = Members(q[l]) \union {[who |-> a, mode |-> mode]}
           /\ \A k \in Locks \ {l} : Ask(q, l, a, mode)[k] = q[k]
           /\ \A k \in Locks, b \in Actors : Holds(q[k], b) => Holds(Ask(q, l, a, mode)[k], b)
<1> DEFINE r == [who |-> a, mode |-> mode]
           p == Ask(q, l, a, mode)
<1>1. r \in Requests /\ r.who = a
  BY DEF Requests
<1>2. q[l] \in Seq(Requests) /\ OnceEach(q[l])
  BY DEF WellQueued
<1>3. p = [q EXCEPT ![l] = Append(q[l], r)]
  BY DEF Ask
<1>4. p[l] = Append(q[l], r) /\ \A k \in Locks \ {l} : p[k] = q[k]
  BY <1>3 DEF WellQueued
<1> HIDE DEF r
<1>5. /\ Append(q[l], r) \in Seq(Requests) /\ OnceEach(Append(q[l], r))
      /\ Members(Append(q[l], r)) = Members(q[l]) \union {r}
      /\ \A b : Holds(q[l], b) => Holds(Append(q[l], r), b)
  BY <1>1, <1>2, AppendJoins
<1>6. p \in [Locks -> Seq(Requests)]
  BY <1>3, <1>5 DEF WellQueued
<1> HIDE DEF p
<1>7. WellQueued(p)
  BY <1>4, <1>5, <1>6 DEF WellQueued
<1>8. \A k \in Locks, b \in Actors : Holds(q[k], b) => Holds(p[k], b)
  BY <1>4, <1>5
<1>. QED
  BY <1>4, <1>5, <1>7, <1>8 DEF p, r

\* Dropping an actor's guards removes its requests and nobody else's.
LEMMA Dropping ==
    ASSUME NEW q, WellQueued(q), NEW a \in Actors
    PROVE  /\ WellQueued(Drop(q, a))
           /\ \A k \in Locks : Members(Drop(q, a)[k]) = {m \in Members(q[k]) : m.who # a}
           /\ \A k \in Locks, b \in Actors :
                 b # a /\ Holds(q[k], b) => Holds(Drop(q, a)[k], b)
<1> DEFINE p == Drop(q, a)
<1>1. \A k \in Locks : q[k] \in Seq(Requests) /\ OnceEach(q[k])
  BY DEF WellQueued
<1>2. p = [k \in Locks |-> Without(q[k], a)]
  BY DEF Drop
<1>3. \A k \in Locks : /\ p[k] \in Seq(Requests) /\ OnceEach(p[k])
                       /\ Members(p[k]) = {m \in Members(q[k]) : m.who # a}
                       /\ \A b : b # a /\ Holds(q[k], b) => Holds(p[k], b)
  BY <1>1, <1>2, WithoutLeaves
<1>4. p \in [Locks -> Seq(Requests)]
  BY <1>2, <1>3
<1> HIDE DEF p
<1>5. WellQueued(p)
  BY <1>3, <1>4 DEF WellQueued
<1>. QED
  BY <1>3, <1>5 DEF p

\* What a step of actor a leaves in the queues: the others' requests and
\* guards stay, and a stands there with what it asks for now.
StepOf(a) ==
    /\ WellQueued(queue')
    /\ \A l \in Locks, r \in Requests :
          r.who # a => (r \in Members(queue'[l]) <=> r \in Members(queue[l]))
    /\ \A l \in Locks, mode \in Modes :
          [who |-> a, mode |-> mode] \in Members(queue'[l]) <=> mode \in Asks(a, l)'
    /\ \A l \in Locks, b \in Actors : b # a /\ Holds(queue[l], b) => Holds(queue'[l], b)

\* In the queue of lock l actor a stands exactly with the modes it asks for.
LEMMA Standing ==
    ASSUME LockInv, NEW l \in Locks, NEW a \in Actors
    PROVE  /\ \A mode \in Modes :
                 [who |-> a, mode |-> mode] \in Members(queue[l]) <=> mode \in Asks(a, l)
           /\ \A m \in Members(queue[l]) :
                 m \in Requests /\ m.mode \in Asks(m.who, l)
<1>1. \A mode \in Modes : [who |-> a, mode |-> mode] \in Requests
  BY DEF Requests
<1>2. queue[l] \in Seq(Requests)
  BY DEF LockInv, WellQueued
<1>3. Members(queue[l]) \subseteq Requests
  BY <1>2 DEF Members
<1>. QED
  BY <1>1, <1>3 DEF LockInv, QueuesMatch

\* Actor a goes on: it asks for lock l and keeps its guards.
LEMMA GoingOn ==
    ASSUME LockInv, NEW a \in Actors, NEW l \in Locks, NEW mode \in Modes,
           Asks(a, l) = {}, Asks(a, l)' = {mode},
           \A k \in Locks \ {l} : Asks(a, k)' = Asks(a, k),
           queue' = Ask(queue, l, a, mode)
    PROVE  /\ StepOf(a)
           /\ \A k \in Locks, b \in Actors : Holds(queue[k], b) => Holds(queue'[k], b)
<1>1. WellQueued(queue)
  BY DEF LockInv
<1>2. \A m \in Members(queue[l]) : m.who # a
  BY Standing
<1>3. /\ WellQueued(queue')
      /\ Members(queue'[l]) = Members(queue[l]) \union {[who |-> a, mode |-> mode]}
      /\ \A k \in Locks \ {l} : queue'[k] = queue[k]
      /\ \A k \in Locks, b \in Actors : Holds(queue[k], b) => Holds(queue'[k], b)
  BY <1>1, <1>2, Asking
<1>4. \A k \in Locks, r \in Requests :
          r.who # a => (r \in Members(queue'[k]) <=> r \in Members(queue[k]))
  BY <1>3
<1>5. \A k \in Locks, m \in Modes :
          [who |-> a, mode |-> m] \in Members(queue'[k]) <=> m \in Asks(a, k)'
  <2> SUFFICES ASSUME NEW k \in Locks, NEW m \in Modes
               PROVE  [who |-> a, mode |-> m] \in Members(queue'[k]) <=> m \in Asks(a, k)'
    OBVIOUS
  <2>1. [who |-> a, mode |-> m] \in Members(queue[k]) <=> m \in Asks(a, k)
    BY Standing
  <2>2. CASE k = l
    BY <1>3, <2>1, <2>2
  <2>3. CASE k # l
    BY <1>3, <2>1, <2>3
  <2>. QED
    BY <2>2, <2>3
<1>. QED
  BY <1>3, <1>4, <1>5 DEF StepOf

\* Actor a drops all it had and asks for nothing.
LEMMA Leaving ==
    ASSUME LockInv, NEW a \in Actors, \A l \in Locks : Asks(a, l)' = {},
           queue' = Drop(queue, a)
    PROVE  StepOf(a)
<1>1. WellQueued(queue)
  BY DEF LockInv
<1>2. /\ WellQueued(queue')
      /\ \A k \in Locks : Members(queue'[k]) = {m \in Members(queue[k]) : m.who # a}
      /\ \A k \in Locks, b \in Actors : b # a /\ Holds(queue[k], b) => Holds(queue'[k], b)
  BY <1>1, Dropping
<1>. QED
  BY <1>2 DEF StepOf

\* Actor a drops all it had and asks for lock l.
LEMMA Changing ==
    ASSUME LockInv, NEW a \in Actors, NEW l \in Locks, NEW mode \in Modes,
           Asks(a, l)' = {mode}, \A k \in Locks \ {l} : Asks(a, k)' = {},
           queue' = Ask(Drop(queue, a), l, a, mode)
    PROVE  StepOf(a)
<1> DEFINE q == Drop(queue, a)
<1>1. WellQueued(queue)
  BY DEF LockInv
<1>2. /\ WellQueued(q)
      /\ \A k \in Locks : Members(q[k]) = {m \in Members(queue[k]) : m.who # a}
      /\ \A k \in Locks, b \in Actors : b # a /\ Holds(queue[k], b) => Holds(q[k], b)
  BY <1>1, Dropping
<1> HIDE DEF q
<1>3. /\ WellQueued(queue')
      /\ Members(queue'[l]) = Members(q[l]) \union {[who |-> a, mode |-> mode]}
      /\ \A k \in Locks \ {l} : queue'[k] = q[k]
      /\ \A k \in Locks, b \in Actors : Holds(q[k], b) => Holds(queue'[k], b)
  BY <1>2, Asking DEF q
<1>4. \A k \in Locks, r \in Requests :
          r.who # a => (r \in Members(queue'[k]) <=> r \in Members(queue[k]))
  BY <1>2, <1>3
<1>5. \A k \in Locks, m \in Modes :
          [who |-> a, mode |-> m] \in Members(queue'[k]) <=> m \in Asks(a, k)'
  <2> SUFFICES ASSUME NEW k \in Locks, NEW m \in Modes
               PROVE  [who |-> a, mode |-> m] \in Members(queue'[k]) <=> m \in Asks(a, k)'
    OBVIOUS
  <2>1. [who |-> a, mode |-> m] \notin Members(q[k])
    BY <1>2
  <2>2. CASE k = l
    BY <1>3, <2>1, <2>2
  <2>3. CASE k # l
    BY <1>3, <2>1, <2>3
  <2>. QED
    BY <2>2, <2>3
<1>. QED
  BY <1>2, <1>3, <1>4, <1>5 DEF StepOf

-----------------------------------------------------------------------------
(* Every step keeps the invariant of the locks.                            *)

\* Everything that TypeOK says besides the queues.
PlacesOK ==
    /\ tun_present \in BOOLEAN
    /\ task \in [Tasks -> {[pc |-> "idle"]} \union [pc : InTask, datagram : Datagrams]]
    /\ reader \in [pc : {"absent", "tun"}] \union
                  [pc : {"route"}, dst : Clients \union {None}]
    /\ reader.pc = "absent" <=> ~tun_present
    /\ handler \in [Clients -> {"spawned", "registering", "running", "ending", "ended"}]
    /\ receive_counter \in [Clients -> 0..MaxCounter]
    /\ channel \in [Clients -> Nat]
    /\ opened \in [Clients -> Seq(Sent)] /\ written \in [Clients -> Seq(Sent)]

LEMMA QueueTypes ==
    ASSUME PlacesOK, WellQueued(queue)
    PROVE  TypeOK
<1>1. \A l \in Locks : \A i \in DOMAIN queue[l] : queue[l][i] \in Requests
  BY DEF WellQueued
<1>. QED
  BY <1>1 DEF TypeOK, PlacesOK, Requests, Modes

\* A step of one actor keeps LockInv when it leaves in the queues what the
\* actor asks for, and the places of the others alone.
LEMMA StepKeepsLocks ==
    ASSUME LockInv, PlacesOK', NEW a \in Actors, StepOf(a),
           \A b \in Actors \ {a}, l \in Locks : Asks(b, l)' = Asks(b, l),
           \A t \in Tasks \ {a} : task'[t] = task[t],
           a \in Tasks => \A l \in Locks : task'[a].pc \in Within(l) => Holds(queue'[l], a),
           a \in Tasks => \/ task'[a].pc \notin Within("client_sessions")
                          \/ task'[a].datagram.kind = "genuine"
    PROVE  LockInv'
<1>1. WellQueued(queue')
  BY DEF StepOf
<1>2. TypeOK'
  <2>1. WellQueued(queue)'
    BY <1>1 DEF WellQueued, OnceEach, Requests
  <2>. QED
    BY <2>1, QueueTypes, PTL
<1>3. QueuesMatch'
  <2> SUFFICES ASSUME NEW l \in Locks, NEW r \in Requests
               PROVE  r \in Members(queue'[l]) <=> r.mode \in Asks(r.who, l)'
    BY DEF QueuesMatch, Members, Requests
  <2>1. r.who \in Actors /\ r.mode \in Modes /\ r = [who |-> r.who, mode |-> r.mode]
    BY DEF Requests
  <2>2. CASE r.who = a
    <3>1. [who |-> a, mode |-> r.mode] \in Members(queue'[l]) <=> r.mode \in Asks(a, l)'
      BY <2>1 DEF StepOf
    <3>. QED
      BY <2>1, <2>2, <3>1
  <2>3. CASE r.who # a
    <3>1. r \in Members(queue'[l]) <=> r \in Members(queue[l])
      BY <2>3 DEF StepOf
    <3>2. Asks(r.who, l)' = Asks(r.who, l)
      BY <2>1, <2>3
    <3>. QED
      BY <3>1, <3>2 DEF LockInv, QueuesMatch
  <2>. QED
    BY <2>2, <2>3
<1>4. GuardsHeld'
  <2> SUFFICES ASSUME NEW t \in Tasks, NEW l \in Locks, task'[t].pc \in Within(l)
               PROVE  Holds(queue'[l], t)
    BY DEF GuardsHeld, Holds, Within
  <2>1. CASE t = a
    BY <2>1
  <2>2. CASE t # a
    BY <2>2 DEF LockInv, GuardsHeld, StepOf, Actors
  <2>. QED
    BY <2>1, <2>2
<1>5. WellQueued(queue)'
  BY <1>1 DEF WellQueued, OnceEach, Requests
<1>6. OnlyGenuine'
  <2> SUFFICES ASSUME NEW t \in Tasks, task'[t].pc \in Within("client_sessions")
               PROVE  task'[t].datagram.kind = "genuine"
    BY DEF OnlyGenuine, Within
  <2>. QED
    BY DEF LockInv, OnlyGenuine
<1>. QED
  BY <1>2, <1>3, <1>4, <1>5, <1>6 DEF LockInv

LEMMA InvPlaces ==
    ASSUME LockInv
    PROVE  PlacesOK
BY DEF LockInv, TypeOK, PlacesOK

\* What the three kinds of actors ask for.
LEMMA Kinds ==
    /\ \A t \in Tasks, l \in Locks :
          /\ t \in Actors
          /\ Asks(t, l) = TaskAsks(task[t].pc, l) /\ Asks(t, l)' = TaskAsks(task'[t].pc, l)
    /\ \A c \in Clients, l \in Locks :
          /\ c \in Actors
          /\ Asks(c, l) = HandlerAsks(handler[c], l) /\ Asks(c, l)' = HandlerAsks(handler'[c], l)
    /\ \A l \in Locks :
          /\ TunReader \in Actors
          /\ Asks(TunReader, l) = ReaderAsks(reader.pc, l)
          /\ Asks(TunReader, l)' = ReaderAsks(reader'.pc, l)
BY DataPathAssumption DEF Actors, Asks

\* A step of a task leaves the places of all others alone.
LEMMA OthersOfTask ==
    ASSUME NEW t \in Tasks, \A b \in Tasks \ {t} : task'[b] = task[b],
           UNCHANGED <<reader, handler>>
    PROVE  \A b \in Actors \ {t}, l \in Locks : Asks(b, l)' = Asks(b, l)
BY DEF Asks

LEMMA ReceiveKeepsLocks ==
    ASSUME LockInv, NEW t \in Tasks, NEW d \in Datagrams, Receive(t, d)
    PROVE  LockInv'
<1>1. PlacesOK
  BY InvPlaces
<1>2. task' = [task EXCEPT ![t] = [pc |-> "lookup", datagram |-> d]] /\ task[t].pc = "idle"
  BY DEF Receive
<1>3. task'[t].pc = "lookup" /\ \A b \in Tasks \ {t} : task'[b] = task[b]
  BY <1>1, <1>2 DEF PlacesOK
<1>4. PlacesOK'
  BY <1>1, <1>2 DEF PlacesOK, Receive, InTask
<1>5. /\ Asks(t, "client_sessions") = {} /\ Asks(t, "client_sessions")' = {"read"}
      /\ \A k \in Locks \ {"client_sessions"} : Asks(t, k)' = Asks(t, k)
  <2>1. /\ TaskAsks("idle", "client_sessions") = {}
        /\ TaskAsks("lookup", "client_sessions") = {"read"}
        /\ \A k \in Locks \ {"client_sessions"} : TaskAsks("idle", k) = TaskAsks("lookup", k)
    BY DEF TaskAsks, Locks
  <2>2. \A k \in Locks : /\ Asks(t, k) = TaskAsks("idle", k)
                         /\ Asks(t, k)' = TaskAsks("lookup", k)
    BY <1>2, <1>3, Kinds
  <2>. QED
    BY <2>1, <2>2 DEF Locks
<1>6. StepOf(t)
  BY <1>5, GoingOn, Kinds DEF Receive, Locks, Modes
<1>7. \A b \in Actors \ {t}, l \in Locks : Asks(b, l)' = Asks(b, l)
  BY <1>3, OthersOfTask DEF Receive
<1>8. \A l \in Locks : task'[t].pc \notin Within(l)
  BY <1>3 DEF Within, Locks
<1>. QED
  BY <1>3, <1>4, <1>6, <1>7, <1>8, StepKeepsLocks, Kinds DEF Locks

TaskStates == {[pc |-> "idle"]} \union [pc : InTask, datagram : Datagrams]

\* A task that moves to place pc keeps its datagram.
LEMMA Advance ==
    ASSUME PlacesOK, NEW t \in Tasks, task[t].pc \in InTask, NEW pc \in InTask,
           task' = [task EXCEPT ![t].pc = pc]
    PROVE  /\ task' \in [Tasks -> TaskStates]
           /\ task'[t].pc = pc /\ task'[t].datagram = task[t].datagram
           /\ task[t].datagram \in Datagrams
           /\ \A b \in Tasks \ {t} : task'[b] = task[b]
<1>1. task \in [Tasks -> TaskStates]
  BY DEF PlacesOK, TaskStates
<1>2. task[t] \in [pc : InTask, datagram : Datagrams]
  BY <1>1 DEF TaskStates, InTask
<1>3. [task[t] EXCEPT !.pc = pc] \in [pc : InTask, datagram : Datagrams]
  BY <1>2
<1>. QED
  BY <1>1, <1>2, <1>3 DEF TaskStates

LEMMA GoBack ==
    ASSUME PlacesOK, NEW t \in Tasks, task' = [task EXCEPT ![t] = [pc |-> "idle"]]
    PROVE  /\ task' \in [Tasks -> TaskStates]
           /\ task'[t].pc = "idle"
           /\ \A b \in Tasks \ {t} : task'[b] = task[b]
BY DEF PlacesOK, TaskStates

\* A task asks for its next lock with all its guards in hand.
LEMMA TaskGoesOn ==
    ASSUME LockInv, PlacesOK', NEW t \in Tasks, NEW l \in Locks, NEW mode \in Modes,
           \A b \in Tasks \ {t} : task'[b] = task[b],
           UNCHANGED <<reader, handler>>,
           queue' = Ask(queue, l, t, mode),
           TaskAsks(task[t].pc, l) = {}, TaskAsks(task'[t].pc, l) = {mode},
           \A k \in Locks \ {l} : TaskAsks(task'[t].pc, k) = TaskAsks(task[t].pc, k),
           \A k \in Locks : task'[t].pc \in Within(k) => Holds(queue[k], t),
           \/ task'[t].pc \notin Within("client_sessions")
           \/ task'[t].datagram.kind = "genuine"
    PROVE  LockInv'
<1>1. /\ Asks(t, l) = {} /\ Asks(t, l)' = {mode}
      /\ \A k \in Locks \ {l} : Asks(t, k)' = Asks(t, k)
  BY Kinds
<1>2. /\ StepOf(t)
      /\ \A k \in Locks, b \in Actors : Holds(queue[k], b) => Holds(queue'[k], b)
  BY <1>1, GoingOn, Kinds
<1>3. \A k \in Locks : task'[t].pc \in Within(k) => Holds(queue'[k], t)
  BY <1>2, Kinds
<1>4. \A b \in Actors \ {t}, k \in Locks : Asks(b, k)' = Asks(b, k)
  BY OthersOfTask
<1>5. t \in Actors
  BY DEF Actors
<1>. QED
  BY <1>2, <1>3, <1>4, <1>5, StepKeepsLocks

\* A task returns.
LEMMA TaskReturns ==
    ASSUME LockInv, PlacesOK', NEW t \in Tasks, Return(t), UNCHANGED <<reader, handler>>
    PROVE  LockInv'
<1>1. task'[t].pc = "idle" /\ \A b \in Tasks \ {t} : task'[b] = task[b]
  BY InvPlaces, GoBack DEF Return
<1>2. t \in Actors /\ \A l \in Locks : Asks(t, l)' = {}
  BY <1>1, Kinds DEF TaskAsks, Locks
<1>0. queue' = Drop(queue, t)
  BY DEF Return
<1>3. StepOf(t)
  BY <1>0, <1>2, Leaving
<1>5. \A b \in Actors \ {t}, l \in Locks : Asks(b, l)' = Asks(b, l)
  BY <1>1, OthersOfTask
<1>4. \A l \in Locks : task'[t].pc \notin Within(l)
  BY <1>1 DEF Within, Locks
<1>. QED
  BY <1>1, <1>2, <1>3, <1>4, <1>5, StepKeepsLocks DEF Locks

LEMMA GrantedHolds ==
    \A l, a : Granted(l, a) <=> Holds(queue[l], a)
BY DEF Granted, Holds

LEMMA AfterCounter ==
    ASSUME NEW n \in 0..MaxCounter
    PROVE  After(n) \in 0..MaxCounter /\ (n # MaxCounter => After(n) = n + 1)
BY DataPathAssumption DEF After

LEMMA DatagramFields ==
    ASSUME NEW d \in Datagrams
    PROVE  /\ d.client \in Clients /\ d.counter \in 0..MaxCounter
           /\ d.kind = "genuine" => d.counter \in Sent
           /\ d.kind = "damaged" => d.counter \in DamagedReads
<1>1. CASE d \in [client : Clients, kind : {"genuine"}, counter : Sent]
  BY <1>1, DataPathAssumption
<1>2. CASE d \in [client : Clients, kind : {"damaged"}, counter : DamagedReads]
  BY <1>2, DataPathAssumption
<1>3. CASE d \in [client : Clients, kind : {"short"}, counter : {0}]
  BY <1>3, DataPathAssumption
<1>. QED
  BY <1>1, <1>2, <1>3 DEF Datagrams

\* A task passes from place from to place to, granted lock held, and asks for
\* lock l.
LEMMA TaskPasses ==
    ASSUME LockInv, NEW t \in Tasks, NEW from \in InTask, NEW to \in InTask,
           NEW held \in Locks, NEW l \in Locks, NEW mode \in Modes,
           At(t, from, held), Await(t, to, queue, l, mode),
           UNCHANGED <<tun_present, reader, handler>>,
           receive_counter' \in [Clients -> 0..MaxCounter],
           channel' \in [Clients -> Nat],
           opened' \in [Clients -> Seq(Sent)], written' \in [Clients -> Seq(Sent)],
           TaskAsks(from, l) = {}, TaskAsks(to, l) = {mode},
           \A k \in Locks \ {l} : TaskAsks(to, k) = TaskAsks(from, k),
           \A k \in Locks : to \in Within(k) => k = held \/ from \in Within(k),
           Packet(t).kind = "genuine"
    PROVE  LockInv'
<1>1. PlacesOK
  BY InvPlaces
<1>2. task[t].pc = from /\ Holds(queue[held], t)
  BY GrantedHolds DEF At
<1>3. /\ task' \in [Tasks -> TaskStates]
      /\ task'[t].pc = to /\ task'[t].datagram.kind = "genuine"
      /\ \A b \in Tasks \ {t} : task'[b] = task[b]
  BY <1>1, <1>2, Advance DEF Await, Packet
<1>4. PlacesOK'
  BY <1>1, <1>3 DEF PlacesOK, TaskStates
<1>5. \A k \in Locks : to \in Within(k) => Holds(queue[k], t)
  BY <1>2 DEF LockInv, GuardsHeld
<1>. QED
  BY <1>2, <1>3, <1>4, <1>5, TaskGoesOn DEF Await

\* A task returns; what it leaves of the rest is of the right types.
LEMMA TaskEnds ==
    ASSUME LockInv, NEW t \in Tasks, Return(t),
           UNCHANGED <<tun_present, reader, handler, channel>>,
           receive_counter' \in [Clients -> 0..MaxCounter],
           opened' \in [Clients -> Seq(Sent)], written' \in [Clients -> Seq(Sent)]
    PROVE  LockInv'
<1>1. PlacesOK
  BY InvPlaces
<1>2. task' \in [Tasks -> TaskStates]
  BY <1>1, GoBack DEF Return
<1>3. PlacesOK'
  BY <1>1, <1>2 DEF PlacesOK, TaskStates
<1>. QED
  BY <1>3, TaskReturns

LEMMA TaskKeepsLocks ==
    ASSUME LockInv, NEW t \in Tasks, TaskStep(t)
    PROVE  LockInv'
<1>1. /\ PlacesOK
      /\ receive_counter \in [Clients -> 0..MaxCounter] /\ channel \in [Clients -> Nat]
      /\ opened \in [Clients -> Seq(Sent)] /\ written \in [Clients -> Seq(Sent)]
  BY InvPlaces DEF PlacesOK
<1>2. ASSUME task[t].pc \in InTask
      PROVE  /\ Packet(t) \in Datagrams /\ Packet(t).client \in Clients
             /\ Packet(t).counter \in 0..MaxCounter
             /\ Packet(t).kind = "genuine" => Packet(t).counter \in Sent
             /\ After(Packet(t).counter) \in 0..MaxCounter
  <2>1. task[t] \in [pc : InTask, datagram : Datagrams]
    BY <1>1, <1>2 DEF PlacesOK, InTask
  <2>. QED
    BY <2>1, DatagramFields, AfterCounter DEF Packet
<1>3. ASSUME LookUp(t)  PROVE LockInv'
  <2>1. task[t].pc = "lookup" /\ task' = [task EXCEPT ![t].pc = "vpn"]
        /\ queue' = Ask(Drop(queue, t), "client_sessions", t, "write")
    BY <1>3 DEF LookUp, At, Await
  <2>2. /\ task' \in [Tasks -> TaskStates] /\ task'[t].pc = "vpn"
        /\ \A b \in Tasks \ {t} : task'[b] = task[b]
    BY <1>1, <2>1, Advance DEF InTask
  <2>3. PlacesOK'
    BY <1>1, <1>3, <2>2 DEF PlacesOK, LookUp, TaskStates
  <2>4. /\ Asks(t, "client_sessions")' = {"write"}
        /\ \A k \in Locks \ {"client_sessions"} : Asks(t, k)' = {}
    BY <2>2, Kinds DEF TaskAsks, Locks
  <2>5. StepOf(t)
    BY <2>1, <2>4, Changing, Kinds DEF Locks, Modes
  <2>6. \A l \in Locks : task'[t].pc \notin Within(l)
    BY <2>2 DEF Within, Locks
  <2>7. \A b \in Actors \ {t}, l \in Locks : Asks(b, l)' = Asks(b, l)
    BY <1>3, <2>2, OthersOfTask DEF LookUp
  <2>. QED
    BY <2>2, <2>3, <2>5, <2>6, <2>7, StepKeepsLocks, Kinds DEF Locks
<1>4. ASSUME Refuse(t)  PROVE LockInv'
  BY <1>1, <1>4, TaskEnds DEF Refuse
<1>5. ASSUME Undecipherable(t)  PROVE LockInv'
  <2>1. receive_counter' \in [Clients -> 0..MaxCounter]
    BY <1>1, <1>2, <1>5 DEF Undecipherable, At, InTask
  <2>. QED
    BY <1>1, <1>5, <2>1, TaskEnds DEF Undecipherable
<1>6. ASSUME Open(t)  PROVE LockInv'
  <2>1. /\ task[t].pc \in InTask /\ Packet(t).kind = "genuine"
        /\ receive_counter' =
              [receive_counter EXCEPT ![Packet(t).client] = After(Packet(t).counter)]
        /\ opened' = [opened EXCEPT ![Packet(t).client] = Append(@, Packet(t).counter)]
        /\ UNCHANGED <<tun_present, reader, handler, channel, written>>
        /\ At(t, "vpn", "client_sessions")
        /\ Await(t, "echo", queue, "clients", "read")
    BY <1>6 DEF Open, At, InTask
  <2>2. receive_counter' \in [Clients -> 0..MaxCounter]
    BY <1>1, <1>2, <2>1
  <2>3. opened' \in [Clients -> Seq(Sent)]
    <3>1. Append(opened[Packet(t).client], Packet(t).counter) \in Seq(Sent)
      BY <1>1, <1>2, <2>1
    <3>. QED
      BY <1>1, <1>2, <2>1, <3>1
  <2>4. /\ TaskAsks("vpn", "clients") = {} /\ TaskAsks("echo", "clients") = {"read"}
        /\ \A k \in Locks \ {"clients"} : TaskAsks("echo", k) = TaskAsks("vpn", k)
        /\ \A k \in Locks : "echo" \in Within(k) => k = "client_sessions"
    BY DEF TaskAsks, Locks, Within
  <2>. QED
    BY <1>1, <2>1, <2>2, <2>3, <2>4, TaskPasses DEF InTask, Locks, Modes
<1>7. ASSUME Echo(t)  PROVE LockInv'
  <2>1. channel' \in [Clients -> Nat]
    <3>1. \/ channel' = channel
          \/ channel' = [channel EXCEPT ![Packet(t).client] = @ + 1]
      BY <1>7 DEF Echo
    <3>2. Packet(t).client \in Clients
      BY <1>2, <1>7 DEF Echo, At, InTask
    <3>3. channel[Packet(t).client] + 1 \in Nat
      BY <1>1, <3>2
    <3>. QED
      BY <1>1, <3>1, <3>2, <3>3
  <2>2. /\ TaskAsks("echo", "nat_gateway") = {} /\ TaskAsks("nat", "nat_gateway") = {"write"}
        /\ \A k \in Locks \ {"nat_gateway"} : TaskAsks("nat", k) = TaskAsks("echo", k)
        /\ \A k \in Locks : "nat" \in Within(k) => k = "clients" \/ "echo" \in Within(k)
    BY DEF TaskAsks, Locks, Within
  <2>4. Packet(t).kind = "genuine"
    BY <1>7 DEF Echo, At, LockInv, OnlyGenuine, Within, Packet
  <2>3. /\ At(t, "echo", "clients") /\ Await(t, "nat", queue, "nat_gateway", "write")
        /\ UNCHANGED <<tun_present, reader, handler, receive_counter, opened, written>>
    BY <1>7 DEF Echo
  <2>. QED
    BY <1>1, <2>1, <2>2, <2>3, <2>4, TaskPasses DEF InTask, Locks, Modes
<1>8. ASSUME RoutePacket(t)  PROVE LockInv'
  <2>1. /\ TaskAsks("nat", "tun_device") = {} /\ TaskAsks("tun", "tun_device") = {"write"}
        /\ \A k \in Locks \ {"tun_device"} : TaskAsks("tun", k) = TaskAsks("nat", k)
        /\ \A k \in Locks : "tun" \in Within(k) => k = "nat_gateway" \/ "nat" \in Within(k)
    BY DEF TaskAsks, Locks, Within
  <2>3. Packet(t).kind = "genuine"
    BY <1>8 DEF RoutePacket, At, LockInv, OnlyGenuine, Within, Packet
  <2>2. /\ At(t, "nat", "nat_gateway") /\ Await(t, "tun", queue, "tun_device", "write")
        /\ UNCHANGED <<tun_present, reader, handler, receive_counter, channel, opened, written>>
    BY <1>8 DEF RoutePacket
  <2>. QED
    BY <1>1, <2>1, <2>2, <2>3, TaskPasses DEF InTask, Locks, Modes
<1>9. ASSUME NoRoute(t)  PROVE LockInv'
  BY <1>1, <1>9, TaskEnds DEF NoRoute
<1>10. ASSUME WriteTun(t)  PROVE LockInv'
  <2>1. Packet(t).counter \in Sent
    BY <1>2, <1>10 DEF WriteTun, At, InTask, LockInv, OnlyGenuine, Within, Packet
  <2>2. written' \in [Clients -> Seq(Sent)]
    <3>1. Append(written[Packet(t).client], Packet(t).counter) \in Seq(Sent)
      BY <1>1, <1>2, <1>10, <2>1 DEF WriteTun, At, InTask
    <3>. QED
      BY <1>1, <1>10, <3>1 DEF WriteTun
  <2>. QED
    BY <1>1, <1>10, <2>2, TaskEnds DEF WriteTun
<1>. QED
  BY <1>3, <1>4, <1>5, <1>6, <1>7, <1>8, <1>9, <1>10 DEF TaskStep

\* The read loop and the handlers hold nothing beyond one lock at a time.
LEMMA ReaderKeepsLocks ==
    ASSUME LockInv,
           \/ \E dst \in Clients \union {None} : ReadTun(dst)
           \/ ReadNothing \/ RouteToClient
    PROVE  LockInv'
<1>1. /\ PlacesOK
      /\ channel \in [Clients -> Nat]
  BY InvPlaces DEF PlacesOK
<1>2. UNCHANGED <<task, handler>>
  BY DEF ReadTun, ReadNothing, RouteToClient
<1>3. \A b \in Actors \ {TunReader}, l \in Locks : Asks(b, l)' = Asks(b, l)
  BY <1>2 DEF Asks, Actors
<1>4. TunReader \in Actors /\ TunReader \notin Tasks
  BY DataPathAssumption DEF Actors
<1>5. PlacesOK'
  <2>1. ASSUME NEW dst \in Clients \union {None}, ReadTun(dst)  PROVE PlacesOK'
    <3>1. reader' = [pc |-> "route", dst |-> dst] /\ tun_present
      BY <1>1, <2>1 DEF ReadTun, PlacesOK
    <3>. QED
      BY <1>1, <2>1, <3>1 DEF PlacesOK, ReadTun
  <2>2. ASSUME ReadNothing  PROVE PlacesOK'
    BY <1>1, <2>2 DEF PlacesOK, ReadNothing
  <2>3. ASSUME RouteToClient  PROVE PlacesOK'
    <3>1. reader' = [pc |-> "tun"] /\ tun_present
      BY <1>1, <2>3 DEF RouteToClient, PlacesOK
    <3>2. channel' \in [Clients -> Nat]
      <4>1. CASE reader.dst # None /\ Reachable(reader.dst)
        <5>1. channel' = [channel EXCEPT ![reader.dst] = @ + 1]
          BY <2>3, <4>1 DEF RouteToClient
        <5>2. reader.dst \in Clients
          BY <1>1, <2>3, <4>1 DEF RouteToClient, PlacesOK
        <5>3. channel[reader.dst] + 1 \in Nat
          BY <1>1, <5>2
        <5>. QED
          BY <1>1, <5>1, <5>3
      <4>2. CASE ~(reader.dst # None /\ Reachable(reader.dst))
        BY <1>1, <2>3, <4>2 DEF RouteToClient
      <4>. QED
        BY <4>1, <4>2
    <3>. QED
      BY <1>1, <2>3, <3>1, <3>2 DEF PlacesOK, RouteToClient
  <2>. QED
    BY <2>1, <2>2, <2>3
<1>6. StepOf(TunReader)
  <2>1. ASSUME NEW dst \in Clients \union {None}, ReadTun(dst)  PROVE StepOf(TunReader)
    <3>1. reader'.pc = "route" /\ queue' = Ask(Drop(queue, TunReader), "clients", TunReader, "read")
      BY <2>1 DEF ReadTun
    <3>2. /\ Asks(TunReader, "clients")' = {"read"}
          /\ \A k \in Locks \ {"clients"} : Asks(TunReader, k)' = {}
      BY <3>1, Kinds DEF ReaderAsks, Locks
    <3>. QED
      BY <1>4, <3>1, <3>2, Changing DEF Locks, Modes
  <2>2. ASSUME ReadNothing \/ RouteToClient  PROVE StepOf(TunReader)
    <3>1. /\ reader'.pc = "tun"
          /\ queue' = Ask(Drop(queue, TunReader), "tun_device", TunReader, "write")
      BY <2>2 DEF ReadNothing, RouteToClient
    <3>2. /\ Asks(TunReader, "tun_device")' = {"write"}
          /\ \A k \in Locks \ {"tun_device"} : Asks(TunReader, k)' = {}
      BY <3>1, Kinds DEF ReaderAsks, Locks
    <3>. QED
      BY <1>4, <3>1, <3>2, Changing DEF Locks, Modes
  <2>. QED
    BY <2>1, <2>2
<1>. QED
  BY <1>2, <1>3, <1>4, <1>5, <1>6, StepKeepsLocks

LEMMA HandlerKeepsLocks ==
    ASSUME LockInv, NEW c \in Clients, HandlerStep(c)
    PROVE  LockInv'
<1>1. /\ PlacesOK
      /\ channel \in [Clients -> Nat]
      /\ handler \in [Clients -> {"spawned", "registering", "running", "ending", "ended"}]
  BY InvPlaces DEF PlacesOK
<1>2. UNCHANGED <<task, reader>>
  BY DEF HandlerStep, Start, Register, SendOne, SendFails, Unregister, AskRegistry
<1>3. c \in Actors /\ c \notin Tasks
  BY DataPathAssumption DEF Actors
<1>4. ASSUME SendOne(c)  PROVE LockInv'
  <2>1. channel[c] - 1 \in Nat /\ channel' = [channel EXCEPT ![c] = @ - 1]
    BY <1>1, <1>4 DEF SendOne
  <2>2. channel' \in [Clients -> Nat]
    BY <1>1, <2>1
  <2>3. PlacesOK'
    BY <1>1, <1>4, <2>2 DEF PlacesOK, SendOne
  <2>4. queue' = queue /\ handler' = handler
    BY <1>4 DEF SendOne
  <2>5. StepOf(c)
    <3>1. \A l \in Locks : Asks(c, l)' = Asks(c, l)
      BY <1>2, <2>4 DEF Asks
    <3>2. \A l \in Locks, mode \in Modes :
              [who |-> c, mode |-> mode] \in Members(queue[l]) <=> mode \in Asks(c, l)
      BY <1>3, Standing
    <3>3. WellQueued(queue)
      BY DEF LockInv
    <3>. QED
      BY <2>4, <3>1, <3>2, <3>3 DEF StepOf
  <2>6. \A b \in Actors \ {c}, l \in Locks : Asks(b, l)' = Asks(b, l)
    BY <1>2, <2>4 DEF Asks
  <2>. QED
    BY <1>2, <1>3, <2>3, <2>5, <2>6, StepKeepsLocks
<1>5. ASSUME Start(c) \/ SendFails(c)  PROVE LockInv'
  <2>1. PICK from \in {"spawned", "running"}, to \in {"registering", "ending"} :
            AskRegistry(c, from, to)
    BY <1>5 DEF Start, SendFails
  <2>2. /\ handler[c] = from /\ handler'[c] = to
        /\ \A b \in Clients \ {c} : handler'[b] = handler[b]
        /\ handler' \in [Clients -> {"spawned", "registering", "running", "ending", "ended"}]
        /\ queue' = Ask(queue, "clients", c, "write")
    BY <1>1, <2>1 DEF AskRegistry
  <2>3. channel' \in [Clients -> Nat]
    BY <1>1, <1>5 DEF Start, SendFails
  <2>4. PlacesOK'
    BY <1>1, <1>5, <2>2, <2>3 DEF PlacesOK, Start, SendFails
  <2>5. /\ Asks(c, "clients") = {} /\ Asks(c, "clients")' = {"write"}
        /\ \A k \in Locks \ {"clients"} : Asks(c, k)' = Asks(c, k)
    BY <2>2, Kinds DEF HandlerAsks, Locks
  <2>6. StepOf(c)
    BY <1>3, <2>2, <2>5, GoingOn DEF Locks, Modes
  <2>7. \A b \in Actors \ {c}, l \in Locks : Asks(b, l)' = Asks(b, l)
    BY <1>2, <2>2 DEF Asks
  <2>. QED
    BY <1>2, <1>3, <2>4, <2>6, <2>7, StepKeepsLocks
<1>6. ASSUME Register(c) \/ Unregister(c)  PROVE LockInv'
  <2>1. PICK to \in {"running", "ended"} : handler' = [handler EXCEPT ![c] = to]
    BY <1>6 DEF Register, Unregister
  <2>2. /\ handler'[c] = to
        /\ \A b \in Clients \ {c} : handler'[b] = handler[b]
        /\ handler' \in [Clients -> {"spawned", "registering", "running", "ending", "ended"}]
        /\ queue' = Drop(queue, c)
    BY <1>1, <1>6, <2>1 DEF Register, Unregister
  <2>3. PlacesOK'
    BY <1>1, <1>6, <2>2 DEF PlacesOK, Register, Unregister
  <2>4. \A l \in Locks : Asks(c, l)' = {}
    BY <2>2, Kinds DEF HandlerAsks
  <2>5. StepOf(c)
    BY <1>3, <2>2, <2>4, Leaving
  <2>6. \A b \in Actors \ {c}, l \in Locks : Asks(b, l)' = Asks(b, l)
    BY <1>2, <2>2 DEF Asks
  <2>. QED
    BY <1>2, <1>3, <2>3, <2>5, <2>6, StepKeepsLocks
<1>. QED
  BY <1>4, <1>5, <1>6 DEF HandlerStep

LEMMA InitLocks ==
    ASSUME Init
    PROVE  LockInv
<1>1. PlacesOK
  <2>1. <<>> \in Seq(Sent)
    OBVIOUS
  <2>2. [c \in Clients |-> <<>>] \in [Clients -> Seq(Sent)]
    BY <2>1
  <2>. QED
    BY <2>2, DataPathAssumption DEF Init, PlacesOK
<1>2. \A l \in Locks :
          /\ l = "tun_device" /\ tun_present => queue[l] = <<[who |-> TunReader, mode |-> "write"]>>
          /\ ~(l = "tun_device" /\ tun_present) => queue[l] = <<>>
  BY DEF Init
<1>3. [who |-> TunReader, mode |-> "write"] \in Requests
  BY DEF Requests, Actors, Modes
<1>4. ASSUME NEW r \in Requests
      PROVE  <<r>> \in Seq(Requests) /\ OnceEach(<<r>>) /\ Members(<<r>>) = {r}
  BY DEF OnceEach, Members
<1>5. <<>> \in Seq(Requests) /\ OnceEach(<<>>) /\ Members(<<>>) = {}
  BY DEF OnceEach, Members
<1>6. \A l \in Locks : queue[l] \in Seq(Requests) /\ OnceEach(queue[l])
  BY <1>2, <1>3, <1>4, <1>5
<1>7. WellQueued(queue)
  BY <1>6 DEF WellQueued, Init
<1>10. \A l \in Locks :
          /\ l = "tun_device" /\ tun_present =>
                Members(queue[l]) = {[who |-> TunReader, mode |-> "write"]}
          /\ ~(l = "tun_device" /\ tun_present) => Members(queue[l]) = {}
  <2> DEFINE r0 == [who |-> TunReader, mode |-> "write"]
  <2>1. Members(<<r0>>) = {r0}
    BY <1>3, <1>4
  <2>2. \A l \in Locks : l = "tun_device" /\ tun_present => queue[l] = <<r0>>
    BY <1>2
  <2> HIDE DEF r0
  <2>3. \A l \in Locks : l = "tun_device" /\ tun_present => Members(queue[l]) = {r0}
    BY <2>1, <2>2
  <2>. QED
    BY <1>2, <1>5, <2>3 DEF r0
<1>8. QueuesMatch
  <2> SUFFICES ASSUME NEW l \in Locks, NEW r \in Requests
               PROVE  r \in Members(queue[l]) <=> r.mode \in Asks(r.who, l)
    BY DEF QueuesMatch
  <2>1. r.who \in Actors /\ r.mode \in Modes /\ r = [who |-> r.who, mode |-> r.mode]
    BY DEF Requests
  <2>2. CASE r.who \in Tasks
    <3>1. Asks(r.who, l) = {}
      BY <2>2 DEF Init, Asks, TaskAsks, Locks
    <3>2. r \notin Members(queue[l])
      <4>1. r.who # TunReader
        BY <2>2, DataPathAssumption
      <4>. QED
        BY <1>10, <4>1
    <3>. QED
      BY <3>1, <3>2
  <2>3. CASE r.who \in Clients
    <3>1. Asks(r.who, l) = {}
      BY <2>3, DataPathAssumption DEF Init, Asks, HandlerAsks
    <3>2. r \notin Members(queue[l])
      <4>1. r.who # TunReader
        BY <2>3, DataPathAssumption
      <4>. QED
        BY <1>10, <4>1
    <3>. QED
      BY <3>1, <3>2
  <2>4. CASE r.who = TunReader
    <3>1. Asks(r.who, l) = IF l = "tun_device" /\ tun_present THEN {"write"} ELSE {}
      BY <2>4, DataPathAssumption DEF Init, Asks, ReaderAsks
    <3>2. CASE l = "tun_device" /\ tun_present
      BY <1>10, <2>1, <2>4, <3>1, <3>2
    <3>3. CASE ~(l = "tun_device" /\ tun_present)
      BY <1>10, <3>1, <3>3
    <3>. QED
      BY <3>2, <3>3
  <2>. QED
    BY <2>1, <2>2, <2>3, <2>4 DEF Actors
<1>9. \A t \in Tasks, l \in Locks : task[t].pc \notin Within(l)
  BY DEF Init, Within, Locks
<1>. QED
  BY <1>1, <1>7, <1>8, <1>9, QueueTypes DEF LockInv, GuardsHeld, OnlyGenuine, Locks

\* The invariant holds in every reachable state.
THEOREM LockInvariance == Spec => []LockInv
<1>1. Init => LockInv
  BY InitLocks
<1>2. ASSUME LockInv, [Next]_vars  PROVE LockInv'
  <2>1. ASSUME UNCHANGED vars  PROVE LockInv'
    BY <1>2, <2>1 DEF vars, LockInv, TypeOK, WellQueued, QueuesMatch, GuardsHeld, OnlyGenuine, Asks
  <2>2. ASSUME Next  PROVE LockInv'
    BY <1>2, <2>2, TaskKeepsLocks, ReceiveKeepsLocks, ReaderKeepsLocks, HandlerKeepsLocks DEF Next
  <2>. QED
    BY <1>2, <2>1, <2>2
<1>. QED
  BY <1>1, <1>2, PTL DEF Spec

\* Everybody is at a place of the code, and every queue, counter and channel
\* has the type the code gives it.
THEOREM DataPathTypeCorrect == Spec => []TypeOK
<1>1. LockInv => TypeOK
  BY DEF LockInv
<1>. QED
  BY <1>1, LockInvariance, PTL

-----------------------------------------------------------------------------
(* Nobody waits in a circle.                                               *)

\* The order in which the tasks take the locks.
Before == {<<"client_sessions", "clients">>, <<"client_sessions", "nat_gateway">>,
           <<"client_sessions", "tun_device">>, <<"clients", "nat_gateway">>,
           <<"clients", "tun_device">>, <<"nat_gateway", "tun_device">>}

Stands(a, l) == \E i \in DOMAIN queue[l] : queue[l][i].who = a

\* An actor waits only at the last of the locks it has asked for.
LEMMA HoldsEarlierLocks ==
    ASSUME LockInv, NEW a \in Actors, NEW k \in Locks, NEW l \in Locks,
           <<k, l>> \in Before, Stands(a, k), Stands(a, l)
    PROVE  Granted(k, a)
<1>1. Asks(a, k) # {} /\ Asks(a, l) # {}
  <2>1. \A n \in Locks : Stands(a, n) => \E m \in Members(queue[n]) : m.who = a
    BY DEF Stands, Members
  <2>. QED
    BY <2>1, Standing
<1>2. CASE a \in Tasks
  <2>1. TaskAsks(task[a].pc, k) # {} /\ TaskAsks(task[a].pc, l) # {}
    BY <1>1, <1>2, Kinds
  <2>2. task[a].pc \in Within(k)
    BY <2>1 DEF TaskAsks, Within, Before, Locks
  <2>. QED
    BY <1>2, <2>2, GrantedHolds DEF LockInv, GuardsHeld
<1>3. CASE a \in Clients
  <2>1. HandlerAsks(handler[a], k) # {} /\ HandlerAsks(handler[a], l) # {}
    BY <1>1, <1>3, Kinds
  <2>. QED
    BY <2>1 DEF HandlerAsks, Before
<1>4. CASE a = TunReader
  <2>1. ReaderAsks(reader.pc, k) # {} /\ ReaderAsks(reader.pc, l) # {}
    BY <1>1, <1>4, Kinds
  <2>. QED
    BY <2>1 DEF ReaderAsks, Before
<1>. QED
  BY <1>2, <1>3, <1>4 DEF Actors

\* If each of S waits for one of S, and none of S stands at a lock after l,
\* then none stands at l: the first of them there would wait for nobody.
LEMMA NoneAtLast ==
    ASSUME LockInv, NEW S \in SUBSET Actors,
           \A a \in S : \E b \in S : WaitsFor(a, b),
           NEW l \in Locks,
           \A k \in Locks : <<l, k>> \in Before => \A a \in S : ~Stands(a, k)
    PROVE  \A a \in S : ~Stands(a, l)
<1>1. queue[l] \in Seq(Requests) /\ OnceEach(queue[l])
  BY DEF LockInv, WellQueued
<1>2. ASSUME NEW a \in S, Stands(a, l)  PROVE FALSE
  <2>1. \E i \in DOMAIN queue[l] : queue[l][i].who \in S
    BY <1>2 DEF Stands
  <2>2. PICK i \in DOMAIN queue[l] :
            queue[l][i].who \in S /\ \A j \in DOMAIN queue[l] : j < i => queue[l][j].who \notin S
    BY <1>1, <2>1, FirstOfThem
  <2>3. PICK first \in S : first = queue[l][i].who
    BY <2>2
  <2>4. PICK b \in S : WaitsFor(first, b)
    OBVIOUS
  <2>5. PICK k \in Locks : \E m, n \in DOMAIN queue[k] :
            /\ n < m
            /\ queue[k][m].who = first /\ ~Granted(k, first)
            /\ queue[k][n].who = b
    BY <2>4 DEF WaitsFor
  <2>6. Stands(first, l) /\ Stands(first, k)
    BY <2>3, <2>5 DEF Stands
  <2>7. k = l
    <3>1. <<l, k>> \notin Before
      BY <2>6
    <3>2. <<k, l>> \notin Before
      BY <2>5, <2>6, HoldsEarlierLocks
    <3>. QED
      BY <3>1, <3>2 DEF Before, Locks
  <2>8. PICK m, n \in DOMAIN queue[l] :
            n < m /\ queue[l][m].who = first /\ queue[l][n].who = b
    BY <2>5, <2>7
  <2>9. m = i
    BY <1>1, <2>3, <2>8 DEF OnceEach
  <2>. QED
    BY <2>2, <2>8, <2>9
<1>. QED
  BY <1>2

\* The tasks, the TUN read loop and the registrations never wait for each
\* other in a circle, however many there are: a task takes client_sessions,
\* clients, nat_gateway and tun_device in this order (listener.rs:249,
\* client_handler.rs:242-247), and the read loop, which takes the last before
\* the second, has dropped it by then (main.rs).
THEOREM NobodyWaitsInACircle == Spec => []NoCircularWait
<1>1. LockInv => NoCircularWait
  <2> SUFFICES ASSUME LockInv, NEW S \in (SUBSET Actors) \ {{}},
                      \A a \in S : \E b \in S : WaitsFor(a, b)
               PROVE  FALSE
    BY DEF NoCircularWait
  <2>1. \A a \in S : ~Stands(a, "tun_device")
    BY NoneAtLast DEF Before, Locks
  <2>2. \A a \in S : ~Stands(a, "nat_gateway")
    BY <2>1, NoneAtLast DEF Before, Locks
  <2>3. \A a \in S : ~Stands(a, "clients")
    BY <2>1, <2>2, NoneAtLast DEF Before, Locks
  <2>4. \A a \in S : ~Stands(a, "client_sessions")
    BY <2>1, <2>2, <2>3, NoneAtLast DEF Before, Locks
  <2>5. PICK a \in S : TRUE
    OBVIOUS
  <2>6. PICK b \in S : WaitsFor(a, b)
    OBVIOUS
  <2>7. \E l \in Locks : Stands(a, l)
    BY <2>6 DEF WaitsFor, Stands
  <2>. QED
    BY <2>1, <2>2, <2>3, <2>4, <2>7 DEF Locks
<1>. QED
  BY <1>1, LockInvariance, PTL

-----------------------------------------------------------------------------
(* Packets in order.                                                       *)

Inside == {"echo", "nat", "tun"}

\* The write guard on the session table lets one task past the counter check
\* at a time.
LEMMA OneTaskInside ==
    ASSUME LockInv, NEW t \in Tasks, NEW u \in Tasks,
           \/ task[t].pc \in Inside
           \/ At(t, "vpn", "client_sessions"),
           \/ task[u].pc \in Inside
           \/ At(u, "vpn", "client_sessions")
    PROVE  t = u
<1> DEFINE q == queue["client_sessions"]
<1>1. "client_sessions" \in Locks /\ Within("client_sessions") = Inside
  BY DEF Locks, Within, Inside
<1>2. q \in Seq(Requests) /\ OnceEach(q)
  BY <1>1 DEF LockInv, WellQueued
<1>3. Holds(q, t) /\ Holds(q, u)
  BY <1>1, GrantedHolds DEF LockInv, GuardsHeld, At
<1>4. task[t].pc \in Inside \union {"vpn"}
  BY DEF At
<1>5. Asks(t, "client_sessions") = {"write"}
  BY <1>1, <1>4, Kinds DEF TaskAsks, Inside
<1>6. \A m \in Members(q) : m.who = t => m.mode # "read"
  BY <1>1, <1>5, Standing, Kinds
<1>. QED
  BY <1>2, <1>3, <1>6, WriterAlone

\* Appending a greater number keeps a sequence increasing.
LEMMA AppendIncreasing ==
    ASSUME NEW s \in Seq(0..MaxCounter), NEW n \in 0..MaxCounter, Increasing(s),
           \A i \in DOMAIN s : s[i] < n
    PROVE  /\ Increasing(Append(s, n))
           /\ \A m \in Nat : n < m => \A i \in DOMAIN Append(s, n) : Append(s, n)[i] < m
<1> DEFINE p == Append(s, n)
<1>1. /\ DOMAIN p = 1..(Len(s) + 1) /\ DOMAIN s = 1..Len(s) /\ Len(s) \in Nat
      /\ \A i \in 1..Len(s) : p[i] = s[i] /\ s[i] \in Nat
      /\ p[Len(s) + 1] = n /\ n \in Nat
  BY DataPathAssumption
<1> HIDE DEF p
<1>2. Increasing(p)
  BY <1>1 DEF Increasing
<1>3. \A m \in Nat : n < m => \A i \in DOMAIN p : p[i] < m
  BY <1>1
<1>. QED
  BY <1>2, <1>3 DEF p

LEMMA SentCounters ==
    ASSUME NEW s \in Seq(Sent)
    PROVE  s \in Seq(0..MaxCounter) /\ \A i \in DOMAIN s : s[i] \in Nat
<1>1. Sent \subseteq 0..MaxCounter /\ 0..MaxCounter \subseteq Nat
  BY DataPathAssumption
<1> DEFINE R == 0..MaxCounter
<1>2. PICK n \in Nat : n = Len(s) /\ s \in [1..n -> Sent]
  OBVIOUS
<1> HIDE DEF R
<1>3. s \in [1..n -> R]
  BY <1>1, <1>2 DEF R
<1>4. s \in Seq(R)
  BY <1>3
<1>5. \A i \in DOMAIN s : s[i] \in Nat
  BY <1>1, <1>2
<1>. QED
  BY <1>4, <1>5 DEF R

\* The invariant of the order, with the counters that do not wrap.
LEMMA OrderStep ==
    ASSUME OrderInv, LockInv', [Next]_vars,
           MaxCounter \notin Sent \union DamagedReads
    PROVE  OrderInv'
<1>1. /\ receive_counter \in [Clients -> 0..MaxCounter]
      /\ opened \in [Clients -> Seq(Sent)] /\ written \in [Clients -> Seq(Sent)]
      /\ LockInv /\ PlacesOK
      /\ task \in [Tasks -> TaskStates]
      /\ MaxCounter \in Nat /\ Sent \subseteq 0..MaxCounter
  BY InvPlaces, DataPathAssumption DEF PlacesOK, OrderInv, TaskStates
<1>2. \A c \in Clients : /\ receive_counter[c] \in Nat
                         /\ opened[c] \in Seq(0..MaxCounter) /\ written[c] \in Seq(0..MaxCounter)
                         /\ \A i \in DOMAIN opened[c] : opened[c][i] \in Nat
                         /\ \A i \in DOMAIN written[c] : written[c][i] \in Nat
  <2> SUFFICES ASSUME NEW c \in Clients
               PROVE  /\ receive_counter[c] \in Nat
                      /\ opened[c] \in Seq(0..MaxCounter) /\ written[c] \in Seq(0..MaxCounter)
                      /\ \A i \in DOMAIN opened[c] : opened[c][i] \in Nat
                      /\ \A i \in DOMAIN written[c] : written[c][i] \in Nat
    OBVIOUS
  <2>1. receive_counter[c] \in 0..MaxCounter /\ opened[c] \in Seq(Sent) /\ written[c] \in Seq(Sent)
    BY <1>1
  <2>2. receive_counter[c] \in Nat
    BY <2>1
  <2>. QED
    BY <2>1, <2>2, SentCounters
<1>3. Within("client_sessions") = Inside
  BY DEF Within, Inside
<1> DEFINE Order == OpenedInOrder /\ WrittenInOrder /\ OpenedBehind /\ WrittenBehind /\ NextToWrite
<1>4. SUFFICES Order'
  BY DEF OrderInv
\* Steps that leave counters and histories alone, and let nobody in.
<1>5. ASSUME UNCHANGED <<receive_counter, opened, written>>,
             \A t \in Tasks : task'[t].pc \in Inside =>
                 task[t].pc \in Inside /\ task'[t].datagram = task[t].datagram
      PROVE  Order'
  <2>1. OpenedInOrder' /\ WrittenInOrder' /\ OpenedBehind' /\ WrittenBehind'
    BY <1>5 DEF OrderInv, OpenedInOrder, WrittenInOrder, OpenedBehind, WrittenBehind, Increasing
  <2>2. NextToWrite'
    BY <1>3, <1>5 DEF OrderInv, NextToWrite
  <2>. QED
    BY <2>1, <2>2
<1>6. ASSUME NEW t \in Tasks, NEW d \in Datagrams, Receive(t, d)  PROVE Order'
  <2>1. task' = [task EXCEPT ![t] = [pc |-> "lookup", datagram |-> d]]
    BY <1>6 DEF Receive
  <2>2. task'[t].pc = "lookup" /\ \A b \in Tasks \ {t} : task'[b] = task[b]
    BY <1>1, <2>1
  <2>. QED
    BY <1>5, <1>6, <2>2 DEF Receive, Inside
<1>7. ASSUME UNCHANGED <<receive_counter, opened, written, task>>  PROVE Order'
  BY <1>5, <1>7
<1>8. ASSUME NEW t \in Tasks, UNCHANGED <<receive_counter, opened, written>>,
             Return(t)
      PROVE  Order'
  <2>1. task'[t].pc = "idle" /\ \A b \in Tasks \ {t} : task'[b] = task[b]
    BY <1>1, <1>8, GoBack DEF Return
  <2>. QED
    BY <1>5, <1>8, <2>1 DEF Inside
<1>9. ASSUME NEW t \in Tasks, UNCHANGED <<receive_counter, opened, written>>,
             task'[t].pc \in Inside => task[t].pc \in Inside,
             task'[t].datagram = task[t].datagram,
             \A b \in Tasks \ {t} : task'[b] = task[b]
      PROVE  Order'
  BY <1>5, <1>9
<1>10. ASSUME NEW t \in Tasks, Undecipherable(t)  PROVE Order'
  <2>1. /\ task[t].pc = "vpn" /\ Packet(t).kind = "damaged"
        /\ receive_counter[Packet(t).client] <= Packet(t).counter
        /\ receive_counter' =
              [receive_counter EXCEPT ![Packet(t).client] = After(Packet(t).counter)]
        /\ UNCHANGED <<opened, written>> /\ Return(t)
        /\ Packet(t).counter \in 0..MaxCounter /\ Packet(t).counter \in DamagedReads
        /\ Packet(t).client \in Clients
    <3>1. task[t].pc = "vpn" /\ ~Refused(Packet(t)) /\ Packet(t).kind = "damaged"
      BY <1>10 DEF Undecipherable, At
    <3>2. task[t] \in [pc : InTask, datagram : Datagrams]
      BY <1>1, <3>1 DEF TaskStates
    <3>3. /\ Packet(t).counter \in 0..MaxCounter /\ Packet(t).counter \in DamagedReads
          /\ Packet(t).client \in Clients
      BY <3>1, <3>2, DatagramFields DEF Packet
    <3>4. receive_counter[Packet(t).client] <= Packet(t).counter
      BY <1>2, <3>1, <3>3 DEF Refused
    <3>. QED
      BY <1>10, <3>1, <3>3, <3>4 DEF Undecipherable
  <2>2. After(Packet(t).counter) = Packet(t).counter + 1
    BY <2>1, AfterCounter
  <2>3. \A c \in Clients : receive_counter'[c] \in Nat /\ receive_counter[c] <= receive_counter'[c]
    BY <1>1, <1>2, <2>1, <2>2
  <2>4. task'[t].pc = "idle" /\ \A b \in Tasks \ {t} : task'[b] = task[b]
    BY <1>1, <2>1, GoBack DEF Return
  <2>5. OpenedInOrder' /\ WrittenInOrder'
    BY <2>1 DEF OrderInv, OpenedInOrder, WrittenInOrder, Increasing
  <2>6. OpenedBehind' /\ WrittenBehind'
    BY <1>2, <2>1, <2>3 DEF OrderInv, OpenedBehind, WrittenBehind
  <2>7. NextToWrite'
    <3> SUFFICES ASSUME NEW u \in Tasks, task'[u].pc \in Inside
                 PROVE  LET d == task'[u].datagram
                        IN  /\ d.counter < receive_counter'[d.client]
                            /\ \A i \in DOMAIN written'[d.client] :
                                  written'[d.client][i] < d.counter
      BY <1>3 DEF NextToWrite
    <3>1. u # t /\ task'[u] = task[u] /\ task[u].pc \in Inside
      BY <2>4 DEF Inside
    <3>2. PICK c \in Clients, n \in Nat :
              c = task[u].datagram.client /\ n = task[u].datagram.counter
      <4>1. task[u] \in [pc : InTask, datagram : Datagrams]
        BY <1>1, <3>1 DEF TaskStates, Inside
      <4>2. task[u].datagram \in Datagrams
        BY <4>1
      <4>3. /\ task[u].datagram.client \in Clients
            /\ task[u].datagram.counter \in 0..MaxCounter
        BY <4>2, DatagramFields
      <4>. QED
        BY <4>3
    <3>3. n < receive_counter[c] /\ \A i \in DOMAIN written[c] : written[c][i] < n
      BY <1>3, <3>1, <3>2 DEF OrderInv, NextToWrite
    <3>4. n < receive_counter'[c]
      BY <1>2, <2>3, <3>3
    <3>. QED
      BY <2>1, <3>1, <3>2, <3>3, <3>4
  <2>. QED
    BY <2>5, <2>6, <2>7
<1>11. ASSUME NEW t \in Tasks, Open(t)  PROVE Order'
  <2>1. PICK c \in Clients, n \in 0..MaxCounter :
            /\ c = Packet(t).client /\ n = Packet(t).counter
            /\ At(t, "vpn", "client_sessions") /\ n \in Sent
            /\ receive_counter[c] <= n
    <3>1. task[t].pc = "vpn" /\ ~Refused(Packet(t)) /\ Packet(t).kind = "genuine"
      BY <1>11 DEF Open, At
    <3>2. task[t] \in [pc : InTask, datagram : Datagrams]
      BY <1>1, <3>1 DEF TaskStates
    <3>3. /\ Packet(t).counter \in 0..MaxCounter /\ Packet(t).counter \in Sent
          /\ Packet(t).client \in Clients
      BY <3>1, <3>2, DatagramFields DEF Packet
    <3>4. receive_counter[Packet(t).client] <= Packet(t).counter
      BY <1>2, <3>1, <3>3 DEF Refused
    <3>. QED
      BY <1>11, <3>3, <3>4 DEF Open
  <2>2. n + 1 \in Nat /\ n < n + 1 /\ After(n) = n + 1
    <3>1. n # MaxCounter /\ n \in Nat
      BY <1>1, <2>1
    <3>. QED
      BY <3>1, AfterCounter
  <2>3. /\ receive_counter' = [receive_counter EXCEPT ![c] = n + 1]
        /\ opened' = [opened EXCEPT ![c] = Append(@, n)]
        /\ written' = written
        /\ task' = [task EXCEPT ![t].pc = "echo"]
    BY <1>11, <2>1, <2>2 DEF Open, Await
  <2>4. /\ receive_counter'[c] = n + 1 /\ opened'[c] = Append(opened[c], n)
        /\ \A b \in Clients \ {c} :
              receive_counter'[b] = receive_counter[b] /\ opened'[b] = opened[b]
    BY <1>1, <2>3
  <2>5. /\ task'[t].pc = "echo" /\ task'[t].datagram = task[t].datagram
        /\ \A b \in Tasks \ {t} : task'[b] = task[b]
    BY <1>1, <2>1, <2>3, Advance DEF At, InTask
  <2>6. \A i \in DOMAIN opened[c] : opened[c][i] < n
    BY <1>1, <1>2, <2>1 DEF OrderInv, OpenedBehind
  <2>7. Increasing(opened[c])
    BY DEF OrderInv, OpenedInOrder
  <2>8. /\ Increasing(opened'[c])
        /\ \A i \in DOMAIN opened'[c] : opened'[c][i] < n + 1
    BY <1>2, <2>2, <2>4, <2>6, <2>7, AppendIncreasing
  <2>9. OpenedInOrder'
    <3>1. \A b \in Clients : Increasing(opened'[b])
      BY <2>4, <2>8 DEF OrderInv, OpenedInOrder
    <3>. QED
      BY <3>1 DEF OpenedInOrder, Increasing
  <2>10. OpenedBehind'
    BY <2>4, <2>8 DEF OrderInv, OpenedBehind
  <2>11. WrittenInOrder'
    BY <2>3 DEF OrderInv, WrittenInOrder, Increasing
  <2>12. \A i \in DOMAIN written[c] : written[c][i] < n
    BY <1>1, <1>2, <2>1 DEF OrderInv, WrittenBehind
  <2>13. WrittenBehind'
    <3> SUFFICES ASSUME NEW b \in Clients, NEW i \in DOMAIN written[b]
                 PROVE  written[b][i] < receive_counter'[b]
      BY <2>3 DEF WrittenBehind
    <3>1. CASE b = c
      BY <1>1, <1>2, <2>1, <2>2, <2>4, <2>12, <3>1
    <3>2. CASE b # c
      BY <2>4, <3>2 DEF OrderInv, WrittenBehind
    <3>. QED
      BY <3>1, <3>2
  <2>14. NextToWrite'
    <3> SUFFICES ASSUME NEW u \in Tasks, task'[u].pc \in Inside
                 PROVE  LET d == task'[u].datagram
                        IN  /\ d.counter < receive_counter'[d.client]
                            /\ \A i \in DOMAIN written'[d.client] :
                                  written'[d.client][i] < d.counter
      BY <1>3 DEF NextToWrite
    <3>1. u = t
      <4>1. ASSUME u # t  PROVE FALSE
        <5>1. task[u].pc \in Inside
          BY <2>5, <4>1
        <5>. QED
          BY <1>1, <2>1, <4>1, <5>1, OneTaskInside
      <4>. QED
        BY <4>1
    <3>. QED
      BY <2>1, <2>2, <2>3, <2>4, <2>5, <2>12, <3>1 DEF Packet
  <2>. QED
    BY <2>9, <2>10, <2>11, <2>13, <2>14
<1>12. ASSUME NEW t \in Tasks, WriteTun(t)  PROVE Order'
  <2>1. task[t].pc = "tun" /\ Return(t) /\ UNCHANGED <<receive_counter, opened>>
    BY <1>12 DEF WriteTun, At
  <2>2. CASE UNCHANGED written
    BY <1>8, <2>1, <2>2
  <2>3. CASE written' = [written EXCEPT ![Packet(t).client] = Append(@, Packet(t).counter)]
    <3>1. PICK c \in Clients, n \in 0..MaxCounter : c = Packet(t).client /\ n = Packet(t).counter
      <4>1. task[t] \in [pc : InTask, datagram : Datagrams]
        BY <1>1, <2>1 DEF TaskStates
      <4>. QED
        BY <4>1, DatagramFields DEF Packet
    <3>2. n < receive_counter[c] /\ \A i \in DOMAIN written[c] : written[c][i] < n
      BY <1>3, <2>1, <3>1 DEF OrderInv, NextToWrite, Inside, Packet
    <3>3. /\ written'[c] = Append(written[c], n)
          /\ \A b \in Clients \ {c} : written'[b] = written[b]
      BY <1>1, <2>3, <3>1
    <3>4. Increasing(written[c])
      BY DEF OrderInv, WrittenInOrder
    <3>5. /\ Increasing(written'[c])
          /\ \A i \in DOMAIN written'[c] : written'[c][i] < receive_counter[c]
      BY <1>2, <3>2, <3>3, <3>4, AppendIncreasing
    <3>6. \A u \in Tasks : task'[u].pc \notin Inside
      <4>1. task'[t].pc = "idle" /\ \A b \in Tasks \ {t} : task'[b] = task[b]
        BY <1>1, <2>1, GoBack DEF Return
      <4>2. \A u \in Tasks \ {t} : task[u].pc \notin Inside
        BY <1>1, <2>1, OneTaskInside DEF Inside
      <4>. QED
        BY <4>1, <4>2 DEF Inside
    <3>7. NextToWrite'
      BY <1>3, <3>6 DEF NextToWrite
    <3>8. WrittenInOrder'
      <4>1. \A b \in Clients : Increasing(written'[b])
        BY <3>3, <3>5 DEF OrderInv, WrittenInOrder
      <4>. QED
        BY <4>1 DEF WrittenInOrder, Increasing
    <3>9. WrittenBehind'
      BY <2>1, <3>3, <3>5 DEF OrderInv, WrittenBehind
    <3>10. OpenedInOrder' /\ OpenedBehind'
      BY <2>1 DEF OrderInv, OpenedInOrder, OpenedBehind, Increasing
    <3>. QED
      BY <3>7, <3>8, <3>9, <3>10
  <2>. QED
    BY <1>12, <2>2, <2>3 DEF WriteTun
<1> HIDE DEF Order
<1>13. ASSUME NEW t \in Tasks, TaskStep(t)  PROVE Order'
  <2>1. ASSUME LookUp(t)  PROVE Order'
    <3>1. task[t].pc = "lookup" /\ task' = [task EXCEPT ![t].pc = "vpn"]
      BY <2>1 DEF LookUp, At, Await
    <3>2. /\ task'[t].pc = "vpn" /\ task'[t].datagram = task[t].datagram
          /\ \A b \in Tasks \ {t} : task'[b] = task[b]
      BY <1>1, <3>1, Advance DEF InTask
    <3>. QED
      BY <1>9, <2>1, <3>2 DEF LookUp, Inside
  <2>2. ASSUME Refuse(t) \/ NoRoute(t)  PROVE Order'
    BY <1>8, <2>2 DEF Refuse, NoRoute
  <2>3. ASSUME Echo(t)  PROVE Order'
    <3>1. task[t].pc = "echo" /\ task' = [task EXCEPT ![t].pc = "nat"]
      BY <2>3 DEF Echo, At, Await
    <3>2. /\ task'[t].pc = "nat" /\ task'[t].datagram = task[t].datagram
          /\ \A b \in Tasks \ {t} : task'[b] = task[b]
      BY <1>1, <3>1, Advance DEF InTask
    <3>. QED
      BY <1>9, <2>3, <3>1, <3>2 DEF Echo, Inside
  <2>4. ASSUME RoutePacket(t)  PROVE Order'
    <3>1. task[t].pc = "nat" /\ task' = [task EXCEPT ![t].pc = "tun"]
      BY <2>4 DEF RoutePacket, At, Await
    <3>2. /\ task'[t].pc = "tun" /\ task'[t].datagram = task[t].datagram
          /\ \A b \in Tasks \ {t} : task'[b] = task[b]
      BY <1>1, <3>1, Advance DEF InTask
    <3>. QED
      BY <1>9, <2>4, <3>1, <3>2 DEF RoutePacket, Inside
  <2>. QED
    BY <1>10, <1>11, <1>12, <1>13, <2>1, <2>2, <2>3, <2>4 DEF TaskStep
<1>14. ASSUME NEW c \in Clients, HandlerStep(c)  PROVE Order'
  BY <1>7, <1>14 DEF HandlerStep, Start, Register, SendOne, SendFails, Unregister, AskRegistry
<1>15. ASSUME \/ \E dst \in Clients \union {None} : ReadTun(dst)
              \/ ReadNothing \/ RouteToClient
       PROVE  Order'
  BY <1>7, <1>15 DEF ReadTun, ReadNothing, RouteToClient
<1>16. ASSUME UNCHANGED vars  PROVE Order'
  BY <1>7, <1>16 DEF vars
<1>. QED
  BY <1>6, <1>13, <1>14, <1>15, <1>16 DEF Next

THEOREM OrderInvariance ==
    ASSUME MaxCounter \notin Sent \union DamagedReads
    PROVE  Spec => []OrderInv
<1>1. Init => OrderInv
  <2> SUFFICES ASSUME Init  PROVE OrderInv
    OBVIOUS
  <2>1. \A c \in Clients : opened[c] = <<>> /\ written[c] = <<>>
    BY DEF Init
  <2>2. OpenedInOrder /\ WrittenInOrder /\ OpenedBehind /\ WrittenBehind
    BY <2>1 DEF OpenedInOrder, WrittenInOrder, OpenedBehind, WrittenBehind, Increasing
  <2>3. NextToWrite
    BY DEF Init, NextToWrite, Within
  <2>. QED
    BY <2>2, <2>3, InitLocks DEF OrderInv
<1>2. OrderInv /\ LockInv' /\ [Next]_vars => OrderInv'
  BY OrderStep
<1>. QED
  BY <1>1, <1>2, LockInvariance, PTL DEF Spec

\* Of one client's packets, those that are opened are opened in the order
\* they were sealed and each at most once (client_handler.rs:195), however
\* many tasks handle them and whatever else arrives, as long as no header
\* shows u64::MAX: the counter after it wraps in a release build.
THEOREM PacketsOpenInOrder ==
    ASSUME MaxCounter \notin Sent \union DamagedReads
    PROVE  Spec => []OpenedInOrder
<1>1. OrderInv => OpenedInOrder
  BY DEF OrderInv
<1>. QED
  BY <1>1, OrderInvariance, PTL

\* They reach the TUN device in the same order, although the task of each
\* waits for three more locks on the way: the write guard on the session
\* table lets one task at a time beyond the counter check.
THEOREM PacketsWriteInOrder ==
    ASSUME MaxCounter \notin Sent \union DamagedReads
    PROVE  Spec => []WrittenInOrder
<1>1. OrderInv => WrittenInOrder
  BY DEF OrderInv
<1>. QED
  BY <1>1, OrderInvariance, PTL
=============================================================================

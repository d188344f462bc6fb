------------------------------- MODULE CsTraffic -------------------------------
(***************************************************************************)
(* The C# client once it is asked to connect: the menu (Program.cs), the   *)
(* connections it makes one after the other, and the two copy loops of     *)
(* each (VpnClient.cs RunAsync) between the TUN device and the server.     *)
(*                                                                         *)
(* A connection's stream is counted in bytes; its frames all carry a       *)
(* plaintext of PlainSize bytes (an empty one is opened and not written).  *)
(* RunAsync returns with the first of its loops; the other, and all that   *)
(* the connection holds, lives on, since nothing calls Dispose.            *)
(***************************************************************************)
EXTENDS PacketEncryption, Sequences

CONSTANTS
    PlainSize,
    Cuts,           \* where in a frame a segment of the stream may end
    MaxClients,     \* bound: connections that the user asks for
    ServerFrames,   \* bound: frames that the server sends on a connection
    MaxPackets      \* bound: packets sealed on a connection

Frame == FrameSize(PlainSize)

ASSUME CsTrafficAssumption ==
    /\ PlainSize \in Nat \ {0} /\ Frame < Half
    /\ Cuts \subseteq 1..Frame /\ Frame \in Cuts
    /\ MaxClients \in Nat /\ ServerFrames \in Nat /\ MaxPackets \in Nat

VARIABLES
    at,         \* where Program is
    clients,    \* how many VpnClients were made; the last is the current one
    conns,      \* the connection of each
    pressed     \* history: the value of clients at the last Ctrl+C

csVars == <<at, clients, conns, pressed>>

Clients == 1..MaxClients

\* Offsets in the stream at which it may have been cut.
CutPoints(from, to) == {p \in (from + 1)..to : p % Frame \in Cuts \union {0}}

NewConnection ==
    [cancelled |-> FALSE, tun |-> "none",
     sender |-> "off", receiver |-> "off",
     sendCounter |-> 0, sealed |-> <<>>,
     pos |-> 0, opened |-> <<>>, ragged |-> FALSE]

CsTrafficInit ==
    /\ at = "menu" /\ clients = 0 /\ pressed = 0
    /\ conns = [c \in Clients |-> NewConnection]

-----------------------------------------------------------------------------
(* Program: the menu, RunClient, Ctrl+C.                                   *)

Choose ==
    /\ at = "menu" /\ clients < MaxClients
    /\ at' = "connecting" /\ clients' = clients + 1
    /\ UNCHANGED <<conns, pressed>>

\* The connect or the handshake throws, or was cancelled.
ConnectThrows ==
    /\ at = "connecting" /\ at' = "menu"
    /\ UNCHANGED <<clients, conns, pressed>>

\* CreateAsync falls back to a stub when there is no Wintun adapter.  Tasks
\* whose token is cancelled already do not start.
Connected ==
    LET start == IF conns[clients].cancelled THEN "over" ELSE "on"
    IN  /\ at = "connecting" /\ at' = "running"
        /\ \E tun \in {"real", "stub"} :
              conns' = [conns EXCEPT ![clients].tun = tun,
                                     ![clients].sender = start,
                                     ![clients].receiver = start]
        /\ UNCHANGED <<clients, pressed>>

\* Task.WhenAny; the task of the statistics ends only when it is cancelled.
RunReturns ==
    LET conn == conns[clients]
    IN  /\ at = "running" /\ at' = "menu"
        /\ conn.sender = "over" \/ conn.receiver = "over" \/ conn.cancelled
        /\ UNCHANGED <<clients, conns, pressed>>

Quit ==
    /\ at = "menu" /\ at' = "ended"
    /\ UNCHANGED <<clients, conns, pressed>>

\* Mutant: there is one handler, for the current connection.
CancelKeyPressLast ==
    /\ at # "ended" /\ clients > 0
    /\ conns' = [conns EXCEPT ![clients].cancelled = TRUE]
    /\ pressed' = clients
    /\ UNCHANGED <<at, clients>>

\* Every RunClient has added a handler, and none was ever taken away.
CancelKeyPress ==
    /\ at # "ended" /\ clients > 0
    /\ conns' = [c \in Clients |->
                    IF c <= clients THEN [conns[c] EXCEPT !.cancelled = TRUE] ELSE conns[c]]
    /\ pressed' = clients
    /\ UNCHANGED <<at, clients>>

-----------------------------------------------------------------------------
(* The loop from TUN to the server.                                        *)

Running(c) == at # "ended" /\ UNCHANGED <<at, clients, pressed>>

Set(c, new) == conns' = [conns EXCEPT ![c] = new]

\* Mutant: the counter moves on when the packet was written.
SealedWhenWritten(conn, written) ==
    [conn EXCEPT !.sealed = Append(@, conn.sendCounter),
                 !.sendCounter = IF written THEN @ + 1 ELSE @]

\* Encrypt takes the counter, whatever becomes of the packet.
Sealed(conn, written) ==
    [conn EXCEPT !.sealed = Append(@, conn.sendCounter), !.sendCounter = @ + 1]

\* A packet is read from TUN, sealed and written.  A failed write is logged,
\* and the loop goes on; a write that is cancelled ends it.
TunToServer(c) ==
    LET conn == conns[c]
    IN  /\ Running(c)
        /\ conn.sender = "on" /\ conn.tun = "real" /\ Len(conn.sealed) < MaxPackets
        /\ \E written \in BOOLEAN :
              Set(c, [Sealed(conn, written) EXCEPT
                         !.sender = IF conn.cancelled THEN "over" ELSE "on"])

SenderStops(c) ==
    /\ Running(c)
    /\ conns[c].sender = "on" /\ conns[c].cancelled
    /\ Set(c, [conns[c] EXCEPT !.sender = "over"])

-----------------------------------------------------------------------------
(* The loop from the server to TUN.                                        *)

\* What ReadAsync returned.  In the middle of a frame the length is whatever
\* stands there; it does not matter, for nothing there was made by Encrypt.
Read(from, to) ==
    [size |-> to - from, length |-> LengthField(PlainSize), genuine |-> from % Frame = 0]

\* Mutant: Decrypt is given the buffer and not the bytes that were read: a
\* length followed by the rest of the last frame opens as that frame.
TakenFromBuffer(conn, to) ==
    CASE Opens(Read(conn.pos, to)) -> Append(conn.opened, conn.pos \div Frame)
      [] ~Opens(Read(conn.pos, to)) /\ conn.pos % Frame = 0
           /\ to - conn.pos <= LENGTH_SIZE /\ conn.opened # <<>>
         -> Append(conn.opened, conn.opened[Len(conn.opened)])
      [] OTHER -> conn.opened

\* The first frame of the read goes to TunDevice.WriteAsync, which drops it if
\* it is a stub or its ring is full.
Taken(conn, to) ==
    IF Opens(Read(conn.pos, to)) THEN Append(conn.opened, conn.pos \div Frame) ELSE conn.opened

\* A read returns what happens to have arrived of the frames that the server
\* sends, or as much of it as the buffer takes.
ServerToTun(c) ==
    LET conn == conns[c]
    IN  /\ Running(c)
        /\ conn.receiver = "on"
        /\ \E to \in CutPoints(conn.pos, ServerFrames * Frame) :
              Set(c, [conn EXCEPT !.pos = to, !.opened = Taken(conn, to),
                                  !.ragged = @ \/ conn.pos % Frame # 0 \/ to - conn.pos # Frame])

\* The stream ends or breaks: the loop is over, and the other one goes on.
StreamIsOver(c) ==
    /\ Running(c)
    /\ conns[c].receiver = "on"
    /\ Set(c, [conns[c] EXCEPT !.receiver = "over"])

ReceiverStops(c) ==
    /\ Running(c)
    /\ conns[c].receiver = "on" /\ conns[c].cancelled
    /\ Set(c, [conns[c] EXCEPT !.receiver = "over"])

-----------------------------------------------------------------------------

CsTrafficNext ==
    \/ Choose \/ ConnectThrows \/ Connected \/ RunReturns \/ Quit \/ CancelKeyPress
    \/ \E c \in Clients : \/ TunToServer(c) \/ SenderStops(c)
                          \/ ServerToTun(c) \/ StreamIsOver(c) \/ ReceiverStops(c)

CsTrafficSpec == CsTrafficInit /\ [][CsTrafficNext]_csVars

\* A loop that is cancelled ends: its awaits all take the token.
CsTrafficFairness ==
    \A c \in Clients : WF_csVars(SenderStops(c)) /\ WF_csVars(ReceiverStops(c))

-----------------------------------------------------------------------------
(* Properties.                                                             *)

LoopStates == {"off", "on", "over"}

Connection ==
    [cancelled : BOOLEAN, tun : {"none", "real", "stub"},
     sender : LoopStates, receiver : LoopStates,
     sendCounter : Nat, sealed : Seq(Nat),
     pos : Nat, opened : Seq(Nat), ragged : BOOLEAN]

CsTrafficTypeOK ==
    /\ at \in {"menu", "connecting", "running", "ended"}
    /\ clients \in 0..MaxClients /\ pressed \in 0..MaxClients
    /\ conns \in [Clients -> Connection]

Rises(s) == \A m, n \in DOMAIN s : m < n => s[m] < s[n]

\* No two packets that the client seals on a connection have the same nonce,
\* whatever writes fail in between (PacketEncryption.cs:37; VpnClient.cs:
\* 210-226). The key also serves the far end, of whose packets nothing is said.
NonceOnce == \A c \in Clients : Rises(conns[c].sealed)

\* A frame goes to the TUN device at most once and never after a later one,
\* although nobody compares counters, wherever the stream is cut or joined
\* (VpnClient.cs:239-253, PacketEncryption.cs:75-128).
FramesRise == \A c \in Clients : Rises(conns[c].opened)

\* Frames are lost only where reads and frames differ: as long as every read
\* returned one whole frame, every frame read was opened (VpnClient.cs:239-247).
WholeFramesKept ==
    \A c \in Clients :
        LET conn == conns[c]
        IN  ~conn.ragged =>
              /\ conn.pos = Len(conn.opened) * Frame
              /\ \A n \in DOMAIN conn.opened : conn.opened[n] = n - 1

\* Ctrl+C ends both loops of every connection made before, those included
\* whose RunAsync returned long ago (Program.cs:146-151, VpnClient.cs:197-271).
InterruptEndsLoops ==
    \A c \in Clients :
        pressed >= c ~> at = "ended" \/ (conns[c].sender # "on" /\ conns[c].receiver # "on")
=============================================================================

----------------------------- MODULE RpcServer -----------------------------
(***************************************************************************)
(* The daemon's control socket (native/agentseatd.c, run_server and        *)
(* client_read): one request for each connection, read and answered by    *)
(* a single thread that polls MAX_CLIENTS slots and accepts a few          *)
(* connections at the end of a turn.  Peers connect, send, wait or leave   *)
(* at any time.  Of what requests do, only what the Stop button of the     *)
(* HUD shows is kept: whether there is a seat and whether it is paused.    *)
(* The rest of a turn is in ControlGate, Operations and Capture.           *)
(*                                                                         *)
(* Definitions headed "Mistake" are not part of the specification: each is *)
(* the definition that follows it as a plausible slip would leave it.      *)
(***************************************************************************)
EXTENDS Naturals, SequencesExt

CONSTANTS
    MaxClients,      \* MAX_CLIENTS
    AcceptBatch,     \* connections accepted in a turn
    MaxConnections,  \* bound: connections at a time
    OtherMethods     \* what peers other than the HUD ask for

Writes == {"seat.create", "seat.destroy", "seat.pause", "seat.resume", "shutdown"}
Methods == Writes \cup {"collaboration.status"}

ASSUME ServerAssumption ==
    /\ MaxClients \in Nat \ {0}
    /\ AcceptBatch \in Nat \ {0}
    /\ MaxConnections \in Nat \ {0}
    /\ OtherMethods \subseteq Methods

VARIABLES
    conns,     \* the connections, as their peers see them
    backlog,   \* those not accepted yet, in their order
    clients,   \* the slots
    turn,      \* where the loop stands
    ready,     \* slots that poll found readable or writable, to be served
    pending,   \* poll found the listening socket readable
    quit,      \* state->quit
    seat,      \* state->created and state->paused
    fresh      \* ghost: since the HUD's last look the seat changed only by what the
               \* HUD was answered, not by others or what it no longer waited for

loopVars == <<turn, ready, pending>>
seatVars == <<quit, seat, fresh>>
serverVars == <<conns, backlog, clients, loopVars, seatVars>>

Slots == 1..MaxClients
Connections == 1..MaxConnections

None == [kind |-> "none"]
Absent == [peer |-> "none"]
Opened == {c \in Connections : conns[c] # Absent}

NoClient == [conn |-> 0, response |-> None]
NewClient(c) == [NoClient EXCEPT !.conn = c]

Held(c) == c \in ToSet(backlog) \/ \E i \in Slots : clients[i].conn = c

\* Waiting, accepted or not: its request has not been carried out.
Unheard(c) == Held(c) /\ \A i \in Slots : clients[i].conn = c => clients[i].response = None

----------------------------------------------------------------------------
(* The peers.                                                              *)

\* A connection and what is sent at once, which need not be the whole request.
\* Which of the methods in asks it is shows when it is carried out.
Connect(c, peer, asks, whole) ==
    /\ turn # "over"
    /\ Connections \ Opened # {} /\ c = Min(Connections \ Opened)
    /\ conns' = [conns EXCEPT ![c] = [peer |-> peer, asks |-> asks, whole |-> whole,
                                      left |-> FALSE, reply |-> None]]
    /\ backlog' = Append(backlog, c)

SendRest(c) ==
    /\ c \in Opened
    /\ Held(c)
    /\ ~conns[c].whole
    /\ ~conns[c].left
    /\ conns' = [conns EXCEPT ![c].whole = TRUE]
    /\ UNCHANGED <<backlog, clients, loopVars, seatVars>>

\* What the peer of a connection that the daemon closed has of it: the HUD still
\* looks, nobody else is followed further.
Closed(c, response) ==
    IF conns[c].peer = "hud" /\ ~conns[c].left THEN [conns[c] EXCEPT !.reply = response]
    ELSE Absent

ClosedUnanswered(these) ==
    conns' = [c \in Connections |-> IF c \in these THEN Closed(c, None) ELSE conns[c]]

----------------------------------------------------------------------------
(* What a request does: response_for and dispatch.  The ledger's refusal   *)
(* of numbers that do not increase (RequestLedger) is left out: what is    *)
(* shown here holds without its help.                                      *)

SeatAfter(method) ==
    CASE method = "seat.create" -> IF seat.created THEN seat
                                   ELSE [created |-> TRUE, paused |-> FALSE]
      [] method \in {"seat.destroy", "shutdown"} -> [created |-> FALSE, paused |-> TRUE]
      [] method = "seat.pause" -> [seat EXCEPT !.paused = TRUE]
      [] method = "seat.resume" -> [seat EXCEPT !.paused = FALSE]
      [] OTHER -> seat

\* require_created.
Accepted(method) == method \in {"seat.pause", "seat.resume"} => seat.created

Response(method) ==
    IF method = "collaboration.status" THEN [kind |-> "status", paused |-> seat.paused]
    ELSE [kind |-> "other"]

Execute(c, method) ==
    /\ seat' = IF Accepted(method) THEN SeatAfter(method) ELSE seat
    /\ quit' = (quit \/ method = "shutdown")
    /\ fresh' = IF conns[c].peer = "hud" /\ ~conns[c].left
                THEN fresh \/ method = "collaboration.status"
                ELSE fresh /\ seat' = seat

----------------------------------------------------------------------------
(* The loop.                                                               *)

Used(i) == clients[i].conn # 0
Peer(i) == conns[clients[i].conn]
Answered(i) == clients[i].response # None

\* Mistake: only requests have a deadline, responses wait for their readers.
ExpiredUnanswered(i, late) == ~Answered(i) /\ (i \in late \/ quit)

Expired(i, late) == i \in late \/ (quit /\ ~Answered(i))

\* A signal, or the end of the micro-host.
Break ==
    /\ turn = "poll"
    /\ turn' = "over"
    /\ clients' = [i \in Slots |-> NoClient]
    /\ backlog' = <<>>
    /\ ClosedUnanswered({c \in Connections : Held(c)})
    /\ UNCHANGED <<ready, pending, seatVars>>

\* A part of a request wakes the loop and changes nothing.  Whose response did
\* not fit at once is written to again when its peer has gone; that it reads on,
\* and so ends as it would have, is the same to the daemon.
Readable(i) == Used(i) /\ ~Answered(i) /\ (Peer(i).whole \/ Peer(i).left)
Writable(i) == Used(i) /\ Answered(i) /\ Peer(i).left
Pollable == {i \in Slots : Readable(i) \/ Writable(i)}

\* What poll returns for in the end, at the latest when the next deadline comes;
\* it may at any time for the daemon's other descriptors.
Due == (~quit /\ backlog # <<>>) \/ \E i \in Slots : Used(i)

Poll ==
    /\ turn = "poll"
    /\ turn' = "serve"
    /\ ready' = Pollable
    /\ pending' = (~quit /\ backlog # <<>>)
    /\ UNCHANGED <<conns, backlog, clients, seatVars>>

\* client_write: the peer is gone, or takes it all (the HUD's are short), or so
\* much that the rest must wait.
Write(i, response) ==
    LET c == clients[i].conn IN
    \/ /\ clients' = [clients EXCEPT ![i] = NoClient]
       /\ conns' = [conns EXCEPT ![c] = Closed(c, response)]
    \/ /\ conns[c].peer # "hud" /\ ~conns[c].left
       /\ clients' = [clients EXCEPT ![i].response = response]
       /\ UNCHANGED conns

\* client_read, the connection having ended before the line feed: nothing is
\* executed.
HangUp(i) ==
    /\ clients' = [clients EXCEPT ![i] = NoClient]
    /\ conns' = [conns EXCEPT ![clients[i].conn] = Closed(clients[i].conn, None)]
    /\ UNCHANGED seatVars

\* Slots are served in the order of their numbers.
Serve ==
    /\ turn = "serve"
    /\ ready # {}
    /\ LET i == Min(ready)
           c == clients[i].conn
       IN /\ ready' = ready \ {i}
          /\ \/ Answered(i) /\ Write(i, clients[i].response) /\ UNCHANGED seatVars
             \/ ~Answered(i) /\ ~conns[c].whole /\ HangUp(i)
             \/ /\ ~Answered(i) /\ conns[c].whole
                /\ \E method \in conns[c].asks : Execute(c, method) /\ Write(i, Response(method))
    /\ UNCHANGED <<backlog, turn, pending>>

FreeSlots == {i \in Slots : ~Used(i)}

\* Accepted connections go to the first slots that are free: which of them slot
\* i is for.
Place(i) == Cardinality({j \in FreeSlots : j <= i})

\* The end of a turn and the top of the next one.  As many connections are
\* accepted as a turn may, and those that find no slot closed unheard.  Then
\* those that are late, a second after they were accepted or their response was
\* made, are closed, and in a daemon that is to stop whoever has no response
\* yet; it stops when nobody is left.
EndTurn(late) ==
    LET size == IF pending /\ ~quit THEN Min({AcceptBatch, Len(backlog)}) ELSE 0
        seated == Min({size, Cardinality(FreeSlots)})
        dropped == {i \in Slots : Used(i) /\ Expired(i, late)}
        ends == quit /\ \A i \in Slots : Used(i) => i \in dropped
    IN
    /\ turn = "serve"
    /\ ready = {}
    /\ turn' = IF ends THEN "over" ELSE "poll"
    /\ clients' = [i \in Slots |->
           CASE i \in dropped -> NoClient
             [] i \in FreeSlots /\ Place(i) <= seated -> NewClient(backlog[Place(i)])
             [] OTHER -> clients[i]]
    /\ backlog' = IF ends THEN <<>> ELSE SubSeq(backlog, size + 1, Len(backlog))
    /\ ClosedUnanswered({clients[i].conn : i \in dropped}
                        \cup {backlog[n] : n \in seated + 1 .. IF ends THEN Len(backlog) ELSE size})
    /\ pending' = FALSE
    /\ UNCHANGED <<ready, seatVars>>

----------------------------------------------------------------------------

ServerInit ==
    /\ conns = [c \in Connections |-> Absent]
    /\ backlog = <<>>
    /\ clients = [i \in Slots |-> NoClient]
    /\ turn = "poll" /\ ready = {} /\ pending = FALSE
    /\ quit = FALSE /\ fresh = FALSE
    /\ seat \in {[created |-> b, paused |-> ~b] : b \in BOOLEAN}

ServerTypeOK ==
    /\ \A c \in Opened :
           /\ conns[c].peer = "hud" \/ Held(c)
           /\ conns[c].reply.kind \in {"none", "status", "other"}
    /\ ToSet(backlog) \subseteq Opened
    /\ \A i \in Slots : clients[i].conn \in {0} \cup Opened
    /\ turn \in {"poll", "serve", "over"}
    /\ ready \subseteq Slots
    /\ quit \in BOOLEAN /\ fresh \in BOOLEAN
    /\ seat.paused \/ seat.created
=============================================================================

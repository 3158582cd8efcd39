-------------------------------- MODULE Hud --------------------------------
(***************************************************************************)
(* The HUD (native/agentseat-eye.c) and others at the daemon's control     *)
(* socket.  The HUD is one thread that waits 180 ms for each answer: it    *)
(* asks for the state every 300 ms, shows a Stop or a Continue button      *)
(* accordingly, and asks again after each click.  It connects before it    *)
(* writes a request, so that the daemon may accept it and find nothing.    *)
(* An answer it did not wait for may still be given, a request it gave up  *)
(* still carried out.                                                      *)
(* Others (the command line, the SDK) come, ask, leave, or neither finish  *)
(* their request nor take their response.                                  *)
(*                                                                         *)
(* Definitions headed "Mistake" are not part of the specification: each is *)
(* the definition that follows it as a plausible slip would leave it.      *)
(***************************************************************************)
EXTENDS RpcServer

VARIABLE hud  \* app_state.control_known, .seat_paused, and the call it waits in

vars == <<serverVars, hud>>

\* rpc_call, up to its connect: the request is built and written next, in
\* pieces, the last of which is a SendRest.
Call(method, doing) ==
    /\ \E c \in Connections :
           /\ Connect(c, "hud", {method}, FALSE)
           /\ hud' = [hud EXCEPT !.doing = doing, !.call = c]
    /\ UNCHANGED <<clients, loopVars, seatVars>>

\* poll_state, by its timer or after a click.
PollState ==
    /\ hud.doing \in {"idle", "clicked"}
    /\ Call("collaboration.status", "status")

\* Mistake: a button that is not known to show what is so can be clicked.
ControlClickedBlindly ==
    /\ hud.doing = "idle"
    /\ Call(IF hud.paused THEN "seat.resume" ELSE "seat.pause", "click")

\* control_clicked: the button does what it shows.
ControlClicked ==
    /\ hud.doing = "idle"
    /\ hud.known
    /\ Call(IF hud.paused THEN "seat.resume" ELSE "seat.pause", "click")

\* rpc_call returns with an answer, or without one: closed by the daemon, also
\* while it writes, or given up when 180 ms passed after it wrote.
Answer == conns[hud.call].reply
Unanswered == Answer = None /\ (conns[hud.call].whole \/ ~Held(hud.call))

\* The HUD's end is closed; the daemon's may stay for a while.
HungUpOn(c) == IF Held(c) THEN [conns EXCEPT ![c].left = TRUE] ELSE [conns EXCEPT ![c] = Absent]

\* Mistake: the state is not read after a click.
ClickReturnsUnread ==
    /\ hud.doing = "click"
    /\ Answer # None \/ Unanswered
    /\ hud' = [hud EXCEPT !.doing = "idle", !.call = 0]
    /\ conns' = HungUpOn(hud.call)
    /\ UNCHANGED <<backlog, clients, loopVars, seatVars>>

\* Whatever became of the click, the state is read next.
ClickReturns ==
    /\ hud.doing = "click"
    /\ Answer # None \/ Unanswered
    /\ hud' = [hud EXCEPT !.doing = "clicked", !.call = 0]
    /\ conns' = HungUpOn(hud.call)
    /\ UNCHANGED <<backlog, clients, loopVars, seatVars>>

StatusReturns ==
    /\ hud.doing = "status"
    /\ Answer # None
    /\ hud' = [hud EXCEPT !.doing = "idle", !.call = 0, !.known = TRUE, !.paused = Answer.paused]
    /\ conns' = HungUpOn(hud.call)
    /\ UNCHANGED <<backlog, clients, loopVars, seatVars>>

\* The button cannot be used until the daemon answers again.
StatusFails ==
    /\ hud.doing = "status"
    /\ Unanswered
    /\ hud' = [hud EXCEPT !.doing = "idle", !.call = 0, !.known = FALSE, !.paused = FALSE]
    /\ conns' = HungUpOn(hud.call)
    /\ UNCHANGED <<backlog, clients, loopVars, seatVars>>

----------------------------------------------------------------------------
(* The others.                                                             *)

OtherConnects ==
    /\ \E c \in Connections, whole \in BOOLEAN : Connect(c, "other", OtherMethods, whole)
    /\ UNCHANGED <<clients, loopVars, seatVars, hud>>

OtherLeaves ==
    /\ \E c \in Opened :
           /\ conns[c].peer = "other" /\ ~conns[c].left
           /\ conns[c].whole => ~Unheard(c)
           /\ conns' = [conns EXCEPT ![c].left = TRUE]
    /\ UNCHANGED <<backlog, clients, loopVars, seatVars, hud>>

----------------------------------------------------------------------------

Init ==
    /\ ServerInit
    /\ hud = [known |-> FALSE, paused |-> FALSE, doing |-> "idle", call |-> 0]

Turn(late) == EndTurn(late) /\ UNCHANGED hud
Loop == \/ Serve /\ UNCHANGED hud
        \/ \E late \in SUBSET {i \in Slots : Used(i)} : Turn(late)
Woken == Poll /\ UNCHANGED hud
Lapses(i) == \E late \in SUBSET {j \in Slots : Used(j)} : i \in late /\ Turn(late)
Sending == (\E c \in Connections : SendRest(c)) /\ UNCHANGED hud

Next ==
    \/ Loop
    \/ Woken
    \/ Break /\ UNCHANGED hud
    \/ Sending
    \/ PollState \/ ControlClicked \/ ClickReturns \/ StatusReturns \/ StatusFails
    \/ OtherConnects \/ OtherLeaves

Spec == Init /\ [][Next]_vars

\* The loop goes on, poll returns for what it waits for, and a client's second
\* passes sooner or later while turns go by.  Nothing is asked of any peer.
FairSpec ==
    /\ Spec
    /\ WF_vars(Loop)
    /\ WF_vars(Due /\ Woken)
    /\ \A i \in Slots : SF_vars(Lapses(i))

----------------------------------------------------------------------------

\* A click of the HUD that the daemon may still carry out.
ClickUnderWay(c) == conns[c].peer = "hud" /\ conns[c].asks # {"collaboration.status"} /\ Unheard(c)

\* The daemon is about to carry it out: poll found its slot readable.
Imminent(c) ==
    /\ turn = "serve" /\ conns[c].whole
    /\ \E i \in ready : clients[i].conn = c

\* Whenever the button can be clicked it shows what a click would change: a click
\* that the HUD gave up is carried out before this turn of the daemon ends if it
\* ever is, however late the daemon was and whoever took the slots meanwhile, and
\* the seat is paused exactly if the button says so, unless such a click or
\* somebody else changed it since (native/agentseat-eye.c, control_clicked and
\* poll_state; native/agentseatd.c, run_server).
ButtonTellsTheTruth ==
    /\ ServerTypeOK
    /\ hud.doing = "idle" /\ hud.known /\ turn # "over" =>
        /\ \A c \in Opened : ClickUnderWay(c) => Imminent(c)
        /\ fresh => hud.paused = seat.paused

\* Clicks take effect in the order they were made, though the daemon serves its
\* slots by their numbers and accepts into the first that is free: of two that
\* are under way one is carried out in this turn, the other not accepted yet
\* (native/agentseat-eye.c, control_clicked; native/agentseatd.c, run_server).
ClicksInOrder ==
    \A c, d \in Opened :
        ClickUnderWay(c) /\ ClickUnderWay(d) /\ c # d =>
            \/ Imminent(c) /\ d \in ToSet(backlog)
            \/ Imminent(d) /\ c \in ToSet(backlog)

\* What control_clicked says of the look after a click: it reads the state that
\* results, so that no click is still to come when the button can be used again
\* (native/agentseat-eye.c, control_clicked).
ResultingStateRead ==
    hud.doing = "idle" /\ hud.known /\ turn # "over" =>
        \A c \in Opened : ~ClickUnderWay(c)

\* Every connection ends, accepted or not, and a daemon that was told to stop
\* does: peers that send half a request, or never read their response, or keep
\* all slots taken cannot hold them (native/agentseatd.c, run_server).  Numbers
\* of connections are reused at once, so that any of them can stand for all.
ConnectionsEnd ==
    Held(1) \/ quit ~> ~Held(1) /\ (quit => turn = "over")
=============================================================================

------------------------------ MODULE MCEventLoops ------------------------------
(***************************************************************************)
(* The select and the poll server on the same clients, one of them per     *)
(* behaviour: api says which.  What poll() watches is kept in readfds.     *)
(***************************************************************************)
EXTENDS SelectServer, SequencesExt

CONSTANTS Talker, b1, b2, b3

\* What clients send: one of them three bytes, no two alike, or a NUL, and the
\* others one byte.
Messages(c) == IF c = Talker THEN {<<b1, b2, b3>>, <<Nul>>} ELSE {<<b1>>}

VARIABLES api, revents, fresh

P == INSTANCE PollServer WITH watched <- readfds

loopVars == <<vars, api, revents, fresh>>

MCInit ==
  \/ api = "select" /\ Init /\ revents = [fd \in Fds |-> FALSE] /\ fresh = None
  \/ api = "poll" /\ P!Init /\ tmpfds = {}

MCNext ==
  /\ UNCHANGED api
  /\ \/ api = "select" /\ Next /\ UNCHANGED <<revents, fresh>>
     \/ api = "poll" /\ P!Next /\ UNCHANGED tmpfds
  /\ \A c \in Clients : \E m \in Messages(c) : IsPrefix(sent'[c], m)

ServerTurn ==
  /\ ~killed
  /\ \/ api = "select" /\ ServerStep /\ UNCHANGED <<api, revents, fresh>>
     \/ api = "poll" /\ P!ServerStep /\ UNCHANGED <<api, tmpfds>>

\* The fairness of both servers.
MCSpec ==
  /\ MCInit /\ [][MCNext]_loopVars
  /\ WF_loopVars(ServerTurn)
  /\ \A c \in Clients :
       WF_loopVars(~killed /\ ClientRead(c) /\ UNCHANGED <<serverVars, api, revents, fresh>>)

(***************************************************************************)
(* The poll server calls a recv() that blocks only for a client accepted   *)
(* in the same scan (PollServer.tla).                                      *)
(***************************************************************************)
BlocksOnlyOnFresh == api = "poll" => P!BlocksOnlyOnFresh

(***************************************************************************)
(* The select server serves everyone (SelectServer.tla).                   *)
(***************************************************************************)
SelectServes == api = "select" => Served

(***************************************************************************)
(* The poll server leaves nothing undone (PollServer.tla).                 *)
(***************************************************************************)
PollDrains == api = "poll" => P!DrainsWhenAllHangUp
================================================================================

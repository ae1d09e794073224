------------------------------- MODULE Control -------------------------------
(***************************************************************************)
(* The control record every runtime of AmBot shares: the socket the ARexx  *)
(* commands write to and the four request flags the operations raise and   *)
(* the main loops consume (src/src/operations.c).  The operations are pure *)
(* functions of the record, so they are operators here; the modules that   *)
(* own a control record apply them in their actions.                       *)
(*                                                                         *)
(* `connected` of the C struct is not a field: ambot_control_set_socket is *)
(* its only writer after the memset of ambot_control_init and always       *)
(* assigns (sock >= 0), so it is the operator Connected below.             *)
(***************************************************************************)

CONSTANTS Fds,      \* the socket descriptors bsdsocket.library can hand out
          NoSock    \* the -1 of the code: no socket

ASSUME NoSockAssumption == NoSock \notin Fds

Sock == Fds \cup {NoSock}

ControlRecord == [sock       : Sock,
                  connect    : BOOLEAN,     \* connect_requested
                  disconnect : BOOLEAN,     \* disconnect_requested
                  quit       : BOOLEAN,     \* quit_requested
                  reload     : BOOLEAN]     \* reload_requested

Connected(c) == c.sock # NoSock

ControlInit == [sock |-> NoSock, connect |-> TRUE, disconnect |-> FALSE,
                quit |-> FALSE, reload |-> FALSE]

(* Mutant: an attached socket is not detached.                              *)
SetSocketOnce(c, s) ==
  [c EXCEPT !.sock = IF @ = NoSock THEN s ELSE @, !.connect = @ /\ s = NoSock]

(* Attaching a socket satisfies a pending connect request; detaching one    *)
(* leaves every request as it is.                                           *)
SetSocket(c, s) ==
  [c EXCEPT !.sock = s, !.connect = @ /\ s = NoSock]

(* CONNECT is refused ("ALREADY CONNECTED") while a socket is attached.     *)
OpConnect(c) ==
  IF Connected(c) THEN c
                  ELSE [c EXCEPT !.connect = TRUE, !.disconnect = FALSE]

OpDisconnect(c) == [c EXCEPT !.disconnect = TRUE, !.connect = FALSE]

OpReload(c) == [c EXCEPT !.reload = TRUE]

OpQuit(c) == [c EXCEPT !.quit = TRUE, !.disconnect = TRUE, !.connect = FALSE]

(* STATUS, the commands that only send a line (RAW, JOIN, MSG, ...) and the *)
(* rejected ones leave the record alone: they are "SEND" here.              *)
Command == {"CONNECT", "DISCONNECT", "RELOAD", "QUIT", "SEND"}

(* The record after the ARexx host has executed one command.                *)
Dispatch(c, command) ==
  CASE command = "CONNECT"    -> OpConnect(c)
    [] command = "DISCONNECT" -> OpDisconnect(c)
    [] command = "RELOAD"     -> OpReload(c)
    [] command = "QUIT"       -> OpQuit(c)
    [] command = "SEND"       -> c

=============================================================================

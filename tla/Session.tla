------------------------------- MODULE Session -------------------------------
(***************************************************************************)
(* The single-network runtime: the main loop of ambot_session_run, the     *)
(* connected session and the reconnect delay (src/src/session.c), with the *)
(* lifecycle and event hooks they run and the ARexx commands that reach    *)
(* the control record while they do.                                       *)
(*                                                                         *)
(* One action is one stretch of code between two points where something    *)
(* outside gets a say: the TCP stack, an ARexx client, a hook script.      *)
(* Abstracted: the text on the connection.  The data of one recv may run   *)
(* any number of hooks; Receive looks inside.                              *)
(***************************************************************************)
EXTENDS Control, Integers

CONSTANTS MaxBackoff,   \* AMBOT_RECONNECT_MAX_SECONDS
          Clients,      \* the commands ARexx clients and hooks send
          Nicks         \* the nicks a configuration file may name

ASSUME SessionAssumption ==
  /\ MaxBackoff \in Nat \ {0}
  /\ Clients \subseteq Command
  /\ Nicks # {}

VARIABLES
  pc,        \* where the task is
  ctl,       \* the control record
  sock,      \* the socket of ambot_session_run
  lost,      \* session_rc # 0: the session ended by an error
  backoff,   \* seconds before the next attempt
  wake,      \* what the last WaitSelect returned
  nick,      \* config.nick, which commands.bot_nick points to
  path,      \* a configuration file is active
  open,      \* the descriptors open in bsdsocket.library
  brk,       \* a Ctrl-C signal is pending
  tries,     \* history: delays since the last connection, up to MaxBackoff
  announced, \* history: ON_CONNECT has run with no ON_DISCONNECT since
  reason,    \* history: the reason given to the last ON_DISCONNECT
  regNick    \* history: the nick the server knows the bot by

history == <<tries, announced, reason, regNick>>
vars == <<pc, ctl, sock, lost, backoff, wake, nick, path, open, brk, history>>

Attached == {"onconnect", "register", "session", "waiting", "rexx", "woken",
             "dispatch"}
Location == Attached \cup {"top", "poll", "connecting", "ended",
                           "ondisconnect", "delay", "done"}
Reason   == {"none", "requested", "stopped", "connection-lost", "disconnected"}
IoResult == {"none", "readable", "error"}
Quiet    == [brk |-> FALSE, io |-> "none"]

Init ==
  /\ pc = "top" /\ ctl = ControlInit /\ sock = NoSock
  /\ lost = FALSE /\ backoff = 1 /\ wake = Quiet
  /\ nick \in Nicks /\ path \in BOOLEAN
  /\ open = {} /\ brk = FALSE
  /\ tries = 0 /\ announced = FALSE /\ reason = "none" /\ regNick = nick

-----------------------------------------------------------------------------
(* ambot_rexx_process, or the wait for a hook: one command is executed.    *)
Execute(place) ==
  /\ pc = place
  /\ \E command \in Clients : ctl' = Dispatch(ctl, command)
  /\ UNCHANGED <<pc, sock, lost, backoff, wake, nick, path, open, brk, history>>

PollCommand      == Execute("poll")
DelayCommand     == Execute("delay")
SessionCommand   == Execute("rexx")
OnConnectHook    == Execute("onconnect")
EventHook        == Execute("dispatch")
OnDisconnectHook == Execute("ondisconnect")

(* process_reload: a pending request is taken up, and the configuration     *)
(* file, if there is one and it can be read, may name another nick.         *)
ProcessReload ==
  IF ctl.reload
    THEN /\ ctl' = [ctl EXCEPT !.reload = FALSE]
         /\ \/ path /\ nick' \in Nicks
            \/ nick' = nick
    ELSE UNCHANGED <<ctl, nick>>

-----------------------------------------------------------------------------
(* The main loop                                                           *)

Finish ==
  /\ pc = "top" /\ (brk \/ ctl.quit)
  /\ pc' = "done"
  /\ ctl' = SetSocket(ctl, NoSock)
  /\ UNCHANGED <<sock, lost, backoff, wake, nick, path, open, brk, history>>

Poll ==
  /\ pc = "top" /\ ~brk /\ ~ctl.quit
  /\ pc' = "poll"
  /\ UNCHANGED <<ctl, sock, lost, backoff, wake, nick, path, open, brk,
                 history>>

(* Mutant: a reload starts the poll anew.                                   *)
PollDoneAnew ==
  /\ pc = "poll"
  /\ ProcessReload
  /\ pc' = IF ctl.connect /\ ~ctl.reload THEN "connecting" ELSE "top"
  /\ UNCHANGED <<sock, lost, backoff, wake, path, open, brk, history>>

PollDone ==
  /\ pc = "poll"
  /\ ProcessReload
  /\ pc' = IF ctl.connect THEN "connecting" ELSE "top"
  /\ UNCHANGED <<sock, lost, backoff, wake, path, open, brk, history>>

Connect(s) ==
  /\ pc = "connecting"
  /\ s \in Fds \ open
  /\ open' = open \cup {s} /\ sock' = s
  /\ backoff' = 1 /\ tries' = 0
  /\ ctl' = SetSocket(ctl, s)
  /\ announced' = TRUE
  /\ pc' = "onconnect"
  /\ UNCHANGED <<lost, wake, nick, path, brk, reason, regNick>>

ConnectFails ==
  /\ pc = "connecting"
  /\ pc' = "delay"
  /\ UNCHANGED <<ctl, sock, lost, backoff, wake, nick, path, open, brk,
                 history>>

-----------------------------------------------------------------------------
(* The connected session                                                   *)

(* The ON_CONNECT script is over; run_connected_session attaches the socket *)
(* again and withdraws a disconnect request before it registers.            *)
EnterSession ==
  /\ pc = "onconnect"
  /\ ctl' = [SetSocket(ctl, sock) EXCEPT !.disconnect = FALSE]
  /\ pc' = "register"
  /\ UNCHANGED <<sock, lost, backoff, wake, nick, path, open, brk, history>>

Register ==
  /\ pc = "register"
  /\ regNick' = nick
  /\ pc' = "session"
  /\ UNCHANGED <<ctl, sock, lost, backoff, wake, nick, path, open, brk, tries,
                 announced, reason>>

(* run_connected_session returns.                                           *)
Leave(error) ==
  /\ lost' = error /\ pc' = "ended"
  /\ wake' = Quiet
  /\ UNCHANGED <<sock, backoff, nick, path, open, brk, history>>

RegisterFails ==
  /\ pc = "register"
  /\ ctl' = SetSocket(ctl, NoSock)
  /\ Leave(TRUE)

SessionStops ==
  /\ pc = "session" /\ (brk \/ ctl.quit \/ ctl.disconnect)
  /\ ctl' = SetSocket(ctl, NoSock)
  /\ Leave(FALSE)

(* Mutant: the loop goes on although DISCONNECT was requested by a hook.     *)
SessionWaitsOn ==
  /\ pc = "session" /\ ~brk /\ ~ctl.quit
  /\ pc' = "waiting"
  /\ UNCHANGED <<ctl, sock, lost, backoff, wake, nick, path, open, brk,
                 history>>

SessionWaits ==
  /\ pc = "session" /\ ~brk /\ ~ctl.quit /\ ~ctl.disconnect
  /\ pc' = "waiting"
  /\ UNCHANGED <<ctl, sock, lost, backoff, wake, nick, path, open, brk,
                 history>>

(* ambot_net_wait returns: with the signals that arrived, which it clears,  *)
(* and with nothing, a readable socket, or an error.                        *)
Wake(rexx, io) ==
  /\ pc = "waiting"
  /\ rexx \/ brk \/ io # "none"
  /\ wake' = [brk |-> brk, io |-> io]
  /\ brk' = FALSE
  /\ pc' = IF rexx THEN "rexx" ELSE "woken"
  /\ UNCHANGED <<ctl, sock, lost, backoff, nick, path, open, history>>

SessionRexxDone ==
  /\ pc = "rexx"
  /\ ProcessReload
  /\ pc' = "woken"
  /\ UNCHANGED <<sock, lost, backoff, wake, path, open, brk, history>>

WokenByBreak ==
  /\ pc = "woken" /\ wake.brk
  /\ ctl' = SetSocket([ctl EXCEPT !.quit = TRUE], NoSock)
  /\ Leave(FALSE)

WokenToStop ==
  /\ pc = "woken" /\ ~wake.brk /\ (ctl.quit \/ ctl.disconnect)
  /\ ctl' = SetSocket(ctl, NoSock)
  /\ Leave(FALSE)

(* Mutant: a lost connection is looked at before Ctrl-C.                    *)
WokenByLossFirst ==
  /\ pc = "woken" /\ ~ctl.quit /\ ~ctl.disconnect
  /\ wake.io \in {"error", "readable"}
  /\ ctl' = SetSocket(ctl, NoSock)
  /\ Leave(TRUE)

(* The wait failed, or recv returned 0 or an error.                         *)
WokenByLoss ==
  /\ pc = "woken" /\ ~wake.brk /\ ~ctl.quit /\ ~ctl.disconnect
  /\ wake.io \in {"error", "readable"}
  /\ ctl' = SetSocket(ctl, NoSock)
  /\ Leave(TRUE)

WokenByData ==
  /\ pc = "woken" /\ ~wake.brk /\ ~ctl.quit /\ ~ctl.disconnect
  /\ wake.io = "readable"
  /\ pc' = "dispatch"
  /\ UNCHANGED <<ctl, sock, lost, backoff, wake, nick, path, open, brk,
                 history>>

(* Nothing but ARexx commands.                                              *)
WokenIdle ==
  /\ pc = "woken" /\ ~wake.brk /\ ~ctl.quit /\ ~ctl.disconnect
  /\ wake.io = "none"
  /\ pc' = "session" /\ wake' = Quiet
  /\ UNCHANGED <<ctl, sock, lost, backoff, nick, path, open, brk, history>>

DispatchDone ==
  /\ pc = "dispatch"
  /\ pc' = "session" /\ wake' = Quiet
  /\ UNCHANGED <<ctl, sock, lost, backoff, nick, path, open, brk, history>>

-----------------------------------------------------------------------------
(* The end of a session, and the delay                                     *)

(* Mutant: a pending Ctrl-C is not looked at.                               *)
DisconnectReasonDeaf ==
  IF ctl.disconnect  THEN "requested"
  ELSE IF ctl.quit   THEN "stopped"
  ELSE IF lost       THEN "connection-lost"
                     ELSE "disconnected"

DisconnectReason ==
  IF ctl.disconnect         THEN "requested"
  ELSE IF ctl.quit \/ brk   THEN "stopped"
  ELSE IF lost              THEN "connection-lost"
                            ELSE "disconnected"

(* Mutant: the descriptor is forgotten but not closed.                      *)
HangUpLazily == open' = open /\ sock' = NoSock

HangUp == open' = open \ {sock} /\ sock' = NoSock

CloseSession ==
  /\ pc = "ended"
  /\ HangUp
  /\ ctl' = SetSocket(ctl, NoSock)
  /\ reason' = DisconnectReason /\ announced' = FALSE
  /\ pc' = "ondisconnect"
  /\ UNCHANGED <<lost, backoff, wake, nick, path, brk, tries, regNick>>

(* What follows is decided anew once ON_DISCONNECT is over.                 *)
AfterStop ==
  /\ pc = "ondisconnect" /\ (ctl.quit \/ brk)
  /\ pc' = "done"
  /\ UNCHANGED <<ctl, sock, lost, backoff, wake, nick, path, open, brk,
                 history>>

AfterDisconnect ==
  /\ pc = "ondisconnect" /\ ~ctl.quit /\ ~brk /\ ctl.disconnect
  /\ ctl' = [ctl EXCEPT !.disconnect = FALSE, !.connect = FALSE]
  /\ pc' = "top"
  /\ UNCHANGED <<sock, lost, backoff, wake, nick, path, open, brk, history>>

AfterLoss ==
  /\ pc = "ondisconnect" /\ ~ctl.quit /\ ~brk /\ ~ctl.disconnect
  /\ ctl' = [ctl EXCEPT !.connect = TRUE]
  /\ pc' = "delay"
  /\ UNCHANGED <<sock, lost, backoff, wake, nick, path, open, brk, history>>

(* reconnect_delay polls the port and takes up reloads until its time is    *)
(* over or a request or Ctrl-C cuts it short.                               *)
DelayReload ==
  /\ pc = "delay" /\ ctl.reload
  /\ ProcessReload
  /\ UNCHANGED <<pc, sock, lost, backoff, wake, path, open, brk, history>>

(* Mutant: the last doubling is not done at all.                           *)
NextBackoffShort ==
  IF 2 * backoff > MaxBackoff THEN backoff ELSE 2 * backoff

NextBackoff ==
  IF backoff >= MaxBackoff THEN backoff
  ELSE IF 2 * backoff > MaxBackoff THEN MaxBackoff ELSE 2 * backoff

DelayOver ==
  /\ pc = "delay"
  /\ ProcessReload
  /\ backoff' = NextBackoff
  /\ tries' = IF tries < MaxBackoff THEN tries + 1 ELSE tries
  /\ pc' = "top"
  /\ UNCHANGED <<sock, lost, wake, path, open, brk, announced, reason, regNick>>

Break ==
  /\ pc # "done" /\ ~brk
  /\ brk' = TRUE
  /\ UNCHANGED <<pc, ctl, sock, lost, backoff, wake, nick, path, open, history>>

Program ==
  \/ Finish \/ Poll \/ PollDone
  \/ (\E s \in Fds : Connect(s)) \/ ConnectFails
  \/ EnterSession \/ Register \/ RegisterFails
  \/ SessionStops \/ SessionWaits \/ SessionRexxDone
  \/ WokenByBreak \/ WokenToStop \/ WokenByLoss \/ WokenByData \/ WokenIdle
  \/ DispatchDone
  \/ CloseSession \/ AfterStop \/ AfterDisconnect \/ AfterLoss \/ DelayOver

Commands ==
  \/ PollCommand \/ DelayCommand \/ SessionCommand
  \/ OnConnectHook \/ EventHook \/ OnDisconnectHook

Next ==
  \/ Program \/ Commands \/ DelayReload \/ Break
  \/ \E rexx \in BOOLEAN, io \in IoResult : Wake(rexx, io)
  \/ pc = "done" /\ UNCHANGED vars

Spec == Init /\ [][Next]_vars

(* The task takes its steps, hook scripts and delays end, and a wait ends   *)
(* when Ctrl-C is pending.  Nothing is assumed of the server, of the ARexx   *)
(* clients or of the user.                                                  *)
Fairness ==
  /\ WF_vars(Program)
  /\ WF_vars(brk /\ \E rexx \in BOOLEAN, io \in IoResult : Wake(rexx, io))

FairSpec == Spec /\ Fairness

-----------------------------------------------------------------------------
(* Safety                                                                  *)

TypeOK ==
  /\ pc \in Location
  /\ ctl \in ControlRecord
  /\ sock \in Sock /\ open \subseteq Fds
  /\ lost \in BOOLEAN /\ path \in BOOLEAN /\ brk \in BOOLEAN
  /\ backoff \in 1 .. MaxBackoff
  /\ wake \in [brk : BOOLEAN, io : IoResult]
  /\ nick \in Nicks /\ regNick \in Nicks
  /\ tries \in 0 .. MaxBackoff
  /\ announced \in BOOLEAN /\ reason \in Reason

(* Wherever a command can be executed, the control record holds the socket  *)
(* of the session, which is open, or none: MSG never writes to a closed     *)
(* descriptor, and CONNECT is refused exactly while there is a connection.  *)
ControlFollowsSocket ==
  pc \in {"poll", "onconnect", "rexx", "dispatch", "ondisconnect", "delay"} =>
    /\ ctl.sock = sock
    /\ Connected(ctl) => ctl.sock \in open

(* Every connection that ON_CONNECT announced is closed before the next one *)
(* is opened, and no descriptor outlives its ON_DISCONNECT.                 *)
AnnouncedOnce == open = IF announced THEN {sock} ELSE {}

(* ON_DISCONNECT is told why (docs/M5.md:28): "connection-lost" only when    *)
(* the session really failed, and never the vague "disconnected", because a *)
(* session that ends without an error leaves the request that ended it in   *)
(* the control record.                                                      *)
ReasonTruthful ==
  /\ reason # "disconnected"
  /\ pc = "ondisconnect" /\ reason = "connection-lost" => lost

(* The reconnect delays are 1, 2, 4, 8, 16 and then 30 seconds              *)
(* (docs/M1.md:15), counted since the last connection.                      *)
BackoffLaw ==
  backoff = IF 2 ^ tries > MaxBackoff THEN MaxBackoff ELSE 2 ^ tries

(* What a reply is addressed by, commands.bot_nick, is the nick the server   *)
(* knows the bot by: a new NICK takes effect on the next connection         *)
(* (docs/M6.md:21).                                                         *)
ReplyIdentity == pc = "dispatch" => nick = regNick

(* Where the socket is at each place of the program, and why a session that  *)
(* is over without an error is over: what the invariants above rest on.     *)
SessionState ==
  /\ sock # NoSock <=> pc \in Attached \cup {"ended"}
  /\ ctl.sock = IF pc \in Attached THEN sock ELSE NoSock
  /\ open = {sock} \ {NoSock}
  /\ announced <=> sock # NoSock
  /\ pc = "ended" /\ ~lost => brk \/ ctl.quit \/ ctl.disconnect

Inv == TypeOK /\ SessionState /\ ReasonTruthful

(* Once tries stops counting the delay has stopped growing, too.            *)
BackoffState == BackoffLaw /\ (tries < backoff \/ backoff = MaxBackoff)

(* A DISCONNECT is gone by this step for one of three reasons: CONNECT was   *)
(* executed; it was honoured, with the connection closed; or it was made    *)
(* while the ON_CONNECT script ran and the session begins, which is the one *)
(* place where run_connected_session clears it.                             *)
Withdrawn ==
  \/ pc' = pc /\ ctl'.connect
  \/ pc = "ondisconnect" /\ open = {}
  \/ pc = "onconnect" /\ pc' = "register"

(* No request is forgotten: a QUIT stays until the program has ended, and a *)
(* DISCONNECT until it is honoured, but for the cases of Withdrawn, however *)
(* reloads, hooks, lost connections and delays come in between.             *)
RequestsKept ==
  [][ /\ ctl.quit => ctl'.quit
      /\ ctl.disconnect /\ ~ctl'.disconnect => Withdrawn ]_vars

-----------------------------------------------------------------------------
(* Liveness                                                                *)

(* QUIT ends the program, from a client or from a hook, and so does Ctrl-C,  *)
(* whenever it is pressed (docs/M1.md:16).                                  *)
StopEnds == (ctl.quit \/ brk) ~> pc = "done"

(* DISCONNECT closes the connection, unless it is withdrawn; and            *)
(* RequestsKept says what can withdraw it.                                  *)
DisconnectCloses ==
  /\ ctl.disconnect ~> (open = {} \/ ~ctl.disconnect)
  /\ RequestsKept

(* A wanted connection is tried, unless the wish is withdrawn: no delay,     *)
(* reload or lost session forgets it.                                       *)
ConnectHappens ==
  ctl.connect ~> (pc \in {"connecting", "done"} \/ ~ctl.connect)
=============================================================================

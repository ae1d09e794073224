------------------------------ MODULE MultiNet ------------------------------
(***************************************************************************)
(* The multi-network runtime: ambot_multinet_run (src/src/multinet.c), the *)
(* loop that serves up to four IRC networks from one task with one         *)
(* WaitSelect, and its supervisor run_m7_networks (src/src/session.c),     *)
(* which builds the set from the configuration, and decides what follows   *)
(* when the loop returns.                                                  *)
(*                                                                         *)
(* One action is one stretch of code between two points where something    *)
(* outside the loop gets a say: a call to the TCP stack, an ARexx command, *)
(* a hook script.  ARexx commands run inside ambot_rexx_process and inside *)
(* the wait for a hook, so they change the control record only at pc       *)
(* "rexx", "feed", "idle", "stuck" and "pause".                            *)
(*                                                                         *)
(* Abstracted: what is said on a connection.  Received data either leaves  *)
(* the connection up (possibly after running hooks) or makes the CAP/SASL  *)
(* negotiation fail; ModernIrc says when.  The CONNECT_PERMANENT branches  *)
(* are left out: ambot_networks_from_config accepts only profiles that     *)
(* ambot_network_validate_security accepts, so they cannot be taken.       *)
(***************************************************************************)
EXTENDS Control, Integers, FiniteSets

CONSTANTS MaxNets,      \* AMBOT_NETWORKS_MAX
          MaxWait,      \* the longest retry delay: 30 seconds
          Clients,      \* the commands ARexx clients send
          WaitMayFail   \* whether WaitSelect can return an error

ASSUME MultiNetAssumption ==
  /\ MaxNets \in Nat \ {0}
  /\ MaxWait \in Nat \ {0}
  /\ Clients \subseteq Command
  /\ WaitMayFail \in BOOLEAN

Net == 1 .. MaxNets     \* network 1 is the runtimes[0] of the code

VARIABLES
  pc,           \* where the task is
  i,            \* the loop index of the passes over the networks
  valid,        \* how many valid networks the loaded configuration has
  count,        \* networks.count of the running set
  ctl,          \* the control record
  sock,         \* runtimes[].sock
  retryEnabled, \* runtimes[].retry_enabled
  retryWait,    \* runtimes[].retry_wait
  due,          \* seconds until runtimes[].retry_at, 0 once it has passed
  watched,      \* sockets[], what WaitSelect is given
  active,       \* networks believed to be connected
  retrying,     \* networks believed to wait for a retry
  wake,         \* what the last WaitSelect returned
  rc,           \* the last result of ambot_multinet_run
  open,         \* the descriptors open in bsdsocket.library
  brk,          \* a Ctrl-C signal is pending
  abandoned     \* history: descriptors left open by a loop that returned

runtime == <<sock, retryEnabled, retryWait, due>>
counters == <<active, retrying>>
table == <<open, abandoned>>
fleet == <<runtime, watched, counters>>
running == <<i, count, fleet, wake, table>>
frame == <<valid, count, rc, brk>>
vars == <<pc, valid, ctl, running, rc, brk>>

Running  == {"loop", "rexx", "woken", "retry", "ready", "feed"}
Waiting  == {"idle", "stuck", "pause"}
Location == Running \cup Waiting \cup {"build", "connect", "returned", "done"}
Result   == {"STOP", "RELOAD", "RECONNECT", "NO_RETRYABLE"}
Quiet    == [rexx |-> FALSE, brk |-> FALSE, fail |-> FALSE, ready |-> {}]

Init ==
  /\ pc = "build" /\ i = 1
  /\ valid \in 0 .. MaxNets /\ count = 0
  /\ ctl = ControlInit
  /\ sock = [n \in Net |-> NoSock]
  /\ retryEnabled = [n \in Net |-> FALSE]
  /\ retryWait = [n \in Net |-> 0]
  /\ due = [n \in Net |-> 0]
  /\ watched = [n \in Net |-> NoSock]
  /\ active = 0 /\ retrying = 0
  /\ wake = Quiet /\ rc = "STOP" /\ brk = FALSE
  /\ open = {} /\ abandoned = {}

-----------------------------------------------------------------------------
(* The supervisor                                                          *)

(* The configuration file is read again.  It either cannot be opened, and  *)
(* nothing changes, or brings any number of valid networks.                *)
Loads == valid' \in 0 .. MaxNets

(* A request to reload is taken up.                                        *)
TakeReload ==
  /\ ctl' = [ctl EXCEPT !.reload = FALSE]
  /\ pc' = "build"
  /\ UNCHANGED <<rc, brk, running>>

(* run_m7_networks returns and the program ends.  bsdsocket.library closes *)
(* whatever descriptors its user still has when it is closed.              *)
End ==
  /\ pc' = "done"
  /\ ctl' = SetSocket(ctl, NoSock)
  /\ open' = {} /\ abandoned' = {}
  /\ UNCHANGED <<count, rc, brk, i, fleet, wake>>

(* No valid network.                                                       *)
BuildNothing ==
  /\ pc = "build" /\ ~brk /\ ~ctl.quit
  /\ valid = 0
  /\ End
  /\ UNCHANGED valid

BuildSet ==
  /\ pc = "build" /\ ~brk /\ ~ctl.quit
  /\ valid > 0
  /\ count' = valid
  /\ ctl' = [ctl EXCEPT !.reload = FALSE, !.disconnect = FALSE,
                        !.connect = TRUE]
  /\ sock' = [n \in Net |-> NoSock]
  /\ retryEnabled' = [n \in Net |-> FALSE]
  /\ retryWait' = [n \in Net |-> 0]
  /\ due' = [n \in Net |-> 0]
  /\ watched' = [n \in Net |-> NoSock]
  /\ active' = 0 /\ retrying' = 0
  /\ i' = 1 /\ pc' = "connect"
  /\ UNCHANGED <<valid, rc, brk, wake, table>>

BuildStopped ==
  /\ pc = "build" /\ (brk \/ ctl.quit)
  /\ End
  /\ UNCHANGED valid

ReturnedStopped ==
  /\ pc = "returned" /\ (ctl.quit \/ brk)
  /\ End
  /\ UNCHANGED valid

(* RELOAD is tested before DISCONNECT; a file that cannot be read ends the *)
(* program here.                                                           *)
ReturnedReload ==
  /\ pc = "returned" /\ ~ctl.quit /\ ~brk
  /\ rc = "RELOAD"
  /\ Loads /\ TakeReload

ReturnedUnreadable ==
  /\ pc = "returned" /\ ~ctl.quit /\ ~brk
  /\ rc = "RELOAD"
  /\ End
  /\ UNCHANGED valid

ReturnedDisconnected ==
  /\ pc = "returned" /\ ~ctl.quit /\ ~brk
  /\ rc # "RELOAD" /\ ctl.disconnect
  /\ ctl' = [ctl EXCEPT !.disconnect = FALSE, !.connect = FALSE]
  /\ pc' = "idle"
  /\ UNCHANGED <<valid, rc, brk, running>>

ReturnedExhausted ==
  /\ pc = "returned" /\ ~ctl.quit /\ ~brk
  /\ rc = "NO_RETRYABLE" /\ ~ctl.disconnect
  /\ ctl' = [ctl EXCEPT !.connect = FALSE]
  /\ pc' = "stuck"
  /\ UNCHANGED <<valid, rc, brk, running>>

ReturnedReconnect ==
  /\ pc = "returned" /\ ~ctl.quit /\ ~brk
  /\ rc = "RECONNECT" /\ ~ctl.disconnect
  /\ pc' = "pause"
  /\ UNCHANGED <<valid, rc, brk, ctl, running>>

(* ambot_rexx_process executes one of the queued commands.                  *)
Execute(places) ==
  /\ pc \in places
  /\ \E command \in Clients : ctl' = Dispatch(ctl, command)
  /\ UNCHANGED <<valid, rc, brk, pc, running>>

(* The three waits poll the ARexx port every tenth of a second.            *)
WaitingCommand == Execute(Waiting)

(* Mutants: the waits do not look at QUIT, or not at Ctrl-C.                *)
AskedToConnect == ctl.connect \/ brk
AskedByCommand == ctl.connect \/ ctl.quit

Asked == ctl.connect \/ ctl.quit \/ brk

(* Mutant: a RELOAD ends this wait, too, as it ends the next one.            *)
IdleEndsByReload ==
  /\ pc = "idle" /\ (Asked \/ ctl.reload)
  /\ pc' = "build"
  /\ UNCHANGED <<valid, rc, brk, ctl, running>>

IdleEnds ==
  /\ pc = "idle" /\ Asked
  /\ pc' = "build"
  /\ UNCHANGED <<valid, rc, brk, ctl, running>>

StuckEnds ==
  /\ pc = "stuck" /\ ~ctl.reload /\ Asked
  /\ pc' = "build"
  /\ UNCHANGED <<valid, rc, brk, ctl, running>>

StuckReload ==
  /\ pc = "stuck" /\ ctl.reload
  /\ Loads /\ TakeReload

StuckUnreadable ==
  /\ pc = "stuck" /\ ctl.reload
  /\ End
  /\ UNCHANGED valid

(* Five seconds have passed, or a request or Ctrl-C cuts them short.       *)
PauseEnds ==
  /\ pc = "pause" /\ ~ctl.reload
  /\ pc' = "build"
  /\ UNCHANGED <<valid, rc, brk, ctl, running>>

(* Unlike the other two, this reload tolerates a file that cannot be read. *)
PauseReload ==
  /\ pc = "pause" /\ ctl.reload
  /\ Loads \/ UNCHANGED valid
  /\ TakeReload

-----------------------------------------------------------------------------
(* The connections                                                         *)

(* Mutant: a connection that cannot register is closed but not forgotten.   *)
ConnectRuntimeHeld(n, s) ==
  /\ s \in (Fds \ open) \cup {NoSock}
  /\ sock' = [sock EXCEPT ![n] = s]
  /\ UNCHANGED table

(* connect_runtime: resolving, connecting, starting the negotiation or     *)
(* registering may fail, and then no descriptor stays open.                *)
ConnectRuntime(n, s) ==
  /\ s \in (Fds \ open) \cup {NoSock}
  /\ sock' = [sock EXCEPT ![n] = s]
  /\ open' = open \cup ({s} \ {NoSock})
  /\ UNCHANGED abandoned

(* Mutant: a descriptor that is gone stays in the array.                    *)
WatchNew(n, s) ==
  watched' = IF s = NoSock THEN watched ELSE [watched EXCEPT ![n] = s]

Watch(n, s) == watched' = [watched EXCEPT ![n] = s]

(* Mutant: the control record is not told about later connections.          *)
TellNothing(n, s) == ctl' = ctl

(* The control record follows the first network.                            *)
Tell(n, s) == ctl' = IF n = 1 THEN SetSocket(ctl, s) ELSE ctl

(* Mutant: the delay is not stored.                                         *)
ScheduleRetryOnce(n, wait) ==
  /\ due' = [due EXCEPT ![n] = wait]
  /\ UNCHANGED retryWait

ScheduleRetry(n, wait) ==
  /\ retryWait' = [retryWait EXCEPT ![n] = wait]
  /\ due' = [due EXCEPT ![n] = wait]

(* Mutant: the network is not counted.                                      *)
EnableRetryUncounted(n) ==
  /\ retryEnabled' = [retryEnabled EXCEPT ![n] = TRUE]
  /\ ScheduleRetry(n, 1)
  /\ UNCHANGED retrying

EnableRetry(n) ==
  /\ retryEnabled' = [retryEnabled EXCEPT ![n] = TRUE]
  /\ ScheduleRetry(n, 1)
  /\ retrying' = retrying + 1

(* The first pass of a new set: every network is tried once.               *)
ConnectOne ==
  /\ pc = "connect" /\ i <= count
  /\ \E s \in Sock :
       /\ ConnectRuntime(i, s) /\ Watch(i, s)
       /\ IF s = NoSock
            THEN EnableRetry(i) /\ UNCHANGED active
            ELSE /\ active' = active + 1
                 /\ UNCHANGED <<retryEnabled, retryWait, due, retrying>>
  /\ i' = i + 1
  /\ UNCHANGED <<frame, pc, ctl, wake>>

ConnectDone ==
  /\ pc = "connect" /\ i > count
  /\ ctl' = IF sock[1] # NoSock THEN SetSocket(ctl, sock[1]) ELSE ctl
  /\ pc' = "loop" /\ i' = 1
  /\ UNCHANGED <<frame, fleet, wake, table>>

-----------------------------------------------------------------------------
(* The main loop                                                           *)

(* Mutant: the last network of the set is forgotten.                        *)
CloseAllButLast ==
  /\ open' = open \ {sock[n] : n \in 1 .. count - 1}
  /\ UNCHANGED <<count, fleet, abandoned>>

(* The orderly end: every connection is closed.  The runtimes are memset   *)
(* when the next set is built; nothing reads them before.                  *)
CloseAll ==
  /\ open' = open \ {sock[n] : n \in 1 .. count}
  /\ UNCHANGED <<count, fleet, abandoned>>

(* The loop returns without closing anything.                               *)
LeaveOpen ==
  /\ abandoned' = abandoned \cup ({sock[n] : n \in 1 .. count} \ {NoSock})
  /\ UNCHANGED <<count, fleet, open>>

(* ambot_multinet_run returns; its locals are gone.                         *)
Return(result) ==
  /\ rc' = result /\ pc' = "returned"
  /\ i' = 1 /\ wake' = Quiet
  /\ UNCHANGED <<valid, brk>>

LoopStops ==
  /\ pc = "loop" /\ (ctl.quit \/ ctl.disconnect)
  /\ CloseAll
  /\ ctl' = SetSocket(ctl, NoSock)
  /\ Return("STOP")

(* Mutant: networks that wait for a retry are given up.                     *)
NoneActive == active = 0

NoneLeft == active = 0 /\ retrying = 0

LoopExhausted ==
  /\ pc = "loop" /\ ~ctl.quit /\ ~ctl.disconnect
  /\ NoneLeft
  /\ Return("NO_RETRYABLE")
  /\ UNCHANGED <<count, ctl, fleet, table>>

(* WaitSelect returns: signals arrived (and are cleared), descriptors are   *)
(* readable, the second of a timed wait is over, or the call failed.  Only  *)
(* while a retry is scheduled is the wait timed; time passes in seconds.    *)
Wake(elapsed) ==
  /\ pc = "loop" /\ ~ctl.quit /\ ~ctl.disconnect
  /\ active > 0 \/ retrying > 0
  /\ elapsed > 0 => retrying > 0
  /\ \E r \in BOOLEAN, f \in BOOLEAN,
        ready \in SUBSET {n \in 1 .. count : watched[n] # NoSock} :
       /\ r => Clients # {}
       /\ f => WaitMayFail /\ ready = {}
       /\ r \/ brk \/ f \/ ready # {} \/ elapsed > 0
       /\ wake' = [rexx |-> r, brk |-> brk, fail |-> f, ready |-> ready]
       /\ pc' = IF r THEN "rexx" ELSE "woken"
  /\ brk' = FALSE
  /\ due' = [n \in Net |-> IF due[n] > elapsed THEN due[n] - elapsed ELSE 0]
  /\ UNCHANGED <<valid, count, rc, ctl, i, sock, retryEnabled, retryWait,
                 watched, counters, table>>

(* ambot_rexx_process: the commands queued at the port, one by one.         *)
RexxCommand == Execute({"rexx"})

RexxDone ==
  /\ pc = "rexx" /\ ~ctl.reload
  /\ pc' = "woken"
  /\ UNCHANGED <<valid, rc, brk, ctl, running>>

(* A reload returns at once: the sockets of the set stay open.              *)
RexxReload ==
  /\ pc = "rexx" /\ ctl.reload
  /\ LeaveOpen
  /\ Return("RELOAD")
  /\ UNCHANGED ctl

WokenByBreak ==
  /\ pc = "woken" /\ wake.brk
  /\ CloseAll
  /\ ctl' = SetSocket([ctl EXCEPT !.quit = TRUE], NoSock)
  /\ Return("STOP")

(* So does a failed wait.                                                   *)
WokenByFailure ==
  /\ pc = "woken" /\ ~wake.brk /\ wake.fail
  /\ LeaveOpen
  /\ Return("RECONNECT")
  /\ UNCHANGED ctl

WokenToServe ==
  /\ pc = "woken" /\ ~wake.brk /\ ~wake.fail
  /\ i' = 1
  /\ pc' = IF retrying > 0 THEN "retry" ELSE "ready"
  /\ UNCHANGED <<frame, ctl, fleet, wake, table>>

RetryDue(n) == retryEnabled[n] /\ due[n] = 0

RetrySkipped ==
  /\ pc = "retry" /\ i <= count /\ ~RetryDue(i)
  /\ i' = i + 1
  /\ UNCHANGED <<frame, pc, ctl, fleet, wake, table>>

RetryConnects ==
  /\ pc = "retry" /\ i <= count /\ RetryDue(i)
  /\ \E s \in Fds :
       /\ ConnectRuntime(i, s) /\ Watch(i, s) /\ Tell(i, s)
  /\ retryEnabled' = [retryEnabled EXCEPT ![i] = FALSE]
  /\ active' = active + 1 /\ retrying' = retrying - 1
  /\ i' = i + 1
  /\ UNCHANGED <<frame, pc, retryWait, due, wake>>

(* Mutant: the delay is not capped.                                         *)
NextWaitUncapped(wait) == 2 * wait

NextWait(wait) == IF 2 * wait > MaxWait THEN MaxWait ELSE 2 * wait

RetryFails ==
  /\ pc = "retry" /\ i <= count /\ RetryDue(i)
  /\ ConnectRuntime(i, NoSock)
  /\ ScheduleRetry(i, NextWait(retryWait[i]))
  /\ i' = i + 1
  /\ UNCHANGED <<frame, pc, ctl, retryEnabled, watched, counters, wake>>

RetryDone ==
  /\ pc = "retry" /\ i > count
  /\ i' = 1 /\ pc' = "ready"
  /\ UNCHANGED <<frame, ctl, fleet, wake, table>>

Readable(n) == n \in wake.ready /\ sock[n] # NoSock

ReadySkipped ==
  /\ pc = "ready" /\ i <= count /\ ~Readable(i)
  /\ i' = i + 1
  /\ UNCHANGED <<frame, pc, ctl, fleet, wake, table>>

(* Mutant: the network stays counted.                                       *)
NotFewer(k) == k

Fewer(k) == IF k > 0 THEN k - 1 ELSE k

(* A descriptor is closed and forgotten: by the runtime, the array of       *)
(* WaitSelect and, if it is the first network's, the control record.        *)
Drop(n) ==
  /\ open' = open \ {sock[n]} /\ UNCHANGED abandoned
  /\ sock' = [sock EXCEPT ![n] = NoSock]
  /\ Watch(n, NoSock) /\ Tell(n, NoSock)
  /\ active' = Fewer(active)

(* Mutant: a lost connection ends the pass.                                 *)
ReadLostBreaks ==
  /\ pc = "ready" /\ i <= count /\ Readable(i)
  /\ Drop(i) /\ EnableRetry(i)
  /\ pc' = "loop" /\ i' = 1 /\ wake' = Quiet
  /\ UNCHANGED frame

(* recv returned 0 or failed: the network gets a local retry.               *)
ReadLost ==
  /\ pc = "ready" /\ i <= count /\ Readable(i)
  /\ Drop(i) /\ EnableRetry(i)
  /\ i' = i + 1
  /\ UNCHANGED <<frame, pc, wake>>

ReadData ==
  /\ pc = "ready" /\ i <= count /\ Readable(i)
  /\ pc' = "feed"
  /\ UNCHANGED <<valid, rc, brk, ctl, running>>

ReadyDone ==
  /\ pc = "ready" /\ i > count
  /\ pc' = "loop" /\ i' = 1 /\ wake' = Quiet
  /\ UNCHANGED <<frame, ctl, fleet, table>>

(* A line of the received data runs a hook script, and the port AMBOT is    *)
(* serviced until the script has ended.                                     *)
HookCommand == Execute({"feed"})

FeedDone ==
  /\ pc = "feed"
  /\ pc' = "ready" /\ i' = i + 1
  /\ UNCHANGED <<frame, ctl, fleet, wake, table>>

(* The negotiation of this network failed: it is disabled, without a retry. *)
FeedNegotiationFails ==
  /\ pc = "feed"
  /\ Drop(i)
  /\ pc' = "ready" /\ i' = i + 1
  /\ UNCHANGED <<frame, retryEnabled, retryWait, due, retrying, wake>>

-----------------------------------------------------------------------------
(* The user presses Ctrl-C.  The signal stays pending until a WaitSelect    *)
(* that lists it returns; elsewhere it is only looked at.                   *)
Break ==
  /\ pc # "done" /\ ~brk
  /\ brk' = TRUE
  /\ UNCHANGED <<valid, rc, pc, ctl, running>>

Supervise ==
  \/ BuildNothing \/ BuildSet \/ BuildStopped
  \/ ReturnedStopped \/ ReturnedReload \/ ReturnedUnreadable
  \/ ReturnedDisconnected \/ ReturnedExhausted \/ ReturnedReconnect
  \/ IdleEnds \/ StuckEnds \/ StuckReload \/ StuckUnreadable
  \/ PauseEnds \/ PauseReload

Serve ==
  \/ ConnectOne \/ ConnectDone
  \/ LoopStops \/ LoopExhausted
  \/ RexxDone \/ RexxReload
  \/ WokenByBreak \/ WokenByFailure \/ WokenToServe
  \/ RetrySkipped \/ RetryConnects \/ RetryFails \/ RetryDone
  \/ ReadySkipped \/ ReadLost \/ ReadData \/ ReadyDone
  \/ FeedDone \/ FeedNegotiationFails

Finished == pc = "done" /\ UNCHANGED vars

Next ==
  \/ Supervise
  \/ Serve
  \/ \E elapsed \in {0, 1} : Wake(elapsed)
  \/ RexxCommand \/ HookCommand \/ WaitingCommand
  \/ Break
  \/ Finished

Spec == Init /\ [][Next]_vars

(* The task takes its steps; a timed wait ends after its second; a wait     *)
(* ends when Ctrl-C is pending.  Nothing is assumed of the networks, of the *)
(* ARexx clients or of the user.                                            *)
Fairness ==
  /\ WF_vars(Supervise \/ Serve)
  /\ SF_vars(Wake(1))
  /\ WF_vars(Wake(0) /\ brk)

FairSpec == Spec /\ Fairness

-----------------------------------------------------------------------------
(* Safety                                                                  *)

InSet   == pc \in Running \cup {"connect"}
Started == IF pc = "connect" THEN 1 .. (i - 1) ELSE 1 .. count
UpNets    == {n \in Started : sock[n] # NoSock}
RetryNets == {n \in Started : retryEnabled[n]}

TypeOK ==
  /\ pc \in Location
  /\ i \in 1 .. MaxNets + 1
  /\ valid \in 0 .. MaxNets /\ count \in 0 .. MaxNets
  /\ ctl \in ControlRecord
  /\ sock \in [Net -> Sock] /\ watched \in [Net -> Sock]
  /\ retryEnabled \in [Net -> BOOLEAN]
  /\ retryWait \in [Net -> 0 .. MaxWait] /\ due \in [Net -> 0 .. MaxWait]
  /\ active \in 0 .. MaxNets /\ retrying \in 0 .. MaxNets
  /\ wake \in [rexx : BOOLEAN, brk : BOOLEAN, fail : BOOLEAN,
               ready : SUBSET Net]
  /\ rc \in Result
  /\ open \subseteq Fds /\ abandoned \subseteq Fds
  /\ brk \in BOOLEAN

(* The two counters the loop is steered by say how many networks really     *)
(* are connected and how many really wait for a retry.  active and retrying *)
(* are adjusted at seven places of ambot_multinet_run; one missed           *)
(* adjustment makes the loop poll for ever, block with a retry outstanding, *)
(* or give up on networks that could still come back.                       *)
CountersAgree ==
  InSet =>
    /\ active = Cardinality(UpNets)
    /\ retrying = Cardinality(RetryNets)

(* WaitSelect is given exactly the descriptors the runtimes hold: none that *)
(* has been closed (FD_SET of a dead descriptor makes every wait fail) and  *)
(* none forgotten (a network never read again).                             *)
WatchedAgree ==
  InSet => \A n \in Started : watched[n] = sock[n]

(* A network that waits for a retry holds no descriptor, so the retry pass  *)
(* never overwrites an open one; and every delay is between one second and  *)
(* the cap, with the deadline no further away than the delay.               *)
RetryState ==
  InSet => \A n \in Started :
    retryEnabled[n] => /\ sock[n] = NoSock
                       /\ retryWait[n] \in 1 .. MaxWait
                       /\ due[n] <= retryWait[n]

(* No network reads from or closes a descriptor that another one holds or   *)
(* that is closed already.                                                  *)
SocketsOwned ==
  InSet => \A n \in Started : sock[n] # NoSock =>
    /\ sock[n] \in open
    /\ \A m \in Started : sock[m] = sock[n] => m = n

(* Where the passes over the networks are: what CountersAgree and           *)
(* SocketsOwned rest on, and with them the inductive invariant.             *)
PassState ==
  /\ pc = "connect" =>
       i <= count + 1 /\ \A n \in Net \ Started : ~retryEnabled[n]
  /\ pc = "feed" => i <= count /\ sock[i] # NoSock
  /\ InSet => count > 0

Inv == TypeOK /\ CountersAgree /\ WatchedAgree /\ RetryState /\ SocketsOwned
         /\ PassState

(* The loop loses a descriptor only where it returns for a RELOAD or after a *)
(* failed wait: every other open descriptor is held by a network of the      *)
(* running set, and what is not held is never left open by an orderly end,   *)
(* a lost connection, a failed negotiation or a failed retry.                *)
NoLeak ==
  open = abandoned \cup IF InSet THEN {sock[n] : n \in UpNets} ELSE {}

(* Commands that send a line go to the first network's connection, the one  *)
(* it has now (docs/M7.md:52), and are refused while it has none; CONNECT is *)
(* not refused while AmBot waits without a set.  The one exception is an      *)
(* abandoned connection, which the control record keeps until the first      *)
(* network connects again.                                                   *)
ControlFollowsFirst ==
  \/ pc \in Running /\ ctl.sock = sock[1]
  \/ pc \in Running /\ sock[1] = NoSock /\ ctl.sock \in abandoned
  \/ pc \notin Running /\ ctl.sock \in abandoned \cup {NoSock}

(* Where every descriptor is: what the two invariants above rest on.        *)
Ledger ==
  /\ NoLeak /\ ControlFollowsFirst
  /\ InSet => \A n \in UpNets : sock[n] \notin abandoned

(* CONNECT and DISCONNECT are never both wanted, and a set is not built with *)
(* a DISCONNECT pending unless the last one ended without looking at it:    *)
(* what RequestsKept below rests on.                                        *)
Pending ==
  /\ ~(ctl.connect /\ ctl.disconnect)
  /\ pc = "stuck" => rc = "NO_RETRYABLE"
  /\ pc = "pause" => rc = "RECONNECT"
  /\ pc = "build" /\ ctl.disconnect => rc # "STOP" \/ ctl.quit \/ brk

(* RELOAD tears down the current set (docs/M7.md:50).                       *)
TearsDown == abandoned = {}

(* A DISCONNECT is gone by this step for one of three reasons: CONNECT was   *)
(* executed; the supervisor honoured it, with every connection closed; or a *)
(* new set is built, which clears whatever was requested since the last     *)
(* loop returned for a RELOAD, for a failed wait or as exhausted.           *)
Withdrawn ==
  \/ pc' = pc /\ ctl'.connect
  \/ pc' = "idle" /\ open \subseteq abandoned
  \/ pc = "build" /\ rc # "STOP"

(* No request is forgotten: a QUIT stays until the program has ended, and a *)
(* DISCONNECT until it is honoured, but for the cases of Withdrawn.  In     *)
(* particular the wait that follows a DISCONNECT is never left with another *)
(* DISCONNECT pending.                                                      *)
RequestsKept ==
  [][ /\ ctl.quit => ctl'.quit
      /\ ctl.disconnect /\ ~ctl'.disconnect => Withdrawn ]_vars

-----------------------------------------------------------------------------
(* Liveness                                                                *)

(* QUIT ends the program, wherever it was executed.                         *)
QuitEnds == ctl.quit ~> pc = "done"

(* So does Ctrl-C, whenever it is pressed (docs/M1.md:16).                  *)
BreakEnds == brk ~> pc = "done"

(* Ctrl-C is forgotten only by a loop that returns for a RELOAD.            *)
BreakTaken ==
  brk ~> (pc = "done" \/ (pc = "returned" /\ rc = "RELOAD" /\ ~brk))

(* DISCONNECT closes every connection that is not abandoned, unless it is   *)
(* withdrawn; and RequestsKept says what can withdraw it.                   *)
DisconnectCloses ==
  /\ ctl.disconnect ~> (open \subseteq abandoned \/ ~ctl.disconnect)
  /\ RequestsKept

(* A network that waits for a retry is tried again, whatever the others do, *)
(* as long as the set is served.                                            *)
RetryHappens ==
  \A n \in Net :
    (pc \in Running /\ n <= count /\ retryEnabled[n])
      ~> (pc \notin Running \/ (pc = "retry" /\ i = n /\ due[n] = 0))

(* Every network reported readable is reached in the same pass: a           *)
(* disconnect on one network does not stop the others (docs/M7.md:50).      *)
ReadySetServed ==
  \A n \in Net :
    (pc = "woken" /\ ~wake.brk /\ n \in wake.ready)
      ~> (pc = "ready" /\ i = n)

-----------------------------------------------------------------------------
(* The abstract network set                                                *)

absPhase ==
  CASE pc = "connect"  -> "starting"
    [] pc \in Running  -> "serving"
    [] pc = "done"     -> "stopped"
    [] (pc = "returned" /\ rc = "NO_RETRYABLE") \/ pc = "stuck" -> "exhausted"
    [] OTHER           -> "down"

absMembers == IF InSet THEN 1 .. count ELSE {}

absStatus ==
  [n \in Net |->
     CASE n \notin absMembers \/ n \notin Started -> "off"
       [] n \in absMembers \cap Started /\ sock[n] # NoSock -> "up"
       [] n \in absMembers \cap Started /\ sock[n] = NoSock ->
            IF retryEnabled[n] THEN "retry" ELSE "disabled"]

NS == INSTANCE NetworkSet WITH phase <- absPhase, members <- absMembers,
                               status <- absStatus

(* The counters, the descriptor array and the passes implement independent  *)
(* networks: one network changes at a time, and NO_RETRYABLE_NETWORKS is    *)
(* returned only when every network of the set is disabled.                 *)
ImplementsNetworkSet == NS!Spec
=============================================================================

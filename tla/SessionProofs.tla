---------------------------- MODULE SessionProofs ----------------------------
(***************************************************************************)
(* Theorems about Session, for any set of descriptors, any delay cap, any  *)
(* nicks, and whatever commands clients and hooks send, at any place.      *)
(***************************************************************************)
EXTENDS Session, ControlProofs, FiniteSetTheorems

LEMMA InitInv == Init => Inv
<1> SUFFICES ASSUME Init PROVE Inv
  OBVIOUS
<1>1. TypeOK
  <2>1. ctl \in ControlRecord /\ sock \in Sock
    BY DEF Init, ControlInit, ControlRecord, Sock
  <2>2. backoff \in 1 .. MaxBackoff /\ tries \in 0 .. MaxBackoff
    BY SessionAssumption DEF Init
  <2>3. wake \in [brk : BOOLEAN, io : IoResult]
    BY DEF Init, Quiet, IoResult
  <2> QED  BY <2>1, <2>2, <2>3 DEF Init, TypeOK, Location, Attached, Reason
<1>2. SessionState
  BY DEF Init, SessionState, ControlInit, Attached
<1> QED  BY <1>1, <1>2 DEF Init, Inv, ReasonTruthful

(* A delay stays between one second and the cap.                            *)
LEMMA NextBackoffType ==
  backoff \in 1 .. MaxBackoff => NextBackoff \in 1 .. MaxBackoff
BY SessionAssumption DEF NextBackoff

(* A command executed at any of the places where one can be.                *)
LEMMA CommandsInv == Inv /\ Commands => Inv'
<1> SUFFICES ASSUME Inv,
                    NEW place \in {"poll", "delay", "rexx", "onconnect",
                                   "dispatch", "ondisconnect"},
                    NEW command \in Command,
                    pc = place, ctl' = Dispatch(ctl, command),
                    UNCHANGED <<pc, sock, lost, backoff, wake, nick, path, open,
                                brk, history>>
             PROVE  Inv'
  BY SessionAssumption DEF Commands, PollCommand, DelayCommand, SessionCommand,
     OnConnectHook, EventHook, OnDisconnectHook, Execute
<1>1. ctl \in ControlRecord
  BY DEF Inv, TypeOK
<1>2. ctl' \in ControlRecord /\ ctl'.sock = ctl.sock
  BY <1>1, DispatchType, DispatchKeeps
<1>3. TypeOK'
  BY <1>2 DEF Inv, TypeOK, history
<1>4. SessionState' /\ ReasonTruthful'
  BY <1>2 DEF Inv, SessionState, ReasonTruthful, history
<1> QED  BY <1>3, <1>4 DEF Inv

(* A reload touches the request and the nick, and attaches no socket.       *)
LEMMA ReloadKeeps ==
  ASSUME TypeOK, ProcessReload
  PROVE  /\ ctl' \in ControlRecord /\ nick' \in Nicks
         /\ ctl'.sock = ctl.sock
         /\ ctl'.quit = ctl.quit /\ ctl'.disconnect = ctl.disconnect
BY DEF TypeOK, ProcessReload, ControlRecord

LEMMA MainLoopInv ==
  Inv /\ (Finish \/ Poll \/ PollDone \/ ConnectFails \/ DelayReload
            \/ DelayOver) => Inv'
<1> SUFFICES ASSUME Inv, \/ Finish \/ Poll \/ PollDone \/ ConnectFails
                         \/ DelayReload \/ DelayOver
             PROVE  Inv'
  OBVIOUS
<1>1. ctl \in ControlRecord
  BY DEF Inv, TypeOK
<1>2. ctl' \in ControlRecord /\ ctl'.sock = ctl.sock /\ nick' \in Nicks
  <2>1. CASE Finish
    BY <1>1, <2>1, SetSocketType, SetSocketKeeps
       DEF Finish, Inv, TypeOK, SessionState, Attached, Sock
  <2>2. CASE PollDone \/ DelayReload \/ DelayOver
    BY <2>2, ReloadKeeps DEF PollDone, DelayReload, DelayOver, Inv
  <2>3. CASE Poll \/ ConnectFails
    BY <1>1, <2>3 DEF Poll, ConnectFails, Inv, TypeOK
  <2> QED  BY <2>1, <2>2, <2>3
<1>3. backoff' \in 1 .. MaxBackoff /\ tries' \in 0 .. MaxBackoff
  <2>1. CASE DelayOver
    BY <2>1, NextBackoffType, SessionAssumption DEF DelayOver, Inv, TypeOK
  <2> QED
    BY <2>1 DEF Finish, Poll, PollDone, ConnectFails, DelayReload, Inv, TypeOK,
       history
<1>4. /\ pc \notin Attached \cup {"ended"} /\ pc' \notin Attached \cup {"ended"}
      /\ pc' \in Location /\ pc' # "ondisconnect"
      /\ UNCHANGED <<sock, lost, wake, path, open, brk, announced, reason,
                     regNick>>
  BY DEF Finish, Poll, PollDone, ConnectFails, DelayReload, DelayOver, Attached,
     Location, history
<1>5. TypeOK'
  BY <1>2, <1>3, <1>4 DEF Inv, TypeOK
<1>6. SessionState' /\ ReasonTruthful'
  BY <1>2, <1>4 DEF Inv, SessionState, ReasonTruthful
<1> QED  BY <1>5, <1>6 DEF Inv

LEMMA ConnectInv == ASSUME Inv, NEW s \in Fds, Connect(s) PROVE Inv'
<1>1. ctl' \in ControlRecord /\ ctl'.sock = s
  BY SetSocketType, SetSocketKeeps DEF Connect, Inv, TypeOK, Sock
<1>2. TypeOK'
  BY <1>1, SessionAssumption DEF Connect, Inv, TypeOK, Location, Attached, Sock
<1>3. SessionState' /\ ReasonTruthful'
  BY <1>1, NoSockAssumption
     DEF Connect, Inv, SessionState, ReasonTruthful, Attached
<1> QED  BY <1>2, <1>3 DEF Inv

(* The steps of a session that go on with it.                               *)
Continues ==
  \/ EnterSession \/ Register \/ SessionWaits \/ SessionRexxDone
  \/ (\E rexx \in BOOLEAN, io \in IoResult : Wake(rexx, io))
  \/ WokenByData \/ WokenIdle \/ DispatchDone

LEMMA SessionInv == Inv /\ Continues => Inv'
<1> SUFFICES ASSUME Inv, Continues PROVE Inv'
  OBVIOUS
<1>1. pc \in Attached /\ pc' \in Attached /\ pc' # "ondisconnect"
  BY DEF Continues, EnterSession, Register, SessionWaits, SessionRexxDone, Wake,
     WokenByData, WokenIdle, DispatchDone, Attached
<1>2. UNCHANGED <<sock, lost, backoff, path, open, tries, announced, reason>>
  BY DEF Continues, EnterSession, Register, SessionWaits, SessionRexxDone, Wake,
     WokenByData, WokenIdle, DispatchDone, history
<1>3. ctl' \in ControlRecord /\ ctl'.sock = ctl.sock
  <2>1. ctl \in ControlRecord /\ ctl.sock = sock /\ sock \in Sock
    BY <1>1 DEF Inv, TypeOK, SessionState
  <2>2. CASE EnterSession
    <3>1. /\ SetSocket(ctl, sock) \in ControlRecord
          /\ SetSocket(ctl, sock).sock = sock
      BY <2>1, SetSocketType, SetSocketKeeps
    <3>2. ctl' = [SetSocket(ctl, sock) EXCEPT !.disconnect = FALSE]
      BY <2>2 DEF EnterSession
    <3> QED  BY <2>1, <3>1, <3>2 DEF ControlRecord
  <2>3. CASE SessionRexxDone
    BY <2>3, ReloadKeeps DEF SessionRexxDone, Inv
  <2> QED
    BY <2>1, <2>2, <2>3 DEF Continues, Register, SessionWaits, Wake,
       WokenByData, WokenIdle, DispatchDone
<1>4. nick' \in Nicks /\ regNick' \in Nicks /\ brk' \in BOOLEAN
      /\ wake' \in [brk : BOOLEAN, io : IoResult]
  <2>1. CASE SessionRexxDone
    BY <2>1, ReloadKeeps DEF SessionRexxDone, Inv, TypeOK, history
  <2>2. CASE \E rexx \in BOOLEAN, io \in IoResult : Wake(rexx, io)
    <3> PICK rexx \in BOOLEAN, io \in IoResult : Wake(rexx, io)
      BY <2>2
    <3>1. brk \in BOOLEAN /\ wake' = [brk |-> brk, io |-> io]
      BY DEF Wake, Inv, TypeOK
    <3>2. wake' \in [brk : BOOLEAN, io : IoResult]
      BY <3>1
    <3> QED  BY <3>2 DEF Wake, Inv, TypeOK, history
  <2>3. CASE EnterSession \/ Register \/ SessionWaits \/ WokenByData
    BY <2>3 DEF EnterSession, Register, SessionWaits, WokenByData, Inv, TypeOK,
       history
  <2>4. CASE WokenIdle \/ DispatchDone
    <3>1. Quiet \in [brk : BOOLEAN, io : IoResult]
      BY DEF Quiet, IoResult
    <3> QED  BY <2>4, <3>1 DEF WokenIdle, DispatchDone, Inv, TypeOK, history
  <2> QED  BY <2>1, <2>2, <2>3, <2>4 DEF Continues
<1>5. TypeOK'
  BY <1>1, <1>2, <1>3, <1>4 DEF Inv, TypeOK, Location
<1>6. SessionState' /\ ReasonTruthful'
  BY <1>1, <1>2, <1>3 DEF Inv, SessionState, ReasonTruthful, Attached
<1> QED  BY <1>5, <1>6 DEF Inv

(* The steps that end it.                                                   *)
Ends ==
  RegisterFails \/ SessionStops \/ WokenByBreak \/ WokenToStop \/ WokenByLoss

LEMMA EndsInv == Inv /\ Ends => Inv'
<1> SUFFICES ASSUME Inv, Ends PROVE Inv'
  OBVIOUS
<1>1. /\ ctl \in ControlRecord /\ NoSock \in Sock
      /\ [ctl EXCEPT !.quit = TRUE] \in ControlRecord
  BY DEF Inv, TypeOK, ControlRecord, Sock
<1>2. /\ pc \in Attached /\ pc' = "ended" /\ lost' \in BOOLEAN /\ wake' = Quiet
      /\ UNCHANGED <<sock, backoff, nick, path, open, brk, history>>
  BY DEF Ends, RegisterFails, SessionStops, WokenByBreak, WokenToStop,
     WokenByLoss, Leave, Attached
<1>3. ctl' \in ControlRecord /\ ctl'.sock = NoSock
  <2>1. \/ ctl' = SetSocket(ctl, NoSock)
        \/ ctl' = SetSocket([ctl EXCEPT !.quit = TRUE], NoSock)
    BY DEF Ends, RegisterFails, SessionStops, WokenByBreak, WokenToStop,
       WokenByLoss
  <2> QED  BY <1>1, <2>1, SetSocketType, SetSocketKeeps
<1>4. ~lost' => brk' \/ ctl'.quit \/ ctl'.disconnect
  <2>1. CASE SessionStops \/ WokenToStop
    BY <1>1, <2>1, SetSocketKeeps DEF SessionStops, WokenToStop, Leave
  <2>2. CASE WokenByBreak
    BY <1>1, <2>2, SetSocketKeeps DEF WokenByBreak, ControlRecord
  <2>3. CASE RegisterFails \/ WokenByLoss
    BY <2>3 DEF RegisterFails, WokenByLoss, Leave
  <2> QED  BY <2>1, <2>2, <2>3 DEF Ends
<1>5. TypeOK'
  BY <1>2, <1>3 DEF Inv, TypeOK, Location, history, Quiet, IoResult
<1>6. SessionState' /\ ReasonTruthful'
  BY <1>2, <1>3, <1>4 DEF Inv, SessionState, ReasonTruthful, Attached, history
<1> QED  BY <1>5, <1>6 DEF Inv

(* The connection is closed and the reason is given.                        *)
LEMMA CloseInv == Inv /\ CloseSession => Inv'
<1> SUFFICES ASSUME Inv, CloseSession PROVE Inv'
  OBVIOUS
<1>1. ctl' \in ControlRecord /\ ctl'.sock = NoSock
  BY SetSocketType, SetSocketKeeps DEF CloseSession, Inv, TypeOK, Sock
<1>2. /\ reason' \in Reason /\ reason' # "disconnected"
      /\ reason' = "connection-lost" => lost
  BY DEF CloseSession, DisconnectReason, Reason, Inv, SessionState
<1>3. TypeOK'
  BY <1>1, <1>2 DEF CloseSession, HangUp, Inv, TypeOK, Location, Sock
<1>4. SessionState' /\ ReasonTruthful'
  BY <1>1, <1>2 DEF CloseSession, HangUp, Inv, SessionState, ReasonTruthful,
     Attached
<1> QED  BY <1>3, <1>4 DEF Inv

LEMMA AfterInv == Inv /\ (AfterStop \/ AfterDisconnect \/ AfterLoss) => Inv'
<1> SUFFICES ASSUME Inv, AfterStop \/ AfterDisconnect \/ AfterLoss PROVE Inv'
  OBVIOUS
<1>1. ctl' \in ControlRecord /\ ctl'.sock = ctl.sock
  BY DEF AfterStop, AfterDisconnect, AfterLoss, Inv, TypeOK, ControlRecord
<1>2. /\ pc = "ondisconnect" /\ pc' \in {"done", "top", "delay"}
      /\ UNCHANGED <<sock, lost, backoff, wake, nick, path, open, brk, history>>
  BY DEF AfterStop, AfterDisconnect, AfterLoss
<1>3. TypeOK'
  BY <1>1, <1>2 DEF Inv, TypeOK, Location, history
<1>4. SessionState' /\ ReasonTruthful'
  BY <1>1, <1>2 DEF Inv, SessionState, ReasonTruthful, Attached, history
<1> QED  BY <1>3, <1>4 DEF Inv

LEMMA BreakInv == Inv /\ (Break \/ UNCHANGED vars) => Inv'
<1> SUFFICES ASSUME Inv, Break \/ UNCHANGED vars PROVE Inv'
  OBVIOUS
<1>1. /\ UNCHANGED <<pc, ctl, sock, lost, backoff, wake, nick, path, open,
                     tries, announced, reason, regNick>>
      /\ brk' \in BOOLEAN /\ (brk => brk')
  BY DEF Break, vars, history, Inv, TypeOK
<1>2. TypeOK'
  BY <1>1 DEF Inv, TypeOK
<1>3. SessionState' /\ ReasonTruthful'
  BY <1>1 DEF Inv, SessionState, ReasonTruthful
<1> QED  BY <1>2, <1>3 DEF Inv

LEMMA NextInv == Inv /\ [Next]_vars => Inv'
<1> SUFFICES ASSUME Inv, [Next]_vars PROVE Inv'
  OBVIOUS
<1>1. CASE Commands
  BY <1>1, CommandsInv
<1>2. CASE Program
  BY <1>2, MainLoopInv, ConnectInv, SessionInv, EndsInv, CloseInv, AfterInv
     DEF Program, Continues, Ends
<1>3. CASE \E rexx \in BOOLEAN, io \in IoResult : Wake(rexx, io)
  BY <1>3, SessionInv DEF Continues
<1>4. CASE DelayReload
  BY <1>4, MainLoopInv
<1>5. CASE Break \/ UNCHANGED vars
  BY <1>5, BreakInv
<1> QED  BY <1>1, <1>2, <1>3, <1>4, <1>5 DEF Next

(* The inductive invariant.                                                 *)
THEOREM Invariance == Spec => []Inv
<1>1. Init => Inv
  BY InitInv
<1>2. Inv /\ [Next]_vars => Inv'
  BY NextInv
<1> QED  BY <1>1, <1>2, PTL DEF Spec

(* Commands reach the connection there is, or none.                         *)
THEOREM ControlCorrect == Spec => []ControlFollowsSocket
<1>1. Inv => ControlFollowsSocket
  BY NoSockAssumption DEF Inv, TypeOK, Sock, SessionState,
     ControlFollowsSocket, Attached, Connected
<1> QED  BY <1>1, Invariance, PTL

(* No connection outlives its ON_DISCONNECT.                                *)
THEOREM ConnectionsPaired == Spec => []AnnouncedOnce
<1>1. Inv => AnnouncedOnce
  BY NoSockAssumption DEF Inv, TypeOK, Sock, SessionState, AnnouncedOnce
<1> QED  BY <1>1, Invariance, PTL

(* The reason ON_DISCONNECT is given is the true one.                       *)
THEOREM ReasonCorrect == Spec => []ReasonTruthful
<1>1. Inv => ReasonTruthful
  BY DEF Inv
<1> QED  BY <1>1, Invariance, PTL

(* Every variable keeps its type; in particular a delay never passes the    *)
(* cap.                                                                     *)
THEOREM TypeCorrect == Spec => []TypeOK
<1>1. Inv => TypeOK
  BY DEF Inv
<1> QED  BY <1>1, Invariance, PTL

-----------------------------------------------------------------------------
(* Powers of two, by counting subsets.                                      *)
LEMMA PowerZero == 2 ^ 0 = 1
<1>1. 2 ^ Cardinality({}) = Cardinality(SUBSET {})
  BY FS_EmptySet, FS_SUBSET
<1>2. SUBSET {} = {{}}
  OBVIOUS
<1> QED  BY <1>1, <1>2, FS_EmptySet, FS_Singleton

LEMMA PowerType ==
  ASSUME NEW n \in Nat
  PROVE  /\ 2 ^ n \in Nat
         /\ IsFiniteSet(SUBSET (1 .. n)) /\ Cardinality(SUBSET (1 .. n)) = 2 ^ n
<1>1. IsFiniteSet(1 .. n) /\ Cardinality(1 .. n) = n
  BY FS_Interval
<1>2. /\ IsFiniteSet(SUBSET (1 .. n))
      /\ Cardinality(SUBSET (1 .. n)) = 2 ^ Cardinality(1 .. n)
  BY <1>1, FS_SUBSET
<1> QED  BY <1>1, <1>2, FS_CardinalityType

LEMMA PowerSuccessor == ASSUME NEW n \in Nat PROVE 2 ^ (n + 1) = 2 * 2 ^ n
<1> DEFINE Without == SUBSET (1 .. n)
           With    == {S \in SUBSET (1 .. n + 1) : n + 1 \in S}
           add     == [S \in Without |-> S \cup {n + 1}]
<1>1. /\ IsFiniteSet(Without) /\ Cardinality(Without) = 2 ^ n /\ 2 ^ n \in Nat
      /\ Cardinality(SUBSET (1 .. n + 1)) = 2 ^ (n + 1)
  <2>1. n + 1 \in Nat
    OBVIOUS
  <2> QED  BY <2>1, PowerType, Zenon
<1>2. \A S \in SUBSET (1 .. n + 1) : n + 1 \notin S => S \in Without
  BY DEF Without
<1>3. \A S \in Without : S \cup {n + 1} \in With /\ n + 1 \notin S
  BY DEF With, Without
<1>4. \A S \in With : S \ {n + 1} \in Without /\ (S \ {n + 1}) \cup {n + 1} = S
  BY DEF With, Without
<1>5. add \in Bijection(Without, With)
  <2>1. add \in [Without -> With]
    BY <1>3
  <2>2. \A S, T \in Without : add[S] = add[T] => S = T
    <3> SUFFICES ASSUME NEW S \in Without, NEW T \in Without, add[S] = add[T]
                 PROVE  S = T
      OBVIOUS
    <3>1. S \cup {n + 1} = T \cup {n + 1}
      OBVIOUS
    <3>2. n + 1 \notin S /\ n + 1 \notin T
      BY <1>3
    <3> QED  BY <3>1, <3>2
  <2>3. \A S \in With : \E T \in Without : add[T] = S
    <3> TAKE S \in With
    <3> WITNESS S \ {n + 1} \in Without
    <3> QED  BY <1>4
  <2> QED
    BY <2>1, <2>2, <2>3, Zenon DEF Bijection, Injection, Surjection, IsInjective
<1>6. IsFiniteSet(With) /\ Cardinality(With) = 2 ^ n
  BY <1>1, <1>5, FS_Bijection, Zenon DEF ExistsBijection
<1>7. SUBSET (1 .. n + 1) = Without \cup With /\ Without \cap With = {}
  <2>1. \A S \in Without : S \in SUBSET (1 .. n + 1)
    BY DEF Without
  <2> QED  BY <2>1, <1>2, <1>3 DEF With
<1>8. Cardinality(Without \cup With)
        = Cardinality(Without) + Cardinality(With)
            - Cardinality(Without \cap With)
  BY <1>1, <1>6, FS_Union, Zenon
<1> HIDE DEF Without, With
<1>9. 2 ^ (n + 1) = 2 ^ n + 2 ^ n - 0
  BY <1>1, <1>6, <1>7, <1>8, FS_EmptySet, Zenon
<1> QED  BY <1>1, <1>9

-----------------------------------------------------------------------------
(* The reconnect delay                                                     *)

(* The arithmetic of one doubling.                                          *)
LEMMA Doubling ==
  ASSUME NEW p \in Nat, NEW b \in 1 .. MaxBackoff, NEW t \in Nat,
         b = IF p > MaxBackoff THEN MaxBackoff ELSE p,
         t < b \/ b = MaxBackoff,
         NEW d, d = IF b >= MaxBackoff THEN b
                    ELSE IF 2 * b > MaxBackoff THEN MaxBackoff ELSE 2 * b
  PROVE  /\ d = IF 2 * p > MaxBackoff THEN MaxBackoff ELSE 2 * p
         /\ t + 1 < d \/ d = MaxBackoff
BY SessionAssumption

LEMMA BackoffStep == Inv /\ BackoffState /\ [Next]_vars => BackoffState'
<1> SUFFICES ASSUME Inv, BackoffState, [Next]_vars PROVE BackoffState'
  OBVIOUS
<1>1. /\ tries \in 0 .. MaxBackoff /\ backoff \in 1 .. MaxBackoff
      /\ MaxBackoff \in Nat \ {0}
  BY SessionAssumption DEF Inv, TypeOK
<1>2. CASE \E s \in Fds : Connect(s)
  <2>1. backoff' = 1 /\ tries' = 0
    BY <1>2 DEF Connect
  <2> QED  BY <2>1, <1>1, PowerZero DEF BackoffState, BackoffLaw
<1>3. CASE DelayOver
  <2>1. CASE tries < MaxBackoff
    <3> DEFINE p == 2 ^ tries
    <3>1. tries' = tries + 1 /\ backoff' = NextBackoff
      BY <1>3, <2>1 DEF DelayOver
    <3>2. tries \in Nat /\ p \in Nat /\ 2 ^ (tries + 1) = 2 * p
      <4>1. tries \in Nat
        BY <1>1
      <4> QED  BY <4>1, PowerType, PowerSuccessor, Zenon
    <3>3. /\ backoff = IF p > MaxBackoff THEN MaxBackoff ELSE p
          /\ tries < backoff \/ backoff = MaxBackoff
      BY DEF BackoffState, BackoffLaw
    <3>4. NextBackoff = IF backoff >= MaxBackoff THEN backoff
                        ELSE IF 2 * backoff > MaxBackoff THEN MaxBackoff
                                                         ELSE 2 * backoff
      BY DEF NextBackoff
    <3> HIDE DEF p
    <3>5. /\ NextBackoff = IF 2 * p > MaxBackoff THEN MaxBackoff ELSE 2 * p
          /\ tries + 1 < NextBackoff \/ NextBackoff = MaxBackoff
      BY <1>1, <3>2, <3>3, <3>4, Doubling
    <3> QED  BY <3>1, <3>2, <3>5 DEF BackoffState, BackoffLaw
  <2>2. CASE tries = MaxBackoff
    <3>1. backoff = MaxBackoff
      BY <1>1, <2>2 DEF BackoffState
    <3>2. UNCHANGED <<backoff, tries>>
      BY <1>1, <1>3, <2>2, <3>1 DEF DelayOver, NextBackoff
    <3> QED  BY <3>2 DEF BackoffState, BackoffLaw
  <2> QED  BY <1>1, <2>1, <2>2
<1>4. CASE UNCHANGED <<backoff, tries>>
  BY <1>4 DEF BackoffState, BackoffLaw
<1>5. \/ \E s \in Fds : Connect(s)
      \/ DelayOver
      \/ UNCHANGED <<backoff, tries>>
  BY DEF Next, vars, history, Program, Commands, PollCommand, DelayCommand,
     SessionCommand, OnConnectHook, EventHook, OnDisconnectHook, Execute,
     Finish, Poll, PollDone, ConnectFails, EnterSession, Register,
     RegisterFails, Leave, SessionStops, SessionWaits, SessionRexxDone,
     WokenByBreak, WokenToStop, WokenByLoss, WokenByData, WokenIdle,
     DispatchDone, CloseSession, AfterStop, AfterDisconnect, AfterLoss,
     DelayReload, Break, Wake
<1> QED  BY <1>2, <1>3, <1>4, <1>5

(* The n-th delay since the last connection is 2^n seconds, or the cap when  *)
(* that is less, however many delays there are and whatever interrupts them. *)
THEOREM BackoffCorrect == Spec => []BackoffLaw
<1>1. Init => BackoffState
  BY PowerZero, SessionAssumption DEF Init, BackoffState, BackoffLaw
<1>2. Inv /\ BackoffState /\ [Next]_vars => BackoffState'
  BY BackoffStep
<1>3. BackoffState => BackoffLaw
  BY DEF BackoffState
<1> QED  BY <1>1, <1>2, <1>3, Invariance, PTL DEF Spec

-----------------------------------------------------------------------------
(* Requests                                                                *)

(* Every step leaves the two requests as they are, or raises QUIT, but for   *)
(* the commands and the two steps that clear a DISCONNECT.                  *)
LEMMA KeepsRequests ==
  ASSUME Inv, [Next]_vars, ~Commands
  PROVE  /\ ctl.quit => ctl'.quit
         /\ \/ EnterSession \/ AfterDisconnect
            \/ ctl'.disconnect = ctl.disconnect
<1>1. ctl \in ControlRecord /\ NoSock \in Sock /\ sock \in Sock
  BY DEF Inv, TypeOK, Sock
<1>2. CASE PollDone \/ SessionRexxDone \/ DelayReload \/ DelayOver
  BY <1>2, ReloadKeeps DEF PollDone, SessionRexxDone, DelayReload, DelayOver,
     Inv
<1>3. CASE EnterSession \/ AfterDisconnect \/ AfterLoss
  <2>1. CASE EnterSession
    <3>1. /\ SetSocket(ctl, sock) \in ControlRecord
          /\ SetSocket(ctl, sock).quit = ctl.quit
      BY <1>1, SetSocketType, SetSocketKeeps
    <3>2. ctl' = [SetSocket(ctl, sock) EXCEPT !.disconnect = FALSE]
      BY <2>1 DEF EnterSession
    <3>3. ctl'.quit = ctl.quit
      BY <3>1, <3>2 DEF ControlRecord
    <3> QED  BY <2>1, <3>3
  <2>2. CASE AfterDisconnect \/ AfterLoss
    BY <1>1, <2>2 DEF AfterDisconnect, AfterLoss, ControlRecord
  <2> QED  BY <1>3, <2>1, <2>2
<1>4. CASE \/ Finish \/ (\E s \in Fds : Connect(s)) \/ RegisterFails
           \/ SessionStops \/ WokenToStop \/ WokenByLoss \/ CloseSession
  <2>1. PICK s \in Sock : ctl' = SetSocket(ctl, s)
    BY <1>1, <1>4 DEF Finish, Connect, RegisterFails, SessionStops,
       WokenToStop, WokenByLoss, CloseSession, Sock
  <2> QED  BY <1>1, <2>1, SetSocketKeeps
<1>5. CASE WokenByBreak
  <2>1. [ctl EXCEPT !.quit = TRUE] \in ControlRecord
    BY <1>1 DEF ControlRecord
  <2>2. /\ ctl'.quit = [ctl EXCEPT !.quit = TRUE].quit
        /\ ctl'.disconnect = [ctl EXCEPT !.quit = TRUE].disconnect
    BY <1>1, <1>5, <2>1, SetSocketKeeps DEF WokenByBreak
  <2> QED  BY <1>1, <2>2 DEF ControlRecord
<1>6. CASE \/ Poll \/ ConnectFails \/ Register \/ SessionWaits \/ WokenByData
           \/ WokenIdle \/ DispatchDone \/ AfterStop \/ Break
           \/ UNCHANGED vars
           \/ \E rexx \in BOOLEAN, io \in IoResult : Wake(rexx, io)
  BY <1>6 DEF Poll, ConnectFails, Register, SessionWaits, WokenByData,
     WokenIdle, DispatchDone, AfterStop, Break, Wake, vars
<1> QED
  BY <1>2, <1>3, <1>4, <1>5, <1>6 DEF Next, Program

LEMMA RequestStep ==
  ASSUME Inv, [Next]_vars
  PROVE  /\ ctl.quit => ctl'.quit
         /\ ctl.disconnect /\ ~ctl'.disconnect => Withdrawn
<1>1. ctl \in ControlRecord
  BY DEF Inv, TypeOK
<1>2. CASE Commands
  <2>1. PICK command \in Command : ctl' = Dispatch(ctl, command)
    BY <1>2, SessionAssumption DEF Commands, PollCommand, DelayCommand,
       SessionCommand, OnConnectHook, EventHook, OnDisconnectHook, Execute
  <2>2. pc' = pc
    BY <1>2 DEF Commands, PollCommand, DelayCommand, SessionCommand,
       OnConnectHook, EventHook, OnDisconnectHook, Execute
  <2> QED  BY <1>1, <2>1, <2>2, DispatchKeeps DEF Withdrawn
<1>3. CASE ~Commands
  <2>1. EnterSession => pc = "onconnect" /\ pc' = "register"
    BY DEF EnterSession
  <2>2. AfterDisconnect => pc = "ondisconnect" /\ open = {}
    BY DEF AfterDisconnect, Inv, SessionState, Attached
  <2> QED  BY <1>3, <2>1, <2>2, KeepsRequests DEF Withdrawn
<1> QED  BY <1>2, <1>3

(* No request is forgotten, whatever commands, reloads, lost connections and *)
(* delays come in between: QUIT is kept to the end, and a DISCONNECT goes   *)
(* only by a CONNECT, by having closed the connection (which SessionState   *)
(* knows of ON_DISCONNECT's place), or where run_connected_session begins.  *)
THEOREM RequestsCorrect == Spec => RequestsKept
<1>1. Inv /\ [Next]_vars =>
        [ /\ ctl.quit => ctl'.quit
          /\ ctl.disconnect /\ ~ctl'.disconnect => Withdrawn ]_vars
  BY RequestStep
<1> QED  BY <1>1, Invariance, PTL DEF Spec, RequestsKept
=============================================================================

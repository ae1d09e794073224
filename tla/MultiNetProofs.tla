--------------------------- MODULE MultiNetProofs ---------------------------
(***************************************************************************)
(* Theorems about MultiNet, for any number of networks, any set of         *)
(* descriptors, any delay cap, any ARexx clients, and whether or not       *)
(* WaitSelect can fail.                                                    *)
(***************************************************************************)
EXTENDS MultiNet, ControlProofs, FiniteSetTheorems

(* The tuples of variables stand for their components everywhere.           *)
USE DEF fleet, frame, Watch, Tell, Fewer, EnableRetry

(* A set of networks is finite and no larger than the number of networks.   *)
LEMMA NetSets ==
  ASSUME NEW S \in SUBSET Net
  PROVE  IsFiniteSet(S) /\ Cardinality(S) \in 0 .. MaxNets
<1>1. IsFiniteSet(Net) /\ Cardinality(Net) = MaxNets
  BY FS_Interval, MultiNetAssumption DEF Net
<1>2. IsFiniteSet(S) /\ Cardinality(S) <= MaxNets
  BY <1>1, FS_Subset
<1> QED  BY <1>2, FS_CardinalityType, MultiNetAssumption

LEMMA StartedNets == TypeOK => Started \subseteq Net
BY MultiNetAssumption DEF Started, Net, TypeOK

LEMMA CountedNets ==
  TypeOK => UpNets \in SUBSET Net /\ RetryNets \in SUBSET Net
BY StartedNets DEF UpNets, RetryNets

(* What a counted set becomes when network n joins or leaves it.            *)
LEMMA CountUp ==
  ASSUME NEW S, IsFiniteSet(S), NEW n, n \notin S
  PROVE  Cardinality(S \cup {n}) = Cardinality(S) + 1
BY FS_AddElement

LEMMA CountDown ==
  ASSUME NEW S, IsFiniteSet(S), NEW n \in S
  PROVE  /\ Cardinality(S \ {n}) = Cardinality(S) - 1
         /\ Cardinality(S) > 0
<1>1. Cardinality(S \ {n}) = Cardinality(S) - 1
  BY FS_RemoveElement
<1>2. IsFiniteSet(S \ {n})
  BY FS_RemoveElement
<1>3. Cardinality(S) \in Nat /\ Cardinality(S \ {n}) \in Nat
  BY <1>2, FS_CardinalityType
<1> QED  BY <1>1, <1>3

LEMMA InitInv == Init => Inv
<1> SUFFICES ASSUME Init PROVE Inv
  OBVIOUS
<1>1. TypeOK
  <2>1. /\ i \in 1 .. MaxNets + 1 /\ count \in 0 .. MaxNets
        /\ active \in 0 .. MaxNets /\ retrying \in 0 .. MaxNets
    BY MultiNetAssumption DEF Init
  <2>2. /\ sock \in [Net -> Sock] /\ watched \in [Net -> Sock]
        /\ retryEnabled \in [Net -> BOOLEAN]
        /\ retryWait \in [Net -> 0 .. MaxWait] /\ due \in [Net -> 0 .. MaxWait]
    BY MultiNetAssumption DEF Init, Sock
  <2>3. ctl \in ControlRecord
    BY DEF Init, ControlInit, ControlRecord, Sock
  <2>4. pc \in Location /\ rc \in Result /\ open \subseteq Fds
      /\ abandoned \subseteq Fds
    BY DEF Init, Location, Result
  <2>5. wake \in [rexx : BOOLEAN, brk : BOOLEAN, fail : BOOLEAN,
                  ready : SUBSET Net]
    BY DEF Init, Quiet
  <2> QED  BY <2>1, <2>2, <2>3, <2>4, <2>5 DEF TypeOK, Init
<1>2. ~InSet /\ pc = "build"
  BY DEF Init, InSet, Running
<1> QED
  BY <1>1, <1>2 DEF Inv, CountersAgree, WatchedAgree, RetryState, SocketsOwned,
     PassState

-----------------------------------------------------------------------------
(* Steps that touch no network.  Between two places of the loop, or outside *)
(* the set, they keep the invariant because they keep all it speaks of.     *)

LEMMA StepOutside ==
  ASSUME Inv, TypeOK', ~InSet'
  PROVE  Inv'
BY DEF Inv, CountersAgree, WatchedAgree, RetryState, SocketsOwned, PassState,
       InSet, Running

LEMMA StepWithin ==
  ASSUME Inv, TypeOK', pc \in Running, pc' \in Running,
         UNCHANGED <<count, sock, retryEnabled, retryWait, watched, counters,
                     open, abandoned>>,
         \A n \in Net : due'[n] <= due[n],
         pc' = "feed" => i' <= count /\ sock[i'] # NoSock
  PROVE  Inv'
<1>1. pc # "connect" /\ pc' # "connect" /\ InSet /\ InSet'
  BY DEF Running, InSet
<1>2. Started' = Started
  BY <1>1 DEF Started
<1>3. UpNets' = UpNets /\ RetryNets' = RetryNets
  BY <1>2 DEF UpNets, RetryNets
<1>4. CountersAgree'
  BY <1>1, <1>3 DEF Inv, CountersAgree, counters
<1>5. WatchedAgree' /\ SocketsOwned'
  BY <1>1, <1>2 DEF Inv, WatchedAgree, SocketsOwned
<1>6. RetryState'
  <2> SUFFICES ASSUME NEW n \in Started, retryEnabled[n]
               PROVE  /\ sock[n] = NoSock /\ retryWait[n] \in 1 .. MaxWait
                      /\ due'[n] <= retryWait[n]
    BY <1>1, <1>2 DEF RetryState
  <2>1. n \in Net
    BY StartedNets DEF Inv
  <2>2. /\ sock[n] = NoSock /\ retryWait[n] \in 1 .. MaxWait
        /\ due[n] <= retryWait[n]
    BY <1>1 DEF Inv, RetryState
  <2>3. due[n] \in Nat /\ due'[n] \in Nat /\ due'[n] <= due[n]
    BY <2>1, MultiNetAssumption DEF Inv, TypeOK
  <2> QED  BY <2>2, <2>3, MultiNetAssumption
<1>7. PassState'
  BY <1>1 DEF Inv, PassState
<1> QED  BY <1>4, <1>5, <1>6, <1>7 DEF Inv

-----------------------------------------------------------------------------
(* The supervisor, and the returns of ambot_multinet_run.                   *)

LEMMA SuperviseInv == Inv /\ Supervise /\ ~BuildSet => Inv'
<1> SUFFICES ASSUME Inv, Supervise, ~BuildSet PROVE Inv'
  OBVIOUS
<1> USE DEF Inv
<1>1. ASSUME End, UNCHANGED valid PROVE TypeOK' /\ ~InSet'
  BY <1>1, SetSocketType DEF End, TypeOK, Location, InSet, Running, runtime,
     counters, Sock
<1>2. ASSUME Loads \/ UNCHANGED valid, TakeReload PROVE TypeOK' /\ ~InSet'
  <2>1. ctl' \in ControlRecord
    BY <1>2 DEF TakeReload, TypeOK, ControlRecord
  <2> QED
    BY <1>2, <2>1 DEF Loads, TakeReload, TypeOK, Location, InSet, Running,
       running, runtime, counters, table
<1>3. ASSUME UNCHANGED <<valid, running, rc, brk>>, ctl' \in ControlRecord,
             pc' \in {"build", "idle", "stuck", "pause"}
      PROVE  TypeOK' /\ ~InSet'
  BY <1>3 DEF TypeOK, Location, Waiting, InSet, Running, running, runtime,
     counters, table
<1>4. CASE BuildNothing \/ BuildStopped \/ ReturnedStopped
             \/ ReturnedUnreadable \/ StuckUnreadable
  BY <1>1, <1>4, StepOutside DEF BuildNothing, BuildStopped, ReturnedStopped,
     ReturnedUnreadable, StuckUnreadable
<1>5. CASE ReturnedReload \/ StuckReload \/ PauseReload
  BY <1>2, <1>5, StepOutside DEF ReturnedReload, StuckReload, PauseReload
<1>6. CASE ReturnedDisconnected \/ ReturnedExhausted \/ ReturnedReconnect
  <2>1. ctl' \in ControlRecord
    BY <1>6 DEF ReturnedDisconnected, ReturnedExhausted, ReturnedReconnect,
       TypeOK, ControlRecord
  <2> QED
    BY <1>3, <1>6, <2>1, StepOutside DEF ReturnedDisconnected,
       ReturnedExhausted, ReturnedReconnect
<1>7. CASE IdleEnds \/ StuckEnds \/ PauseEnds
  <2>1. ctl' \in ControlRecord
    BY <1>7 DEF IdleEnds, StuckEnds, PauseEnds, TypeOK
  <2> QED
    BY <1>3, <1>7, <2>1, StepOutside DEF IdleEnds, StuckEnds, PauseEnds
<1> QED
  BY <1>4, <1>5, <1>6, <1>7 DEF Supervise

LEMMA ReturnInv ==
  Inv /\ (LoopStops \/ LoopExhausted \/ RexxReload \/ WokenByBreak
            \/ WokenByFailure) => Inv'
<1> SUFFICES ASSUME Inv, \/ LoopStops \/ LoopExhausted \/ RexxReload
                         \/ WokenByBreak \/ WokenByFailure
             PROVE  Inv'
  OBVIOUS
<1> USE DEF Inv
<1>1. ctl' \in ControlRecord
  <2>1. ctl \in ControlRecord /\ NoSock \in Sock
    BY DEF TypeOK, Sock
  <2>2. [ctl EXCEPT !.quit = TRUE] \in ControlRecord
    BY <2>1 DEF ControlRecord
  <2>3. CASE LoopStops
    BY <2>1, <2>3, SetSocketType DEF LoopStops
  <2>4. CASE WokenByBreak
    BY <2>1, <2>2, <2>4, SetSocketType DEF WokenByBreak
  <2>5. CASE LoopExhausted \/ RexxReload \/ WokenByFailure
    BY <2>1, <2>5 DEF LoopExhausted, RexxReload, WokenByFailure
  <2> QED  BY <2>3, <2>4, <2>5
<1>2. /\ pc' = "returned" /\ i' = 1 /\ wake' = Quiet /\ rc' \in Result
      /\ UNCHANGED <<valid, brk, count, runtime, watched, counters>>
      /\ open' \subseteq open /\ abandoned' \subseteq Fds
  <2>1. {sock[n] : n \in 1 .. count} \ {NoSock} \subseteq Fds
    BY MultiNetAssumption DEF TypeOK, Sock, Net
  <2>2. abandoned \subseteq Fds
    BY DEF TypeOK
  <2> QED
    BY <2>1, <2>2 DEF LoopStops, LoopExhausted, RexxReload, WokenByBreak,
       WokenByFailure, Return, CloseAll, LeaveOpen, Result, table
<1>3. wake' \in [rexx : BOOLEAN, brk : BOOLEAN, fail : BOOLEAN,
                 ready : SUBSET Net]
  BY <1>2 DEF Quiet
<1>4. TypeOK'
  BY <1>1, <1>2, <1>3, MultiNetAssumption DEF TypeOK, Location,
     runtime, counters
<1> QED
  BY <1>2, <1>4, StepOutside DEF InSet, Running

LEMMA BuildSetInv == Inv /\ BuildSet => Inv'
<1> SUFFICES ASSUME Inv, BuildSet PROVE Inv'
  OBVIOUS
<1> USE DEF Inv, BuildSet
<1>1. TypeOK'
  <2>1. ctl' \in ControlRecord
    BY DEF TypeOK, ControlRecord
  <2>2. /\ sock' \in [Net -> Sock] /\ watched' \in [Net -> Sock]
        /\ retryEnabled' \in [Net -> BOOLEAN]
        /\ retryWait' \in [Net -> 0 .. MaxWait]
        /\ due' \in [Net -> 0 .. MaxWait]
    BY MultiNetAssumption DEF Sock
  <2> QED  BY <2>1, <2>2, MultiNetAssumption DEF TypeOK, Location, table
<1>2. Started' = {}
  BY DEF Started
<1>3. UpNets' = {} /\ RetryNets' = {}
  BY <1>2 DEF UpNets, RetryNets
<1>4. CountersAgree'
  BY <1>3, FS_EmptySet DEF CountersAgree
<1>5. WatchedAgree' /\ RetryState' /\ SocketsOwned'
  BY <1>2 DEF WatchedAgree, RetryState, SocketsOwned
<1>6. PassState'
  BY MultiNetAssumption DEF PassState, TypeOK
<1> QED  BY <1>1, <1>4, <1>5, <1>6

-----------------------------------------------------------------------------
(* The first pass: network i joins the networks already tried.              *)

LEMMA ConnectOneInv == Inv /\ ConnectOne => Inv'
<1> SUFFICES ASSUME Inv, ConnectOne PROVE Inv'
  OBVIOUS
<1> USE DEF Inv
<1>1. PICK s \in Sock :
        /\ ConnectRuntime(i, s)
        /\ watched' = [watched EXCEPT ![i] = s]
        /\ IF s # NoSock
             THEN active' = active + 1
                  /\ UNCHANGED <<retryEnabled, retryWait, due, retrying>>
             ELSE /\ retryEnabled' = [retryEnabled EXCEPT ![i] = TRUE]
                  /\ ScheduleRetry(i, 1)
                  /\ retrying' = retrying + 1
                  /\ UNCHANGED active
  BY DEF ConnectOne
<1>2. /\ pc = "connect" /\ pc' = "connect" /\ i <= count
      /\ i' = i + 1 /\ InSet /\ InSet'
      /\ UNCHANGED <<valid, ctl, count, wake, rc, brk>>
  BY DEF ConnectOne, InSet
<1>3. i \in Net /\ i \in 1 .. MaxNets /\ i' \in 1 .. MaxNets + 1
  BY <1>2, MultiNetAssumption DEF TypeOK, Net
<1>4. Started' = Started \cup {i} /\ i \notin Started /\ Started \subseteq Net
  BY <1>2, <1>3, StartedNets, MultiNetAssumption DEF Started
<1>5. /\ s \in (Fds \ open) \cup {NoSock} /\ sock' = [sock EXCEPT ![i] = s]
      /\ open' = open \cup ({s} \ {NoSock}) /\ abandoned' = abandoned
  BY <1>1 DEF ConnectRuntime
<1>6. \A n \in Net : n # i => /\ sock'[n] = sock[n] /\ watched'[n] = watched[n]
                              /\ retryEnabled'[n] = retryEnabled[n]
                              /\ retryWait'[n] = retryWait[n]
                              /\ due'[n] = due[n]
  BY <1>1, <1>5 DEF TypeOK, ScheduleRetry
<1>7. sock'[i] = s /\ watched'[i] = s
  BY <1>1, <1>3, <1>5 DEF TypeOK
<1>8. /\ retryEnabled'[i] <=> s = NoSock
      /\ s = NoSock => retryWait'[i] = 1 /\ due'[i] = 1
  <2>1. ~retryEnabled[i]
    BY <1>2, <1>3, <1>4 DEF PassState
  <2> QED  BY <1>1, <1>3, <2>1 DEF TypeOK, ScheduleRetry
<1>9. CountersAgree'
  <2>1. CASE s # NoSock
    <3>1. UpNets' = UpNets \cup {i} /\ i \notin UpNets
      BY <1>4, <1>6, <1>7, <2>1 DEF UpNets
    <3>2. RetryNets' = RetryNets
      BY <1>4, <1>6, <1>8, <2>1 DEF RetryNets
    <3>3. Cardinality(UpNets') = Cardinality(UpNets) + 1
      BY <3>1, CountedNets, NetSets, CountUp
    <3> QED  BY <1>1, <1>2, <2>1, <3>2, <3>3 DEF CountersAgree
  <2>2. CASE s = NoSock
    <3>1. RetryNets' = RetryNets \cup {i} /\ i \notin RetryNets
      BY <1>4, <1>6, <1>8, <2>2 DEF RetryNets
    <3>2. UpNets' = UpNets
      BY <1>4, <1>6, <1>7, <2>2 DEF UpNets
    <3>3. Cardinality(RetryNets') = Cardinality(RetryNets) + 1
      BY <3>1, CountedNets, NetSets, CountUp
    <3> QED  BY <1>1, <1>2, <2>2, <3>2, <3>3 DEF CountersAgree
  <2> QED  BY <2>1, <2>2
<1>10. WatchedAgree'
  BY <1>2, <1>4, <1>6, <1>7 DEF WatchedAgree
<1>11. RetryState'
  BY <1>2, <1>4, <1>6, <1>7, <1>8, MultiNetAssumption DEF RetryState
<1>12. SocketsOwned'
  BY <1>2, <1>4, <1>5, <1>6, <1>7 DEF SocketsOwned
<1>13. PassState'
  BY <1>2, <1>3, <1>4, <1>6, MultiNetAssumption DEF PassState, TypeOK
<1>14. TypeOK'
  <2>1. /\ sock' \in [Net -> Sock] /\ watched' \in [Net -> Sock]
        /\ open' \subseteq Fds /\ abandoned' \subseteq Fds
    BY <1>1, <1>5 DEF TypeOK, Sock
  <2>2. /\ retryEnabled' \in [Net -> BOOLEAN]
        /\ retryWait' \in [Net -> 0 .. MaxWait]
        /\ due' \in [Net -> 0 .. MaxWait]
    <3>1. CASE s # NoSock
      BY <1>1, <3>1 DEF TypeOK
    <3>2. CASE s = NoSock
      <4>1. 1 \in 0 .. MaxWait
        BY MultiNetAssumption
      <4> QED  BY <1>1, <3>2, <4>1 DEF TypeOK, ScheduleRetry
    <3> QED  BY <3>1, <3>2
  <2>3. Started' \subseteq Net
    BY <1>3, <1>4
  <2>4. UpNets' \in SUBSET Net /\ RetryNets' \in SUBSET Net
    BY <2>3 DEF UpNets, RetryNets
  <2>5. active' \in 0 .. MaxNets /\ retrying' \in 0 .. MaxNets
    BY <1>2, <1>9, <2>4, NetSets DEF CountersAgree
  <2> QED  BY <1>2, <1>3, <2>1, <2>2, <2>5 DEF TypeOK, Location
<1> QED  BY <1>9, <1>10, <1>11, <1>12, <1>13, <1>14

LEMMA ConnectDoneInv == Inv /\ ConnectDone => Inv'
<1> SUFFICES ASSUME Inv, ConnectDone PROVE Inv'
  OBVIOUS
<1> USE DEF Inv
<1>1. /\ pc = "connect" /\ i > count /\ pc' = "loop" /\ i' = 1
      /\ InSet /\ InSet'
      /\ UNCHANGED <<valid, count, runtime, watched, counters, wake, rc, table,
                     brk>>
  BY DEF ConnectDone, InSet, Running
<1>2. Started' = Started
  BY <1>1, MultiNetAssumption DEF Started, PassState, TypeOK
<1>3. UpNets' = UpNets /\ RetryNets' = RetryNets
  BY <1>1, <1>2 DEF UpNets, RetryNets, runtime
<1>4. TypeOK'
  <2>1. 1 \in Net
    BY MultiNetAssumption DEF Net
  <2>2. ctl' \in ControlRecord
    BY <2>1, SetSocketType DEF ConnectDone, TypeOK
  <2> QED  BY <1>1, <2>2, MultiNetAssumption DEF TypeOK, Location, Running,
              runtime, counters, table
<1>5. CountersAgree'
  BY <1>1, <1>3 DEF CountersAgree, counters
<1>6. WatchedAgree' /\ RetryState' /\ SocketsOwned'
  BY <1>1, <1>2 DEF WatchedAgree, RetryState, SocketsOwned, runtime, table
<1>7. PassState'
  BY <1>1 DEF PassState
<1> QED  BY <1>4, <1>5, <1>6, <1>7

-----------------------------------------------------------------------------
(* The main loop: the steps that only look, wait or dispatch.               *)

LEMMA WakeInv == ASSUME NEW elapsed \in {0, 1}
                 PROVE  Inv /\ Wake(elapsed) => Inv'
<1> SUFFICES ASSUME Inv, Wake(elapsed) PROVE Inv'
  OBVIOUS
<1> USE DEF Inv
<1>1. /\ pc = "loop" /\ pc' \in {"rexx", "woken"} /\ brk' = FALSE
      /\ due' = [n \in Net |-> IF due[n] > elapsed THEN due[n] - elapsed ELSE 0]
      /\ UNCHANGED <<valid, ctl, i, count, sock, retryEnabled, retryWait,
                     watched, counters, rc, table>>
  BY DEF Wake
<1>2. wake' \in [rexx : BOOLEAN, brk : BOOLEAN, fail : BOOLEAN,
                 ready : SUBSET Net]
  <2>1. 1 .. count \subseteq Net
    BY MultiNetAssumption DEF TypeOK, Net
  <2>2. PICK r \in BOOLEAN, f \in BOOLEAN,
             ready \in SUBSET {n \in 1 .. count : watched[n] # NoSock} :
          wake' = [rexx |-> r, brk |-> brk, fail |-> f, ready |-> ready]
    BY DEF Wake
  <2> QED  BY <2>1, <2>2 DEF TypeOK
<1>3. /\ due' \in [Net -> 0 .. MaxWait]
      /\ \A n \in Net : due'[n] <= due[n]
  <2>1. \A n \in Net : due[n] \in 0 .. MaxWait
    BY DEF TypeOK
  <2>2. \A n \in Net :
          due'[n] = IF due[n] > elapsed THEN due[n] - elapsed ELSE 0
    BY <1>1
  <2>3. \A n \in Net : due'[n] \in 0 .. MaxWait /\ due'[n] <= due[n]
    BY <2>1, <2>2, MultiNetAssumption
  <2> QED  BY <1>1, <2>3
<1>4. TypeOK'
  BY <1>1, <1>2, <1>3 DEF TypeOK, Location, Running, counters, table
<1> QED
  BY <1>1, <1>3, <1>4, StepWithin DEF Running, table

LEMMA LookInv ==
  Inv /\ (RexxCommand \/ RexxDone \/ WokenToServe \/ RetrySkipped \/ RetryDone
            \/ ReadySkipped \/ ReadData \/ ReadyDone \/ HookCommand
            \/ FeedDone) => Inv'
<1> SUFFICES ASSUME Inv,
                    \/ RexxCommand \/ RexxDone \/ WokenToServe \/ RetrySkipped
                    \/ RetryDone \/ ReadySkipped \/ ReadData \/ ReadyDone
                    \/ HookCommand \/ FeedDone
             PROVE  Inv'
  OBVIOUS
<1> USE DEF Inv
<1>1. /\ UNCHANGED <<valid, count, runtime, watched, counters, table, rc, brk>>
      /\ pc \in Running /\ pc' \in Running
  BY DEF RexxCommand, RexxDone, WokenToServe, RetrySkipped, RetryDone,
     ReadySkipped, ReadData, ReadyDone, HookCommand, Execute, FeedDone,
     running, Running
<1>2. ctl' \in ControlRecord
  <2>1. CASE RexxCommand \/ HookCommand
    BY <2>1, DispatchType, MultiNetAssumption DEF RexxCommand, HookCommand,
       Execute, TypeOK
  <2>2. CASE ~(RexxCommand \/ HookCommand)
    BY <2>2 DEF RexxDone, WokenToServe, RetrySkipped, RetryDone, ReadySkipped,
       ReadData, ReadyDone, FeedDone, TypeOK
  <2> QED  BY <2>1, <2>2
<1>3. i' \in 1 .. MaxNets + 1 /\ (i' = i \/ pc' # "feed")
  BY MultiNetAssumption DEF RexxCommand, RexxDone, WokenToServe, RetrySkipped,
     RetryDone, ReadySkipped, ReadData, ReadyDone, HookCommand, Execute,
     FeedDone, running, TypeOK, PassState
<1>4. pc' = "feed" => i' <= count /\ sock[i'] # NoSock
  BY DEF RexxCommand, RexxDone, WokenToServe, RetrySkipped, RetryDone,
     ReadySkipped, ReadData, ReadyDone, HookCommand, Execute, FeedDone,
     running, Readable, PassState
<1>5. wake' = wake \/ wake' = Quiet
  BY DEF RexxCommand, RexxDone, WokenToServe, RetrySkipped, RetryDone,
     ReadySkipped, ReadData, ReadyDone, HookCommand, Execute, FeedDone, running
<1>6. TypeOK'
  <2>1. wake' \in [rexx : BOOLEAN, brk : BOOLEAN, fail : BOOLEAN,
                   ready : SUBSET Net]
    <3>1. Quiet \in [rexx : BOOLEAN, brk : BOOLEAN, fail : BOOLEAN,
                     ready : SUBSET Net]
      BY DEF Quiet
    <3>2. wake \in [rexx : BOOLEAN, brk : BOOLEAN, fail : BOOLEAN,
                    ready : SUBSET Net]
      BY DEF TypeOK
    <3> QED  BY <1>5, <3>1, <3>2
  <2>2. pc' \in Location
    BY <1>1 DEF Location
  <2> QED  BY <1>1, <1>2, <1>3, <2>1, <2>2 DEF TypeOK, runtime, counters, table
<1>7. \A n \in Net : due'[n] <= due[n]
  BY <1>1, MultiNetAssumption DEF runtime, TypeOK
<1> QED
  BY <1>1, <1>4, <1>6, <1>7, StepWithin DEF runtime, table

LEMMA OutsideInv ==
  Inv /\ (WaitingCommand \/ Break \/ UNCHANGED vars) => Inv'
<1> SUFFICES ASSUME Inv, WaitingCommand \/ Break \/ UNCHANGED vars PROVE Inv'
  OBVIOUS
<1> USE DEF Inv
<1>1. UNCHANGED <<pc, valid, running, rc>> /\ brk' \in BOOLEAN
  BY DEF WaitingCommand, Execute, Break, vars, TypeOK
<1>2. ctl' \in ControlRecord
  BY DispatchType, MultiNetAssumption DEF WaitingCommand, Execute, Break, vars,
     TypeOK
<1>3. TypeOK'
  BY <1>1, <1>2 DEF TypeOK, running, runtime, counters, table
<1>4. InSet' = InSet /\ Started' = Started
  BY <1>1 DEF InSet, Started, running
<1>5. UpNets' = UpNets /\ RetryNets' = RetryNets
  BY <1>1, <1>4 DEF UpNets, RetryNets, running, runtime
<1> QED
  BY <1>1, <1>3, <1>4, <1>5 DEF CountersAgree, WatchedAgree, RetryState,
     SocketsOwned, PassState, running, runtime, counters, table

-----------------------------------------------------------------------------
(* The main loop: the steps that change a connection.                       *)

(* Outside the first pass the counted sets range over the whole set, and a  *)
(* step on network i leaves the others alone.                               *)
LEMMA RetryConnectsInv == Inv /\ RetryConnects => Inv'
<1> SUFFICES ASSUME Inv, RetryConnects PROVE Inv'
  OBVIOUS
<1> USE DEF Inv
<1>1. /\ pc = "retry" /\ pc' = "retry" /\ i <= count /\ i' = i + 1
      /\ InSet /\ InSet' /\ retryEnabled[i]
      /\ retryEnabled' = [retryEnabled EXCEPT ![i] = FALSE]
      /\ active' = active + 1 /\ retrying' = retrying - 1
      /\ UNCHANGED <<valid, count, retryWait, due, wake, rc, brk>>
  BY DEF RetryConnects, RetryDue, InSet, Running
<1>2. /\ i \in Net /\ i \in Started /\ i' \in 1 .. MaxNets + 1
      /\ Started' = Started /\ Started \subseteq Net
  BY <1>1, StartedNets, MultiNetAssumption DEF TypeOK, Net, Started
<1>3. PICK s \in Fds :
        /\ ConnectRuntime(i, s)
        /\ watched' = [watched EXCEPT ![i] = s]
        /\ ctl' = IF i = 1 THEN SetSocket(ctl, s) ELSE ctl
  BY DEF RetryConnects
<1>4. s # NoSock /\ s \in Sock
  BY NoSockAssumption DEF Sock
<1>5. /\ s \in Fds \ open /\ sock' = [sock EXCEPT ![i] = s]
      /\ open' = open \cup {s} /\ abandoned' = abandoned
  BY <1>3, <1>4 DEF ConnectRuntime
<1>6. \A n \in Net : n # i => /\ sock'[n] = sock[n] /\ watched'[n] = watched[n]
                              /\ retryEnabled'[n] = retryEnabled[n]
  BY <1>1, <1>3, <1>5 DEF TypeOK
<1>7. sock'[i] = s /\ watched'[i] = s /\ ~retryEnabled'[i] /\ sock[i] = NoSock
  BY <1>1, <1>2, <1>3, <1>5 DEF TypeOK, RetryState
<1>8. CountersAgree'
  <2>1. UpNets' = UpNets \cup {i} /\ i \notin UpNets
    BY <1>2, <1>4, <1>6, <1>7 DEF UpNets
  <2>2. RetryNets' = RetryNets \ {i} /\ i \in RetryNets
    BY <1>1, <1>2, <1>6, <1>7 DEF RetryNets
  <2>3. Cardinality(UpNets') = Cardinality(UpNets) + 1
    BY <2>1, CountedNets, NetSets, CountUp
  <2>4. Cardinality(RetryNets') = Cardinality(RetryNets) - 1
    BY <2>2, CountedNets, NetSets, CountDown
  <2> QED  BY <1>1, <2>3, <2>4 DEF CountersAgree
<1>9. WatchedAgree' /\ RetryState'
  BY <1>1, <1>2, <1>6, <1>7 DEF WatchedAgree, RetryState
<1>10. SocketsOwned'
  BY <1>1, <1>2, <1>5, <1>6, <1>7 DEF SocketsOwned
<1>11. PassState'
  BY <1>1 DEF PassState
<1>12. TypeOK'
  <2>1. /\ sock' \in [Net -> Sock] /\ watched' \in [Net -> Sock]
        /\ open' \subseteq Fds /\ abandoned' \subseteq Fds
        /\ retryEnabled' \in [Net -> BOOLEAN]
    BY <1>1, <1>3, <1>4, <1>5 DEF TypeOK
  <2>2. ctl' \in ControlRecord
    BY <1>3, <1>4, SetSocketType DEF TypeOK
  <2>3. UpNets' \in SUBSET Net /\ RetryNets' \in SUBSET Net
    BY <1>2 DEF UpNets, RetryNets
  <2>4. active' \in 0 .. MaxNets /\ retrying' \in 0 .. MaxNets
    BY <1>1, <1>8, <2>3, NetSets DEF CountersAgree
  <2> QED  BY <1>1, <1>2, <2>1, <2>2, <2>4 DEF TypeOK, Location
<1> QED  BY <1>8, <1>9, <1>10, <1>11, <1>12

LEMMA NextWaitBounds ==
  ASSUME NEW wait \in 1 .. MaxWait
  PROVE  NextWait(wait) \in 1 .. MaxWait
BY MultiNetAssumption DEF NextWait

LEMMA RetryFailsInv == Inv /\ RetryFails => Inv'
<1> SUFFICES ASSUME Inv, RetryFails PROVE Inv'
  OBVIOUS
<1> USE DEF Inv
<1> DEFINE wait == NextWait(retryWait[i])
<1>1. /\ pc = "retry" /\ pc' = "retry" /\ i <= count /\ i' = i + 1
      /\ InSet /\ InSet' /\ retryEnabled[i]
      /\ UNCHANGED <<valid, ctl, count, retryEnabled, watched, counters, wake,
                     rc, brk>>
  BY DEF RetryFails, RetryDue, InSet, Running
<1>2. /\ i \in Net /\ i \in Started /\ i' \in 1 .. MaxNets + 1
      /\ Started' = Started /\ Started \subseteq Net
  BY <1>1, StartedNets, MultiNetAssumption DEF TypeOK, Net, Started
<1>3. /\ sock' = [sock EXCEPT ![i] = NoSock] /\ UNCHANGED table
      /\ retryWait' = [retryWait EXCEPT ![i] = wait]
      /\ due' = [due EXCEPT ![i] = wait]
  BY DEF RetryFails, ConnectRuntime, ScheduleRetry, table
<1>4. wait \in 1 .. MaxWait
  BY <1>1, <1>2, NextWaitBounds DEF RetryState
<1> HIDE DEF wait
<1>5. sock' = sock
  BY <1>1, <1>2, <1>3 DEF RetryState, TypeOK
<1>6. UpNets' = UpNets /\ RetryNets' = RetryNets
  BY <1>1, <1>2, <1>5 DEF UpNets, RetryNets
<1>7. CountersAgree' /\ WatchedAgree' /\ SocketsOwned' /\ PassState'
  BY <1>1, <1>2, <1>3, <1>5, <1>6 DEF CountersAgree, WatchedAgree, SocketsOwned,
     PassState, counters, table
<1>8. RetryState'
  <2> SUFFICES ASSUME NEW n \in Started, retryEnabled[n]
               PROVE  /\ sock[n] = NoSock /\ retryWait'[n] \in 1 .. MaxWait
                      /\ due'[n] <= retryWait'[n]
    BY <1>1, <1>2, <1>5 DEF RetryState
  <2>1. CASE n = i
    BY <1>1, <1>2, <1>3, <1>4, <2>1, MultiNetAssumption DEF RetryState, TypeOK
  <2>2. CASE n # i
    BY <1>1, <1>2, <1>3, <2>2 DEF RetryState, TypeOK
  <2> QED  BY <2>1, <2>2
<1>9. TypeOK'
  <2>1. wait \in 0 .. MaxWait
    BY <1>4
  <2>2. /\ retryWait' \in [Net -> 0 .. MaxWait]
        /\ due' \in [Net -> 0 .. MaxWait]
    BY <1>3, <2>1 DEF TypeOK
  <2> QED  BY <1>1, <1>2, <1>3, <1>5, <2>2 DEF TypeOK, counters, table
<1> QED  BY <1>7, <1>8, <1>9

(* Closing the descriptor of network i, which has one.                      *)
LEMMA DropInv ==
  ASSUME Inv, Drop(i), pc \in {"ready", "feed"}, pc' = "ready", i <= count,
         i' = i + 1, sock[i] # NoSock,
         UNCHANGED <<valid, count, wake, rc, brk>>,
         \/ /\ retryEnabled' = [retryEnabled EXCEPT ![i] = TRUE]
            /\ ScheduleRetry(i, 1)
            /\ retrying' = retrying + 1
         \/ UNCHANGED <<retryEnabled, retryWait, due, retrying>>
  PROVE  Inv'
<1> USE DEF Inv
<1>1. InSet /\ InSet' /\ pc # "connect" /\ pc' # "connect"
  BY DEF InSet, Running
<1>2. /\ i \in Net /\ i \in Started /\ i' \in 1 .. MaxNets + 1
      /\ Started' = Started /\ Started \subseteq Net
  BY <1>1, StartedNets, MultiNetAssumption DEF TypeOK, Net, Started
<1>3. /\ open' = open \ {sock[i]} /\ abandoned' = abandoned
      /\ sock' = [sock EXCEPT ![i] = NoSock]
      /\ watched' = [watched EXCEPT ![i] = NoSock]
      /\ active' = IF active > 0 THEN active - 1 ELSE active
  BY DEF Drop
<1>4. \A n \in Net : n # i => /\ sock'[n] = sock[n] /\ watched'[n] = watched[n]
                              /\ retryEnabled'[n] = retryEnabled[n]
                              /\ retryWait'[n] = retryWait[n]
                              /\ due'[n] = due[n]
  BY <1>3 DEF TypeOK, ScheduleRetry
<1>5. sock'[i] = NoSock /\ watched'[i] = NoSock /\ ~retryEnabled[i]
  BY <1>1, <1>2, <1>3 DEF TypeOK, RetryState
<1>6. retryEnabled'[i] => retryWait'[i] = 1 /\ due'[i] = 1
  BY <1>2, <1>5 DEF TypeOK, ScheduleRetry
<1>7. CountersAgree'
  <2>1. UpNets' = UpNets \ {i} /\ i \in UpNets
    BY <1>2, <1>4, <1>5 DEF UpNets
  <2>2. /\ Cardinality(UpNets') = Cardinality(UpNets) - 1
        /\ Cardinality(UpNets) > 0
    BY <2>1, CountedNets, NetSets, CountDown
  <2>3. active' = Cardinality(UpNets')
    BY <1>1, <1>3, <2>2 DEF CountersAgree
  <2>4. retrying' = Cardinality(RetryNets')
    <3>1. CASE UNCHANGED <<retryEnabled, retryWait, due, retrying>>
      BY <1>1, <1>2, <3>1 DEF RetryNets, CountersAgree
    <3>2. CASE retryEnabled' = [retryEnabled EXCEPT ![i] = TRUE]
               /\ retrying' = retrying + 1
      <4>1. RetryNets' = RetryNets \cup {i} /\ i \notin RetryNets
        BY <1>2, <1>4, <1>5, <3>2 DEF RetryNets, TypeOK
      <4>2. Cardinality(RetryNets') = Cardinality(RetryNets) + 1
        BY <4>1, CountedNets, NetSets, CountUp
      <4> QED  BY <1>1, <3>2, <4>2 DEF CountersAgree
    <3> QED  BY <3>1, <3>2
  <2> QED  BY <2>3, <2>4 DEF CountersAgree
<1>8. WatchedAgree' /\ PassState'
  BY <1>1, <1>2, <1>4, <1>5 DEF WatchedAgree, PassState
<1>9. RetryState'
  BY <1>1, <1>2, <1>4, <1>5, <1>6, MultiNetAssumption DEF RetryState
<1>10. SocketsOwned'
  BY <1>1, <1>2, <1>3, <1>4, <1>5 DEF SocketsOwned
<1>11. TypeOK'
  <2>1. /\ sock' \in [Net -> Sock] /\ watched' \in [Net -> Sock]
        /\ open' \subseteq Fds /\ abandoned' \subseteq Fds
    BY <1>3 DEF TypeOK, Sock
  <2>2. 1 \in 0 .. MaxWait
    BY MultiNetAssumption
  <2>3. /\ retryEnabled' \in [Net -> BOOLEAN]
        /\ retryWait' \in [Net -> 0 .. MaxWait]
        /\ due' \in [Net -> 0 .. MaxWait]
    BY <2>2 DEF TypeOK, ScheduleRetry
  <2>4. ctl' \in ControlRecord
    BY SetSocketType DEF Drop, TypeOK, Sock
  <2>5. UpNets' \in SUBSET Net /\ RetryNets' \in SUBSET Net
    BY <1>2 DEF UpNets, RetryNets
  <2>6. active' \in 0 .. MaxNets /\ retrying' \in 0 .. MaxNets
    BY <1>1, <1>7, <2>5, NetSets DEF CountersAgree
  <2> QED  BY <1>2, <2>1, <2>3, <2>4, <2>6 DEF TypeOK, Location, Running
<1> QED  BY <1>7, <1>8, <1>9, <1>10, <1>11

LEMMA ReadInv == Inv /\ (ReadLost \/ FeedNegotiationFails) => Inv'
<1> SUFFICES ASSUME Inv, ReadLost \/ FeedNegotiationFails PROVE Inv'
  OBVIOUS
<1>1. CASE ReadLost
  BY <1>1, DropInv DEF ReadLost, Readable
<1>2. CASE FeedNegotiationFails
  BY <1>2, DropInv DEF FeedNegotiationFails, Inv, PassState
<1> QED  BY <1>1, <1>2

-----------------------------------------------------------------------------

LEMMA NextInv == Inv /\ [Next]_vars => Inv'
<1> SUFFICES ASSUME Inv, [Next]_vars PROVE Inv'
  OBVIOUS
<1>1. CASE Supervise
  BY <1>1, SuperviseInv, BuildSetInv
<1>2. CASE Serve
  BY <1>2, ConnectOneInv, ConnectDoneInv, ReturnInv, LookInv, RetryConnectsInv,
     RetryFailsInv, ReadInv DEF Serve
<1>3. CASE \E elapsed \in {0, 1} : Wake(elapsed)
  BY <1>3, WakeInv
<1>4. CASE RexxCommand \/ HookCommand
  BY <1>4, LookInv
<1>5. CASE WaitingCommand \/ Break \/ Finished \/ UNCHANGED vars
  BY <1>5, OutsideInv DEF Finished
<1> QED  BY <1>1, <1>2, <1>3, <1>4, <1>5 DEF Next

(* The inductive invariant: the types, the counters, the descriptors and    *)
(* the retry state of the multi-network loop, for every set of networks.    *)
THEOREM Invariance == Spec => []Inv
<1>1. Init => Inv
  BY InitInv
<1>2. Inv /\ [Next]_vars => Inv'
  BY NextInv
<1> QED  BY <1>1, <1>2, PTL DEF Spec

-----------------------------------------------------------------------------
(* Who holds each descriptor.                                               *)

(* Steps that leave the table and the networks alone.                       *)
LEMMA LedgerSame ==
  ASSUME Inv, Ledger, InSet, InSet', UNCHANGED <<sock, table>>,
         Started' = Started,
         \/ pc \in Running /\ pc' \in Running
         \/ pc \notin Running /\ pc' \notin Running,
         ctl'.sock = ctl.sock
  PROVE  Ledger'
<1>1. UpNets' = UpNets
  BY DEF UpNets
<1> QED  BY <1>1 DEF Ledger, NoLeak, ControlFollowsFirst, table

LEMMA LedgerOutside ==
  ASSUME Inv, Ledger, ~InSet, ~InSet', UNCHANGED table, ctl'.sock = ctl.sock
  PROVE  Ledger'
BY DEF Ledger, NoLeak, ControlFollowsFirst, table, InSet

LEMMA LedgerEnd == Inv /\ End => Ledger'
<1> SUFFICES ASSUME Inv, End PROVE Ledger'
  OBVIOUS
<1>1. ctl'.sock = NoSock
  BY SetSocketKeeps DEF End, Inv, TypeOK, Sock
<1>2. ~InSet' /\ pc' \notin Running
  BY DEF End, InSet, Running
<1> QED  BY <1>1, <1>2 DEF End, Ledger, NoLeak, ControlFollowsFirst

LEMMA LedgerSupervise == Inv /\ Ledger /\ Supervise => Ledger'
<1> SUFFICES ASSUME Inv, Ledger, Supervise PROVE Ledger'
  OBVIOUS
<1>1. CASE BuildNothing \/ BuildStopped \/ ReturnedStopped
             \/ ReturnedUnreadable \/ StuckUnreadable
  BY <1>1, LedgerEnd DEF BuildNothing, BuildStopped, ReturnedStopped,
     ReturnedUnreadable, StuckUnreadable
<1>2. CASE \/ ReturnedReload \/ StuckReload \/ PauseReload
           \/ ReturnedDisconnected \/ ReturnedExhausted \/ ReturnedReconnect
           \/ IdleEnds \/ StuckEnds \/ PauseEnds
  <2>1. UNCHANGED running
    BY <1>2 DEF ReturnedReload, StuckReload, PauseReload, TakeReload,
       ReturnedDisconnected, ReturnedExhausted, ReturnedReconnect, IdleEnds,
       StuckEnds, PauseEnds
  <2>2. ~InSet /\ ~InSet'
    BY <1>2 DEF ReturnedReload, StuckReload, PauseReload, TakeReload,
       ReturnedDisconnected, ReturnedExhausted, ReturnedReconnect, IdleEnds,
       StuckEnds, PauseEnds, InSet, Running
  <2>3. ctl'.sock = ctl.sock
    BY <1>2 DEF ReturnedReload, StuckReload, PauseReload, TakeReload,
       ReturnedDisconnected, ReturnedExhausted, ReturnedReconnect, IdleEnds,
       StuckEnds, PauseEnds, Inv, TypeOK, ControlRecord
  <2> QED  BY <2>1, <2>2, <2>3, LedgerOutside DEF running
<1>3. CASE BuildSet
  <2>1. /\ pc = "build" /\ pc' = "connect" /\ UNCHANGED table
        /\ i' = 1 /\ ctl'.sock = ctl.sock
    BY <1>3 DEF BuildSet, Inv, TypeOK, ControlRecord
  <2>2. Started' = {}
    BY <2>1 DEF Started
  <2>3. UpNets' = {}
    BY <2>2 DEF UpNets
  <2>4. ~InSet /\ pc' \notin Running /\ pc \notin Running
    BY <2>1 DEF InSet, Running
  <2> QED  BY <2>1, <2>3, <2>4 DEF Ledger, NoLeak, ControlFollowsFirst, table
<1> QED  BY <1>1, <1>2, <1>3 DEF Supervise

LEMMA LedgerCommand ==
  Inv /\ Ledger /\ (RexxCommand \/ HookCommand \/ WaitingCommand) => Ledger'
<1> SUFFICES ASSUME Inv, Ledger, RexxCommand \/ HookCommand \/ WaitingCommand
             PROVE  Ledger'
  OBVIOUS
<1>1. PICK command \in Clients : ctl' = Dispatch(ctl, command)
  BY DEF RexxCommand, HookCommand, WaitingCommand, Execute
<1>2. ctl'.sock = ctl.sock
  BY <1>1, DispatchKeeps, MultiNetAssumption DEF Inv, TypeOK
<1>3. UNCHANGED <<pc, running>>
  BY DEF RexxCommand, HookCommand, WaitingCommand, Execute
<1>4. Started' = Started /\ InSet' = InSet
  BY <1>3 DEF Started, InSet, running
<1> QED
  BY <1>2, <1>3, <1>4, LedgerSame, LedgerOutside DEF running, runtime

LEMMA LedgerLook ==
  Inv /\ Ledger /\ (\/ RexxDone \/ WokenToServe \/ RetrySkipped \/ RetryDone
                    \/ ReadySkipped \/ ReadData \/ ReadyDone \/ FeedDone
                    \/ \E elapsed \in {0, 1} : Wake(elapsed)) => Ledger'
<1> SUFFICES ASSUME Inv, Ledger,
                    \/ RexxDone \/ WokenToServe \/ RetrySkipped
                    \/ RetryDone \/ ReadySkipped \/ ReadData \/ ReadyDone
                    \/ FeedDone \/ \E elapsed \in {0, 1} : Wake(elapsed)
             PROVE  Ledger'
  OBVIOUS
<1>1. UNCHANGED <<count, sock, table, ctl>> /\ pc \in Running /\ pc' \in Running
  BY DEF RexxDone, WokenToServe, RetrySkipped, RetryDone, ReadySkipped,
     ReadData, ReadyDone, FeedDone, Wake, running, runtime, Running
<1>2. InSet /\ InSet' /\ Started' = Started
  BY <1>1 DEF InSet, Started, Running
<1> QED  BY <1>1, <1>2, LedgerSame

LEMMA LedgerConnect ==
  Inv /\ Ledger /\ (ConnectOne \/ ConnectDone) => Ledger'
<1> SUFFICES ASSUME Inv, Ledger, ConnectOne \/ ConnectDone PROVE Ledger'
  OBVIOUS
<1>1. CASE ConnectOne
  <2>1. PICK s \in (Fds \ open) \cup {NoSock} :
          /\ sock' = [sock EXCEPT ![i] = s]
          /\ open' = open \cup ({s} \ {NoSock}) /\ abandoned' = abandoned
    BY <1>1 DEF ConnectOne, ConnectRuntime
  <2>2. /\ pc = "connect" /\ pc' = "connect" /\ i <= count /\ i' = i + 1
        /\ count' = count /\ ctl' = ctl
    BY <1>1 DEF ConnectOne
  <2>3. /\ Started' = Started \cup {i} /\ i \notin Started /\ i \in Net
        /\ Started \subseteq Net
    BY <2>2, StartedNets, MultiNetAssumption DEF Started, Inv, TypeOK, Net
  <2>4. sock'[i] = s /\ \A n \in Started : sock'[n] = sock[n]
    BY <2>1, <2>3 DEF Inv, TypeOK
  <2>5. UpNets' = UpNets \cup (IF s = NoSock THEN {} ELSE {i})
    BY <2>3, <2>4 DEF UpNets
  <2>6. {sock'[n] : n \in UpNets'} = {sock[n] : n \in UpNets}
                                       \cup ({s} \ {NoSock})
    BY <2>3, <2>4, <2>5 DEF UpNets
  <2>7. s \notin abandoned \/ s = NoSock
    BY <2>1 DEF Ledger, NoLeak
  <2>8. InSet /\ InSet' /\ pc \notin Running
    BY <2>2 DEF InSet, Running
  <2>9. NoLeak'
    BY <2>1, <2>6, <2>8 DEF Ledger, NoLeak
  <2>10. \A n \in UpNets' : sock'[n] \notin abandoned'
    BY <2>1, <2>3, <2>4, <2>5, <2>7, <2>8 DEF Ledger, UpNets
  <2> QED  BY <2>1, <2>2, <2>8, <2>9, <2>10 DEF Ledger, ControlFollowsFirst
<1>2. CASE ConnectDone
  <2>1. /\ pc = "connect" /\ pc' = "loop" /\ i > count /\ i' = 1
        /\ UNCHANGED <<count, sock, table>>
        /\ ctl' = IF sock[1] # NoSock THEN SetSocket(ctl, sock[1]) ELSE ctl
    BY <1>2 DEF ConnectDone, runtime
  <2>2. Started' = Started
    BY <2>1, MultiNetAssumption DEF Started, Inv, PassState, TypeOK
  <2>3. /\ UpNets' = UpNets /\ InSet /\ InSet'
        /\ pc \notin Running /\ pc' \in Running
    BY <2>1, <2>2 DEF UpNets, InSet, Running
  <2>4. 1 \in Net
    BY MultiNetAssumption DEF Net
  <2>5. ControlFollowsFirst'
    <3>1. CASE sock[1] # NoSock
      BY <2>1, <2>3, <2>4, <3>1, SetSocketKeeps DEF Inv, TypeOK,
         ControlFollowsFirst
    <3>2. CASE sock[1] = NoSock
      BY <2>1, <2>3, <3>2 DEF Ledger, ControlFollowsFirst, table
    <3> QED  BY <3>1, <3>2
  <2> QED  BY <2>1, <2>3, <2>5 DEF Ledger, NoLeak, table
<1> QED  BY <1>1, <1>2

LEMMA LedgerRetry ==
  Inv /\ Ledger /\ (RetryConnects \/ RetryFails) => Ledger'
<1> SUFFICES ASSUME Inv, Ledger, RetryConnects \/ RetryFails PROVE Ledger'
  OBVIOUS
<1>1. /\ pc = "retry" /\ pc' = "retry" /\ i <= count /\ retryEnabled[i]
      /\ count' = count
  BY DEF RetryConnects, RetryFails, RetryDue
<1>2. InSet /\ InSet' /\ pc \in Running /\ Started' = Started
  BY <1>1 DEF InSet, Running, Started
<1>3. i \in Started /\ i \in Net /\ Started \subseteq Net /\ 1 \in Net
  BY <1>1, StartedNets, MultiNetAssumption DEF Inv, TypeOK, Started, Net
<1>4. sock[i] = NoSock
  BY <1>2, <1>1, <1>3 DEF Inv, RetryState
<1>5. CASE RetryFails
  <2>1. sock' = sock /\ UNCHANGED <<table, ctl>>
    BY <1>3, <1>4, <1>5 DEF RetryFails, ConnectRuntime, table, Inv, TypeOK
  <2> QED  BY <1>1, <1>2, <2>1, LedgerSame
<1>6. CASE RetryConnects
  <2>1. PICK s \in Fds : ConnectRuntime(i, s) /\ Tell(i, s)
    BY <1>6 DEF RetryConnects
  <2>2. s # NoSock /\ s \in Sock
    BY NoSockAssumption DEF Sock
  <2>3. /\ s \in Fds \ open /\ sock' = [sock EXCEPT ![i] = s]
        /\ open' = open \cup {s} /\ abandoned' = abandoned
    BY <2>1, <2>2 DEF ConnectRuntime
  <2>4. sock'[i] = s /\ \A n \in Net \ {i} : sock'[n] = sock[n]
    BY <1>3, <2>3 DEF Inv, TypeOK
  <2>5. UpNets' = UpNets \cup {i} /\ i \notin UpNets
    BY <1>2, <1>3, <1>4, <2>2, <2>4 DEF UpNets
  <2>6. {sock'[n] : n \in UpNets'} = {sock[n] : n \in UpNets} \cup {s}
    BY <1>3, <2>4, <2>5 DEF UpNets
  <2>7. s \notin abandoned
    BY <2>3 DEF Ledger, NoLeak
  <2>8. NoLeak'
    BY <1>2, <2>3, <2>6 DEF Ledger, NoLeak
  <2>9. \A n \in UpNets' : sock'[n] \notin abandoned'
    BY <1>2, <1>3, <2>3, <2>4, <2>5, <2>7 DEF Ledger, UpNets
  <2>10. ControlFollowsFirst'
    <3>1. CASE i = 1
      BY <1>2, <1>1, <2>1, <2>2, <2>4, <3>1, SetSocketKeeps DEF Tell, Inv,
         TypeOK, ControlFollowsFirst
    <3>2. CASE i # 1
      <4>1. sock'[1] = sock[1] /\ ctl' = ctl
        BY <1>3, <2>1, <2>4, <3>2 DEF Tell
      <4> QED  BY <1>1, <1>2, <2>3, <4>1 DEF Ledger, ControlFollowsFirst
    <3> QED  BY <3>1, <3>2
  <2> QED  BY <2>8, <2>9, <2>10 DEF Ledger
<1> QED  BY <1>5, <1>6

LEMMA LedgerDrop ==
  Inv /\ Ledger /\ (ReadLost \/ FeedNegotiationFails) => Ledger'
<1> SUFFICES ASSUME Inv, Ledger, ReadLost \/ FeedNegotiationFails
             PROVE  Ledger'
  OBVIOUS
<1>1. /\ pc \in {"ready", "feed"} /\ pc' = "ready" /\ i <= count
      /\ sock[i] # NoSock /\ count' = count /\ Drop(i)
  BY DEF ReadLost, FeedNegotiationFails, Readable, Inv, PassState
<1>2. InSet /\ InSet' /\ pc \in Running /\ pc' \in Running /\ Started' = Started
  BY <1>1 DEF InSet, Running, Started
<1>3. i \in Started /\ i \in Net /\ Started \subseteq Net /\ 1 \in Net
  BY <1>1, StartedNets, MultiNetAssumption DEF Inv, TypeOK, Started, Net
<1>4. /\ open' = open \ {sock[i]} /\ abandoned' = abandoned
      /\ sock' = [sock EXCEPT ![i] = NoSock]
      /\ ctl' = IF i = 1 THEN SetSocket(ctl, NoSock) ELSE ctl
  BY <1>1 DEF Drop, Tell
<1>5. sock'[i] = NoSock /\ \A n \in Net \ {i} : sock'[n] = sock[n]
  BY <1>3, <1>4 DEF Inv, TypeOK
<1>6. UpNets' = UpNets \ {i} /\ i \in UpNets
  BY <1>1, <1>2, <1>3, <1>5 DEF UpNets
<1>7. \A n \in UpNets : sock[n] = sock[i] => n = i
  BY <1>2, <1>3, <1>6 DEF Inv, SocketsOwned, UpNets
<1>8. {sock'[n] : n \in UpNets'} = {sock[n] : n \in UpNets} \ {sock[i]}
  BY <1>3, <1>5, <1>6, <1>7 DEF UpNets
<1>9. sock[i] \notin abandoned
  BY <1>2, <1>6 DEF Ledger
<1>10. NoLeak'
  BY <1>2, <1>4, <1>8, <1>9 DEF Ledger, NoLeak
<1>11. \A n \in UpNets' : sock'[n] \notin abandoned'
  BY <1>2, <1>3, <1>4, <1>5, <1>6 DEF Ledger, UpNets
<1>12. ControlFollowsFirst'
  <2>1. CASE i = 1
    BY <1>1, <1>2, <1>4, <1>5, <2>1, SetSocketKeeps DEF Inv, TypeOK, Sock,
       ControlFollowsFirst
  <2>2. CASE i # 1
    <3>1. sock'[1] = sock[1] /\ ctl' = ctl
      BY <1>3, <1>4, <1>5, <2>2
    <3> QED  BY <1>2, <1>4, <3>1 DEF Ledger, ControlFollowsFirst
  <2> QED  BY <2>1, <2>2
<1> QED  BY <1>10, <1>11, <1>12 DEF Ledger

LEMMA LedgerReturn ==
  Inv /\ Ledger /\ (LoopStops \/ LoopExhausted \/ RexxReload \/ WokenByBreak
                      \/ WokenByFailure) => Ledger'
<1> SUFFICES ASSUME Inv, Ledger, \/ LoopStops \/ LoopExhausted \/ RexxReload
                                 \/ WokenByBreak \/ WokenByFailure
             PROVE  Ledger'
  OBVIOUS
<1> DEFINE held == {sock[n] : n \in 1 .. count}
<1>1. pc \in Running \ {"feed"} /\ pc' = "returned"
  BY DEF LoopStops, LoopExhausted, RexxReload, WokenByBreak, WokenByFailure,
     Return, Running
<1>2. /\ InSet /\ ~InSet' /\ pc' \notin Running /\ pc \in Running
      /\ Started = 1 .. count
  BY <1>1 DEF InSet, Running, Started
<1>3. {sock[n] : n \in UpNets} = held \ {NoSock}
  BY <1>2 DEF UpNets
<1>4. 1 \in 1 .. count
  BY <1>2 DEF Inv, PassState, TypeOK
<1>5. NoSock \notin open /\ NoSock \notin abandoned
  BY NoSockAssumption DEF Inv, TypeOK
<1>6. open = abandoned \cup (held \ {NoSock})
  BY <1>2, <1>3 DEF Ledger, NoLeak
<1>7. abandoned \cap (held \ {NoSock}) = {}
  BY <1>2, <1>3 DEF Ledger
<1>8. CASE LoopStops \/ WokenByBreak
  <2>1. open' = open \ held /\ abandoned' = abandoned
    BY <1>8 DEF LoopStops, WokenByBreak, CloseAll
  <2>2. open' = abandoned'
    BY <1>5, <1>6, <1>7, <2>1
  <2>3. ctl'.sock = NoSock
    <3>1. ctl \in ControlRecord /\ NoSock \in Sock
      BY DEF Inv, TypeOK, Sock
    <3>2. [ctl EXCEPT !.quit = TRUE] \in ControlRecord
      BY <3>1 DEF ControlRecord
    <3> QED  BY <1>8, <3>1, <3>2, SetSocketKeeps DEF LoopStops, WokenByBreak
  <2> QED  BY <1>2, <2>2, <2>3 DEF Ledger, NoLeak, ControlFollowsFirst
<1>9. CASE RexxReload \/ WokenByFailure
  <2>1. /\ abandoned' = abandoned \cup (held \ {NoSock})
        /\ open' = open /\ ctl' = ctl
    BY <1>9 DEF RexxReload, WokenByFailure, LeaveOpen
  <2>2. ctl.sock \in abandoned' \cup {NoSock}
    BY <1>2, <1>4, <2>1 DEF Ledger, ControlFollowsFirst
  <2> QED  BY <1>2, <1>6, <2>1, <2>2 DEF Ledger, NoLeak, ControlFollowsFirst
<1>10. CASE LoopExhausted
  <2>1. active = 0 /\ UNCHANGED <<open, abandoned, ctl>>
    BY <1>10 DEF LoopExhausted, NoneLeft, table
  <2>2. UpNets = {}
    BY <1>2, <2>1, CountedNets, NetSets, FS_EmptySet DEF Inv, CountersAgree
  <2>3. sock[1] = NoSock
    BY <1>2, <1>4, <2>2 DEF UpNets
  <2>4. ctl.sock \in abandoned \cup {NoSock}
    BY <1>2, <2>3 DEF Ledger, ControlFollowsFirst
  <2>5. held \ {NoSock} = {}
    BY <1>3, <2>2
  <2> QED
    BY <1>2, <1>6, <2>1, <2>4, <2>5 DEF Ledger, NoLeak, ControlFollowsFirst
<1> QED  BY <1>8, <1>9, <1>10

LEMMA LedgerNext == Inv /\ Ledger /\ [Next]_vars => Ledger'
<1> SUFFICES ASSUME Inv, Ledger, [Next]_vars PROVE Ledger'
  OBVIOUS
<1>1. CASE Supervise
  BY <1>1, LedgerSupervise
<1>2. CASE Serve
  BY <1>2, LedgerConnect, LedgerReturn, LedgerLook, LedgerRetry, LedgerDrop
     DEF Serve
<1>3. CASE \E elapsed \in {0, 1} : Wake(elapsed)
  BY <1>3, LedgerLook
<1>4. CASE RexxCommand \/ HookCommand \/ WaitingCommand
  BY <1>4, LedgerCommand
<1>5. CASE Break \/ Finished \/ UNCHANGED vars
  <2>1. UNCHANGED <<pc, ctl, running>>
    BY <1>5 DEF Break, Finished, vars
  <2>2. Started' = Started /\ InSet' = InSet
    BY <2>1 DEF Started, InSet, running
  <2> QED  BY <2>1, <2>2, LedgerSame, LedgerOutside DEF running, runtime
<1> QED  BY <1>1, <1>2, <1>3, <1>4, <1>5 DEF Next

LEMMA LedgerCorrect == Spec => []Ledger
<1>1. Init => Ledger
  BY DEF Init, ControlInit, Ledger, NoLeak, ControlFollowsFirst, InSet, Running
<1>2. Inv /\ Ledger /\ [Next]_vars => Ledger'
  BY LedgerNext
<1> QED  BY <1>1, <1>2, Invariance, PTL DEF Spec

(* Only a RELOAD and a failed wait leave descriptors open, whatever the     *)
(* networks, the commands and the order of failures.                        *)
THEOREM NoLeakCorrect == Spec => []NoLeak
<1>1. Ledger => NoLeak
  BY DEF Ledger
<1> QED  BY <1>1, LedgerCorrect, PTL

(* Commands that send a line reach the first network's connection, or one   *)
(* that was abandoned, or none.                                             *)
THEOREM ControlFollows == Spec => []ControlFollowsFirst
<1>1. Ledger => ControlFollowsFirst
  BY DEF Ledger
<1> QED  BY <1>1, LedgerCorrect, PTL

(* The counters active and retrying always say how many networks are        *)
(* connected and how many wait for a retry.                                 *)
THEOREM CountersCorrect == Spec => []CountersAgree
<1>1. Inv => CountersAgree
  BY DEF Inv
<1> QED  BY <1>1, Invariance, PTL

(* Every network's descriptor is open and its own.                          *)
THEOREM DescriptorsCorrect == Spec => []SocketsOwned
<1>1. Inv => SocketsOwned
  BY DEF Inv
<1> QED  BY <1>1, Invariance, PTL

(* WaitSelect is given exactly the descriptors the networks hold.           *)
THEOREM WatchedCorrect == Spec => []WatchedAgree
<1>1. Inv => WatchedAgree
  BY DEF Inv
<1> QED  BY <1>1, Invariance, PTL

(* No retry overwrites a descriptor, and its delay is within the cap.       *)
THEOREM RetryCorrect == Spec => []RetryState
<1>1. Inv => RetryState
  BY DEF Inv
<1> QED  BY <1>1, Invariance, PTL

(* Every variable keeps its type.                                           *)
THEOREM TypeCorrect == Spec => []TypeOK
<1>1. Inv => TypeOK
  BY DEF Inv
<1> QED  BY <1>1, Invariance, PTL

-----------------------------------------------------------------------------
(* Without a RELOAD and without a failed wait                               *)

Undisturbed == "RELOAD" \notin Clients /\ ~WaitMayFail

Clean == ctl.reload = FALSE /\ wake.fail = FALSE /\ abandoned = {}

LEMMA ReloadKept ==
  ASSUME NEW c \in ControlRecord
  PROVE  /\ \A s : SetSocket(c, s).reload = c.reload
         /\ \A command \in Command \ {"RELOAD"} :
              Dispatch(c, command).reload = c.reload
         /\ SetSocket([c EXCEPT !.quit = TRUE], NoSock).reload = c.reload
BY DEF ControlRecord, SetSocket, Dispatch, Command, OpConnect, OpDisconnect,
       OpQuit, Connected

LEMMA CleanWithin ==
  ASSUME TypeOK, Clean, Serve
  PROVE  Clean'
<1> USE DEF Clean, fleet, frame, table
<1>1. ctl \in ControlRecord /\ Quiet.fail = FALSE
  BY DEF TypeOK, Quiet
<1>2. CASE ConnectOne \/ RetryFails \/ RetryConnects
  <2>1. wake' = wake /\ abandoned' = abandoned
    BY <1>2 DEF ConnectOne, RetryFails, RetryConnects, ConnectRuntime
  <2>2. ctl' = ctl \/ \E s \in Fds : ctl' = SetSocket(ctl, s)
    BY <1>2 DEF ConnectOne, RetryFails, RetryConnects, Tell
  <2> QED  BY <1>1, <2>1, <2>2, ReloadKept
<1>3. CASE ConnectDone
  <2>1. ctl' = ctl \/ ctl' = SetSocket(ctl, sock[1])
    BY <1>3 DEF ConnectDone
  <2> QED  BY <1>1, <1>3, <2>1, ReloadKept DEF ConnectDone
<1>4. CASE LoopStops \/ LoopExhausted \/ WokenByBreak
  <2>1. wake' = Quiet /\ abandoned' = abandoned
    BY <1>4 DEF LoopStops, LoopExhausted, WokenByBreak, Return, CloseAll
  <2>2. \/ ctl' = ctl \/ ctl' = SetSocket(ctl, NoSock)
        \/ ctl' = SetSocket([ctl EXCEPT !.quit = TRUE], NoSock)
    BY <1>4 DEF LoopStops, LoopExhausted, WokenByBreak
  <2> QED  BY <1>1, <2>1, <2>2, ReloadKept
<1>5. CASE \/ RexxDone \/ WokenToServe \/ RetrySkipped \/ RetryDone
           \/ ReadySkipped \/ ReadData \/ ReadyDone \/ FeedDone
  BY <1>1, <1>5 DEF RexxDone, WokenToServe, RetrySkipped, RetryDone,
                    ReadySkipped, ReadData, ReadyDone, FeedDone, running
<1>6. CASE ReadLost \/ FeedNegotiationFails
  <2>1. wake' = wake /\ abandoned' = abandoned
    BY <1>6 DEF ReadLost, FeedNegotiationFails, Drop
  <2>2. ctl' = ctl \/ ctl' = SetSocket(ctl, NoSock)
    BY <1>6 DEF ReadLost, FeedNegotiationFails, Drop, Tell
  <2> QED  BY <1>1, <2>1, <2>2, ReloadKept
<1>7. ~RexxReload /\ ~WokenByFailure
  BY DEF RexxReload, WokenByFailure
<1> QED  BY <1>2, <1>3, <1>4, <1>5, <1>6, <1>7 DEF Serve

LEMMA CleanOutside ==
  ASSUME TypeOK, Clean, Supervise
  PROVE  Clean'
<1> USE DEF Clean, running, table
<1>1. ctl \in ControlRecord
  BY DEF TypeOK
<1>2. CASE End
  BY <1>1, <1>2, ReloadKept DEF End
<1>3. CASE TakeReload
  BY <1>1, <1>3 DEF TakeReload, ControlRecord
<1>4. CASE BuildSet
  BY <1>1, <1>4 DEF BuildSet, ControlRecord
<1>5. CASE ReturnedDisconnected \/ ReturnedExhausted
  BY <1>1, <1>5 DEF ReturnedDisconnected, ReturnedExhausted, ControlRecord
<1>6. CASE ReturnedReconnect \/ IdleEnds \/ StuckEnds \/ PauseEnds
  BY <1>6 DEF ReturnedReconnect, IdleEnds, StuckEnds, PauseEnds
<1> QED  BY <1>2, <1>3, <1>4, <1>5, <1>6
         DEF Supervise, BuildNothing, BuildStopped, ReturnedStopped,
             ReturnedReload, ReturnedUnreadable, StuckReload, StuckUnreadable,
             PauseReload

LEMMA CleanNext ==
  ASSUME Undisturbed, TypeOK, Clean, [Next]_vars
  PROVE  Clean'
<1> USE DEF Clean, running, table
<1>1. ctl \in ControlRecord
  BY DEF TypeOK
<1>2. CASE \E elapsed \in {0, 1} : Wake(elapsed)
  BY <1>2 DEF Wake, Undisturbed
<1>3. CASE RexxCommand \/ HookCommand \/ WaitingCommand
  <2>1. PICK command \in Command \ {"RELOAD"} : ctl' = Dispatch(ctl, command)
    BY <1>3, MultiNetAssumption
       DEF RexxCommand, HookCommand, WaitingCommand, Execute, Undisturbed
  <2>2. wake' = wake /\ abandoned' = abandoned
    BY <1>3 DEF RexxCommand, HookCommand, WaitingCommand, Execute
  <2> QED  BY <1>1, <2>1, <2>2, ReloadKept
<1>4. CASE Break \/ Finished \/ UNCHANGED vars
  BY <1>4 DEF Break, Finished, vars
<1> QED  BY <1>2, <1>3, <1>4, CleanWithin, CleanOutside DEF Next

LEMMA CleanAlways ==
  ASSUME Undisturbed
  PROVE  Spec => []Clean
<1>1. Init => Clean
  BY DEF Init, Clean, ControlInit, Quiet
<1>2. TypeOK /\ Clean /\ [Next]_vars => Clean'
  BY CleanNext
<1> QED  BY <1>1, <1>2, TypeCorrect, PTL DEF Spec

(* RELOAD and a failed wait are the only reasons why the control record can  *)
(* name an abandoned connection: where no client sends the one and the      *)
(* other does not happen, commands reach the first network's connection     *)
(* while a set runs, and are refused while none does (docs/M7.md:52).       *)
THEOREM ControlExact ==
  ASSUME Undisturbed
  PROVE  Spec => [](ctl.sock = IF pc \in Running THEN sock[1] ELSE NoSock)
<1>1. Clean /\ ControlFollowsFirst
        => ctl.sock = IF pc \in Running THEN sock[1] ELSE NoSock
  BY DEF Clean, ControlFollowsFirst
<1> QED  BY <1>1, CleanAlways, ControlFollows, PTL

-----------------------------------------------------------------------------
(* How a set ends.                                                          *)

(* A loop that ends for QUIT, DISCONNECT or Ctrl-C, or because no network is *)
(* left, leaves nothing open but what earlier loops abandoned; one that ends *)
(* for a RELOAD or after a failed wait closes nothing.                      *)
SetClosed ==
  [][ InSet /\ ~InSet' =>
        \/ rc' \in {"STOP", "NO_RETRYABLE"} /\ open' = abandoned
             /\ abandoned' = abandoned
        \/ rc' \in {"RELOAD", "RECONNECT"} /\ open' = open ]_vars

(* A running set ends by one of the five returns of ambot_multinet_run.     *)
LEMMA SetEnds ==
  ASSUME [Next]_vars, InSet, ~InSet'
  PROVE  LoopStops \/ LoopExhausted \/ RexxReload \/ WokenByBreak
           \/ WokenByFailure
<1>1. ~Supervise
  BY DEF Supervise, BuildNothing, BuildSet, BuildStopped, ReturnedStopped,
     ReturnedReload, ReturnedUnreadable, ReturnedDisconnected,
     ReturnedExhausted, ReturnedReconnect, IdleEnds, StuckEnds, StuckReload,
     StuckUnreadable, PauseEnds, PauseReload, InSet, Running
<1>2. ASSUME pc' = pc PROVE FALSE
  BY <1>2 DEF InSet
<1>3. ASSUME pc' \in Running PROVE FALSE
  BY <1>3 DEF InSet
<1>4. ~(RexxCommand \/ HookCommand \/ WaitingCommand \/ Break \/ Finished
          \/ UNCHANGED vars \/ \E elapsed \in {0, 1} : Wake(elapsed))
  BY <1>2, <1>3 DEF RexxCommand, HookCommand, WaitingCommand, Execute, Break,
     Finished, vars, Wake, Running
<1>5. ~(ConnectOne \/ ConnectDone \/ RexxDone \/ WokenToServe \/ RetrySkipped
          \/ RetryConnects \/ RetryFails \/ RetryDone \/ ReadySkipped
          \/ ReadLost \/ ReadData \/ ReadyDone \/ FeedDone
          \/ FeedNegotiationFails)
  BY <1>2, <1>3 DEF ConnectOne, ConnectDone, RexxDone, WokenToServe,
     RetrySkipped, RetryConnects, RetryFails, RetryDone, ReadySkipped,
     ReadLost, ReadData, ReadyDone, FeedDone, FeedNegotiationFails, Running
<1> QED  BY <1>1, <1>4, <1>5 DEF Next, Serve

LEMMA SetClosedStep ==
  ASSUME Inv, Ledger, [Next]_vars, InSet, ~InSet'
  PROVE  \/ rc' \in {"STOP", "NO_RETRYABLE"} /\ open' = abandoned
              /\ abandoned' = abandoned
         \/ rc' \in {"RELOAD", "RECONNECT"} /\ open' = open
<1>1. open' = abandoned'
  BY LedgerNext DEF Ledger, NoLeak
<1>2. CASE LoopStops \/ WokenByBreak \/ LoopExhausted
  BY <1>1, <1>2 DEF LoopStops, WokenByBreak, LoopExhausted, Return, CloseAll,
     table
<1>3. CASE RexxReload \/ WokenByFailure
  BY <1>3 DEF RexxReload, WokenByFailure, Return, LeaveOpen
<1> QED  BY <1>2, <1>3, SetEnds

(* An orderly end of a set closes every connection of it, however many      *)
(* networks it has and in whatever state each of them is.                   *)
THEOREM TeardownCorrect == Spec => SetClosed
<1>1. Inv /\ Ledger /\ [Next]_vars =>
        [ InSet /\ ~InSet' =>
            \/ rc' \in {"STOP", "NO_RETRYABLE"} /\ open' = abandoned
                 /\ abandoned' = abandoned
            \/ rc' \in {"RELOAD", "RECONNECT"} /\ open' = open ]_vars
  BY SetClosedStep
<1> QED  BY <1>1, Invariance, LedgerCorrect, PTL DEF Spec, SetClosed

-----------------------------------------------------------------------------
(* Requests                                                                 *)

(* A step of the loop raises QUIT or leaves the requests alone, except that *)
(* a connection satisfies a request for one.                                *)
LEMMA ServeKeeps ==
  ASSUME TypeOK, Serve
  PROVE  /\ ctl.quit => ctl'.quit
         /\ ctl'.disconnect = ctl.disconnect
         /\ ctl'.connect => ctl.connect
<1>1. /\ ctl \in ControlRecord /\ NoSock \in Sock /\ sock[1] \in Sock
      /\ [ctl EXCEPT !.quit = TRUE] \in ControlRecord
  <2>1. ctl \in ControlRecord /\ NoSock \in Sock
    BY DEF TypeOK, Sock
  <2>2. [ctl EXCEPT !.quit = TRUE] \in ControlRecord
    BY <2>1 DEF ControlRecord
  <2>3. sock[1] \in Sock
    BY MultiNetAssumption DEF TypeOK, Net
  <2> QED  BY <2>1, <2>2, <2>3
<1>3. \/ ctl' = ctl
      \/ \E s \in Sock : ctl' = SetSocket(ctl, s)
      \/ ctl' = SetSocket([ctl EXCEPT !.quit = TRUE], NoSock)
  <2>1. CASE ConnectDone
    BY <1>1, <2>1 DEF ConnectDone
  <2>2. CASE LoopStops \/ WokenByBreak
    BY <1>1, <2>2 DEF LoopStops, WokenByBreak
  <2>3. CASE RetryConnects \/ ReadLost \/ FeedNegotiationFails
    BY <1>1, <2>3 DEF RetryConnects, ReadLost, FeedNegotiationFails, Drop, Sock
  <2>4. CASE \/ ConnectOne \/ LoopExhausted \/ RexxDone \/ RexxReload
             \/ WokenByFailure \/ WokenToServe \/ RetrySkipped \/ RetryFails
             \/ RetryDone \/ ReadySkipped \/ ReadData \/ ReadyDone \/ FeedDone
    BY <2>4 DEF ConnectOne, LoopExhausted, RexxDone, RexxReload,
       WokenByFailure, WokenToServe, RetrySkipped, RetryFails, RetryDone,
       ReadySkipped, ReadData, ReadyDone, FeedDone
  <2> QED  BY <2>1, <2>2, <2>3, <2>4 DEF Serve
<1>4. CASE \E s \in Sock : ctl' = SetSocket(ctl, s)
  BY <1>1, <1>4, SetSocketKeeps
<1>5. CASE ctl' = SetSocket([ctl EXCEPT !.quit = TRUE], NoSock)
  <2> DEFINE c == [ctl EXCEPT !.quit = TRUE]
  <2>1. c.quit /\ c.disconnect = ctl.disconnect /\ c.connect = ctl.connect
    BY <1>1 DEF ControlRecord
  <2>2. c \in ControlRecord
    BY <1>1
  <2> HIDE DEF c
  <2>3. /\ SetSocket(c, NoSock).quit = c.quit
        /\ SetSocket(c, NoSock).disconnect = c.disconnect
        /\ SetSocket(c, NoSock).connect => c.connect
    BY <1>1, <2>2, SetSocketKeeps
  <2> QED  BY <1>5, <2>1, <2>3, Zenon DEF c
<1> QED  BY <1>3, <1>4, <1>5

LEMMA CommandStep ==
  ASSUME TypeOK, RexxCommand \/ HookCommand \/ WaitingCommand
  PROVE  /\ ctl.quit => ctl'.quit
         /\ ctl.disconnect /\ ~ctl'.disconnect => ctl'.connect
         /\ ~(ctl.connect /\ ctl.disconnect)
              => ~(ctl'.connect /\ ctl'.disconnect)
         /\ pc' = pc /\ pc # "build" /\ rc' = rc
<1>1. PICK command \in Command : ctl' = Dispatch(ctl, command)
  BY MultiNetAssumption DEF RexxCommand, HookCommand, WaitingCommand, Execute
<1>2. ctl \in ControlRecord
  BY DEF TypeOK
<1>3. ~(ctl.connect /\ ctl.disconnect) => ~(ctl'.connect /\ ctl'.disconnect)
  BY <1>1, <1>2 DEF ControlRecord, Command, Dispatch, OpConnect, OpDisconnect,
     OpReload, OpQuit
<1>4. pc' = pc /\ pc # "build" /\ rc' = rc
  BY DEF RexxCommand, HookCommand, WaitingCommand, Execute, Waiting
<1> QED  BY <1>1, <1>2, <1>3, <1>4, DispatchKeeps

(* What the supervisor does with the requests.                              *)
LEMMA SuperviseStep ==
  ASSUME TypeOK, NoLeak, Pending, Supervise
  PROVE  /\ ctl.quit => ctl'.quit
         /\ ctl.disconnect /\ ~ctl'.disconnect => Withdrawn
         /\ Pending'
<1>1. ctl \in ControlRecord /\ NoSock \in Sock
  BY DEF TypeOK, Sock
<1>2. CASE End
  <2>1. pc' = "done" /\ ctl' = SetSocket(ctl, NoSock)
    BY <1>2 DEF End
  <2> QED  BY <1>1, <2>1, SetSocketKeeps DEF Pending
<1>3. CASE BuildSet
  <2>1. /\ ctl'.quit = ctl.quit /\ ~ctl'.disconnect
        /\ pc' = "connect" /\ pc = "build" /\ ~ctl.quit /\ ~brk
    BY <1>1, <1>3 DEF BuildSet, ControlRecord
  <2> QED  BY <2>1 DEF Pending, Withdrawn
<1>4. CASE ReturnedReload \/ StuckReload \/ PauseReload
  <2>1. /\ ctl'.quit = ctl.quit /\ ctl'.disconnect = ctl.disconnect
        /\ ctl'.connect = ctl.connect
        /\ pc' = "build" /\ rc' = rc
    BY <1>1, <1>4 DEF ReturnedReload, StuckReload, PauseReload, TakeReload,
       ControlRecord
  <2>2. rc # "STOP"
    BY <1>4 DEF ReturnedReload, StuckReload, PauseReload, Pending
  <2> QED  BY <2>1, <2>2 DEF Pending
<1>5. CASE ReturnedDisconnected
  <2>1. /\ ctl'.quit = ctl.quit /\ ~ctl'.disconnect /\ ~ctl'.connect
        /\ pc = "returned" /\ pc' = "idle"
    BY <1>1, <1>5 DEF ReturnedDisconnected, ControlRecord
  <2>2. open \subseteq abandoned
    BY <2>1 DEF NoLeak, InSet, Running
  <2> QED  BY <2>1, <2>2 DEF Pending, Withdrawn
<1>6. CASE ReturnedExhausted
  <2>1. /\ ctl'.quit = ctl.quit /\ ctl'.disconnect = ctl.disconnect
        /\ ~ctl'.connect /\ pc' = "stuck" /\ rc' = "NO_RETRYABLE"
    BY <1>1, <1>6 DEF ReturnedExhausted, ControlRecord
  <2> QED  BY <2>1 DEF Pending
<1>7. CASE ReturnedReconnect
  BY <1>7 DEF ReturnedReconnect, Pending
<1>8. CASE IdleEnds \/ StuckEnds \/ PauseEnds
  <2>1. /\ ctl' = ctl /\ rc' = rc /\ brk' = brk /\ pc' = "build"
    BY <1>8 DEF IdleEnds, StuckEnds, PauseEnds
  <2>2. ctl.disconnect => rc # "STOP" \/ ctl.quit \/ brk
    BY <1>8 DEF IdleEnds, StuckEnds, PauseEnds, Asked, Pending
  <2> QED  BY <2>1, <2>2 DEF Pending
<1> QED
  BY <1>2, <1>3, <1>4, <1>5, <1>6, <1>7, <1>8
     DEF Supervise, BuildNothing, BuildStopped, ReturnedStopped,
         ReturnedUnreadable, StuckUnreadable

LEMMA RequestStep ==
  ASSUME TypeOK, NoLeak, Pending, [Next]_vars
  PROVE  /\ ctl.quit => ctl'.quit
         /\ ctl.disconnect /\ ~ctl'.disconnect => Withdrawn
         /\ Pending'
<1>1. CASE Supervise
  BY <1>1, SuperviseStep
<1>2. CASE Serve
  <2>1. pc' \notin {"build", "stuck", "pause"}
    BY <1>2 DEF Serve, ConnectOne, ConnectDone, LoopStops, LoopExhausted,
       RexxDone, RexxReload, WokenByBreak, WokenByFailure, WokenToServe,
       RetrySkipped, RetryConnects, RetryFails, RetryDone, ReadySkipped,
       ReadLost, ReadData, ReadyDone, FeedDone, FeedNegotiationFails, Return
  <2> QED  BY <1>2, <2>1, ServeKeeps DEF Pending
<1>3. CASE RexxCommand \/ HookCommand \/ WaitingCommand
  BY <1>3, CommandStep DEF Pending, Withdrawn
<1>4. CASE Break \/ Finished \/ UNCHANGED vars
           \/ \E elapsed \in {0, 1} : Wake(elapsed)
  <2>1. ctl' = ctl /\ rc' = rc
    BY <1>4 DEF Break, Finished, Wake, vars
  <2>2. \/ pc' = pc /\ (brk => brk')
        \/ pc' \in {"rexx", "woken"}
    BY <1>4 DEF Break, Finished, Wake, vars
  <2> QED  BY <2>1, <2>2 DEF Pending
<1> QED  BY <1>1, <1>2, <1>3, <1>4 DEF Next

(* No request is forgotten by any interleaving of commands, hooks, losses   *)
(* and waits: QUIT is kept to the end, and a DISCONNECT goes only by a      *)
(* CONNECT, by having closed every connection, or where the supervisor      *)
(* builds a set after a RELOAD, a failed wait or an exhausted set.          *)
THEOREM RequestsCorrect == Spec => RequestsKept
<1>1. Init => Pending
  BY DEF Init, ControlInit, Pending
<1>2. TypeOK /\ NoLeak /\ Pending /\ [Next]_vars => Pending'
  BY RequestStep
<1>3. TypeOK /\ NoLeak /\ Pending /\ [Next]_vars =>
        [ /\ ctl.quit => ctl'.quit
          /\ ctl.disconnect /\ ~ctl'.disconnect => Withdrawn ]_vars
  BY RequestStep
<1> QED
  BY <1>1, <1>2, <1>3, TypeCorrect, NoLeakCorrect, PTL DEF Spec, RequestsKept

-----------------------------------------------------------------------------
(* The multi-network runtime implements NetworkSet, for any number of       *)
(* networks and whatever clients and waits do.                              *)

(* The status of the networks, by what it depends on.                       *)
StatusOf(members, started, s, r) ==
  [n \in Net |->
     IF n \notin members \/ n \notin started THEN "off"
     ELSE IF s[n] # NoSock THEN "up"
     ELSE IF r[n] THEN "retry" ELSE "disabled"]

LEMMA StatusIs ==
  /\ absStatus = StatusOf(absMembers, Started, sock, retryEnabled)
  /\ absStatus' = StatusOf(absMembers', Started', sock', retryEnabled')
BY DEF absStatus, StatusOf

LEMMA NoMembers ==
  \A started, s, r : StatusOf({}, started, s, r) = NS!AllOff
BY DEF StatusOf, NS!AllOff

(* Outside the set there is nothing but the phase.                          *)
LEMMA OutsideState ==
  /\ ~InSet => absMembers = {} /\ absStatus = NS!AllOff
  /\ ~InSet' => absMembers' = {} /\ absStatus' = NS!AllOff
<1>1. /\ ~InSet => absMembers = {}
      /\ ~InSet' => absMembers' = {}
  BY DEF absMembers
<1> QED  BY <1>1, StatusIs, NoMembers

LEMMA PhaseOutside ==
  ASSUME TypeOK, ~InSet
  PROVE  absPhase = IF pc = "done" THEN "stopped"
                    ELSE IF (pc = "returned" /\ rc = "NO_RETRYABLE")
                              \/ pc = "stuck"
                    THEN "exhausted" ELSE "down"
BY DEF InSet, absPhase, Running

(* Steps that leave the networks of a running set as they are.              *)
LEMMA WithinStutters ==
  ASSUME pc \in Running, pc' \in Running,
         UNCHANGED <<count, sock, retryEnabled>>
  PROVE  UNCHANGED NS!vars
<1>1. InSet /\ InSet' /\ Started' = Started
  BY DEF InSet, Started, Running
<1>2. absMembers' = absMembers
  BY <1>1 DEF absMembers
<1>3. absPhase' = absPhase
  BY DEF absPhase, Running
<1> QED  BY <1>1, <1>2, <1>3, StatusIs DEF NS!vars

(* A step of one network is a step of that network's machine.               *)
LEMMA OneBecomes ==
  ASSUME TypeOK, NEW n \in Net, n \in absMembers,
         absMembers' = absMembers, absPhase' = absPhase,
         \A m \in Net : m # n =>
           /\ m \in Started' <=> m \in Started
           /\ sock'[m] = sock[m] /\ retryEnabled'[m] = retryEnabled[m],
         NEW old, NEW new, absStatus[n] \in old, absStatus'[n] \in new
  PROVE  NS!Become(n, old, new)
<1>1. \A m \in Net : m # n => absStatus'[m] = absStatus[m]
  BY StatusIs DEF StatusOf
<1>2. absStatus' = [absStatus EXCEPT ![n] = absStatus'[n]]
  BY <1>1, StatusIs DEF StatusOf
<1> QED  BY <1>2 DEF NS!Become

(* What a network's status is.                                              *)
LEMMA StatusValue ==
  ASSUME NEW n \in Net
  PROVE  /\ absStatus[n] = IF n \notin absMembers \/ n \notin Started THEN "off"
                           ELSE IF sock[n] # NoSock THEN "up"
                           ELSE IF retryEnabled[n] THEN "retry" ELSE "disabled"
         /\ absStatus'[n] =
              IF n \notin absMembers' \/ n \notin Started' THEN "off"
              ELSE IF sock'[n] # NoSock THEN "up"
              ELSE IF retryEnabled'[n] THEN "retry" ELSE "disabled"
BY StatusIs DEF StatusOf

LEMMA PhaseOutsideAfter ==
  ~InSet' =>
    absPhase' = IF pc' = "done" THEN "stopped"
                ELSE IF (pc' = "returned" /\ rc' = "NO_RETRYABLE")
                          \/ pc' = "stuck"
                THEN "exhausted" ELSE "down"
BY DEF InSet, absPhase, Running

(* Outside the set a step is one of the phase alone.                        *)
LEMMA OutsideStep ==
  ASSUME TypeOK, ~InSet, ~InSet'
  PROVE  /\ UNCHANGED <<absMembers, absStatus>>
         /\ absPhase' = absPhase => UNCHANGED NS!vars
         /\ absPhase \in {"down", "exhausted"} /\ absPhase' = "stopped"
              => NS!Stop
         /\ absPhase = "exhausted" /\ absPhase' = "down" => NS!TearDown
<1>1. /\ absMembers = {} /\ absMembers' = {}
      /\ absStatus = NS!AllOff /\ absStatus' = NS!AllOff
  BY OutsideState
<1> QED  BY <1>1 DEF NS!vars, NS!Stop, NS!TearDown

-----------------------------------------------------------------------------
(* The steps.                                                               *)

LEMMA SuperviseRefines ==
  TypeOK /\ Supervise /\ ~BuildSet => NS!Next \/ UNCHANGED NS!vars
<1> SUFFICES ASSUME TypeOK, Supervise, ~BuildSet
             PROVE  NS!Next \/ UNCHANGED NS!vars
  OBVIOUS
<1>1. CASE BuildNothing \/ BuildStopped \/ ReturnedStopped
             \/ ReturnedUnreadable \/ StuckUnreadable
  <2>1. /\ pc \in {"build", "returned", "stuck"} /\ pc' = "done"
        /\ ~InSet /\ ~InSet'
    BY <1>1 DEF BuildNothing, BuildStopped, ReturnedStopped,
       ReturnedUnreadable, StuckUnreadable, End, InSet, Running
  <2>2. absPhase \in {"down", "exhausted"} /\ absPhase' = "stopped"
    BY <2>1, PhaseOutside, PhaseOutsideAfter
  <2> QED  BY <2>1, <2>2, OutsideStep DEF NS!Next
<1>2. CASE StuckEnds \/ StuckReload
  <2>1. /\ pc = "stuck" /\ pc' = "build" /\ ~InSet /\ ~InSet'
    BY <1>2 DEF StuckEnds, StuckReload, TakeReload, InSet, Running
  <2>2. absPhase = "exhausted" /\ absPhase' = "down"
    BY <2>1, PhaseOutside, PhaseOutsideAfter
  <2> QED  BY <2>1, <2>2, OutsideStep DEF NS!Next
<1>3. CASE ReturnedDisconnected
  <2>1. /\ pc = "returned" /\ pc' = "idle" /\ ~InSet /\ ~InSet'
    BY <1>3 DEF ReturnedDisconnected, InSet, Running
  <2>2. absPhase \in {"down", "exhausted"} /\ absPhase' = "down"
    BY <2>1, PhaseOutside, PhaseOutsideAfter
  <2> QED  BY <2>1, <2>2, OutsideStep DEF NS!Next
<1>4. CASE ReturnedExhausted
  <2>1. /\ pc = "returned" /\ rc = "NO_RETRYABLE" /\ pc' = "stuck"
        /\ ~InSet /\ ~InSet'
    BY <1>4 DEF ReturnedExhausted, InSet, Running
  <2>2. absPhase = "exhausted" /\ absPhase' = "exhausted"
    BY <2>1, PhaseOutside, PhaseOutsideAfter
  <2> QED  BY <2>1, <2>2, OutsideStep
<1>5. CASE ReturnedReload \/ ReturnedReconnect \/ IdleEnds \/ PauseEnds
             \/ PauseReload
  <2>1. /\ \/ pc = "returned" /\ rc # "NO_RETRYABLE"
           \/ pc \in {"idle", "pause"}
        /\ pc' \in {"build", "pause"}
        /\ ~InSet /\ ~InSet'
    BY <1>5 DEF ReturnedReload, ReturnedReconnect, IdleEnds, PauseEnds,
       PauseReload, TakeReload, InSet, Running
  <2>2. absPhase = "down" /\ absPhase' = "down"
    BY <2>1, PhaseOutside, PhaseOutsideAfter
  <2> QED  BY <2>1, <2>2, OutsideStep
<1> QED  BY <1>1, <1>2, <1>3, <1>4, <1>5 DEF Supervise

(* A set that is built has members, and none of them has been tried.        *)
LEMMA BuildSetRefines == TypeOK /\ BuildSet => NS!Start
<1> SUFFICES ASSUME TypeOK, BuildSet PROVE NS!Start
  OBVIOUS
<1>1. /\ pc = "build" /\ pc' = "connect" /\ i' = 1 /\ count' = valid
      /\ valid \in 1 .. MaxNets
  BY MultiNetAssumption DEF BuildSet, TypeOK
<1>2. ~InSet /\ absPhase = "down" /\ absMembers = {} /\ absStatus = NS!AllOff
  BY <1>1, OutsideState, PhaseOutside DEF InSet, Running
<1>3. absPhase' = "starting"
  BY <1>1 DEF absPhase, Running
<1>4. absMembers' \in (SUBSET Net) \ {{}}
  <2>1. absMembers' = 1 .. valid
    BY <1>1 DEF absMembers, InSet
  <2>2. 1 \in 1 .. valid /\ 1 .. valid \subseteq Net
    BY <1>1, MultiNetAssumption DEF Net
  <2> QED  BY <2>1, <2>2
<1>5. absStatus' = NS!AllOff
  <2>1. Started' = {}
    BY <1>1 DEF Started
  <2> QED  BY <2>1, StatusIs DEF StatusOf, NS!AllOff
<1> QED  BY <1>2, <1>3, <1>4, <1>5 DEF NS!Start

(* Each network of a new set is tried once.                                 *)
LEMMA ConnectOneRefines == Inv /\ ConnectOne => NS!FirstTry(i) /\ i \in Net
<1> SUFFICES ASSUME Inv, ConnectOne PROVE NS!FirstTry(i) /\ i \in Net
  OBVIOUS
<1>1. TypeOK /\ pc = "connect" /\ pc' = "connect" /\ i <= count
      /\ i' = i + 1 /\ count' = count
  BY DEF Inv, ConnectOne
<1>2. i \in Net /\ i \in 1 .. count /\ count \in Nat
  BY <1>1, MultiNetAssumption DEF TypeOK, Net
<1>3. InSet /\ InSet' /\ absMembers = 1 .. count /\ absMembers' = absMembers
  BY <1>1 DEF InSet, absMembers
<1>4. absPhase = "starting" /\ absPhase' = "starting"
  BY <1>1 DEF absPhase, Running
<1>5. Started = 1 .. (i - 1) /\ Started' = 1 .. ((i + 1) - 1)
  BY <1>1 DEF Started
<1>6. /\ i \notin Started /\ i \in Started'
      /\ \A m \in Net : m # i => (m \in Started' <=> m \in Started)
  BY <1>2, <1>5, MultiNetAssumption DEF Net
<1>7. PICK s \in Sock :
        /\ sock' = [sock EXCEPT ![i] = s]
        /\ s = NoSock => retryEnabled' = [retryEnabled EXCEPT ![i] = TRUE]
        /\ s # NoSock => retryEnabled' = retryEnabled
  BY DEF ConnectOne, ConnectRuntime
<1>8. \A m \in Net : m # i => /\ sock'[m] = sock[m]
                             /\ retryEnabled'[m] = retryEnabled[m]
  BY <1>1, <1>2, <1>7 DEF TypeOK
<1>9. absStatus[i] = "off"
  BY <1>2, <1>6, StatusValue
<1>10. absStatus'[i] \in {"up", "retry"}
  <2>1. sock'[i] # NoSock \/ retryEnabled'[i]
    BY <1>1, <1>2, <1>7 DEF TypeOK
  <2> QED  BY <1>2, <1>3, <1>6, <2>1, StatusValue
<1>11. NS!Become(i, {"off"}, {"up", "retry"})
  <2>1. \A m \in Net : m # i =>
          /\ m \in Started' <=> m \in Started
          /\ sock'[m] = sock[m] /\ retryEnabled'[m] = retryEnabled[m]
    BY <1>6, <1>8
  <2>2. i \in absMembers /\ absPhase' = absPhase
    BY <1>2, <1>3, <1>4
  <2> QED  BY <1>1, <1>2, <1>3, <1>9, <1>10, <2>1, <2>2, OneBecomes
<1> QED  BY <1>2, <1>4, <1>11 DEF NS!FirstTry

(* The loop begins when all of them have been.                              *)
LEMMA ConnectDoneRefines == Inv /\ ConnectDone => NS!Started
<1> SUFFICES ASSUME Inv, ConnectDone PROVE NS!Started
  OBVIOUS
<1>1. /\ TypeOK /\ pc = "connect" /\ pc' = "loop" /\ i > count
      /\ UNCHANGED <<count, sock, retryEnabled>>
  BY DEF Inv, ConnectDone, runtime
<1>2. i = count + 1
  BY <1>1, MultiNetAssumption DEF Inv, PassState, TypeOK
<1>3. Started = 1 .. count /\ Started' = 1 .. count
  BY <1>1, <1>2, MultiNetAssumption DEF Started, TypeOK
<1>4. InSet /\ InSet' /\ absMembers = 1 .. count /\ absMembers' = absMembers
  BY <1>1 DEF InSet, absMembers, Running
<1>5. absStatus' = absStatus
  BY <1>1, <1>3, <1>4, StatusIs
<1>6. \A n \in absMembers : absStatus[n] # "off"
  <2>1. absMembers \subseteq Net
    BY <1>1, <1>4, MultiNetAssumption DEF TypeOK, Net
  <2> QED  BY <1>3, <1>4, <2>1, StatusValue
<1>7. absPhase = "starting" /\ absPhase' = "serving"
  BY <1>1 DEF absPhase, Running
<1> QED  BY <1>4, <1>5, <1>6, <1>7 DEF NS!Started

-----------------------------------------------------------------------------
(* The steps of the loop.                                                   *)

(* The steps that only move the task, or that run a client's command.       *)
LEMMA MovesRefine ==
  ASSUME Inv,
         \/ RexxDone \/ WokenToServe \/ RetrySkipped \/ RetryFails
         \/ RetryDone \/ ReadySkipped \/ ReadData \/ ReadyDone \/ FeedDone
         \/ \E elapsed \in {0, 1} : Wake(elapsed)
  PROVE  UNCHANGED NS!vars
<1>1. CASE RetryFails
  <2>1. /\ pc = "retry" /\ pc' = pc /\ i <= count
        /\ retryEnabled[i] /\ sock' = [sock EXCEPT ![i] = NoSock]
        /\ UNCHANGED <<count, retryEnabled>>
    BY <1>1 DEF RetryFails, RetryDue, ConnectRuntime
  <2>2. i \in 1 .. count /\ Started = 1 .. count /\ InSet
    BY <2>1, MultiNetAssumption DEF Inv, TypeOK, Started, InSet, Running
  <2>3. sock[i] = NoSock
    BY <2>1, <2>2 DEF Inv, RetryState
  <2>4. sock' = sock
    BY <2>1, <2>3 DEF Inv, TypeOK
  <2> QED  BY <2>1, <2>4, WithinStutters DEF Running
<1>2. CASE RexxDone \/ WokenToServe \/ RetrySkipped \/ RetryDone
             \/ ReadySkipped \/ ReadData \/ ReadyDone \/ FeedDone
  <2>1. /\ pc \in Running /\ pc' \in Running
        /\ UNCHANGED <<count, sock, retryEnabled>>
    BY <1>2 DEF RexxDone, WokenToServe, RetrySkipped, RetryDone, ReadySkipped,
       ReadData, ReadyDone, FeedDone, Running, running, runtime
  <2> QED  BY <2>1, WithinStutters
<1>3. CASE \E elapsed \in {0, 1} : Wake(elapsed)
  <2>1. /\ pc \in Running /\ pc' \in Running
        /\ UNCHANGED <<count, sock, retryEnabled>>
    BY <1>3 DEF Wake, Running
  <2> QED  BY <2>1, WithinStutters
<1> QED  BY <1>1, <1>2, <1>3

(* Commands and Ctrl-C wait to be looked at: no network changes by them.    *)
LEMMA RequestsRefine ==
  ASSUME RexxCommand \/ HookCommand \/ WaitingCommand \/ Break
           \/ UNCHANGED vars
  PROVE  UNCHANGED NS!vars
<1>1. UNCHANGED <<pc, i, count, sock, retryEnabled, rc>>
  BY DEF RexxCommand, HookCommand, WaitingCommand, Execute, Break,
     running, runtime, vars
<1>2. Started' = Started /\ InSet' = InSet
  BY <1>1 DEF Started, InSet
<1>3. absMembers' = absMembers
  BY <1>1, <1>2 DEF absMembers
<1>4. absPhase' = absPhase
  BY <1>1 DEF absPhase
<1> QED  BY <1>1, <1>2, <1>3, <1>4, StatusIs DEF NS!vars

(* What holds of a step of one network of a running set.                    *)
LEMMA ServingStep ==
  ASSUME TypeOK, pc \in Running, pc' \in Running, count' = count,
         i \in 1 .. count,
         NEW s \in Sock, sock' = [sock EXCEPT ![i] = s],
         NEW r \in BOOLEAN, retryEnabled' = [retryEnabled EXCEPT ![i] = r],
         NEW old, NEW new, absStatus[i] = old,
         new = IF s # NoSock THEN "up" ELSE IF r THEN "retry" ELSE "disabled"
  PROVE  NS!Become(i, {old}, {new}) /\ absPhase = "serving" /\ i \in Net
<1>1. i \in Net
  BY MultiNetAssumption DEF TypeOK, Net
<1>2. InSet /\ InSet' /\ Started = 1 .. count /\ Started' = Started
  BY DEF InSet, Started, Running
<1>3. absMembers = 1 .. count /\ absMembers' = absMembers
  BY <1>2 DEF absMembers
<1>4. absPhase = "serving" /\ absPhase' = "serving"
  BY DEF absPhase, Running
<1>5. \A m \in Net : m # i =>
        /\ m \in Started' <=> m \in Started
        /\ sock'[m] = sock[m] /\ retryEnabled'[m] = retryEnabled[m]
  BY <1>2 DEF TypeOK
<1>6. sock'[i] = s /\ retryEnabled'[i] = r
  BY <1>1 DEF TypeOK
<1>7. absStatus'[i] = new
  BY <1>1, <1>2, <1>3, <1>6, StatusValue
<1>8. NS!Become(i, {old}, {new})
  <2>1. i \in absMembers /\ absPhase' = absPhase /\ absMembers' = absMembers
    BY <1>3, <1>4
  <2>2. absStatus[i] \in {old} /\ absStatus'[i] \in {new}
    BY <1>7
  <2> QED  BY <1>1, <1>5, <2>1, <2>2, OneBecomes
<1> QED  BY <1>1, <1>4, <1>8

(* A retry that succeeds.                                                   *)
LEMMA RetryConnectsRefines == Inv /\ RetryConnects => NS!Recover(i) /\ i \in Net
<1> SUFFICES ASSUME Inv, RetryConnects PROVE NS!Recover(i) /\ i \in Net
  OBVIOUS
<1>1. /\ TypeOK /\ pc = "retry" /\ pc' = pc /\ i <= count /\ retryEnabled[i]
      /\ count' = count /\ retryEnabled' = [retryEnabled EXCEPT ![i] = FALSE]
  BY DEF Inv, RetryConnects, RetryDue
<1>2. PICK s \in Fds : sock' = [sock EXCEPT ![i] = s]
  BY DEF RetryConnects, ConnectRuntime
<1>3. i \in 1 .. count /\ i \in Net /\ InSet /\ Started = 1 .. count
      /\ absMembers = 1 .. count
  BY <1>1, MultiNetAssumption DEF TypeOK, Net, Started, InSet, Running,
     absMembers
<1>4. sock[i] = NoSock
  BY <1>1, <1>3 DEF Inv, RetryState
<1>5. absStatus[i] = "retry"
  BY <1>1, <1>3, <1>4, StatusValue
<1>6. s \in Sock /\ s # NoSock
  BY <1>2, NoSockAssumption DEF Sock
<1>7. pc \in Running /\ pc' \in Running
  BY <1>1 DEF Running
<1>8. /\ NS!Become(i, {"retry"}, {"up"}) /\ absPhase = "serving"
  BY <1>1, <1>2, <1>3, <1>5, <1>6, <1>7, ServingStep
<1> QED  BY <1>3, <1>8 DEF NS!Recover

(* A connection that is lost, and one whose negotiation fails.              *)
LEMMA ReadRefines ==
  /\ Inv /\ ReadLost => NS!Lose(i) /\ i \in Net
  /\ Inv /\ FeedNegotiationFails => NS!Disable(i) /\ i \in Net
<1> SUFFICES ASSUME Inv, ReadLost \/ FeedNegotiationFails
             PROVE  /\ i \in Net
                    /\ ReadLost => NS!Lose(i)
                    /\ FeedNegotiationFails => NS!Disable(i)
  OBVIOUS
<1>1. /\ TypeOK /\ pc \in {"ready", "feed"} /\ pc' = "ready" /\ i <= count
      /\ count' = count /\ sock[i] # NoSock
      /\ sock' = [sock EXCEPT ![i] = NoSock]
  BY DEF Inv, ReadLost, FeedNegotiationFails, Readable, Drop, PassState
<1>2. i \in 1 .. count /\ i \in Net /\ InSet /\ Started = 1 .. count
      /\ absMembers = 1 .. count
  BY <1>1, MultiNetAssumption DEF TypeOK, Net, Started, InSet, Running,
     absMembers
<1>3. absStatus[i] = "up" /\ ~retryEnabled[i]
  BY <1>1, <1>2, StatusValue DEF Inv, RetryState
<1>4. pc \in Running /\ pc' \in Running /\ NoSock \in Sock
  BY <1>1 DEF Running, Sock
<1>5. ASSUME ReadLost PROVE NS!Lose(i)
  <2>1. retryEnabled' = [retryEnabled EXCEPT ![i] = TRUE]
    BY <1>5 DEF ReadLost
  <2>2. NS!Become(i, {"up"}, {"retry"}) /\ absPhase = "serving"
    BY <1>1, <1>2, <1>3, <1>4, <2>1, ServingStep
  <2> QED  BY <2>2 DEF NS!Lose
<1>6. ASSUME FeedNegotiationFails PROVE NS!Disable(i)
  <2>1. retryEnabled' = [retryEnabled EXCEPT ![i] = FALSE]
    BY <1>1, <1>2, <1>3, <1>6 DEF FeedNegotiationFails, TypeOK
  <2>2. NS!Become(i, {"up"}, {"disabled"}) /\ absPhase = "serving"
    BY <1>1, <1>2, <1>3, <1>4, <2>1, ServingStep
  <2> QED  BY <2>2 DEF NS!Disable
<1> QED  BY <1>2, <1>5, <1>6

(* The loop returns: given up when every network is disabled, torn down     *)
(* otherwise.                                                               *)
LEMMA ReturnRefines ==
  Inv /\ (LoopStops \/ LoopExhausted \/ RexxReload \/ WokenByBreak
            \/ WokenByFailure) => NS!GiveUp \/ NS!TearDown
<1> SUFFICES ASSUME Inv, \/ LoopStops \/ LoopExhausted \/ RexxReload
                         \/ WokenByBreak \/ WokenByFailure
             PROVE  NS!GiveUp \/ NS!TearDown
  OBVIOUS
<1>1. pc \in {"loop", "rexx", "woken"} /\ pc' = "returned"
  BY DEF LoopStops, LoopExhausted, RexxReload, WokenByBreak, WokenByFailure,
     Return
<1>2. absPhase = "serving" /\ InSet /\ ~InSet'
  BY <1>1 DEF absPhase, Running, InSet
<1>3. absMembers' = {} /\ absStatus' = NS!AllOff
  BY <1>2, OutsideState
<1>4. CASE LoopExhausted
  <2>1. active = 0 /\ retrying = 0 /\ rc' = "NO_RETRYABLE"
    BY <1>4 DEF LoopExhausted, NoneLeft, Return
  <2>2. UpNets = {} /\ RetryNets = {}
    <3>1. Cardinality(UpNets) = 0 /\ Cardinality(RetryNets) = 0
      BY <1>2, <2>1 DEF Inv, CountersAgree
    <3>2. IsFiniteSet(UpNets) /\ IsFiniteSet(RetryNets)
      BY CountedNets, NetSets DEF Inv
    <3> QED  BY <3>1, <3>2, FS_EmptySet
  <2>3. absMembers = 1 .. count /\ Started = 1 .. count
        /\ 1 .. count \subseteq Net
    BY <1>1, <1>2, MultiNetAssumption DEF Inv, TypeOK, absMembers, Started, Net
  <2>4. \A n \in absMembers : absStatus[n] = "disabled"
    BY <2>2, <2>3, StatusValue DEF UpNets, RetryNets
  <2>5. absPhase' = "exhausted"
    BY <1>1, <1>2, <2>1, PhaseOutsideAfter
  <2> QED  BY <1>2, <1>3, <2>4, <2>5 DEF NS!GiveUp
<1>5. CASE LoopStops \/ RexxReload \/ WokenByBreak \/ WokenByFailure
  <2>1. rc' # "NO_RETRYABLE"
    BY <1>5 DEF LoopStops, RexxReload, WokenByBreak, WokenByFailure, Return
  <2>2. absPhase' = "down"
    BY <1>1, <1>2, <2>1, PhaseOutsideAfter
  <2> QED  BY <1>2, <1>3, <2>2 DEF NS!TearDown
<1> QED  BY <1>4, <1>5

-----------------------------------------------------------------------------
LEMMA StepRefines ==
  Inv /\ [Next]_vars => NS!Next \/ UNCHANGED NS!vars
<1> SUFFICES ASSUME Inv, [Next]_vars PROVE NS!Next \/ UNCHANGED NS!vars
  OBVIOUS
<1>1. CASE Supervise
  BY <1>1, SuperviseRefines, BuildSetRefines DEF Inv, NS!Next
<1>2. CASE Serve
  <2>1. CASE ConnectOne
    BY <2>1, ConnectOneRefines DEF NS!Next
  <2>2. CASE ConnectDone
    BY <2>2, ConnectDoneRefines DEF NS!Next
  <2>3. CASE RetryConnects
    BY <2>3, RetryConnectsRefines DEF NS!Next
  <2>4. CASE ReadLost \/ FeedNegotiationFails
    BY <2>4, ReadRefines DEF NS!Next
  <2>5. CASE LoopStops \/ LoopExhausted \/ RexxReload \/ WokenByBreak
               \/ WokenByFailure
    BY <2>5, ReturnRefines DEF NS!Next
  <2>6. CASE RexxDone \/ WokenToServe \/ RetrySkipped \/ RetryFails
               \/ RetryDone \/ ReadySkipped \/ ReadData \/ ReadyDone
               \/ FeedDone
    BY <2>6, MovesRefine
  <2> QED  BY <1>2, <2>1, <2>2, <2>3, <2>4, <2>5, <2>6 DEF Serve
<1>3. CASE \E elapsed \in {0, 1} : Wake(elapsed)
  BY <1>3, MovesRefine
<1>4. CASE RexxCommand \/ HookCommand \/ WaitingCommand \/ Break
             \/ UNCHANGED vars
  BY <1>4, RequestsRefine
<1> QED  BY <1>1, <1>2, <1>3, <1>4 DEF Next, Finished

LEMMA InitRefines == Init => NS!Init
<1> SUFFICES ASSUME Init PROVE NS!Init
  OBVIOUS
<1>1. TypeOK /\ pc = "build" /\ ~InSet
  BY InitInv DEF Init, Inv, InSet, Running
<1>2. absPhase = "down" /\ absMembers = {} /\ absStatus = NS!AllOff
  BY <1>1, PhaseOutside, OutsideState
<1> QED  BY <1>2 DEF NS!Init

(* The counters, the descriptor array and the passes of ambot_multinet_run, *)
(* with the supervisor around them, implement independent networks: one     *)
(* network changes at a time, a lost connection waits for its own retry, a  *)
(* failed negotiation disables its own network only, and the set is given   *)
(* up only when each of its networks is disabled (docs/M7.md:5-12, 50).     *)
THEOREM Refinement == Spec => ImplementsNetworkSet
<1>1. Init => NS!Init
  BY InitRefines
<1>2. Inv /\ [Next]_vars => [NS!Next]_(NS!vars)
  BY StepRefines
<1> QED  BY <1>1, <1>2, Invariance, PTL DEF Spec, ImplementsNetworkSet, NS!Spec
=============================================================================

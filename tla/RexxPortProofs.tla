--------------------------- MODULE RexxPortProofs ---------------------------
(***************************************************************************)
(* Theorems about RexxPort, for any set of scripts, however many commands  *)
(* they send.                                                              *)
(***************************************************************************)
EXTENDS RexxPort, Functions, FiniteSetTheorems, TLAPS

(* A script has one message in the port at most.                            *)
Unique ==
  \A j, k \in 1 .. Len(messages) : messages[j] = messages[k] => j = k

BlockedSenders == {s \in Sender : script[s] = "blocked"}

(* The wait for a hook and the service loop it calls.                       *)
InHook ==
  \/ pc \in {"hookwait", "hooktest"}
  \/ pc = "process" /\ caller = "hooktest"

(* The port is public until it is closed, and closed when it is empty.      *)
PortState ==
  /\ pc \in {"drain", "closed"} => ~public
  /\ pc = "closed" => messages = <<>>
  /\ BlockedSenders = Elements
  /\ Unique

(* The bit of the port may only be down over a message while the port is    *)
(* being emptied.                                                           *)
SignalState ==
  /\ pc \in {"outside", "wait", "hookwait", "hooktest"} /\ messages # <<>>
       => signal
  /\ pc # "process" => caller = "outside"

(* Between two waits for the hook no signal is remembered.                  *)
HookState ==
  /\ script[Hook] # "absent" \/ ended <=> InHook
  /\ ended => script[Hook] = "absent" /\ (reply \/ got.reply)
  /\ got.reply => InHook /\ pc # "hookwait"

Inv == TypeOK /\ PortState /\ SignalState /\ HookState

LEMMA InitInv == Init => Inv
<1> SUFFICES ASSUME Init PROVE Inv
  OBVIOUS
<1>1. TypeOK
  <2>1. /\ script \in [Sender -> {"absent", "running", "blocked"}]
        /\ sent \in [Sender -> 0 .. SendMax]
    BY RexxPortAssumption DEF Init
  <2>2. messages \in Seq(Sender)
    BY DEF Init
  <2> QED  BY <2>1, <2>2 DEF Init, TypeOK, NoSignals
<1>2. BlockedSenders = {} /\ Elements = {}
  BY DEF Init, BlockedSenders, Elements
<1>3. PortState
  BY <1>2 DEF Init, PortState, Unique
<1>4. SignalState /\ HookState
  BY DEF Init, SignalState, HookState, InHook, NoSignals, Sender
<1> QED  BY <1>1, <1>3, <1>4 DEF Inv

(* The message a script sends is its only one, and the last.                *)
LEMMA SendKeeps ==
  ASSUME TypeOK, PortState, NEW s \in Sender, Send(s)
  PROVE  PortState'
<1>1. s \notin Elements
  BY DEF PortState, BlockedSenders, Send
<1>2. /\ Len(messages) \in Nat
      /\ Len(messages') = Len(messages) + 1
      /\ messages'[Len(messages) + 1] = s
      /\ \A k \in 1 .. Len(messages) : messages'[k] = messages[k]
  BY DEF TypeOK, Send
<1>3. Unique'
  BY <1>1, <1>2 DEF PortState, Unique, Elements
<1>4. Elements' = Elements \cup {s}
  BY <1>2 DEF Elements
<1>5. BlockedSenders' = BlockedSenders \cup {s}
  BY DEF TypeOK, Send, BlockedSenders
<1>6. pc \notin {"drain", "closed"} /\ UNCHANGED pc
  BY DEF PortState, Send
<1> QED  BY <1>3, <1>4, <1>5, <1>6 DEF PortState

(* The message that is answered was the only one of its sender.             *)
LEMMA AnswerKeeps ==
  ASSUME TypeOK, BlockedSenders = Elements, Unique, Answer
  PROVE  BlockedSenders' = Elements' /\ Unique'
<1> DEFINE h == messages[1]
<1>1. /\ Len(messages) \in Nat \ {0}
      /\ h \in Sender /\ Head(messages) = h
      /\ Len(messages') = Len(messages) - 1
      /\ \A k \in 1 .. Len(messages) - 1 : messages'[k] = messages[k + 1]
  BY DEF TypeOK, Answer
<1> HIDE DEF h
<1>2. Unique'
  BY <1>1 DEF Unique
<1>3. Elements' = Elements \ {h}
  <2>1. ASSUME NEW x \in Elements' PROVE x \in Elements \ {h}
    BY <1>1, <2>1 DEF Elements, Unique, h
  <2>2. ASSUME NEW x \in Elements \ {h} PROVE x \in Elements'
    <3>1. PICK k \in 1 .. Len(messages) : x = messages[k]
      BY <2>2 DEF Elements
    <3>2. k # 1
      BY <2>2, <3>1 DEF h
    <3>3. k - 1 \in 1 .. Len(messages') /\ messages'[k - 1] = x
      BY <1>1, <3>1, <3>2
    <3> QED  BY <3>3 DEF Elements
  <2> QED  BY <2>1, <2>2
<1>4. BlockedSenders' = BlockedSenders \ {h}
  BY <1>1 DEF TypeOK, Answer, BlockedSenders
<1> QED  BY <1>2, <1>3, <1>4

(* Answering unblocks a script; it ends none.                               *)
LEMMA AnswerScripts ==
  ASSUME TypeOK, BlockedSenders = Elements, Answer
  PROVE  /\ messages' \in Seq(Sender)
         /\ script' \in [Sender -> {"absent", "running", "blocked"}]
         /\ script'[Hook] # "absent" <=> script[Hook] # "absent"
<1>1. Head(messages) \in Elements /\ messages' \in Seq(Sender)
  BY DEF TypeOK, Answer, Elements
<1>2. Head(messages) \in Sender /\ script[Head(messages)] = "blocked"
  BY <1>1 DEF BlockedSenders
<1> QED  BY <1>1, <1>2 DEF TypeOK, Answer, Sender

LEMMA SendInv == \A s \in Sender : Inv /\ Send(s) => Inv'
<1> SUFFICES ASSUME NEW s \in Sender, Inv, Send(s) PROVE Inv'
  OBVIOUS
<1>1. TypeOK'
  BY RexxPortAssumption DEF Inv, TypeOK, Send, hook
<1>2. PortState'
  BY SendKeeps DEF Inv
<1>3. SignalState'
  BY DEF Inv, SignalState, Send
<1>4. HookState'
  BY DEF Inv, TypeOK, HookState, InHook, Send, hook, Sender
<1> QED  BY <1>1, <1>2, <1>3, <1>4 DEF Inv

LEMMA ScriptEndsInv == \A s \in Sender : Inv /\ ScriptEnds(s) => Inv'
<1> SUFFICES ASSUME NEW s \in Sender, Inv, ScriptEnds(s) PROVE Inv'
  OBVIOUS
<1>1. TypeOK'
  BY DEF Inv, TypeOK, ScriptEnds, port
<1>2. BlockedSenders' = BlockedSenders /\ Elements' = Elements
  BY DEF Inv, TypeOK, ScriptEnds, port, BlockedSenders, Elements
<1>3. PortState'
  BY <1>2 DEF Inv, PortState, Unique, ScriptEnds, port
<1>4. SignalState' /\ HookState'
  BY DEF Inv, TypeOK, SignalState, HookState, InHook, ScriptEnds, port, Sender
<1> QED  BY <1>1, <1>3, <1>4 DEF Inv

(* What the program does when it is not inside the port's own functions.    *)
LEMMA OutsideInv == Inv /\ (Outside \/ Wake) => Inv'
<1> SUFFICES ASSUME Inv, Outside \/ Wake PROVE Inv'
  OBVIOUS
<1> USE DEF Inv, TypeOK, SignalState, HookState, InHook, port, hook, users
<1>1. CASE Block \/ Poll \/ Wake \/ RemPort
  <2>1. TypeOK' /\ SignalState' /\ HookState'
    <3>1. CASE Block
      BY <3>1 DEF Block
    <3>2. CASE Poll
      BY <3>2 DEF Poll
    <3>3. CASE Wake
      BY <3>3 DEF Wake, ClearSignal
    <3>4. CASE RemPort
      BY <3>4 DEF RemPort
    <3> QED  BY <1>1, <3>1, <3>2, <3>3, <3>4
  <2>2. UNCHANGED <<messages, script>>
    BY <1>1 DEF Block, Poll, Wake, RemPort
  <2>3. BlockedSenders' = BlockedSenders /\ Elements' = Elements
    BY <2>2 DEF BlockedSenders, Elements
  <2>4. PortState'
    BY <1>1, <2>2, <2>3
    DEF PortState, Unique, Block, Poll, Wake, RemPort, ClearSignal
  <2> QED  BY <2>1, <2>4
<1>2. CASE RunScript
  <2>1. Hook \in Sender /\ script[Hook] = "absent"
    BY <1>2 DEF RunScript, Sender
  <2>2. TypeOK'
    <3>1. script' \in [Sender -> {"absent", "running", "blocked"}]
      BY <1>2 DEF RunScript
    <3>2. 0 \in 0 .. SendMax /\ sent' = [sent EXCEPT ![Hook] = 0]
      BY <1>2, RexxPortAssumption DEF RunScript
    <3>3. sent' \in [Sender -> 0 .. SendMax]
      BY <3>2
    <3>4. UNCHANGED <<caller, public, messages, signal, ended, reply, got>>
      BY <1>2 DEF RunScript
    <3>5. pc' = "hookwait"
      BY <1>2 DEF RunScript
    <3> QED  BY <3>1, <3>3, <3>4, <3>5
  <2>3. BlockedSenders' = BlockedSenders /\ Elements' = Elements
    BY <1>2, <2>1 DEF RunScript, BlockedSenders, Elements
  <2>4. PortState'
    BY <1>2, <2>3 DEF PortState, Unique, RunScript
  <2>5. SignalState' /\ HookState'
    BY <1>2, <2>1 DEF RunScript
  <2> QED  BY <2>2, <2>4, <2>5
<1> QED  BY <1>1, <1>2 DEF Outside

(* The service loop, the wait for a hook and the shutdown.                  *)
LEMMA HostInv == Inv /\ Host => Inv'
<1> SUFFICES ASSUME Inv, Host PROVE Inv'
  OBVIOUS
<1>1. CASE Process \/ Drain
  <2>1. /\ Answer /\ UNCHANGED <<pc, caller, public, signal, hook, sent>>
        /\ pc \in {"process", "drain"}
    BY <1>1 DEF Process, Drain, Answer
  <2>2. BlockedSenders' = Elements' /\ Unique'
    BY <2>1, AnswerKeeps DEF Inv, PortState
  <2>3. /\ messages' \in Seq(Sender)
        /\ script' \in [Sender -> {"absent", "running", "blocked"}]
        /\ script'[Hook] # "absent" <=> script[Hook] # "absent"
    BY <2>1, AnswerScripts DEF Inv, PortState
  <2>4. TypeOK'
    BY <2>1, <2>3 DEF Inv, TypeOK, hook
  <2>5. PortState' /\ SignalState' /\ HookState'
    BY <2>1, <2>2, <2>3
    DEF Inv, TypeOK, PortState, SignalState, HookState, InHook, hook
  <2> QED  BY <2>4, <2>5 DEF Inv
<1>2. CASE ProcessDone \/ HookWait \/ HookTest \/ DeletePort
  <2>1. UNCHANGED <<public, messages, script>>
    BY <1>2 DEF ProcessDone, HookWait, HookTest, DeletePort, port, users
  <2>2. BlockedSenders' = BlockedSenders /\ Elements' = Elements
    BY <2>1 DEF BlockedSenders, Elements
  <2>3. PortState'
    <3>1. Unique'
      BY <2>1 DEF Inv, PortState, Unique
    <3>2. pc' \in {"drain", "closed"} => pc = "drain" /\ messages = <<>>
      BY <1>2 DEF Inv, TypeOK, ProcessDone, HookWait, HookTest, DeletePort
    <3> QED  BY <2>1, <2>2, <3>1, <3>2 DEF Inv, PortState
  <2> USE DEF Inv, TypeOK, SignalState, HookState, InHook, NoSignals,
              port, hook, users
  <2>4. CASE ProcessDone
    BY <2>3, <2>4 DEF ProcessDone
  <2>5. CASE HookWait
    BY <2>3, <2>5 DEF HookWait, ClearSignal
  <2>6. CASE HookTest
    BY <2>3, <2>6 DEF HookTest
  <2>7. CASE DeletePort
    BY <2>3, <2>7 DEF DeletePort
  <2> QED  BY <1>2, <2>4, <2>5, <2>6, <2>7
<1> QED  BY <1>1, <1>2 DEF Host

(* The inductive invariant: rexx.c's port, its signal bit and its scripts   *)
(* stay in step, whoever sends and whatever the program does meanwhile.     *)
THEOREM Invariance == Spec => []Inv
<1>1. Init => Inv
  BY InitInv
<1>2. Inv /\ [Next]_vars => Inv'
  <2> SUFFICES ASSUME Inv, [Next]_vars PROVE Inv'
    OBVIOUS
  <2>1. CASE Outside \/ Wake
    BY <2>1, OutsideInv
  <2>2. CASE Host
    BY <2>2, HostInv
  <2>3. CASE \E s \in Sender : Send(s) \/ ScriptEnds(s)
    BY <2>3, SendInv, ScriptEndsInv
  <2>4. CASE UNCHANGED vars
    <3>1. UNCHANGED <<pc, caller, public, messages, signal, ended, reply, got,
                      script, sent>>
      BY <2>4 DEF vars, port, hook, users
    <3> QED
      BY <3>1 DEF Inv, TypeOK, PortState, Unique, BlockedSenders, Elements,
         SignalState, HookState, InHook
  <2> QED  BY <2>1, <2>2, <2>3, <2>4 DEF Next
<1> QED  BY <1>1, <1>2, PTL DEF Spec

(* Types are kept by every function of the port.                            *)
THEOREM TypeCorrect == Spec => []TypeOK
<1>1. Inv => TypeOK
  BY DEF Inv
<1> QED  BY <1>1, Invariance, PTL

(* AmBot never sleeps over a command: the signal of a message that arrives  *)
(* while ambot_rexx_process runs is left for the next wait, or the message  *)
(* is answered by the same loop.                                            *)
THEOREM WakeupsCorrect == Spec => []NoLostWakeup
<1>1. Inv => NoLostWakeup
  BY DEF Inv, SignalState, NoLostWakeup
<1> QED  BY <1>1, Invariance, PTL

(* As many messages are in the port as there are scripts waiting for one.   *)
LEMMA UniqueCounts ==
  ASSUME TypeOK, Unique
  PROVE  Cardinality(Elements) = Len(messages)
<1>1. Len(messages) \in Nat
  BY DEF TypeOK
<1>2. messages \in Bijection(1 .. Len(messages), Elements)
  <2>1. messages \in [1 .. Len(messages) -> Elements]
    BY DEF TypeOK, Elements
  <2>2. IsInjective(messages)
    BY <2>1 DEF Unique, IsInjective
  <2>3. \A x \in Elements : \E k \in 1 .. Len(messages) : messages[k] = x
    BY DEF Elements
  <2> QED  BY <2>1, <2>2, <2>3 DEF Bijection, Injection, Surjection
<1>3. ExistsBijection(1 .. Len(messages), Elements)
  BY <1>2 DEF ExistsBijection
<1> QED  BY <1>1, <1>3, FS_CountingElements

(* Every script that waits has exactly one message in the port, and the port *)
(* that ambot_rexx_close deletes is empty.                                  *)
THEOREM AnswersCorrect == Spec => []BlockedInPort
<1>1. Inv => BlockedInPort
  BY UniqueCounts DEF Inv, PortState, BlockedInPort, BlockedSenders
<1> QED  BY <1>1, Invariance, PTL

(* ambot_rexx_run_script returns only when its script has ended, and runs    *)
(* one at a time, though its loop answers commands in between.              *)
THEOREM HookCorrect == Spec => []HookAwaited
<1>1. Inv => HookAwaited
  BY DEF Inv, HookState, InHook, HookAwaited
<1> QED  BY <1>1, Invariance, PTL
=============================================================================

------------------------------ MODULE RexxPort ------------------------------
(***************************************************************************)
(* The ARexx host: the public message port AMBOT, the loop that answers    *)
(* its messages and the wait for a hook script (src/src/rexx.c).           *)
(*                                                                         *)
(* A script sends one command at a time and is blocked until it is         *)
(* answered, so a message is named by its sender.  One of the senders is   *)
(* the hook script AmBot itself starts and waits for.  What a command does *)
(* to the control record is in Control; here it is executed, and answered. *)
(*                                                                         *)
(* The rest of the program is pc "outside": it waits for signals, polls    *)
(* the port, runs hooks or closes the port, in any order.  Exec and        *)
(* RexxMast are external.                                                  *)
(***************************************************************************)
EXTENDS Integers, Sequences, FiniteSets

CONSTANTS Scripts,    \* the scripts of the user
          Hook,       \* the hook script
          SendMax     \* bound: commands one script sends

ASSUME RexxPortAssumption == Hook \notin Scripts /\ SendMax \in Nat

Sender == Scripts \cup {Hook}

VARIABLES
  pc,       \* where the task of AmBot is
  caller,   \* where ambot_rexx_process returns to
  public,   \* the port is in the public list
  messages, \* the messages in the port
  signal,   \* the signal bit of the port
  ended,    \* the hook's message is in the reply port
  reply,    \* the signal bit of the reply port
  got,      \* the signals the wait for the hook returned
  script,   \* what each script is doing
  sent      \* commands each script has sent

port  == <<public, messages, signal>>
hook  == <<ended, reply, got>>
users == <<script, sent>>
vars  == <<pc, caller, port, hook, users>>

NoSignals == [port |-> FALSE, reply |-> FALSE]

Init ==
  /\ pc = "outside" /\ caller = "outside"
  /\ public = TRUE /\ messages = <<>> /\ signal = FALSE
  /\ ended = FALSE /\ reply = FALSE /\ got = NoSignals
  /\ script = [s \in Sender |-> IF s = Hook THEN "absent" ELSE "running"]
  /\ sent = [s \in Sender |-> 0]

-----------------------------------------------------------------------------
(* External: the scripts                                                   *)

(* ADDRESS AMBOT: FindPort and PutMsg, in one Forbid.                       *)
Send(s) ==
  /\ script[s] = "running" /\ sent[s] < SendMax
  /\ public
  /\ messages' = Append(messages, s) /\ signal' = TRUE
  /\ script' = [script EXCEPT ![s] = "blocked"]
  /\ sent' = [sent EXCEPT ![s] = @ + 1]
  /\ UNCHANGED <<pc, caller, public, hook>>

(* A script ends; RexxMast returns the hook's message.                      *)
ScriptEnds(s) ==
  /\ script[s] = "running"
  /\ script' = [script EXCEPT ![s] = "absent"]
  /\ ended' = (ended \/ s = Hook) /\ reply' = (reply \/ s = Hook)
  /\ UNCHANGED <<pc, caller, port, got, sent>>

-----------------------------------------------------------------------------
(* The port                                                                *)

(* Wait clears the bits it returns.                                         *)
ClearSignal == signal' = FALSE

(* WaitSelect returns, because of the port or of something else.            *)
Block ==
  /\ pc = "outside" /\ pc' = "wait"
  /\ UNCHANGED <<caller, port, hook, users>>

Wake ==
  /\ pc = "wait"
  /\ pc' = IF signal THEN "process" ELSE "outside"
  /\ ClearSignal
  /\ UNCHANGED <<caller, public, messages, hook, users>>

(* While it is not connected the program polls.                             *)
Poll ==
  /\ pc = "outside" /\ pc' = "process"
  /\ UNCHANGED <<caller, port, hook, users>>

(* GetMsg and ReplyMsg.                                                     *)
Answer ==
  /\ messages # <<>>
  /\ messages' = Tail(messages)
  /\ script' = [script EXCEPT ![Head(messages)] = "running"]
  /\ UNCHANGED <<caller, public, signal, hook, sent>>

(* Mutant: one message for each signal.                                     *)
ProcessOneOnly ==
  /\ pc = "process" /\ pc' = caller
  /\ \/ Answer
     \/ messages = <<>> /\ UNCHANGED <<caller, port, hook, users>>

Process ==
  /\ pc = "process"
  /\ Answer
  /\ UNCHANGED pc

ProcessDone ==
  /\ pc = "process" /\ messages = <<>>
  /\ pc' = caller /\ caller' = "outside"
  /\ UNCHANGED <<port, hook, users>>

-----------------------------------------------------------------------------
(* ambot_rexx_run_script                                                   *)

(* RexxMast is not running, or memory is short: the hook is not run, and    *)
(* nothing has changed.  Otherwise its message is put to RexxMast.          *)
RunScript ==
  /\ pc = "outside"
  /\ pc' = "hookwait"
  /\ script' = [script EXCEPT ![Hook] = "running"]
  /\ sent' = [sent EXCEPT ![Hook] = 0]
  /\ UNCHANGED <<caller, port, hook>>

(* Mutants: only the reply is waited for; or the loop goes back to the wait *)
(* when it has answered commands.                                           *)
HookWaitDeaf ==
  /\ pc = "hookwait" /\ reply
  /\ got' = [port |-> FALSE, reply |-> TRUE] /\ reply' = FALSE
  /\ pc' = "hooktest"
  /\ UNCHANGED <<caller, port, ended, users>>

HookWaitForgets ==
  /\ pc = "hookwait" /\ (signal \/ reply)
  /\ got' = [port |-> signal, reply |-> reply]
  /\ ClearSignal /\ reply' = FALSE
  /\ IF signal THEN pc' = "process" /\ caller' = "hookwait"
               ELSE pc' = "hooktest" /\ UNCHANGED caller
  /\ UNCHANGED <<public, messages, ended, users>>

HookWait ==
  /\ pc = "hookwait" /\ (signal \/ reply)
  /\ got' = [port |-> signal, reply |-> reply]
  /\ ClearSignal /\ reply' = FALSE
  /\ IF signal THEN pc' = "process" /\ caller' = "hooktest"
               ELSE pc' = "hooktest" /\ UNCHANGED caller
  /\ UNCHANGED <<public, messages, ended, users>>

(* Mutant: whatever ended the wait is taken for the reply.                  *)
HookTestAny ==
  /\ pc = "hooktest"
  /\ pc' = "outside" /\ ended' = FALSE /\ got' = NoSignals
  /\ UNCHANGED <<caller, port, reply, users>>

(* Only the signals the wait returned count: a reply that came since is     *)
(* found by the next wait.                                                  *)
HookTest ==
  /\ pc = "hooktest"
  /\ pc' = IF got.reply /\ ended THEN "outside" ELSE "hookwait"
  /\ ended' = (ended /\ ~got.reply)
  /\ got' = NoSignals
  /\ UNCHANGED <<caller, port, reply, users>>

-----------------------------------------------------------------------------
(* ambot_rexx_close                                                        *)

RemPort ==
  /\ pc = "outside"
  /\ pc' = "drain" /\ public' = FALSE
  /\ UNCHANGED <<caller, messages, signal, hook, users>>

(* What is left is replied without having been looked at.                   *)
Drain ==
  /\ pc = "drain"
  /\ Answer
  /\ UNCHANGED pc

(* Mutant: the port is deleted with what is left in it.                     *)
DeletePortAtOnce ==
  /\ pc = "drain"
  /\ pc' = "closed"
  /\ UNCHANGED <<caller, port, hook, users>>

DeletePort ==
  /\ pc = "drain" /\ messages = <<>>
  /\ pc' = "closed"
  /\ UNCHANGED <<caller, port, hook, users>>

Outside == Block \/ Poll \/ RunScript \/ RemPort
Host ==
  \/ Process \/ ProcessDone \/ HookWait \/ HookTest \/ Drain \/ DeletePort

Next ==
  \/ Outside \/ Wake \/ Host
  \/ \E s \in Sender : Send(s) \/ ScriptEnds(s)
  \/ pc = "closed" /\ UNCHANGED vars

Spec == Init /\ [][Next]_vars

(* AmBot takes its steps, and a WaitSelect with the port's bit set returns; *)
(* a hook script ends.  Whether the program ever waits, polls or ends, and  *)
(* what the scripts of the user do, is open.                                *)
Fairness ==
  /\ WF_vars(Host) /\ WF_vars(Outside)
  /\ WF_vars(signal /\ Wake)
  /\ WF_vars(ScriptEnds(Hook))

FairSpec == Spec /\ Fairness

-----------------------------------------------------------------------------
Elements == {messages[k] : k \in 1 .. Len(messages)}

TypeOK ==
  /\ pc \in {"outside", "wait", "process", "hookwait", "hooktest", "drain",
             "closed"}
  /\ caller \in {"outside", "hooktest"}
  /\ public \in BOOLEAN /\ signal \in BOOLEAN
  /\ ended \in BOOLEAN /\ reply \in BOOLEAN
  /\ messages \in Seq(Sender)
  /\ got \in [port : BOOLEAN, reply : BOOLEAN]
  /\ script \in [Sender -> {"absent", "running", "blocked"}]
  /\ sent \in [Sender -> 0 .. SendMax]

(* No wakeup is lost: AmBot never sleeps, in WaitSelect or in the wait for a *)
(* hook, over a message whose signal has been taken already.                *)
NoLostWakeup ==
  pc \in {"outside", "wait", "hookwait"} /\ messages # <<>> => signal

(* A script is blocked exactly while its message is in the port, once: none *)
(* is answered twice, none is forgotten, and none is left in the port when  *)
(* it is deleted.                                                           *)
BlockedInPort ==
  /\ {s \in Sender : script[s] = "blocked"} = Elements
  /\ Cardinality(Elements) = Len(messages)
  /\ pc = "closed" => messages = <<>>

(* One hook runs at a time, and AmBot waits for it until it has ended.      *)
HookAwaited ==
  LET inHook == \/ pc \in {"hookwait", "hooktest"}
                \/ pc = "process" /\ caller = "hooktest"
  IN  /\ script[Hook] # "absent" \/ ended <=> inHook
      /\ ended => script[Hook] = "absent" /\ (reply \/ got.reply)

(* A hook can use the commands without deadlocking the event runner         *)
(* (docs/M5.md:34).                                                         *)
HookReturns == pc = "hookwait" ~> pc = "outside"

(* Every command is answered, whatever the program is doing when it comes.  *)
CommandAnswered ==
  \A s \in Sender : script[s] = "blocked" ~> script[s] # "blocked"
=============================================================================

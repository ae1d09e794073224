---------------------------- MODULE ControlProofs ----------------------------
(***************************************************************************)
(* Facts about the control record that the proofs about both runtimes use. *)
(***************************************************************************)
EXTENDS Control, TLAPS

(* The operations yield control records.                                    *)
LEMMA DispatchType ==
  ASSUME NEW c \in ControlRecord, NEW command \in Command
  PROVE  Dispatch(c, command) \in ControlRecord
BY DEF ControlRecord, Command, Dispatch, OpConnect, OpDisconnect, OpReload,
       OpQuit

LEMMA SetSocketType ==
  ASSUME NEW c \in ControlRecord, NEW s \in Sock
  PROVE  SetSocket(c, s) \in ControlRecord
BY DEF ControlRecord, SetSocket

(* A command attaches and detaches no socket; a request to quit stays; and  *)
(* a command that takes a disconnect request back leaves one to connect.    *)
LEMMA DispatchKeeps ==
  ASSUME NEW c \in ControlRecord, NEW command \in Command
  PROVE  /\ Dispatch(c, command).sock = c.sock
         /\ c.quit => Dispatch(c, command).quit
         /\ c.disconnect /\ ~Dispatch(c, command).disconnect
              => Dispatch(c, command).connect
BY DEF ControlRecord, Command, Dispatch, OpConnect, OpDisconnect, OpReload,
       OpQuit

LEMMA SetSocketKeeps ==
  ASSUME NEW c \in ControlRecord, NEW s \in Sock
  PROVE  /\ SetSocket(c, s).sock = s
         /\ SetSocket(c, s).quit = c.quit
         /\ SetSocket(c, s).disconnect = c.disconnect
         /\ SetSocket(c, s).connect => c.connect
BY DEF ControlRecord, SetSocket
=============================================================================

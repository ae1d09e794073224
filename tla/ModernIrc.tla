------------------------------ MODULE ModernIrc ------------------------------
(***************************************************************************)
(* One network connection from the TCP connect to the server's welcome:    *)
(* the CAP and SASL negotiation (src/src/modernirc.c) within the           *)
(* registration connect_runtime sends and the line handler of the          *)
(* multi-network runtime (src/src/multinet.c), against an IRC server.      *)
(*                                                                         *)
(* A line is abstracted to what ambot_modernirc_handle_line tells apart:   *)
(* "LS_sasl" is a CAP LS reply that names sasl, "LS" one that does not.    *)
(* The server is external; it holds a registration back from CAP LS to     *)
(* CAP END, as IRCv3 has it, and answers every line it gets.  TCP keeps    *)
(* the order of the lines of one direction.                                *)
(***************************************************************************)
EXTENDS Sequences, SequencesExt, Naturals

CONSTANTS Replies,   \* what the server may answer a CAP REQ or a credential
          Listings   \* how it may list its capabilities

ASSUME ModernIrcAssumption ==
  /\ Replies \subseteq {"ACK", "NAK", "903", "904"}
  /\ Listings \subseteq Seq({"LS", "LS_sasl"})

VARIABLES
  cap, sasl,      \* config.cap_enabled, config.sasl_plain
  pc,             \* "down", "up", or "disabled" after a failed negotiation
  state,          \* struct ambot_modernirc of the connection
  toServer, toBot,  \* the lines under way
  server,         \* external: what the server knows of the connection
  seen,           \* history: the bot has read 001
  log             \* history: what the bot has sent on this connection

config == <<cap, sasl>>
vars   == <<config, pc, state, toServer, toBot, server, seen, log>>

Modern == [active : BOOLEAN, ended : BOOLEAN,        \* cap_active, cap_ended
           requested : BOOLEAN, complete : BOOLEAN]  \* sasl_...
Fresh  == [active |-> FALSE, ended |-> FALSE,
           requested |-> FALSE, complete |-> FALSE]

(* It waits for CAP END; it has got NICK and USER; it has sent 001; it has  *)
(* listed sasl; it has accepted the credential.                             *)
Peer    == [held : BOOLEAN, known : BOOLEAN, welcomed : BOOLEAN,
            offered : BOOLEAN, passed : BOOLEAN]
NewPeer == [held |-> FALSE, known |-> FALSE, welcomed |-> FALSE,
            offered |-> FALSE, passed |-> FALSE]

Init ==
  /\ cap \in BOOLEAN /\ sasl \in BOOLEAN
  /\ pc = "down"
  /\ state = Fresh /\ server = NewPeer
  /\ toServer = <<>> /\ toBot = <<>>
  /\ seen = FALSE /\ log = <<>>

-----------------------------------------------------------------------------
(* The bot                                                                 *)

SendAll(lines) == toServer' = toServer \o lines /\ log' = log \o lines


(* connect_runtime: CAP LS, then PASS, NICK and USER, then the channels.    *)
Connect ==
  /\ pc = "down"
  /\ pc' = "up"
  /\ state' = [Fresh EXCEPT !.active = cap]
  /\ LET lines == (IF cap THEN <<"CAP_LS">> ELSE <<>>) \o <<"USER", "JOIN">>
     IN  toServer' = lines /\ log' = lines
  /\ toBot' = <<>> /\ seen' = FALSE
  /\ server' = NewPeer
  /\ UNCHANGED config

Reads(kinds) ==
  /\ pc = "up"
  /\ toBot # <<>> /\ Head(toBot) \in kinds
  /\ toBot' = Tail(toBot)
  /\ UNCHANGED <<config, server>>

Negotiating == state.active /\ ~state.ended
Up(lines) == SendAll(lines) /\ pc' = "up" /\ UNCHANGED seen
Ended == [state EXCEPT !.ended = TRUE]

ReadListing ==
  /\ Reads({"LS", "LS_sasl"}) /\ Negotiating
  /\ sasl /\ Head(toBot) = "LS_sasl"
  /\ state' = [state EXCEPT !.requested = TRUE]
  /\ Up(<<"CAP_REQ">>)

(* Mutant: CAP END is sent, but not remembered.                             *)
ReadNothingNeededAgain ==
  /\ Reads({"LS", "LS_sasl"}) /\ Negotiating
  /\ ~(sasl /\ Head(toBot) = "LS_sasl")
  /\ Up(<<"CAP_END">>)
  /\ UNCHANGED state

ReadNothingNeeded ==
  /\ Reads({"LS", "LS_sasl"}) /\ Negotiating
  /\ ~(sasl /\ Head(toBot) = "LS_sasl")
  /\ state' = Ended
  /\ Up(<<"CAP_END">>)

(* Mutant: the credential is sent without waiting to be asked.              *)
ReadAckEager ==
  /\ Reads({"ACK"}) /\ Negotiating /\ state.requested
  /\ Up(<<"PLAIN", "credential">>)
  /\ UNCHANGED state

ReadAck ==
  /\ Reads({"ACK"}) /\ Negotiating /\ state.requested
  /\ Up(<<"PLAIN">>)
  /\ UNCHANGED state

ReadChallenge ==
  /\ Reads({"+"}) /\ Negotiating /\ state.requested
  /\ Up(<<"credential">>)
  /\ UNCHANGED state

ReadSuccess ==
  /\ Reads({"903"}) /\ Negotiating
  /\ state' = [Ended EXCEPT !.complete = TRUE]
  /\ Up(<<"CAP_END">>)

(* Mutant: a refused credential does not stop the connection.               *)
ReadFailureGoesOn ==
  /\ Reads({"904"}) /\ Negotiating
  /\ state' = Ended
  /\ Up(<<"CAP_END">>)

(* 904 to 907: CAP END, and the line handler closes the connection.         *)
ReadFailure ==
  /\ Reads({"904"}) /\ Negotiating
  /\ state' = Ended
  /\ SendAll(<<"CAP_END">>)
  /\ pc' = "disabled" /\ UNCHANGED seen

(* Lines the negotiation has nothing to do with, or no longer.              *)
Ignored(l) ==
  \/ l \in {"001", "451", "NAK"} \/ ~Negotiating
  \/ l \in {"ACK", "+"} /\ ~state.requested

ReadIgnored ==
  /\ Reads({"LS", "LS_sasl", "ACK", "NAK", "+", "903", "904", "001", "451"})
  /\ Ignored(Head(toBot))
  /\ seen' = (seen \/ Head(toBot) = "001")
  /\ UNCHANGED <<pc, state, toServer, log>>

Answered ==
  {"LS", "LS_sasl", "903"} \cup IF state.requested THEN {"ACK", "+"} ELSE {}

(* A reply cannot be sent: the network is disabled just as after a refusal. *)
SendFails ==
  /\ Reads(Answered) /\ Negotiating
  /\ pc' = "disabled"
  /\ UNCHANGED <<state, toServer, seen, log>>

Bot ==
  \/ ReadListing \/ ReadNothingNeeded \/ ReadAck \/ ReadChallenge
  \/ ReadSuccess \/ ReadFailure \/ ReadIgnored

(* The connection is lost; the network gets a local retry.                  *)
Lost ==
  /\ pc = "up"
  /\ pc' = "down"
  /\ UNCHANGED <<config, state, toServer, toBot, server, seen, log>>

-----------------------------------------------------------------------------
(* External: the server                                                    *)

Serve(line) ==
  /\ pc # "down" /\ toServer # <<>> /\ Head(toServer) = line
  /\ toServer' = Tail(toServer)
  /\ UNCHANGED <<config, pc, state, seen, log>>

(* The registration is complete: the server greets the bot.                 *)
Welcome(peer) ==
  LET greets == peer.known /\ ~peer.held /\ ~peer.welcomed
  IN  /\ server' = [peer EXCEPT !.welcomed = @ \/ greets]
      /\ toBot' = IF greets THEN Append(toBot, "001") ELSE toBot

(* A server without capabilities does not know CAP and ignores it.          *)
ServeList ==
  /\ Serve("CAP_LS")
  /\ \/ UNCHANGED <<toBot, server>>
     \/ \E listing \in Listings :
          /\ toBot' = toBot \o listing
          /\ server' = [server EXCEPT !.held = TRUE,
                                     !.offered = Contains(listing, "LS_sasl")]

ServeUser == Serve("USER") /\ Welcome([server EXCEPT !.known = TRUE])

ServeJoin ==
  /\ Serve("JOIN")
  /\ toBot' = IF server.welcomed THEN toBot ELSE Append(toBot, "451")
  /\ UNCHANGED server

ServeRequest ==
  /\ Serve("CAP_REQ")
  /\ \E reply \in Replies \cap {"ACK", "NAK"} : toBot' = Append(toBot, reply)
  /\ UNCHANGED server

ServeMechanism ==
  /\ Serve("PLAIN")
  /\ toBot' = Append(toBot, "+")
  /\ UNCHANGED server

ServeCredential ==
  /\ Serve("credential")
  /\ \E reply \in Replies \cap {"903", "904"} :
       /\ toBot' = Append(toBot, reply)
       /\ server' = [server EXCEPT !.passed = reply = "903"]

ServeEnd == Serve("CAP_END") /\ Welcome([server EXCEPT !.held = FALSE])

Server ==
  \/ ServeList \/ ServeUser \/ ServeJoin \/ ServeRequest \/ ServeMechanism
  \/ ServeCredential \/ ServeEnd

Next ==
  \/ Connect \/ Bot \/ SendFails \/ Lost \/ Server
  \/ pc = "disabled" /\ UNCHANGED vars

Spec == Init /\ [][Next]_vars

(* The bot reads what arrives and the server answers what arrives; nothing  *)
(* makes the connection fail or come back.                                  *)
FairSpec == Spec /\ WF_vars(Bot) /\ WF_vars(Server)

-----------------------------------------------------------------------------
(* The fields of ambot_modernirc depend on each other: there is no request  *)
(* without a negotiation, and one that succeeded is over.                   *)
TypeOK ==
  /\ cap \in BOOLEAN /\ sasl \in BOOLEAN
  /\ pc \in {"down", "up", "disabled"}
  /\ state \in Modern /\ server \in Peer
  /\ state.ended \/ state.requested => state.active
  /\ state.complete => state.ended
  /\ seen \in BOOLEAN

(* CAP END is the last word of a negotiation, and so is said once: after it *)
(* no capability is requested and no credential is sent.                    *)
EndIsLast == \A j \in 1 .. Len(log) : log[j] = "CAP_END" => j = Len(log)

(* The bot says b once, and only after it has said a.                       *)
Follows(b, a) ==
  \A j \in 1 .. Len(log) : log[j] = b =>
    /\ \E i \in 1 .. j - 1 : log[i] = a
    /\ \A i \in 1 .. Len(log) : log[i] = b => i = j

(* The standard exchange (docs/M8.md:11): the credential goes out once, to  *)
(* a server that has acknowledged sasl and then asked for it.               *)
CredentialAskedFor ==
  /\ Follows("CAP_REQ", "CAP_LS") /\ Follows("PLAIN", "CAP_REQ")
  /\ Follows("credential", "PLAIN")
  /\ Contains(toServer, "credential") => ~Contains(toServer, "PLAIN")

(* A bot that is to authenticate itself, on a server that offers it, is     *)
(* never welcomed without: it is authenticated, or the network is disabled. *)
NeverUnauthenticated ==
  pc = "up" /\ seen /\ sasl /\ server.offered
    => state.complete /\ server.passed

-----------------------------------------------------------------------------
(* The dialogue: its words, of which no more than one is under way.         *)
Words == {"CAP_LS", "LS_sasl", "CAP_REQ", "ACK", "NAK", "PLAIN", "+",
          "credential", "903", "904"}

NoWord(q) == \A j \in 1 .. Len(q) : q[j] \notin Words

OneWord(q, w) ==
  \E j \in 1 .. Len(q) :
    q[j] = w /\ \A i \in 1 .. Len(q) : q[i] \in Words => i = j

Pending(w) == \/ OneWord(toServer, w) /\ NoWord(toBot)
              \/ NoWord(toServer) /\ OneWord(toBot, w)

(* What the bot has said of it when w is under way.                         *)
Progress(w) ==
  /\ Contains(log, "CAP_LS")
  /\ Contains(log, "CAP_REQ") <=> w \notin {"CAP_LS", "LS_sasl"}
  /\ Contains(log, "PLAIN") <=>
       w \in {"PLAIN", "+", "credential", "903", "904"}
  /\ Contains(log, "credential") <=> w \in {"credential", "903", "904"}

DialogueState ==
  \/ NoWord(toServer) /\ NoWord(toBot)
  \/ \E w \in Words : Pending(w) /\ Progress(w)

(* A listing that names sasl does so in its only line: what a server must   *)
(* keep to for a bot that answers every line of a listing.                  *)
SaslInOneLine ==
  \A l \in Listings : Contains(l, "LS_sasl") => l = <<"LS_sasl">>

(* What an offer of sasl commits the two sides to.                          *)
OfferState ==
  /\ Contains(toServer, "CAP_LS") =>
       /\ toServer = <<"CAP_LS", "USER", "JOIN">> /\ toBot = <<>>
       /\ server = NewPeer /\ ~seen /\ ~state.complete
  /\ seen \/ server.welcomed \/ Contains(toBot, "001") => ~server.held
  /\ server.offered => ~Contains(toBot, "LS")
  /\ Contains(toBot, "903") => server.passed
  /\ state.complete => server.passed /\ NoWord(toServer) /\ NoWord(toBot)
  /\ pc = "up" /\ sasl /\ server.offered =>
       \/ server.held /\ ~Contains(toServer, "CAP_END")
       \/ state.complete

(* A network is given up for a negotiation under way, and for nothing else:  *)
(* one that does not negotiate, or that has been welcomed, can only be lost, *)
(* and a lost one gets its retry (MultiNet), whatever fails to be sent.      *)
DisabledInNegotiation == pc = "disabled" => cap /\ ~seen

(* A negotiation is ended (docs/M8.md:7): the bot is welcomed, or the       *)
(* connection is given up, as DisabledInNegotiation has it, or is lost.     *)
NegotiationEnds ==
  /\ pc = "up" ~> (seen \/ pc # "up")
  /\ []DisabledInNegotiation
=============================================================================

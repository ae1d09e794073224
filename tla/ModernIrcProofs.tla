--------------------------- MODULE ModernIrcProofs ---------------------------
(***************************************************************************)
(* The end of a negotiation, for any server: whatever it lists and answers *)
(* and in whatever order, CAP END is the last thing the bot sends.         *)
(***************************************************************************)
EXTENDS ModernIrc, TLAPS

(* EndIsLast is not inductive: that nothing follows CAP END rests on the    *)
(* flag that says it has been sent.                                         *)
EndSaid == \A j \in 1 .. Len(log) : log[j] = "CAP_END" => ~Negotiating

Lines == {"CAP_LS", "USER", "JOIN", "CAP_REQ", "PLAIN", "credential", "CAP_END"}

Inv == TypeOK /\ log \in Seq(Lines) /\ EndIsLast /\ EndSaid

LEMMA InitInv == Init => Inv
<1> SUFFICES ASSUME Init
             PROVE  Inv
  OBVIOUS
<1>1. TypeOK
  BY DEF Init, TypeOK, Modern, Fresh, Peer, NewPeer
<1>2. log = <<>>
  BY DEF Init
<1>3. log \in Seq(Lines) /\ EndIsLast /\ EndSaid
  BY <1>2 DEF EndIsLast, EndSaid
<1> QED  BY <1>1, <1>3 DEF Inv

(* What the bot says while it negotiates.                                   *)
LEMMA Sending ==
  ASSUME Inv, Negotiating, NEW l \in Lines, SendAll(<<l>>),
         l = "CAP_END" => ~Negotiating'
  PROVE  log' \in Seq(Lines) /\ EndIsLast' /\ EndSaid'
<1>1. log' = Append(log, l) /\ log \in Seq(Lines)
  BY DEF SendAll, Inv
<1>2. \A j \in 1 .. Len(log) : log[j] # "CAP_END"
  BY DEF Inv, EndSaid
<1>3. /\ Len(log) \in Nat /\ Len(log') = Len(log) + 1
      /\ log'[Len(log) + 1] = l
      /\ \A j \in 1 .. Len(log) : log'[j] = log[j]
  BY <1>1
<1>4. log' \in Seq(Lines)
  BY <1>1
<1>5. EndIsLast'
  BY <1>2, <1>3 DEF EndIsLast
<1>6. EndSaid'
  BY <1>2, <1>3 DEF EndSaid
<1> QED  BY <1>4, <1>5, <1>6

LEMMA NothingSent ==
  ASSUME Inv, TypeOK', UNCHANGED <<state, log>>
  PROVE  Inv'
<1>1. Negotiating' <=> Negotiating
  BY DEF Negotiating
<1> QED  BY <1>1 DEF Inv, EndIsLast, EndSaid

(* A connection starts with other lines, and a negotiation to come.         *)
LEMMA ConnectInv == Inv /\ Connect => Inv'
<1> SUFFICES ASSUME Inv, Connect
             PROVE  Inv'
  OBVIOUS
<1> DEFINE lines == (IF cap THEN <<"CAP_LS">> ELSE <<>>) \o <<"USER", "JOIN">>
<1>1. log' = lines /\ pc' = "up" /\ server' = NewPeer /\ seen' = FALSE
      /\ state' = [Fresh EXCEPT !.active = cap] /\ UNCHANGED config
  BY DEF Connect
<1>2. lines \in Seq(Lines) /\ \A j \in 1 .. Len(lines) : lines[j] # "CAP_END"
  <2>1. CASE cap
    <3>1. lines = <<"CAP_LS">> \o <<"USER", "JOIN">>
      BY <2>1
    <3> HIDE DEF lines
    <3> QED  BY <3>1 DEF Lines
  <2>2. CASE ~cap
    <3>1. lines = <<"USER", "JOIN">>
      BY <2>2
    <3> HIDE DEF lines
    <3> QED  BY <3>1 DEF Lines
  <2> QED  BY <2>1, <2>2
<1> HIDE DEF lines
<1>3. TypeOK'
  BY <1>1 DEF Inv, TypeOK, Modern, Fresh, Peer, NewPeer, config
<1> QED  BY <1>1, <1>2, <1>3 DEF Inv, EndIsLast, EndSaid

LEMMA BotInv == Inv /\ (Bot \/ SendFails) => Inv'
<1> SUFFICES ASSUME Inv, Bot \/ SendFails
             PROVE  Inv'
  OBVIOUS
<1> USE DEF Reads, config
<1>1. CASE ReadListing
  <2>1. TypeOK'
    BY <1>1 DEF ReadListing, Inv, TypeOK, Modern, Up, Negotiating
  <2> QED  BY <1>1, <2>1, Sending
           DEF ReadListing, Up, Inv, TypeOK, Lines
<1>2. CASE ReadNothingNeeded
  <2>1. TypeOK' /\ ~Negotiating'
    BY <1>2 DEF ReadNothingNeeded, Inv, TypeOK, Modern, Up, Ended, Negotiating
  <2> QED  BY <1>2, <2>1, Sending
           DEF ReadNothingNeeded, Up, Inv, TypeOK, Lines
<1>3. CASE ReadAck
  <2>1. TypeOK'
    BY <1>3 DEF ReadAck, Inv, TypeOK, Up
  <2> QED  BY <1>3, <2>1, Sending DEF ReadAck, Up, Inv, TypeOK, Lines
<1>4. CASE ReadChallenge
  <2>1. TypeOK'
    BY <1>4 DEF ReadChallenge, Inv, TypeOK, Up
  <2> QED  BY <1>4, <2>1, Sending DEF ReadChallenge, Up, Inv, TypeOK, Lines
<1>5. CASE ReadSuccess
  <2>1. TypeOK' /\ ~Negotiating'
    BY <1>5 DEF ReadSuccess, Inv, TypeOK, Modern, Up, Ended, Negotiating
  <2> QED  BY <1>5, <2>1, Sending DEF ReadSuccess, Up, Inv, TypeOK, Lines
<1>6. CASE ReadFailure
  <2>1. TypeOK' /\ ~Negotiating'
    BY <1>6 DEF ReadFailure, Inv, TypeOK, Modern, Ended, Negotiating
  <2> QED  BY <1>6, <2>1, Sending DEF ReadFailure, Inv, TypeOK, Lines
<1>7. CASE ReadIgnored \/ SendFails
  <2>1. /\ UNCHANGED <<cap, sasl, state, server, log>>
        /\ pc' \in {"down", "up", "disabled"} /\ seen' \in BOOLEAN
    BY <1>7 DEF ReadIgnored, SendFails, Inv, TypeOK
  <2>2. TypeOK'
    BY <2>1 DEF Inv, TypeOK
  <2> QED  BY <2>1, <2>2, NothingSent
<1> QED  BY <1>1, <1>2, <1>3, <1>4, <1>5, <1>6, <1>7 DEF Bot

LEMMA ServerInv == Inv /\ Server => Inv'
<1> SUFFICES ASSUME Inv, Server
             PROVE  Inv'
  OBVIOUS
<1>1. UNCHANGED <<cap, sasl, pc, state, seen, log>>
  BY DEF Server, ServeList, ServeUser, ServeJoin, ServeRequest, ServeMechanism,
         ServeCredential, ServeEnd, Serve, config
<1>2. server' \in Peer
  BY DEF Server, ServeList, ServeUser, ServeJoin, ServeRequest, ServeMechanism,
         ServeCredential, ServeEnd, Welcome, Inv, TypeOK, Peer, Contains
<1>3. TypeOK'
  BY <1>1, <1>2 DEF Inv, TypeOK
<1> QED  BY <1>1, <1>3, NothingSent

LEMMA RestInv ==
  ASSUME Inv, Lost \/ UNCHANGED vars
  PROVE  Inv'
<1>1. TypeOK' /\ UNCHANGED <<state, log>>
  BY DEF Lost, vars, config, Inv, TypeOK
<1> QED  BY <1>1, NothingSent

(* The flags of struct ambot_modernirc depend on each other, and say that   *)
(* CAP END has been sent.                                                   *)
THEOREM Invariance == Spec => []Inv
<1>1. Init => Inv
  BY InitInv
<1>2. Inv /\ [Next]_vars => Inv'
  BY ConnectInv, BotInv, ServerInv, RestInv DEF Next
<1> QED  BY <1>1, <1>2, PTL DEF Spec

(* Whatever the server lists and answers, after CAP END the bot requests    *)
(* nothing and sends no credential: ambot_modernirc_handle_line             *)
(* (src/src/modernirc.c:80).                                                *)
THEOREM EndCorrect == Spec => []EndIsLast
<1>1. Inv => EndIsLast
  BY DEF Inv
<1> QED  BY <1>1, Invariance, PTL

-----------------------------------------------------------------------------
(* The words of the dialogue in a queue                                     *)

LEMMA AtTheEnd ==
  ASSUME NEW T, NEW q \in Seq(T), NEW x \in T
  PROVE  /\ Append(q, x) \in Seq(T) /\ Len(Append(q, x)) = Len(q) + 1
         /\ Len(q) \in Nat /\ Append(q, x)[Len(q) + 1] = x
         /\ \A j \in 1 .. Len(q) : Append(q, x)[j] = q[j]
OBVIOUS

LEMMA AtTheHead ==
  ASSUME NEW T, NEW q \in Seq(T), q # <<>>
  PROVE  /\ Tail(q) \in Seq(T) /\ Len(Tail(q)) = Len(q) - 1
         /\ Len(q) \in Nat /\ Len(q) >= 1 /\ Head(q) = q[1] /\ Head(q) \in T
         /\ \A j \in 1 .. Len(q) - 1 : Tail(q)[j] = q[j + 1]
OBVIOUS

LEMMA Prefix ==
  ASSUME NEW n \in Nat
  PROVE  /\ \A j \in 1 .. n + 1 : j \in 1 .. n \/ j = n + 1
         /\ \A j \in 1 .. n : j \in 1 .. n + 1 /\ j # n + 1
         /\ n + 1 \in 1 .. n + 1
OBVIOUS

LEMMA ContainsAppended ==
  ASSUME NEW T, NEW q \in Seq(T), NEW x \in T, NEW y
  PROVE  Contains(Append(q, x), y) <=> Contains(q, y) \/ x = y
BY AtTheEnd, Prefix DEF Contains

LEMMA ContainsRest ==
  ASSUME NEW T, NEW q \in Seq(T), q # <<>>, NEW y, Contains(Tail(q), y)
  PROVE  Contains(q, y)
<1>1. PICK j \in 1 .. Len(q) - 1 : Tail(q)[j] = y
  BY AtTheHead DEF Contains
<1>2. j + 1 \in 1 .. Len(q) /\ q[j + 1] = y
  BY <1>1, AtTheHead
<1> QED  BY <1>2 DEF Contains

LEMMA ContainsHead ==
  ASSUME NEW T, NEW q \in Seq(T), q # <<>>
  PROVE  Contains(q, Head(q))
<1>1. 1 \in 1 .. Len(q)
  BY AtTheHead
<1> QED  BY <1>1, AtTheHead DEF Contains

LEMMA NoWordAppended ==
  ASSUME NEW T, NEW q \in Seq(T), NEW x \in T, NoWord(q)
  PROVE  /\ x \notin Words => NoWord(Append(q, x))
         /\ x \in Words => OneWord(Append(q, x), x)
<1> DEFINE r == Append(q, x)
<1>1. /\ Len(r) = Len(q) + 1 /\ Len(q) \in Nat /\ r[Len(q) + 1] = x
      /\ \A j \in 1 .. Len(q) : r[j] = q[j]
  BY AtTheEnd
<1> HIDE DEF r
<1>2. \A j \in 1 .. Len(r) : j \in 1 .. Len(q) \/ j = Len(q) + 1
  BY <1>1, Prefix
<1>3. x \notin Words => NoWord(r)
  BY <1>1, <1>2, Zenon DEF NoWord
<1>4. ASSUME x \in Words PROVE OneWord(r, x)
  <2>1. Len(q) + 1 \in 1 .. Len(r)
    BY <1>1, Prefix
  <2>2. \A i \in 1 .. Len(r) : r[i] \in Words => i = Len(q) + 1
    BY <1>1, <1>2, Zenon DEF NoWord
  <2> QED  BY <1>1, <2>1, <2>2, Zenon DEF OneWord
<1> QED  BY <1>3, <1>4, Zenon DEF r

LEMMA OneWordAppended ==
  ASSUME NEW T, NEW q \in Seq(T), NEW x \in T, NEW w, OneWord(q, w),
         x \notin Words
  PROVE  OneWord(Append(q, x), w)
<1> DEFINE r == Append(q, x)
<1>1. /\ Len(r) = Len(q) + 1 /\ Len(q) \in Nat /\ r[Len(q) + 1] = x
      /\ \A j \in 1 .. Len(q) : r[j] = q[j]
  BY AtTheEnd
<1> HIDE DEF r
<1>2. PICK j \in 1 .. Len(q) :
        q[j] = w /\ \A i \in 1 .. Len(q) : q[i] \in Words => i = j
  BY DEF OneWord
<1>3. \A i \in 1 .. Len(r) : i \in 1 .. Len(q) \/ i = Len(q) + 1
  BY <1>1, Prefix
<1>4. j \in 1 .. Len(r)
  BY <1>1, Prefix
<1>5. \A i \in 1 .. Len(r) : r[i] \in Words => i = j
  BY <1>1, <1>2, <1>3, Zenon
<1>6. OneWord(r, w)
  BY <1>1, <1>2, <1>4, <1>5, Zenon DEF OneWord
<1> QED  BY <1>6 DEF r

LEMMA NoWordRest ==
  ASSUME NEW T, NEW q \in Seq(T), q # <<>>, NoWord(q)
  PROVE  NoWord(Tail(q)) /\ Head(q) \notin Words
<1>1. \A j \in 1 .. Len(q) - 1 : j + 1 \in 1 .. Len(q)
  BY AtTheHead
<1>2. 1 \in 1 .. Len(q)
  BY AtTheHead
<1> QED  BY <1>1, <1>2, AtTheHead DEF NoWord

LEMMA OneWordRest ==
  ASSUME NEW T, NEW q \in Seq(T), q # <<>>, NEW w \in Words, OneWord(q, w)
  PROVE  /\ Head(q) \in Words => Head(q) = w /\ NoWord(Tail(q))
         /\ Head(q) \notin Words => OneWord(Tail(q), w)
<1> DEFINE r == Tail(q)
<1>1. /\ Len(r) = Len(q) - 1 /\ Len(q) \in Nat /\ Len(q) >= 1
      /\ Head(q) = q[1] /\ \A j \in 1 .. Len(q) - 1 : r[j] = q[j + 1]
  BY AtTheHead
<1> HIDE DEF r
<1>2. PICK j \in 1 .. Len(q) :
        q[j] = w /\ \A i \in 1 .. Len(q) : q[i] \in Words => i = j
  BY DEF OneWord
<1>3. ASSUME Head(q) \in Words PROVE Head(q) = w /\ NoWord(r)
  <2>1. 1 = j
    BY <1>1, <1>2, <1>3
  <2>2. \A i \in 1 .. Len(r) : i + 1 \in 1 .. Len(q) /\ i + 1 # 1
    BY <1>1
  <2>3. \A i \in 1 .. Len(r) : r[i] = q[i + 1]
    BY <1>1
  <2> QED  BY <1>1, <1>2, <2>1, <2>2, <2>3, Zenon DEF NoWord
<1>4. ASSUME Head(q) \notin Words PROVE OneWord(r, w)
  <2>1. j # 1
    BY <1>1, <1>2, <1>4, Zenon
  <2>2. PICK k \in 1 .. Len(r) : k + 1 = j
    <3>1. j - 1 \in 1 .. Len(r) /\ j - 1 + 1 = j
      BY <1>1, <2>1
    <3> QED  BY <3>1, Zenon
  <2>3. r[k] = w
    BY <1>1, <1>2, <2>2
  <2>4. ASSUME NEW i \in 1 .. Len(r), r[i] \in Words PROVE i = k
    <3>1. i + 1 \in 1 .. Len(q) /\ r[i] = q[i + 1]
      BY <1>1
    <3>2. i + 1 = j
      BY <1>2, <2>4, <3>1, Zenon
    <3> QED  BY <2>2, <3>2
  <2> QED  BY <2>3, <2>4, Zenon DEF OneWord
<1> QED  BY <1>3, <1>4, Zenon DEF r

(* An answer listing that does not name sasl holds no word of the dialogue. *)
LEMMA PlainListing ==
  ASSUME NEW l \in Seq({"LS", "LS_sasl"}), ~Contains(l, "LS_sasl")
  PROVE  NoWord(l)
<1>1. \A j \in 1 .. Len(l) : l[j] = "LS"
  BY DEF Contains
<1>2. "LS" \notin Words
  BY DEF Words
<1> QED  BY <1>1, <1>2 DEF NoWord

LEMMA WordsApart ==
  /\ {"CAP_END", "USER", "JOIN", "LS", "001", "451"} \cap Words = {}
  /\ "CAP_LS" \in Words
BY DEF Words

-----------------------------------------------------------------------------
(* The dialogue                                                             *)

Heard == {"LS", "LS_sasl", "ACK", "NAK", "+", "903", "904", "001", "451"}

Queues == toServer \in Seq(Lines) /\ toBot \in Seq(Heard) /\ log \in Seq(Lines)

LEMMA FollowsKept ==
  ASSUME log \in Seq(Lines), NEW l \in Lines, log' = Append(log, l),
         NEW b, NEW a, l # b, Follows(b, a)
  PROVE  Follows(b, a)'
<1>1. /\ Len(log') = Len(log) + 1 /\ Len(log) \in Nat
      /\ log'[Len(log) + 1] = l
      /\ \A j \in 1 .. Len(log) : log'[j] = log[j]
  BY AtTheEnd
<1>2. \A j \in 1 .. Len(log') : log'[j] = b => j \in 1 .. Len(log)
  BY <1>1, Prefix, Zenon
<1> SUFFICES ASSUME NEW j \in 1 .. Len(log'), log'[j] = b
             PROVE  /\ \E i \in 1 .. j - 1 : log'[i] = a
                    /\ \A i \in 1 .. Len(log') : log'[i] = b => i = j
  BY Zenon DEF Follows
<1>3. j \in 1 .. Len(log) /\ log[j] = b
  BY <1>1, <1>2, Zenon
<1>4. PICK i \in 1 .. j - 1 : log[i] = a
  BY <1>3, Zenon DEF Follows
<1>5. i \in 1 .. Len(log)
  BY <1>1, <1>3
<1>6. \A k \in 1 .. Len(log') : log'[k] = b => k = j
  BY <1>1, <1>2, <1>3, Zenon DEF Follows
<1> QED  BY <1>1, <1>4, <1>5, <1>6, Zenon

LEMMA FollowsNow ==
  ASSUME log \in Seq(Lines), NEW b \in Lines, log' = Append(log, b),
         NEW a, Contains(log, a), ~Contains(log, b)
  PROVE  Follows(b, a)'
<1>1. /\ Len(log') = Len(log) + 1 /\ Len(log) \in Nat
      /\ \A j \in 1 .. Len(log) : log'[j] = log[j]
  BY AtTheEnd
<1>2. \A j \in 1 .. Len(log') : log'[j] = b => j = Len(log) + 1
  BY <1>1, Prefix, Zenon DEF Contains
<1>3. PICK i \in 1 .. Len(log) : log[i] = a
  BY DEF Contains
<1> SUFFICES ASSUME NEW j \in 1 .. Len(log'), log'[j] = b
             PROVE  /\ \E k \in 1 .. j - 1 : log'[k] = a
                    /\ \A k \in 1 .. Len(log') : log'[k] = b => k = j
  BY Zenon DEF Follows
<1>4. j = Len(log) + 1
  BY <1>2
<1>5. i \in 1 .. j - 1 /\ log'[i] = a
  BY <1>1, <1>3, <1>4
<1> QED  BY <1>2, <1>4, <1>5, Zenon

(* Of two words of the dialogue one is not in a queue.                      *)
LEMMA NotBoth ==
  ASSUME NEW q, NoWord(q) \/ \E w \in Words : OneWord(q, w)
  PROVE  Contains(q, "credential") => ~Contains(q, "PLAIN")
<1>1. "credential" \in Words /\ "PLAIN" \in Words
  BY DEF Words
<1>2. CASE NoWord(q)
  BY <1>1, <1>2 DEF NoWord, Contains
<1>3. CASE \E w \in Words : OneWord(q, w)
  <2>1. PICK j \in 1 .. Len(q) :
          \A i \in 1 .. Len(q) : q[i] \in Words => i = j
    BY <1>3 DEF OneWord
  <2> QED  BY <1>1, <2>1 DEF Contains
<1> QED  BY <1>2, <1>3

(* A word at the head of a queue is the only one.                           *)
LEMMA BotWord ==
  ASSUME Queues, DialogueState, toBot # <<>>, Head(toBot) \in Words
  PROVE  /\ NoWord(toServer) /\ NoWord(Tail(toBot))
         /\ Progress(Head(toBot))
<1>1. ~NoWord(toBot)
  BY NoWordRest DEF Queues
<1>2. PICK w \in Words : Pending(w) /\ Progress(w)
  BY <1>1, Zenon DEF DialogueState
<1>3. NoWord(toServer) /\ OneWord(toBot, w)
  BY <1>1, <1>2, Zenon DEF Pending
<1>4. Head(toBot) = w /\ NoWord(Tail(toBot))
  BY <1>3, OneWordRest DEF Queues
<1> QED  BY <1>2, <1>3, <1>4

LEMMA ServerWord ==
  ASSUME Queues, DialogueState, toServer # <<>>, Head(toServer) \in Words
  PROVE  /\ NoWord(toBot) /\ NoWord(Tail(toServer))
         /\ Progress(Head(toServer))
<1>1. ~NoWord(toServer)
  BY NoWordRest DEF Queues
<1>2. PICK w \in Words : Pending(w) /\ Progress(w)
  BY <1>1, Zenon DEF DialogueState
<1>3. NoWord(toBot) /\ OneWord(toServer, w)
  BY <1>1, <1>2, Zenon DEF Pending
<1>4. Head(toServer) = w /\ NoWord(Tail(toServer))
  BY <1>3, OneWordRest DEF Queues
<1> QED  BY <1>2, <1>3, <1>4

LEMMA ProgressKept ==
  ASSUME log \in Seq(Lines), log' = log \/ log' = Append(log, "CAP_END"),
         NEW w, Progress(w)
  PROVE  Progress(w)'
<1>1. CASE log' = log
  BY <1>1, Zenon DEF Progress
<1>2. CASE log' = Append(log, "CAP_END")
  <2>1. "CAP_END" \in Lines
    BY DEF Lines
  <2>2. \A y : Contains(log', y) <=> Contains(log, y) \/ "CAP_END" = y
    BY <1>2, <2>1, ContainsAppended
  <2> QED  BY <2>2 DEF Progress
<1> QED  BY <1>1, <1>2

(* Reading what is no word of it, or is not answered with one.              *)
LEMMA BotKeeps ==
  ASSUME Queues, DialogueState, toBot # <<>>, toBot' = Tail(toBot),
         \/ toServer' = toServer /\ log' = log
         \/ /\ toServer' = Append(toServer, "CAP_END")
            /\ log' = Append(log, "CAP_END")
  PROVE  DialogueState'
<1>1. "CAP_END" \in Lines /\ "CAP_END" \notin Words
  BY WordsApart DEF Lines
<1>2. NoWord(toServer) => NoWord(toServer')
  BY <1>1, NoWordAppended DEF Queues
<1>3. \A w : OneWord(toServer, w) => OneWord(toServer', w)
  BY <1>1, OneWordAppended DEF Queues
<1>4. CASE Head(toBot) \in Words
  BY <1>2, <1>4, BotWord, Zenon DEF DialogueState
<1>5. CASE Head(toBot) \notin Words
  <2>1. NoWord(toBot) => NoWord(toBot')
    BY NoWordRest DEF Queues
  <2>2. \A w \in Words : OneWord(toBot, w) => OneWord(toBot', w)
    BY <1>5, OneWordRest DEF Queues
  <2>3. \A w \in Words : Pending(w) => Pending(w)'
    BY <1>2, <1>3, <2>1, <2>2, Zenon DEF Pending
  <2>4. \A w : Progress(w) => Progress(w)'
    BY ProgressKept DEF Queues
  <2> QED  BY <1>2, <2>1, <2>3, <2>4, Zenon DEF DialogueState
<1> QED  BY <1>4, <1>5

LEMMA ServerKeeps ==
  ASSUME Queues, DialogueState, toServer # <<>>, toServer' = Tail(toServer),
         log' = log, NEW l \in Heard \ Words,
         toBot' = toBot \/ toBot' = Append(toBot, l)
  PROVE  DialogueState'
<1>1. NoWord(toBot) => NoWord(toBot')
  BY NoWordAppended DEF Queues
<1>2. \A w : OneWord(toBot, w) => OneWord(toBot', w)
  BY OneWordAppended DEF Queues
<1>3. CASE Head(toServer) \in Words
  BY <1>1, <1>3, ServerWord, Zenon DEF DialogueState
<1>4. CASE Head(toServer) \notin Words
  <2>1. NoWord(toServer) => NoWord(toServer')
    BY NoWordRest DEF Queues
  <2>2. \A w \in Words : OneWord(toServer, w) => OneWord(toServer', w)
    BY <1>4, OneWordRest DEF Queues
  <2>3. \A w \in Words : Pending(w) => Pending(w)'
    BY <1>1, <1>2, <2>1, <2>2, Zenon DEF Pending
  <2>4. \A w : Progress(w) => Progress(w)'
    BY ProgressKept DEF Queues
  <2> QED  BY <1>1, <2>1, <2>3, <2>4, Zenon DEF DialogueState
<1> QED  BY <1>3, <1>4

(* The bot answers a word with the next one, and says it for the first time. *)
LEMMA BotAnswers ==
  ASSUME Queues, DialogueState, CredentialAskedFor, toBot # <<>>,
         NEW w, Head(toBot) = w, toBot' = Tail(toBot), NEW l,
         <<w, l>> \in {<<"LS_sasl", "CAP_REQ">>, <<"ACK", "PLAIN">>,
                       <<"+", "credential">>},
         toServer' = Append(toServer, l), log' = Append(log, l)
  PROVE  DialogueState' /\ CredentialAskedFor'
<1>1. w \in Words /\ l \in Words /\ l \in Lines
  BY DEF Words, Lines
<1>2. NoWord(toServer) /\ NoWord(toBot') /\ Progress(w)
  BY <1>1, BotWord
<1>3. OneWord(toServer', l)
  BY <1>1, <1>2, NoWordAppended DEF Queues
<1>4. \A y : Contains(log', y) <=> Contains(log, y) \/ l = y
  BY <1>1, ContainsAppended DEF Queues
<1>5. Progress(l)'
  BY <1>2, <1>4 DEF Progress
<1>6. DialogueState'
  BY <1>1, <1>2, <1>3, <1>5, Zenon DEF DialogueState, Pending
<1>7. Follows("CAP_REQ", "CAP_LS")'
  <2>1. CASE l = "CAP_REQ"
    BY <1>1, <1>2, <2>1, FollowsNow DEF Progress, Queues
  <2>2. CASE l # "CAP_REQ"
    BY <1>1, <2>2, FollowsKept DEF CredentialAskedFor, Queues
  <2> QED  BY <2>1, <2>2
<1>8. Follows("PLAIN", "CAP_REQ")'
  <2>1. CASE l = "PLAIN"
    BY <1>1, <1>2, <2>1, FollowsNow DEF Progress, Queues
  <2>2. CASE l # "PLAIN"
    BY <1>1, <2>2, FollowsKept DEF CredentialAskedFor, Queues
  <2> QED  BY <2>1, <2>2
<1>9. Follows("credential", "PLAIN")'
  <2>1. CASE l = "credential"
    BY <1>1, <1>2, <2>1, FollowsNow DEF Progress, Queues
  <2>2. CASE l # "credential"
    BY <1>1, <2>2, FollowsKept DEF CredentialAskedFor, Queues
  <2> QED  BY <2>1, <2>2
<1>10. Contains(toServer', "credential") => ~Contains(toServer', "PLAIN")
  BY <1>1, <1>3, NotBoth, Zenon
<1> QED  BY <1>6, <1>7, <1>8, <1>9, <1>10 DEF CredentialAskedFor

(* The server answers a word with a word that says as much of the bot.      *)
LEMMA ServerAnswers ==
  ASSUME Queues, DialogueState, toServer # <<>>,
         NEW w, Head(toServer) = w, toServer' = Tail(toServer), NEW l,
         <<w, l>> \in {<<"CAP_LS", "LS_sasl">>, <<"CAP_REQ", "ACK">>,
                       <<"CAP_REQ", "NAK">>, <<"PLAIN", "+">>,
                       <<"credential", "903">>, <<"credential", "904">>},
         toBot' = Append(toBot, l), log' = log
  PROVE  DialogueState'
<1>1. w \in Words /\ l \in Words /\ l \in Heard
  BY DEF Words, Heard
<1>2. NoWord(toBot) /\ NoWord(toServer') /\ Progress(w)
  BY <1>1, ServerWord
<1>3. OneWord(toBot', l)
  BY <1>1, <1>2, NoWordAppended DEF Queues
<1>4. Progress(l)'
  BY <1>2 DEF Progress
<1> QED  BY <1>1, <1>2, <1>3, <1>4, Zenon DEF DialogueState, Pending

-----------------------------------------------------------------------------
(* The offer                                                                *)

Agreed == Inv /\ Queues /\ DialogueState /\ CredentialAskedFor /\ OfferState

LEMMA FirstLines ==
  ASSUME NEW q, q = <<"CAP_LS", "USER", "JOIN">>
  PROVE  /\ q \in Seq(Lines) /\ OneWord(q, "CAP_LS") /\ q # <<>>
         /\ Head(q) = "CAP_LS" /\ Tail(q) = <<"USER", "JOIN">>
         /\ Contains(q, "CAP_LS") /\ ~Contains(q, "CAP_REQ")
         /\ ~Contains(q, "PLAIN") /\ ~Contains(q, "credential")
<1>1. /\ Len(q) = 3 /\ q[1] = "CAP_LS" /\ q[2] = "USER" /\ q[3] = "JOIN"
      /\ q \in Seq(Lines) /\ q # <<>> /\ Head(q) = "CAP_LS"
      /\ Tail(q) = <<"USER", "JOIN">>
  BY DEF Lines
<1>2. \A j \in 1 .. Len(q) : j = 1 \/ j = 2 \/ j = 3
  BY <1>1
<1>3. 1 \in 1 .. Len(q)
  BY <1>1
<1> QED  BY <1>1, <1>2, <1>3, WordsApart DEF OneWord, Contains

LEMMA SameItems ==
  ASSUME NEW T, NEW p \in Seq(T), NEW q \in Seq(T), Len(p) = Len(q),
         \A i \in 1 .. Len(p) : p[i] = q[i]
  PROVE  p = q
<1>1. /\ p = [i \in 1 .. Len(p) |-> p[i]]
      /\ q = [i \in 1 .. Len(q) |-> q[i]]
  OBVIOUS
<1> QED  BY <1>1

LEMMA OneAndTwo ==
  ASSUME NEW a, NEW b, NEW c
  PROVE  <<a>> \o <<b, c>> = <<a, b, c>>
<1> DEFINE T == {a, b, c}
           p == <<a>> \o <<b, c>>
           q == <<a, b, c>>
<1>1. <<a>> \in Seq(T) /\ <<b, c>> \in Seq(T)
  OBVIOUS
<1>2. p \in Seq(T) /\ Len(p) = 3 /\ p[1] = a /\ p[2] = b /\ p[3] = c
  BY <1>1
<1>3. q \in Seq(T) /\ Len(q) = 3 /\ q[1] = a /\ q[2] = b /\ q[3] = c
  OBVIOUS
<1> HIDE DEF p, q
<1>4. \A i \in 1 .. 3 : i = 1 \/ i = 2 \/ i = 3
  OBVIOUS
<1>5. \A i \in 1 .. Len(p) : p[i] = q[i]
  BY <1>2, <1>3, <1>4
<1>6. p = q
  BY <1>2, <1>3, <1>5, SameItems
<1> QED  BY <1>6 DEF p, q

LEMMA OtherLines ==
  ASSUME NEW q, q = <<"USER", "JOIN">>
  PROVE  /\ q \in Seq(Lines) /\ NoWord(q)
         /\ \A w \in Words \cup {"CAP_END"} : ~Contains(q, w)
<1>1. /\ Len(q) = 2 /\ q[1] = "USER" /\ q[2] = "JOIN" /\ q \in Seq(Lines)
  BY DEF Lines
<1>2. \A j \in 1 .. Len(q) : j = 1 \/ j = 2
  BY <1>1
<1> QED  BY <1>1, <1>2, WordsApart DEF NoWord, Contains

LEMMA Silence ==
  /\ <<>> \in Seq(Heard) /\ <<>> \in Seq(Lines) /\ NoWord(<<>>)
  /\ \A y : ~Contains(<<>>, y)
<1>1. \A j \in 1 .. Len(<<>>) : FALSE
  OBVIOUS
<1> QED  BY <1>1 DEF NoWord, Contains

LEMMA NotSaid ==
  ASSUME NEW b, NEW a, ~Contains(log, b)
  PROVE  Follows(b, a)
BY DEF Contains, Follows

LEMMA InitAgreed == Init => Agreed
<1> SUFFICES ASSUME Init PROVE Agreed
  OBVIOUS
<1>1. /\ toServer = <<>> /\ toBot = <<>> /\ log = <<>> /\ pc = "down"
      /\ server = NewPeer /\ seen = FALSE /\ state = Fresh
  BY DEF Init
<1>2. Queues /\ DialogueState
  BY <1>1, Silence DEF Queues, DialogueState
<1>3. CredentialAskedFor
  BY <1>1, Silence, NotSaid DEF CredentialAskedFor
<1>4. OfferState
  BY <1>1, Silence DEF OfferState, NewPeer, Fresh
<1> QED  BY InitInv, <1>2, <1>3, <1>4 DEF Agreed

LEMMA ConnectAgreed == Agreed /\ Connect => Agreed'
<1> SUFFICES ASSUME Agreed, Connect PROVE Agreed'
  OBVIOUS
<1> DEFINE lines == (IF cap THEN <<"CAP_LS">> ELSE <<>>) \o <<"USER", "JOIN">>
<1>1. /\ toServer' = lines /\ log' = lines /\ toBot' = <<>>
      /\ server' = NewPeer /\ seen' = FALSE
      /\ state' = [Fresh EXCEPT !.active = cap]
  BY DEF Connect
<1>2. \/ lines = <<"CAP_LS", "USER", "JOIN">> \/ lines = <<"USER", "JOIN">>
  <2>1. CASE cap
    <3>1. lines = <<"CAP_LS">> \o <<"USER", "JOIN">>
      BY <2>1
    <3> QED  BY <3>1, OneAndTwo, Zenon
  <2>2. CASE ~cap
    BY <2>2
  <2> QED  BY <2>1, <2>2
<1> HIDE DEF lines
<1>3. state'.complete = FALSE /\ server'.welcomed = FALSE
      /\ server'.offered = FALSE
  BY <1>1 DEF Fresh, NewPeer
<1>4. Inv'
  BY ConnectInv DEF Agreed
<1>5. CASE lines = <<"CAP_LS", "USER", "JOIN">>
  <2>1. Queues'
    BY <1>1, <1>5, FirstLines, Silence DEF Queues
  <2>2. OneWord(toServer', "CAP_LS") /\ NoWord(toBot') /\ "CAP_LS" \in Words
    BY <1>1, <1>5, FirstLines, Silence, WordsApart
  <2>3. Progress("CAP_LS")'
    BY <1>1, <1>5, FirstLines DEF Progress
  <2>4. DialogueState'
    BY <2>2, <2>3, Zenon DEF DialogueState, Pending
  <2>5. CredentialAskedFor'
    BY <1>1, <1>5, FirstLines DEF CredentialAskedFor, Follows, Contains
  <2>6. OfferState'
    BY <1>1, <1>3, <1>5, Silence DEF OfferState
  <2> QED  BY <1>4, <2>1, <2>4, <2>5, <2>6 DEF Agreed
<1>6. CASE lines = <<"USER", "JOIN">>
  <2>1. Queues'
    BY <1>1, <1>6, OtherLines, Silence DEF Queues
  <2>2. DialogueState'
    BY <1>1, <1>6, OtherLines, Silence DEF DialogueState
  <2>3. "CAP_REQ" \in Words /\ "PLAIN" \in Words /\ "credential" \in Words
    BY DEF Words
  <2>4. CredentialAskedFor'
    BY <1>1, <1>6, <2>3, OtherLines DEF CredentialAskedFor, Follows, Contains
  <2>5. OfferState'
    BY <1>1, <1>3, <1>6, OtherLines, WordsApart, Silence DEF OfferState
  <2> QED  BY <1>4, <2>1, <2>2, <2>4, <2>5 DEF Agreed
<1> QED  BY <1>2, <1>5, <1>6

(* What keeps the offer when the bot reads a line and says l, or nothing.   *)
LEMMA BotOffer ==
  ASSUME Queues, DialogueState, OfferState, pc = "up", toBot # <<>>,
         toBot' = Tail(toBot), server' = server, sasl' = sasl,
         NEW l \in Lines \ {"CAP_LS"},
         toServer' = toServer \/ toServer' = Append(toServer, l),
         l \notin Words \/ ~state'.complete,
         state.complete => state'.complete,
         state'.complete => state.complete \/ Head(toBot) = "903",
         seen' => seen \/ Head(toBot) = "001",
         pc' = "up" /\ sasl /\ server.offered /\ l = "CAP_END"
           => state'.complete
  PROVE  OfferState'
<1>1. \A y : Contains(toServer', y) => Contains(toServer, y) \/ l = y
  BY ContainsAppended DEF Queues
<1>2. \A y : Contains(toBot', y) => Contains(toBot, y)
  BY ContainsRest DEF Queues
<1>3. Contains(toBot, Head(toBot))
  BY ContainsHead DEF Queues
<1>4. ~Contains(toServer', "CAP_LS")
  BY <1>1 DEF OfferState
<1>5. seen' \/ server.welcomed \/ Contains(toBot', "001") => ~server.held
  BY <1>2, <1>3 DEF OfferState
<1>6. /\ server.offered => ~Contains(toBot', "LS")
      /\ Contains(toBot', "903") => server.passed
  BY <1>2 DEF OfferState
<1>7. ASSUME state'.complete
      PROVE  server.passed /\ NoWord(toServer') /\ NoWord(toBot')
  <2>1. server.passed /\ NoWord(toServer) /\ NoWord(toBot')
    <3>1. CASE state.complete
      BY <3>1, NoWordRest DEF OfferState, Queues
    <3>2. CASE Head(toBot) = "903"
      <4>1. "903" \in Words
        BY DEF Words
      <4> QED  BY <1>3, <3>2, <4>1, BotWord DEF OfferState
    <3> QED  BY <1>7, <3>1, <3>2
  <2>2. NoWord(toServer')
    BY <1>7, <2>1, NoWordAppended DEF Queues
  <2> QED  BY <2>1, <2>2
<1>8. pc' = "up" /\ sasl /\ server.offered =>
        \/ server.held /\ ~Contains(toServer', "CAP_END")
        \/ state'.complete
  BY <1>1 DEF OfferState
<1> QED  BY <1>4, <1>5, <1>6, <1>7, <1>8 DEF OfferState

LEMMA BotAgreed == Agreed /\ (Bot \/ SendFails) => Agreed'
<1> SUFFICES ASSUME Agreed, Bot \/ SendFails PROVE Agreed'
  OBVIOUS
<1> USE DEF Agreed
<1>1. Inv'
  BY BotInv
<1>2. /\ pc = "up" /\ toBot # <<>> /\ toBot' = Tail(toBot)
      /\ server' = server /\ sasl' = sasl
  BY DEF Bot, SendFails, ReadListing, ReadNothingNeeded, ReadAck,
         ReadChallenge, ReadSuccess, ReadFailure, ReadIgnored, Reads, config
<1>3. toBot' \in Seq(Heard)
  BY <1>2, AtTheHead DEF Queues
<1>4. state \in Modern /\ (state.complete => state.ended)
  BY DEF Inv, TypeOK
<1>5. ASSUME NEW w, NEW l, Head(toBot) = w,
             <<w, l>> \in {<<"LS_sasl", "CAP_REQ">>, <<"ACK", "PLAIN">>,
                           <<"+", "credential">>},
             Negotiating, SendAll(<<l>>), seen' = seen,
             state'.complete = state.complete
      PROVE  Agreed'
  <2>1. l \in Lines \ {"CAP_LS"} /\ l # "CAP_END"
    BY <1>5 DEF Lines
  <2>2. toServer' = Append(toServer, l) /\ log' = Append(log, l)
    BY <1>5 DEF SendAll, Queues
  <2>3. DialogueState' /\ CredentialAskedFor'
    BY <1>2, <1>5, <2>2, BotAnswers
  <2>4. Queues'
    BY <1>3, <2>1, <2>2, AtTheEnd DEF Queues
  <2>5. ~state'.complete
    BY <1>4, <1>5 DEF Negotiating
  <2>6. OfferState'
    BY <1>2, <1>5, <2>1, <2>2, <2>5, BotOffer
  <2> QED  BY <1>1, <2>3, <2>4, <2>6
<1>6. ASSUME Negotiating, SendAll(<<"CAP_END">>), seen' = seen,
             state.complete => state'.complete,
             state'.complete => state.complete \/ Head(toBot) = "903",
             pc' = "up" /\ sasl /\ server.offered => state'.complete
      PROVE  Agreed'
  <2>1. "CAP_END" \in Lines \ {"CAP_LS"} /\ "CAP_END" \notin Words
    BY WordsApart DEF Lines
  <2>2. /\ toServer' = Append(toServer, "CAP_END")
        /\ log' = Append(log, "CAP_END")
    BY <1>6 DEF SendAll, Queues
  <2>3. DialogueState'
    BY <1>2, <2>2, BotKeeps
  <2>4. Queues'
    BY <1>3, <2>1, <2>2, AtTheEnd DEF Queues
  <2>5. OfferState'
    BY <1>2, <1>6, <2>1, <2>2, BotOffer
  <2>6. CredentialAskedFor'
    <3>1. \A b, a : b # "CAP_END" /\ Follows(b, a) => Follows(b, a)'
      BY <2>1, <2>2, FollowsKept DEF Queues
    <3>2. \A y : Contains(toServer', y) <=> Contains(toServer, y)
                                           \/ "CAP_END" = y
      BY <2>1, <2>2, ContainsAppended DEF Queues
    <3> QED  BY <3>1, <3>2 DEF CredentialAskedFor
  <2> QED  BY <1>1, <2>3, <2>4, <2>5, <2>6
<1>7. ASSUME UNCHANGED <<state, toServer, log>>,
             seen' => seen \/ Head(toBot) = "001"
      PROVE  Agreed'
  <2>1. DialogueState'
    BY <1>2, <1>7, BotKeeps
  <2>2. Queues'
    BY <1>3, <1>7 DEF Queues
  <2>3. CredentialAskedFor'
    BY <1>7 DEF CredentialAskedFor, Follows
  <2>4. "JOIN" \in Lines \ {"CAP_LS"} /\ "JOIN" \notin Words
    BY WordsApart DEF Lines
  <2>5. OfferState'
    BY <1>2, <1>7, <2>4, BotOffer
  <2> QED  BY <1>1, <2>1, <2>2, <2>3, <2>5
<1>8. CASE ReadListing
  BY <1>4, <1>5, <1>8 DEF ReadListing, Up, Modern
<1>9. CASE ReadNothingNeeded
  <2>1. ~(sasl /\ server.offered)
    <3>1. /\ Head(toBot) \in {"LS", "LS_sasl"}
          /\ ~(sasl /\ Head(toBot) = "LS_sasl")
      BY <1>9 DEF ReadNothingNeeded, Reads
    <3>2. server.offered => ~Contains(toBot, "LS")
      BY DEF OfferState
    <3>3. Contains(toBot, Head(toBot))
      BY <1>2, ContainsHead DEF Queues
    <3> QED  BY <3>1, <3>2, <3>3
  <2>2. state'.complete = state.complete
    BY <1>4, <1>9 DEF ReadNothingNeeded, Ended, Modern
  <2> QED  BY <1>6, <1>9, <2>1, <2>2 DEF ReadNothingNeeded, Up
<1>10. CASE ReadAck
  BY <1>5, <1>10 DEF ReadAck, Reads, Up
<1>11. CASE ReadChallenge
  BY <1>5, <1>11 DEF ReadChallenge, Reads, Up
<1>12. CASE ReadSuccess
  <2>1. state'.complete /\ Head(toBot) = "903"
    BY <1>4, <1>12 DEF ReadSuccess, Reads, Ended, Modern
  <2> QED  BY <1>6, <1>12, <2>1 DEF ReadSuccess, Up
<1>13. CASE ReadFailure
  <2>1. state'.complete = state.complete
    BY <1>4, <1>13 DEF ReadFailure, Ended, Modern
  <2> QED  BY <1>6, <1>13, <2>1 DEF ReadFailure
<1>14. CASE ReadIgnored
  BY <1>7, <1>14 DEF ReadIgnored
<1>15. CASE SendFails
  BY <1>7, <1>15 DEF SendFails
<1> QED  BY <1>8, <1>9, <1>10, <1>11, <1>12, <1>13, <1>14, <1>15 DEF Bot

(* What keeps the offer when the server takes a line that is not the first, *)
(* and answers l, or nothing.                                               *)
LEMMA ServerOffer ==
  ASSUME Queues, DialogueState, OfferState, toServer # <<>>,
         Head(toServer) # "CAP_LS", toServer' = Tail(toServer),
         pc' = pc, sasl' = sasl, state' = state, seen' = seen,
         NEW l \in Heard \ {"LS"},
         toBot' = toBot \/ toBot' = Append(toBot, l),
         Head(toServer) \in Words \/ l \notin Words,
         server'.offered = server.offered,
         server'.held => server.held,
         server'.held = server.held \/ Head(toServer) = "CAP_END",
         server'.welcomed => server.welcomed \/ ~server'.held,
         l = "001" => ~server'.held,
         server'.passed = server.passed \/ Head(toServer) = "credential",
         l = "903" => server'.passed
  PROVE  OfferState'
<1>1. \A y : Contains(toServer', y) => Contains(toServer, y)
  BY ContainsRest DEF Queues
<1>2. \A y : Contains(toBot', y) => Contains(toBot, y) \/ l = y
  <2>1. l \in Heard /\ toBot \in Seq(Heard)
    BY Zenon DEF Queues
  <2> QED  BY <2>1, ContainsAppended, Zenon
<1>3. ~Contains(toServer', "CAP_LS")
  BY <1>1, FirstLines DEF OfferState
<1>4. seen \/ server'.welcomed \/ Contains(toBot', "001") => ~server'.held
  BY <1>2 DEF OfferState
<1>5. server.offered => ~Contains(toBot', "LS")
  BY <1>2 DEF OfferState
<1>6. "credential" \in Words /\ "903" \in Words
  BY DEF Words
<1>7. Contains(toBot', "903") => server'.passed
  <2>1. CASE Head(toServer) = "credential"
    <3>1. NoWord(toBot)
      BY <1>6, <2>1, ServerWord
    <3>2. ~Contains(toBot, "903")
      BY <1>6, <3>1 DEF NoWord, Contains
    <3> QED  BY <1>2, <3>2
  <2>2. CASE Head(toServer) # "credential"
    BY <1>2, <2>2 DEF OfferState
  <2> QED  BY <2>1, <2>2
<1>8. ASSUME state.complete
      PROVE  server'.passed /\ NoWord(toServer') /\ NoWord(toBot')
  <2>1. server.passed /\ NoWord(toServer) /\ NoWord(toBot)
    BY <1>8 DEF OfferState
  <2>2. NoWord(toServer') /\ Head(toServer) \notin Words
    BY <2>1, NoWordRest DEF Queues
  <2>3. NoWord(toBot')
    BY <2>1, <2>2, NoWordAppended DEF Queues
  <2> QED  BY <1>6, <2>1, <2>2, <2>3
<1>9. pc = "up" /\ sasl /\ server.offered =>
        \/ server'.held /\ ~Contains(toServer', "CAP_END")
        \/ state.complete
  <2>1. Contains(toServer, Head(toServer))
    BY ContainsHead DEF Queues
  <2> QED  BY <1>1, <2>1 DEF OfferState
<1> QED  BY <1>3, <1>4, <1>5, <1>7, <1>8, <1>9 DEF OfferState

LEMMA ServeListAgreed ==
  ASSUME SaslInOneLine, Agreed, ServeList
  PROVE  Queues' /\ DialogueState' /\ OfferState'
<1> USE DEF Agreed
<1>1. /\ toServer # <<>> /\ Head(toServer) = "CAP_LS"
      /\ toServer' = Tail(toServer)
      /\ pc' = pc /\ sasl' = sasl /\ state' = state /\ seen' = seen
      /\ log' = log
  BY DEF ServeList, Serve, config
<1>2. Contains(toServer, "CAP_LS")
  BY <1>1, ContainsHead DEF Queues
<1>3. /\ toServer = <<"CAP_LS", "USER", "JOIN">> /\ toBot = <<>>
      /\ server = NewPeer /\ ~seen /\ ~state.complete
  BY <1>2 DEF OfferState
<1>4. toServer' = <<"USER", "JOIN">>
  BY <1>1, <1>3, FirstLines
<1>5. NoWord(toServer') /\ toServer' \in Seq(Lines)
  BY <1>4, OtherLines
<1>6. ~Contains(toServer', "CAP_LS") /\ ~Contains(toServer', "CAP_END")
  BY <1>4, OtherLines, WordsApart
<1>7. ~server.welcomed /\ ~server.offered
  BY <1>3 DEF NewPeer
<1>8. CASE toBot' = toBot /\ server' = server
  <2>1. Queues' /\ DialogueState'
    BY <1>1, <1>3, <1>5, <1>8, Silence DEF Queues, DialogueState
  <2>2. OfferState'
    BY <1>1, <1>3, <1>6, <1>7, <1>8, Silence DEF OfferState
  <2> QED  BY <2>1, <2>2
<1>9. ASSUME NEW listing \in Listings, toBot' = toBot \o listing,
             server' = [server EXCEPT !.held = TRUE,
                                     !.offered = Contains(listing, "LS_sasl")]
      PROVE  Queues' /\ DialogueState' /\ OfferState'
  <2>1. listing \in Seq({"LS", "LS_sasl"})
    BY ModernIrcAssumption
  <2>2. toBot' = listing
    BY <1>3, <1>9, <2>1
  <2>3. listing \in Seq(Heard)
    BY <2>1 DEF Heard
  <2>4. Queues'
    BY <1>1, <1>5, <2>2, <2>3 DEF Queues
  <2>5. server \in Peer
    BY DEF Inv, TypeOK
  <2>6. /\ server'.held /\ ~server'.welcomed
        /\ server'.offered <=> Contains(listing, "LS_sasl")
    BY <1>7, <1>9, <2>5, Zenon DEF Peer
  <2>7. ~Contains(listing, "001") /\ ~Contains(listing, "903")
    BY <2>1 DEF Contains
  <2>8. server'.offered => ~Contains(toBot', "LS")
    <3>1. ASSUME listing = <<"LS_sasl">>
          PROVE  ~Contains(listing, "LS")
      BY <3>1 DEF Contains
    <3> QED  BY <2>2, <2>6, <3>1 DEF SaslInOneLine
  <2>9. OfferState'
    BY <1>1, <1>3, <1>6, <2>2, <2>6, <2>7, <2>8 DEF OfferState
  <2>10. DialogueState'
    <3>1. CASE Contains(listing, "LS_sasl")
      <4>1. toBot' = Append(toBot, "LS_sasl")
        BY <1>3, <2>2, <3>1 DEF SaslInOneLine
      <4> QED  BY <1>1, <4>1, ServerAnswers
    <3>2. CASE ~Contains(listing, "LS_sasl")
      BY <1>5, <2>1, <2>2, <3>2, PlainListing DEF DialogueState
    <3> QED  BY <3>1, <3>2
  <2> QED  BY <2>4, <2>9, <2>10
<1> QED  BY <1>8, <1>9 DEF ServeList

(* Every other line the server takes.                                       *)
LEMMA ServeOtherAgreed ==
  ASSUME Agreed, NEW w, Serve(w), w # "CAP_LS", NEW l \in Heard \ {"LS"},
         \/ w \notin Words /\ l \notin Words
            /\ (toBot' = toBot \/ toBot' = Append(toBot, l))
         \/ /\ <<w, l>> \in {<<"CAP_REQ", "ACK">>, <<"CAP_REQ", "NAK">>,
                             <<"PLAIN", "+">>, <<"credential", "903">>,
                             <<"credential", "904">>}
            /\ toBot' = Append(toBot, l),
         server'.offered = server.offered, server'.held => server.held,
         server'.held = server.held \/ w = "CAP_END",
         server'.welcomed => server.welcomed \/ ~server'.held,
         l = "001" => ~server'.held,
         server'.passed = server.passed \/ w = "credential",
         l = "903" => server'.passed
  PROVE  Queues' /\ DialogueState' /\ OfferState'
<1> USE DEF Agreed
<1>1. /\ toServer # <<>> /\ Head(toServer) = w /\ toServer' = Tail(toServer)
      /\ pc' = pc /\ sasl' = sasl /\ state' = state /\ seen' = seen
      /\ log' = log
  BY DEF Serve, config
<1>2. Queues'
  <2>1. toServer' \in Seq(Lines)
    BY <1>1, AtTheHead DEF Queues
  <2>2. toBot' \in Seq(Heard)
    <3>1. l \in Heard /\ toBot \in Seq(Heard)
      BY Zenon DEF Queues
    <3>2. toBot' = toBot \/ toBot' = Append(toBot, l)
      OBVIOUS
    <3>3. Append(toBot, l) \in Seq(Heard)
      BY <3>1, AtTheEnd, Zenon
    <3> QED  BY <3>1, <3>2, <3>3, Zenon
  <2> QED  BY <1>1, <2>1, <2>2 DEF Queues
<1>3. w \in Words \/ l \notin Words
  BY DEF Words
<1>4. OfferState'
  BY <1>1, <1>3, ServerOffer
<1>5. CASE w \notin Words
  <2>1. l \in Heard \ Words /\ (toBot' = toBot \/ toBot' = Append(toBot, l))
    BY <1>3, <1>5
  <2>2. DialogueState'
    BY <1>1, <2>1, ServerKeeps
  <2> QED  BY <1>2, <1>4, <2>2
<1>6. CASE w \in Words
  <2>1. DialogueState'
    BY <1>1, <1>6, ServerAnswers
  <2> QED  BY <1>2, <1>4, <2>1
<1> QED  BY <1>5, <1>6

LEMMA ServerAgreed ==
  ASSUME SaslInOneLine, Agreed, Server
  PROVE  Agreed'
<1> SUFFICES Queues' /\ DialogueState' /\ OfferState'
  <2>1. log' = log
    BY DEF Server, ServeList, ServeUser, ServeJoin, ServeRequest,
           ServeMechanism, ServeCredential, ServeEnd, Serve
  <2>2. toServer # <<>> /\ toServer' = Tail(toServer)
    BY DEF Server, ServeList, ServeUser, ServeJoin, ServeRequest,
           ServeMechanism, ServeCredential, ServeEnd, Serve
  <2>3. \A y : Contains(toServer', y) => Contains(toServer, y)
    BY <2>2, ContainsRest DEF Agreed, Queues
  <2>4. CredentialAskedFor'
    BY <2>1, <2>3 DEF Agreed, CredentialAskedFor, Follows
  <2>5. Inv'
    BY ServerInv DEF Agreed
  <2> QED  BY <2>4, <2>5 DEF Agreed
<1>1. server \in Peer
  BY DEF Agreed, Inv, TypeOK
<1>2. {"USER", "JOIN", "CAP_END", "001", "451"} \cap Words = {}
  BY DEF Words
<1>3. {"001", "451", "ACK", "NAK", "+", "903", "904"} \subseteq Heard \ {"LS"}
  BY DEF Heard
<1>4. ASSUME NEW w \in {"USER", "CAP_END"}, Serve(w), NEW peer \in Peer,
             Welcome(peer), peer.offered = server.offered,
             peer.held => server.held,
             peer.held = server.held \/ w = "CAP_END",
             peer.welcomed = server.welcomed, peer.passed = server.passed
      PROVE  Queues' /\ DialogueState' /\ OfferState'
  <2> DEFINE greets == peer.known /\ ~peer.held /\ ~peer.welcomed
  <2>1. /\ server'.offered = server.offered /\ server'.held = peer.held
        /\ server'.passed = server.passed
        /\ server'.welcomed <=> server.welcomed \/ greets
    BY <1>4 DEF Welcome, Peer
  <2>2. toBot' = IF greets THEN Append(toBot, "001") ELSE toBot
    BY <1>4 DEF Welcome
  <2>3. CASE greets
    BY <1>2, <1>3, <1>4, <2>1, <2>2, <2>3, ServeOtherAgreed
  <2>4. CASE ~greets
    <3> HIDE DEF greets
    <3> QED  BY <1>2, <1>3, <1>4, <2>1, <2>2, <2>4, ServeOtherAgreed
  <2> QED  BY <2>3, <2>4
<1>5. CASE ServeList
  BY <1>5, ServeListAgreed
<1>6. CASE ServeUser
  <2> DEFINE peer == [server EXCEPT !.known = TRUE]
  <2>1. /\ peer \in Peer /\ peer.offered = server.offered
        /\ peer.held = server.held /\ peer.welcomed = server.welcomed
        /\ peer.passed = server.passed
    BY <1>1 DEF Peer
  <2>2. Serve("USER") /\ Welcome(peer)
    BY <1>6 DEF ServeUser
  <2> HIDE DEF peer
  <2> QED  BY <1>4, <2>1, <2>2
<1>7. CASE ServeJoin
  <2>1. /\ Serve("JOIN") /\ server' = server
        /\ toBot' = toBot \/ toBot' = Append(toBot, "451")
    BY <1>7 DEF ServeJoin
  <2> QED  BY <1>2, <1>3, <2>1, ServeOtherAgreed
<1>8. CASE ServeRequest
  <2>1. PICK reply \in {"ACK", "NAK"} : toBot' = Append(toBot, reply)
    BY <1>8 DEF ServeRequest
  <2>2. Serve("CAP_REQ") /\ server' = server
    BY <1>8 DEF ServeRequest
  <2> QED  BY <1>3, <2>1, <2>2, ServeOtherAgreed
<1>9. CASE ServeMechanism
  <2>1. Serve("PLAIN") /\ server' = server /\ toBot' = Append(toBot, "+")
    BY <1>9 DEF ServeMechanism
  <2> QED  BY <1>3, <2>1, ServeOtherAgreed
<1>10. CASE ServeCredential
  <2>1. PICK reply \in {"903", "904"} :
          /\ toBot' = Append(toBot, reply)
          /\ server' = [server EXCEPT !.passed = reply = "903"]
    BY <1>10 DEF ServeCredential
  <2>2. Serve("credential")
    BY <1>10 DEF ServeCredential
  <2>3. /\ server'.offered = server.offered /\ server'.held = server.held
        /\ server'.welcomed = server.welcomed
        /\ server'.passed <=> reply = "903"
    BY <1>1, <2>1, Zenon DEF Peer
  <2> QED  BY <1>3, <2>1, <2>2, <2>3, ServeOtherAgreed
<1>11. CASE ServeEnd
  <2> DEFINE peer == [server EXCEPT !.held = FALSE]
  <2>1. /\ peer \in Peer /\ peer.offered = server.offered
        /\ ~peer.held /\ peer.welcomed = server.welcomed
        /\ peer.passed = server.passed
    BY <1>1 DEF Peer
  <2>2. Serve("CAP_END") /\ Welcome(peer)
    BY <1>11 DEF ServeEnd
  <2> HIDE DEF peer
  <2> QED  BY <1>4, <2>1, <2>2
<1> QED  BY <1>5, <1>6, <1>7, <1>8, <1>9, <1>10, <1>11 DEF Server

LEMMA RestAgreed ==
  ASSUME Agreed, Lost \/ UNCHANGED vars
  PROVE  Agreed'
<1>1. /\ sasl' = sasl /\ state' = state /\ toServer' = toServer
      /\ toBot' = toBot /\ server' = server /\ seen' = seen /\ log' = log
      /\ pc' = pc \/ pc' = "down"
  BY DEF Lost, vars, config
<1>2. Inv'
  BY RestInv DEF Agreed
<1>3. Queues' /\ CredentialAskedFor'
  BY <1>1 DEF Agreed, Queues, CredentialAskedFor, Follows
<1>4. DialogueState'
  BY <1>1, Zenon DEF Agreed, DialogueState, Pending, Progress
<1>5. OfferState'
  BY <1>1 DEF Agreed, OfferState
<1> QED  BY <1>2, <1>3, <1>4, <1>5 DEF Agreed

LEMMA AgreedAlways ==
  ASSUME SaslInOneLine
  PROVE  Spec => []Agreed
<1>1. Agreed /\ [Next]_vars => Agreed'
  BY ConnectAgreed, BotAgreed, ServerAgreed, RestAgreed DEF Next
<1> QED  BY InitAgreed, <1>1, PTL DEF Spec

(* With a server that names sasl in one line, the bot sends CAP REQ,        *)
(* AUTHENTICATE and the credential once each, and each only when the server *)
(* has answered the one before.                                             *)
THEOREM CredentialCorrect ==
  ASSUME SaslInOneLine
  PROVE  Spec => []CredentialAskedFor
<1>1. Agreed => CredentialAskedFor
  BY DEF Agreed
<1> QED  BY <1>1, AgreedAlways, PTL

(* With such a server no bot that is to authenticate itself is welcomed     *)
(* before it has.                                                           *)
THEOREM AuthenticationCorrect ==
  ASSUME SaslInOneLine
  PROVE  Spec => []NeverUnauthenticated
<1>1. Agreed => NeverUnauthenticated
  BY DEF Agreed, OfferState, NeverUnauthenticated
<1> QED  BY <1>1, AgreedAlways, PTL
=============================================================================

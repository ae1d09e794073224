------------------------------ MODULE Commands ------------------------------
(***************************************************************************)
(* The bot commands (src/src/commands.c) and the BotAI client they ask     *)
(* (src/src/botai.c): one blocking HTTP exchange for the version check at  *)
(* the start and one for every !AI.                                        *)
(*                                                                         *)
(* A response is a sequence of tokens: "200" or "500" is the status line,  *)
(* "header" another line of the head, "blank" its end.  In the body a      *)
(* string is named for what the code tells apart: "text" is that word,     *)
(* "short" fits a key, "long" does not, "wide" does not fit an IRC line,   *)
(* "huge" not even the reply buffer, "empty" is empty, "broken" is none.   *)
(* White space, which the parser skips between all tokens, and the size of *)
(* a token are left out: the buffer holds Capacity tokens.  There is no    *)
(* token for a NUL byte, at which the C strings of botai.c end: what comes *)
(* after one in an answer is never looked at.  No command needs more than  *)
(* the permission everyone has.                                            *)
(***************************************************************************)
EXTENDS Naturals, Sequences

CONSTANTS Capacity,   \* what the response buffer holds
          Answers     \* external: what a BotAI server may answer

KeyString == {"text", "short", "empty"}             \* up to 31 characters
AnyString == KeyString \cup {"long", "wide", "huge"}
Reply     == {"text", "short", "long", "wide"}      \* up to 1024, not empty
Token     == AnyString \cup {"200", "500", "header", "blank", "version",
                            "{", "}", ":", ",", "broken"}

ASSUME CommandsAssumption ==
  Capacity \in Nat \ {0} /\ Answers \subseteq Seq(Token)

VARIABLES
  pc,          \* where the task is
  compatible,  \* botai.compatible
  asking,      \* the exchange under way: "check", or "chat" for a command
  event,       \* the event being handled
  sock,        \* the exchange's descriptor is open
  answer,      \* external: the whole answer of the server, while it lasts
  received,    \* response[]
  body,        \* http_body's result: the place before a first token
  at,          \* p of parse_text_response, the place of the last token read
  expect,      \* what parse_text_response expects next
  text,        \* reply[], "" while have_text is not set
  verdict,     \* history: what the event's exchange brought, "" for nothing
  ended,       \* history: its response was read to the end
  said         \* history: the replies to the last event

exchange == <<sock, answer, received>>
parser   == <<body, at, expect, text>>
history  == <<verdict, ended, said>>
vars     == <<pc, compatible, asking, event, exchange, parser, history>>

(* A "control" argument is one that json_escape refuses: it has a character *)
(* below 32, or does not fit when it is escaped.                            *)
Event ==
  [command : {"none", "HELP", "STATUS", "VERSION", "AI", "other"},
   argument : {"none", "plain", "control"},
   private : BOOLEAN]                        \* the target is the bot's nick

NoEvent == [command |-> "none", argument |-> "none", private |-> FALSE]

Init ==
  /\ pc = "start" /\ compatible = FALSE /\ asking = "check"
  /\ event = NoEvent /\ sock = FALSE
  /\ answer = <<>> /\ received = <<>>
  /\ body = 0 /\ at = 0 /\ expect = "{" /\ text = ""
  /\ verdict = "" /\ ended = FALSE /\ said = <<>>

-----------------------------------------------------------------------------
(* The commands                                                            *)

(* Mutant: a private command is answered to where it was sent.              *)
ReplyTargetSame == "target"

ReplyTarget == IF event'.private THEN "nick" ELSE "target"

(* send_reply: what does not fit into a line is not sent.                   *)
SendReply(what) ==
  said' = IF what = "wide" THEN <<>>
          ELSE <<[to |-> ReplyTarget, what |-> what]>>

Handle(commands) ==
  /\ pc = "idle"
  /\ event' \in {e \in Event : e.command \in commands}
  /\ received' = <<>> /\ verdict' = "" /\ ended' = FALSE
  /\ UNCHANGED <<compatible, sock, answer, parser>>

Ignore ==
  /\ Handle({"none"})
  /\ said' = <<>> /\ UNCHANGED <<pc, asking>>

Answer ==
  /\ Handle({"HELP", "STATUS", "VERSION", "other"})
  /\ SendReply(event'.command)
  /\ UNCHANGED <<pc, asking>>

(* Without a message, without BotAI, or with a message that cannot be put   *)
(* into a request.                                                          *)
AnswerWithoutBotAI ==
  /\ Handle({"AI"})
  /\ ~compatible \/ event'.argument # "plain"
  /\ SendReply(CASE event'.argument = "none" -> "usage"
                 [] event'.argument # "none" /\ ~compatible -> "unavailable"
                 [] OTHER -> "failed")
  /\ UNCHANGED <<pc, asking>>

AskBotAI ==
  /\ Handle({"AI"})
  /\ compatible /\ event'.argument = "plain"
  /\ pc' = "connect" /\ asking' = "chat"
  /\ said' = <<>>

-----------------------------------------------------------------------------
(* http_request                                                            *)

(* The exchange is over and its caller goes on with what it brought.        *)
Conclude(what) ==
  /\ pc' = "idle" /\ verdict' = what
  /\ UNCHANGED <<asking, event>>
  /\ IF asking = "check"
       THEN compatible' = (what # "") /\ UNCHANGED said
       ELSE /\ SendReply(IF what = "" THEN "failed" ELSE what)
            /\ UNCHANGED compatible

(* ambot_net_close_socket.                                                  *)
CloseSocket == sock' = FALSE /\ answer' = <<>>

(* http_request returns an error.                                           *)
Fail == Conclude("") /\ UNCHANGED <<received, parser, ended>>

(* BotAI is not configured, or what is configured is no http URL.           *)
NotConfigured ==
  /\ pc = "start"
  /\ pc' = "idle"
  /\ UNCHANGED <<compatible, asking, event, exchange, parser, history>>

Configured ==
  /\ pc = "start"
  /\ pc' = "connect"
  /\ UNCHANGED <<compatible, asking, event, exchange, parser, history>>

ConnectFails ==
  /\ pc = "connect"
  /\ Fail
  /\ UNCHANGED <<sock, answer>>

Connect ==
  /\ pc = "connect"
  /\ pc' = "send"
  /\ sock' = TRUE /\ received' = <<>>
  /\ answer' \in Answers
  /\ UNCHANGED <<compatible, asking, event, parser, history>>

(* Mutant: the descriptor is left open.                                     *)
SendFailsOpen ==
  /\ pc = "send"
  /\ Fail
  /\ UNCHANGED <<sock, answer>>

SendFails ==
  /\ pc = "send"
  /\ Fail
  /\ CloseSocket

Send ==
  /\ pc = "send"
  /\ pc' = "wait"
  /\ UNCHANGED <<compatible, asking, event, exchange, parser, history>>

(* Something can be read: data, or that the server has closed or reset the  *)
(* connection.                                                              *)
Ready ==
  /\ pc = "wait"
  /\ pc' = "recv"
  /\ UNCHANGED <<compatible, asking, event, exchange, parser, history>>

(* Mutant: the wait is begun again.                                         *)
TimesOutAgain ==
  /\ pc = "wait"
  /\ UNCHANGED vars

(* BOTAI_TIMEOUT is over, or the wait has failed.                           *)
TimesOut ==
  /\ pc = "wait"
  /\ Fail
  /\ CloseSocket

Room == Capacity - Len(received)
Rest == Len(answer) - Len(received)

(* recv returns some of what is under way.                                  *)
Recv ==
  /\ pc = "recv" /\ Rest > 0
  /\ \E n \in 1 .. (IF Rest < Room THEN Rest ELSE Room) :
       received' = SubSeq(answer, 1, Len(received) + n)
  /\ pc' = IF Len(received') < Capacity THEN "wait" ELSE "full"
  /\ UNCHANGED <<compatible, asking, event, sock, answer, parser, history>>

(* recv returns 0: the server has closed the connection, at the end of its  *)
(* answer or before, perhaps within a token.                                *)
RecvEnds ==
  /\ pc = "recv"
  /\ \/ UNCHANGED received
     \/ Rest > 0 /\ received' = Append(received, "broken")
  /\ CloseSocket
  /\ pc' = "judge" /\ ended' = TRUE
  /\ UNCHANGED <<compatible, asking, event, parser, verdict, said>>

RecvFails ==
  /\ pc = "recv"
  /\ Fail
  /\ CloseSocket

(* A buffer that is full cannot be told from one that is too small.         *)
BufferFull ==
  /\ pc = "full"
  /\ Fail
  /\ CloseSocket

-----------------------------------------------------------------------------
(* The response                                                            *)

(* http_body: what follows the first blank line.                            *)
FirstBlank(t, p) ==
  /\ p \in 1 .. Len(t) /\ t[p] = "blank"
  /\ \A j \in 1 .. p - 1 : t[j] # "blank"

Refused ==
  \/ received = <<>>
  \/ received # <<>> /\ received[1] # "200"
  \/ ~\E p \in 1 .. Len(received) : FirstBlank(received, p)

JudgeRefused ==
  /\ pc = "judge" /\ Refused
  /\ Fail
  /\ UNCHANGED <<sock, answer>>

(* ambot_botai_check: the body must be the version and nothing else.        *)
JudgeVersion ==
  /\ pc = "judge" /\ ~Refused /\ asking = "check"
  /\ \E p \in 1 .. Len(received) :
       /\ FirstBlank(received, p)
       /\ Conclude(IF Len(received) = p + 1 /\ received[p + 1] = "version"
                     THEN "version" ELSE "")
  /\ UNCHANGED <<exchange, parser, ended>>

ParseBegins ==
  /\ pc = "judge" /\ ~Refused /\ asking = "chat"
  /\ FirstBlank(received, body')
  /\ at' = body' /\ expect' = "{" /\ text' = ""
  /\ pc' = "parse"
  /\ UNCHANGED <<compatible, asking, event, exchange, history>>

(* What parse_text_response expects after a token, when e was expected and  *)
(* x is the text so far.                                                    *)
Expected(e, x, token) ==
  CASE e = "{" /\ token = "{" -> "key"
    [] e = "key" /\ token = "text" -> ":text"
    [] e = "key" /\ token \in KeyString \ {"text"} -> ":"
    [] e = ":" /\ token = ":" -> "value"
    [] e = ":text" /\ token = ":" -> "reply"
    [] e = "value" /\ token \in AnyString -> ","
    [] e = "reply" /\ token \in Reply /\ x = "" -> ","
    [] e = "," /\ token = "," -> "key"
    [] e = "," /\ token = "}" -> "end"
    [] OTHER -> "failed"

ParseToken ==
  /\ pc = "parse" /\ expect # "failed" /\ at < Len(received)
  /\ at' = at + 1
  /\ expect' = Expected(expect, text, received[at'])
  /\ text' = IF expect = "reply" THEN received[at'] ELSE text
  /\ UNCHANGED <<pc, compatible, asking, event, exchange, body, history>>

(* Mutant: an object that is not closed is taken as it is.                  *)
ParseEndsLoosely ==
  /\ pc = "parse" /\ (expect = "failed" \/ at = Len(received))
  /\ Conclude(IF expect # "failed" THEN text ELSE "")
  /\ body' = 0 /\ at' = 0 /\ expect' = "{" /\ text' = ""
  /\ UNCHANGED <<exchange, ended>>

(* It fails, or all is read: then there is one text, in a closed object.    *)
ParseEnds ==
  /\ pc = "parse" /\ (expect = "failed" \/ at = Len(received))
  /\ Conclude(IF expect = "end" THEN text ELSE "")
  /\ body' = 0 /\ at' = 0 /\ expect' = "{" /\ text' = ""
  /\ UNCHANGED <<exchange, ended>>

Commands == Ignore \/ Answer \/ AnswerWithoutBotAI \/ AskBotAI
Program ==
  \/ NotConfigured \/ Configured \/ ConnectFails \/ Connect \/ SendFails
  \/ Send \/ Recv \/ RecvEnds \/ RecvFails \/ BufferFull
  \/ JudgeRefused \/ JudgeVersion \/ ParseBegins \/ ParseToken \/ ParseEnds

Next == Commands \/ Program \/ Ready \/ TimesOut

Spec == Init /\ [][Next]_vars

(* connect and recv return, and a timed wait does so at the latest when its *)
(* time is over; whether the server ever sends anything is open.            *)
FairSpec == Spec /\ WF_vars(Program) /\ WF_vars(TimesOut)

-----------------------------------------------------------------------------
(* Types                                                                   *)

Location == {"start", "idle", "connect", "send", "wait", "recv", "full",
             "judge", "parse"}
Expect   == {"{", "key", ":", ":text", "value", "reply", ",", "end", "failed"}

TypeOK ==
  /\ pc \in Location /\ asking \in {"check", "chat"}
  /\ compatible \in BOOLEAN /\ sock \in BOOLEAN /\ ended \in BOOLEAN
  /\ event \in Event
  /\ answer \in Seq(Token) /\ received \in Seq(Token)
  /\ body \in Nat /\ at \in Nat /\ expect \in Expect
  /\ text \in Token \cup {""} /\ verdict \in Reply \cup {"", "version"}

-----------------------------------------------------------------------------
(* A chat answer t, by its form: after the blank line at b an object of n   *)
(* members, of which the m-th alone is named text.                          *)
Name(t, b, m)  == t[b + 4 * m - 2]
Value(t, b, m) == t[b + 4 * m]

Member(t, b, m) ==
  /\ Name(t, b, m) \in KeyString /\ t[b + 4 * m - 1] = ":"
  /\ Value(t, b, m) \in AnyString

OnlyText(t, b, n, m) == \A i \in 1 .. n : Name(t, b, i) = "text" <=> i = m

IsObject(t, b, n) ==
  /\ Len(t) = b + 4 * n + 1 /\ t[b + 1] = "{" /\ t[Len(t)] = "}"
  /\ \A m \in 1 .. n : /\ Member(t, b, m)
                       /\ m < n => t[b + 4 * m + 1] = ","

ChatAnswer(t, what) ==
  /\ t # <<>> /\ t[1] = "200" /\ what \in Reply
  /\ \E b \in 1 .. Len(t), n \in 1 .. Len(t) :
       /\ FirstBlank(t, b) /\ IsObject(t, b, n)
       /\ \E m \in 1 .. n : OnlyText(t, b, n, m) /\ Value(t, b, m) = what

(* Responses are parsed as validated objects (docs/BOTAI.md:23): however an *)
(* answer is cut into recvs or cut short, nothing is taken but from one     *)
(* that was received to its end, and from that the text of exactly the      *)
(* chat answers: all that was received, whole and below the limit.          *)
TextIsTheAnswers ==
  pc = "idle" /\ asking = "chat" =>
    /\ verdict # "" => ended /\ Len(received) < Capacity
    /\ ended => \A what \in Reply :
                  ChatAnswer(received, what) <=> verdict = what

(* Every command gets one reply, to the channel or, if it was private, to   *)
(* the sender (docs/M3.md:13), whatever becomes of the exchange; the        *)
(* exception is a text of BotAI that does not fit into a line.              *)
OneReply ==
  pc = "idle" /\ event.command # "none" =>
    \/ /\ Len(said) = 1
       /\ said[1].to = (IF event.private THEN "nick" ELSE "target")
       /\ event.command = "AI" /\ event.argument = "plain" =>
            said[1].what \in IF verdict = "" THEN {"unavailable", "failed"}
                                             ELSE {verdict}
    \/ said = <<>> /\ event.command = "AI" /\ verdict = "wide"

(* However an exchange ends, its descriptor is closed, once, and the buffer *)
(* is never written past its end.                                           *)
ExchangeContained ==
  /\ sock <=> pc \in {"send", "wait", "recv", "full"}
  /\ Len(received) <= Capacity
  /\ pc = "recv" => Len(received) < Capacity

-----------------------------------------------------------------------------
(* What has been parsed when n members are complete: the first n are well   *)
(* formed, k of them are followed by a comma, and x is the text of the one  *)
(* member named so.                                                         *)
Parsed(t, b, n, k, x) ==
  /\ t[b + 1] = "{"
  /\ \A m \in 1 .. n : Member(t, b, m)
  /\ \A m \in 1 .. k : t[b + 4 * m + 1] = ","
  /\ \/ x = "" /\ OnlyText(t, b, n, 0)
     \/ /\ x \in Reply
        /\ \E m \in 1 .. n : OnlyText(t, b, n, m) /\ Value(t, b, m) = x

NoAnswer(t) == \A what \in Reply : ~ChatAnswer(t, what)

(* What the parser has seen of t at the place a, when it expects e and has  *)
(* the text x.                                                              *)
Seen(t, b, a, e, x) ==
  /\ e = "{" => a = b /\ x = ""
  /\ e = "key" =>
       \E n \in 0 .. Len(t) : a = b + 4 * n + 1 /\ Parsed(t, b, n, n, x)
  /\ e \in {":", ":text"} =>
       \E n \in 0 .. Len(t) :
         /\ a = b + 4 * n + 2 /\ Parsed(t, b, n, n, x)
         /\ t[a] \in KeyString /\ (t[a] = "text" <=> e = ":text")
  /\ e \in {"value", "reply"} =>
       \E n \in 0 .. Len(t) :
         /\ a = b + 4 * n + 3 /\ Parsed(t, b, n, n, x)
         /\ t[a - 1] \in KeyString /\ (t[a - 1] = "text" <=> e = "reply")
         /\ t[a] = ":"
  /\ e = "," =>
       \E n \in 1 .. Len(t) : a = b + 4 * n /\ Parsed(t, b, n, n - 1, x)
  /\ e = "end" =>
       \E n \in 1 .. Len(t) :
         a = b + 4 * n + 1 /\ Parsed(t, b, n, n - 1, x) /\ t[a] = "}"
  /\ e = "failed" => NoAnswer(t)

ParserState ==
  pc = "parse" =>
    /\ received # <<>> /\ received[1] = "200" /\ FirstBlank(received, body)
    /\ at \in body .. Len(received)
    /\ Seen(received, body, at, expect, text)

(* Where an exchange is, and whose it is: what the invariants rest on.      *)
ExchangeState ==
  /\ pc \notin {"start", "idle"} =>
       IF asking = "check" THEN event = NoEvent ELSE event.command = "AI"
                                                    /\ event.argument = "plain"
  /\ pc = "start" => event = NoEvent /\ asking = "check"
  /\ pc = "parse" => asking = "chat"
  /\ pc \in {"send", "wait"} => Len(received) < Capacity
  /\ pc \notin {"idle", "judge", "parse"} => ~ended
  /\ pc \in {"judge", "parse"} =>
       /\ ended
       /\ Len(received) < Capacity \/ received[Len(received)] = "broken"

Inv == /\ TypeOK /\ ExchangeState /\ ParserState
       /\ TextIsTheAnswers /\ OneReply /\ ExchangeContained

-----------------------------------------------------------------------------
(* Liveness                                                                *)

(* No server can hold the bot for ever (docs/BOTAI.md:11): an exchange ends *)
(* although the server says nothing, or too little, or does not stop.       *)
ExchangeEnds == pc # "idle" ~> pc = "idle"
=============================================================================

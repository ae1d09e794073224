# A verification project for AmBot

AmBot is an IRC bot for classic Amigas: one AmigaOS task that serves one or up
to four IRC connections through `bsdsocket.library`, answers ARexx commands on
its public message port `AMBOT`, runs ARexx scripts on IRC events and can pass
questions from IRC on to a BotAI server. This directory models its control logic
in TLA+, checks it with TLC and, with TLAPS, proves every invariant that the
passing runs check (for the negotiation, with servers that keep to one
assumption) and that the multi-network runtime implements its abstract
specification. Source references
are relative to the repository.

## 1. The system

There is a single task and no preemption inside the program; what makes it hard
is who else gets a say, and when. A connection can end at any time. ARexx
scripts put commands into the port at any time, and AmBot executes them only at
certain places: when a wait was ended by the port's signal, in its polling
loops, and *while it waits for a hook script it started itself*. Signals
(Ctrl-C, the port) are bits that one `WaitSelect` or `Wait` returns and clears
together.

| component | state | operations | modelled |
|---|---|---|---|
| control record (`operations.c`) | socket, four request flags | connect, disconnect, reload, quit, send, status | `Control` |
| multi-network runtime (`multinet.c`, `run_m7_networks` in `session.c`) | per network: socket, retry flag, delay and deadline; descriptor array; two counters | connect all, wait, serve, retry, disable, stop; rebuild, idle, pause | `MultiNet`, abstractly `NetworkSet` |
| single-network runtime (`session.c`) | socket, backoff, requests | connect, register, wait, dispatch, close, delay, reload, lifecycle hooks | `Session` |
| framer and event queue (`irc.c`, `events.c`) | partial line, drop flag; ring of 16 events, drop counter | feed, push, pop, dispatch | `Receive` |
| ARexx host and hook runner (`rexx.c`, `hooks.c`) | message port, signal bits, the script waited for | open, process, run script, close | `RexxPort` |
| CAP/SASL negotiation (`modernirc.c`, `connect_runtime`) | four flags | start, handle line | `ModernIrc` |
| network wrapper (`net.c`) | none | connect, send, recv, wait | inside the actions of the runtimes |
| configuration (`config.c`, `networks.c`) | global values, up to 4 sections, counts of what was left out | load (at the start, for RELOAD), build profiles | `Config`; an input of `MultiNet` |
| bot commands (`commands.c`) | none | reply to `!HELP`, `!STATUS`, `!VERSION`, `!AI` | `Commands`; the effect of RELOAD on addressing: `Session!ReplyIdentity` |
| BotAI client (`botai.c`) | compatible flag | one blocking HTTP exchange for the version check, one for each question | `Commands` |
| module registry (`modules.c`) | list of 16 | discover | no: its two counts are printed and have no effect |
| PBMP (`pbmp.c`) | none | format a status reply | no: pure formatting, not linked into the program |
| entry (`main.c`) | none | parse arguments | `Config!Arguments` |

How they interact: both runtimes own the one control record; `RexxPort` delivers
commands that change it (`Control!Dispatch`), and the runtimes' loops consume
the requests. `Receive` turns a connection's bytes into events; their handlers
run hooks, in which commands are executed again. `ModernIrc` decides whether a
connection survives its registration; `MultiNet` only knows that it may not.
`Config` says which networks there are to serve and what a RELOAD makes of their
values; `MultiNet` takes their number as it comes. `Commands` runs inside the
dispatch of an event and blocks the task for the length of its exchange.

What must be right, and is hard to test: the counters and the descriptor array
that duplicate the networks' state (a missed adjustment blocks the loop for ever
or gives up the set); requests that arrive together or in a hook; Ctrl-C, at
every point; who closes a descriptor, exactly once; the retry delays; that
waiting for a script that talks back does not deadlock; that framing, and the
reading of a BotAI answer, do not depend on how TCP cuts the stream; what is left
of an old configuration after a RELOAD. `PROJECT.json` lists these hazards line by
line with the properties aimed at them.

## 2. The modules

* **Control** - the record as a TLA+ record and every operation as an operator
  on it. `connected` is derived: `ambot_control_set_socket` is its only writer.
  Commands that only send a line are the one command `"SEND"`.
* **MultiNet** EXTENDS Control. `pc` names the place in the loop: `build`,
  `idle`, `stuck`, `pause`, `returned` belong to `run_m7_networks`; `connect`,
  `loop`, `rexx`, `woken`, `retry`, `ready`, `feed` to `ambot_multinet_run`. One
  action is the code between two points where something outside intervenes, so
  every pass over the networks is one action per network and a connection can
  be lost, or a hook can execute commands, between two of them. `due` is the
  time left until `retry_at`; a timed wait lets one second pass. `open` is the
  descriptor table of `bsdsocket.library`: what the program forgot to close
  stays in it. The history variable `abandoned` collects the descriptors a loop
  left open when it returned.
* **NetworkSet** - the promise of the multi-network runtime without counters,
  descriptors or passes: networks that change one at a time between *up*,
  *retry* and *disabled*, and a set that is given up only when all of them
  are disabled (a command or Ctrl-C may end it first). `MultiNet!ImplementsNetworkSet` is the refinement, with the
  mapping `absPhase`, `absMembers`, `absStatus`.
* **Session** EXTENDS Control. The main loop, one connected session and the
  reconnect delay. Hooks appear as the places `onconnect`, `dispatch` and
  `ondisconnect`, at which any command may be executed. History variables:
  `tries`, `announced`, `reason`, `regNick`.
* **Receive** - the framer byte by byte, the line handlers of both runtimes
  (`multi` says which one) and the ring. Bytes are chosen as they are reached and
  a recv may end after any of them, so all cuts of all streams are behaviours.
* **RexxPort** - the port with its signal bit, the scripts that use it, the wait
  for a hook with its two bits, and the shutdown.
* **ModernIrc** - the negotiation and the registration against an IRC server,
  which is external, as are the two FIFO directions of TCP between them. For the
  proofs its last part names the words of the dialogue, of which at most one is
  under way (`DialogueState`), and what an offer of sasl commits both sides to
  (`OfferState`).
* **Config** - `ambot_config_load` line by line over the values there are, the
  choice of the runtime, and `ambot_networks_from_config` section by section
  (`BuildBegins`, `AcceptSection`, `RejectSection`, `BuildEnds`; `looked` is its
  loop variable); loads again for every RELOAD. `config.set` holds the global values and `config.networks` the sections,
  `current` is the section being read. History variables: `text` (the lines of
  the last load), `base` (the values before it), `named` (the global keys the
  loads before it set) and `seed` (the command line). What a file means is
  defined apart from the reader, by positions: `HomeOf` is the place a line
  belongs to, `Setters` the lines that set a key there.
* **Commands** - an event with or without a command, its reply, and the exchange
  with BotAI in between: connect, send, wait, recv until the server closes, the
  time is over or the buffer is full. The server's whole answer is chosen at the
  connect; recv returns a piece of it, and its end may come anywhere. In `judge`
  the status line and the head are looked at; in `parse` the JSON parser reads one
  token per step: `at` is its pointer, `expect` the place in its loop, `text` the
  reply. The reference for it is a statement about the form of an answer
  (`ChatAnswer`).
* **ControlProofs**, **MultiNetProofs**, **SessionProofs**, **RexxPortProofs**,
  **ReceiveProofs**, **ModernIrcProofs**, **ConfigProofs**, **CommandsProofs** - the
  proofs; that of the refinement is in `MultiNetProofs`.
* **MC...** - instances for TLC.

Definitions preceded by "Mutant" are deliberate errors, each a plausible bug of
the definition after it; no specification uses them. Substituting one must
break the property it is listed with in `PROJECT.json`, which shows that the
property does depend on that piece of code.

## 3. The runs

| run | question | bounds |
|---|---|---|
| `multinet_all` | Do counters, descriptor array, retry state and ownership of descriptors agree with the networks, is nothing left open but by the two early returns, do commands follow the first network, and does the loop implement `NetworkSet`, whatever clients and waits do? | 2 networks, 3 descriptors (symmetric), delay cap 3 |
| `multinet_live` | QUIT and Ctrl-C end the program (the latter unless `reload_loses_break` happens); DISCONNECT closes everything, and no request is forgotten but in the named places; a retry happens; a lost network does not keep others from being served | 2 networks, 2 descriptors, cap 1 |
| `session` | The single-network runtime: socket and control record agree, hooks are paired and given the right reason, backoff is 1, 2, 4, ... cap, requests and Ctrl-C take effect, no request is forgotten but a DISCONNECT of ON_CONNECT | 2 descriptors, cap 6 |
| `receive` | Framing against a reference definition; order and loss of events | lines of 2 bytes, queue of 2, streams of 7 bytes, recvs of up to 6 |
| `rexxport` | No lost wakeup, every command answered once, no deadlock between hook and host | 2 scripts and the hook, 3 commands each |
| `modernirc` | The negotiation with servers that list capabilities in one line and grant sasl | one connection, reconnecting |
| `config` | Is what is loaded what the file means, what does a RELOAD keep of older files, and is every section served or counted? | 11 kinds of lines, 4 lines in one or several loads, 1 channel, 2 networks, all arguments given or only the first three |
| `commands` | Is what is said on IRC the text of a whole answer, does every command get its one reply, does every exchange end, closed? | buffer of 12 tokens; every answer one token away from a well-formed one |

Why the bounds are enough. Two networks are the first network, which the control
record follows, and another one; the passes treat all others alike. A third
descriptor lets a leaked one coexist with two in use. Cap 6 in `session`
and cap 3 in `multinet_all` are, like 30, no powers of two, so the clipped
doubling is reached (from 4, and from 2). Queue and line bounds
of 2 are the least at which the ring wraps with something in it and a line is
too long by one or more. In `config` four lines are a section too many with a
key after it, or a load of three lines and a RELOAD of one; the kinds of lines
are a text, a number and a misspelt one, flags set and unset, a channel and a
second one; the proofs lift both bounds. They also cover what no line of the
instance sets: a SASL profile that is accepted. In `commands` the longest answers, two
members and a header line, just fill the buffer, so that full and too small
coincide. Counters (`tries`, `sent`, the stream's length) are bounded as named
in the modules. Deadlock is checked in every run; a program that has ended
stutters.

Fairness. The task takes its steps (the AmigaOS scheduler runs it); a wait ends
when its timeout is over or when Ctrl-C, or the port's signal in `RexxPort`, is
pending; delays end; a hook script ends. In `MultiNet` the timed wake-up is
strongly fair because it is disabled between waits. Nothing is assumed of
servers (except in `ModernIrc`, where the question is what happens with one that
answers): in `Commands` only connect, recv and the timed wait return, and the
server may stay silent for ever. Nothing is assumed of the scripts of the user,
or of the user. Each script of `RexxPort` sends finitely many commands:
`ambot_rexx_process` empties the port before it returns, and an endless supply
would keep it there.

### Runs that show a disagreement

| run | what the code does | what is said |
|---|---|---|
| `reload_leak` | RELOAD returns from the loop without closing the set's sockets; they stay open until exit | `docs/M7.md:50`: RELOAD "tears down the current multi-network set" |
| `reload_loses_break` | Ctrl-C and the port's signal end one wait, the command was RELOAD: the Ctrl-C is cleared and forgotten | `docs/M1.md:16`: "Ctrl-C exit path" |
| `reload_identity` | RELOAD rewrites the nick that private commands are compared with, during the connection | `docs/M6.md:21`: NICK takes "full effect on the next connection cycle" |
| `cap_nak` | CAP NAK is ignored: CAP END is never sent and the registration stays pending | `docs/M8.md:7`: "ends negotiation with `CAP END`" |

In `reload_leak` the property is `TearsDown`; `NoLeak` says, and proves, that
nothing else leaks.

Other differences met while reading, which have no run of their own:

* `docs/M7.md:50` says that with every network offline the set is rebuilt after
  five seconds, but every network is retried on its own and only a failed wait
  rebuilds the set (the leak of `reload_leak` happens there too, `multinet.c:199`);
* a DISCONNECT from the ON_CONNECT hook is forgotten (`session.c:137`), and with
  several networks so is one of the same batch as a RELOAD, or of the five
  second pause (`session.c:221`), though `docs/M4.md:9` calls DISCONNECT useful
  while the bot waits to reconnect: these are the cases `Withdrawn` names in
  `Session` and `MultiNet`, and `RequestsKept` says there are no others;
* a RELOAD from a hook is taken up only at the next ARexx signal
  (`session.c:158`), and one that is pending when `idle` ends is dropped
  (`session.c:221`);
* after a RELOAD whose first connect fails the control record keeps the old
  socket (`multinet.c:174`), and after DISCONNECT together with a failed wait
  CONNECT is refused although nothing is served (`session.c:236`): both are the
  exceptions `ControlFollowsFirst` names;
* JOIN is sent with the registration; a server that holds the registration back
  for CAP answers 451, and JOIN is not repeated (`multinet.c:124`; `docs/M6.md:15`:
  "joined automatically after IRC registration");
* a listing of capabilities that names `sasl` only in a later line ends the
  negotiation without it (`modernirc.c:93`);
* the multi-network runtime runs no lifecycle hooks; a command answered while the
  port is closed was not executed but does not say so (`rexx.c:202`,
  `docs/M4.md:36`);
* the keys of a fifth `[NETWORK]` section change the global configuration
  (`config.c:157`); a key removed from the file keeps its value after a RELOAD
  (`config.c:136`); a line of 320 characters or more is read as several
  (`config.c:140`);
* `TLS=UPSTREAM` and `SASL=PLAIN` are ignored in the single-network runtime
  (`session.c:302`; `docs/M8.md:19`), and `UPSTREAM=AMBNC` without `AMBNC_HOST`
  connects to `HOST` (`networks.c:102`);
* `BOTAI_TIMEOUT` bounds one wait and not the exchange (`botai.c:113`;
  `docs/BOTAI.md:11`), a text of BotAI that does not fit into an IRC line is
  dropped without a word (`commands.c:51`), an answer that exactly fills the
  buffer is refused (`botai.c:124`), and RELOAD does not configure BotAI anew
  (`session.c:327`).

## 4. What is proved

All theorems hold for every value of the constants that satisfies the named
assumptions: `NoSockAssumption` (NoSock is no descriptor), `MultiNetAssumption`,
`SessionAssumption`, `RexxPortAssumption`, `ReceiveAssumption`,
`ModernIrcAssumption`, `ConfigAssumption`, `CommandsAssumption`.

* **ControlProofs**: the operations keep the record's type, and which fields they
  leave alone; both other modules cite these lemmas.
* **MultiNetProofs** - `Invariance`: `Spec => []Inv`, for any number of networks,
  any descriptors, commands and cap, failing waits included. `Inv` is `TypeOK`,
  `CountersAgree`, `WatchedAgree`, `RetryState`, `SocketsOwned`, `PassState` and
  `Ledger`.
  None of the parts is inductive alone: the counters are only right because a
  retrying network holds no socket (`RetryState`) - otherwise losing it would
  count it twice; a new descriptor is only owned by one network because held
  ones are open (`SocketsOwned`); and `PassState` ties the passes to the network
  they are at (in `feed` the current network is connected; in `connect` the
  networks not yet tried have no retry flag). The counting steps rest on lemmas about
  the cardinality of a set that gains or loses one element. `Ledger` accounts for
  every descriptor: `NoLeak` is not inductive without knowing that no held
  descriptor is an abandoned one, since closing it would take it out of both.
  `CountersCorrect`, `WatchedCorrect`, `RetryCorrect`, `DescriptorsCorrect`,
  `NoLeakCorrect`, `ControlFollows` and `TypeCorrect` follow.
  `TeardownCorrect` is the positive counterpart of the run `reload_leak`, without
  hypotheses: a set that ends for QUIT, DISCONNECT or Ctrl-C, or because no network
  is left, closes all it has opened, whatever state its networks are in and
  whatever earlier sets have abandoned; one that ends for a RELOAD or a failed
  wait closes nothing (`SetClosed`). It rests on `Ledger`. `ControlExact` is what
  is left of `ControlFollowsFirst` if nobody sends RELOAD and no wait fails
  (`Undisturbed`): the control record holds the first network's socket in the
  loop and none outside it, without the exceptions.
  `RequestsCorrect`: no step forgets a QUIT, and a DISCONNECT disappears only by
  being honoured, by a CONNECT, or in the rebuilds listed above. It is the part
  `RequestsKept` of `DisconnectCloses`, and needs `Pending`: CONNECT and
  DISCONNECT are never both wanted, and a set is built with a DISCONNECT pending
  only after a RELOAD or a failed wait, or when QUIT or Ctrl-C stops it at once.
* **MultiNetProofs**, second part - `Refinement`: `Spec => ImplementsNetworkSet`,
  under the same assumptions, from `Inv`. Outside a set only the phase can change
  (`OutsideStep`); a step that neither leaves the loop nor changes a socket or a
  retry flag stutters (`WithinStutters`); a step of one network is a step of that
  network's machine (`OneBecomes`, `ServingStep`). `RetryState` is why a failed
  retry stutters and why a failed negotiation *disables*; `CountersAgree` is why
  the set is given up only when each of its networks is disabled.
* **SessionProofs** - `Invariance` with `SessionState`, which says at each place
  whether there is a socket, what the control record holds, and why a session
  that ended without an error ended; `ControlCorrect`, `ConnectionsPaired`,
  `ReasonCorrect`, `TypeCorrect` follow. `BackoffCorrect`: the delay is a power of
  two or the cap. `tries` stops counting at `MaxBackoff`, so the law is inductive
  only with the fact that the delay has reached the cap by then (`BackoffState`);
  that 2^(n+1) is twice 2^n is shown by counting the subsets of 1..n+1
  (`PowerSuccessor`). `RequestsCorrect` is the `RequestsKept` part of
  `DisconnectCloses` here: from `SessionState`, a DISCONNECT is dropped only with
  the connection closed, by a CONNECT, or where a session begins.
* **RexxPortProofs** - `Invariance`, for any scripts. The port's messages are
  distinct and are those of the blocked scripts (`PortState`); the bit may be
  down over a message only while the port is being emptied (`SignalState`), the
  strengthening `NoLostWakeup` needs at `hooktest`; between two waits for the hook
  no reply is remembered (`HookState`). `WakeupsCorrect`, `AnswersCorrect`,
  `HookCorrect` and `TypeCorrect` follow.
* **ReceiveProofs** - for every buffer, capacity and stream. `TypeCorrect` is
  that nothing is written past an end. The ring's contents are
  `handled \o Queued`; pushing appends to it (`QueuedReached`, because no queued
  slot is `tail`) and dispatching leaves it alone (`DispatchReached`), which makes
  `EventsInOrder` inductive with `tail = (head + count) % Capacity`. `LossCorrect`
  needs `LossState`: at each place, how much of the burst the queue holds.
  `FramingCorrect`: the reference definition's `Start` and
  `Taken` are followed byte by byte (`StartSame`, `StartContinued`, `StartAfter`,
  `TakenAppend`) and the buffer always holds the stream from `Current` on, or
  the line is too long (`LineState`).
* **ConfigProofs** - `LoadCorrect`, for every file and all limits: the reader and
  the meaning by positions agree after every line. A line added to the file
  changes what one place holds of one key and nothing else (`GlobalKept`,
  `GlobalTaken`, `SectionKept`, `SectionTaken`, and the same for channels); a new
  section has no line yet and means what is outside (`SectionFresh`); that the
  reader is where the positions say is `ReaderState`. `StaleCorrect` needs in
  addition that a value the command line did not give was set by a load
  (`SetByNow`). `SectionsCorrect`: after every section the loop has looked at, the
  profiles are the sections that do not contradict themselves, each at the place
  that the number of such sections before it gives (`BuildState`, `ServedUpTo`).
* **CommandsProofs** - for every answer a server may give, well formed or not, of
  any length, and every buffer. `TextCorrect` is the parser's correctness: it
  takes a text from exactly the answers `ChatAnswer` describes. After each token
  the parser knows what it has seen (`Seen`): so many members, complete, of which
  the one named `text` has the value `text`; where it fails, no continuation is an
  answer (`SeenStep`, `EndsWithText`, `EndsEarly`). That what it parses is the
  whole answer and below the limit is `ExchangeState`. `ReplyCorrect`,
  `ExchangeCorrect` and `TypeCorrect` follow from the same invariant.
* **ModernIrcProofs** - `EndCorrect`, for every server, well behaved or not: the
  strengthening `EndSaid` ties the bot's flags to what it has said.
  `CredentialCorrect` and `AuthenticationCorrect` assume `SaslInOneLine`: a listing
  that names sasl does so in its only line. The code does not ensure that (the
  bot asks for `CAP LS 302`, `modernirc.c:76`, whose answer may have several lines,
  and it answers every line); it is a hypothesis about the server, which TLC
  evaluates for the listings of the run. Under it at most one word of the dialogue
  is under way, and the word says how far the bot is (`DialogueState`); that
  determines in turn what either side can say next.

Only model-checked: everything under fairness (liveness), which is out of the
prover's reach: `QuitEnds`, `BreakTaken`, `DisconnectCloses` (in both), `RetryHappens`,
`ReadySetServed`, `StopEnds`, `ConnectHappens`, `HookReturns`, `CommandAnswered`,
`NegotiationEnds` and `ExchangeEnds`. The safety part of `DisconnectCloses`,
`RequestsKept`, is proved in both runtimes.

## 5. What is not modelled

A NUL byte inside a BotAI answer: the C strings of `botai.c` end there
(`botai.c:132`, `botai.c:244`), so a whole answer that is followed by a NUL and
anything else is accepted, and `TextIsTheAnswers` speaks of what comes before it.

The text of lines, replies, requests and results; the parsing of commands and the
fields of events; trimming and truncation of a configuration line; base64; DNS;
partial sends (`ambot_net_send_all` is one step that succeeds or fails); the
`CONNECT_PERMANENT` branches of `multinet.c`, which cannot be taken because
profiles are validated when the set is built.

The module registry fills a bounded array that nothing reads, PBMP formats a reply
and is not linked into the program, of `main.c` only the arguments are modelled (`Config!Arguments`): none has state
that another part depends on. CI scripts, the Python fixtures and the release tooling
are not part of the program.

## 6. Plan

Done: the control record, both runtimes and their refinement, the receive path,
the ARexx port, the negotiation, the configuration across reloads, the bot
commands and BotAI; proofs of every invariant of the passing runs and of the
refinement.

What could follow:

1. `Receive`: the fields of an event and their truncation.
2. `Config` composed with `MultiNet`: which network of the old set a section of the
   new one replaces.

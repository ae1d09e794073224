------------------------------- MODULE Config -------------------------------
(***************************************************************************)
(* The configuration: ambot_config_load reads a file line by line over     *)
(* what the program already has (src/src/config.c), at the start over the  *)
(* command line's values and after every RELOAD over the values of the     *)
(* load before; ambot_networks_from_config makes the networks to serve out *)
(* of it (src/src/networks.c); and ambot_session_run and its two runtimes  *)
(* decide what to do with the outcome (src/src/session.c).                 *)
(*                                                                         *)
(* Abstracted: how a line is trimmed and taken apart.  A line is the key   *)
(* it names and the text it gives it, as far as the field of that key      *)
(* holds it; what fgets cuts off a line of 320 characters or more is a     *)
(* line of its own here as it is in the code.                              *)
(***************************************************************************)
EXTENDS Naturals, Sequences, FiniteSets

CONSTANTS
  Text,         \* what a line may give a key
  Numerals,     \* the texts that are numbers from 1 to 65535
  Lines,        \* the lines of configuration files
  CommandLines, \* the program's arguments
  ChannelsMax,  \* AMBOT_CONFIG_CHANNELS_MAX
  NetworksMax,  \* AMBOT_CONFIG_NETWORKS_MAX
  LinesMax      \* bound: the lines read in all loads together

Texts ==
  {"HOST", "NICK", "USER", "PASS", "OWNER", "HOOK_DIR", "MODULE_DIR",
   "AMBNC_HOST", "SASL_USER", "SASL_PASS", "BOTAI_URL", "BOTAI_EXPERT"}
Numbers == {"PORT", "AMBNC_PORT", "BOTAI_TIMEOUT"}
Words ==        \* the texts that set a flag
  [UPSTREAM |-> {"AMBNC"}, CAP |-> {"ON", "YES", "TRUE", "1"},
   SASL |-> {"PLAIN"}, TLS |-> {"UPSTREAM"}]
Flags == DOMAIN Words

Key       == Texts \cup Numbers \cup Flags
NetKey    == Key \ {"BOTAI_URL", "BOTAI_EXPERT", "BOTAI_TIMEOUT"}
Inherited == NetKey \ {"HOST"}
Section   == "[NETWORK]"
Line      == [key : Key \cup {"CHANNEL", Section, "none"}, text : Text]

(* The arguments of main.c; "" for one that is left out.                    *)
Arguments ==
  [host : Text, port : Numerals, nick : Text,
   user : Text \cup {""}, pass : Text \cup {""}, owner : Text \cup {""}]

ASSUME ConfigAssumption ==
  /\ Numerals \subseteq Text /\ CommandLines \subseteq Arguments
  /\ Lines \subseteq Line
  /\ ChannelsMax \in Nat /\ NetworksMax \in Nat /\ LinesMax \in Nat

VARIABLES
  pc,       \* where the program is
  mode,     \* the runtime chosen at the start: "none", "single", "multi"
  seed,     \* the values of the command line
  config,   \* struct ambot_config
  current,  \* the section being read, 0 outside
  nets,     \* the networks served
  skipped,  \* networks.skipped
  looked,   \* the sections ambot_networks_from_config has looked at
  base,     \* history: the values before the last load
  text,     \* history: the lines of the last load
  named,    \* history: the global keys set by the loads before it
  read      \* the lines read so far, for the bound

history == <<base, text, named>>
served  == <<nets, skipped, looked>>
vars    == <<pc, mode, seed, config, current, served, history, read>>

(* "default" stands for each key's own default.                            *)
Default ==
  [k \in Key |->
     IF k \in Flags THEN IF k = "CAP" THEN "on" ELSE "off"
     ELSE IF k \in Numbers \cup {"HOOK_DIR", "MODULE_DIR", "BOTAI_EXPERT"}
       THEN "default" ELSE ""]

(* ambot_config_seed                                                        *)
Seeded(args) ==
  [Default EXCEPT
     !["HOST"] = args.host, !["PORT"] = args.port, !["NICK"] = args.nick,
     !["USER"] = IF args.user = "" THEN args.nick ELSE args.user,
     !["PASS"] = args.pass, !["OWNER"] = args.owner]

Init ==
  /\ pc = "start" /\ mode = "none"
  /\ \E args \in CommandLines : seed = Seeded(args)
  /\ config = [path |-> FALSE, set |-> seed, channels |-> <<>>,
               networks |-> <<>>, skipped |-> 0]
  /\ current = 0 /\ nets = <<>> /\ skipped = 0 /\ looked = 0
  /\ base = seed /\ text = <<>> /\ named = {} /\ read = 0

-----------------------------------------------------------------------------
(* One line                                                                *)

(* A text as it is, a number if it is one, a flag if it is the word for it. *)
Meaning(key, value, old) ==
  IF key \in Flags THEN IF value \in Words[key] THEN "on" ELSE "off"
  ELSE IF key \in Numbers /\ value \notin Numerals THEN old ELSE value

(* What a line changes in the values and channels of its place.             *)
Apply(place, keys, line) ==
  IF line.key \in keys
    THEN [place EXCEPT !.set[line.key] = Meaning(line.key, line.text, @)]
  ELSE IF line.key = "CHANNEL" /\ Len(place.channels) < ChannelsMax
    THEN [place EXCEPT !.channels = Append(@, line.text)]
  ELSE place

(* A section starts with the global values of the moment, but no host.      *)
NetworkDefaults(name) ==
  [name |-> name, channels |-> <<>>,
   set |-> [k \in NetKey |-> IF k \in Inherited THEN config.set[k] ELSE ""]]

-----------------------------------------------------------------------------
(* What a file means: its lines t by their places.                         *)

(* The sections up to the line j.                                           *)
Sections(t, j) == {h \in 1 .. j : t[h].key = Section}

(* The section a line belongs to: 0 is outside, before the first one or     *)
(* after one too many.                                                      *)
HomeOf(t, j) ==
  LET s == Cardinality(Sections(t, j)) IN IF s <= NetworksMax THEN s ELSE 0

(* A number that is none sets nothing.                                      *)
Sets(t, j, home, key) ==
  /\ HomeOf(t, j) = home /\ t[j].key = key
  /\ key \in Numbers => t[j].text \in Numerals

(* The lines up to n that set a key.                                        *)
Setters(t, n, home, key) == {j \in 1 .. n : Sets(t, j, home, key)}

GloballySet(t) == {k \in Key : Setters(t, Len(t), 0, k) # {}}

-----------------------------------------------------------------------------
(* ambot_config_load                                                       *)

(* Mutant: everything is reset, the values of the command line too.         *)
OpenAfresh ==
  /\ pc \in {"start", "running"}
  /\ pc = "running" => config.path
  /\ pc' = "reading" /\ current' = 0
  /\ config' = [path |-> TRUE, set |-> Default, channels |-> <<>>,
                networks |-> <<>>, skipped |-> 0]
  /\ base' = config.set /\ text' = <<>>
  /\ named' = named \cup GloballySet(text)
  /\ UNCHANGED <<mode, seed, served, read>>

(* The file is opened, at the start or for a RELOAD: the lists are emptied, *)
(* the values stay.                                                         *)
Open ==
  /\ pc \in {"start", "running"}
  /\ pc = "running" => config.path
  /\ pc' = "reading" /\ current' = 0
  /\ config' = [config EXCEPT !.path = TRUE, !.channels = <<>>,
                              !.networks = <<>>, !.skipped = 0]
  /\ base' = config.set /\ text' = <<>>
  /\ named' = named \cup GloballySet(text)
  /\ UNCHANGED <<mode, seed, served, read>>

(* The next line of the file, whatever it is.                               *)
Read(line) ==
  /\ pc = "reading" /\ read < LinesMax
  /\ read' = read + 1 /\ text' = Append(text, line)
  /\ UNCHANGED <<pc, mode, seed, served, base, named>>

ReadSection ==
  \E line \in Lines :
    /\ Read(line) /\ line.key = Section
    /\ Len(config.networks) < NetworksMax
    /\ config' = [config EXCEPT
                    !.networks = Append(@, NetworkDefaults(line.text))]
    /\ current' = Len(config.networks) + 1

(* Mutant: what follows is read into the last section that fits.            *)
SkipSectionStays ==
  \E line \in Lines :
    /\ Read(line) /\ line.key = Section
    /\ Len(config.networks) >= NetworksMax
    /\ config' = [config EXCEPT !.skipped = @ + 1]
    /\ UNCHANGED current

(* One too many: it is counted, and its keys are global ones.               *)
SkipSection ==
  \E line \in Lines :
    /\ Read(line) /\ line.key = Section
    /\ Len(config.networks) >= NetworksMax
    /\ config' = [config EXCEPT !.skipped = @ + 1]
    /\ current' = 0

ReadInSection ==
  \E line \in Lines :
    /\ Read(line) /\ line.key # Section /\ current # 0
    /\ config' = [config EXCEPT !.networks[current] = Apply(@, NetKey, line)]
    /\ UNCHANGED current

ReadOutside ==
  \E line \in Lines :
    /\ Read(line) /\ line.key # Section /\ current = 0
    /\ config' = Apply(config, Key, line)
    /\ UNCHANGED current

Close ==
  /\ pc = "reading"
  /\ pc' = "loaded"
  /\ UNCHANGED <<mode, seed, config, current, served, history, read>>

Load == Open \/ ReadSection \/ SkipSection \/ ReadInSection \/ ReadOutside
          \/ Close

-----------------------------------------------------------------------------
(* The program                                                             *)

End ==
  /\ pc' = "done"
  /\ UNCHANGED <<mode, seed, config, current, served, history, read>>

(* There is no file to open, at the start or in the multi-network runtime   *)
(* outside its pause.  Elsewhere a RELOAD that fails changes nothing.       *)
Unreadable ==
  /\ \/ pc = "start"
     \/ pc = "running" /\ mode = "multi"
  /\ End

(* No file is given.                                                        *)
NoFile ==
  /\ pc = "start"
  /\ pc' = "loaded"
  /\ UNCHANGED <<mode, seed, config, current, served, history, read>>

Usable(set) == set["HOST"] # "" /\ set["NICK"] # ""

(* The runtime is chosen once.                                              *)
Begin ==
  /\ pc = "loaded" /\ mode = "none"
  /\ config.networks # <<>> \/ Usable(config.set)
  /\ LET multi == config.networks # <<>> \/ config.set["UPSTREAM"] = "on"
     IN  /\ mode' = IF multi THEN "multi" ELSE "single"
         /\ pc' = IF multi THEN "build" ELSE "running"
  /\ UNCHANGED <<seed, config, current, served, history, read>>

BeginUnusable ==
  /\ pc = "loaded" /\ mode = "none"
  /\ config.networks = <<>> /\ ~Usable(config.set)
  /\ End

Resume ==
  /\ pc = "loaded" /\ mode # "none"
  /\ pc' = IF mode = "multi" THEN "build" ELSE "running"
  /\ UNCHANGED <<mode, seed, config, current, served, history, read>>

Has(net, flag) == net.set[flag] = "on"

(* Mutant: TLS is not looked at.                                            *)
ValidSasl(net) ==
  Has(net, "SASL") => net.set["SASL_USER"] # "" /\ net.set["SASL_PASS"] # ""

(* ambot_network_validate_security.                                         *)
Valid(net) ==
  /\ Has(net, "TLS") => Has(net, "UPSTREAM")
  /\ Has(net, "SASL") => net.set["SASL_USER"] # "" /\ net.set["SASL_PASS"] # ""

(* The global values as a network of their own.                             *)
Legacy ==
  [name |-> "default", channels |-> config.channels,
   set |-> [k \in NetKey |-> config.set[k]]]

(* ambot_networks_from_config starts with an empty list.                    *)
BuildBegins ==
  /\ pc = "build"
  /\ pc' = "building"
  /\ nets' = <<>> /\ looked' = 0
  /\ skipped' = IF config.networks # <<>> THEN config.skipped ELSE 0
  /\ UNCHANGED <<mode, seed, config, current, history, read>>

(* Its loop looks at one section after the other.                           *)
Look ==
  /\ pc = "building" /\ looked < Len(config.networks)
  /\ looked' = looked + 1
  /\ UNCHANGED <<pc, mode, seed, config, current, history, read>>

AcceptSection ==
  /\ Look
  /\ Valid(config.networks[looked'])
  /\ nets' = Append(nets, config.networks[looked'])
  /\ UNCHANGED skipped

RejectSection ==
  /\ Look
  /\ ~Valid(config.networks[looked'])
  /\ skipped' = skipped + 1
  /\ UNCHANGED nets

(* Without a section the global values are the only profile; without any    *)
(* profile the program ends.                                                *)
BuildEnds ==
  /\ pc = "building" /\ looked = Len(config.networks)
  /\ nets' = IF config.networks = <<>> /\ Usable(config.set) /\ Valid(Legacy)
               THEN <<Legacy>> ELSE nets
  /\ pc' = IF nets' = <<>> THEN "done" ELSE "running"
  /\ looked' = 0
  /\ UNCHANGED <<mode, seed, config, current, skipped, history, read>>

Build == BuildBegins \/ AcceptSection \/ RejectSection \/ BuildEnds

Next ==
  \/ Load \/ Unreadable \/ NoFile \/ Begin \/ BeginUnusable \/ Resume \/ Build
  \/ pc \in {"running", "done"} /\ UNCHANGED vars

Spec == Init /\ [][Next]_vars
-----------------------------------------------------------------------------
(* Types                                                                   *)

Value   == Text \cup {"", "default", "on", "off"}
Network == [name : Text, channels : Seq(Text), set : [NetKey -> Value]]

TypeOK ==
  /\ pc \in {"start", "reading", "loaded", "build", "building", "running",
             "done"}
  /\ mode \in {"none", "single", "multi"}
  /\ seed \in [Key -> Value] /\ base \in [Key -> Value]
  /\ config \in [path : BOOLEAN, set : [Key -> Value], skipped : Nat,
                 channels : Seq(Text), networks : Seq(Network)]
  /\ current \in 0 .. Len(config.networks)
  /\ text \in Seq(Line)

-----------------------------------------------------------------------------
(* The last of the lines at decides.                                        *)
Decides(v, t, at, key) ==
  \E j \in at : /\ \A h \in at : h <= j
               /\ v = Meaning(key, t[j].text, "")

(* v is what the lines up to n make of a global key that was old before.    *)
MeansGlobally(v, t, n, old, key) ==
  LET at == Setters(t, n, 0, key)
  IN  IF at = {} THEN v = old ELSE Decides(v, t, at, key)

(* Where the section s starts.                                              *)
Starts(t, s) ==
  {p \in Sections(t, Len(t)) : Cardinality(Sections(t, p)) = s}

(* v is what the file makes of a section's key: without a line of its own   *)
(* it has the value it had outside, up to there.                            *)
MeansInSection(v, t, before, s, key) ==
  LET at == Setters(t, Len(t), s, key)
  IN  CASE at # {} -> Decides(v, t, at, key)
        [] at = {} /\ key \in Inherited ->
             \E p \in Starts(t, s) : MeansGlobally(v, t, p, before[key], key)
        [] at = {} /\ key \notin Inherited -> v = ""

(* The first channels named there, in their order.                          *)
ChannelLines(t, home) ==
  {j \in 1 .. Len(t) : HomeOf(t, j) = home /\ t[j].key = "CHANNEL"}

ChannelsAre(channels, t, home) ==
  LET at == ChannelLines(t, home)
      Rank(j) == Cardinality({h \in at : h <= j})
  IN  /\ Len(channels) =
           IF Cardinality(at) < ChannelsMax THEN Cardinality(at)
                                            ELSE ChannelsMax
      /\ \A j \in at : Rank(j) <= ChannelsMax => channels[Rank(j)] = t[j].text

(* The lists are those of the file, cut at their limits, and what does not  *)
(* fit is counted.                                                          *)
ListsCut ==
  LET all == Cardinality(Sections(text, Len(text)))
  IN  /\ Len(config.networks) = IF all < NetworksMax THEN all ELSE NetworksMax
      /\ Len(config.networks) + config.skipped = all

(* What is loaded is what the file says over what was there before: every   *)
(* key has the value of the last line that sets it in its place, a section  *)
(* has the values outside it at its start, and the lists are those of this  *)
(* file, cut at their limits.                                               *)
LoadMeansFile ==
  config.path =>
    /\ ListsCut
    /\ \A k \in Key :
         MeansGlobally(config.set[k], text, Len(text), base[k], k)
    /\ ChannelsAre(config.channels, text, 0)
    /\ \A s \in 1 .. Len(config.networks) :
         /\ \A k \in NetKey :
              MeansInSection(config.networks[s].set[k], text, base, s, k)
         /\ ChannelsAre(config.networks[s].channels, text, s)

(* A RELOAD keeps nothing of an older file but what the new one leaves      *)
(* open: whatever differs from a fresh start with the new file was set, as  *)
(* a global key, by a load before, and is not set where it would count.     *)
StaleOnlyIfDropped ==
  config.path =>
    /\ \A k \in Key :
         ~MeansGlobally(config.set[k], text, Len(text), seed[k], k)
           => k \in named \ GloballySet(text)
    /\ \A s \in 1 .. Len(config.networks), k \in NetKey :
         ~MeansInSection(config.networks[s].set[k], text, seed, s, k)
           => /\ k \in named \cap Inherited
              /\ \E p \in Starts(text, s) : Setters(text, p, 0, k) = {}

(* Where the reader is, and what has no file or is older: what the two      *)
(* invariants above rest on.                                                *)
ReaderState ==
  /\ pc = "reading" => /\ config.path
                       /\ current = HomeOf(text, Len(text))
  /\ ~config.path => text = <<>> /\ config.set = seed /\ base = seed
  /\ \A k \in Key : base[k] # seed[k] => k \in named

Inv == TypeOK /\ ReaderState /\ LoadMeansFile

-----------------------------------------------------------------------------
(* What a profile may not say: that the hop to a server it is not relayed   *)
(* to is secured elsewhere, or to log in without credentials.               *)
Contradicts(net) ==
  \/ Has(net, "TLS") /\ ~Has(net, "UPSTREAM")
  \/ Has(net, "SASL") /\ "" \in {net.set["SASL_USER"], net.set["SASL_PASS"]}

(* The sections up to n that can be served.                                 *)
Servable(n) == {s \in 1 .. n : ~Contradicts(config.networks[s])}

(* Of the sections up to n those are served, as they were read and in their *)
(* order, and the others are counted with what did not fit.                 *)
ServedUpTo(n) ==
  /\ Len(nets) = Cardinality(Servable(n))
  /\ \A s \in Servable(n) :
       nets[Cardinality(Servable(s))] = config.networks[s]
  /\ Len(nets) + skipped = n + config.skipped

(* A profile that contradicts itself is rejected (docs/M8.md:19) and every  *)
(* other one is served: with sections in the file, each is served as it was *)
(* read, in its order, or counted; without, the global values are.          *)
SectionsAccounted ==
  pc = "running" /\ mode = "multi" =>
    /\ nets # <<>>
    /\ config.networks # <<>> =>
         /\ ServedUpTo(Len(config.networks))
         /\ Len(nets) + skipped = Cardinality(Sections(text, Len(text)))
    /\ config.networks = <<>> => nets = <<Legacy>> /\ ~Contradicts(Legacy)

(* How far the loop is: what SectionsAccounted rests on.                    *)
BuildState ==
  /\ ~config.path => config.networks = <<>>
  /\ pc = "build" => mode = "multi"
  /\ pc = "building" =>
       /\ nets \in Seq(Network) /\ skipped \in Nat
       /\ looked \in 0 .. Len(config.networks)
       /\ config.networks # <<>> => ServedUpTo(looked)
       /\ config.networks = <<>> => nets = <<>>
  /\ SectionsAccounted
=============================================================================

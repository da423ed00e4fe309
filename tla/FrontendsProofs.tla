--------------------------- MODULE FrontendsProofs ----------------------------
(* The console, the datagram transport, plugins and the frames on the bus,  *)
(* for any consoles, peers, lines, datagrams, descriptors, messages and     *)
(* structures: ConsolesAreSound, DatagramsAreHeard, PluginsAreSound and     *)
(* BusFramesArrive.                                                         *)
EXTENDS Console, Dgram, Plugins, DbusCodec, ListFacts, TLAPS

------------------------------------------------------------------------------
(* The console.  The inductive invariant adds what the mode of a console can*)
(* be, that what runs was typed on a console that is there, and that the    *)
(* console over datagrams is connected to nobody between two lines.         *)

Records == [there : BOOLEAN, busy : Nat, destroyed : BOOLEAN, link : Ids \cup Peers \cup {None, "failed"},
            grp : {None, "g", "builtin"}, cmd : {None, "s"},
            prompt : {None, "g", "builtin"} \X {None, "s"}, stuck : BOOLEAN]

ConsoleTypes == consoles \in [Ids -> Records] /\ seen \subseteq Ids

\* The mode has the command of a group that has it.
ModeIsCommand(grp, cmd) == /\ grp \in {None, "g", "builtin"} /\ cmd \in {None, "s"}
                           /\ cmd = "s" => grp = "g"

Running ==
    running # Idle =>
        LET c == consoles[running.console] IN
           /\ running.console \in seen /\ c.there /\ c.busy = 2
           /\ running.cmd \in Commands[running.grp]
           /\ running.words \in Seq(STRING) /\ running.words # <<>>
           /\ running.cmd = c.cmd \/ \E i \in DOMAIN running.words : running.words[i] = running.cmd
           /\ running.cmd = "exit" => \E i \in DOMAIN running.words : running.words[i] = "exit"
           /\ c.link \in {running.asker, None}

Settled(id) == LET c == consoles[id] IN
                  /\ c.there <=> ~(c.destroyed /\ id # running.console)
                  /\ c.destroyed => c.link = None
                  /\ c.there /\ id # running.console => c.prompt = <<c.grp, c.cmd>> /\ c.busy = 0
                  /\ ModeIsCommand(c.grp, c.cmd)

ConsoleIInv == /\ ConsoleTypes /\ Running
               /\ \A id \in seen : Settled(id)
               /\ \A id \in Ids : consoles[id].there => id \in seen
               /\ Datagram \in seen /\ (running.console # Datagram => consoles[Datagram].link = None)
               /\ \A o \in outputs : o.to \in {o.asker, None}

LEMMA ConsoleInitIInv == Names /\ ConsoleInit => ConsoleIInv
<1> SUFFICES ASSUME Names, ConsoleInit PROVE ConsoleIInv
  OBVIOUS
<1>1. consoles \in [Ids -> Records]
  BY DEF ConsoleInit, Records, Fresh, Ids, None
<1>2. /\ seen = {Datagram} /\ running = Idle /\ outputs = {} /\ Datagram \in Ids
      /\ consoles[Datagram] = [Fresh EXCEPT !.there = TRUE]
  BY DEF ConsoleInit, Ids
<1>3. Settled(Datagram) /\ consoles[Datagram].link = None
  BY <1>2 DEF Settled, ModeIsCommand, Fresh, None, Names, Idle
<1>4. \A id \in Ids : consoles[id].there => id \in seen
  BY DEF ConsoleInit, Fresh
<1> QED  BY <1>1, <1>2, <1>3, <1>4 DEF ConsoleIInv, ConsoleTypes, Running

-----------------------------------------------------------------------------
\* Both groups have the commands that a line can name or a mode can be in.
LEMMA FindFacts ==
    ASSUME NEW g \in {None, "g", "builtin"}, NEW word \in STRING
    PROVE  /\ FindCommand(g, word) # None =>
                  g \in {"g", "builtin"} /\ FindCommand(g, word) \in Commands[g] /\ FindCommand(g, word) = word
           /\ FindCommand(g, word) = "s" => g = "g"
<1>1. Commands["g"] = {"k", "s"} /\ Commands["builtin"] = {"help", "exit"}
  BY DEF Commands
<1>2. FindCommand(g, word) = IF g # None /\ word \in Commands[g] THEN word ELSE None
  BY DEF FindCommand
<1> QED  BY <1>1, <1>2 DEF None

LEMMA FindGroupFacts == \A word : FindGroup(word) \in {None, "g", "builtin"}
BY DEF FindGroup, None

\* What a line means: a command of its group, named in the line or selected,
\* or a mode that has its command's group.
LEMMA MeaningFacts ==
    ASSUME NEW c, ModeIsCommand(c.grp, c.cmd), NEW w \in Seq(STRING), NEW argc \in Int,
           argc # 0 => w # <<>>, argc > 1 => Len(w) = argc
    PROVE  LET m == Meaning(c, w, argc)
           IN  /\ m.run \in BOOLEAN
               /\ m.run => /\ m.cmd \in Commands[m.grp] /\ w # <<>>
                           /\ m.cmd = c.cmd \/ \E i \in DOMAIN w : w[i] = m.cmd
                           /\ m.cmd = "exit" => \E i \in DOMAIN w : w[i] = "exit"
               /\ ~m.run => ModeIsCommand(m.grp, m.cmd)
<1> DEFINE Mode(g, cmd) == [run |-> FALSE, grp |-> g, cmd |-> cmd, argc |-> argc]
           Run(g, cmd, n) == IF cmd = None THEN Mode(c.grp, c.cmd)
                             ELSE [run |-> TRUE, grp |-> g, cmd |-> cmd, argc |-> n]
           here == FindCommand(c.grp, w[1])
           m == Meaning(c, w, argc)
           Good(x) == /\ x.run \in BOOLEAN
                      /\ x.run => /\ x.cmd \in Commands[x.grp] /\ w # <<>>
                                  /\ x.cmd = c.cmd \/ \E i \in DOMAIN w : w[i] = x.cmd
                                  /\ x.cmd = "exit" => \E i \in DOMAIN w : w[i] = "exit"
                      /\ ~x.run => ModeIsCommand(x.grp, x.cmd)
<1>1. c.grp \in {None, "g", "builtin"} /\ c.cmd \in {None, "s"} /\ (c.cmd = "s" => c.grp = "g")
  BY DEF ModeIsCommand
<1>2. argc # 0 => 1 \in DOMAIN w /\ w[1] \in STRING
  OBVIOUS
<1>3. argc > 1 => 2 \in DOMAIN w /\ w[2] \in STRING
  OBVIOUS
<1>4. \A g, cmd : ModeIsCommand(g, cmd) => Good(Mode(g, cmd))
  OBVIOUS
<1>5. ASSUME argc # 0, NEW g \in {None, "g", "builtin"}, NEW i \in DOMAIN w, NEW n
      PROVE  Good(Run(g, FindCommand(g, w[i]), n))
  <2> DEFINE f == FindCommand(g, w[i])
  <2>1. w[i] \in STRING
    BY <1>5
  <2>2. f # None => f \in Commands[g] /\ f = w[i]
    BY <2>1, FindFacts
  <2> HIDE DEF f, Good
  <2>3. CASE f = None
    BY <1>4, <2>3 DEF f
  <2>4. CASE f # None
    <3> DEFINE x == [run |-> TRUE, grp |-> g, cmd |-> f, argc |-> n]
    <3>1. x.run = TRUE /\ x.grp = g /\ x.cmd = f
      OBVIOUS
    <3> HIDE DEF x
    <3>2. Good(x)
      BY <1>5, <2>2, <2>4, <3>1 DEF Good
    <3> QED  BY <2>4, <3>2 DEF f, x
  <2> QED  BY <2>3, <2>4
<1>6. ASSUME argc # 0, c.cmd # None, NEW n PROVE Good(Run(c.grp, c.cmd, n))
  <2>1. c.cmd = "s" /\ c.grp = "g" /\ "s" \in Commands["g"]
    BY <1>1, <1>6 DEF Commands
  <2> QED  BY <1>6, <2>1
<1> SUFFICES Good(m)
  BY DEF Good
<1> HIDE DEF Good, Mode, Run, here, m
<1>7. CASE argc = 0
  <2>1. m = Mode(c.grp, c.cmd)
    BY <1>7 DEF Meaning, m, Mode
  <2>2. ModeIsCommand(c.grp, c.cmd)
    OBVIOUS
  <2> QED  BY <1>4, <2>1, <2>2
<1>8. CASE argc # 0 /\ FindCommand("builtin", w[1]) # None
  <2>1. m = Run("builtin", FindCommand("builtin", w[1]), argc + 1)
    <3>1. w[1] # None /\ FindCommand("builtin", w[1]) = w[1] /\ w[1] \in {"help", "exit"}
      BY <1>2, <1>8, FindFacts DEF Commands
    <3>2. here # "s"
      BY <1>1, <1>2, <1>8, <3>1, FindFacts DEF here, None
    <3> QED  BY <1>8, <3>1, <3>2 DEF Meaning, m, Mode, Run, here, Selectable
  <2>2. "builtin" \in {None, "g", "builtin"}
    OBVIOUS
  <2> QED  BY <1>2, <1>5, <1>8, <2>1, <2>2
<1>9. CASE argc = 1 /\ c.grp = None /\ FindCommand("builtin", w[1]) = None
  <2>1. m = Mode(FindGroup(w[1]), None)
    BY <1>9 DEF Meaning, m, Mode
  <2>2. ModeIsCommand(FindGroup(w[1]), None)
    <3>1. FindGroup(w[1]) \in {None, "g", "builtin"}
      BY FindGroupFacts
    <3> QED  BY <3>1 DEF ModeIsCommand, None
  <2> QED  BY <1>4, <2>1, <2>2
<1>10. CASE argc = 1 /\ c.grp # None /\ c.cmd = None /\ here \in Selectable
            /\ FindCommand("builtin", w[1]) = None
  <2>1. m = Mode(c.grp, here)
    BY <1>10 DEF Meaning, m, Mode, here
  <2>2. ModeIsCommand(c.grp, here)
    BY <1>1, <1>2, <1>10, FindFacts DEF ModeIsCommand, Selectable, here
  <2> QED  BY <1>4, <2>1, <2>2
<1>11. CASE /\ argc # 0 /\ FindCommand("builtin", w[1]) = None
            /\ ~(argc = 1 /\ c.grp = None)
            /\ ~(argc = 1 /\ c.grp # None /\ c.cmd = None /\ here \in Selectable)
  <2>1. m = IF c.grp # None /\ ~Slash(w[1])
            THEN IF c.cmd # None THEN Run(c.grp, c.cmd, argc + 2) ELSE Run(c.grp, here, argc + 1)
            ELSE IF argc > 1 THEN Run(FindGroup(w[1]), FindCommand(FindGroup(w[1]), w[2]), argc)
            ELSE Mode(c.grp, c.cmd)
    BY <1>11 DEF Meaning, m, Mode, Run, here
  <2>2. CASE c.grp # None /\ ~Slash(w[1]) /\ c.cmd # None
    BY <1>6, <1>11, <2>1, <2>2
  <2>3. CASE c.grp # None /\ ~Slash(w[1]) /\ c.cmd = None
    BY <1>1, <1>2, <1>5, <1>11, <2>1, <2>3 DEF here
  <2>4. CASE ~(c.grp # None /\ ~Slash(w[1])) /\ argc > 1
    <3>1. FindGroup(w[1]) \in {None, "g", "builtin"}
      BY FindGroupFacts
    <3> QED  BY <1>3, <1>5, <1>11, <2>1, <2>4, <3>1
  <2>5. CASE ~(c.grp # None /\ ~Slash(w[1])) /\ ~(argc > 1)
    BY <1>4, <2>1, <2>5
  <2> QED  BY <2>2, <2>3, <2>4, <2>5
<1> QED  BY <1>7, <1>8, <1>9, <1>10, <1>11

-----------------------------------------------------------------------------
\* Most steps are about one console.
LEMMA OneConsole ==
    ASSUME Names, ConsoleIInv, NEW k \in Ids, NEW r \in Records,
           consoles' = [consoles EXCEPT ![k] = r], seen' = seen \cup {k},
           running'.console = running.console
               \/ (running.console \in {k, None} /\ running'.console \in {k, None}),
           running.console \in {k, None} \/ running' = running,
           running.console \in {k, None} => Running', Settled(k)',
           k = Datagram /\ running'.console # Datagram => r.link = None,
           \A o \in outputs' : o.to \in {o.asker, None}
    PROVE  ConsoleIInv'
<1> USE DEF ConsoleIInv
<1>1. consoles \in [Ids -> Records] /\ seen \subseteq Ids /\ None \notin Ids
  BY DEF ConsoleTypes, Names
<1>2. ConsoleTypes'
  BY <1>1 DEF ConsoleTypes
<1>3. \A id \in Ids : id # k => consoles'[id] = consoles[id]
  BY <1>1
<1>4. ASSUME NEW id \in seen, id # k PROVE Settled(id)'
  <2>1. id \in Ids /\ consoles'[id] = consoles[id] /\ Settled(id)
    BY <1>1, <1>3, <1>4
  <2>2. id = running.console <=> id = running'.console
    BY <1>1, <1>4, <2>1
  <2> QED  BY <2>1, <2>2 DEF Settled
<1>5. \A id \in seen' : Settled(id)'
  BY <1>4
<1>6. \A id \in Ids : consoles'[id].there => id \in seen'
  BY <1>3
<1>7. /\ Datagram \in seen'
      /\ running'.console # Datagram => consoles'[Datagram].link = None
  <2>1. CASE k = Datagram
    BY <1>1, <2>1
  <2>2. CASE k # Datagram
    BY <1>1, <1>3, <2>2
  <2> QED  BY <2>1, <2>2
<1>8. Running'
  <2>1. CASE running.console \in {k, None}
    BY <2>1
  <2>2. CASE running.console \notin {k, None}
    <3>1. running # Idle /\ running' = running /\ running.console # k
      BY <2>2 DEF Idle
    <3>2. running.console \in seen /\ consoles'[running.console] = consoles[running.console]
      BY <1>1, <1>3, <3>1 DEF Running
    <3> QED  BY <3>1, <3>2 DEF Running
  <2> QED  BY <2>1, <2>2
<1> QED  BY <1>2, <1>5, <1>6, <1>7, <1>8

LEMMA IdleFacts == Idle.console = None
BY DEF Idle

LEMMA ConnectedIInv ==
    ASSUME Names, ConsoleIInv, NEW c \in Streams, Connected(c)
    PROVE  ConsoleIInv'
<1> DEFINE r == SetPrompt([Fresh EXCEPT !.link = c])
<1>0. c \in Ids /\ c \notin seen /\ c # Datagram /\ running.console # c
  BY DEF Connected, Ids, Names, ConsoleIInv, Running, Idle, None
<1>1. r = [there |-> TRUE, busy |-> 0, destroyed |-> FALSE, link |-> c, grp |-> None, cmd |-> None,
           prompt |-> <<None, None>>, stuck |-> FALSE]
  BY DEF SetPrompt, Fresh
<1> HIDE DEF r
<1>2. r \in Records
  BY <1>0, <1>1 DEF Records
<1>3. /\ consoles' = [consoles EXCEPT ![c] = r] /\ seen' = seen \cup {c}
      /\ running' = running /\ outputs' = outputs
  BY DEF Connected, r
<1>4. Settled(c)'
  <2>1. consoles'[c] = r
    BY <1>0, <1>3 DEF ConsoleIInv, ConsoleTypes
  <2> QED  BY <1>0, <1>1, <1>3, <2>1 DEF Settled, ModeIsCommand, None
<1>5. Running'
  <2>1. running.console # None => consoles'[running.console] = consoles[running.console]
    BY <1>0, <1>3 DEF ConsoleIInv, ConsoleTypes, Running, Idle
  <2>2. running # Idle => running.console \in seen /\ running.console # None
    BY DEF ConsoleIInv, Running, ConsoleTypes, Names
  <2> QED  BY <1>3, <2>1, <2>2 DEF ConsoleIInv, Running
<1>6. \A o \in outputs' : o.to \in {o.asker, None}
  BY <1>3 DEF ConsoleIInv
<1> QED  BY <1>0, <1>2, <1>3, <1>4, <1>5, <1>6, OneConsole

LEMMA PeerClosedIInv ==
    ASSUME Names, ConsoleIInv, NEW c \in Streams, NEW error \in BOOLEAN, PeerClosed(c, error)
    PROVE  ConsoleIInv'
<1> DEFINE link == IF error THEN "failed" ELSE None
           r == [consoles[c] EXCEPT !.link = link]
<1>0. /\ c \in Ids /\ c # Datagram /\ running = Idle /\ consoles[c].there /\ c \in seen
      /\ consoles[c] \in Records
  BY DEF PeerClosed, Ids, Names, ConsoleIInv, ConsoleTypes
<1>1. r \in Records
  BY <1>0 DEF Records
<1>2. /\ consoles' = [consoles EXCEPT ![c] = r] /\ seen' = seen \cup {c}
      /\ running' = running /\ outputs' = outputs
  BY <1>0 DEF PeerClosed
<1>3. Settled(c) /\ running.console # c
  BY <1>0, IdleFacts DEF ConsoleIInv, Names
<1>4. Settled(c)'
  <2>1. consoles'[c] = r
    BY <1>0, <1>2 DEF ConsoleIInv, ConsoleTypes
  <2>2. /\ r.there = consoles[c].there /\ r.destroyed = consoles[c].destroyed
        /\ r.prompt = consoles[c].prompt /\ r.grp = consoles[c].grp /\ r.cmd = consoles[c].cmd
        /\ r.busy = consoles[c].busy
    BY <1>0 DEF Records
  <2> QED  BY <1>0, <1>2, <1>3, <2>1, <2>2 DEF Settled
<1>5. Running'
  BY <1>0, <1>2 DEF Running
<1>6. \A o \in outputs' : o.to \in {o.asker, None}
  BY <1>2 DEF ConsoleIInv
<1> QED  BY <1>0, <1>1, <1>2, <1>4, <1>5, <1>6, OneConsole

\* A line that is read: its command runs on the console, or its mode changes.
LEMMA InputIInv ==
    ASSUME Names, ConsoleIInv, NEW id \in Ids, NEW asker \in Streams \cup Peers, NEW w \in TypedLines,
           NEW quote \in BOOLEAN, Input(id, asker, w, quote)
    PROVE  ConsoleIInv'
<1> USE DEF ConsoleIInv
<1> DEFINE old == consoles[id]
           stuck == old.stuck \/ quote
           link == IF old.link = None THEN asker ELSE old.link
           c == [old EXCEPT !.stuck = stuck, !.link = link]
           argc == IF stuck THEN -1 ELSE Len(w)
           m == Meaning(c, w, argc)
<1>1. /\ running = Idle /\ old.there /\ old \in Records /\ id \in seen /\ Settled(id)
      /\ outputs' = outputs /\ seen' = seen /\ running.console = None
      /\ IF id = Datagram THEN asker \in Peers ELSE asker = id /\ old.link = id
      /\ argc # 0 => w # <<>>
  <2>1. /\ running = Idle /\ old.there /\ outputs' = outputs /\ seen' = seen
        /\ IF id = Datagram THEN asker \in Peers ELSE asker = id /\ old.link = id
        /\ argc # 0 => w # <<>>
    BY DEF Input
  <2> QED  BY <2>1, IdleFacts DEF ConsoleTypes
<1>2. ~old.destroyed /\ old.busy = 0 /\ ModeIsCommand(old.grp, old.cmd)
  <2>1. id # running.console
    BY <1>1 DEF Names
  <2> QED  BY <1>1, <2>1 DEF Settled
<1>3. link = asker /\ link \in Ids \cup Peers \cup {None, "failed"}
  <2>1. id = Datagram => old.link = None
    BY <1>1, IdleFacts DEF Names, Ids
  <2> QED  BY <1>1, <2>1 DEF Ids, Names
<1>4. /\ c \in Records /\ c.grp = old.grp /\ c.cmd = old.cmd /\ c.busy = 0 /\ c.there /\ ~c.destroyed
      /\ c.link = asker /\ c.stuck \in BOOLEAN
  <2>1. stuck \in BOOLEAN
    BY <1>1 DEF Records
  <2> HIDE DEF stuck, link
  <2> QED  BY <1>1, <1>2, <1>3, <2>1 DEF Records
<1>5. w \in Seq(STRING) /\ argc \in Int /\ (argc > 1 => Len(w) = argc)
  <2>1. w \in Seq(STRING)
    BY DEF Names
  <2> QED  BY <2>1
<1>6. /\ m.run => /\ m.cmd \in Commands[m.grp] /\ w # <<>>
                  /\ m.cmd = c.cmd \/ \E i \in DOMAIN w : w[i] = m.cmd
                  /\ m.cmd = "exit" => \E i \in DOMAIN w : w[i] = "exit"
      /\ ~m.run => ModeIsCommand(m.grp, m.cmd)
      /\ m.run \in BOOLEAN
  <2> HIDE DEF c, argc
  <2>1. ModeIsCommand(c.grp, c.cmd)
    BY <1>2, <1>4
  <2> QED  BY <1>1, <1>5, <2>1, MeaningFacts
<1>7. IF m.run
      THEN /\ consoles' = [consoles EXCEPT ![id] = [c EXCEPT !.busy = 2]]
           /\ running' = [console |-> id, asker |-> asker, grp |-> m.grp, cmd |-> m.cmd,
                          argc |-> m.argc, words |-> w, ran |-> FALSE]
      ELSE /\ consoles' = [consoles EXCEPT ![id] =
                              InputEnds(id, SetPrompt([c EXCEPT !.grp = m.grp, !.cmd = m.cmd]))]
           /\ running' = running
  BY DEF Input
<1> HIDE DEF m, c
<1>8. CASE m.run
  <2> DEFINE r == [c EXCEPT !.busy = 2]
  <2>1. /\ r \in Records /\ r.grp = c.grp /\ r.cmd = c.cmd /\ r.busy = 2 /\ r.there
        /\ ~r.destroyed /\ r.link = asker
    BY <1>4 DEF Records
  <2> HIDE DEF r
  <2>2. consoles' = [consoles EXCEPT ![id] = r] /\ consoles'[id] = r
    BY <1>7, <1>8 DEF r, ConsoleTypes
  <2>3. /\ running'.console = id /\ running'.asker = asker /\ running'.grp = m.grp
        /\ running'.cmd = m.cmd /\ running'.words = w
    BY <1>7, <1>8
  <2>4. Running'
    BY <1>1, <1>4, <1>5, <1>6, <1>8, <2>1, <2>2, <2>3 DEF Running
  <2>5. Settled(id)'
    BY <1>2, <1>4, <2>1, <2>2, <2>3 DEF Settled
  <2>6. seen' = seen \cup {id}
    BY <1>1
  <2> QED
    BY <1>1, <2>1, <2>2, <2>3, <2>4, <2>5, <2>6, OneConsole
<1>9. CASE ~m.run
  <2> DEFINE s == [c EXCEPT !.grp = m.grp, !.cmd = m.cmd]
             p == [s EXCEPT !.prompt = <<s.grp, s.cmd>>]
             r == IF id = Datagram THEN [p EXCEPT !.link = None] ELSE p
  <2>0. m.grp \in {None, "g", "builtin"} /\ m.cmd \in {None, "s"} /\ ModeIsCommand(m.grp, m.cmd)
    BY <1>6, <1>9 DEF ModeIsCommand
  <2>1. /\ s \in Records /\ s.grp = m.grp /\ s.cmd = m.cmd /\ s.busy = 0 /\ s.there /\ ~s.destroyed
    BY <1>4, <2>0 DEF Records
  <2> HIDE DEF s
  <2>2. /\ p \in Records /\ p.grp = m.grp /\ p.cmd = m.cmd /\ p.busy = 0 /\ p.there /\ ~p.destroyed
        /\ p.prompt = <<m.grp, m.cmd>>
    BY <2>0, <2>1 DEF Records
  <2>3. SetPrompt(s) = p
    BY <2>1 DEF SetPrompt
  <2> HIDE DEF p
  <2>4. /\ r \in Records /\ r.grp = m.grp /\ r.cmd = m.cmd /\ r.busy = 0 /\ r.there /\ ~r.destroyed
        /\ r.prompt = <<m.grp, m.cmd>> /\ (id = Datagram => r.link = None)
    BY <2>2 DEF Records
  <2>5. consoles' = [consoles EXCEPT ![id] = r] /\ running' = running
    BY <1>7, <1>9, <2>3 DEF InputEnds, Forget, s
  <2> HIDE DEF r
  <2>6. consoles'[id] = r
    BY <2>5 DEF ConsoleTypes
  <2>7. Settled(id)'
    BY <1>1, <2>0, <2>4, <2>5, <2>6 DEF Settled, Names
  <2>8. Running'
    BY <1>1, <2>5 DEF Running
  <2>9. seen' = seen \cup {id}
    BY <1>1
  <2> QED
    BY <1>1, <2>4, <2>5, <2>7, <2>8, <2>9, OneConsole
<1> QED  BY <1>6, <1>8, <1>9

LEMMA WriteIInv == ASSUME Names, ConsoleIInv, Write PROVE ConsoleIInv'
<1> USE DEF ConsoleIInv
<1>1. /\ running # Idle /\ UNCHANGED <<consoles, running, seen>>
      /\ outputs' = outputs \cup {[asker |-> running.asker, to |-> consoles[running.console].link]}
  BY DEF Write
<1>2. consoles[running.console].link \in {running.asker, None}
  BY <1>1 DEF Running
<1>3. \A o \in outputs' : o.to \in {o.asker, None}
  BY <1>1, <1>2
<1> QED  BY <1>1, <1>3 DEF ConsoleTypes, Running, Settled

\* exit takes away the command, the group or the console, and frees nothing.
LEMMA ExitIInv == ASSUME Names, ConsoleIInv, Exit PROVE ConsoleIInv'
<1> SUFFICES ASSUME NEW k, k = running.console PROVE ConsoleIInv'
  OBVIOUS
<1> USE DEF ConsoleIInv
<1> DEFINE c == consoles[k]
           r == Exited(k, c)
<1>1. /\ running.cmd = "exit" /\ running' = [running EXCEPT !.ran = TRUE]
      /\ consoles' = [consoles EXCEPT ![k] = r] /\ outputs' = outputs /\ seen' = seen
  BY DEF Exit
<1>2. running # Idle
  BY <1>1 DEF Idle, None
<1>3. /\ k \in seen /\ k \in Ids /\ c \in Records /\ c.there /\ c.busy = 2 /\ Settled(k)
      /\ c.link \in {running.asker, None}
      /\ running.cmd \in Commands[running.grp] /\ running.words \in Seq(STRING) /\ running.words # <<>>
      /\ \E i \in DOMAIN running.words : running.words[i] = "exit"
  BY <1>1, <1>2 DEF Running, ConsoleTypes
<1>4. c.destroyed => c.link = None
  BY <1>3 DEF Settled
<1>5. ModeIsCommand(c.grp, c.cmd)
  BY <1>3 DEF Settled
<1> HIDE DEF c
<1> DEFINE Ok(x) == /\ x \in Records /\ x.there /\ x.busy = 2 /\ x.link \in {c.link, None}
                    /\ x.destroyed => x.link = None
                    /\ ModeIsCommand(x.grp, x.cmd)
<1>6. Ok(c)
  BY <1>3, <1>4, <1>5
<1>7. Ok([c EXCEPT !.cmd = None])
  BY <1>3, <1>4, <1>5 DEF Records, ModeIsCommand, None
<1>8. c.cmd = None => Ok([c EXCEPT !.grp = None])
  BY <1>3, <1>4, <1>5 DEF Records, ModeIsCommand, None
<1>9. Ok(DestroyConsole(k, c))
  <2> DEFINE d == [c EXCEPT !.destroyed = k # Datagram, !.link = None]
             x == [d EXCEPT !.there = TRUE]
  <2>1. d \in Records /\ d.busy = 2 /\ d.link = None /\ d.grp = c.grp /\ d.cmd = c.cmd
    BY <1>3 DEF Records
  <2> HIDE DEF d
  <2>2. x \in Records /\ x.busy = 2 /\ x.link = None /\ x.grp = c.grp /\ x.cmd = c.cmd /\ x.there
    BY <2>1 DEF Records
  <2>3. DestroyConsole(k, c) = x
    <3>1. DestroyConsole(k, c) = [d EXCEPT !.there = ~(d.destroyed /\ d.busy = 0)]
      BY DEF DestroyConsole, Purge, d
    <3>2. ~(d.destroyed /\ d.busy = 0) = TRUE
      BY <2>1
    <3> QED  BY <3>1, <3>2
  <2> HIDE DEF x
  <2> QED  BY <1>5, <2>2, <2>3
<1> HIDE DEF Ok
<1>10. Ok(r)
  BY <1>6, <1>7, <1>8, <1>9 DEF Exited
<1> HIDE DEF r
<1>11. /\ r \in Records /\ r.there /\ r.busy = 2 /\ r.link \in {c.link, None}
       /\ r.destroyed => r.link = None
       /\ ModeIsCommand(r.grp, r.cmd)
  BY <1>10 DEF Ok
<1>12. /\ running'.console = k /\ running'.asker = running.asker /\ running'.cmd = running.cmd
       /\ running'.words = running.words /\ running'.grp = running.grp
  BY <1>1, <1>2 DEF Exit
<1>13. consoles'[k] = r
  BY <1>1, <1>3 DEF ConsoleTypes
<1>14. Running'
  BY <1>1, <1>3, <1>11, <1>12, <1>13 DEF Running
<1>15. Settled(k)'
  BY <1>11, <1>12, <1>13 DEF Settled
<1>16. k = Datagram /\ running'.console # Datagram => r.link = None
  BY <1>12
<1>17. seen' = seen \cup {k}
  BY <1>1, <1>3
<1> QED  BY <1>1, <1>3, <1>11, <1>12, <1>14, <1>15, <1>16, <1>17, OneConsole

\* When the command returns, a console that it destroyed is freed.
LEMMA ReturnedIInv == ASSUME Names, ConsoleIInv, Returned PROVE ConsoleIInv'
<1> SUFFICES ASSUME NEW k, k = running.console PROVE ConsoleIInv'
  OBVIOUS
<1> USE DEF ConsoleIInv
<1> DEFINE c == consoles[k]
           b == [c EXCEPT !.busy = 0]
           p == IF b.destroyed THEN b ELSE [b EXCEPT !.prompt = <<b.grp, b.cmd>>]
           q == [p EXCEPT !.there = ~(p.destroyed /\ p.busy = 0)]
           r == IF k = Datagram THEN [q EXCEPT !.link = None] ELSE q
<1>1. /\ running # Idle /\ running' = Idle /\ outputs' = outputs /\ seen' = seen
      /\ consoles' = [consoles EXCEPT ![k] = r]
  BY DEF Returned, InputEnds, Forget, Purge, SetPrompt
<1>2. k \in seen /\ k \in Ids /\ c \in Records /\ Settled(k)
  BY <1>1 DEF Running, ConsoleTypes
<1>3. (c.destroyed => c.link = None) /\ ModeIsCommand(c.grp, c.cmd)
  BY <1>2 DEF Settled
<1> HIDE DEF c
<1>4. /\ b \in Records /\ b.busy = 0 /\ b.grp = c.grp /\ b.cmd = c.cmd /\ b.destroyed = c.destroyed
      /\ b.link = c.link
  BY <1>2 DEF Records
<1> HIDE DEF b
<1>5. /\ p \in Records /\ p.busy = 0 /\ p.grp = c.grp /\ p.cmd = c.cmd /\ p.destroyed = c.destroyed
      /\ p.link = c.link /\ (p.destroyed \/ p.prompt = <<p.grp, p.cmd>>)
  BY <1>4 DEF Records
<1> HIDE DEF p
<1>6. /\ q \in Records /\ q.busy = 0 /\ q.grp = c.grp /\ q.cmd = c.cmd /\ q.destroyed = c.destroyed
      /\ q.link = c.link /\ (q.destroyed \/ q.prompt = <<q.grp, q.cmd>>) /\ (q.there <=> ~q.destroyed)
  BY <1>5 DEF Records
<1> HIDE DEF q
<1>7. /\ r \in Records /\ r.busy = 0 /\ r.grp = c.grp /\ r.cmd = c.cmd /\ r.destroyed = c.destroyed
      /\ r.link \in {c.link, None} /\ (r.destroyed \/ r.prompt = <<r.grp, r.cmd>>)
      /\ (r.there <=> ~r.destroyed) /\ (k = Datagram => r.link = None)
  BY <1>6 DEF Records
<1> HIDE DEF r
<1>8. consoles'[k] = r
  BY <1>1, <1>2 DEF ConsoleTypes
<1>9. running'.console = None /\ k # None
  BY <1>1, <1>2, IdleFacts DEF Names
<1>10. Settled(k)'
  BY <1>3, <1>7, <1>8, <1>9 DEF Settled
<1>11. Running'
  BY <1>1 DEF Running
<1>12. seen' = seen \cup {k}
  BY <1>1, <1>2
<1> QED  BY <1>1, <1>2, <1>7, <1>9, <1>10, <1>11, <1>12, OneConsole

LEMMA CleanupIInv == ASSUME Names, ConsoleIInv, Cleanup PROVE ConsoleIInv'
<1> USE DEF ConsoleIInv
<1>1. /\ running = Idle /\ running' = running /\ outputs' = outputs /\ seen' = seen
      /\ running.console = None /\ None \notin Ids
      /\ consoles' = [c \in Ids |-> IF consoles[c].there THEN DestroyConsole(c, consoles[c])
                                                         ELSE consoles[c]]
  BY IdleFacts DEF Cleanup, Names
<1>2. ASSUME NEW c \in Ids
      PROVE  /\ consoles'[c] \in Records /\ (consoles'[c].there => c \in seen)
             /\ c \in seen => Settled(c)'
             /\ c = Datagram => consoles'[c].link = None
  <2> DEFINE o == consoles[c]
             d == [o EXCEPT !.destroyed = c # Datagram, !.link = None]
             x == [d EXCEPT !.there = ~(d.destroyed /\ d.busy = 0)]
  <2>1. o \in Records /\ (o.there => c \in seen) /\ (c = Datagram => o.link = None /\ c \in seen)
    BY <1>1, IdleFacts DEF ConsoleTypes, Names
  <2>2. c \in seen => Settled(c) /\ c # running.console
    BY <1>1
  <2>3. CASE o.there
    <3>1. /\ ModeIsCommand(o.grp, o.cmd) /\ o.prompt = <<o.grp, o.cmd>> /\ o.busy = 0
      BY <2>1, <2>2, <2>3 DEF Settled
    <3>2. consoles'[c] = x
      BY <1>1, <2>3 DEF DestroyConsole, Purge
    <3> HIDE DEF o
    <3>3. /\ d \in Records /\ d.busy = 0 /\ d.link = None /\ d.grp = o.grp /\ d.cmd = o.cmd
          /\ d.prompt = o.prompt
      BY <2>1, <3>1 DEF Records
    <3> HIDE DEF d
    <3>4. /\ x \in Records /\ x.busy = 0 /\ x.link = None /\ x.grp = o.grp /\ x.cmd = o.cmd
          /\ x.prompt = o.prompt /\ (x.there <=> ~x.destroyed)
      BY <3>3 DEF Records
    <3> HIDE DEF x
    <3>5. Settled(c)'
      BY <1>1, <3>1, <3>2, <3>4 DEF Settled
    <3> QED  BY <2>1, <2>3, <3>2, <3>4, <3>5
  <2>4. CASE ~o.there
    <3>1. consoles'[c] = o
      BY <1>1, <2>4
    <3> HIDE DEF o
    <3>2. c \in seen => Settled(c)'
      BY <1>1, <2>2, <3>1 DEF Settled, o
    <3> QED  BY <2>1, <3>1, <3>2
  <2> QED  BY <2>3, <2>4
<1>3. consoles' \in [Ids -> Records] /\ seen \subseteq Ids
  BY <1>1, <1>2 DEF ConsoleTypes
<1> QED  BY <1>1, <1>2, <1>3 DEF ConsoleTypes, Running

\* However streams come and go, whatever is typed and wherever exit is: no
\* console is freed under a command or kept when it is closed and idle, an
\* idle one shows the mode it is in, commands are of the group they run in
\* and output reaches who asked for it, or nobody.
THEOREM ConsolesSound == ConsoleSpec => []ConsolesAreSound
<1>1. ConsoleInit => ConsoleIInv
  BY ConsoleInitIInv, ConsoleAssumption
<1>2. ConsoleIInv /\ [ConsoleNext]_consoleVars => ConsoleIInv'
  <2> SUFFICES ASSUME ConsoleIInv, [ConsoleNext]_consoleVars PROVE ConsoleIInv'
    OBVIOUS
  <2>1. CASE \E c \in Streams, error \in BOOLEAN : Connected(c) \/ PeerClosed(c, error)
    BY <2>1, ConnectedIInv, PeerClosedIInv, ConsoleAssumption
  <2>2. CASE \E id \in Ids, asker \in Streams \cup Peers, w \in TypedLines, quote \in BOOLEAN :
                 Input(id, asker, w, quote)
    BY <2>2, InputIInv, ConsoleAssumption
  <2>3. CASE Write \/ Exit \/ Returned \/ Cleanup
    BY <2>3, WriteIInv, ExitIInv, ReturnedIInv, CleanupIInv, ConsoleAssumption
  <2>4. CASE AddGroup \/ DelGroup \/ UNCHANGED consoleVars
    <3>1. UNCHANGED <<consoles, running, outputs, seen>>
      BY <2>4 DEF AddGroup, DelGroup, consoleVars
    <3> QED  BY <3>1 DEF ConsoleIInv, ConsoleTypes, Running, Settled
  <2> QED  BY <2>1, <2>2, <2>3, <2>4 DEF ConsoleNext
<1>3. ConsoleIInv => ConsolesAreSound
  <2> SUFFICES ASSUME ConsoleIInv PROVE ConsolesAreSound
    OBVIOUS
  <2>1. \A id \in seen : LET c == consoles[id] IN
          /\ c.there <=> ~(c.destroyed /\ id # running.console)
          /\ c.destroyed => c.link = None
          /\ c.there /\ id # running.console => c.prompt = <<c.grp, c.cmd>> /\ c.busy = 0
          /\ c.grp = None => c.cmd = None
    BY DEF ConsoleIInv, Settled, ModeIsCommand, None
  <2>2. running # Idle => LET c == consoles[running.console] IN
          /\ running.cmd \in Commands[running.grp]
          /\ \E i \in DOMAIN running.words : running.words[i] = running.cmd \/ running.cmd = c.cmd
    <3> SUFFICES ASSUME running # Idle
                 PROVE  /\ running.cmd \in Commands[running.grp]
                        /\ \E i \in DOMAIN running.words : running.words[i] = running.cmd
                               \/ running.cmd = consoles[running.console].cmd
      OBVIOUS
    <3>1. /\ running.cmd \in Commands[running.grp] /\ running.words \in Seq(STRING) /\ running.words # <<>>
          /\ running.cmd = consoles[running.console].cmd
                 \/ \E i \in DOMAIN running.words : running.words[i] = running.cmd
      BY DEF ConsoleIInv, Running
    <3>2. 1 \in DOMAIN running.words
      BY <3>1
    <3> QED  BY <3>1, <3>2
  <2> QED  BY <2>1, <2>2 DEF ConsoleIInv, ConsolesAreSound
<1> QED  BY <1>1, <1>2, <1>3, PTL DEF ConsoleSpec

------------------------------------------------------------------------------
(* Datagrams.  The inductive invariant orders what waits in the socket      *)
(* after what was heard, but for a datagram too short to be taken, which is *)
(* heard of again and again and blocks the ones behind it; counts the one   *)
(* callback that can run; and ties each datagram that waits to the peer it  *)
(* will be reported for.                                                    *)

Datagrams == [id : Nat, from : DgramPeers, form : Forms]
Transports == [there : BOOLEAN, connected : BOOLEAN, busy : Nat, destroyed : BOOLEAN]
Heard == [cb : {"recvmsg", "recvmsgfrom", "closed"}, id : Nat,
          from : SUBSET DgramPeers, peer : SUBSET DgramPeers]

DgramTypes == /\ t \in Transports /\ sock \in BOOLEAN /\ arrived \in Nat
              /\ inbox \in Seq(Datagrams) /\ heard \in Seq(Heard)
              /\ kernel \subseteq DgramPeers /\ peer \subseteq DgramPeers

Waiting == /\ \A i \in 1 .. Len(inbox) : inbox[i].id <= arrived
           /\ \A i, j \in 1 .. Len(inbox) : i < j => inbox[i].id < inbox[j].id
           /\ \A i \in 1 .. Len(inbox) : t.connected /\ inbox[i].id \notin early => {inbox[i].from} = peer
           /\ kernel = {} \/ kernel = peer
           /\ t.destroyed => inbox = <<>>

Told == /\ \A i \in 1 .. Len(heard) : heard[i].id <= arrived
        /\ \A i \in 1 .. Len(heard), j \in 1 .. Len(inbox) :
               heard[i].id < inbox[j].id \/ (j = 1 /\ inbox[1].form = "short" /\ heard[i].id = inbox[1].id)

Busy == /\ hearing = Quiet => t.busy = 0
        /\ hearing # Quiet => t.busy = 1 /\ hearing.cb # "none"

Ordered == \A i, j \in 1 .. Len(heard) : i < j /\ heard[j].cb # "closed" => heard[i].id < heard[j].id

FromPeer == \A i \in 1 .. Len(heard) :
                heard[i].cb = "recvmsg" /\ heard[i].from # heard[i].peer => heard[i].id \in early

Alive == /\ t.there <=> ~(t.destroyed /\ hearing = Quiet)
         /\ t.destroyed => ~sock
         /\ t.there /\ ~broken => kernel = peer \/ t.destroyed

DgramIInv == DgramTypes /\ Waiting /\ Told /\ Busy /\ Ordered /\ FromPeer /\ Alive

LEMMA DgramTypeFacts ==
    ASSUME DgramTypes
    PROVE  /\ Len(inbox) \in Nat /\ Len(heard) \in Nat
           /\ DOMAIN inbox = 1 .. Len(inbox) /\ DOMAIN heard = 1 .. Len(heard)
           /\ \A i \in 1 .. Len(inbox) : inbox[i] \in Datagrams /\ inbox[i].id \in Nat
           /\ \A i \in 1 .. Len(heard) : heard[i] \in Heard /\ heard[i].id \in Nat
<1>1. /\ Len(inbox) \in Nat /\ Len(heard) \in Nat
      /\ DOMAIN inbox = 1 .. Len(inbox) /\ DOMAIN heard = 1 .. Len(heard)
      /\ \A i \in 1 .. Len(inbox) : inbox[i] \in Datagrams
      /\ \A i \in 1 .. Len(heard) : heard[i] \in Heard
  BY DEF DgramTypes
<1>2. \A d \in Datagrams : d.id \in Nat
  BY DEF Datagrams
<1>3. \A h \in Heard : h.id \in Nat
  BY DEF Heard
<1> QED  BY <1>1, <1>2, <1>3

LEMMA DgramInitIInv == DgramInit => DgramIInv
<1> SUFFICES ASSUME DgramInit PROVE DgramIInv
  OBVIOUS
<1>1. t \in Transports /\ t.there /\ ~t.connected /\ t.busy = 0 /\ ~t.destroyed
  BY DEF DgramInit, Transports
<1>2. /\ sock = FALSE /\ kernel = {} /\ peer = {} /\ inbox = <<>> /\ hearing = Quiet
      /\ arrived = 0 /\ heard = <<>>
  BY DEF DgramInit
<1>3. DgramTypes
  <2>1. inbox \in Seq(Datagrams) /\ heard \in Seq(Heard)
    BY <1>2
  <2> QED  BY <1>1, <1>2, <2>1 DEF DgramTypes
<1>4. Len(inbox) = 0 /\ Len(heard) = 0
  BY <1>2
<1> QED  BY <1>1, <1>2, <1>3, <1>4 DEF DgramIInv, Waiting, Told, Busy, Ordered, FromPeer, Alive

\* What arrives is behind all that waits, and from the peer if there is one.
LEMMA ArriveIInv ==
    ASSUME DgramIInv, NEW from \in DgramPeers, NEW form \in Forms, Arrive(from, form)
    PROVE  DgramIInv'
<1> USE DEF DgramIInv
<1> DEFINE d == [id |-> arrived + 1, from |-> from, form |-> form]
<1>1. /\ sock /\ arrived' = arrived + 1 /\ arrived \in Nat
      /\ UNCHANGED <<t, sock, kernel, peer, hearing, calls, heard, broken>>
      /\ early' = IF kernel = {} THEN early \cup {arrived + 1} ELSE early
  BY DEF Arrive, DgramTypes
<1>2. CASE ~(kernel \subseteq {from})
  <2>1. inbox' = inbox
    BY <1>2 DEF Arrive
  <2>2. DgramTypes'
    BY <1>1, <2>1 DEF DgramTypes
  <2>3. \A i \in 1 .. Len(inbox) : inbox[i].id <= arrived'
    BY <1>1, DgramTypeFacts DEF Waiting
  <2>4. \A i \in 1 .. Len(heard) : heard[i].id <= arrived'
    BY <1>1, DgramTypeFacts DEF Told
  <2>5. Waiting'
    BY <1>1, <2>1, <2>3 DEF Waiting
  <2>6. Told'
    BY <1>1, <2>1, <2>4 DEF Told
  <2> QED  BY <1>1, <2>2, <2>5, <2>6 DEF Busy, Ordered, FromPeer, Alive
<1>3. CASE kernel \subseteq {from}
  <2>1. inbox' = Append(inbox, d) /\ d \in Datagrams
    BY <1>1, <1>3 DEF Arrive, Datagrams
  <2>2. /\ inbox' \in Seq(Datagrams) /\ Len(inbox) \in Nat /\ Len(inbox') = Len(inbox) + 1
        /\ \A i \in 1 .. Len(inbox) : inbox'[i] = inbox[i] /\ inbox[i].id \in Nat
        /\ inbox'[Len(inbox) + 1] = d
    <3>1. inbox \in Seq(Datagrams)
      BY DEF DgramTypes
    <3> HIDE DEF d
    <3>2. /\ inbox' \in Seq(Datagrams) /\ Len(inbox') = Len(inbox) + 1
          /\ \A i \in 1 .. Len(inbox) : inbox'[i] = inbox[i]
          /\ inbox'[Len(inbox) + 1] = d
      BY <2>1, <3>1
    <3> QED  BY <3>2, DgramTypeFacts
  <2>3. d.id = arrived + 1 /\ d.from = from
    OBVIOUS
  <2> HIDE DEF d
  <2>4. DgramTypes'
    BY <1>1, <2>2 DEF DgramTypes
  <2>5. \A i \in 1 .. Len(inbox) + 1 : inbox'[i].id <= arrived'
    <3>1. \A i \in 1 .. Len(inbox) : inbox'[i].id <= arrived'
      BY <1>1, <2>2 DEF Waiting
    <3> QED  BY <1>1, <2>2, <2>3, <3>1
  <2>6. ASSUME NEW i \in 1 .. Len(inbox) + 1, NEW j \in 1 .. Len(inbox) + 1, i < j
        PROVE  inbox'[i].id < inbox'[j].id
    <3>1. i \in 1 .. Len(inbox) /\ inbox'[i] = inbox[i] /\ inbox[i].id \in Nat /\ inbox[i].id <= arrived
      BY <2>2, <2>6 DEF Waiting
    <3>2. CASE j = Len(inbox) + 1
      BY <1>1, <2>2, <2>3, <3>1, <3>2
    <3>3. CASE j # Len(inbox) + 1
      <4>1. j \in 1 .. Len(inbox) /\ inbox'[j] = inbox[j]
        BY <2>2, <3>3
      <4> QED  BY <2>6, <3>1, <4>1 DEF Waiting
    <3> QED  BY <3>2, <3>3
  <2>7. t.connected /\ arrived + 1 \notin early' => {from} = peer
    BY <1>1, <1>3 DEF Waiting
  <2>8. \A i \in 1 .. Len(inbox) + 1 : t'.connected /\ inbox'[i].id \notin early' => {inbox'[i].from} = peer'
    BY <1>1, <2>2, <2>3, <2>7 DEF Waiting
  <2>9. ~t.destroyed
    BY <1>1 DEF Alive
  <2>10. Waiting'
    BY <1>1, <2>2, <2>5, <2>6, <2>8, <2>9 DEF Waiting
  <2>11. Told'
    <3>1. \A i \in 1 .. Len(heard) : heard[i].id \in Nat /\ heard[i].id < arrived + 1
      BY <1>1, DgramTypeFacts DEF Told
    <3>2. \A i \in 1 .. Len(heard) : heard[i].id <= arrived'
      BY <1>1, <3>1
    <3>3. ASSUME NEW i \in 1 .. Len(heard), NEW j \in 1 .. Len(inbox)
          PROVE  heard[i].id < inbox'[j].id
                 \/ (j = 1 /\ inbox'[1].form = "short" /\ heard[i].id = inbox'[1].id)
      BY <2>2 DEF Told
    <3> QED  BY <1>1, <2>2, <2>3, <3>1, <3>2, <3>3 DEF Told
  <2> QED  BY <1>1, <2>4, <2>10, <2>11 DEF Busy, Ordered, FromPeer, Alive
<1> QED  BY <1>2, <1>3

\* The calls of the client, whether a callback of the transport runs or not.
LEMMA CallIInv ==
    ASSUME DgramIInv, Bind \/ (\E p \in DgramPeers : Connect(p)) \/ Disconnect \/ Destroy \/ SendTo
    PROVE  DgramIInv'
<1> USE DEF DgramIInv
<1>0. /\ t.there /\ ~t.destroyed /\ UNCHANGED <<hearing, arrived, heard>>
  BY DEF Bind, Connect, Disconnect, Destroy, SendTo, MayCall
<1>1. Ordered' /\ (\A i \in 1 .. Len(heard) : heard[i].id <= arrived)
  BY <1>0 DEF Ordered, Told
<1>2. CASE Bind
  BY <1>0, <1>1, <1>2 DEF Bind, DgramTypes, Waiting, Told, Busy, FromPeer, Alive
<1>3. CASE SendTo
  <2>1. t' = t
    BY <1>0, <1>3 DEF SendTo, PurgeDestroyed, DgramTypes, Transports
  <2> QED  BY <1>0, <1>1, <1>3, <2>1 DEF SendTo, DgramTypes, Waiting, Told, Busy, FromPeer, Alive
<1>4. ASSUME NEW p \in DgramPeers, Connect(p) PROVE DgramIInv'
  <2>1. t' = [t EXCEPT !.connected = TRUE] /\ t' \in Transports
    BY <1>0, <1>4 DEF Connect, PurgeDestroyed, DgramTypes, Transports
  <2>2. /\ t'.there = t.there /\ t'.busy = t.busy /\ t'.destroyed = t.destroyed
    BY <2>1 DEF DgramTypes, Transports
  <2>3. /\ sock' = TRUE /\ kernel' = {p} /\ peer' = {p} /\ inbox' = inbox /\ broken' = broken
        /\ early' = early \cup {inbox[i].id : i \in DOMAIN inbox}
    BY <1>4 DEF Connect
  <2>4. DgramTypes' /\ Told'
    BY <1>0, <2>1, <2>3 DEF DgramTypes, Told
  <2>5. \A i \in 1 .. Len(inbox) : inbox[i].id \in early'
    BY <2>3 DEF DgramTypes
  <2>6. Waiting'
    BY <1>0, <2>2, <2>3, <2>5 DEF Waiting
  <2>7. FromPeer'
    BY <1>0, <2>3 DEF FromPeer
  <2> QED  BY <1>0, <1>1, <2>2, <2>3, <2>4, <2>6, <2>7 DEF Busy, Alive
<1>5. CASE Disconnect
  <2>1. t' = [t EXCEPT !.connected = FALSE] /\ t' \in Transports
    BY <1>0, <1>5 DEF Disconnect, PurgeDestroyed, DgramTypes, Transports
  <2>2. /\ t'.there = t.there /\ t'.busy = t.busy /\ t'.destroyed = t.destroyed /\ ~t'.connected
    BY <2>1 DEF DgramTypes, Transports
  <2>3. kernel' = {} /\ peer' = {} /\ UNCHANGED <<sock, inbox, early>>
    BY <1>5 DEF Disconnect
  <2> QED
    BY <1>0, <1>1, <2>1, <2>2, <2>3 DEF DgramTypes, Waiting, Told, Busy, FromPeer, Alive
<1>6. CASE Destroy
  <2>1. /\ t' = [t EXCEPT !.destroyed = TRUE, !.there = (hearing # Quiet)]
        /\ t' \in Transports
    <3>1. t \in Transports /\ (t.busy = 0 <=> hearing = Quiet)
      BY DEF DgramTypes, Busy
    <3>2. t' = [[t EXCEPT !.destroyed = TRUE] EXCEPT !.there =
                    ~([t EXCEPT !.destroyed = TRUE].destroyed /\ [t EXCEPT !.destroyed = TRUE].busy = 0)]
      BY <1>6 DEF Destroy, PurgeDestroyed
    <3> QED  BY <3>1, <3>2 DEF Transports
  <2>2. /\ t'.there <=> hearing # Quiet
        /\ t'.busy = t.busy /\ t'.destroyed
    BY <2>1 DEF DgramTypes, Transports
  <2>3. sock' = FALSE /\ kernel' = {} /\ inbox' = <<>> /\ UNCHANGED <<peer, early>>
    BY <1>6 DEF Destroy
  <2>4. DgramTypes' /\ FromPeer'
    <3>1. inbox' \in Seq(Datagrams)
      BY <2>3
    <3> QED  BY <1>0, <2>1, <2>3, <3>1 DEF DgramTypes, FromPeer
  <2>5. Len(inbox') = 0
    BY <2>3
  <2> QED  BY <1>0, <1>1, <2>2, <2>3, <2>4, <2>5 DEF Waiting, Told, Busy, Alive
<1> QED  BY <1>2, <1>3, <1>4, <1>5, <1>6

\* What is taken from the socket, or left in it, is no longer ahead of what
\* waits.
LEMMA HearIInv ==
    ASSUME DgramIInv, t.there, sock, hearing = Quiet, inbox # <<>>,
           NEW cb \in {"recvmsg", "recvmsgfrom", "closed"},
           Callback(cb, inbox[1]),
           inbox' = Tail(inbox) \/ (inbox' = inbox /\ inbox[1].form = "short"),
           cb = "closed" \/ inbox[1].form # "short",
           cb = "recvmsg" => t.connected,
           UNCHANGED <<sock, peer, arrived, early>>,
           kernel' = kernel \/ kernel' = {},
           ~broken' => kernel' = kernel /\ ~broken
    PROVE  DgramIInv'
<1> USE DEF DgramIInv
<1> DEFINE d == inbox[1]
           e == [cb |-> cb, id |-> d.id, from |-> {d.from}, peer |-> peer]
<1>1. d \in Datagrams /\ Len(inbox) \in Nat /\ Len(inbox) >= 1
  BY DEF DgramTypes
<1>2. heard' = Append(heard, e) /\ e \in Heard
  BY <1>1 DEF Callback, Heard, Datagrams, DgramTypes
<1>3. /\ t' = [t EXCEPT !.busy = @ + 1] /\ t' \in Transports /\ t'.busy = 1
      /\ t'.there = t.there /\ t'.destroyed = t.destroyed /\ t'.connected = t.connected
  <2>1. t' = [t EXCEPT !.busy = 1] /\ t \in Transports
    <3>1. t' = [t EXCEPT !.busy = t.busy + 1] /\ t.busy = 0
      BY DEF Callback, Busy
    <3> QED  BY <3>1 DEF DgramTypes
  <2>2. t' \in Transports
    BY <2>1 DEF Transports
  <2>3. t'.busy = 1
    BY <2>1 DEF Transports
  <2>4. t'.there = t.there /\ t'.destroyed = t.destroyed /\ t'.connected = t.connected
    BY <2>1 DEF Transports
  <2> QED  BY <2>1, <2>2, <2>3, <2>4 DEF Callback
<1>4. hearing'.cb = cb /\ hearing' # Quiet
  BY DEF Callback, Quiet
<1>5. /\ heard' \in Seq(Heard) /\ Len(heard) \in Nat /\ Len(heard') = Len(heard) + 1
      /\ \A i \in 1 .. Len(heard) : heard'[i] = heard[i] /\ heard[i].id \in Nat
      /\ heard'[Len(heard) + 1] = e
  <2> HIDE DEF e
  <2>1. heard \in Seq(Heard)
    BY DEF DgramTypes
  <2>2. /\ heard' \in Seq(Heard) /\ Len(heard') = Len(heard) + 1
        /\ \A i \in 1 .. Len(heard) : heard'[i] = heard[i]
        /\ heard'[Len(heard) + 1] = e
    BY <1>2, <2>1
  <2> QED  BY <2>2, DgramTypeFacts
<1>6. e.id = d.id /\ e.cb = cb /\ e.from = {d.from} /\ e.peer = peer /\ d.id \in Nat
  BY <1>1 DEF Datagrams
<1> HIDE DEF e
<1>7. /\ inbox' \in Seq(Datagrams) /\ Len(inbox') \in Nat
      /\ \A i \in 1 .. Len(inbox') :
             \E j \in 1 .. Len(inbox) :
                 /\ inbox'[i] = inbox[j]
                 /\ j > 1 \/ (i = 1 /\ inbox' = inbox /\ d.form = "short")
  <2>1. CASE inbox' = Tail(inbox)
    <3>1. /\ inbox' \in Seq(Datagrams) /\ Len(inbox') = Len(inbox) - 1
          /\ \A i \in 1 .. Len(inbox) - 1 : inbox'[i] = inbox[i + 1]
      BY <2>1 DEF DgramTypes
    <3>2. ASSUME NEW i \in 1 .. Len(inbox')
          PROVE  i + 1 \in 1 .. Len(inbox) /\ inbox'[i] = inbox[i + 1] /\ i + 1 > 1
      BY <1>1, <3>1
    <3> QED  BY <1>1, <3>1, <3>2
  <2>2. CASE inbox' = inbox /\ d.form = "short"
    BY <1>1, <2>2 DEF DgramTypes
  <2> QED  BY <2>1, <2>2
<1> HIDE DEF d
<1>8. DgramTypes'
  BY <1>3, <1>5, <1>7 DEF DgramTypes
<1>9. \A i, j \in 1 .. Len(inbox') : i < j => inbox'[i].id < inbox'[j].id
  <2>1. CASE inbox' = Tail(inbox)
    <3>1. /\ Len(inbox') = Len(inbox) - 1
          /\ \A i \in 1 .. Len(inbox) - 1 : inbox'[i] = inbox[i + 1]
      BY <2>1 DEF DgramTypes
    <3> SUFFICES ASSUME NEW i \in 1 .. Len(inbox'), NEW j \in 1 .. Len(inbox'), i < j
                 PROVE  inbox'[i].id < inbox'[j].id
      OBVIOUS
    <3>2. /\ i + 1 \in 1 .. Len(inbox) /\ j + 1 \in 1 .. Len(inbox) /\ i + 1 < j + 1
          /\ inbox'[i] = inbox[i + 1] /\ inbox'[j] = inbox[j + 1]
      BY <1>1, <3>1
    <3> QED  BY <3>2 DEF Waiting
  <2>2. CASE inbox' = inbox
    BY <2>2 DEF Waiting
  <2> QED  BY <2>1, <2>2 DEF d
<1>10. Waiting'
  BY <1>3, <1>7, <1>9 DEF Waiting, Alive
<1>11. \A j \in 1 .. Len(inbox) : j > 1 => d.id < inbox[j].id
  BY <1>1 DEF Waiting, d
<1>12. Told'
  <2>1. \A i \in 1 .. Len(heard') : heard'[i].id <= arrived'
    BY SMTT(40), <1>1, <1>5, <1>6 DEF Told, Waiting, d
  <2>2. ASSUME NEW i \in 1 .. Len(heard'), NEW j \in 1 .. Len(inbox')
        PROVE  heard'[i].id < inbox'[j].id
               \/ (j = 1 /\ inbox'[1].form = "short" /\ heard'[i].id = inbox'[1].id)
    <3>1. PICK k \in 1 .. Len(inbox) : /\ inbox'[j] = inbox[k]
                                       /\ k > 1 \/ (j = 1 /\ inbox' = inbox /\ d.form = "short")
      BY <1>7
    <3>2. CASE i = Len(heard) + 1
      <4>1. heard'[i].id = d.id
        BY <1>5, <1>6, <3>2
      <4> QED  BY <1>11, <3>1, <4>1 DEF d
    <3>3. CASE i # Len(heard) + 1
      <4>1. i \in 1 .. Len(heard) /\ heard'[i].id = heard[i].id
        BY <1>5, <3>3
      <4>2. CASE k > 1
        <5>1. heard[i].id < inbox[k].id
          BY <4>1, <4>2 DEF Told
        <5> QED  BY <3>1, <4>1, <5>1
      <4>3. CASE j = 1 /\ inbox' = inbox
        BY <1>1, <4>1, <4>3 DEF Told
      <4> QED  BY <3>1, <4>2, <4>3
    <3> QED  BY <3>2, <3>3
  <2> QED  BY <2>1, <2>2 DEF Told
<1>13. Ordered'
  <2> SUFFICES ASSUME NEW i \in 1 .. Len(heard) + 1, NEW j \in 1 .. Len(heard) + 1, i < j,
                      heard'[j].cb # "closed"
               PROVE  heard'[i].id < heard'[j].id
    BY <1>5 DEF Ordered
  <2>1. CASE j = Len(heard) + 1
    <3>1. i \in 1 .. Len(heard) /\ heard'[i] = heard[i] /\ heard'[j] = e
      BY <1>5, <2>1
    <3>2. d.form # "short"
      BY <1>6, <3>1 DEF d
    <3>3. heard[i].id < d.id
      BY <1>1, <3>1, <3>2 DEF Told, d
    <3> QED  BY <1>6, <3>1, <3>3
  <2>2. CASE j # Len(heard) + 1
    <3>0. Len(heard) \in Nat
      BY <1>5
    <3>1. i \in 1 .. Len(heard) /\ j \in 1 .. Len(heard)
      BY <2>2, <3>0
    <3> QED  BY <1>5, <3>1 DEF Ordered
  <2> QED  BY <2>1, <2>2
<1>14. FromPeer'
  <2>1. cb = "recvmsg" /\ {d.from} # peer => d.id \in early
    BY <1>1 DEF Waiting, d
  <2>2. ASSUME NEW i \in 1 .. Len(heard) + 1, heard'[i].cb = "recvmsg", heard'[i].from # heard'[i].peer
        PROVE  heard'[i].id \in early
    <3>1. CASE i = Len(heard) + 1
      BY <1>5, <1>6, <2>1, <2>2, <3>1
    <3>2. CASE i # Len(heard) + 1
      <4>1. i \in 1 .. Len(heard) /\ heard'[i] = heard[i]
        BY <1>5, <3>2
      <4> QED  BY <2>2, <4>1 DEF FromPeer
    <3> QED  BY <3>1, <3>2
  <2> QED  BY <1>5, <2>2 DEF FromPeer
<1>15. Busy' /\ Alive'
  BY <1>3, <1>4 DEF Busy, Alive, Quiet
<1> QED  BY <1>8, <1>10, <1>12, <1>13, <1>14, <1>15

LEMMA ReceivesIInv == ASSUME DgramIInv, Receives PROVE DgramIInv'
<1>1. /\ t.there /\ sock /\ hearing = Quiet /\ inbox # <<>> /\ inbox' = Tail(inbox)
      /\ inbox[1].form # "short"
      /\ UNCHANGED <<sock, peer, arrived, early, kernel, broken>>
  BY DEF Receives
<1>2. CASE t.connected
  <2>1. Callback("recvmsg", inbox[1])
    BY <1>2 DEF Receives
  <2> QED  BY <1>1, <1>2, <2>1, HearIInv
<1>3. CASE ~t.connected
  <2>1. Callback("recvmsgfrom", inbox[1])
    BY <1>3 DEF Receives
  <2> QED  BY <1>1, <1>3, <2>1, HearIInv
<1> QED  BY <1>2, <1>3

LEMMA FailsIInv == ASSUME DgramIInv, Fails PROVE DgramIInv'
<1>1. /\ t.there /\ sock /\ hearing = Quiet /\ inbox # <<>>
      /\ inbox' = Tail(inbox) \/ (inbox' = inbox /\ inbox[1].form = "short")
      /\ UNCHANGED <<sock, peer, arrived, early>>
  BY DEF Fails
<1>2. /\ kernel' = kernel \/ kernel' = {}
      /\ ~broken' => kernel' = kernel /\ ~broken
  BY DEF Fails, Closed
<1>3. CASE Callback("closed", inbox[1])
  BY <1>1, <1>2, <1>3, HearIInv
<1>4. CASE UNCHANGED <<t, hearing, heard>>
  <2> USE DEF DgramIInv
  <2>1. /\ inbox' \in Seq(Datagrams) /\ Len(inbox) \in Nat /\ Len(inbox) >= 1 /\ Len(inbox') \in Nat
        /\ inbox' = inbox \/ /\ Len(inbox') = Len(inbox) - 1
                             /\ \A i \in 1 .. Len(inbox) - 1 : inbox'[i] = inbox[i + 1]
    <3>1. inbox \in Seq(Datagrams) /\ inbox # <<>>
      BY <1>1 DEF DgramTypes
    <3>2. Len(inbox) \in Nat /\ Len(inbox) >= 1
      BY <3>1
    <3> DEFINE q == Tail(inbox)
    <3>3. /\ q \in Seq(Datagrams) /\ Len(q) = Len(inbox) - 1
          /\ \A i \in 1 .. Len(inbox) - 1 : q[i] = inbox[i + 1]
      BY <3>1, <3>2, HeadTailProperties
    <3> HIDE DEF q
    <3>4. CASE inbox' = inbox
      BY <3>1, <3>2, <3>4
    <3>5. CASE inbox' = q
      BY <3>2, <3>3, <3>5
    <3> QED  BY <1>1, <3>4, <3>5 DEF q
  <2>2. DgramTypes' /\ Ordered' /\ FromPeer' /\ Busy' /\ Alive'
    BY <1>1, <1>2, <1>4, <2>1 DEF DgramTypes, Ordered, FromPeer, Busy, Alive
  <2>3. CASE inbox' = inbox
    BY <1>1, <1>2, <1>4, <2>2, <2>3 DEF Waiting, Told
  <2>4. CASE /\ Len(inbox') = Len(inbox) - 1
             /\ \A i \in 1 .. Len(inbox) - 1 : inbox'[i] = inbox[i + 1]
    <3>0. ~t.destroyed
      BY <1>1 DEF Alive
    <3>1. Waiting'
      <4>1. \A i \in 1 .. Len(inbox') : i + 1 \in 1 .. Len(inbox) /\ inbox'[i] = inbox[i + 1]
        BY <2>1, <2>4
      <4>2. \A i \in 1 .. Len(inbox') : inbox'[i].id <= arrived'
        BY <1>1, <4>1 DEF Waiting
      <4>3. ASSUME NEW i \in 1 .. Len(inbox'), NEW j \in 1 .. Len(inbox'), i < j
            PROVE  inbox'[i].id < inbox'[j].id
        <5>1. i + 1 < j + 1
          BY <2>1, <4>3
        <5> QED  BY <4>1, <5>1 DEF Waiting
      <4>4. \A i \in 1 .. Len(inbox') : t.connected /\ inbox'[i].id \notin early => {inbox'[i].from} = peer
        BY <4>1 DEF Waiting
      <4> QED  BY <1>1, <1>2, <1>4, <3>0, <4>2, <4>3, <4>4 DEF Waiting
    <3>2. Told'
      BY <1>1, <1>4, <2>1, <2>4 DEF Told
    <3> QED  BY <2>2, <3>1, <3>2
  <2> QED  BY <2>1, <2>2, <2>3, <2>4
<1> QED
  <2>1. \E told \in BOOLEAN : Closed(inbox[1], told)
    BY DEF Fails
  <2> QED  BY <1>3, <1>4, <2>1 DEF Closed

LEMMA ReturnsIInv == ASSUME DgramIInv, Returns PROVE DgramIInv'
<1> USE DEF DgramIInv
<1>1. /\ hearing # Quiet /\ hearing' = Quiet /\ t.busy = 1
      /\ UNCHANGED <<sock, kernel, peer, inbox, arrived, heard, early, broken>>
  BY DEF Returns, Busy
<1>2. /\ t' = [[t EXCEPT !.busy = 0] EXCEPT !.there =
                    ~([t EXCEPT !.busy = 0].destroyed /\ [t EXCEPT !.busy = 0].busy = 0)]
      /\ t \in Transports
  BY <1>1 DEF Returns, PurgeDestroyed, DgramTypes
<1>3. /\ t' \in Transports /\ t'.busy = 0 /\ (t'.there <=> ~t.destroyed)
      /\ t'.destroyed = t.destroyed /\ t'.connected = t.connected
  BY <1>2 DEF Transports
<1>4. DgramTypes' /\ Waiting' /\ Told' /\ Ordered' /\ FromPeer'
  BY <1>1, <1>3 DEF DgramTypes, Waiting, Told, Ordered, FromPeer
<1>5. t.there
  BY <1>1 DEF Alive
<1> QED  BY <1>1, <1>3, <1>4, <1>5 DEF Busy, Alive

\* Whatever arrives and however it is broken, messages are heard in the order
\* they came, a connected transport hears its peer, and a transport is freed
\* when it is destroyed and no callback of its own runs, its socket with it.
THEOREM DatagramsHeard == DgramSpec => []DatagramsAreHeard
<1>1. DgramInit => DgramIInv
  BY DgramInitIInv
<1>2. DgramIInv /\ [DgramNext]_dgramVars => DgramIInv'
  <2>1. DgramIInv /\ DgramNext => DgramIInv'
    BY ArriveIInv, CallIInv, FailsIInv, ReceivesIInv, ReturnsIInv DEF DgramNext
  <2>2. DgramIInv /\ UNCHANGED dgramVars => DgramIInv'
    BY DEF dgramVars, DgramIInv, DgramTypes, Waiting, Told, Busy, Ordered, FromPeer, Alive
  <2> QED  BY <2>1, <2>2
<1>3. DgramIInv => DatagramsAreHeard
  <2>1. DgramIInv => DOMAIN heard = 1 .. Len(heard)
    BY DEF DgramIInv, DgramTypes
  <2> QED  BY <2>1 DEF DgramIInv, Ordered, FromPeer, Alive, DatagramsAreHeard
<1> QED  BY <1>1, <1>2, <1>3, PTL DEF DgramSpec

------------------------------------------------------------------------------
(* Plugins, for any descriptors, arguments and instances.  The inductive    *)
(* invariant counts, for each descriptor, the plugins of it and the loads   *)
(* of it that failed (LoadsAreCounted), and says which plugins the walk of  *)
(* mrp_start_plugins still has before it (WalkIsSound).                     *)

ArgKeys == UNION {{args[j].key : j \in DOMAIN args} : args \in ArgLists}
PluginRecords == [id : Nat, name : Descrs, instance : Instances \cup Descrs, refcnt : Nat,
                  state : {"loaded", "started", "failed", "stopped"}, mayFail : BOOLEAN, set : SUBSET ArgKeys]

ListOk ==
    /\ loaded \in Nat
    /\ plugins \in Seq(PluginRecords)
    /\ \A j \in 1 .. Len(plugins) : plugins[j].id \in 1 .. loaded
    /\ \A j, k \in 1 .. Len(plugins) : j < k => plugins[j].id < plugins[k].id
    /\ \A j, k \in 1 .. Len(plugins) : plugins[j].instance = plugins[k].instance => j = k

Of(d) == {p \in PluginRecords : p.name = d}

LoadsAreCounted ==
    /\ ninstance \in [Descrs -> Int] /\ failed \in [Descrs -> Nat]
    /\ \A d \in Descrs :
          /\ ninstance[d] = Cardinality(Marked(plugins, Of(d))) + failed[d]
          /\ PluginDescrs[d].singleton => Cardinality(Marked(plugins, Of(d))) <= 1

Ready(p) == p.state \in {"started", "stopped"} \/ (p.state = "failed" /\ p.mayFail)

WalkIsSound ==
    /\ walk \in [cur : Nat, next : Nat]
    /\ phase \in {"config", "starting", "running", "exited"}
    /\ phase = "config" => latecomers = {} /\ walk.cur = 0
    /\ phase = "starting" =>
          /\ walk.cur # 0 => \E j \in 1 .. Len(plugins) : plugins[j].id = walk.cur
          /\ walk.next # 0 => /\ latecomers = {} /\ walk.cur < walk.next
                              /\ \E j \in 1 .. Len(plugins) : plugins[j].id = walk.next
          /\ \A j \in 1 .. Len(plugins) :
                \/ Ready(plugins[j])
                \/ plugins[j].id \in latecomers
                \/ plugins[j].id = walk.cur
                \/ walk.next # 0 /\ plugins[j].id >= walk.next
    /\ phase = "running" => \A j \in 1 .. Len(plugins) : Ready(plugins[j]) \/ plugins[j].id \in latecomers

PluginsInv == ListOk /\ LoadsAreCounted /\ WalkIsSound

------------------------------------------------------------------------------
\* The search goes round all keys: it stops at one if there is one.
LEMMA FindArgFinds ==
    ASSUME NEW keys, keys \in Seq(ToSet(keys)), NEW key, NEW j \in 0 .. Len(keys)
    PROVE  /\ FindArg(keys, key, j) \in 0 .. Len(keys)
           /\ FindArg(keys, key, j) # 0 <=> key \in ToSet(keys)
<1> DEFINE cs == {c \in DOMAIN keys : keys[c] = key}
           A == {Ahead(keys, j, c) : c \in cs}
<1>1. DOMAIN keys = 1 .. Len(keys) /\ Len(keys) \in Nat
  BY LenProperties
<1>2. cs # {} <=> key \in ToSet(keys)
  BY DEF ToSet
<1>3. CASE cs = {}
  BY <1>1, <1>2, <1>3 DEF FindArg
<1>4. CASE cs # {}
  <2>1. \A c \in cs : c \in 1 .. Len(keys) /\ Ahead(keys, j, c) \in Nat
    BY <1>1 DEF Ahead
  <2> DEFINE f == CHOOSE c \in cs : \A d \in cs : Ahead(keys, j, c) <= Ahead(keys, j, d)
  <2>2. FindArg(keys, key, j) = f
    BY <1>4 DEF FindArg
  <2> HIDE DEF cs
  <2>3. PICK x \in A : \A y \in A : x <= y
    <3>1. A \subseteq Nat /\ A # {}
      BY <1>4, <2>1
    <3> HIDE DEF A
    <3> QED  BY <3>1, NatMinimum
  <2>4. \E c \in cs : \A d \in cs : Ahead(keys, j, c) <= Ahead(keys, j, d)
    BY <2>3
  <2>5. f \in cs
    BY <2>4
  <2> HIDE DEF f
  <2>6. f \in 1 .. Len(keys) /\ f # 0
    BY <1>1, <2>1, <2>5
  <2> QED  BY <1>1, <1>2, <1>4, <2>2, <2>6
<1> QED  BY <1>3, <1>4

\* What is parsed of the first k arguments.
IsParsed(keys, args, k, r) ==
    /\ r \in [ok : BOOLEAN, at : 0 .. Len(keys), set : SUBSET {args[j].key : j \in DOMAIN args}]
    /\ r.ok <=> \A j \in 1 .. k : args[j].key \in ToSet(keys) /\ args[j].valid
    /\ r.ok => r.set = {args[j].key : j \in 1 .. k}

LEMMA ParseArgStep ==
    ASSUME NEW keys, keys \in Seq(ToSet(keys)),
           NEW args, args \in Seq([key : {args[j].key : j \in DOMAIN args}, valid : BOOLEAN]),
           NEW k \in 0 .. Len(args) - 1, NEW r, IsParsed(keys, args, k, r)
    PROVE  IsParsed(keys, args, k + 1, ParseArg(keys, args[k + 1], r))
<1> DEFINE a == args[k + 1]
           ix == FindArg(keys, a.key, r.at)
           K == {args[j].key : j \in DOMAIN args}
<1>1. Len(args) \in Nat /\ DOMAIN args = 1 .. Len(args) /\ k + 1 \in 1 .. Len(args) /\ k \in Nat /\ Len(keys) \in Nat
  BY LenProperties
<1>2. a.key \in K /\ a.valid \in BOOLEAN
  <2>1. a \in [key : K, valid : BOOLEAN]
    BY <1>1, ElementOfSeq
  <2> HIDE DEF K
  <2> QED  BY <2>1
<1>3. r.ok \in BOOLEAN /\ r.at \in 0 .. Len(keys) /\ r.set \in SUBSET K
  BY DEF IsParsed
<1>4. ix \in 0 .. Len(keys) /\ (ix # 0 <=> a.key \in ToSet(keys))
  BY <1>3, FindArgFinds
<1>5. \A j : j \in 1 .. k + 1 <=> j \in 1 .. k \/ j = k + 1
  BY <1>1
<1>6. \A j \in 1 .. k + 1 : args[j].valid \in BOOLEAN
  <2>1. \A j \in 1 .. Len(args) : args[j] \in [key : K, valid : BOOLEAN]
    BY ElementOfSeq
  <2> HIDE DEF K
  <2>2. \A j \in 1 .. Len(args) : args[j].valid \in BOOLEAN
    BY <2>1
  <2>3. \A j \in 1 .. k + 1 : j \in 1 .. Len(args)
    BY <1>1
  <2> QED  BY <2>2, <2>3
<1> HIDE DEF ix, a, K
<1>7. ParseArg(keys, a, r) = IF r.ok /\ ix # 0 /\ a.valid THEN [ok |-> TRUE, at |-> ix, set |-> r.set \cup {a.key}]
                             ELSE [ok |-> FALSE, at |-> 0, set |-> {}]
  BY DEF ParseArg, ix
<1>8. CASE r.ok /\ ix # 0 /\ a.valid
  <2> DEFINE p == [ok |-> TRUE, at |-> ix, set |-> r.set \cup {a.key}]
  <2>1. ParseArg(keys, a, r) = p
    BY <1>7, <1>8
  <2>2. p.ok = TRUE /\ p.set = r.set \cup {a.key} /\ p \in [ok : BOOLEAN, at : 0 .. Len(keys), set : SUBSET K]
    BY <1>2, <1>3, <1>4
  <2>3. \A j \in 1 .. k + 1 : args[j].key \in ToSet(keys) /\ args[j].valid
    BY <1>4, <1>5, <1>8 DEF IsParsed, a
  <2>4. r.set \cup {a.key} = {args[j].key : j \in 1 .. k + 1}
    BY <1>5, <1>8 DEF IsParsed, a
  <2> HIDE DEF p
  <2>5. IsParsed(keys, args, k + 1, p)
    BY <2>2, <2>3, <2>4 DEF IsParsed, K
  <2> QED  BY <2>1, <2>5 DEF a
<1>9. CASE ~(r.ok /\ ix # 0 /\ a.valid)
  <2> DEFINE p == [ok |-> FALSE, at |-> 0, set |-> {}]
  <2>1. ParseArg(keys, a, r) = p
    BY <1>7, <1>9
  <2>2. p.ok = FALSE /\ p \in [ok : BOOLEAN, at : 0 .. Len(keys), set : SUBSET K]
    BY <1>1
  <2>3. ~\A j \in 1 .. k + 1 : args[j].key \in ToSet(keys) /\ args[j].valid
    BY <1>1, <1>4, <1>5, <1>9 DEF IsParsed, a
  <2> HIDE DEF p
  <2>4. IsParsed(keys, args, k + 1, p)
    BY <2>2, <2>3 DEF IsParsed, K
  <2> QED  BY <2>1, <2>4 DEF a
<1> QED  BY <1>8, <1>9

\* Arguments are accepted in any order, exactly when each is known and valid.
LEMMA ParseArgsFacts ==
    ASSUME NEW keys, keys \in Seq(ToSet(keys)),
           NEW args, args \in Seq([key : {args[j].key : j \in DOMAIN args}, valid : BOOLEAN])
    PROVE  IsParsed(keys, args, Len(args), ParseArgs(keys, args))
<1> DEFINE n == Len(args)
           K == {args[j].key : j \in DOMAIN args}
           V == [ok : BOOLEAN, at : 0 .. Len(keys), set : SUBSET K]
           v == [ok |-> TRUE, at |-> 0, set |-> {}]
           step == [r \in (1 .. n) \X V |-> ParseArg(keys, args[r[1]], r[2])]
           B(f) == [k \in 0 .. n |-> IF k = 0 THEN v ELSE ParseArg(keys, args[k], f[k - 1])]
<1>1. n \in Nat /\ Len(keys) \in Nat /\ v \in V
  BY LenProperties
<1>2. ASSUME NEW k \in 1 .. n, NEW r \in V  PROVE ParseArg(keys, args[k], r) \in V
  <2>1. args[k] \in [key : K, valid : BOOLEAN]
    BY ElementOfSeq
  <2>2. args[k].key \in K /\ r.at \in 0 .. Len(keys) /\ r.set \in SUBSET K
    BY <2>1
  <2>3. FindArg(keys, args[k].key, r.at) \in 0 .. Len(keys)
    BY <2>2, FindArgFinds
  <2> QED  BY <1>1, <2>2, <2>3 DEF ParseArg
<1>3. step \in [(1 .. n) \X V -> V]
  BY <1>2
<1> HIDE DEF V
<1>4. PICK f \in [0 .. n -> V] : f[0] = v /\ \A k \in 1 .. n : f[k] = step[<<k, f[k - 1]>>]
  <2>1. IsStep(n, V, v, step)
    BY <1>1, <1>3 DEF IsStep
  <2> HIDE DEF step, v, n
  <2> QED  BY <2>1, StepsExist
<1>5. f = B(f)
  <2>1. ASSUME NEW k \in 0 .. n, k # 0  PROVE step[<<k, f[k - 1]>>] = ParseArg(keys, args[k], f[k - 1])
    <3>1. k \in 1 .. n /\ k - 1 \in 0 .. n
      BY <1>1, <2>1
    <3>2. f[k - 1] \in V
      BY <3>1
    <3>3. <<k, f[k - 1]>> \in (1 .. n) \X V
      BY <3>1, <3>2
    <3> QED  BY <3>3
  <2>2. \A k \in 0 .. n : k # 0 => k \in 1 .. n
    BY <1>1
  <2>3. \A k \in 0 .. n : f[k] = IF k = 0 THEN v ELSE ParseArg(keys, args[k], f[k - 1])
    BY <1>4, <2>1, <2>2
  <2>4. f = [k \in 0 .. n |-> f[k]]
    OBVIOUS
  <2> HIDE DEF v, n
  <2> QED  BY <2>3, <2>4
<1> DEFINE h == CHOOSE h : h = B(h)
<1>6. h = B(h)
  BY <1>5
<1>7. ParseArgs(keys, args) = h[n]
  BY Zenon DEF ParseArgs
<1> HIDE DEF h
<1> DEFINE S == {k \in 0 .. n : IsParsed(keys, args, k, h[k])}
<1>8. 0 \in S
  <2>1. h[0] = v /\ v \in V /\ v.ok = TRUE /\ v.set = {}
    BY <1>1, <1>6
  <2> HIDE DEF v
  <2> QED  BY <1>1, <2>1 DEF IsParsed, V
<1>9. ASSUME NEW k \in 0 .. n - 1, k \in S  PROVE k + 1 \in S
  <2>1. k + 1 \in 0 .. n /\ k + 1 # 0 /\ (k + 1) - 1 = k
    BY <1>1
  <2>2. h[k + 1] = ParseArg(keys, args[k + 1], h[k])
    BY <1>6, <2>1
  <2>3. IsParsed(keys, args, k + 1, ParseArg(keys, args[k + 1], h[k]))
    BY <1>9, ParseArgStep
  <2> QED  BY <2>1, <2>2, <2>3
<1>10. n \in S
  <2>1. \A k \in 0 .. n - 1 : k \in S => k + 1 \in S
    BY <1>9
  <2>2. n \in 0 .. n
    BY <1>1
  <2> HIDE DEF S, n
  <2>3. 0 .. n \subseteq S
    BY <1>1, <1>8, <2>1, CountingUp
  <2> QED  BY <2>2, <2>3
<1> QED  BY <1>7, <1>10

------------------------------------------------------------------------------
LEMMA PluginsInitInv == PluginsInit => PluginsInv
<1> SUFFICES ASSUME PluginsInit PROVE PluginsInv
  OBVIOUS
<1>1. plugins = <<>> /\ ninstance = [d \in Descrs |-> 0] /\ phase = "config"
      /\ walk = [cur |-> 0, next |-> 0] /\ loaded = 0 /\ failed = [d \in Descrs |-> 0] /\ latecomers = {}
  BY DEF PluginsInit
<1>2. plugins \in Seq(PluginRecords) /\ Len(plugins) = 0 /\ DOMAIN plugins = {}
  BY <1>1, EmptySeq, LenProperties
<1>3. ListOk
  BY <1>1, <1>2 DEF ListOk
<1>4. \A d : Cardinality(Marked(plugins, Of(d))) = 0
  <2>1. \A d : Marked(plugins, Of(d)) = {}
    BY <1>2 DEF Marked
  <2> QED  BY <2>1, FS_EmptySet
<1>5. LoadsAreCounted
  BY <1>1, <1>4 DEF LoadsAreCounted
<1>6. WalkIsSound
  BY <1>1 DEF WalkIsSound
<1> QED  BY <1>3, <1>5, <1>6 DEF PluginsInv

LEMMA PluginFacts ==
    ASSUME ListOk
    PROVE  /\ Len(plugins) \in Nat /\ DOMAIN plugins = 1 .. Len(plugins) /\ loaded \in Nat
           /\ \A j \in 1 .. Len(plugins) : plugins[j] \in PluginRecords /\ plugins[j].id \in 1 .. loaded
BY LenProperties, ElementOfSeq DEF ListOk

\* What a load does, whoever asks for it.
LEMMA LoadFacts ==
    ASSUME ListOk, LoadsAreCounted, NEW name \in Descrs, NEW instance \in Instances \cup Descrs,
           NEW args \in ArgLists \cup {<<>>}, NEW mayFail \in BOOLEAN, NEW ok \in BOOLEAN,
           Load(name, instance, args, mayFail, ok)
    PROVE  /\ ListOk' /\ LoadsAreCounted'
           /\ Len(plugins) <= Len(plugins') /\ Len(plugins') \in Nat
           /\ \A j \in 1 .. Len(plugins) : j \in 1 .. Len(plugins') /\ plugins'[j] = plugins[j]
           /\ \A j \in 1 .. Len(plugins') :
                 (j \in 1 .. Len(plugins) /\ plugins'[j] = plugins[j]) \/ plugins'[j].id = loaded + 1
           /\ latecomers' = IF phase = "config" \/ (phase = "starting" /\ walk.next # 0) THEN latecomers
                            ELSE latecomers \cup {loaded + 1}
<1> DEFINE descr == PluginDescrs[name]
           parsed == ParseArgs(descr.keys, args)
           good == descr.fits /\ CheckSingleton(descr, ninstance[name] + 1) /\ parsed.ok
           counted == FindInstance(instance) = {} /\ descr.found
           w == [id |-> loaded + 1, name |-> name, instance |-> instance, refcnt |-> 1, state |-> "loaded",
                 mayFail |-> mayFail, set |-> parsed.set]
           q == Append(plugins, w)
           C(d) == Cardinality(Marked(plugins, Of(d)))
<1>1. /\ loaded' = loaded + 1
      /\ ok = (counted /\ good)
      /\ ninstance' = IF counted THEN [ninstance EXCEPT ![name] = @ + 1] ELSE ninstance
      /\ failed' = IF counted /\ ~good THEN [failed EXCEPT ![name] = @ + 1] ELSE failed
      /\ plugins' = IF ok THEN q ELSE plugins
      /\ latecomers' = IF phase = "config" \/ (phase = "starting" /\ walk.next # 0) THEN latecomers
                       ELSE latecomers \cup {loaded + 1}
  BY DEF Load
<1>2. /\ Len(plugins) \in Nat /\ DOMAIN plugins = 1 .. Len(plugins) /\ loaded \in Nat
      /\ \A j \in 1 .. Len(plugins) : plugins[j] \in PluginRecords /\ plugins[j].id \in 1 .. loaded
      /\ plugins \in Seq(PluginRecords)
      /\ \A j, k \in 1 .. Len(plugins) : j < k => plugins[j].id < plugins[k].id
      /\ \A j, k \in 1 .. Len(plugins) : plugins[j].instance = plugins[k].instance => j = k
  BY PluginFacts DEF ListOk
<1>3. parsed.set \in SUBSET ArgKeys
  <2>1. args \in Seq([key : {args[j].key : j \in DOMAIN args}, valid : BOOLEAN])
    BY PluginsAssumption, EmptySeq
  <2>2. descr.keys \in Seq(ToSet(descr.keys))
    BY PluginsAssumption DEF Descrs
  <2>3. IsParsed(descr.keys, args, Len(args), parsed)
    BY <2>1, <2>2, ParseArgsFacts
  <2> HIDE DEF parsed
  <2>4. parsed.set \in SUBSET {args[j].key : j \in DOMAIN args}
    BY <2>3 DEF IsParsed
  <2>5. {args[j].key : j \in DOMAIN args} \subseteq ArgKeys
    <3>1. CASE args \in ArgLists
      BY <3>1 DEF ArgKeys
    <3>2. CASE args = <<>>
      <4>1. DOMAIN args = {}
        BY <3>2
      <4> QED  BY <4>1
    <3> QED  BY <3>1, <3>2
  <2> QED  BY <2>4, <2>5
<1>4. w \in PluginRecords
  BY <1>2, <1>3 DEF PluginRecords
<1>5. w.id = loaded + 1 /\ w.name = name /\ w.instance = instance
  OBVIOUS
<1> HIDE DEF w
<1>6. /\ q \in Seq(PluginRecords) /\ Len(q) = Len(plugins) + 1 /\ q[Len(plugins) + 1] = w
      /\ \A j \in 1 .. Len(plugins) : q[j] = plugins[j]
  BY <1>2, <1>4, AppendFacts
<1>7. \A d : /\ C(d) \in Nat
             /\ Cardinality(Marked(q, Of(d))) = C(d) + (IF d = name THEN 1 ELSE 0)
  <2> SUFFICES ASSUME NEW d  PROVE /\ C(d) \in Nat
                                   /\ Cardinality(Marked(q, Of(d))) = C(d) + (IF d = name THEN 1 ELSE 0)
    OBVIOUS
  <2>1. w \in Of(d) <=> d = name
    BY <1>4, <1>5 DEF Of
  <2> QED  BY <1>2, <1>4, <2>1, AppendCounts
<1> HIDE DEF q, C
<1>8. ninstance \in [Descrs -> Int] /\ failed \in [Descrs -> Nat]
      /\ \A d \in Descrs : /\ ninstance[d] = C(d) + failed[d]
                           /\ PluginDescrs[d].singleton => C(d) <= 1
  BY DEF LoadsAreCounted, C
<1>9. good => (descr.singleton => ninstance[name] <= 0)
  BY <1>8 DEF CheckSingleton
<1>10. good \in BOOLEAN /\ counted \in BOOLEAN
  OBVIOUS
<1>11. counted => \A j \in 1 .. Len(plugins) : plugins[j].instance # instance
  BY <1>2 DEF FindInstance
<1> HIDE DEF good, counted
<1>12. CASE ok
  <2>1. counted /\ good /\ plugins' = q /\ failed' = failed /\ ninstance' = [ninstance EXCEPT ![name] = @ + 1]
    BY <1>1, <1>10, <1>12
  <2>2. \A j \in 1 .. Len(q) : (j \in 1 .. Len(plugins) /\ q[j] = plugins[j]) \/ (j = Len(plugins) + 1 /\ q[j] = w)
    BY <1>2, <1>6
  <2>3. ListOk'
    <3>1. \A j \in 1 .. Len(q) : q[j].id \in 1 .. loaded + 1
      BY <1>2, <1>5, <2>2
    <3>2. \A j, k \in 1 .. Len(q) : j < k => q[j].id < q[k].id
      <4> SUFFICES ASSUME NEW j \in 1 .. Len(q), NEW k \in 1 .. Len(q), j < k  PROVE q[j].id < q[k].id
        OBVIOUS
      <4>1. j \in 1 .. Len(plugins) /\ q[j] = plugins[j] /\ plugins[j].id \in 1 .. loaded
        BY <1>2, <1>6, <2>2
      <4>2. CASE k \in 1 .. Len(plugins) /\ q[k] = plugins[k]
        BY <1>2, <4>1, <4>2
      <4>3. CASE q[k] = w
        BY <1>2, <1>5, <4>1, <4>3
      <4> QED  BY <2>2, <4>2, <4>3
    <3>3. \A j, k \in 1 .. Len(q) : q[j].instance = q[k].instance => j = k
      BY <1>2, <1>5, <1>11, <2>1, <2>2
    <3> QED  BY <1>1, <1>2, <1>6, <2>1, <3>1, <3>2, <3>3 DEF ListOk
  <2>4. LoadsAreCounted'
    <3>1. ninstance' \in [Descrs -> Int] /\ failed' \in [Descrs -> Nat]
      BY <1>8, <2>1
    <3>2. ASSUME NEW d \in Descrs
          PROVE  /\ ninstance'[d] = Cardinality(Marked(q, Of(d))) + failed'[d]
                 /\ PluginDescrs[d].singleton => Cardinality(Marked(q, Of(d))) <= 1
      <4>1. CASE d = name
        <5>1. Cardinality(Marked(q, Of(d))) = C(d) + 1 /\ ninstance'[d] = ninstance[d] + 1 /\ C(d) \in Nat
          BY <1>7, <1>8, <2>1, <4>1
        <5>2. ninstance[d] = C(d) + failed[d] /\ failed[d] \in Nat /\ ninstance[d] \in Int
          BY <1>8
        <5> QED  BY <1>9, <2>1, <4>1, <5>1, <5>2
      <4>2. CASE d # name
        <5>1. Cardinality(Marked(q, Of(d))) = C(d) /\ ninstance'[d] = ninstance[d]
          BY <1>7, <1>8, <2>1, <4>2
        <5> QED  BY <1>8, <2>1, <5>1
      <4> QED  BY <4>1, <4>2
    <3>3. \A d : Of(d)' = Of(d)
      BY DEF Of
    <3> QED  BY <2>1, <3>1, <3>2, <3>3 DEF LoadsAreCounted, Marked
  <2> QED  BY <1>1, <1>2, <1>5, <1>6, <2>1, <2>2, <2>3, <2>4
<1>13. CASE ~ok
  <2>1. plugins' = plugins
    BY <1>1, <1>13
  <2>2. ListOk'
    BY <1>1, <1>2, <2>1 DEF ListOk
  <2>3. LoadsAreCounted'
    <3>1. CASE counted
      <4>1. ninstance' = [ninstance EXCEPT ![name] = @ + 1] /\ failed' = [failed EXCEPT ![name] = @ + 1]
        BY <1>1, <1>10, <1>13, <3>1
      <4>2. \A d \in Descrs : C(d) \in Nat /\ failed[d] \in Nat
        BY <1>7, <1>8
      <4>3. ninstance' \in [Descrs -> Int] /\ failed' \in [Descrs -> Nat]
        BY <1>8, <4>1
      <4>4. \A d \in Descrs : ninstance'[d] = C(d) + failed'[d]
        BY <1>8, <4>1, <4>2
      <4> QED  BY <1>8, <2>1, <4>3, <4>4 DEF LoadsAreCounted, C, Marked, Of
    <3>2. CASE ~counted
      <4>1. ninstance' = ninstance /\ failed' = failed
        BY <1>1, <1>10, <3>2
      <4> QED  BY <1>8, <2>1, <4>1 DEF LoadsAreCounted, C, Marked, Of
    <3> QED  BY <3>1, <3>2
  <2> QED  BY <1>1, <1>2, <2>1, <2>2, <2>3
<1> QED  BY <1>12, <1>13

LEMMA ConfigLoadInv == PluginsInv /\ (ConfigLoad \/ LoadForHelp) => PluginsInv'
<1> SUFFICES ASSUME PluginsInv, ConfigLoad \/ LoadForHelp PROVE PluginsInv'
  OBVIOUS
<1>1. PICK name \in Descrs, i \in Instances \cup Descrs, args \in ArgLists \cup {<<>>}, try \in BOOLEAN, ok \in BOOLEAN :
        Load(name, i, args, try, ok)
  BY DEF ConfigLoad, LoadForHelp
<1>2. phase = "config" /\ phase' \in {"config", "exited"} /\ walk' = walk
  BY DEF ConfigLoad, LoadForHelp
<1>3. ListOk' /\ LoadsAreCounted' /\ latecomers' = latecomers
  BY <1>1, <1>2, LoadFacts DEF PluginsInv
<1>4. WalkIsSound'
  BY <1>2, <1>3 DEF PluginsInv, WalkIsSound
<1> QED  BY <1>3, <1>4 DEF PluginsInv

LEMMA RequestInv == PluginsInv /\ Request => PluginsInv'
<1> SUFFICES ASSUME PluginsInv, Request PROVE PluginsInv'
  OBVIOUS
<1>1. PICK name \in Descrs, i \in Instances, ok \in BOOLEAN : Load(name, i, <<>>, FALSE, ok)
  BY DEF Request
<1>2. UNCHANGED <<phase, walk>> /\ (phase = "running" \/ (phase = "starting" /\ walk.cur # 0))
  BY DEF Request
<1>3. /\ ListOk' /\ LoadsAreCounted'
      /\ Len(plugins) <= Len(plugins') /\ Len(plugins') \in Nat
      /\ \A j \in 1 .. Len(plugins) : j \in 1 .. Len(plugins') /\ plugins'[j] = plugins[j]
      /\ \A j \in 1 .. Len(plugins') :
            (j \in 1 .. Len(plugins) /\ plugins'[j] = plugins[j]) \/ plugins'[j].id = loaded + 1
      /\ latecomers' = IF phase = "config" \/ (phase = "starting" /\ walk.next # 0) THEN latecomers
                       ELSE latecomers \cup {loaded + 1}
  BY <1>1, LoadFacts DEF PluginsInv
<1>4. WalkIsSound /\ ListOk
  BY DEF PluginsInv
<1>5. loaded \in Nat /\ \A j \in 1 .. Len(plugins) : plugins[j].id \in 1 .. loaded
  BY <1>4, PluginFacts
<1>6. CASE phase = "running"
  <2>1. \A j \in 1 .. Len(plugins') : Ready(plugins'[j]) \/ plugins'[j].id \in latecomers'
    BY <1>3, <1>4, <1>6 DEF WalkIsSound
  <2> QED  BY <1>2, <1>3, <1>4, <1>6, <2>1 DEF PluginsInv, WalkIsSound
<1>7. CASE phase = "starting" /\ walk.next = 0
  <2>1. \A j \in 1 .. Len(plugins') : Ready(plugins'[j]) \/ plugins'[j].id \in latecomers' \/ plugins'[j].id = walk.cur
    BY <1>3, <1>4, <1>7 DEF WalkIsSound
  <2>2. walk.cur # 0 => \E j \in 1 .. Len(plugins') : plugins'[j].id = walk.cur
    BY <1>3, <1>4, <1>7 DEF WalkIsSound
  <2> QED  BY <1>2, <1>3, <1>4, <1>7, <2>1, <2>2 DEF PluginsInv, WalkIsSound
<1>8. CASE phase = "starting" /\ walk.next # 0
  <2>1. latecomers' = latecomers /\ latecomers = {} /\ walk.cur < walk.next
    BY <1>3, <1>4, <1>8 DEF WalkIsSound
  <2>2. PICK k \in 1 .. Len(plugins) : plugins[k].id = walk.next
    BY <1>4, <1>8 DEF WalkIsSound
  <2>3. walk.next <= loaded /\ walk.next \in Nat /\ loaded + 1 >= walk.next
    BY <1>5, <2>2
  <2>4. \A j \in 1 .. Len(plugins') : Ready(plugins'[j]) \/ plugins'[j].id = walk.cur \/ plugins'[j].id >= walk.next
    BY <1>3, <1>4, <1>8, <2>1, <2>3 DEF WalkIsSound
  <2>5. /\ walk.cur # 0 => \E j \in 1 .. Len(plugins') : plugins'[j].id = walk.cur
        /\ \E j \in 1 .. Len(plugins') : plugins'[j].id = walk.next
    BY <1>3, <1>4, <1>8, <2>2 DEF WalkIsSound
  <2> QED  BY <1>2, <1>3, <1>4, <1>8, <2>1, <2>4, <2>5 DEF PluginsInv, WalkIsSound
<1> QED  BY <1>2, <1>6, <1>7, <1>8

\* The place of a plugin, and the one after it.
LEMMA AtFacts ==
    ASSUME ListOk, NEW id, \E j \in 1 .. Len(plugins) : plugins[j].id = id
    PROVE  /\ At(id) \in 1 .. Len(plugins) /\ plugins[At(id)].id = id
           /\ \A j \in 1 .. Len(plugins) : plugins[j].id = id => j = At(id)
<1>1. /\ Len(plugins) \in Nat /\ DOMAIN plugins = 1 .. Len(plugins)
      /\ \A j \in 1 .. Len(plugins) : plugins[j].id \in 1 .. loaded
  BY PluginFacts
<1>2. \A j, k \in 1 .. Len(plugins) : j < k => plugins[j].id < plugins[k].id
  BY DEF ListOk
<1>3. \A j, k \in 1 .. Len(plugins) : plugins[j].id = plugins[k].id => j = k
  <2> SUFFICES ASSUME NEW j \in 1 .. Len(plugins), NEW k \in 1 .. Len(plugins), plugins[j].id = plugins[k].id, j < k
               PROVE  FALSE
    BY <1>1
  <2>1. plugins[j].id < plugins[k].id /\ plugins[j].id \in Nat
    BY <1>1, <1>2
  <2> QED  BY <2>1
<1> QED  BY <1>1, <1>3 DEF At

LEMMA StartInvs == PluginsInv /\ (StartPlugins \/ StartNext \/ StartDone) => PluginsInv'
<1> SUFFICES ASSUME PluginsInv, StartPlugins \/ StartNext \/ StartDone PROVE PluginsInv'
  OBVIOUS
<1>1. UNCHANGED <<plugins, ninstance, loaded, failed, latecomers>>
  BY DEF StartPlugins, StartNext, StartDone
<1>2. ListOk /\ LoadsAreCounted /\ WalkIsSound
  BY DEF PluginsInv
<1>3. ListOk' /\ LoadsAreCounted'
  BY <1>1, <1>2 DEF ListOk, LoadsAreCounted, Marked, Of
<1>4. /\ Len(plugins) \in Nat /\ loaded \in Nat
      /\ \A j \in 1 .. Len(plugins) : plugins[j].id \in 1 .. loaded
      /\ \A j, k \in 1 .. Len(plugins) : j < k => plugins[j].id < plugins[k].id
  BY <1>2, PluginFacts DEF ListOk
<1>5. \A j \in 1 .. Len(plugins) + 1 :
         IF j = Len(plugins) + 1 THEN IdAt(j) = 0 ELSE IdAt(j) = plugins[j].id /\ IdAt(j) \in 1 .. loaded
  BY <1>4 DEF IdAt
<1>6. CASE StartPlugins
  <2>1. phase = "config" /\ phase' = "starting" /\ walk' = [cur |-> 0, next |-> IdAt(1)] /\ latecomers = {}
    BY <1>2, <1>6 DEF StartPlugins, WalkIsSound
  <2>2. walk'.cur = 0 /\ walk'.next = IdAt(1) /\ IdAt(1) \in Nat /\ walk' \in [cur : Nat, next : Nat]
    BY <1>4, <1>5, <2>1
  <2>3. IdAt(1) # 0 => 0 < IdAt(1) /\ 1 \in 1 .. Len(plugins) /\ plugins[1].id = IdAt(1)
    BY <1>4, <1>5, <2>2
  <2>4. \A j \in 1 .. Len(plugins) : IdAt(1) # 0 /\ plugins[j].id >= IdAt(1)
    <3> SUFFICES ASSUME NEW j \in 1 .. Len(plugins)  PROVE IdAt(1) # 0 /\ plugins[j].id >= IdAt(1)
      OBVIOUS
    <3>1. 1 \in 1 .. Len(plugins) /\ IdAt(1) = plugins[1].id
      BY <1>4, <1>5
    <3>2. CASE j = 1
      BY <1>4, <3>1, <3>2
    <3>3. CASE j > 1
      BY <1>4, <3>1, <3>3
    <3> QED  BY <3>2, <3>3
  <2> QED  BY <1>1, <1>3, <2>1, <2>2, <2>3, <2>4 DEF PluginsInv, WalkIsSound
<1>7. CASE StartNext
  <2> DEFINE p == At(walk.next)
             n == IdAt(p + 1)
  <2>1. /\ phase = "starting" /\ phase' = phase /\ walk.cur = 0 /\ walk.next # 0
        /\ walk' = [cur |-> walk.next, next |-> n]
    BY <1>7 DEF StartNext
  <2>2. latecomers = {} /\ \E j \in 1 .. Len(plugins) : plugins[j].id = walk.next
    BY <1>2, <2>1 DEF WalkIsSound
  <2>3. p \in 1 .. Len(plugins) /\ plugins[p].id = walk.next
    BY <1>2, <2>2, AtFacts
  <2> HIDE DEF p
  <2>4. p + 1 \in 1 .. Len(plugins) + 1
    BY <1>4, <2>3
  <2>5. IF p = Len(plugins) THEN n = 0 ELSE p + 1 \in 1 .. Len(plugins) /\ n = plugins[p + 1].id /\ n \in 1 .. loaded
    BY <1>4, <1>5, <2>3, <2>4
  <2> HIDE DEF n
  <2>6. walk'.cur = walk.next /\ walk'.next = n /\ walk' \in [cur : Nat, next : Nat]
    BY <1>4, <2>1, <2>3, <2>5
  <2>7. n # 0 => walk.next < n /\ \E j \in 1 .. Len(plugins) : plugins[j].id = n
    BY <1>4, <2>3, <2>5
  <2>8. ASSUME NEW j \in 1 .. Len(plugins), plugins[j].id >= walk.next
        PROVE  plugins[j].id = walk.next \/ (n # 0 /\ plugins[j].id >= n)
    <3>1. CASE j < p
      BY <1>4, <2>3, <2>8, <3>1
    <3>2. CASE j = p
      BY <2>3, <3>2
    <3>3. CASE j = p + 1
      BY <1>4, <2>3, <2>5, <3>3
    <3>4. CASE j > p + 1
      <4>1. p # Len(plugins) /\ p + 1 \in 1 .. Len(plugins)
        BY <1>4, <2>3, <3>4
      <4> QED  BY <1>4, <2>5, <3>4, <4>1
    <3> QED  BY <1>4, <2>3, <3>1, <3>2, <3>3, <3>4
  <2>9. \A j \in 1 .. Len(plugins) :
           \/ Ready(plugins[j])
           \/ plugins[j].id = walk.next
           \/ n # 0 /\ plugins[j].id >= n
    <3>1. \A j \in 1 .. Len(plugins) : plugins[j].id # 0
      BY <1>4
    <3> QED  BY <1>2, <2>1, <2>2, <2>8, <3>1 DEF WalkIsSound
  <2> QED  BY <1>1, <1>3, <2>1, <2>2, <2>3, <2>6, <2>7, <2>9 DEF PluginsInv, WalkIsSound
<1>8. CASE StartDone
  <2>1. phase = "starting" /\ walk.cur = 0 /\ walk.next = 0 /\ phase' = "running" /\ walk' = walk
    BY <1>8 DEF StartDone
  <2>2. \A j \in 1 .. Len(plugins) : plugins[j].id # 0
    BY <1>4
  <2>3. \A j \in 1 .. Len(plugins) : Ready(plugins[j]) \/ plugins[j].id \in latecomers
    BY <1>2, <2>1, <2>2 DEF WalkIsSound
  <2> QED  BY <1>1, <1>2, <1>3, <2>1, <2>3 DEF PluginsInv, WalkIsSound
<1> QED  BY <1>6, <1>7, <1>8

\* A plugin whose state changes stays what it is otherwise.
LEMMA StateChanges ==
    ASSUME ListOk, LoadsAreCounted, UNCHANGED <<ninstance, loaded, failed>>,
           NEW k \in 1 .. Len(plugins), NEW r \in PluginRecords,
           r.id = plugins[k].id, r.name = plugins[k].name, r.instance = plugins[k].instance,
           plugins' = [plugins EXCEPT ![k] = r]
    PROVE  /\ ListOk' /\ LoadsAreCounted' /\ Len(plugins') = Len(plugins)
           /\ plugins'[k] = r
           /\ \A j \in 1 .. Len(plugins) : j # k => plugins'[j] = plugins[j]
<1>1. /\ Len(plugins) \in Nat /\ DOMAIN plugins = 1 .. Len(plugins) /\ loaded \in Nat
      /\ \A j \in 1 .. Len(plugins) : plugins[j] \in PluginRecords /\ plugins[j].id \in 1 .. loaded
  BY PluginFacts
<1>2. /\ plugins \in Seq(PluginRecords)
      /\ \A i, j \in 1 .. Len(plugins) : i < j => plugins[i].id < plugins[j].id
      /\ \A i, j \in 1 .. Len(plugins) : plugins[i].instance = plugins[j].instance => i = j
  BY DEF ListOk
<1>3. plugins' \in Seq(PluginRecords) /\ Len(plugins') = Len(plugins) /\ DOMAIN plugins' = 1 .. Len(plugins)
  BY <1>1, <1>2, ExceptSeq, LenProperties
<1>4. plugins'[k] = r /\ \A j \in 1 .. Len(plugins) : j # k => plugins'[j] = plugins[j]
  BY <1>1
<1>5. \A j \in 1 .. Len(plugins) :
         /\ plugins'[j].id = plugins[j].id /\ plugins'[j].name = plugins[j].name
         /\ plugins'[j].instance = plugins[j].instance /\ plugins'[j] \in PluginRecords
  BY <1>1, <1>4
<1>6. ListOk'
  BY <1>1, <1>2, <1>3, <1>5 DEF ListOk
<1>7. \A d : Marked(plugins, Of(d))' = Marked(plugins, Of(d))
  <2>1. \A d : Of(d)' = Of(d)
    BY DEF Of
  <2>2. \A d : \A j \in 1 .. Len(plugins) : plugins'[j] \in Of(d) <=> plugins[j] \in Of(d)
    BY <1>1, <1>5 DEF Of
  <2> QED  BY <1>1, <1>3, <2>1, <2>2 DEF Marked
<1>8. LoadsAreCounted'
  BY <1>7 DEF LoadsAreCounted
<1> QED  BY <1>3, <1>4, <1>6, <1>8

LEMMA StartedInv == ASSUME PluginsInv, NEW ok \in BOOLEAN, Started(ok) PROVE PluginsInv'
<1> DEFINE k == At(walk.cur)
           to == IF ok THEN "started" ELSE "failed"
           r == [plugins[k] EXCEPT !.state = to]
<1>1. /\ phase = "starting" /\ walk.cur # 0
      /\ plugins' = [plugins EXCEPT ![k].state = to]
      /\ phase' = IF ok \/ plugins[k].mayFail THEN phase ELSE "exited"
      /\ walk' = [walk EXCEPT !.cur = 0]
      /\ UNCHANGED <<ninstance, loaded, failed, latecomers>>
  BY DEF Started
<1>2. ListOk /\ LoadsAreCounted /\ WalkIsSound /\ \E j \in 1 .. Len(plugins) : plugins[j].id = walk.cur
  BY <1>1 DEF PluginsInv, WalkIsSound
<1>3. /\ k \in 1 .. Len(plugins) /\ plugins[k].id = walk.cur
      /\ \A j \in 1 .. Len(plugins) : plugins[j].id = walk.cur => j = k
  BY <1>2, AtFacts
<1> HIDE DEF k
<1>4. plugins[k] \in PluginRecords
  BY <1>2, <1>3, PluginFacts
<1>5. /\ r \in PluginRecords /\ r.id = plugins[k].id /\ r.name = plugins[k].name
      /\ r.instance = plugins[k].instance /\ r.mayFail = plugins[k].mayFail /\ r.state = to
  BY <1>4 DEF PluginRecords
<1>6. plugins' = [plugins EXCEPT ![k] = r]
  BY <1>1
<1> HIDE DEF r
<1>7. /\ ListOk' /\ LoadsAreCounted' /\ Len(plugins') = Len(plugins)
      /\ plugins'[k] = r
      /\ \A j \in 1 .. Len(plugins) : j # k => plugins'[j] = plugins[j]
  BY <1>1, <1>2, <1>3, <1>5, <1>6, StateChanges
<1>8. walk' \in [cur : Nat, next : Nat] /\ walk'.cur = 0 /\ walk'.next = walk.next
  BY <1>1, <1>2 DEF WalkIsSound
<1>9. CASE phase' = "exited"
  BY <1>7, <1>8, <1>9 DEF PluginsInv, WalkIsSound
<1>10. CASE phase' # "exited"
  <2>1. phase' = "starting" /\ Ready(plugins'[k])
    BY <1>1, <1>5, <1>7, <1>10 DEF Ready
  <2>2. \A j \in 1 .. Len(plugins) : plugins'[j].id = plugins[j].id
    BY <1>5, <1>7
  <2>3. \A j \in 1 .. Len(plugins) :
           \/ Ready(plugins'[j])
           \/ plugins'[j].id \in latecomers
           \/ walk.next # 0 /\ plugins'[j].id >= walk.next
    BY <1>1, <1>2, <1>3, <1>7, <2>1 DEF WalkIsSound
  <2>4. walk.next # 0 => /\ latecomers = {} /\ 0 < walk.next
                         /\ \E j \in 1 .. Len(plugins) : plugins'[j].id = walk.next
    BY <1>1, <1>2, <2>2 DEF WalkIsSound
  <2> QED  BY <1>1, <1>7, <1>8, <2>1, <2>3, <2>4 DEF PluginsInv, WalkIsSound
<1> QED  BY <1>9, <1>10

LEMMA StopInv == ASSUME PluginsInv, NEW k \in DOMAIN plugins, Stop(k) PROVE PluginsInv'
<1> DEFINE r == [plugins[k] EXCEPT !.refcnt = 0, !.state = "stopped"]
<1>1. /\ phase = "running" /\ plugins' = [plugins EXCEPT ![k].refcnt = 0, ![k].state = "stopped"]
      /\ UNCHANGED <<ninstance, phase, walk, loaded, failed, latecomers>>
  BY DEF Stop
<1>2. ListOk /\ LoadsAreCounted /\ WalkIsSound
  BY DEF PluginsInv
<1>3. k \in 1 .. Len(plugins) /\ plugins[k] \in PluginRecords /\ DOMAIN plugins = 1 .. Len(plugins)
  BY <1>2, PluginFacts
<1>4. /\ r \in PluginRecords /\ r.id = plugins[k].id /\ r.name = plugins[k].name
      /\ r.instance = plugins[k].instance /\ r.state = "stopped"
  BY <1>3 DEF PluginRecords
<1>5. plugins' = [plugins EXCEPT ![k] = r]
  BY <1>1, <1>3
<1> HIDE DEF r
<1>6. /\ ListOk' /\ LoadsAreCounted' /\ Len(plugins') = Len(plugins)
      /\ plugins'[k] = r
      /\ \A j \in 1 .. Len(plugins) : j # k => plugins'[j] = plugins[j]
  BY <1>1, <1>2, <1>3, <1>4, <1>5, StateChanges
<1>7. \A j \in 1 .. Len(plugins) : Ready(plugins'[j]) \/ plugins'[j].id \in latecomers
  BY <1>1, <1>2, <1>4, <1>6 DEF WalkIsSound, Ready
<1> QED  BY <1>1, <1>2, <1>6, <1>7 DEF PluginsInv, WalkIsSound

LEMMA UnloadInv == ASSUME PluginsInv, NEW k \in DOMAIN plugins, Unload(k) PROVE PluginsInv'
<1> DEFINE r == RemoveAt(plugins, k)
           name == plugins[k].name
           C(d) == Cardinality(Marked(plugins, Of(d)))
<1>1. /\ phase = "running" /\ plugins' = r /\ ninstance' = [ninstance EXCEPT ![name] = @ - 1]
      /\ UNCHANGED <<phase, walk, loaded, failed, latecomers>>
  BY DEF Unload
<1>2. ListOk /\ LoadsAreCounted /\ WalkIsSound
  BY DEF PluginsInv
<1>3. /\ Len(plugins) \in Nat /\ DOMAIN plugins = 1 .. Len(plugins) /\ k \in 1 .. Len(plugins)
      /\ \A j \in 1 .. Len(plugins) : plugins[j] \in PluginRecords /\ plugins[j].id \in 1 .. loaded
      /\ plugins \in Seq(PluginRecords)
      /\ \A i, j \in 1 .. Len(plugins) : i < j => plugins[i].id < plugins[j].id
      /\ \A i, j \in 1 .. Len(plugins) : plugins[i].instance = plugins[j].instance => i = j
      /\ loaded \in Nat
  BY <1>2, PluginFacts DEF ListOk
<1>4. /\ r \in Seq(PluginRecords) /\ Len(r) = Len(plugins) - 1
      /\ \A j \in 1 .. Len(plugins) - 1 : r[j] = IF j < k THEN plugins[j] ELSE plugins[j + 1]
  <2>1. plugins \in Seq(PluginRecords) /\ k \in 1 .. Len(plugins)
    BY <1>3
  <2> QED  BY <2>1, RemoveAtElements
<1>5. \A d : C(d) \in Nat /\ Cardinality(Marked(r, Of(d))) = C(d) - (IF d = name THEN 1 ELSE 0)
  <2> SUFFICES ASSUME NEW d  PROVE C(d) \in Nat /\ Cardinality(Marked(r, Of(d))) = C(d) - (IF d = name THEN 1 ELSE 0)
    OBVIOUS
  <2>1. plugins[k] \in Of(d) <=> d = name
    BY <1>3 DEF Of
  <2> QED  BY <1>3, <2>1, AppendCounts, RemoveAtCounts
<1>0. name \in Descrs
  BY <1>3 DEF PluginRecords
<1> HIDE DEF r, C, name
<1> DEFINE was(j) == IF j < k THEN j ELSE j + 1
<1>6. \A j \in 1 .. Len(r) : was(j) \in 1 .. Len(plugins) /\ r[j] = plugins[was(j)] /\ j \in Nat
  BY <1>3, <1>4
<1>7. \A i, j \in 1 .. Len(r) : /\ i < j => was(i) < was(j)
                                /\ was(i) = was(j) => i = j
  BY <1>3, <1>4
<1> HIDE DEF was
<1>8. ListOk'
  <2>1. \A j \in 1 .. Len(r) : r[j].id \in 1 .. loaded
    BY <1>3, <1>6
  <2>2. \A i, j \in 1 .. Len(r) : i < j => r[i].id < r[j].id
    BY <1>3, <1>6, <1>7
  <2>3. \A i, j \in 1 .. Len(r) : r[i].instance = r[j].instance => i = j
    BY <1>3, <1>6, <1>7
  <2> QED  BY <1>1, <1>3, <1>4, <2>1, <2>2, <2>3 DEF ListOk
<1>9. LoadsAreCounted'
  <2>1. /\ ninstance \in [Descrs -> Int] /\ failed \in [Descrs -> Nat]
        /\ \A d \in Descrs : /\ ninstance[d] = C(d) + failed[d]
                             /\ PluginDescrs[d].singleton => C(d) <= 1
    BY <1>2 DEF LoadsAreCounted, C
  <2>2. ninstance' \in [Descrs -> Int]
    BY <1>0, <1>1, <2>1
  <2>3. ASSUME NEW d \in Descrs
        PROVE  /\ ninstance'[d] = Cardinality(Marked(r, Of(d))) + failed[d]
               /\ PluginDescrs[d].singleton => Cardinality(Marked(r, Of(d))) <= 1
    <3>1. ninstance'[d] = IF d = name THEN ninstance[d] - 1 ELSE ninstance[d]
      BY <1>1, <2>1
    <3>2. C(d) \in Nat /\ failed[d] \in Nat /\ Cardinality(Marked(r, Of(d))) = C(d) - (IF d = name THEN 1 ELSE 0)
      BY <1>5, <2>1
    <3>3. ninstance[d] = C(d) + failed[d] /\ (PluginDescrs[d].singleton => C(d) <= 1)
      BY <2>1
    <3> HIDE DEF name, C
    <3> QED  BY <3>1, <3>2, <3>3
  <2>4. \A d : Of(d)' = Of(d)
    BY DEF Of
  <2> QED  BY <1>1, <2>1, <2>2, <2>3, <2>4 DEF LoadsAreCounted, Marked
<1>10. \A j \in 1 .. Len(r) : Ready(r[j]) \/ r[j].id \in latecomers
  BY <1>1, <1>2, <1>6 DEF WalkIsSound
<1> QED  BY <1>1, <1>2, <1>8, <1>9, <1>10 DEF PluginsInv, WalkIsSound

LEMMA PluginsNextInv == PluginsInv /\ [PluginsNext]_pluginVars => PluginsInv'
<1> SUFFICES ASSUME PluginsInv, [PluginsNext]_pluginVars PROVE PluginsInv'
  OBVIOUS
<1>1. CASE ConfigLoad \/ LoadForHelp
  BY <1>1, ConfigLoadInv
<1>2. CASE Request
  BY <1>2, RequestInv
<1>3. CASE StartPlugins \/ StartNext \/ StartDone
  BY <1>3, StartInvs
<1>4. CASE \E ok \in BOOLEAN : Started(ok)
  BY <1>4, StartedInv
<1>5. CASE \E j \in DOMAIN plugins : Stop(j) \/ Unload(j)
  BY <1>5, StopInv, UnloadInv
<1>6. CASE UNCHANGED pluginVars
  BY <1>6 DEF pluginVars, PluginsInv, ListOk, LoadsAreCounted, Marked, Of, WalkIsSound, Ready
<1> QED  BY <1>1, <1>2, <1>3, <1>4, <1>5, <1>6 DEF PluginsNext

\* Instances have a name of their own, a singleton is there once and can be
\* loaded when it is not, all that are loaded in time are started before the
\* daemon runs, and arguments are accepted in any order.
THEOREM PluginsSound == PluginsSpec => []PluginsAreSound
<1>1. PluginsInv => PluginsAreSound
  <2> SUFFICES ASSUME PluginsInv PROVE PluginsAreSound
    OBVIOUS
  <2>1. ListOk /\ LoadsAreCounted /\ WalkIsSound
    BY DEF PluginsInv
  <2>2. /\ DOMAIN plugins = 1 .. Len(plugins)
        /\ \A j \in 1 .. Len(plugins) : plugins[j] \in PluginRecords
        /\ plugins \in Seq(PluginRecords)
    BY <2>1, PluginFacts DEF ListOk
  <2>3. \A j, k \in DOMAIN plugins : plugins[j].instance = plugins[k].instance => j = k
    BY <2>1, <2>2 DEF ListOk
  <2>4. ASSUME NEW d \in Descrs
        PROVE  LET n == Cardinality({j \in DOMAIN plugins : plugins[j].name = d})
               IN  /\ PluginDescrs[d].singleton => n <= 1
                   /\ failed[d] = 0 /\ n = 0 => CheckSingleton(PluginDescrs[d], ninstance[d] + 1)
    <3>1. Marked(plugins, Of(d)) = {j \in DOMAIN plugins : plugins[j].name = d}
      BY <2>2 DEF Marked, Of
    <3>2. ninstance[d] = Cardinality(Marked(plugins, Of(d))) + failed[d]
          /\ (PluginDescrs[d].singleton => Cardinality(Marked(plugins, Of(d))) <= 1)
      BY <2>1 DEF LoadsAreCounted
    <3> QED  BY <3>1, <3>2 DEF CheckSingleton
  <2>5. phase = "running" => \A j \in DOMAIN plugins :
          \/ plugins[j].state \in {"started", "stopped"}
          \/ plugins[j].state = "failed" /\ plugins[j].mayFail
          \/ plugins[j].id \in latecomers
    BY <2>1, <2>2 DEF WalkIsSound, Ready
  <2>6. ASSUME NEW args \in ArgLists, NEW d \in Descrs
        PROVE  LET keys == ToSet(PluginDescrs[d].keys)
                   r == ParseArgs(PluginDescrs[d].keys, args)
               IN  /\ r.ok <=> \A j \in DOMAIN args : args[j].key \in keys /\ args[j].valid
                   /\ r.ok => r.set = {args[j].key : j \in DOMAIN args}
    <3>1. args \in Seq([key : {args[j].key : j \in DOMAIN args}, valid : BOOLEAN])
      BY PluginsAssumption
    <3>2. PluginDescrs[d].keys \in Seq(ToSet(PluginDescrs[d].keys))
      BY PluginsAssumption DEF Descrs
    <3>3. IsParsed(PluginDescrs[d].keys, args, Len(args), ParseArgs(PluginDescrs[d].keys, args))
      BY <3>1, <3>2, ParseArgsFacts
    <3>4. DOMAIN args = 1 .. Len(args)
      BY <3>1, LenProperties
    <3> QED  BY <3>3, <3>4 DEF IsParsed
  <2> QED  BY <2>3, <2>4, <2>5, <2>6 DEF PluginsAreSound
<1> QED  BY <1>1, PluginsInitInv, PluginsNextInv, PTL DEF PluginsSpec

------------------------------------------------------------------------------
(* Frames on the bus: where the fields are in one, and what the decoder has *)
(* read of them.                                                            *)

LEMMA TwoAndMore ==
    ASSUME NEW a, NEW b, NEW x
    PROVE  /\ LET e == <<a, b>> \o <<x>>
              IN  e \in Seq({a, b, x}) /\ Len(e) = 3 /\ e[1] = a /\ e[2] = b /\ e[3] = x
           /\ \A y : LET e == <<a, b>> \o <<x, y>>
                     IN  /\ e \in Seq({a, b, x, y}) /\ Len(e) = 4
                         /\ e[1] = a /\ e[2] = b /\ e[3] = x /\ e[4] = y
<1>1. LET e == <<a, b>> \o <<x>>
      IN  e \in Seq({a, b, x}) /\ Len(e) = 3 /\ e[1] = a /\ e[2] = b /\ e[3] = x
  <2>1. <<a, b>> \in Seq({a, b, x}) /\ <<x>> \in Seq({a, b, x})
    OBVIOUS
  <2> QED  BY <2>1, ConcatProperties
<1>2. ASSUME NEW y
      PROVE  LET e == <<a, b>> \o <<x, y>>
             IN  /\ e \in Seq({a, b, x, y}) /\ Len(e) = 4
                 /\ e[1] = a /\ e[2] = b /\ e[3] = x /\ e[4] = y
  <2>1. <<a, b>> \in Seq({a, b, x, y}) /\ <<x, y>> \in Seq({a, b, x, y})
    OBVIOUS
  <2> QED  BY <2>1, ConcatProperties
<1> QED  BY <1>1, <1>2

\* A field of ours as four arguments, or three.
LEMMA EncodeFieldFacts ==
    ASSUME NEW f, WellFormed(f)
    PROVE  LET e == EncodeField(f)
               ty == [base |-> f.base, array |-> f.array]
           IN  /\ e \in Seq(ToSet(e)) /\ Len(e) = 2 + Len(EncodeValues(f)) /\ Len(e) \in Nat
               /\ e[1] = Arg("q", f.tag) /\ e[2] = Arg("q", ty)
               /\ f.array => /\ Len(e) = 4 /\ e[3] = Arg("u", Len(f.vals))
                             /\ e[4] = ArrayArg(f.base, f.vals)
               /\ IsBlob(f) => Len(e) = 3 /\ e[3] = ArrayArg("blob", f.vals)
               /\ ~f.array /\ f.base # "blob" => Len(e) = 3 /\ e[3] = Arg(DbusType[f.base], f.vals[1])
<1> DEFINE e == EncodeField(f)
           a == Arg("q", f.tag)
           b == Arg("q", [base |-> f.base, array |-> f.array])
           v == EncodeValues(f)
<1>1. e = <<a, b>> \o v
  BY DEF EncodeField
<1>2. CASE f.array
  <2> DEFINE x == Arg("u", Len(f.vals))
             y == ArrayArg(f.base, f.vals)
  <2>1. v = <<x, y>>
    BY <1>2 DEF EncodeValues
  <2>2. ~IsBlob(f)
    BY <1>2 DEF IsBlob
  <2> HIDE DEF x, y, a, b, v
  <2>3. e \in Seq({a, b, x, y}) /\ Len(e) = 4 /\ e[1] = a /\ e[2] = b /\ e[3] = x /\ e[4] = y /\ Len(v) = 2
    BY <1>1, <2>1, TwoAndMore
  <2> HIDE DEF e
  <2>4. e \in Seq(ToSet(e))
    BY <2>3, InItsSet
  <2> QED  BY <1>2, <2>2, <2>3, <2>4 DEF a, b, x, y, e, v
<1>3. CASE ~f.array
  <2> DEFINE x == IF f.base = "blob" THEN ArrayArg("blob", f.vals) ELSE Arg(DbusType[f.base], f.vals[1])
  <2>1. v = <<x>>
    BY <1>3 DEF EncodeValues
  <2>2. /\ IsBlob(f) => x = ArrayArg("blob", f.vals)
        /\ f.base # "blob" => x = Arg(DbusType[f.base], f.vals[1])
    BY <1>3 DEF IsBlob
  <2> HIDE DEF x, a, b, v
  <2>3. e \in Seq({a, b, x}) /\ Len(e) = 3 /\ e[1] = a /\ e[2] = b /\ e[3] = x /\ Len(v) = 1
    BY <1>1, <2>1, TwoAndMore
  <2> HIDE DEF e
  <2>4. e \in Seq(ToSet(e))
    BY <2>3, InItsSet
  <2> QED  BY <1>3, <2>2, <2>3, <2>4 DEF a, b, e, v
<1>4. f.array \in BOOLEAN
  BY Zenon DEF WellFormed
<1> QED  BY <1>2, <1>3, <1>4

\* The arguments of each field come after those of the fields before it.
Spans(fs) == [k \in 1 .. Len(fs) |-> Len(EncodeField(fs[k]))]
HasFields(fr, base, fs) ==
    \A k \in 1 .. Len(fs) : \A j \in 1 .. Len(EncodeField(fs[k])) :
        LET p == base + Upto(Spans(fs), k - 1) + j
        IN  p \in DOMAIN fr /\ fr[p] = EncodeField(fs[k])[j]

IsFields(fs) == fs \in Seq(ToSet(fs)) /\ \A k \in DOMAIN fs : WellFormed(fs[k])

LEMMA FieldsFacts ==
    ASSUME NEW fs, IsFields(fs)
    PROVE  /\ Len(fs) \in Nat /\ DOMAIN fs = 1 .. Len(fs) /\ \A k \in 1 .. Len(fs) : WellFormed(fs[k])
           /\ Upto(Spans(fs), 0) = 0
           /\ \A k \in 1 .. Len(fs) : /\ Upto(Spans(fs), k - 1) \in Nat
                                      /\ Upto(Spans(fs), k) = Upto(Spans(fs), k - 1) + Len(EncodeField(fs[k]))
<1>1. Len(fs) \in Nat /\ DOMAIN fs = 1 .. Len(fs)
  BY DEF IsFields
<1>2. \A k \in 1 .. Len(fs) : WellFormed(fs[k])
  BY <1>1 DEF IsFields
<1> DEFINE L == Spans(fs)
           n == Len(fs)
<1>3. \A k \in 1 .. n : L[k] = Len(EncodeField(fs[k])) /\ L[k] \in Nat
  <2> SUFFICES ASSUME NEW k \in 1 .. n  PROVE L[k] = Len(EncodeField(fs[k])) /\ L[k] \in Nat
    OBVIOUS
  <2>1. Len(EncodeField(fs[k])) \in Nat
    BY <1>2, EncodeFieldFacts
  <2> QED  BY <2>1 DEF Spans
<1> HIDE DEF L
<1>4. Upto(L, 0) = 0
  <2>1. \A i \in 1 .. n : L[i] \in Int
    BY <1>3
  <2> QED  BY <1>1, <2>1, UptoFacts
<1>5. ASSUME NEW k \in 1 .. n  PROVE Upto(L, k - 1) \in Nat /\ Upto(L, k) = Upto(L, k - 1) + L[k]
  <2>1. k \in Nat /\ k > 0 /\ (\A i \in 1 .. k : L[i] \in Int) /\ k - 1 \in 0 .. n
    BY <1>1, <1>3
  <2>2. \A i \in 0 .. n : Upto(L, i) \in Nat
    BY <1>1, <1>3, UptoGrows
  <2>3. Upto(L, k) = Upto(L, k - 1) + L[k]
    BY <2>1, UptoFacts
  <2> QED  BY <2>1, <2>2, <2>3
<1> QED  BY <1>1, <1>2, <1>3, <1>4, <1>5 DEF L

LEMMA FieldsAreIn ==
    ASSUME NEW fs, IsFields(fs)
    PROVE  /\ EncodeFields(fs) \in Seq(ToSet(EncodeFields(fs)))
           /\ HasFields(EncodeFields(fs), 0, fs)
<1> DEFINE s == [k \in DOMAIN fs |-> EncodeField(fs[k])]
           T == UNION {ToSet(EncodeField(fs[k])) : k \in DOMAIN fs}
           q == EncodeFields(fs)
<1>1. Len(fs) \in Nat /\ DOMAIN fs = 1 .. Len(fs) /\ \A k \in 1 .. Len(fs) : WellFormed(fs[k])
  BY FieldsFacts
<1>2. \A k \in 1 .. Len(fs) : EncodeField(fs[k]) \in Seq(T)
  <2> SUFFICES ASSUME NEW k \in 1 .. Len(fs)  PROVE EncodeField(fs[k]) \in Seq(T)
    OBVIOUS
  <2> DEFINE e == EncodeField(fs[k])
  <2>1. e \in Seq(ToSet(e))
    BY <1>1, EncodeFieldFacts
  <2>2. ToSet(e) \subseteq T
    BY <1>1
  <2> HIDE DEF e, T
  <2>3. \A i \in 1 .. Len(e) : e[i] \in T
    BY <2>1, <2>2
  <2> QED  BY <2>1, <2>3 DEF e
<1>3. s \in Seq(Seq(T)) /\ Len(s) = Len(fs) /\ \A k \in 1 .. Len(fs) : s[k] = EncodeField(fs[k])
  <2> HIDE DEF T
  <2> QED  BY <1>1, <1>2
<1>4. q = FlattenSeq(s)
  BY DEF EncodeFields
<1>5. Lengths(s) = Spans(fs)
  <2> HIDE DEF s
  <2> QED  BY <1>3 DEF Lengths, Spans
<1> HIDE DEF s, T, q
<1>6. /\ q \in Seq(T)
      /\ \A k \in 1 .. Len(s) : \A j \in 1 .. Len(s[k]) :
            LET p == Upto(Lengths(s), k - 1) + j
            IN  p \in 1 .. Len(q) /\ q[p] = s[k][j]
  BY <1>3, <1>4, FlattenFacts
<1>7. q \in Seq(ToSet(q)) /\ DOMAIN q = 1 .. Len(q)
  <2>1. DOMAIN q = 1 .. Len(q) /\ Len(q) \in Nat
    BY <1>6
  <2>2. \A i \in 1 .. Len(q) : q[i] \in ToSet(q)
    BY <2>1 DEF ToSet
  <2> QED  BY <1>6, <2>1, <2>2
<1>8. HasFields(q, 0, fs)
  <2> SUFFICES ASSUME NEW k \in 1 .. Len(fs), NEW j \in 1 .. Len(EncodeField(fs[k]))
               PROVE  LET p == 0 + Upto(Spans(fs), k - 1) + j
                      IN  p \in DOMAIN q /\ q[p] = EncodeField(fs[k])[j]
    BY DEF HasFields
  <2>1. Upto(Spans(fs), k - 1) \in Nat
    BY FieldsFacts
  <2>2. 0 + Upto(Spans(fs), k - 1) + j = Upto(Spans(fs), k - 1) + j
    BY <2>1
  <2> QED  BY <1>3, <1>5, <1>6, <1>7, <2>2
<1> QED  BY <1>7, <1>8 DEF q

\* What is before the fields moves them.
LEMMA FieldsAfter ==
    ASSUME NEW fs, IsFields(fs), NEW T, NEW pre \in Seq(T), NEW q, q \in Seq(ToSet(q)), HasFields(q, 0, fs)
    PROVE  /\ HasFields(pre \o q, Len(pre), fs)
           /\ DOMAIN (pre \o q) = 1 .. Len(pre) + Len(q)
           /\ \A i \in 1 .. Len(pre) : i \in DOMAIN (pre \o q) /\ (pre \o q)[i] = pre[i]
<1> DEFINE S == T \cup ToSet(q)
           m == Len(pre)
           r == pre \o q
<1>1. pre \in Seq(S) /\ q \in Seq(S)
  <2>1. \A i \in 1 .. Len(pre) : pre[i] \in S
    OBVIOUS
  <2>2. \A i \in 1 .. Len(q) : q[i] \in S
    OBVIOUS
  <2> HIDE DEF S
  <2> QED  BY <2>1, <2>2
<1> HIDE DEF S
<1>2. /\ r \in Seq(S) /\ Len(r) = m + Len(q)
      /\ \A i \in 1 .. m + Len(q) : r[i] = IF i <= m THEN pre[i] ELSE q[i - m]
  BY <1>1, ConcatProperties
<1>3. m \in Nat /\ Len(q) \in Nat /\ DOMAIN q = 1 .. Len(q) /\ DOMAIN r = 1 .. Len(r)
  BY <1>1, <1>2
<1> HIDE DEF m, r
<1>4. \A i \in 1 .. m : i \in 1 .. m + Len(q) /\ i <= m
  BY <1>3
<1>5. HasFields(r, m, fs)
  <2> SUFFICES ASSUME NEW k \in 1 .. Len(fs), NEW j \in 1 .. Len(EncodeField(fs[k]))
               PROVE  LET p == m + Upto(Spans(fs), k - 1) + j
                      IN  p \in DOMAIN r /\ r[p] = EncodeField(fs[k])[j]
    BY DEF HasFields
  <2> DEFINE u == Upto(Spans(fs), k - 1)
  <2>1. u \in Nat
    BY FieldsFacts
  <2>2. 0 + u + j \in DOMAIN q /\ q[0 + u + j] = EncodeField(fs[k])[j]
    BY DEF HasFields
  <2> HIDE DEF u
  <2>3. j \in Int
    <3>1. Len(EncodeField(fs[k])) \in Nat
      BY FieldsFacts, EncodeFieldFacts
    <3> QED  BY <3>1
  <2>4. u + j \in 1 .. Len(q) /\ 0 + u + j = u + j
    BY <1>3, <2>1, <2>2, <2>3
  <2>5. m + u + j \in 1 .. m + Len(q) /\ ~(m + u + j <= m) /\ (m + u + j) - m = u + j
    BY <1>3, <2>1, <2>3, <2>4
  <2>6. r[m + u + j] = q[u + j]
    BY <1>2, <2>5
  <2> QED  BY <1>2, <1>3, <2>2, <2>4, <2>5, <2>6 DEF u
<1> QED  BY <1>2, <1>3, <1>4, <1>5 DEF m, r

\* What one turn reads of a field that is where the decoder is.
LEMMA TakeFacts ==
    ASSUME NEW f, WellFormed(f), NEW p \in Nat,
           \A j \in 1 .. Len(EncodeField(f)) : p + j \in DOMAIN frame /\ frame[p + j] = EncodeField(f)[j]
    PROVE  LET ty == [base |-> f.base, array |-> f.array]
               n == Len(EncodeField(f)) - 2
           IN  /\ Is(p + 1, "q") /\ frame[p + 1].v = f.tag
               /\ Is(p + 2, "q") /\ frame[p + 2].v = ty
               /\ IF f.array /\ f.base = "blob" THEN ~Take(ty, p + 2).ok
                  ELSE Take(ty, p + 2) = [ok |-> TRUE, n |-> n, vals |-> f.vals]
<1> DEFINE e == EncodeField(f)
           ty == [base |-> f.base, array |-> f.array]
           q == p + 2
<1>1. /\ Len(e) \in Nat /\ e[1] = Arg("q", f.tag) /\ e[2] = Arg("q", ty)
      /\ f.array => /\ Len(e) = 4 /\ e[3] = Arg("u", Len(f.vals)) /\ e[4] = ArrayArg(f.base, f.vals)
      /\ IsBlob(f) => Len(e) = 3 /\ e[3] = ArrayArg("blob", f.vals)
      /\ ~f.array /\ f.base # "blob" => Len(e) = 3 /\ e[3] = Arg(DbusType[f.base], f.vals[1])
  BY EncodeFieldFacts
<1>2. f.array \in BOOLEAN /\ f.vals \in Seq(ToSet(f.vals)) /\ (~f.array /\ f.base # "blob" => Len(f.vals) = 1)
  BY Zenon DEF WellFormed
<1>3. Len(e) >= 3 /\ (f.array => Len(e) = 4) /\ (~f.array => Len(e) = 3)
  BY <1>1, <1>2 DEF IsBlob
<1> HIDE DEF e, ty
<1>4. \A j \in 1 .. Len(e) : p + j \in DOMAIN frame /\ frame[p + j] = e[j]
  BY DEF e
<1>5. /\ p + 1 \in DOMAIN frame /\ frame[p + 1] = e[1] /\ p + 2 \in DOMAIN frame /\ frame[p + 2] = e[2]
      /\ p + 3 \in DOMAIN frame /\ frame[p + 3] = e[3]
      /\ f.array => p + 4 \in DOMAIN frame /\ frame[p + 4] = e[4]
  <2>1. 1 \in 1 .. Len(e) /\ 2 \in 1 .. Len(e) /\ 3 \in 1 .. Len(e) /\ (f.array => 4 \in 1 .. Len(e))
    BY <1>1, <1>3
  <2> QED  BY <1>4, <2>1
<1>6. Is(p + 1, "q") /\ frame[p + 1].v = f.tag /\ Is(p + 2, "q") /\ frame[p + 2].v = ty
  BY <1>1, <1>5 DEF Is, Arg
<1>7. q \in Nat /\ q + 1 = p + 3 /\ q + 2 = p + 4
  OBVIOUS
<1>8. ty.base = f.base /\ ty.array = f.array
  BY DEF ty
<1> HIDE DEF q
<1>9. ASSUME ~(f.array /\ f.base = "blob")  PROVE Take(ty, q) = [ok |-> TRUE, n |-> Len(e) - 2, vals |-> f.vals]
  <2>1. CASE f.array
    <3> DEFINE a == frame[q + 2]
               n == frame[q + 1].v
    <3>1. /\ Is(q + 1, "u") /\ n = Len(f.vals) /\ Is(q + 2, "a")
          /\ a.v = f.vals /\ a.e = DbusType[f.base]
      BY <1>1, <1>5, <1>7, <2>1 DEF Is, Arg, ArrayArg
    <3>2. ~(ty.base = "blob" \/ n > Len(a.v) \/ (n > 0 /\ a.e # DbusType[ty.base]))
      BY <1>2, <1>8, <1>9, <2>1, <3>1
    <3>3. SubSeq(a.v, 1, n) = f.vals
      BY <1>2, <3>1
    <3>4. Take(ty, q) = TakeArray(ty, q)
      BY <1>8, <2>1 DEF Take
    <3>5. TakeArray(ty, q) = [ok |-> TRUE, n |-> 2, vals |-> SubSeq(a.v, 1, n)]
      BY <3>1, <3>2, Zenon DEF TakeArray
    <3>6. Len(e) - 2 = 2
      BY <1>3, <2>1
    <3> QED  BY <3>3, <3>4, <3>5, <3>6
  <2>2. CASE IsBlob(f)
    <3>1. /\ Is(q + 1, "a") /\ frame[q + 1].e = "y" /\ frame[q + 1].v = f.vals
      BY <1>1, <1>5, <1>7, <2>2 DEF Is, ArrayArg, DbusType
    <3>2. ~f.array /\ f.base = "blob"
      BY <2>2 DEF IsBlob
    <3>3. Take(ty, q) = [ok |-> TRUE, n |-> 1, vals |-> frame[q + 1].v]
      BY <1>8, <3>1, <3>2 DEF Take, TakeBasic
    <3>4. Len(e) - 2 = 1
      BY <1>3, <3>2
    <3> QED  BY <3>1, <3>3, <3>4
  <2>3. CASE ~f.array /\ f.base # "blob"
    <3>1. Is(q + 1, DbusType[f.base]) /\ frame[q + 1].v = f.vals[1]
      BY <1>1, <1>5, <1>7, <2>3 DEF Is, Arg
    <3>2. Take(ty, q) = [ok |-> TRUE, n |-> 1, vals |-> <<frame[q + 1].v>>]
      BY <1>8, <2>3, <3>1 DEF Take, TakeBasic
    <3>3. <<f.vals[1]>> = f.vals
      BY <1>2, <2>3
    <3>4. Len(e) - 2 = 1
      BY <1>3, <2>3
    <3> QED  BY <3>1, <3>2, <3>3, <3>4
  <2> QED  BY <1>2, <2>1, <2>2, <2>3 DEF IsBlob
<1>10. ASSUME f.array, f.base = "blob"  PROVE ~Take(ty, q).ok
  BY <1>8, <1>10 DEF Take, TakeArray, Bad
<1> QED  BY <1>6, <1>9, <1>10 DEF e, ty, q

-----------------------------------------------------------------------------
\* The inductive invariant.  A frame of ours has our fields after its header;
\* what was decoded of it is as many fields as the loop took turns, and the
\* decoder is where the next one begins.
HeadLen == IF kind = "msg" THEN 2 ELSE 3

Framed ==
    /\ kind = "msg" /\ Is(2, "q") => frame[2].v \in Nat
    /\ kind = "data" /\ Is(2, "q") => Known(frame[2].v) \in Seq(ToSet(Known(frame[2].v)))
    /\ src.ours =>
          /\ kind = "raw" => frame[2].v = Sent
          /\ kind # "raw" => IsFields(Sent) /\ HasFields(frame, HeadLen, Sent) /\ Is(1, "o") /\ Is(2, "q")
          /\ kind = "msg" => frame[2].v = Len(Sent) /\ \A k \in DOMAIN Sent : ~(Sent[k].array /\ Sent[k].base = "blob")
          /\ kind = "data" => frame[2].v = src.tag /\ \A k \in DOMAIN Sent : Sent[k].tag = k

ReadSoFar ==
    /\ NField \in Nat /\ turn \in 1 .. NField + 1
    /\ got \in Seq(ToSet(got)) /\ Len(got) = turn - 1
    /\ src.ours /\ Agreed => /\ NField = Len(Sent) /\ at = HeadLen + Upto(Spans(Sent), turn - 1)
                             /\ \A i \in 1 .. turn - 1 : got[i] = Sent[i]

Ended == /\ got = <<>>
         /\ src.ours => /\ kind # "msg"
                        /\ turn > 0 => (\E k \in DOMAIN Sent : Sent[k].base = "blob") \/ ~Agreed

BusInv ==
    /\ st \in {"idle", "sent", "decode", "done", "refused", "failed", "crashed"}
    /\ st \in {"sent", "decode", "done"} => kind \in {"msg", "data", "raw"} /\ Framed
    /\ st \in {"idle", "sent"} => turn = 0 /\ got = <<>>
    /\ st = "decode" => kind # "raw" /\ ReadSoFar
    /\ st = "done" => IF kind = "raw" THEN src.ours => got = Sent ELSE ReadSoFar /\ turn = NField + 1
    /\ st \in {"failed", "crashed"} => Ended
    /\ st = "crashed" => kind # "msg"
    /\ lost = 0 \/ (kind = "data" /\ st \in {"failed", "crashed"})

LEMMA InitBusInv == CodecInit => BusInv
BY DEF CodecInit, BusInv

LEMMA BusInvImplies == BusInv => BusFramesArrive
<1> SUFFICES ASSUME BusInv  PROVE BusFramesArrive
  OBVIOUS
<1>1. ASSUME st = "done", src.ours, Agreed  PROVE got = Sent
  <2>1. CASE kind = "raw"
    BY <1>1, <2>1 DEF BusInv
  <2>2. CASE kind # "raw"
    <3>1. ReadSoFar /\ turn = NField + 1 /\ Framed
      BY <1>1, <2>2 DEF BusInv
    <3>2. got \in Seq(ToSet(got)) /\ Len(got) = Len(Sent) /\ Len(Sent) \in Nat
      BY <1>1, <3>1 DEF ReadSoFar
    <3>3. Sent \in Seq(ToSet(Sent))
      BY <1>1, <2>2, <3>1 DEF Framed, IsFields
    <3>4. \A i \in 1 .. Len(got) : got[i] = Sent[i]
      BY <1>1, <3>1, <3>2 DEF ReadSoFar
    <3> DEFINE S == ToSet(got) \cup ToSet(Sent)
               g == got
               h == Sent
    <3>5. \A i \in 1 .. Len(g) : g[i] \in S
      BY <3>2
    <3>6. \A i \in 1 .. Len(h) : h[i] \in S
      BY <3>3
    <3> HIDE DEF S, g, h
    <3>7. g \in Seq(S) /\ h \in Seq(S) /\ Len(g) = Len(h) /\ \A i \in 1 .. Len(g) : g[i] = h[i]
      <4>1. g \in Seq(ToSet(g)) /\ h \in Seq(ToSet(h)) /\ Len(g) = Len(h) /\ \A i \in 1 .. Len(g) : g[i] = h[i]
        BY <3>2, <3>3, <3>4 DEF g, h
      <4> QED  BY <3>5, <3>6, <4>1
    <3>8. g = h
      BY <3>7, SeqEqual
    <3> QED  BY <3>8 DEF g, h
  <2> QED  BY <2>1, <2>2
<1>2. ASSUME st = "done", kind # "raw"  PROVE Len(got) = NField
  BY <1>2 DEF BusInv, ReadSoFar
<1>3. BusArrives
  BY <1>1 DEF BusInv, Ended, BusArrives
<1>4. lost > 0 => lost # 0
  OBVIOUS
<1>5. BusAllOrNothing
  BY <1>2, <1>4 DEF BusInv, Ended, BusAllOrNothing
<1> QED  BY <1>3, <1>5 DEF BusFramesArrive


\* The steps of the encoder.  A frame of ours is its sender, a header and the fields.
LEMMA FrameFacts ==
    ASSUME NEW fs, IsFields(fs), NEW T, NEW pre \in Seq(T)
    PROVE  LET r == <<Arg("o", "sender")>> \o (pre \o EncodeFields(fs))
           IN  /\ HasFields(r, Len(pre) + 1, fs) /\ 1 \in DOMAIN r /\ r[1] = Arg("o", "sender")
               /\ \A i \in 1 .. Len(pre) : i + 1 \in DOMAIN r /\ r[i + 1] = pre[i]
<1> DEFINE o == Arg("o", "sender")
           q == EncodeFields(fs)
           S == T \cup {o} \cup ToSet(q)
           h == <<o>> \o pre
<1>1. q \in Seq(ToSet(q)) /\ HasFields(q, 0, fs)
  BY FieldsAreIn
<1>2. pre \in Seq(S) /\ q \in Seq(S) /\ <<o>> \in Seq(S)
  <2>1. \A i \in 1 .. Len(pre) : pre[i] \in S
    OBVIOUS
  <2>2. \A i \in 1 .. Len(q) : q[i] \in S
    BY <1>1
  <2>3. o \in S
    OBVIOUS
  <2> HIDE DEF S, q, o
  <2> QED  BY <1>1, <2>1, <2>2, <2>3
<1> HIDE DEF S, q, o
<1>3. <<o>> \o (pre \o q) = h \o q
  BY <1>2, ConcatAssociative
<1>4. /\ h \in Seq(S) /\ Len(h) = Len(pre) + 1 /\ Len(pre) \in Nat /\ h[1] = o
      /\ \A i \in 1 .. Len(pre) : h[i + 1] = pre[i]
  <2>1. Len(<<o>>) = 1 /\ <<o>>[1] = o /\ Len(pre) \in Nat
    OBVIOUS
  <2>2. /\ h \in Seq(S) /\ Len(h) = 1 + Len(pre)
        /\ \A i \in 1 .. 1 + Len(pre) : h[i] = IF i <= 1 THEN <<o>>[i] ELSE pre[i - 1]
    BY <1>2, <2>1, ConcatProperties
  <2> HIDE DEF h
  <2>3. \A i \in 1 .. Len(pre) : i + 1 \in 1 .. 1 + Len(pre) /\ ~(i + 1 <= 1) /\ (i + 1) - 1 = i
    BY <2>1
  <2>4. \A i \in 1 .. Len(pre) : h[i + 1] = pre[i]
    BY <2>2, <2>3
  <2> QED  BY <2>1, <2>2, <2>4
<1> HIDE DEF h
<1>5. /\ HasFields(h \o q, Len(h), fs)
      /\ \A i \in 1 .. Len(h) : i \in DOMAIN (h \o q) /\ (h \o q)[i] = h[i]
  BY <1>1, <1>4, FieldsAfter
<1>6. 1 \in 1 .. Len(h) /\ \A i \in 1 .. Len(pre) : i + 1 \in 1 .. Len(h)
  BY <1>4
<1> QED  BY <1>3, <1>4, <1>5, <1>6 DEF o, q

LEMMA EncodeBusInv ==
    ASSUME BusInv, NEW k \in {"msg", "data", "raw"}, NEW tag, NEW fs, NEW args,
           NEW result \in {"sent", "refused", "crashed"}, Encode(k, tag, fs, result, args),
           result = "crashed" => k # "msg", result = "sent" => Framed'
    PROVE  BusInv'
<1>1. st = "idle" /\ turn = 0 /\ got = <<>> /\ lost = 0
  BY DEF Encode, BusInv
<1>2. kind' = k /\ st' = result /\ turn' = 0 /\ got' = <<>> /\ lost' = 0
  BY <1>1 DEF Encode
<1>3. Ended' \/ st' # "crashed"
  BY <1>2 DEF Ended
<1> QED  BY <1>2, <1>3 DEF BusInv

LEMMA EncodeMsgBusInv == ASSUME BusInv, NEW fs \in Messages, EncodeMsg(fs) PROVE BusInv'
<1> DEFINE result == IF \A k \in DOMAIN fs : Encodable(fs[k]) THEN "sent" ELSE "refused"
           args == <<Arg("q", Len(fs))>> \o EncodeFields(fs)
           h == Arg("q", Len(fs))
           pre == <<h>>
<1>1. Encode("msg", 0, fs, result, args)
  BY DEF EncodeMsg
<1>2. IsFields(fs) /\ \A k \in DOMAIN fs : ~(fs[k].array /\ fs[k].base = "blob")
  BY DbusCodecAssumption DEF IsFields
<1>3. ASSUME result = "sent"  PROVE Framed'
  <2>1. frame' = <<Arg("o", "sender")>> \o args /\ kind' = "msg" /\ src' = [ours |-> TRUE, tag |-> 0, fields |-> fs]
    BY <1>1, <1>3 DEF Encode
  <2> DEFINE T == {h}
  <2>2. pre \in Seq(T) /\ Len(pre) = 1 /\ pre[1] = h
    OBVIOUS
  <2>3. Len(fs) \in Nat
    BY <1>2, FieldsFacts
  <2> HIDE DEF args, h, pre, T
  <2>4. /\ HasFields(frame', 2, fs) /\ 1 \in DOMAIN frame' /\ frame'[1] = Arg("o", "sender")
        /\ 2 \in DOMAIN frame' /\ frame'[2] = h
    <3>1. LET r == <<Arg("o", "sender")>> \o (pre \o EncodeFields(fs))
          IN  /\ HasFields(r, 1 + 1, fs) /\ 1 \in DOMAIN r /\ r[1] = Arg("o", "sender")
              /\ \A i \in 1 .. 1 : i + 1 \in DOMAIN r /\ r[i + 1] = pre[i]
      <4>1. IsFields(fs) /\ pre \in Seq(T)
        BY <1>2, <2>2
      <4>2. LET r == <<Arg("o", "sender")>> \o (pre \o EncodeFields(fs))
            IN  /\ HasFields(r, Len(pre) + 1, fs) /\ 1 \in DOMAIN r /\ r[1] = Arg("o", "sender")
                /\ \A i \in 1 .. Len(pre) : i + 1 \in DOMAIN r /\ r[i + 1] = pre[i]
        BY <4>1, FrameFacts
      <4> QED  BY <2>2, <4>2
    <3>2. frame' = <<Arg("o", "sender")>> \o (pre \o EncodeFields(fs))
      BY <2>1 DEF args, pre, h
    <3> QED  BY <2>2, <3>1, <3>2
  <2>5. Is(1, "o")' /\ Is(2, "q")' /\ frame'[2].v = Len(fs)
    BY <2>4 DEF Is, Arg, h
  <2>6. HeadLen' = 2 /\ Sent' = fs /\ src'.ours
    BY <2>1 DEF HeadLen, Sent
  <2> QED  BY <1>2, <2>1, <2>3, <2>4, <2>5, <2>6 DEF Framed
<1>4. result \in {"sent", "refused"}
  OBVIOUS
<1> HIDE DEF result, args
<1> QED  BY <1>1, <1>3, <1>4, EncodeBusInv

LEMMA EncodeDataBusInv == ASSUME BusInv, NEW s \in Structures, EncodeData(s) PROVE BusInv'
<1> DEFINE fs == s.members
           args == <<Arg("q", s.tag), Arg("q", Len(fs))>> \o EncodeFields(fs)
           g == Arg("q", s.tag)
           h == Arg("q", Len(fs))
           pre == <<g, h>>
<1>1. Encode("data", s.tag, fs, Result(s), args)
  BY DEF EncodeData
<1>2. IsFields(fs) /\ \A k \in DOMAIN fs : fs[k].tag = k
  BY DbusCodecAssumption DEF IsFields
<1>3. ASSUME Result(s) = "sent"  PROVE Framed'
  <2>1. frame' = <<Arg("o", "sender")>> \o args /\ kind' = "data" /\ src' = [ours |-> TRUE, tag |-> s.tag, fields |-> fs]
    BY <1>1, <1>3 DEF Encode
  <2> DEFINE T == {g, h}
  <2>2. pre \in Seq(T) /\ Len(pre) = 2 /\ pre[1] = g
    OBVIOUS
  <2>3. Known(s.tag) \in Seq(ToSet(Known(s.tag)))
    <3>1. s.tag \in ArrivingTags
      BY DEF ArrivingTags
    <3> QED  BY <3>1, DbusCodecAssumption
  <2> HIDE DEF fs, args, g, h, pre, T
  <2>4. /\ HasFields(frame', 3, fs) /\ 1 \in DOMAIN frame' /\ frame'[1] = Arg("o", "sender")
        /\ 2 \in DOMAIN frame' /\ frame'[2] = g
    <3>1. LET r == <<Arg("o", "sender")>> \o (pre \o EncodeFields(fs))
          IN  /\ HasFields(r, 2 + 1, fs) /\ 1 \in DOMAIN r /\ r[1] = Arg("o", "sender")
              /\ \A i \in 1 .. 2 : i + 1 \in DOMAIN r /\ r[i + 1] = pre[i]
      <4>1. IsFields(fs) /\ pre \in Seq(T)
        BY <1>2, <2>2
      <4>2. LET r == <<Arg("o", "sender")>> \o (pre \o EncodeFields(fs))
            IN  /\ HasFields(r, Len(pre) + 1, fs) /\ 1 \in DOMAIN r /\ r[1] = Arg("o", "sender")
                /\ \A i \in 1 .. Len(pre) : i + 1 \in DOMAIN r /\ r[i + 1] = pre[i]
        BY <4>1, FrameFacts
      <4> QED  BY <2>2, <4>2
    <3>2. frame' = <<Arg("o", "sender")>> \o (pre \o EncodeFields(fs))
      BY <2>1 DEF args, pre, g, h
    <3> QED  BY <2>2, <3>1, <3>2
  <2>5. Is(1, "o")' /\ Is(2, "q")' /\ frame'[2].v = s.tag
    BY <2>4 DEF Is, Arg, g
  <2>6. HeadLen' = 3 /\ Sent' = fs /\ src'.ours /\ src'.tag = s.tag
    BY <2>1 DEF HeadLen, Sent
  <2> QED  BY <1>2, <2>1, <2>3, <2>4, <2>5, <2>6 DEF Framed
<1>4. Result(s) \in {"sent", "refused", "crashed"}
  BY DEF Result
<1> HIDE DEF fs, args
<1> QED  BY <1>1, <1>3, <1>4, EncodeBusInv

LEMMA EncodeRawBusInv == BusInv /\ EncodeRaw => BusInv'
<1> SUFFICES ASSUME BusInv, EncodeRaw  PROVE BusInv'
  OBVIOUS
<1> DEFINE b == ArrayArg("blob", <<1, 2>>)
           args == <<b>>
<1>1. Encode("raw", 0, <<1, 2>>, "sent", args)
  BY DEF EncodeRaw
<1>2. Framed'
  <2>1. /\ frame' = <<Arg("o", "sender")>> \o args /\ kind' = "raw"
        /\ src' = [ours |-> TRUE, tag |-> 0, fields |-> <<1, 2>>]
    BY <1>1 DEF Encode
  <2>2. frame'[2] = b
    <3> HIDE DEF b
    <3> QED  BY <2>1
  <2>3. b.v = <<1, 2>>
    BY DEF ArrayArg
  <2> HIDE DEF b
  <2> QED  BY <2>1, <2>2, <2>3 DEF Framed, Sent
<1> HIDE DEF args
<1> QED  BY <1>1, <1>2, EncodeBusInv

LEMMA ReceiveBusInv == ASSUME BusInv, NEW r \in Foreign, Receive(r.kind, r.args) PROVE BusInv'
<1>1. st = "idle" /\ turn = 0 /\ got = <<>> /\ lost = 0
  BY DEF Receive, BusInv
<1>2. /\ kind' = r.kind /\ src' = NotOurs /\ frame' = r.args /\ st' = "sent" /\ turn' = 0 /\ got' = <<>> /\ lost' = 0
  BY <1>1 DEF Receive
<1>3. r.kind \in {"msg", "data", "raw"}
  BY DbusCodecAssumption
<1>4. Is(2, "q")' => Says(r)
  BY <1>2 DEF Is, Says
<1>5. kind' = "msg" /\ Is(2, "q")' => frame'[2].v \in Nat
  BY <1>2, <1>4, DbusCodecAssumption
<1>6. ASSUME kind' = "data", Is(2, "q")'  PROVE Known(frame'[2].v) \in Seq(ToSet(Known(frame'[2].v)))
  <2>1. r.args[2].v \in ArrivingTags
    BY <1>2, <1>4, <1>6 DEF ArrivingTags
  <2> QED  BY <1>2, <2>1, DbusCodecAssumption
<1>7. ~src'.ours
  BY <1>2 DEF NotOurs
<1>8. Framed'
  BY <1>5, <1>6, <1>7 DEF Framed
<1> QED  BY <1>2, <1>3, <1>8 DEF BusInv


\* The steps of the decoder.  What gives up leaves nothing behind.
LEMMA GivesUp ==
    ASSUME BusInv, st \in {"sent", "decode"}, Fail \/ (kind # "msg" /\ Crash), UNCHANGED <<kind, src, frame>>,
           src.ours => /\ kind # "msg"
                       /\ turn > 0 => (\E k \in DOMAIN Sent : Sent[k].base = "blob") \/ ~Agreed
    PROVE  BusInv'
<1>1. kind \in {"msg", "data", "raw"} /\ lost = 0
  BY DEF BusInv
<1>2. got' = <<>> /\ turn' = turn
  BY DEF Fail, Crash
<1>3. Ended'
  BY <1>2 DEF Ended, Sent, Agreed, Type
<1>4. st' \in {"failed", "crashed"} /\ (kind = "msg" => st' # "crashed") /\ (kind # "data" => lost' = lost)
  BY DEF Fail, FreeNull, FreeByLast, Crash
<1> QED  BY <1>1, <1>3, <1>4 DEF BusInv

LEMMA MembersFacts ==
    ASSUME Framed
    PROVE  /\ kind = "data" => Members \in Seq(ToSet(Members)) /\ Len(Members) \in Nat
           /\ src.ours /\ Agreed /\ kind = "data" =>
                 /\ Members = [k \in DOMAIN Sent |-> Type(Sent[k])] /\ Len(Members) = Len(Sent)
                 /\ DOMAIN Members = DOMAIN Sent
<1>1. ASSUME kind = "data"  PROVE Members \in Seq(ToSet(Members)) /\ Len(Members) \in Nat
  <2>1. <<>> \in Seq(ToSet(<<>>))
    OBVIOUS
  <2>2. Members \in Seq(ToSet(Members))
    BY <1>1, <2>1 DEF Members, Framed
  <2> QED  BY <2>2
<1>2. ASSUME src.ours, Agreed, kind = "data"
      PROVE  /\ Members = [k \in DOMAIN Sent |-> Type(Sent[k])] /\ Len(Members) = Len(Sent)
             /\ DOMAIN Members = DOMAIN Sent
  <2>1. Members = [k \in DOMAIN Sent |-> Type(Sent[k])]
    BY <1>2 DEF Members, Framed, Agreed
  <2>2. DOMAIN Sent = 1 .. Len(Sent) /\ Len(Sent) \in Nat
    BY <1>2, FieldsFacts DEF Framed
  <2> QED  BY <2>1, <2>2
<1> QED  BY <1>1, <1>2

LEMMA DecodeStartBusInv == BusInv /\ DecodeStart => BusInv'
<1> SUFFICES ASSUME BusInv, DecodeStart  PROVE BusInv'
  OBVIOUS
<1>1. /\ st = "sent" /\ turn = 0 /\ got = <<>> /\ lost = 0 /\ kind \in {"msg", "data", "raw"} /\ Framed
      /\ UNCHANGED <<kind, src, frame>>
  BY DEF DecodeStart, BusInv
<1>2. src.ours /\ kind = "msg" => HeaderOK
  BY <1>1 DEF Framed, HeaderOK
<1>3. Framed'
  BY <1>1 DEF Framed, Is, HeadLen, Sent
<1>4. CASE (~HeaderOK \/ kind # "msg") /\ Fail
  BY <1>1, <1>2, <1>4, GivesUp
<1>5. CASE kind = "raw" /\ Crash
  BY <1>1, <1>5, GivesUp
<1>6. CASE kind = "raw" /\ st' = "done" /\ got' = frame[2].v /\ UNCHANGED <<at, turn, lost>>
  BY <1>1, <1>3, <1>6 DEF BusInv, Framed, Sent
<1>7. CASE /\ HeaderOK /\ kind # "raw" /\ st' = "decode" /\ turn' = 1
           /\ at' = (IF kind = "msg" THEN 2 ELSE 3) /\ UNCHANGED <<got, lost>>
  <2>1. NField \in Nat
    <3>1. CASE kind = "msg"
      BY <1>1, <1>7, <3>1 DEF NField, HeaderOK, Framed
    <3>2. CASE kind = "data"
      BY <1>1, <3>2, MembersFacts DEF NField
    <3> QED  BY <1>1, <1>7, <3>1, <3>2
  <2>2. NField' = NField
    BY <1>1 DEF NField, Members, Is
  <2>3. got' \in Seq(ToSet(got')) /\ Len(got') = 0
    BY <1>1, <1>7
  <2>4. ASSUME src.ours, Agreed  PROVE NField = Len(Sent) /\ at' = HeadLen + Upto(Spans(Sent), 0)
    <3>1. NField = Len(Sent)
      BY <1>1, <1>7, <2>4, MembersFacts DEF NField, Framed
    <3>2. Upto(Spans(Sent), 0) = 0
      BY <1>1, <1>7, <2>4, FieldsFacts DEF Framed
    <3>3. at' = HeadLen /\ HeadLen + 0 = HeadLen
      BY <1>7 DEF HeadLen
    <3> QED  BY <3>1, <3>2, <3>3
  <2>5. turn' = 1 /\ turn' \in 1 .. NField + 1
    BY <1>7, <2>1
  <2>6. HeadLen' = HeadLen /\ Sent' = Sent /\ Agreed' = Agreed /\ src' = src
    BY <1>1 DEF HeadLen, Sent, Agreed, Type
  <2>7. ReadSoFar'
    BY <2>1, <2>2, <2>3, <2>4, <2>5, <2>6 DEF ReadSoFar
  <2>8. kind' = kind /\ st' = "decode" /\ kind # "raw" /\ lost' = 0
    BY <1>1, <1>7
  <2> QED  BY <1>1, <1>3, <2>7, <2>8 DEF BusInv
<1> QED  BY <1>4, <1>5, <1>6, <1>7 DEF DecodeStart

\* What a turn finds of a frame of ours when both ends agree.
LEMMA TurnFacts ==
    ASSUME BusInv, st = "decode", turn <= NField, src.ours, Agreed
    PROVE  LET f == Sent[turn]
               n == Len(EncodeField(f)) - 2
           IN  /\ turn \in DOMAIN Sent /\ WellFormed(f) /\ Is(at + 1, "q") /\ Is(at + 2, "q")
               /\ FieldTag = f.tag /\ FieldType = Type(f) /\ Ours /\ ~CopiedAsString
               /\ IF f.array /\ f.base = "blob" THEN ~Take(FieldType, at + 2).ok /\ kind = "data"
                  ELSE Take(FieldType, at + 2) = [ok |-> TRUE, n |-> n, vals |-> f.vals]
               /\ at + 2 + n = HeadLen + Upto(Spans(Sent), turn)
<1> DEFINE f == Sent[turn]
           ty == [base |-> f.base, array |-> f.array]
           u == Upto(Spans(Sent), turn - 1)
<1>1. kind \in {"msg", "data"} /\ Framed /\ ReadSoFar
  BY DEF BusInv
<1>2. NField = Len(Sent) /\ at = HeadLen + u /\ turn \in 1 .. NField + 1
  BY <1>1 DEF ReadSoFar
<1>3. IsFields(Sent) /\ HasFields(frame, HeadLen, Sent)
  BY <1>1 DEF Framed
<1>4. Len(Sent) \in Nat /\ DOMAIN Sent = 1 .. Len(Sent)
  BY <1>3, FieldsFacts
<1>5. turn \in 1 .. Len(Sent) /\ turn \in DOMAIN Sent
  BY <1>2, <1>4
<1>6. WellFormed(f) /\ u \in Nat /\ Upto(Spans(Sent), turn) = u + Len(EncodeField(f))
  BY <1>3, <1>5, FieldsFacts
<1>7. HeadLen \in Nat /\ at \in Nat
  BY <1>2, <1>6 DEF HeadLen
<1>8. \A j \in 1 .. Len(EncodeField(f)) : at + j \in DOMAIN frame /\ frame[at + j] = EncodeField(f)[j]
  BY <1>2, <1>3, <1>5 DEF HasFields
<1> HIDE DEF f, u
<1>9. /\ Is(at + 1, "q") /\ frame[at + 1].v = f.tag
      /\ Is(at + 2, "q") /\ frame[at + 2].v = ty
      /\ IF f.array /\ f.base = "blob" THEN ~Take(ty, at + 2).ok
         ELSE Take(ty, at + 2) = [ok |-> TRUE, n |-> Len(EncodeField(f)) - 2, vals |-> f.vals]
  BY <1>6, <1>7, <1>8, TakeFacts
<1>10. FieldTag = f.tag /\ FieldType = ty /\ ty = Type(f)
  BY <1>9 DEF FieldTag, FieldType, Type
<1>11. ASSUME kind = "data"  PROVE f.tag = turn /\ turn \in DOMAIN Members /\ Members[turn] = Type(f)
  BY <1>1, <1>5, <1>11, MembersFacts DEF Framed, f
<1>12. Ours /\ ~CopiedAsString
  <2> HIDE DEF ty
  <2> QED  BY <1>10, <1>11 DEF Ours, CopiedAsString
<1>13. f.array /\ f.base = "blob" => kind = "data"
  BY <1>1, <1>5 DEF Framed, f
<1>14. at + 2 + (Len(EncodeField(f)) - 2) = HeadLen + Upto(Spans(Sent), turn)
  <2>1. Len(EncodeField(f)) \in Nat
    BY <1>6, EncodeFieldFacts
  <2> QED  BY <1>2, <1>6, <1>7, <2>1
<1> HIDE DEF ty
<1> QED  BY <1>5, <1>6, <1>9, <1>10, <1>12, <1>13, <1>14 DEF f

LEMMA DecodeFieldBusInv == BusInv /\ DecodeField => BusInv'
<1> SUFFICES ASSUME BusInv, DecodeField  PROVE BusInv'
  OBVIOUS
<1> DEFINE header == Is(at + 1, "q") /\ Is(at + 2, "q")
           x == Take(FieldType, at + 2)
           fits == header /\ Ours /\ x.ok
           w == [tag |-> FieldTag, base |-> FieldType.base, array |-> FieldType.array, vals |-> x.vals]
<1>1. /\ st = "decode" /\ turn <= NField /\ UNCHANGED <<kind, src, frame>>
      /\ kind \in {"msg", "data"} /\ Framed /\ ReadSoFar /\ lost = 0
  BY DEF DecodeField, BusInv
<1>2. ASSUME src.ours, Agreed, ~\E k \in DOMAIN Sent : Sent[k].base = "blob"
      PROVE  fits /\ ~IsBlob(FieldType) /\ ~CopiedAsString
  <2> DEFINE f == Sent[turn]
             n == Len(EncodeField(f)) - 2
  <2>1. /\ turn \in DOMAIN Sent /\ header /\ FieldType = Type(f) /\ Ours /\ ~CopiedAsString
        /\ IF f.array /\ f.base = "blob" THEN ~x.ok /\ kind = "data"
           ELSE x = [ok |-> TRUE, n |-> n, vals |-> f.vals]
    BY <1>1, <1>2, TurnFacts
  <2>2. f.base # "blob"
    BY <1>2, <2>1
  <2> HIDE DEF f, n, header, x
  <2>3. x.ok /\ ~IsBlob(FieldType)
    BY <2>1, <2>2 DEF IsBlob, Type
  <2> QED  BY <2>1, <2>3
<1>3. ASSUME src.ours, kind = "msg"  PROVE fits
  <2>1. Agreed
    BY <1>3 DEF Agreed
  <2> DEFINE f == Sent[turn]
             n == Len(EncodeField(f)) - 2
  <2>2. /\ header /\ Ours
        /\ IF f.array /\ f.base = "blob" THEN ~x.ok /\ kind = "data"
           ELSE x = [ok |-> TRUE, n |-> n, vals |-> f.vals]
    BY <1>1, <1>3, <2>1, TurnFacts
  <2> HIDE DEF f, n, header, x
  <2> QED  BY <1>3, <2>2
<1> HIDE DEF header, x
<1>4. CASE ~fits /\ Fail
  BY <1>1, <1>2, <1>3, <1>4, GivesUp
<1>5. CASE fits /\ ((kind = "data" /\ IsBlob(FieldType)) \/ CopiedAsString) /\ (Fail \/ Crash)
  <2>1. kind = "data"
    BY <1>5 DEF CopiedAsString
  <2> QED  BY <1>1, <1>2, <1>5, <2>1, GivesUp
<1>6. CASE /\ fits /\ ~CopiedAsString /\ got' = Append(got, w)
           /\ at' = at + 2 + x.n /\ turn' = turn + 1 /\ UNCHANGED <<st, lost>>
  <2>1. /\ NField \in Nat /\ turn \in 1 .. NField + 1 /\ turn \in Nat
        /\ got \in Seq(ToSet(got)) /\ Len(got) = turn - 1
    BY <1>1 DEF ReadSoFar
  <2>2. NField' = NField
    BY <1>1 DEF NField, Members, Is
  <2>3. turn' \in 1 .. NField + 1
    BY <1>1, <1>6, <2>1
  <2>4. /\ got' \in Seq(ToSet(got')) /\ Len(got') = turn' - 1
        /\ \A i \in 1 .. turn - 1 : got'[i] = got[i]
        /\ got'[turn] = w
    <3> DEFINE T == ToSet(got) \cup {w}
               g == Append(got, w)
    <3>1. got \in Seq(T)
      <4>1. \A i \in 1 .. Len(got) : got[i] \in T
        BY <2>1
      <4> HIDE DEF T
      <4> QED  BY <2>1, <4>1
    <3>2. w \in T
      OBVIOUS
    <3> HIDE DEF T, w
    <3>3. /\ g \in Seq(T) /\ Len(g) = Len(got) + 1
          /\ \A i \in 1 .. Len(got) : g[i] = got[i]
          /\ g[Len(got) + 1] = w
      BY <3>1, <3>2, AppendFacts
    <3> HIDE DEF g
    <3>4. g \in Seq(ToSet(g))
      BY <3>3, InItsSet
    <3>5. got' = g /\ turn' = turn + 1
      BY <1>6 DEF g, w
    <3> QED  BY <2>1, <3>3, <3>4, <3>5
  <2>5. ASSUME src.ours, Agreed
        PROVE  /\ NField = Len(Sent) /\ at' = HeadLen + Upto(Spans(Sent), turn' - 1)
               /\ \A i \in 1 .. turn' - 1 : got'[i] = Sent[i]
    <3> DEFINE f == Sent[turn]
               n == Len(EncodeField(f)) - 2
    <3>1. /\ NField = Len(Sent) /\ \A i \in 1 .. turn - 1 : got[i] = Sent[i]
      BY <1>1, <2>5 DEF ReadSoFar
    <3>2. /\ turn \in DOMAIN Sent /\ WellFormed(f) /\ FieldTag = f.tag /\ FieldType = Type(f)
          /\ IF f.array /\ f.base = "blob" THEN ~x.ok /\ kind = "data"
             ELSE x = [ok |-> TRUE, n |-> n, vals |-> f.vals]
          /\ at + 2 + n = HeadLen + Upto(Spans(Sent), turn)
      BY <1>1, <2>5, TurnFacts DEF x
    <3> HIDE DEF f, n
    <3>3. x = [ok |-> TRUE, n |-> n, vals |-> f.vals]
      BY <1>6, <3>2
    <3>4. w = f
      <4>1. f = [tag |-> f.tag, base |-> f.base, array |-> f.array, vals |-> f.vals]
        BY <3>2, Zenon DEF WellFormed
      <4>2. FieldType.base = f.base /\ FieldType.array = f.array /\ x.vals = f.vals
        BY <3>2, <3>3 DEF Type
      <4> QED  BY <3>2, <4>1, <4>2
    <3> HIDE DEF w
    <3>5. turn' - 1 = turn /\ \A i \in 1 .. turn : i = turn \/ i \in 1 .. turn - 1
      BY <1>6, <2>1
    <3>6. at' = HeadLen + Upto(Spans(Sent), turn)
      BY <1>6, <3>2, <3>3
    <3>7. \A i \in 1 .. turn : got'[i] = Sent[i]
      BY <2>4, <3>1, <3>4, <3>5 DEF f
    <3> QED  BY <3>1, <3>5, <3>6, <3>7
  <2>6. HeadLen' = HeadLen /\ Sent' = Sent /\ Agreed' = Agreed /\ src' = src /\ Framed'
    BY <1>1 DEF HeadLen, Sent, Agreed, Type, Framed, Is
  <2>7. ReadSoFar'
    BY <2>1, <2>2, <2>3, <2>4, <2>5, <2>6 DEF ReadSoFar
  <2>8. kind' = kind /\ st' = "decode" /\ kind # "raw" /\ lost' = 0
    BY <1>1, <1>6
  <2> QED  BY <1>1, <2>6, <2>7, <2>8 DEF BusInv
<1> QED  BY <1>4, <1>5, <1>6 DEF DecodeField, header, x

LEMMA DecodeDoneBusInv == BusInv /\ DecodeDone => BusInv'
<1> SUFFICES ASSUME BusInv, DecodeDone  PROVE BusInv'
  OBVIOUS
<1>1. /\ st = "decode" /\ turn > NField /\ st' = "done" /\ UNCHANGED <<kind, src, frame, at, turn, got, lost>>
      /\ kind \in {"msg", "data"} /\ Framed /\ ReadSoFar /\ lost = 0
  BY DEF DecodeDone, BusInv
<1>2. turn = NField + 1
  BY <1>1 DEF ReadSoFar
<1>3. Framed' /\ ReadSoFar' /\ (turn = NField + 1)'
  <2>1. Framed' /\ NField' = NField
    BY <1>1 DEF Framed, NField, Members, Is, HeadLen, Sent
  <2>2. HeadLen' = HeadLen /\ Sent' = Sent /\ Agreed' = Agreed
    BY <1>1 DEF HeadLen, Sent, Agreed, Type
  <2> QED  BY <1>1, <1>2, <2>1, <2>2 DEF ReadSoFar
<1> QED  BY <1>1, <1>3 DEF BusInv

LEMMA NextBusInv == BusInv /\ [CodecNext]_codecVars => BusInv'
<1> SUFFICES ASSUME BusInv, [CodecNext]_codecVars  PROVE BusInv'
  OBVIOUS
<1>1. ASSUME NEW fs \in Messages, EncodeMsg(fs)  PROVE BusInv'
  BY <1>1, EncodeMsgBusInv
<1>2. ASSUME NEW s \in Structures, EncodeData(s)  PROVE BusInv'
  BY <1>2, EncodeDataBusInv
<1>3. ASSUME NEW r \in Foreign, Receive(r.kind, r.args)  PROVE BusInv'
  BY <1>3, ReceiveBusInv
<1>4. CASE EncodeRaw
  BY <1>4, EncodeRawBusInv
<1>5. CASE DecodeStart
  BY <1>5, DecodeStartBusInv
<1>6. CASE DecodeField
  BY <1>6, DecodeFieldBusInv
<1>7. CASE DecodeDone
  BY <1>7, DecodeDoneBusInv
<1>8. CASE UNCHANGED codecVars
  <2>1. NField' = NField /\ HeadLen' = HeadLen /\ Sent' = Sent /\ Agreed' = Agreed /\ Framed' = Framed
    BY <1>8 DEF codecVars, NField, Members, Is, HeadLen, Sent, Agreed, Type, Framed
  <2>2. ReadSoFar' = ReadSoFar /\ Ended' = Ended
    BY <1>8, <2>1 DEF codecVars, ReadSoFar, Ended
  <2> QED  BY <1>8, <2>1, <2>2 DEF codecVars, BusInv
<1> QED  BY <1>1, <1>2, <1>3, <1>4, <1>5, <1>6, <1>7, <1>8 DEF CodecNext

\* What is put on the bus arrives as it was sent or not at all: a message that
\* can be encoded always does, and whatever is called, the client gets all the
\* fields a frame announces or none, and no message takes the daemon down
\* (mrp_dbus_transport's encoders and decoders).
THEOREM BusFramesSound == CodecSpec => []BusFramesArrive
<1>1. CodecInit => BusInv
  BY InitBusInv
<1>2. BusInv /\ [CodecNext]_codecVars => BusInv'
  BY NextBusInv
<1>3. BusInv => BusFramesArrive
  BY BusInvImplies
<1> QED  BY <1>1, <1>2, <1>3, PTL DEF CodecSpec
==============================================================================

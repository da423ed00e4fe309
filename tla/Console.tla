------------------------------- MODULE Console --------------------------------
(* Consoles: core/console.c over the transports of plugins/plugin-console.c *)
(* and the builtin commands of core/console-command.c.                      *)
(*                                                                          *)
(* Each stream that connects gets a console of its own; datagrams share     *)
(* one, which is there from the start and preserved.  A console counts the  *)
(* input and the command under way and is freed when neither is.  What a    *)
(* line that could not be read leaves in its words is any line's words; the *)
(* daemon may end on it as well, and then nothing follows.                  *)
EXTENDS Integers, Sequences, FiniteSets

CONSTANTS Streams,      \* consoles over streams
          Datagram,     \* the console over datagrams
          Peers,        \* who sends datagrams
          TypedLines,   \* lines of words, read from what is typed
          MaxLines      \* bound on what is typed

None == "none"
Commands == [g |-> {"k", "s"}, builtin |-> {"help", "exit"}]
Selectable == {"s"}
Slash(word) == word \in {"/", "/g"}

VARIABLES consoles,  \* [there, busy, destroyed, link, grp, cmd, prompt, stuck] by console
          groups,    \* the groups registered: ctx->cmd_groups
          running,   \* the command that runs: [console, asker, grp, cmd, argc, words, ran]
          typed,
          outputs,   \* history: [asker, to] of what was written
          seen       \* history: the consoles that were ever created

consoleVars == <<consoles, groups, running, typed, outputs, seen>>
Ids == Streams \cup {Datagram}

(* Names of consoles are apart, and lines are of words.                     *)
Names == None \notin Ids /\ Datagram \notin Streams /\ TypedLines \subseteq Seq(STRING)
ASSUME ConsoleAssumption == Names

Idle == [console |-> None, asker |-> None, grp |-> None, cmd |-> None, argc |-> 0, words |-> <<>>, ran |-> TRUE]
Fresh == [there |-> TRUE, busy |-> 0, destroyed |-> FALSE, link |-> None,
          grp |-> None, cmd |-> None, prompt |-> <<None, None>>, stuck |-> FALSE]

ConsoleInit == /\ consoles = [c \in Ids |-> [Fresh EXCEPT !.there = c = Datagram]]
               /\ groups = {"builtin", "g"} /\ running = Idle /\ typed = 0
               /\ outputs = {} /\ seen = {Datagram}

(* find_group: a slash before the name is passed over.                      *)
FindGroup(word) == LET g == CASE word \in {"g", "/g"} -> "g" [] word = "/" -> "builtin" [] OTHER -> None
                   IN  IF g \in groups THEN g ELSE None
FindCommand(g, word) == IF g # None /\ word \in Commands[g] THEN word ELSE None

(* mrp_set_console_prompt                                                   *)
SetPrompt(c) == IF c.destroyed THEN c ELSE [c EXCEPT !.prompt = <<c.grp, c.cmd>>]

(* purge_destroyed                                                          *)
Purge(c) == [c EXCEPT !.there = ~(c.destroyed /\ c.busy = 0)]

------------------------------------------------------------------------------
(* connection_evt, mrp_create_console                                       *)
Connected(c) == /\ c \in Streams \ seen /\ seen' = seen \cup {c}
                /\ consoles' = [consoles EXCEPT ![c] = SetPrompt([Fresh EXCEPT !.link = c])]
                /\ UNCHANGED <<groups, running, typed, outputs>>

(* closed_evt: the transport goes, unless it failed; the console stays.     *)
PeerClosed(c, error) == /\ running = Idle /\ c \in Streams /\ consoles[c].there /\ consoles[c].link = c
                        /\ consoles' = [consoles EXCEPT ![c].link = IF error THEN "failed" ELSE None]
                        /\ UNCHANGED <<groups, running, typed, outputs, seen>>

(* What input_evt makes of the words w of a line, argc of them, in the mode *)
(* of c: a command to run, or the mode to be in.                            *)
Meaning(c, w, argc) ==
    LET Mode(g, cmd) == [run |-> FALSE, grp |-> g, cmd |-> cmd, argc |-> argc]
        Run(g, cmd, n) == IF cmd = None THEN Mode(c.grp, c.cmd) ELSE [run |-> TRUE, grp |-> g, cmd |-> cmd, argc |-> n]
        here == FindCommand(c.grp, w[1])
    IN  CASE argc = 0 -> Mode(c.grp, c.cmd)
          [] argc # 0 /\ FindCommand("builtin", w[1]) # None -> Run("builtin", w[1], argc + 1)
          [] argc = 1 /\ c.grp = None /\ FindCommand("builtin", w[1]) = None -> Mode(FindGroup(w[1]), None)
          [] argc = 1 /\ c.grp # None /\ c.cmd = None /\ here \in Selectable -> Mode(c.grp, here)
          [] OTHER ->
               IF c.grp # None /\ ~Slash(w[1])
               THEN IF c.cmd # None THEN Run(c.grp, c.cmd, argc + 2) ELSE Run(c.grp, here, argc + 1)
               ELSE IF argc > 1 THEN Run(FindGroup(w[1]), FindCommand(FindGroup(w[1]), w[2]), argc)
               ELSE Mode(c.grp, c.cmd)

KeepConnected(c) == c

(* recvfrom_evt disconnects from who asked.                                 *)
Forget(c) == [c EXCEPT !.link = None]
InputEnds(id, c) == IF id = Datagram THEN Forget(c) ELSE c

(* recv_evt, recvfrom_evt and input_evt.  After a line with a quote that is *)
(* not closed no line can be read any more.                                 *)
Input(id, asker, w, quote) ==
    LET stuck == consoles[id].stuck \/ quote
        c == [consoles[id] EXCEPT !.stuck = stuck, !.link = IF @ = None THEN asker ELSE @]
        argc == IF stuck THEN -1 ELSE Len(w)
        m == Meaning(c, w, argc)
    IN  /\ running = Idle /\ consoles[id].there /\ typed < MaxLines /\ typed' = typed + 1
        /\ IF id = Datagram THEN asker \in Peers ELSE asker = id /\ consoles[id].link = id
        /\ argc # 0 => w # <<>>
        /\ IF m.run
           THEN /\ consoles' = [consoles EXCEPT ![id] = [c EXCEPT !.busy = 2]]
                /\ running' = [console |-> id, asker |-> asker, grp |-> m.grp, cmd |-> m.cmd,
                               argc |-> m.argc, words |-> w, ran |-> FALSE]
           ELSE /\ consoles' = [consoles EXCEPT ![id] =
                                   InputEnds(id, SetPrompt([c EXCEPT !.grp = m.grp, !.cmd = m.cmd]))]
                /\ UNCHANGED running
        /\ UNCHANGED <<groups, outputs, seen>>

------------------------------------------------------------------------------
(* What runs inside a command.  Output goes to whoever the transport is     *)
(* connected to, if anybody.                                                *)
Write == /\ running # Idle /\ ~consoles[running.console].destroyed
         /\ outputs' = outputs \cup {[asker |-> running.asker, to |-> consoles[running.console].link]}
         /\ UNCHANGED <<consoles, groups, running, typed, seen>>

(* tcp_close_req and udp_close_req both leave nobody to write to.           *)
DestroyConsole(id, c) == Purge([c EXCEPT !.destroyed = id # Datagram, !.link = None])

(* cmd_exit leaves a command, a group, or the console.                      *)
Exited(id, c) ==
    CASE running.argc = 2 /\ c.cmd # None -> [c EXCEPT !.cmd = None]
      [] running.argc = 2 /\ c.cmd = None /\ c.grp # None -> [c EXCEPT !.grp = None]
      [] running.argc = 2 /\ c.grp = None -> DestroyConsole(id, c)
      [] running.argc = 3 /\ running.words[2] = "console" -> DestroyConsole(id, c)
      [] OTHER -> c
Exit == /\ running.cmd = "exit" /\ ~running.ran /\ running' = [running EXCEPT !.ran = TRUE]
        /\ consoles' = [consoles EXCEPT ![running.console] = Exited(running.console, @)]
        /\ UNCHANGED <<groups, typed, outputs, seen>>

(* The command returns: the prompt is set, the console freed if it was      *)
(* destroyed.                                                               *)
Returned == /\ running # Idle /\ (running.cmd = "exit" => running.ran) /\ running' = Idle
            /\ consoles' = [consoles EXCEPT ![running.console] =
                               InputEnds(running.console, Purge(SetPrompt([@ EXCEPT !.busy = 0])))]
            /\ UNCHANGED <<groups, typed, outputs, seen>>

(* mrp_console_add_group and mrp_console_del_group, as plugins come and go; *)
(* console_cleanup.                                                         *)
AddGroup == /\ "g" \notin groups /\ groups' = groups \cup {"g"}
            /\ UNCHANGED <<consoles, running, typed, outputs, seen>>
DelGroup == /\ "g" \in groups /\ groups' = groups \ {"g"}
            /\ UNCHANGED <<consoles, running, typed, outputs, seen>>
Cleanup == /\ running = Idle /\ groups' = {} /\ typed' = MaxLines
           /\ consoles' = [c \in Ids |-> IF consoles[c].there THEN DestroyConsole(c, consoles[c]) ELSE consoles[c]]
           /\ UNCHANGED <<running, outputs, seen>>

ConsoleNext == \/ \E c \in Streams, error \in BOOLEAN : Connected(c) \/ PeerClosed(c, error)
               \/ \E id \in Ids, asker \in Streams \cup Peers, w \in TypedLines, quote \in BOOLEAN : Input(id, asker, w, quote)
               \/ Write \/ Exit \/ Returned \/ AddGroup \/ DelGroup \/ Cleanup

ConsoleSpec == ConsoleInit /\ [][ConsoleNext]_consoleVars

------------------------------------------------------------------------------
(* A console is freed when it is destroyed and idle, never under a command, *)
(* its transport with it; an idle one shows the mode it is in, which has no *)
(* command without a group; output reaches who typed the line or nobody;    *)
(* and what runs is a command of its group, named in the line or selected,  *)
(* of a group that is registered or that the console has been in            *)
(* (input_evt, mrp_destroy_console, recvfrom_evt).                          *)
ConsolesAreSound ==
    /\ \A id \in seen : LET c == consoles[id] IN
          /\ c.there <=> ~(c.destroyed /\ id # running.console)
          /\ c.destroyed => c.link = None
          /\ c.there /\ id # running.console => c.prompt = <<c.grp, c.cmd>> /\ c.busy = 0
          /\ c.grp = None => c.cmd = None
    /\ \A o \in outputs : o.to \in {o.asker, None}
    /\ running # Idle => LET c == consoles[running.console] IN
          /\ running.cmd \in Commands[running.grp]
          /\ \E i \in DOMAIN running.words : running.words[i] = running.cmd \/ running.cmd = c.cmd
==============================================================================

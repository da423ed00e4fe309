-------------------------------- MODULE Config --------------------------------
(* The configuration file: daemon/config.c parses its lines into actions,   *)
(* nested in if-conditionals, and executes them before any plugin starts.   *)
(*                                                                          *)
(* A line is [kw, args], its keyword and the words after it (see Tokenizer).*)
(* Freeing what was parsed of a file that is then refused follows hooks     *)
(* nobody has initialised: the daemon ends there, as it does when it goes   *)
(* on to report the error.                                                  *)
EXTENDS Integers, Sequences, SequencesExt

CONSTANTS Existing,   \* plugin names mrp_plugin_exists finds
          Loadable,   \* those of them that load
          MaxLines    \* bound on the lines of a file

VARIABLES lines,    \* what get_next_line returns, line by line
          stage,    \* "parse", "exec", "done" or "refused"
          todo,     \* the actions still to be executed, those of a branch in place of it
          loads     \* history: the actions exec_load executed

configVars == <<lines, stage, todo, loads>>

Names == {"here", "broken", "gone"}
LineKinds == {[kw |-> k, args |-> <<n>>] : k \in {"load-plugin", "try-load-plugin", "if"}, n \in Names \ {"gone"}}
             \cup {[kw |-> "load-plugin", args |-> <<"here", "as", "i">>], [kw |-> "if", args |-> <<"gone">>],
                   [kw |-> "error", args |-> <<"text">>], [kw |-> "info", args |-> <<>>], [kw |-> "info", args |-> <<"text">>],
                   [kw |-> "else", args |-> <<>>], [kw |-> "end", args |-> <<>>]}

------------------------------------------------------------------------------
(* What the parser makes of the lines from i on: whether it succeeds, the   *)
(* actions, and the next line.                                              *)
Nothing == [ok |-> FALSE, acts |-> <<>>, next |-> 0]
Just(act, next) == [ok |-> TRUE, acts |-> <<act>>, next |-> next]

(* parse_load: [try-]load-plugin name [as instance]                         *)
ParseLoad(l, next) ==
    IF l.args = <<>> THEN Nothing
    ELSE Just([type |-> l.kw, name |-> l.args[1],
               instance |-> IF Len(l.args) > 2 /\ l.args[2] = "as" THEN l.args[3] ELSE l.args[1],
               pos |-> <<>>, neg |-> <<>>], next)

(* parse_message                                                            *)
ParseMessage(l, next) ==
    IF l.args = <<>> THEN Nothing
    ELSE Just([type |-> l.kw, name |-> "", instance |-> "", pos |-> <<>>, neg |-> <<>>], next)

BranchKeepsPos(branch, inPos, acts) == [branch EXCEPT !.pos = @ \o acts]

(* Actions go to the branch that is open.                                   *)
Branch(branch, inPos, acts) == IF inPos THEN [branch EXCEPT !.pos = @ \o acts]
                                        ELSE [branch EXCEPT !.neg = @ \o acts]

RECURSIVE ParseAction(_, _), ParseIfElse(_, _, _, _)
ParseAction(ls, i) ==
    LET l == ls[i] IN
    CASE l.kw \in {"load-plugin", "try-load-plugin"} -> ParseLoad(l, i + 1)
      [] l.kw \in {"info", "warning", "error"} -> ParseMessage(l, i + 1)
      [] l.kw = "if" /\ l.args = <<>> -> Nothing
      [] l.kw = "if" /\ l.args # <<>> ->
           ParseIfElse(ls, i + 1, [type |-> "if", name |-> l.args[1], instance |-> "", pos |-> <<>>, neg |-> <<>>], TRUE)
      [] OTHER -> Nothing

(* The loop of parse_if_else: a line of one word that is neither `end' nor  *)
(* `else' is passed over.                                                   *)
ParseIfElse(ls, i, branch, inPos) ==
    IF i > Len(ls) THEN Nothing
    ELSE IF ls[i].args # <<>>
    THEN LET a == ParseAction(ls, i)
         IN  IF a.ok THEN ParseIfElse(ls, a.next, Branch(branch, inPos, a.acts), inPos) ELSE Nothing
    ELSE CASE ls[i].kw = "end" -> Just(branch, i + 1)
           [] ls[i].kw = "else" /\ inPos -> ParseIfElse(ls, i + 1, branch, FALSE)
           [] ls[i].kw = "else" /\ ~inPos -> Nothing
           [] OTHER -> ParseIfElse(ls, i + 1, branch, inPos)

(* mrp_parse_cfgfile                                                        *)
RECURSIVE ParseFile(_, _)
ParseFile(ls, i) == IF i > Len(ls) THEN [ok |-> TRUE, acts |-> <<>>, next |-> i]
                    ELSE LET a == ParseAction(ls, i)
                             r == ParseFile(ls, a.next)
                         IN  IF a.ok /\ r.ok THEN [r EXCEPT !.acts = a.acts \o @] ELSE Nothing

------------------------------------------------------------------------------
ConfigInit == /\ \E n \in 1 .. MaxLines : lines \in [1 .. n -> LineKinds]
              /\ stage = "parse" /\ todo = <<>> /\ loads = <<>>

Parse == /\ stage = "parse"
         /\ LET r == ParseFile(lines, 1)
            IN  stage' = (IF r.ok THEN "exec" ELSE "refused") /\ todo' = r.acts
         /\ UNCHANGED <<lines, loads>>

Act == Head(todo)
Exec == stage = "exec" /\ todo # <<>> /\ UNCHANGED lines

(* exec_load: a plugin that exists is loaded unless it is broken or its     *)
(* instance is there already (see Plugins).                                 *)
Loads(act) == act.name \in Loadable
              /\ \A j \in DOMAIN loads : loads[j].instance = act.instance => loads[j].name \notin Loadable

ExecLoad == /\ Exec /\ Act.type \in {"load-plugin", "try-load-plugin"}
            /\ loads' = Append(loads, Act)
            /\ IF Loads(Act) \/ Act.type = "try-load-plugin"
               THEN todo' = Tail(todo) /\ UNCHANGED stage
               ELSE todo' = <<>> /\ stage' = "refused"

(* exec_if_else                                                             *)
ExecIfElse == /\ Exec /\ Act.type = "if"
              /\ todo' = (IF Act.name \in Existing THEN Act.pos ELSE Act.neg) \o Tail(todo)
              /\ UNCHANGED <<stage, loads>>

(* exec_message: an error ends the daemon.                                  *)
ExecMessage == /\ Exec /\ Act.type \in {"info", "warning", "error"}
               /\ IF Act.type = "error" THEN todo' = <<>> /\ stage' = "refused"
                                        ELSE todo' = Tail(todo) /\ UNCHANGED stage
               /\ UNCHANGED loads

ExecDone == stage = "exec" /\ todo = <<>> /\ stage' = "done" /\ UNCHANGED <<lines, todo, loads>>

ConfigNext == Parse \/ ExecLoad \/ ExecIfElse \/ ExecMessage \/ ExecDone

------------------------------------------------------------------------------
(* Reference: the file read once from top to bottom, with the branches that *)
(* are open: [taken, else].  Live is what all open branches take.           *)
RECURSIVE Balanced(_, _, _)
Balanced(ls, i, open) ==
    IF i > Len(ls) THEN open = <<>>
    ELSE LET l == ls[i]
             bare == l.args = <<>>
         IN  CASE l.kw = "if" /\ ~bare -> Balanced(ls, i + 1, Append(open, FALSE))
               [] l.kw = "end" -> open # <<>> /\ Balanced(ls, i + 1, Front(open))
               [] l.kw = "else" -> open # <<>> /\ ~Last(open) /\ Balanced(ls, i + 1, Append(Front(open), TRUE))
               [] OTHER -> (bare => open # <<>>) /\ Balanced(ls, i + 1, open)

RECURSIVE Wanted(_, _, _)
Wanted(ls, i, taken) ==
    IF i > Len(ls) THEN <<>>
    ELSE LET l == ls[i]
             live == \A j \in DOMAIN taken : taken[j]
             on(t) == Wanted(ls, i + 1, t)
         IN  CASE l.kw = "if" /\ l.args # <<>> -> on(Append(taken, l.args[1] \in Existing))
               [] l.kw = "end" -> on(Front(taken))
               [] l.kw = "else" -> on(Append(Front(taken), ~Last(taken)))
               [] l.kw = "error" /\ live -> <<"stop">>
               [] l.kw \in {"load-plugin", "try-load-plugin"} /\ live /\ l.args # <<>> ->
                    <<<<l.kw, l.args[1], Last(l.args)>>>> \o on(taken)
               [] OTHER -> on(taken)

(* A file is refused when its conditionals do not balance or a line is      *)
(* wrong, before anything of it is executed; otherwise the plugins of the   *)
(* branches that are taken, however nested, are loaded in the order of the  *)
(* lines, up to the first error or failure                                  *)
(* (mrp_parse_cfgfile, mrp_exec_cfgfile).                                   *)
ConfigMeansWhatItSays ==
    LET done == [j \in DOMAIN loads |-> <<loads[j].type, loads[j].name, loads[j].instance>>]
        wanted == Wanted(lines, 1, <<>>)
    IN  /\ stage # "parse" /\ ~Balanced(lines, 1, <<>>) => stage = "refused" /\ loads = <<>>
        /\ Balanced(lines, 1, <<>>) =>
              /\ IsPrefix(done, wanted)
              /\ stage = "done" => done = wanted
              /\ stage = "refused" => \/ wanted = Append(done, "stop")
                                      \/ done # <<>> /\ Last(done)[1] = "load-plugin"
==============================================================================

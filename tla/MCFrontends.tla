------------------------------ MODULE MCFrontends -----------------------------
(* How the daemon is set up and talked to: its configuration file, its      *)
(* plugins, datagram transports, the frames on the bus and consoles, side   *)
(* by side.  A behaviour is one of a single part.                           *)
EXTENDS Console, Dgram, Plugins, DbusCodec

CONSTANTS BufSize, MaxArgs, MaxFile, Existing, Loadable, FileLines

VARIABLES part,
          file, readLines,
          lines, stage, todo, loads

tokenizerVars == <<file, readLines>>
configVars    == <<lines, stage, todo, loads>>

(* A plain plugin with two arguments, a singleton, and one that is too old. *)
Descr(fits, singleton, keys) == [found |-> TRUE, fits |-> fits, singleton |-> singleton, keys |-> keys]
MCDescrs == [p |-> Descr(TRUE, FALSE, <<"k", "l">>), s |-> Descr(TRUE, TRUE, <<>>),
             old |-> Descr(FALSE, FALSE, <<>>)]

PluginArg(k, valid) == [key |-> k, valid |-> valid]
MCArgLists == {<<>>, <<PluginArg("l", TRUE), PluginArg("k", TRUE)>>,
               <<PluginArg("k", TRUE), PluginArg("k", TRUE), PluginArg("l", TRUE)>>, <<PluginArg("l", FALSE)>>}

(* Words of builtin commands, of a group and its commands, and neither.     *)
ConsoleLines == {<<>>} \cup {<<w>> : w \in {"exit", "help", "g", "/g", "/", "k", "s"}}
                \cup ({"exit", "g", "/g"} \X {"k", "s", "console"})

(* Frames: messages of up to three fields, structures that fit their types  *)
(* at the receiver or not, that lack a size or have a blob, and the calls of*)
(* others.  The tags of types 1 and 2 are tags of members, too.             *)
Field(tag, base, array, vals) == [tag |-> tag, base |-> base, array |-> array, vals |-> vals]
Plain(b) == [base |-> b, array |-> FALSE]
ArrayOf(b) == [base |-> b, array |-> TRUE]
BusFields == {Field(7, "string", FALSE, <<40>>), Field(8, "u8", FALSE, <<5>>), Field(9, "s64", FALSE, <<6>>),
              Field(7, "string", TRUE, <<1, 2>>), Field(9, "s8", TRUE, <<3>>), Field(8, "s64", TRUE, <<>>),
              Field(7, "s64", TRUE, <<4>>), Field(8, "blob", FALSE, <<1, 9>>)}
BusMessages == UNION {[1..n -> BusFields] : n \in 0..3}
MCKnown(tag) == CASE tag = 1 -> <<Plain("u8"), ArrayOf("string")>>
                  [] tag = 2 -> <<Plain("string"), Plain("u8"), Plain("blob")>>
                  [] OTHER   -> <<>>
Struct(tag, unsized, members) == [tag |-> tag, unsized |-> unsized, members |-> members]
BusStructures ==
    {Struct(1, u, <<Field(1, "u8", FALSE, <<2>>), Field(2, "string", TRUE, s)>>) :
        s \in {<<>>, <<4, 5>>}, u \in {{}, {2}}}
    \cup {Struct(tag, u, <<Field(1, b, FALSE, <<3>>), Field(2, "u8", FALSE, <<1>>), Field(3, "blob", FALSE, s)>>) :
             tag \in 1..3, b \in {"string", "u8"}, s \in {<<>>, <<4, 5>>}, u \in {{}, {3}}}
    \cup {Struct(2, {}, <<Field(1, "string", FALSE, <<3>>), Field(2, "u8", FALSE, <<1>>), Field(3, "u16", TRUE, <<2>>)>>)}
A(type, v) == [t |-> type, v |-> v]
Call(k, args) == [kind |-> k, args |-> args]
BusForeign == {Call("msg", <<A("q", 3)>>), Call("data", <<A("q", 3)>>), Call("raw", <<A("o", "x"), A("s", 1)>>),
    Call("data", <<A("o", "x"), A("q", 1)>>),
    Call("data", <<A("o", "x"), A("q", 2), A("q", 3), A("q", 9), A("q", Plain("u8")), A("q", 5)>>),
    Call("msg", <<A("o", "x"), A("q", 2), A("q", 7), A("q", Plain("u8")), A("q", 5)>>),
    Call("msg", <<A("o", "x"), A("q", 1), A("q", 7), A("q", ArrayOf("u8")), A("u", 2),
                  [t |-> "a", e |-> "q", v |-> <<3>>]>>),
    Call("msg", <<A("o", "x"), A("q", 1), A("q", 7), A("q", Plain("string")), A("u", 2)>>)}

T == INSTANCE Tokenizer
F == INSTANCE Config WITH MaxLines <- FileLines

Init == /\ part \in {"tokenizer", "config", "plugins", "dgram", "buscodec", "console"}
        /\ PluginsInit /\ DgramInit /\ ConsoleInit /\ CodecInit
        /\ IF part = "tokenizer" THEN T!TokenizerInit ELSE file = <<"n">> /\ readLines = {}
        /\ IF part = "config" THEN F!ConfigInit
                              ELSE lines = <<>> /\ stage = "done" /\ todo = <<>> /\ loads = <<>>

Next ==
  \/ part = "tokenizer" /\ T!TokenizerNext /\ UNCHANGED <<part, configVars, pluginVars, dgramVars, consoleVars, codecVars>>
  \/ part = "config" /\ F!ConfigNext /\ UNCHANGED <<part, tokenizerVars, pluginVars, dgramVars, consoleVars, codecVars>>
  \/ part = "plugins" /\ PluginsNext /\ UNCHANGED <<part, tokenizerVars, configVars, dgramVars, consoleVars, codecVars>>
  \/ part = "dgram" /\ DgramNext /\ UNCHANGED <<part, tokenizerVars, configVars, pluginVars, consoleVars, codecVars>>
  \/ part = "console" /\ ConsoleNext /\ UNCHANGED <<part, tokenizerVars, configVars, pluginVars, dgramVars, codecVars>>
  \/ part = "buscodec" /\ CodecNext /\ UNCHANGED <<part, tokenizerVars, configVars, pluginVars, dgramVars, consoleVars>>

Spec == Init /\ [][Next]_<<part, tokenizerVars, configVars, pluginVars, dgramVars, consoleVars, codecVars>>

(* Properties stated in Tokenizer and Config; those of the others come with *)
(* their modules.                                                           *)
LinesAreRead          == T!LinesAreRead
ConfigMeansWhatItSays == F!ConfigMeansWhatItSays
==============================================================================

------------------------------- MODULE Plugins --------------------------------
(* Plugins: core/plugin.c loads instances of them, starts all that are      *)
(* loaded, in order, before the main loop runs, and stops and unloads them. *)
(*                                                                          *)
(* A descriptor is [found, fits, singleton, keys]: whether there is one,    *)
(* built in or in a file; whether its version is compatible; and the keys   *)
(* of its arguments.  The descriptor of a file is in memory for as long as  *)
(* it is loaded; a failed load never closes it.  Memory does not run out.   *)
EXTENDS Integers, Sequences, FiniteSets, SequencesExt

CONSTANTS PluginDescrs,  \* name -> descriptor
          Instances,     \* names of instances
          ArgLists,      \* the arguments given: sequences of [key, valid]
          MaxLoads       \* bound on the loads

(* Keys and arguments come in arrays.                                       *)
ASSUME PluginsAssumption ==
    /\ \A d \in DOMAIN PluginDescrs : PluginDescrs[d].keys \in Seq(ToSet(PluginDescrs[d].keys))
    /\ \A args \in ArgLists : args \in Seq([key : {args[j].key : j \in DOMAIN args}, valid : BOOLEAN])

VARIABLES plugins,    \* ctx->plugins: [id, name, instance, refcnt, state, mayFail, set]
          ninstance,  \* name -> descr->ninstance
          phase,      \* "config", "starting", "running" or "exited"
          walk,       \* mrp_start_plugins: [cur, next], ids; 0 for the list head
          loaded,     \* loads ever tried
          failed,     \* history: name -> loads that failed after counting
          latecomers  \* history: ids loaded by the init of the then last plugin, or later

pluginVars == <<plugins, ninstance, phase, walk, loaded, failed, latecomers>>
Descrs == DOMAIN PluginDescrs

PluginsInit == /\ plugins = <<>> /\ ninstance = [d \in Descrs |-> 0] /\ phase = "config"
               /\ walk = [cur |-> 0, next |-> 0] /\ loaded = 0 /\ failed = [d \in Descrs |-> 0]
               /\ latecomers = {}

FindInstance(i) == {j \in DOMAIN plugins : plugins[j].instance = i}

------------------------------------------------------------------------------
(* parse_plugin_args looks for each key from where the last one was found   *)
(* on, going round: how far ahead of j a key is, and the position where the *)
(* search stops, 0 when it finds none.                                      *)
Ahead(keys, j, c) == IF c > j THEN c - j ELSE c - j + Len(keys)

FindArg(keys, key, j) ==
    LET at == {c \in DOMAIN keys : keys[c] = key}
    IN  IF at = {} THEN 0 ELSE CHOOSE c \in at : \A d \in at : Ahead(keys, j, c) <= Ahead(keys, j, d)

(* An argument after those parsed before: [ok, at, set], the keys set.      *)
ParseArg(keys, arg, before) ==
    LET at == FindArg(keys, arg.key, before.at)
    IN  IF before.ok /\ at # 0 /\ arg.valid
        THEN [ok |-> TRUE, at |-> at, set |-> before.set \cup {arg.key}]
        ELSE [ok |-> FALSE, at |-> 0, set |-> {}]

ParseArgs(keys, args) ==
    LET parsed[k \in 0 .. Len(args)] == IF k = 0 THEN [ok |-> TRUE, at |-> 0, set |-> {}]
                                        ELSE ParseArg(keys, args[k], parsed[k - 1])
    IN  parsed[Len(args)]

(* check_plugin_singleton, with the instance counted already.               *)
CheckSingleton(descr, n) == ~descr.singleton \/ n <= 1

(* mrp_load_plugin.  A load that fails after it counted its instance does   *)
(* not count it back: there is no plugin yet, or one that mrp_unload_plugin *)
(* declines to unload because it is referenced.                             *)
Load(name, instance, args, mayFail, ok) ==
    LET descr == PluginDescrs[name]
        parsed == ParseArgs(descr.keys, args)
        good == descr.fits /\ CheckSingleton(descr, ninstance[name] + 1) /\ parsed.ok
        counted == FindInstance(instance) = {} /\ descr.found
    IN  /\ loaded < MaxLoads /\ loaded' = loaded + 1
        /\ ok = (counted /\ good)
        /\ ninstance' = IF counted THEN [ninstance EXCEPT ![name] = @ + 1] ELSE ninstance
        /\ failed' = IF counted /\ ~good THEN [failed EXCEPT ![name] = @ + 1] ELSE failed
        /\ plugins' = IF ok THEN Append(plugins, [id |-> loaded + 1, name |-> name, instance |-> instance,
                                                  refcnt |-> 1, state |-> "loaded", mayFail |-> mayFail,
                                                  set |-> parsed.set])
                            ELSE plugins
        /\ latecomers' = IF phase = "config" \/ (phase = "starting" /\ walk.next # 0) THEN latecomers
                         ELSE latecomers \cup {loaded + 1}

(* exec_load (see Config): a plugin that cannot be loaded ends the daemon   *)
(* unless it was to be tried only.                                          *)
ConfigLoad ==
    /\ phase = "config"
    /\ \E name \in Descrs, i \in Instances, args \in ArgLists, try, ok \in BOOLEAN :
          /\ Load(name, i, args, try, ok)
          /\ phase' = IF ok \/ try THEN phase ELSE "exited"
    /\ UNCHANGED walk

(* mrp_load_all_plugins, for the help text: what is built in and what there *)
(* are files of; the outcome is ignored.                                    *)
LoadForHelp == /\ phase = "config"
               /\ \E name \in Descrs, ok \in BOOLEAN : Load(name, name, <<>>, FALSE, ok)
               /\ UNCHANGED <<phase, walk>>

(* mrp_request_plugin, by a client or by the init of a plugin: satisfied by *)
(* an instance there is, started or not.                                    *)
Request == /\ phase = "running" \/ (phase = "starting" /\ walk.cur # 0)
           /\ \E name \in Descrs, i \in Instances, ok \in BOOLEAN :
                 /\ ~\E j \in FindInstance(i) : i = name \/ plugins[j].name = name
                 /\ Load(name, i, <<>>, FALSE, ok)
           /\ UNCHANGED <<phase, walk>>

------------------------------------------------------------------------------
IdAt(j) == IF j > Len(plugins) THEN 0 ELSE plugins[j].id
At(id) == CHOOSE j \in DOMAIN plugins : plugins[j].id = id

(* mrp_start_plugins: the loop looks up the plugin after the one it starts  *)
(* before it starts that.                                                   *)
StartPlugins == /\ phase = "config" /\ phase' = "starting"
                /\ walk' = [cur |-> 0, next |-> IdAt(1)]
                /\ UNCHANGED <<plugins, ninstance, loaded, failed, latecomers>>

StartNext == /\ phase = "starting" /\ walk.cur = 0 /\ walk.next # 0
             /\ walk' = [cur |-> walk.next, next |-> IdAt(At(walk.next) + 1)]
             /\ UNCHANGED <<plugins, ninstance, phase, loaded, failed, latecomers>>

(* mrp_start_plugin returns.  A plugin that may fail is to be unloaded when *)
(* it does, and is not: mrp_unload_plugin declines, it is referenced.       *)
Started(ok) ==
    /\ phase = "starting" /\ walk.cur # 0
    /\ plugins' = [plugins EXCEPT ![At(walk.cur)].state = IF ok THEN "started" ELSE "failed"]
    /\ phase' = IF ok \/ plugins[At(walk.cur)].mayFail THEN phase ELSE "exited"
    /\ walk' = [walk EXCEPT !.cur = 0]
    /\ UNCHANGED <<ninstance, loaded, failed, latecomers>>

StartDone == /\ phase = "starting" /\ walk.cur = 0 /\ walk.next = 0
             /\ phase' = "running"
             /\ UNCHANGED <<plugins, ninstance, walk, loaded, failed, latecomers>>

(* mrp_stop_plugin and mrp_unload_plugin, by clients once plugins run.      *)
Stop(j) == /\ phase = "running" /\ plugins[j].refcnt <= 1
           /\ plugins' = [plugins EXCEPT ![j].refcnt = 0, ![j].state = "stopped"]
           /\ UNCHANGED <<ninstance, phase, walk, loaded, failed, latecomers>>

UnloadKeepsCount(j) == /\ phase = "running" /\ plugins[j].refcnt = 0
                       /\ plugins' = RemoveAt(plugins, j)
                       /\ UNCHANGED <<ninstance, phase, walk, loaded, failed, latecomers>>

Unload(j) == /\ phase = "running" /\ plugins[j].refcnt = 0
             /\ plugins' = RemoveAt(plugins, j)
             /\ ninstance' = [ninstance EXCEPT ![plugins[j].name] = @ - 1]
             /\ UNCHANGED <<phase, walk, loaded, failed, latecomers>>

PluginsNext == \/ ConfigLoad \/ LoadForHelp \/ Request \/ StartPlugins \/ StartNext \/ StartDone
               \/ (\E ok \in BOOLEAN : Started(ok))
               \/ (\E j \in DOMAIN plugins : Stop(j) \/ Unload(j))

PluginsSpec == PluginsInit /\ [][PluginsNext]_pluginVars

------------------------------------------------------------------------------
(* Instances have a name of their own; a singleton is loaded at most once,  *)
(* at once or again, and can be loaded whenever it is not, unless a load of *)
(* it has failed before; when plugins run each one in the list has been     *)
(* started, or was stopped, or failed and may, but for those that came only *)
(* after the walk had passed; and arguments are accepted in any order,      *)
(* exactly when each is known and valid (mrp_load_plugin, parse_plugin_args,*)
(* mrp_start_plugins, mrp_unload_plugin).                                   *)
PluginsAreSound ==
    /\ \A j, k \in DOMAIN plugins : plugins[j].instance = plugins[k].instance => j = k
    /\ \A d \in Descrs :
          LET n == Cardinality({j \in DOMAIN plugins : plugins[j].name = d})
          IN  /\ PluginDescrs[d].singleton => n <= 1
              /\ failed[d] = 0 /\ n = 0 => CheckSingleton(PluginDescrs[d], ninstance[d] + 1)
    /\ phase = "running" => \A j \in DOMAIN plugins :
          \/ plugins[j].state \in {"started", "stopped"}
          \/ plugins[j].state = "failed" /\ plugins[j].mayFail
          \/ plugins[j].id \in latecomers
    /\ \A args \in ArgLists, d \in Descrs :
          LET keys == ToSet(PluginDescrs[d].keys)
              r == ParseArgs(PluginDescrs[d].keys, args)
          IN  /\ r.ok <=> \A j \in DOMAIN args : args[j].key \in keys /\ args[j].valid
              /\ r.ok => r.set = {args[j].key : j \in DOMAIN args}
==============================================================================

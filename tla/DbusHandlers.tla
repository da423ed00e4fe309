---------------------------- MODULE DbusHandlers ----------------------------
(****************************************************************************)
(* Methods and signal handlers of common/dbus.c: chains of handlers by      *)
(* member, kept in order of specificity, dispatching by them, and the match *)
(* rules of subscriptions.                                                  *)
(*                                                                          *)
(* A handler is a record [id, client, path, interface, member, arg]; AnyName is *)
(* the empty string, the wildcard.  arg tells whether the subscription      *)
(* filters on an argument too.  In a callback a client removes no handler   *)
(* but the one it is called for: nothing protects the walk from more.       *)
(****************************************************************************)
EXTENDS Integers, Sequences, SequencesExt, FiniteSets

CONSTANTS Subscribers, AnyName,
          HandlerNames,  \* what clients ask for: [path, interface, member]
          Requests,      \* what arrives: the same, without wildcards
          MaxHandlers,   \* bound on handlers ever added
          MaxSignals     \* bound on signals dispatched

VARIABLES methods, signals,  \* the chains: a function from some members
          made,              \* handlers added so far
          installed,         \* bus: match rules, as a bag (pattern -> number)
          strays,            \* a client unsubscribed what it had not subscribed
          visit,             \* dispatch_signal at work, see Quiet
          seen,              \* signals dispatched so far
          isUp               \* somebody has a reference to the connection

handlerVars == <<methods, signals, made, installed, strays, visit, seen, isUp>>

Patterns == {[path |-> h.path, interface |-> h.interface, member |-> h.member, arg |-> a] :
                h \in HandlerNames, a \in BOOLEAN}
NoChain  == <<>>
Quiet    == [msg |-> [path |-> AnyName, interface |-> AnyName, member |-> AnyName], key |-> AnyName, p |-> 0, n |-> 0,
             called |-> <<>>, due |-> {}, st |-> "quiet"]

HandlersInit == /\ methods = <<>> /\ signals = <<>> /\ made = 0 /\ strays = FALSE
                /\ installed = [r \in Patterns |-> 0] /\ visit = Quiet /\ seen = 0 /\ isUp = TRUE

Pattern(h) == [path |-> h.path, interface |-> h.interface, member |-> h.member, arg |-> h.arg]
Bare(r) == [r EXCEPT !.arg = FALSE]
Contents(tbl) == UNION {ToSet(tbl[k]) : k \in DOMAIN tbl}
Subscribed == Contents(signals)
SubscribedTo(r) == {h \in Subscribed : Bare(Pattern(h)) = r}
Chain(tbl, key) == IF key \in DOMAIN tbl THEN tbl[key] ELSE NoChain
With(tbl, key, chain) == [k \in DOMAIN tbl \cup {key} |-> IF k = key THEN chain ELSE tbl[k]]
Without(tbl, key) == [k \in DOMAIN tbl \ {key} |-> tbl[k]]

(* Clients run between two messages and in the callbacks of signals.        *)
InCallback == visit.st = "calling"
SubscribersRun == isUp /\ visit.st \in {"quiet", "calling"}

------------------------------------------------------------------------------
(* Chains.                                                                  *)
Score(h) == (IF h.path # AnyName THEN 4 ELSE 0) + (IF h.interface # AnyName THEN 2 ELSE 0)
            + (IF h.member # AnyName THEN 1 ELSE 0)

Matches(h, m) == /\ h.path \in {AnyName, m.path} /\ h.interface \in {AnyName, m.interface}
                 /\ h.member \in {AnyName, m.member}

FirstOf(places) == CHOOSE j \in places : \A k \in places : j <= k

(* handler_list_insert: before the first one that is no more specific.      *)
Insert(chain, h) ==
    LET below == {j \in DOMAIN chain : Score(h) >= Score(chain[j])}
    IN  InsertAt(chain, IF below = {} THEN Len(chain) + 1 ELSE FirstOf(below), h)

(* handler_list_lookup finds the first of the client's with these very names.*)
Lookup(chain, c, r) ==
    {j \in DOMAIN chain : /\ chain[j].client = c /\ chain[j].path = r.path
                          /\ chain[j].interface = r.interface /\ chain[j].member = r.member}

(* handler_list_find.                                                       *)
Find(chain, m) == LET hits == {j \in DOMAIN chain : Matches(chain[j], m)}
                  IN  IF hits = {} THEN {} ELSE {chain[FirstOf(hits)]}

(* dispatch_method: the handlers of the member or, only when it has no      *)
(* chain, those of any member.                                              *)
Dispatched(m) == Find(Chain(methods, IF m.member \in DOMAIN methods THEN m.member ELSE AnyName), m)

Handler(c, r) == [id |-> made + 1, client |-> c, path |-> r.path, interface |-> r.interface,
                  member |-> r.member, arg |-> r.arg]

------------------------------------------------------------------------------
ExportMethod(c, r) ==
    /\ SubscribersRun /\ made < MaxHandlers /\ ~r.arg
    /\ methods' = With(methods, r.member, Insert(Chain(methods, r.member), Handler(c, r)))
    /\ made' = made + 1
    /\ UNCHANGED <<signals, installed, strays, visit, seen, isUp>>

(* The chain stays, even empty.                                             *)
RemoveMethod(c, r) ==
    LET mine == Lookup(Chain(methods, r.member), c, r)
    IN  /\ SubscribersRun /\ mine # {}
        /\ methods' = [methods EXCEPT ![r.member] = RemoveAt(@, FirstOf(mine))]
        /\ UNCHANGED <<signals, made, installed, strays, visit, seen, isUp>>

AddSignalHandler(h) == With(signals, h.member, Insert(Chain(signals, h.member), h))

(* An empty chain of signal handlers is freed.                              *)
DelSignalHandler(tbl, c, r) ==
    LET mine == Lookup(Chain(tbl, r.member), c, r)
        left == RemoveAt(tbl[r.member], FirstOf(mine))
    IN  IF mine = {} THEN tbl
        ELSE IF left = <<>> THEN Without(tbl, r.member) ELSE With(tbl, r.member, left)

(* mrp_dbus_subscribe_signal; ok says whether the bus took the match rule.   *)
Subscribe(c, r, ok) ==
    /\ SubscribersRun /\ made < MaxHandlers
    /\ IF ok THEN /\ signals' = AddSignalHandler(Handler(c, r))
                  /\ installed' = [installed EXCEPT ![r] = @ + 1]
             ELSE /\ signals' = DelSignalHandler(AddSignalHandler(Handler(c, r)), c, r)
                  /\ UNCHANGED installed
    /\ made' = made + 1
    /\ UNCHANGED <<methods, strays, visit, seen, isUp>>

(* mrp_dbus_unsubscribe_signal: the filter goes, handler or not.  The bus   *)
(* ignores the removal of a rule it does not have.                          *)
Unsubscribe(c, r) ==
    LET mine == Lookup(Chain(signals, r.member), c, r)
        id == signals[r.member][FirstOf(mine)].id
    IN  /\ SubscribersRun
        /\ strays' = (strays \/ mine = {} \/ installed[r] = 0)
        /\ signals' = DelSignalHandler(signals, c, r)
        /\ IF mine = {} THEN UNCHANGED visit
           ELSE (InCallback => id = visit.p) /\ visit' = [visit EXCEPT !.due = @ \ {id}]
        /\ installed' = [installed EXCEPT ![r] = IF @ > 0 THEN @ - 1 ELSE 0]
        /\ UNCHANGED <<methods, made, seen, isUp>>

(* mrp_dbus_unref of the last reference: purge_filters removes the filters  *)
(* without their arguments.                                                 *)
Purge ==
    LET bare(r) == Cardinality(SubscribedTo(r))
    IN  /\ SubscribersRun /\ ~InCallback
        /\ isUp' = FALSE /\ methods' = <<>> /\ signals' = <<>>
        /\ installed' = [r \in Patterns |-> IF installed[r] > bare(r) THEN installed[r] - bare(r)
                                                                      ELSE 0]
        /\ UNCHANGED <<made, strays, visit, seen>>

------------------------------------------------------------------------------
(* dispatch_signal: the chain of the member, then the one of any member.    *)
Next1(chain, id) ==       \* the hook after id's; 0 stands for the list head
    LET at == CHOOSE j \in DOMAIN chain : chain[j].id = id
    IN  IF \E j \in DOMAIN chain : chain[j].id = id /\ j < Len(chain) THEN chain[at + 1].id ELSE 0

Enter(v, key) ==
    LET chain == Chain(signals, key)
        first == IF chain = <<>> THEN 0 ELSE chain[1].id
    IN  [v EXCEPT !.key = key, !.p = first, !.n = Next1(chain, first), !.st = "walk"]

StartSignal(m) ==
    LET due == {h \in Subscribed : Matches(h, m)}
    IN  /\ isUp /\ visit.st = "quiet" /\ seen < MaxSignals
        /\ visit' = Enter([Quiet EXCEPT !.msg = m, !.due = {h.id : h \in due}], m.member)
        /\ seen' = seen + 1
        /\ UNCHANGED <<methods, signals, made, installed, strays, isUp>>

Rest == <<methods, signals, made, installed, strays, seen, isUp>>

CallHandler ==
    LET h == CHOOSE g \in ToSet(Chain(signals, visit.key)) : g.id = visit.p
    IN  /\ visit.st = "walk" /\ visit.p # 0
        /\ visit' = [visit EXCEPT !.st = "calling",
                        !.called = IF Matches(h, visit.msg) THEN Append(@, h.id) ELSE @]
        /\ UNCHANGED Rest

NextHandler == /\ visit.st = "calling"
               /\ visit' = [visit EXCEPT !.p = visit.n, !.st = "walk",
                               !.n = IF visit.n = 0 THEN 0
                                     ELSE Next1(Chain(signals, visit.key), visit.n)]
               /\ UNCHANGED Rest

EndChainNoRetry == /\ visit.st = "walk" /\ visit.p = 0
                   /\ visit' = [visit EXCEPT !.st = "end"] /\ UNCHANGED Rest

EndChain == /\ visit.st = "walk" /\ visit.p = 0
            /\ visit' = IF visit.key # AnyName THEN Enter(visit, AnyName) ELSE [visit EXCEPT !.st = "end"]
            /\ UNCHANGED Rest

EndSignal == visit.st = "end" /\ visit' = Quiet /\ UNCHANGED Rest

HandlersNext ==
    \/ \E c \in Subscribers : \E r \in Patterns :
          ExportMethod(c, r) \/ RemoveMethod(c, r) \/ Unsubscribe(c, r)
          \/ \E ok \in BOOLEAN : Subscribe(c, r, ok)
    \/ \E m \in Requests : StartSignal(m)
    \/ CallHandler \/ NextHandler \/ EndChain \/ EndSignal \/ Purge

HandlersSpec == HandlersInit /\ [][HandlersNext]_handlerVars

------------------------------------------------------------------------------
(* A method call goes to a handler that matches it if there is one for its  *)
(* member, to the most specific one, and to the newest of those; one for    *)
(* any member is asked only while no handler was ever exported for it.      *)
MethodReachesBest ==
    \A m \in Requests :
       LET own == {h \in ToSet(Chain(methods, m.member)) : Matches(h, m)}
           all == {h \in ToSet(Chain(methods, AnyName)) : Matches(h, m)}
           from == IF m.member \in DOMAIN methods THEN own ELSE all
       IN  /\ Dispatched(m) = {} <=> from = {}
           /\ \A g \in Dispatched(m) : \A h \in from :
                 Score(h) < Score(g) \/ (Score(h) = Score(g) /\ h.id <= g.id)

(* Every handler that matches a signal when it arrives, and is still there  *)
(* at its turn, is called for it exactly once, although callbacks subscribe *)
(* and unsubscribe themselves and chains come and go under the walk.        *)
SignalReachesAll ==
    visit.st = "end" => \A id \in visit.due :
                           Cardinality({j \in DOMAIN visit.called : visit.called[j] = id}) = 1

(* The bus holds one rule for each subscription, unless a client removed a  *)
(* rule that was not its own; once the connection has gone, none but those  *)
(* with an argument, which stay.                                            *)
RulesBalanced ==
    ~strays => \A r \in Patterns :
       ~r.arg => IF isUp THEN installed[r] + installed[[r EXCEPT !.arg = TRUE]] =
                      Cardinality(SubscribedTo(r))
                 ELSE installed[r] = 0

(* Methods and signals reach the handlers they are for, for which the bus   *)
(* has the rules.                                                           *)
HandlersAreReached == MethodReachesBest /\ SignalReachesAll /\ RulesBalanced
==============================================================================

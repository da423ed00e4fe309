----------------------------- MODULE MCMessaging -----------------------------
(* What travels and where it goes: the codecs of common/msg.c, and the names*)
(* and calls, the methods and signals and the transport on the bus, side by *)
(* side.  A behaviour is one of a single part.                              *)
EXTENDS DbusNames, DbusTransport, DbusHandlers, Message, DataCodec

VARIABLE part

(* Messages of these fields.                                                *)
MCFields == {[tag |-> 1, base |-> "string", array |-> FALSE, vals |-> <<40>>],
   [tag |-> 2, base |-> "u8", array |-> FALSE, vals |-> <<7>>],
   [tag |-> 3, base |-> "u64", array |-> FALSE, vals |-> <<9>>],
   [tag |-> 4, base |-> "string", array |-> TRUE, vals |-> <<1, 5>>],
   [tag |-> 5, base |-> "u16", array |-> TRUE, vals |-> <<3>>],
   [tag |-> 6, base |-> "blob", array |-> FALSE, vals |-> <<16>>],
   [tag |-> 7, base |-> "blob", array |-> TRUE, vals |-> <<16>>]}

Plain(o, b)      == [offs |-> o, base |-> b, array |-> FALSE, guard |-> FALSE, u32 |-> 0]
Counted(o, b, c) == [offs |-> o, base |-> b, array |-> TRUE, guard |-> FALSE, u32 |-> c]
Guarded(o, b, g) == [offs |-> o, base |-> b, array |-> TRUE, guard |-> TRUE, u32 |-> g]
Blob(o, c)       == [offs |-> o, base |-> "blob", array |-> FALSE, guard |-> FALSE, u32 |-> c]
A1 == [tag |-> 1, fields |-> <<Plain(0, "u32"), Plain(4, "u32"), Plain(8, "string"),
                               Counted(16, "string", 0), Guarded(24, "u32", 9)>>]
A2 == [A1 EXCEPT !.fields[4].u32 = 4]
B  == [tag |-> 3, fields |-> <<Plain(0, "u8"), Counted(8, "u16", 0), Plain(16, "string"), Blob(24, 0)>>]
C  == [tag |-> 3, fields |-> <<Counted(0, "u16", 8), Plain(8, "u8")>>]
G == [tag |-> 2, fields |-> <<Guarded(0, "u32", 9), Plain(8, "u32")>>]
F  == [tag |-> 3, fields |-> <<Plain(0, "u8")>>]
N  == [tag |-> 4, fields |-> <<Plain(0, "s8"), Plain(1, "u8"), Counted(8, "blob", 1), Blob(16, 0)>>]
Z  == [tag |-> 0, fields |-> <<Plain(0, "u8")>>]
MCDescriptors == [sender |-> {A1, B, C, G, F, N, Z}, receiver |-> {A1, A2, B, N}]
MCValues(d) ==
    CASE d.tag = 1 -> {<<<<Len(s)>>, <<n>>, <<2>>, s, g>> :
                          s \in {<<>>, <<3>>, <<1, 4>>}, n \in {0, 1}, g \in {<<9>>, <<5, 9>>}}
      [] d.tag = 2 -> {<<<<4, 9>>, <<2>>>>}
      [] d.tag = 3 /\ Len(d.fields) = 4 -> {<<<<Len(s)>>, s, <<3>>, <<5>>>> : s \in {<<>>, <<7, 6>>}}
      [] d.tag = 4 -> {<<<<b>>, <<n>>, SubSeq(<<7>>, 1, n), <<5>>>> : b \in {-2, -1, 1}, n \in {0, 1}}
      [] OTHER -> {<<<<4>>>>}

(* Handlers of each specificity that the two requests tell apart.           *)
Names3(p, f, m) == [path |-> p, interface |-> f, member |-> m]
MCHandlerNames == {Names3("p1", "", "m1"), Names3("p1", "", ""), Names3("", "i1", "m1"), Names3("p2", "i1", "")}
MCBusRequests == {Names3("p1", "i1", "m1"), Names3("p2", "i1", "m2")}

Init == /\ part \in {"message", "data", "names", "handlers", "transport"}
        /\ MessageInit /\ DataInit
        /\ NamesInit /\ HandlersInit /\ TransportInit

Next ==
  \/ part = "message" /\ MessageNext /\ UNCHANGED <<part, dataVars, nameVars, handlerVars, busTransportVars>>
  \/ part = "data" /\ DataNext /\ UNCHANGED <<part, messageVars, nameVars, handlerVars, busTransportVars>>
  \/ part = "names" /\ NamesNext /\ UNCHANGED <<part, messageVars, dataVars, handlerVars, busTransportVars>>
  \/ part = "handlers" /\ HandlersNext /\ UNCHANGED <<part, messageVars, dataVars, nameVars, busTransportVars>>
  \/ part = "transport" /\ TransportNext /\ UNCHANGED <<part, messageVars, dataVars, nameVars, handlerVars>>

Spec == Init /\ [][Next]_<<part, messageVars, dataVars, nameVars, handlerVars, busTransportVars>>
==============================================================================

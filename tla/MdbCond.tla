------------------------------- MODULE MdbCond -------------------------------
(* Conditions: murphy-db/mdb/cond.c evaluates the entries of a where clause *)
(* on a stack, as the precedences of the operators allow, and calls itself  *)
(* for what is in parentheses.                                              *)
(*                                                                          *)
(* An entry is an operator or a value [type, v]; the values of columns have *)
(* been read already.  v is a number; for a string zero stands for NULL and *)
(* for the empty one.  Floating and blob values compare to false like those *)
(* of different types, and stand for `other'.                               *)
EXTENDS Integers, Sequences, FiniteSets, FiniteSetsExt

CONSTANTS Values      \* the values conditions are made of

Precedence == [begin |-> 1, and |-> 2, or |-> 3, less |-> 4, leq |-> 4, eq |-> 4,
               geq |-> 4, gt |-> 4, not |-> 5, end |-> 0]
Binary == {"and", "or", "less", "leq", "eq", "geq", "gt"}

Op(o)   == [op |-> o, type |-> "op", v |-> 0]
Val(x)  == [op |-> "data", type |-> x.type, v |-> x.v]
Truth(b)  == [op |-> "data", type |-> "integer", v |-> IF b THEN 1 ELSE 0]
IsOp(e) == e.op # "data"

------------------------------------------------------------------------------
(* The operators.                                                           *)
Compare(o, a, b) == CASE o = "less" -> a < b [] o = "leq" -> a <= b [] o = "eq" -> a = b
                      [] o = "geq" -> a >= b [] o = "gt" -> a > b

(* cond_relop; without the types that compare to nothing.                   *)
Relop(o, x, y) == x.type = y.type /\ x.type \in {"varchar", "integer", "unsignd"}
                  /\ Compare(o, x.v, y.v)

(* cond_binary_logicop knows numbers only.                                  *)
Logicop(o, x, y) == /\ x.type = y.type /\ x.type \in {"integer", "unsignd"}
                    /\ IF o = "and" THEN x.v # 0 /\ y.v # 0 ELSE x.v # 0 \/ y.v # 0

(* cond_unary_logicop                                                       *)
NotOp(x) == x.type \in {"varchar", "integer", "unsignd"} /\ x.v = 0

Apply(o, x, y) == Truth(IF o \in {"and", "or"} THEN Logicop(o, x, y) ELSE Relop(o, x, y))

------------------------------------------------------------------------------
(* The stack, with the operator it is at: a sequence, the last operator in  *)
(* it being lastop.                                                         *)
LastOp(st) == Max({j \in DOMAIN st : IsOp(st[j])})

ReducesAlways(pr, o) == pr <= Precedence[o]

(* Only what binds stronger than the new operator.                          *)
Reduces(pr, o) == pr < Precedence[o]

(* cond_eval: operands around the operator, or after it, become one value.  *)
RECURSIVE Eval(_, _)
Eval(st, pr) ==
    LET j == LastOp(st)
        o == st[j].op
    IN  IF ~Reduces(pr, o) THEN st
        ELSE CASE o = "begin" -> <<[op |-> "data", type |-> "integer", v |-> st[j + 1].v]>>
               [] o = "not" -> Eval(SubSeq(st, 1, j - 1) \o <<Truth(NotOp(st[j + 1]))>>, pr)
               [] OTHER       -> Eval(SubSeq(st, 1, j - 2) \o <<Apply(o, st[j - 1], st[j + 1])>>, pr)

(* mdb_cond_evaluate from entry p on: the result, -1 for an error, and the  *)
(* entry after the end.                                                     *)
RECURSIVE Evaluate(_, _, _)
Evaluate(cond, p, st) ==
    LET e == cond[p] IN
    CASE e.op = "data" -> Evaluate(cond, p + 1, Append(st, e))
      [] e.op = "begin" ->
           LET inner == Evaluate(cond, p + 1, <<Op("begin")>>)
           IN  Evaluate(cond, inner[2], Append(Eval(st, Precedence["begin"]), Truth(inner[1] > 0)))
      [] e.op = "end" ->
           LET last == Eval(st, 0)[1]
           IN  <<IF last.type # "integer" THEN -1 ELSE IF last.v # 0 THEN 1 ELSE 0, p + 1>>
      [] OTHER -> Evaluate(cond, p + 1, Append(Eval(st, Precedence[e.op]), e))

Result(cond) == Evaluate(cond, 1, <<Op("begin")>>)[1]

------------------------------------------------------------------------------
(* Reference: what a condition means, by the loosest operator in it.        *)
(* Operators of one kind group to the right.                                *)
Depth(c, j) == Cardinality({i \in 1 .. j : c[i].op = "begin"})
               - Cardinality({i \in 1 .. j - 1 : c[i].op = "end"})

RECURSIVE Meaning(_)
Meaning(c) ==
    LET at == {j \in DOMAIN c : c[j].op \in Binary /\ Depth(c, j) = 0}
        loosest == {j \in at : \A k \in at : Precedence[c[j].op] <= Precedence[c[k].op]}
        j == Min(loosest)
    IN  CASE at # {} -> Apply(c[j].op, Meaning(SubSeq(c, 1, j - 1)), Meaning(SubSeq(c, j + 1, Len(c))))
          [] at = {} /\ c[1].op = "not" -> Truth(NotOp(Meaning(Tail(c))))
          [] at = {} /\ c[1].op = "begin" -> LET m == Meaning(SubSeq(c, 2, Len(c) - 1)) IN Truth(m.v # 0)
          [] OTHER -> c[1]

------------------------------------------------------------------------------
(* The conditions checked: operands with or without a `not', and operators  *)
(* between them; parentheses only where a condition begins.                 *)
Operands == {<<Val(x)>> : x \in Values} \cup {<<Op("not"), Val(x)>> : x \in Values}
Pairs == {a \o <<Op(o)>> \o b : a, b \in Operands, o \in {"and", "or", "less", "eq"}}
Conditions == Operands \cup Pairs \cup {p \o <<Op(o)>> \o b : p \in Pairs, o \in {"and", "or", "eq"}, b \in Operands}
              \cup {<<Op("begin")>> \o p \o <<Op("end"), Op(o)>> \o b :
                       p \in Pairs, o \in {"and", "or", "eq"}, b \in Operands}

VARIABLES cond, result
condVars == <<cond, result>>

CondInit == cond \in Conditions /\ result = {}
CondNext == result = {} /\ result' = {Result(Append(cond, Op("end")))} /\ UNCHANGED cond

(* A condition evaluates to what it means: `or' binds stronger than `and',  *)
(* both weaker than comparing and that weaker than `not', whatever the      *)
(* types of what is compared (mdb_cond_evaluate, cond_eval).                *)
ConditionsMeanWhatTheySay == result # {} => result = {IF Meaning(cond).v # 0 THEN 1 ELSE 0}
==============================================================================

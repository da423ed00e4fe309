------------------------------ MODULE DbusProofs -------------------------------
(* Proofs about what is followed on the bus: the names of DbusNames, by the  *)
(* invariant NamesIInv, the peer of DbusTransport, by TransportInv, and the  *)
(* handlers of DbusHandlers, by HandlersInv; and about what travels, the     *)
(* messages of Message, by MsgInv, and the structures of DataCodec, by       *)
(* DataIInv.                                                                 *)
EXTENDS DbusNames, DbusTransport, DbusHandlers, Message, DataCodec, ListFacts, FiniteSetTheorems, TLAPS

OwnersOrNone == Owners \union {NoOwner}

Messages == [kind : {"signal"}, name : Names, next : OwnersOrNone]
            \union [kind : {"reply"}, id : Nat, up : BOOLEAN, owner : OwnersOrNone]

Trackers == [name : Names, client : Clients \union {NoOwner}, st : {"active", "zombie", "call", "freed"},
             told : [up : BOOLEAN, owner : OwnersOrNone \union {"unknown"}], late : BOOLEAN]

Ids == DOMAIN tracker

NameTypes ==
    /\ owner \in [Names -> OwnersOrNone] /\ rules \in [Names -> Nat]
    /\ inq \in Seq(Messages)
    /\ asked \subseteq held /\ held \subseteq Ids /\ calls \subseteq Ids
    /\ trackers \in Seq(Ids) /\ tracker \in Seq(Trackers)
    /\ walk \in [p : Nat, n : Nat, next : OwnersOrNone, called : BOOLEAN]
    /\ alive \in BOOLEAN

Followers(m) == {k \in ToSet(trackers) : tracker[k].name = m}

(* Trackers are listed once and active, and have a rule each.               *)
Listed ==
    /\ IsInjective(trackers)
    /\ \A k \in ToSet(trackers) : tracker[k].st = "active"
    /\ ~alive => trackers = <<>>
    /\ alive => held = calls /\ \A m \in Names : rules[m] = Cardinality(Followers(m))

(* The only answer to a call that is held, and asked the bus no more.       *)
Replies ==
    \A i \in DOMAIN inq : inq[i].kind = "reply" =>
       /\ inq[i].id \in held \ asked
       /\ inq[i].up = (inq[i].owner # NoOwner)
       /\ \A j \in DOMAIN inq : Answers(j, inq[i].id) => j = i

(* A call waits for its answer, the answer is on its way, or neither; it is *)
(* held until then, and by libdbus also when its connection is gone.        *)
Held ==
    /\ Replies
    /\ \A k \in Ids : /\ tracker[k].st = "zombie" => k \in held
                      /\ tracker[k].late => k \notin held

(* The walk is about the signal in front, its current tracker is on the     *)
(* list until it is called, and the next one is the one after it.           *)
Walks ==
    Walking =>
        /\ alive /\ inq # <<>> /\ inq[1].kind = "signal" /\ walk.next = inq[1].next
        /\ walk.p \in Ids /\ walk.n \in {Head0} \union ToSet(trackers) /\ walk.p # walk.n
        /\ ~walk.called => \E i \in DOMAIN trackers :
              /\ trackers[i] = walk.p
              /\ walk.n # Head0 => i + 1 \in DOMAIN trackers /\ trackers[i + 1] = walk.n

(* The walk has yet to come to the tracker k.                               *)
Ahead(k) == \E i, j \in DOMAIN trackers : i <= j /\ trackers[i] = walk.n /\ trackers[j] = k
ToVisit(k) == (k = walk.p /\ ~walk.called) \/ Ahead(k)

(* What the i-th message of the queue says of the owner of a name, and to   *)
(* whom: the answer to the tracker that asked, a signal to all followers    *)
(* but those that were called for it already.                               *)
Says(i) == IF inq[i].kind = "signal" THEN inq[i].next ELSE inq[i].owner
Concerns(i, k) ==
    \/ Answers(i, k)
    \/ inq[i].kind = "signal" /\ inq[i].name = tracker[k].name /\ (Walking /\ i = 1 => ToVisit(k))
News(k) == {i \in DOMAIN inq : Concerns(i, k)}

Known(o) == [up |-> o # NoOwner, owner |-> o]

(* A tracker has asked, or the newest news on its way to it says who owns   *)
(* its name now, or it was told so and there are no news.                   *)
Informed(k) ==
    LET o == owner[tracker[k].name]
    IN  \/ k \in asked \/ tracker[k].late
        \/ News(k) = {} /\ tracker[k].told = Known(o)
        \/ \E i \in News(k) : Says(i) = o /\ \A j \in News(k) : j <= i

NamesIInv == /\ NameTypes /\ Listed /\ Held /\ Walks
             /\ \A k \in ToSet(trackers) : Informed(k)

------------------------------------------------------------------------------
\* The domains and ranges of the sequences.
LEMMA NameSeqs ==
    ASSUME NameTypes
    PROVE  /\ Len(inq) \in Nat /\ DOMAIN inq = 1 .. Len(inq) /\ \A i \in 1 .. Len(inq) : inq[i] \in Messages
           /\ Len(trackers) \in Nat /\ DOMAIN trackers = 1 .. Len(trackers)
           /\ \A i \in 1 .. Len(trackers) : trackers[i] \in Ids /\ trackers[i] \in ToSet(trackers)
           /\ ToSet(trackers) \subseteq Ids /\ IsFiniteSet(ToSet(trackers))
           /\ Len(tracker) \in Nat /\ Ids = 1 .. Len(tracker) /\ \A k \in Ids : tracker[k] \in Trackers
           /\ Head0 \notin Ids /\ Fresh \notin Ids
<1>1. /\ Len(inq) \in Nat /\ DOMAIN inq = 1 .. Len(inq) /\ \A i \in 1 .. Len(inq) : inq[i] \in Messages
      /\ Len(tracker) \in Nat /\ Ids = 1 .. Len(tracker) /\ \A k \in Ids : tracker[k] \in Trackers
  BY LenProperties, ElementOfSeq DEF NameTypes, Ids
<1>2. /\ Len(trackers) \in Nat /\ DOMAIN trackers = 1 .. Len(trackers)
      /\ \A i \in 1 .. Len(trackers) : trackers[i] \in Ids
  BY LenProperties, ElementOfSeq DEF NameTypes
<1>3. /\ \A i \in 1 .. Len(trackers) : trackers[i] \in ToSet(trackers)
      /\ ToSet(trackers) \subseteq Ids
  BY <1>2 DEF ToSet
<1>4. IsFiniteSet(ToSet(trackers))
  <2>1. IsFiniteSet(1 .. Len(tracker))
    BY <1>1, FS_Interval
  <2> QED  BY <1>1, <1>3, <2>1, FS_Subset
<1> QED  BY <1>1, <1>2, <1>3, <1>4 DEF Head0, Fresh

\* What concerns a tracker does not change when neither the queue does nor
\* whether the walk has still to come to it.
LEMMA InformedStays ==
    ASSUME NEW k, Informed(k), UNCHANGED inq, tracker'[k] = tracker[k],
           owner'[tracker[k].name] = owner[tracker[k].name],
           k \in asked => k \in asked',
           Walking' <=> Walking, Walking => (ToVisit(k)' <=> ToVisit(k))
    PROVE  Informed(k)'
<1>1. ASSUME NEW i  PROVE Concerns(i, k)' <=> Concerns(i, k)
  BY DEF Concerns, Answers
<1>2. News(k)' = News(k)
  BY <1>1 DEF News
<1>3. \A i : Says(i)' = Says(i)
  BY DEF Says
<1> QED  BY <1>2, <1>3 DEF Informed, Known

(* The r-th message leaves the queue.                                       *)
Shorter(r) ==
    /\ inq' \in Seq(Messages) /\ DOMAIN inq' = 1 .. Len(inq) - 1
    /\ \A i \in 1 .. Len(inq) - 1 : inq'[i] = IF i < r THEN inq[i] ELSE inq[i + 1]

Old(r, i) == IF i < r THEN i ELSE i + 1

\* The news of a tracker are what they were, without that message.
LEMMA NewsShifted ==
    ASSUME NEW k, NEW r \in DOMAIN inq, NameTypes, Shorter(r),
           tracker'[k].name = tracker[k].name,
           Walking' => Walking /\ r # 1 /\ (ToVisit(k)' <=> ToVisit(k)),
           Walking => Walking' \/ r = 1
    PROVE  /\ News(k)' \subseteq 1 .. Len(inq) - 1
           /\ \A i \in 1 .. Len(inq) - 1 :
                (i \in News(k)' <=> Old(r, i) \in News(k)) /\ Says(i)' = Says(Old(r, i))
<1>1. Len(inq) \in Nat /\ DOMAIN inq = 1 .. Len(inq)
  BY NameSeqs
<1>2. /\ \A i \in 1 .. Len(inq) - 1 : Old(r, i) \in DOMAIN inq /\ inq'[i] = inq[Old(r, i)]
      /\ DOMAIN inq' = 1 .. Len(inq) - 1
  BY <1>1 DEF Old, Shorter
<1>3. ASSUME NEW i \in 1 .. Len(inq) - 1
      PROVE  Concerns(i, k)' <=> Concerns(Old(r, i), k)
  <2>1. (Walking' /\ i = 1 => ToVisit(k)') <=> (Walking /\ Old(r, i) = 1 => ToVisit(k))
    <3>1. CASE i < r
      BY <1>1, <3>1 DEF Old
    <3>2. CASE ~(i < r)
      BY <1>1, <3>2 DEF Old
    <3> QED  BY <3>1, <3>2
  <2> QED  BY <1>2, <2>1 DEF Concerns, Answers
<1>4. \A i \in 1 .. Len(inq) - 1 : Says(i)' = Says(Old(r, i))
  BY <1>2 DEF Says
<1> QED  BY <1>2, <1>3, <1>4 DEF News

\* A message that does not concern a tracker leaves the queue.
LEMMA NewsRemoved ==
    ASSUME NEW k, NEW r \in DOMAIN inq, NameTypes, Shorter(r), Informed(k), r \notin News(k),
           tracker'[k] = tracker[k], UNCHANGED owner,
           k \in asked => k \in asked',
           Walking' => Walking /\ r # 1 /\ (ToVisit(k)' <=> ToVisit(k)),
           Walking => Walking' \/ r = 1
    PROVE  Informed(k)'
<1> DEFINE New(i) == IF i < r THEN i ELSE i - 1
<1>1. Len(inq) \in Nat /\ DOMAIN inq = 1 .. Len(inq)
  BY NameSeqs
<1>2. /\ \A i \in DOMAIN inq \ {r} : New(i) \in 1 .. Len(inq) - 1 /\ Old(r, New(i)) = i
      /\ \A i, j \in 1 .. Len(inq) - 1 : i <= j <=> Old(r, i) <= Old(r, j)
  BY <1>1 DEF Old
<1> HIDE DEF New
<1>3. /\ News(k)' \subseteq 1 .. Len(inq) - 1
      /\ \A i \in 1 .. Len(inq) - 1 :
           (i \in News(k)' <=> Old(r, i) \in News(k)) /\ Says(i)' = Says(Old(r, i))
  BY NewsShifted
<1>4. \A i \in News(k) : i \in DOMAIN inq \ {r}
  BY DEF News
<1>5. CASE k \in asked \/ tracker[k].late
  BY <1>5 DEF Informed
<1>6. CASE News(k) = {} /\ tracker[k].told = Known(owner[tracker[k].name])
  <2>1. News(k)' = {}
    BY <1>3, <1>6
  <2> QED  BY <1>6, <2>1 DEF Informed, Known
<1>7. ASSUME NEW n \in News(k), Says(n) = owner[tracker[k].name], \A j \in News(k) : j <= n
      PROVE  Informed(k)'
  <2>1. New(n) \in 1 .. Len(inq) - 1 /\ Old(r, New(n)) = n
    BY <1>2, <1>4
  <2>2. New(n) \in News(k)' /\ Says(New(n))' = Says(n)
    BY <1>3, <2>1
  <2>3. ASSUME NEW j \in News(k)'  PROVE j <= New(n)
    <3>1. j \in 1 .. Len(inq) - 1 /\ Old(r, j) \in News(k)
      BY <1>3
    <3> QED  BY <1>2, <1>7, <2>1, <3>1
  <2> QED  BY <1>7, <2>2, <2>3 DEF Informed
<1> QED  BY <1>5, <1>6, <1>7 DEF Informed

\* A message arrives: the news of a tracker are what they were, and it.
LEMMA NewsAppended ==
    ASSUME NEW k, NameTypes, NEW w \in Messages, inq' = Append(inq, w), Walks,
           UNCHANGED <<tracker, trackers, walk>>, NEW n, n = Len(inq) + 1
    PROVE  /\ n \in News(k)' <=> \/ w.kind = "reply" /\ w.id = k
                                 \/ w.kind = "signal" /\ w.name = tracker[k].name
           /\ \A i \in 1 .. Len(inq) : (i \in News(k)' <=> i \in News(k)) /\ Says(i)' = Says(i)
           /\ News(k)' \subseteq 1 .. n /\ News(k) \subseteq 1 .. Len(inq)
           /\ Says(n)' = IF w.kind = "signal" THEN w.next ELSE w.owner
<1>1. Len(inq) \in Nat /\ DOMAIN inq = 1 .. Len(inq)
  BY NameSeqs
<1>2. /\ DOMAIN inq' = 1 .. Len(inq) + 1 /\ inq'[Len(inq) + 1] = w
      /\ \A i \in 1 .. Len(inq) : inq'[i] = inq[i]
  <2>1. inq \in Seq(Messages)
    BY DEF NameTypes
  <2>2. Len(inq') = Len(inq) + 1 /\ inq' \in Seq(Messages)
    BY <2>1, AppendFacts
  <2> QED  BY <2>1, <2>2, AppendFacts, LenProperties
<1>3. (Walking' <=> Walking) /\ (ToVisit(k)' <=> ToVisit(k))
  BY DEF Walking, ToVisit, Ahead
<1>4. \A i \in 1 .. Len(inq) : Concerns(i, k)' <=> Concerns(i, k)
  BY <1>2, <1>3 DEF Concerns, Answers
<1>5. Walking => Len(inq) + 1 # 1
  BY <1>1, EmptySeq DEF Walks, NameTypes
<1>6. /\ n \in News(k)' <=> \/ w.kind = "reply" /\ w.id = k
                            \/ w.kind = "signal" /\ w.name = tracker[k].name
      /\ Says(n)' = IF w.kind = "signal" THEN w.next ELSE w.owner
  <2>1. n \in DOMAIN inq' /\ inq'[n] = w /\ (Walking => n # 1)
    BY <1>1, <1>2, <1>5
  <2>2. Concerns(n, k)' <=> \/ w.kind = "reply" /\ w.id = k
                            \/ w.kind = "signal" /\ w.name = tracker[k].name
    BY <1>3, <2>1 DEF Concerns, Answers
  <2> QED  BY <2>1, <2>2 DEF News, Says
<1>7. \A i \in 1 .. Len(inq) : (i \in News(k)' <=> i \in News(k)) /\ Says(i)' = Says(i)
  BY <1>1, <1>2, <1>4 DEF News, Says
<1>8. News(k)' \subseteq 1 .. n /\ News(k) \subseteq 1 .. Len(inq)
  BY <1>1, <1>2 DEF News
<1> QED  BY <1>6, <1>7, <1>8

------------------------------------------------------------------------------
\* Nothing is followed yet.
LEMMA NamesInitInv == NamesInit => NamesIInv
<1> SUFFICES ASSUME NamesInit PROVE NamesIInv
  OBVIOUS
<1>1. /\ owner = [m \in Names |-> NoOwner] /\ rules = [m \in Names |-> 0] /\ alive = TRUE
      /\ inq = <<>> /\ trackers = <<>> /\ tracker = <<>> /\ asked = {} /\ held = {} /\ calls = {}
      /\ walk = [p |-> 0, n |-> 0, next |-> NoOwner, called |-> FALSE] /\ ~Walking
  BY DEF NamesInit, Idle, Head0, Walking
<1>2. /\ DOMAIN inq = {} /\ DOMAIN trackers = {} /\ Ids = {} /\ ToSet(trackers) = {}
      /\ inq \in Seq(Messages) /\ trackers \in Seq(Ids) /\ tracker \in Seq(Trackers)
  BY <1>1 DEF ToSet, Ids
<1>3. NameTypes
  <2>1. owner \in [Names -> OwnersOrNone] /\ rules \in [Names -> Nat]
    BY <1>1 DEF OwnersOrNone
  <2>2. walk \in [p : Nat, n : Nat, next : OwnersOrNone, called : BOOLEAN]
    BY <1>1 DEF OwnersOrNone
  <2> QED  BY <1>1, <1>2, <2>1, <2>2 DEF NameTypes
<1>4. Listed
  <2>1. \A m \in Names : rules[m] = 0 /\ Followers(m) = {}
    BY <1>1, <1>2 DEF Followers
  <2>2. Cardinality({}) = 0
    BY FS_EmptySet
  <2> QED  BY <1>1, <1>2, <2>1, <2>2 DEF Listed, IsInjective
<1>5. Held
  BY <1>2 DEF Held, Replies
<1>6. Walks
  BY <1>1 DEF Walks
<1> QED  BY <1>2, <1>3, <1>4, <1>5, <1>6 DEF NamesIInv

\* A message at the end of the queue is about no call in it, or about one
\* that waits for its answer no more.
LEMMA HeldAppended ==
    ASSUME NameTypes, Held, Walks, NEW w \in Messages, inq' = Append(inq, w),
           UNCHANGED <<held, tracker, walk, alive, trackers>>, asked' \subseteq asked,
           w.kind = "reply" => w.id \in asked /\ w.id \notin asked' /\ w.up = (w.owner # NoOwner)
    PROVE  Held' /\ Walks'
<1>1. Len(inq) \in Nat /\ DOMAIN inq = 1 .. Len(inq)
  BY NameSeqs
<1>2. /\ DOMAIN inq' = 1 .. Len(inq) + 1 /\ inq'[Len(inq) + 1] = w
      /\ \A i \in 1 .. Len(inq) : inq'[i] = inq[i]
  <2>1. inq \in Seq(Messages)
    BY DEF NameTypes
  <2>2. Len(inq') = Len(inq) + 1 /\ inq' \in Seq(Messages)
    BY <2>1, AppendFacts
  <2> QED  BY <2>1, <2>2, AppendFacts, LenProperties
<1>3. ASSUME NEW i \in DOMAIN inq'
      PROVE  (i \in DOMAIN inq /\ inq'[i] = inq[i]) \/ (i = Len(inq) + 1 /\ inq'[i] = w)
  <2>1. i \in 1 .. Len(inq) \/ i = Len(inq) + 1
    BY <1>1, <1>2
  <2> QED  BY <1>1, <1>2, <2>1
<1>4. asked \subseteq held
  BY DEF NameTypes
<1>5. ASSUME NEW i \in DOMAIN inq', inq'[i].kind = "reply"
      PROVE  /\ inq'[i].id \in held \ asked' /\ inq'[i].up = (inq'[i].owner # NoOwner)
             /\ \A j \in DOMAIN inq' : Answers(j, inq[i].id)' => j = i
  <2>1. CASE i \in DOMAIN inq /\ inq'[i] = inq[i]
    <3>1. inq[i].id \in held \ asked /\ inq[i].up = (inq[i].owner # NoOwner)
      BY <1>5, <2>1 DEF Held, Replies
    <3>2. ASSUME NEW j \in DOMAIN inq', inq'[j].kind = "reply", inq'[j].id = inq[i].id  PROVE j = i
      BY <1>3, <1>5, <2>1, <3>1, <3>2 DEF Held, Replies, Answers
    <3> QED  BY <2>1, <3>1, <3>2 DEF Answers
  <2>2. CASE i = Len(inq) + 1 /\ inq'[i] = w
    <3>1. ASSUME NEW j \in DOMAIN inq', inq'[j].kind = "reply", inq'[j].id = w.id  PROVE j = i
      BY <1>3, <1>5, <2>2, <3>1 DEF Held, Replies
    <3> QED  BY <1>4, <1>5, <2>2, <3>1 DEF Answers
  <2> QED  BY <1>3, <2>1, <2>2
<1>6. Held'
  <2>1. \A k \in Ids' : /\ tracker'[k].st = "zombie" => k \in held'
                        /\ tracker'[k].late => k \notin held'
    BY DEF Held, Replies, Ids
  <2> QED  BY <1>5, <2>1 DEF Held, Replies
<1>7. Walks'
  <2> SUFFICES ASSUME Walking  PROVE Walks'
    BY DEF Walks, Walking
  <2>1. 1 \in DOMAIN inq
    BY <1>1, EmptySeq DEF Walks, NameTypes
  <2>2. inq'[1] = inq[1] /\ inq' # <<>>
    BY <1>1, <1>2, <2>1
  <2> QED  BY <2>2 DEF Walks, Walking, Ids
<1> QED  BY <1>6, <1>7

\* The bus sends word of a new owner to whom it has a rule for.
LEMMA ChangeOwnerInv ==
    ASSUME NamesIInv, NEW m \in Names, NEW o \in OwnersOrNone, ChangeOwner(m, o)
    PROVE  NamesIInv'
<1> DEFINE w == [kind |-> "signal", name |-> m, next |-> o]
<1>1. /\ owner' = [owner EXCEPT ![m] = o]
      /\ UNCHANGED <<rules, asked, held, calls, trackers, tracker, walk, alive>>
      /\ inq' = IF rules[m] > 0 THEN Append(inq, w) ELSE inq
  BY DEF ChangeOwner
<1>2. w \in Messages /\ w.kind = "signal" /\ w.name = m /\ w.next = o
  BY DEF Messages
<1> HIDE DEF w
<1>3. NameTypes /\ Listed /\ Held /\ Walks
  BY DEF NamesIInv
<1>4. owner' \in [Names -> OwnersOrNone] /\ owner'[m] = o /\ \A x \in Names \ {m} : owner'[x] = owner[x]
  BY <1>1, <1>3 DEF NameTypes
<1>5. Ids' = Ids /\ ToSet(trackers)' = ToSet(trackers) /\ Followers(m)' = Followers(m)
  BY <1>1 DEF Ids, Followers
<1>6. inq' \in Seq(Messages)
  BY <1>1, <1>2, <1>3, AppendFacts DEF NameTypes
<1>7. NameTypes'
  BY <1>1, <1>3, <1>4, <1>5, <1>6 DEF NameTypes
<1>8. Listed'
  BY <1>1, <1>3, <1>5 DEF Listed, Followers
<1>9. Held' /\ Walks'
  <2>1. CASE rules[m] > 0
    BY <1>1, <1>2, <1>3, <2>1, HeldAppended
  <2>2. CASE ~(rules[m] > 0)
    BY <1>1, <1>3, <2>2 DEF Held, Replies, Walks, Walking, Answers, Ids
  <2> QED  BY <2>1, <2>2
<1>10. ASSUME NEW k \in ToSet(trackers)  PROVE Informed(k)'
  <2>1. k \in Ids /\ tracker[k].name \in Names /\ Informed(k)
    BY <1>3, NameSeqs DEF NamesIInv, Trackers
  <2>2. CASE inq' = inq /\ tracker[k].name # m
    BY <1>1, <1>4, <2>1, <2>2, InformedStays DEF Walking, ToVisit, Ahead
  <2>3. CASE tracker[k].name = m
    <3>1. rules[m] > 0
      <4>1. k \in Followers(m) /\ alive
        BY <1>3, <1>10, <2>3 DEF Listed, Followers, ToSet
      <4>2. IsFiniteSet(Followers(m))
        BY <1>3, NameSeqs, FS_Subset DEF Followers
      <4>3. Cardinality(Followers(m)) \in Nat /\ Cardinality(Followers(m)) # 0
        BY <4>1, <4>2, FS_CardinalityType, FS_EmptySet
      <4> QED  BY <1>3, <4>1, <4>3 DEF Listed
    <3>2. PICK n : n = Len(inq) + 1
      OBVIOUS
    <3>3. n \in News(k)' /\ Says(n)' = o /\ \A j \in News(k)' : j <= n
      <4>1. inq' = Append(inq, w)
        BY <1>1, <3>1
      <4>2. /\ n \in News(k)' /\ Says(n)' = o /\ News(k)' \subseteq 1 .. n
        BY <1>1, <1>2, <1>3, <2>3, <3>2, <4>1, NewsAppended
      <4> QED  BY <4>2
    <3> QED  BY <1>1, <1>4, <2>3, <3>3 DEF Informed
  <2>4. CASE inq' = Append(inq, w) /\ tracker[k].name # m
    <3>1. PICK n : n = Len(inq) + 1
      OBVIOUS
    <3>2. /\ n \notin News(k)' /\ News(k)' \subseteq 1 .. n /\ News(k) \subseteq 1 .. Len(inq)
          /\ \A i \in 1 .. Len(inq) : (i \in News(k)' <=> i \in News(k)) /\ Says(i)' = Says(i)
      BY <1>1, <1>2, <1>3, <2>4, <3>1, NewsAppended
    <3>3. News(k)' = News(k) /\ \A i \in News(k) : Says(i)' = Says(i)
      <4>1. Len(inq) \in Nat /\ 1 .. n = 1 .. Len(inq) \union {n}
        BY <1>3, <3>1, NameSeqs
      <4> QED  BY <3>2, <4>1
    <3> QED  BY <1>1, <1>4, <2>1, <2>4, <3>3 DEF Informed, Known
  <2> QED  BY <1>1, <2>2, <2>3, <2>4
<1> QED  BY <1>5, <1>7, <1>8, <1>9, <1>10 DEF NamesIInv

\* The bus answers who owns the name now.
LEMMA AnswerInv ==
    ASSUME NamesIInv, NEW k \in Ids, Answer(k)
    PROVE  NamesIInv'
<1> DEFINE o == owner[tracker[k].name]
           w == [kind |-> "reply", id |-> k, up |-> o # NoOwner, owner |-> o]
<1>1. /\ k \in asked /\ asked' = asked \ {k} /\ inq' = Append(inq, w)
      /\ UNCHANGED <<owner, rules, held, calls, trackers, tracker, walk, alive>>
  BY DEF Answer
<1>2. NameTypes /\ Listed /\ Held /\ Walks
  BY DEF NamesIInv
<1>3. k \in Nat /\ o \in OwnersOrNone
  BY <1>2, NameSeqs DEF NameTypes, Trackers
<1>4. w \in Messages /\ w.kind = "reply" /\ w.id = k /\ w.up = (w.owner # NoOwner) /\ w.owner = o
  BY <1>3 DEF Messages
<1> HIDE DEF w
<1>5. Ids' = Ids /\ ToSet(trackers)' = ToSet(trackers) /\ \A m : Followers(m)' = Followers(m)
  BY <1>1 DEF Ids, Followers
<1>6. inq' \in Seq(Messages)
  BY <1>1, <1>2, <1>4, AppendFacts DEF NameTypes
<1>7. NameTypes'
  BY <1>1, <1>2, <1>5, <1>6 DEF NameTypes
<1>8. Listed'
  BY <1>1, <1>2, <1>5 DEF Listed
<1>9. Held' /\ Walks'
  BY <1>1, <1>2, <1>4, HeldAppended
<1>10. ASSUME NEW x \in ToSet(trackers)  PROVE Informed(x)'
  <2>1. Informed(x)
    BY DEF NamesIInv
  <2>2. PICK n : n = Len(inq) + 1
    OBVIOUS
  <2>3. /\ n \in News(x)' <=> x = k
        /\ \A i \in 1 .. Len(inq) : (i \in News(x)' <=> i \in News(x)) /\ Says(i)' = Says(i)
        /\ News(x)' \subseteq 1 .. n /\ News(x) \subseteq 1 .. Len(inq)
        /\ Says(n)' = o
    BY <1>1, <1>2, <1>4, <2>2, NewsAppended
  <2>4. CASE x = k
    <3>1. n \in News(x)' /\ \A j \in News(x)' : j <= n
      BY <2>3, <2>4
    <3> QED  BY <1>1, <2>3, <2>4, <3>1 DEF Informed
  <2>5. CASE x # k
    <3>1. News(x)' = News(x) /\ \A i \in News(x) : Says(i)' = Says(i)
      <4>1. Len(inq) \in Nat /\ 1 .. n = 1 .. Len(inq) \union {n}
        BY <1>2, <2>2, NameSeqs
      <4> QED  BY <2>3, <2>5, <4>1
    <3>2. x \in asked => x \in asked'
      BY <1>1, <2>5
    <3> QED  BY <1>1, <2>1, <3>1, <3>2 DEF Informed, Known
  <2> QED  BY <2>4, <2>5
<1> QED  BY <1>5, <1>7, <1>8, <1>9, <1>10 DEF NamesIInv

\* A tracker or a call is made; it waits for its answer.
LEMMA CallMade ==
    ASSUME NamesIInv, alive, Walking => walk.called, NEW nt \in Trackers, nt.st # "zombie", ~nt.late,
           tracker' = Append(tracker, nt), MakeCall(Fresh), UNCHANGED <<owner, inq, walk, alive>>,
           \/ trackers' = trackers
           \/ trackers' = Append(trackers, Fresh)
    PROVE  /\ tracker' \in Seq(Trackers) /\ Ids' = Ids \union {Fresh} /\ Fresh \notin Ids
           /\ \A k \in Ids : tracker'[k] = tracker[k]
           /\ tracker'[Fresh] = nt
           /\ asked' \subseteq held' /\ held' \subseteq Ids' /\ calls' \subseteq Ids'
           /\ held' = calls' /\ Fresh \in asked'
           /\ trackers' \in Seq(Ids') /\ IsInjective(trackers')
           /\ ToSet(trackers') = ToSet(trackers) \/ ToSet(trackers') = ToSet(trackers) \union {Fresh}
           /\ Held' /\ Walks'
           /\ \A k \in ToSet(trackers) : Informed(k)'
<1>1. NameTypes /\ Listed /\ Held /\ Walks
  BY DEF NamesIInv
<1>2. Fresh \notin Ids /\ ToSet(trackers) \subseteq Ids /\ Ids = 1 .. Len(tracker) /\ Len(tracker) \in Nat
  BY <1>1, NameSeqs
<1>3. /\ tracker' \in Seq(Trackers) /\ Len(tracker') = Len(tracker) + 1
      /\ \A k \in Ids : tracker'[k] = tracker[k]
      /\ tracker'[Fresh] = nt
  <2>1. tracker \in Seq(Trackers)
    BY <1>1 DEF NameTypes
  <2> QED  BY <1>2, <2>1, AppendFacts DEF Fresh
<1>4. Ids' = Ids \union {Fresh}
  <2>1. Ids' = 1 .. Len(tracker) + 1
    BY <1>3, LenProperties DEF Ids
  <2> QED  BY <1>2, <2>1 DEF Fresh
<1>5. /\ asked' = asked \union {Fresh} /\ held' = held \union {Fresh} /\ calls' = calls \union {Fresh}
      /\ asked \subseteq held /\ held \subseteq Ids /\ held = calls
  BY <1>1 DEF MakeCall, NameTypes, Listed
<1>6. /\ trackers' \in Seq(Ids') /\ IsInjective(trackers')
      /\ ToSet(trackers') = ToSet(trackers) \/ ToSet(trackers') = ToSet(trackers) \union {Fresh}
      /\ \A i \in DOMAIN trackers : i \in DOMAIN trackers' /\ trackers'[i] = trackers[i]
      /\ \A i \in DOMAIN trackers' : i \in DOMAIN trackers \/ trackers'[i] = Fresh
  <2>1. trackers \in Seq(Ids') /\ IsInjective(trackers)
    BY <1>1, <1>4, SeqMonotonic DEF NameTypes, Listed
  <2>2. CASE trackers' = trackers
    BY <2>1, <2>2
  <2>3. CASE trackers' = Append(trackers, Fresh)
    <3>1. Fresh \in Ids' /\ Fresh \notin ToSet(trackers)
      BY <1>2, <1>4
    <3>2. /\ trackers' \in Seq(Ids') /\ IsInjective(trackers')
          /\ ToSet(trackers') = ToSet(trackers) \union {Fresh}
          /\ Len(trackers') = Len(trackers) + 1
          /\ \A i \in 1 .. Len(trackers) : trackers'[i] = trackers[i]
          /\ trackers'[Len(trackers) + 1] = Fresh
      BY <2>1, <2>3, <3>1, AppendFacts
    <3>3. DOMAIN trackers = 1 .. Len(trackers) /\ DOMAIN trackers' = 1 .. Len(trackers) + 1 /\ Len(trackers) \in Nat
      BY <2>1, <3>2, LenProperties
    <3>4. DOMAIN trackers' = DOMAIN trackers \union {Len(trackers) + 1}
      BY <3>3
    <3> QED  BY <3>2, <3>3, <3>4
  <2> QED  BY <2>2, <2>3
<1>7. Held'
  <2>1. ASSUME NEW i \in DOMAIN inq', inq'[i].kind = "reply"
        PROVE  /\ inq'[i].id \in held' \ asked' /\ inq'[i].up = (inq'[i].owner # NoOwner)
               /\ \A j \in DOMAIN inq' : Answers(j, inq[i].id)' => j = i
    <3>1. inq' = inq
      OBVIOUS
    <3>2. inq[i].id # Fresh
      BY <1>1, <1>2, <1>5, <2>1, <3>1 DEF Held, Replies
    <3> QED  BY <1>1, <1>5, <2>1, <3>1, <3>2 DEF Held, Replies, Answers
  <2>2. ASSUME NEW k \in Ids'  PROVE /\ tracker'[k].st = "zombie" => k \in held'
                                     /\ tracker'[k].late => k \notin held'
    BY <1>1, <1>2, <1>3, <1>4, <1>5 DEF Held, Replies
  <2> QED  BY <2>1, <2>2 DEF Held, Replies
<1>8. Walks'
  BY <1>1, <1>4, <1>6 DEF Walks, Walking
<1>9. ASSUME NEW k \in ToSet(trackers)  PROVE Informed(k)'
  <2>1. k \in Ids /\ k # Fresh /\ tracker'[k] = tracker[k] /\ Informed(k)
    BY <1>2, <1>3 DEF NamesIInv
  <2>2. Ahead(k)' <=> Ahead(k)
    <3>1. ASSUME Ahead(k)  PROVE Ahead(k)'
      BY <1>6, <3>1 DEF Ahead
    <3>2. ASSUME Ahead(k)'  PROVE Ahead(k)
      <4>1. PICK i, j \in DOMAIN trackers' : i <= j /\ trackers'[i] = walk.n /\ trackers'[j] = k
        BY <3>2 DEF Ahead
      <4>2. j \in DOMAIN trackers
        BY <1>6, <2>1, <4>1
      <4>3. i \in DOMAIN trackers
        <5>1. DOMAIN trackers = 1 .. Len(trackers) /\ Len(trackers) \in Nat
          BY <1>1, NameSeqs
        <5>2. i \in Nat \ {0}
          BY <1>6, LenProperties
        <5> QED  BY <4>1, <4>2, <5>1, <5>2
      <4> QED  BY <1>6, <4>1, <4>2, <4>3 DEF Ahead
    <3> QED  BY <3>1, <3>2
  <2>3. k \in asked => k \in asked'
    BY <1>5
  <2> QED  BY <2>1, <2>2, <2>3, InformedStays DEF ToVisit, Walking
<1> QED  BY <1>2, <1>3, <1>4, <1>5, <1>6, <1>7, <1>8, <1>9

\* mrp_dbus_follow_name: a rule more, for a tracker more.
LEMMA FollowNameInv ==
    ASSUME NamesIInv, NEW c \in Clients, NEW m \in Names, FollowName(c, m)
    PROVE  NamesIInv'
<1> DEFINE nt == [name |-> m, client |-> c, st |-> "active", told |-> Unknown, late |-> FALSE]
<1>1. /\ alive /\ (Walking => walk.called) /\ MakeCall(Fresh)
      /\ rules' = [rules EXCEPT ![m] = @ + 1]
      /\ trackers' = Append(trackers, Fresh) /\ tracker' = Append(tracker, nt)
      /\ UNCHANGED <<owner, inq, walk, alive>>
  BY DEF FollowName, ClientRuns
<1>2. nt \in Trackers /\ nt.st = "active" /\ ~nt.late /\ nt.name = m
  BY DEF Trackers, Unknown
<1> HIDE DEF nt
<1>3. /\ tracker' \in Seq(Trackers) /\ Ids' = Ids \union {Fresh} /\ Fresh \notin Ids
      /\ \A k \in Ids : tracker'[k] = tracker[k]
      /\ tracker'[Fresh] = nt
      /\ asked' \subseteq held' /\ held' \subseteq Ids' /\ calls' \subseteq Ids'
      /\ held' = calls' /\ Fresh \in asked'
      /\ trackers' \in Seq(Ids') /\ IsInjective(trackers')
      /\ Held' /\ Walks'
      /\ \A k \in ToSet(trackers) : Informed(k)'
  BY <1>1, <1>2, CallMade
<1>4. NameTypes /\ Listed
  BY DEF NamesIInv
<1>5. ToSet(trackers') = ToSet(trackers) \union {Fresh}
  <2>1. trackers \in Seq(Ids') /\ Fresh \in Ids'
    BY <1>3, <1>4, SeqMonotonic DEF NameTypes
  <2> QED  BY <1>1, <2>1, AppendFacts
<1>6. ToSet(trackers) \subseteq Ids /\ IsFiniteSet(ToSet(trackers))
  BY <1>4, NameSeqs
<1>7. rules' \in [Names -> Nat] /\ rules'[m] = rules[m] + 1 /\ \A x \in Names \ {m} : rules'[x] = rules[x]
  BY <1>1, <1>4 DEF NameTypes
<1>8. NameTypes'
  BY <1>1, <1>3, <1>4, <1>7 DEF NameTypes
<1>9. Listed'
  <2>1. Followers(m)' = Followers(m) \union {Fresh} /\ Fresh \notin Followers(m)
    BY <1>2, <1>3, <1>5, <1>6 DEF Followers
  <2>2. \A x \in Names \ {m} : Followers(x)' = Followers(x)
    BY <1>2, <1>3, <1>5, <1>6 DEF Followers
  <2>3. Cardinality(Followers(m)') = Cardinality(Followers(m)) + 1
    <3>1. IsFiniteSet(Followers(m))
      BY <1>6, FS_Subset DEF Followers
    <3> QED  BY <2>1, <3>1, FS_AddElement
  <2>4. \A x \in Names : rules'[x] = Cardinality(Followers(x)')
    BY <1>1, <1>4, <1>7, <2>2, <2>3 DEF Listed
  <2>5. \A k \in ToSet(trackers') : tracker'[k].st = "active"
    BY <1>2, <1>3, <1>4, <1>5, <1>6 DEF Listed
  <2> QED  BY <1>1, <1>3, <2>4, <2>5 DEF Listed
<1>10. ASSUME NEW k \in ToSet(trackers')  PROVE Informed(k)'
  <2>1. k \in asked' \/ k \in ToSet(trackers)
    BY <1>3, <1>5
  <2>2. CASE k \in asked'
    BY <2>2 DEF Informed
  <2> QED  BY <1>3, <2>1, <2>2
<1> QED  BY <1>3, <1>8, <1>9, <1>10 DEF NamesIInv

\* mrp_dbus_call of a client.
LEMMA CallInv ==
    ASSUME NamesIInv, NEW m \in Names, Call(m)
    PROVE  NamesIInv'
<1> DEFINE nt == [name |-> m, client |-> NoOwner, st |-> "call", told |-> Unknown, late |-> FALSE]
<1>1. /\ alive /\ (Walking => walk.called) /\ MakeCall(Fresh) /\ tracker' = Append(tracker, nt)
      /\ UNCHANGED <<owner, rules, inq, trackers, walk, alive>>
  BY DEF Call, ClientRuns
<1>2. nt \in Trackers /\ nt.st # "zombie" /\ ~nt.late
  BY DEF Trackers, Unknown
<1> HIDE DEF nt
<1>3. /\ tracker' \in Seq(Trackers) /\ Ids' = Ids \union {Fresh}
      /\ \A k \in Ids : tracker'[k] = tracker[k]
      /\ asked' \subseteq held' /\ held' \subseteq Ids' /\ calls' \subseteq Ids'
      /\ held' = calls'
      /\ trackers' \in Seq(Ids')
      /\ Held' /\ Walks'
      /\ \A k \in ToSet(trackers) : Informed(k)'
  BY <1>1, <1>2, CallMade
<1>4. NameTypes /\ Listed
  BY DEF NamesIInv
<1>5. ToSet(trackers) \subseteq Ids /\ \A x : Followers(x)' = Followers(x)
  BY <1>1, <1>3, <1>4, NameSeqs DEF Followers
<1>6. NameTypes'
  BY <1>1, <1>3, <1>4 DEF NameTypes
<1>7. Listed'
  BY <1>1, <1>3, <1>4, <1>5 DEF Listed
<1> QED  BY <1>1, <1>3, <1>6, <1>7 DEF NamesIInv

------------------------------------------------------------------------------
\* Dispatching a message, and dropping one.
LEMMA TailShorter ==
    ASSUME NameTypes, inq # <<>>, inq' = Tail(inq)
    PROVE  Shorter(1) /\ 1 \in DOMAIN inq /\ Head(inq) = inq[1]
<1>1. Len(inq) \in Nat \ {0} /\ DOMAIN inq = 1 .. Len(inq) /\ inq \in Seq(Messages)
  BY NameSeqs, EmptySeq DEF NameTypes
<1>2. /\ inq' \in Seq(Messages) /\ Len(inq') = Len(inq) - 1
      /\ \A i \in 1 .. Len(inq) - 1 : inq'[i] = inq[i + 1]
  BY <1>1, HeadTailProperties
<1>3. DOMAIN inq' = 1 .. Len(inq) - 1
  BY <1>2, LenProperties
<1>4. Head(inq) = inq[1]
  BY <1>1
<1> QED  BY <1>1, <1>2, <1>3, <1>4 DEF Shorter

(* An answer that libdbus drops leaves the others in their order.           *)
LEMMA RemoveShorter ==
    ASSUME NameTypes, NEW r \in DOMAIN inq, inq' = RemoveAt(inq, r)
    PROVE  Shorter(r)
<1>1. inq \in Seq(Messages) /\ r \in 1 .. Len(inq)
  BY NameSeqs DEF NameTypes
<1>2. /\ inq' \in Seq(Messages) /\ Len(inq') = Len(inq) - 1
      /\ \A i \in 1 .. Len(inq) - 1 : inq'[i] = IF i < r THEN inq[i] ELSE inq[i + 1]
  BY <1>1, RemoveAtElements
<1>3. DOMAIN inq' = 1 .. Len(inq) - 1
  BY <1>2, LenProperties
<1> QED  BY <1>2, <1>3 DEF Shorter

\* The other messages are what they were.
LEMMA RepliesLeft ==
    ASSUME NameTypes, Replies, NEW r \in DOMAIN inq, Shorter(r), asked' \subseteq asked,
           \A k \in held : k \in held' \/ Answers(r, k)
    PROVE  Replies'
<1>1. Len(inq) \in Nat /\ DOMAIN inq = 1 .. Len(inq)
  BY NameSeqs
<1>2. \A i \in DOMAIN inq' : Old(r, i) \in DOMAIN inq /\ Old(r, i) # r /\ inq'[i] = inq[Old(r, i)]
  BY <1>1 DEF Old, Shorter
<1>3. \A i, j \in DOMAIN inq' : Old(r, i) = Old(r, j) => i = j
  BY <1>1 DEF Old, Shorter
<1>4. ASSUME NEW i \in DOMAIN inq', inq'[i].kind = "reply"
      PROVE  /\ inq'[i].id \in held' \ asked' /\ inq'[i].up = (inq'[i].owner # NoOwner)
             /\ \A j \in DOMAIN inq' : inq'[j].kind = "reply" /\ inq'[j].id = inq'[i].id => j = i
  <2>1. PICK o \in DOMAIN inq : o = Old(r, i) /\ o # r /\ inq'[i] = inq[o]
    BY <1>2
  <2>2. /\ inq[o].id \in held \ asked /\ inq[o].up = (inq[o].owner # NoOwner)
        /\ \A j \in DOMAIN inq : inq[j].kind = "reply" /\ inq[j].id = inq[o].id => j = o
    BY <1>4, <2>1 DEF Replies, Answers
  <2>3. inq[o].id \in held'
    BY <2>1, <2>2 DEF Answers
  <2>4. ASSUME NEW j \in DOMAIN inq', inq'[j].kind = "reply", inq'[j].id = inq'[i].id  PROVE j = i
    BY <1>2, <1>3, <2>1, <2>2, <2>4
  <2> QED  BY <2>1, <2>2, <2>3, <2>4
<1> QED  BY <1>4 DEF Replies, Answers

\* A call is not held any more, and its answer, if it was there, has gone:
\* the others wait as they did, and only the caller has something new.
LEMMA AnswerGone ==
    ASSUME NamesIInv, NEW k \in Ids, asked' = asked \ {k}, held' = held \ {k},
           \/ inq' = inq /\ \A i \in DOMAIN inq : ~Answers(i, k)
           \/ \E r \in DOMAIN inq : Answers(r, k) /\ Shorter(r),
           UNCHANGED <<owner, trackers, walk, alive>>, Ids' = Ids,
           \A x \in ToSet(trackers) \ {k} : tracker'[x] = tracker[x]
    PROVE  /\ inq' \in Seq(Messages) /\ Replies' /\ Walks'
           /\ \A x \in ToSet(trackers) \ {k} : Informed(x)'
<1>1. NameTypes /\ Replies /\ Walks
  BY DEF NamesIInv, Held
<1>2. CASE inq' = inq /\ \A i \in DOMAIN inq : ~Answers(i, k)
  <2>1. inq' \in Seq(Messages)
    BY <1>1, <1>2 DEF NameTypes
  <2>2. Replies'
    BY <1>1, <1>2 DEF Replies, Answers
  <2>3. Walks'
    BY <1>1, <1>2 DEF Walks, Walking
  <2>4. ASSUME NEW x \in ToSet(trackers) \ {k}  PROVE Informed(x)'
    BY <1>2, InformedStays DEF NamesIInv, Walking, ToVisit, Ahead
  <2> QED  BY <2>1, <2>2, <2>3, <2>4
<1>3. ASSUME NEW r \in DOMAIN inq, Answers(r, k), Shorter(r)
      PROVE  /\ inq' \in Seq(Messages) /\ Replies' /\ Walks'
             /\ \A x \in ToSet(trackers) \ {k} : Informed(x)'
  <2>1. inq' \in Seq(Messages)
    BY <1>3 DEF Shorter
  <2>2. Replies'
    <3>1. \A x \in held : x \in held' \/ Answers(r, x)
      BY <1>3
    <3> QED  BY <1>1, <1>3, <3>1, RepliesLeft
  <2>3. Len(inq) \in Nat /\ DOMAIN inq = 1 .. Len(inq)
    BY <1>1, NameSeqs
  <2>4. Walking => r # 1
    BY <1>1, <1>3 DEF Walks, Answers
  <2>5. Walks'
    <3> SUFFICES ASSUME Walking  PROVE Walks'
      BY DEF Walks, Walking
    <3>1. 1 \in DOMAIN inq' /\ inq'[1] = inq[1]
      BY <1>3, <2>3, <2>4 DEF Shorter
    <3>2. inq' # <<>>
      BY <2>1, <3>1, EmptySeq
    <3> QED  BY <1>1, <3>1, <3>2 DEF Walks, Walking
  <2>6. ASSUME NEW x \in ToSet(trackers) \ {k}  PROVE Informed(x)'
    <3>1. r \notin News(x)
      BY <1>3 DEF News, Concerns, Answers
    <3>2. (Walking' <=> Walking) /\ (ToVisit(x)' <=> ToVisit(x))
      BY DEF Walking, ToVisit, Ahead
    <3>3. Informed(x) /\ (x \in asked => x \in asked') /\ tracker'[x] = tracker[x]
      BY DEF NamesIInv
    <3> QED  BY <1>1, <1>3, <2>4, <3>1, <3>2, <3>3, NewsRemoved
  <2> QED  BY <2>1, <2>2, <2>5, <2>6
<1> QED  BY <1>2, <1>3

\* What DropAnswer does to the queue.
LEMMA AnswerDropped ==
    ASSUME NameTypes, NEW k, DropAnswer(k)
    PROVE  /\ asked' = asked \ {k}
           /\ \/ inq' = inq /\ \A i \in DOMAIN inq : ~Answers(i, k)
              \/ \E r \in DOMAIN inq : Answers(r, k) /\ Shorter(r)
<1>1. CASE \E i \in DOMAIN inq : Answers(i, k)
  <2>1. PICK r \in DOMAIN inq : Answers(r, k) /\ inq' = RemoveAt(inq, r)
    <3>1. (CHOOSE i \in DOMAIN inq : Answers(i, k)) \in DOMAIN inq
          /\ Answers(CHOOSE i \in DOMAIN inq : Answers(i, k), k)
      BY <1>1
    <3> QED  BY <1>1, <3>1 DEF DropAnswer
  <2> QED  BY <2>1, RemoveShorter DEF DropAnswer
<1>2. CASE ~\E i \in DOMAIN inq : Answers(i, k)
  BY <1>2 DEF DropAnswer
<1> QED  BY <1>1, <1>2

\* mrp_dbus_call_cancel: only a call of a client is cancelled.
LEMMA CancelCallInv ==
    ASSUME NamesIInv, NEW k \in Ids, CancelCall(k)
    PROVE  NamesIInv'
<1>1. /\ k \in calls /\ tracker[k].st = "call" /\ calls' = calls \ {k} /\ held' = held \ {k} /\ DropAnswer(k)
      /\ alive /\ UNCHANGED <<owner, rules, trackers, tracker, walk, alive>>
  BY DEF CancelCall, ClientRuns
<1>2. NameTypes /\ Listed /\ Held
  BY DEF NamesIInv
<1>3. /\ asked' = asked \ {k}
      /\ \/ inq' = inq /\ \A i \in DOMAIN inq : ~Answers(i, k)
         \/ \E r \in DOMAIN inq : Answers(r, k) /\ Shorter(r)
  BY <1>1, <1>2, AnswerDropped
<1>4. Ids' = Ids /\ ToSet(trackers') = ToSet(trackers) /\ \A m : Followers(m)' = Followers(m)
  BY <1>1 DEF Ids, Followers
<1>5. /\ inq' \in Seq(Messages) /\ Replies' /\ Walks'
      /\ \A x \in ToSet(trackers) \ {k} : Informed(x)'
  BY <1>1, <1>3, <1>4, AnswerGone
<1>6. NameTypes'
  BY <1>1, <1>2, <1>3, <1>4, <1>5 DEF NameTypes
<1>7. Listed'
  BY <1>1, <1>2, <1>4 DEF Listed
<1>8. Held'
  BY <1>1, <1>2, <1>4, <1>5 DEF Held
<1>9. k \notin ToSet(trackers)
  BY <1>1, <1>2 DEF Listed
<1> QED  BY <1>4, <1>5, <1>6, <1>7, <1>8, <1>9 DEF NamesIInv

\* The entry of one tracker or call is changed.
LEMMA EntryChanged ==
    ASSUME NameTypes, NEW k \in Ids, NEW nt \in Trackers, tracker' = [tracker EXCEPT ![k] = nt]
    PROVE  /\ tracker' \in Seq(Trackers) /\ Ids' = Ids /\ tracker'[k] = nt
           /\ \A x \in Ids \ {k} : tracker'[x] = tracker[x]
<1>1. tracker \in Seq(Trackers) /\ k \in 1 .. Len(tracker) /\ Ids = DOMAIN tracker
  BY NameSeqs DEF NameTypes, Ids
<1>2. tracker' \in Seq(Trackers)
  BY <1>1, ExceptSeq
<1>3. Ids' = Ids /\ tracker'[k] = nt /\ \A x \in Ids \ {k} : tracker'[x] = tracker[x]
  BY <1>1 DEF Ids
<1> QED  BY <1>2, <1>3

\* call_reply_cb and name_owner_query_cb: a tracker is told, the rest freed.
LEMMA ReplyTold ==
    ASSUME NameTypes, NEW k \in Ids, NEW up \in BOOLEAN, NEW o \in OwnersOrNone, NEW late \in BOOLEAN,
           ReplyCb(k, up, o, late)
    PROVE  /\ tracker' \in Seq(Trackers) /\ Ids' = Ids
           /\ \A x \in Ids \ {k} : tracker'[x] = tracker[x]
           /\ tracker'[k].name = tracker[k].name /\ tracker'[k].st # "zombie"
           /\ tracker[k].st = "active" => /\ tracker'[k].st = "active" /\ tracker'[k].late = late
                                          /\ tracker'[k].told = [up |-> up, owner |-> o]
<1> DEFINE nt == tracker[k]
<1>1. /\ nt \in Trackers
      /\ nt = [name |-> nt.name, client |-> nt.client, st |-> nt.st, told |-> nt.told, late |-> nt.late]
  BY NameSeqs DEF Trackers
<1>2. tracker \in Seq(Trackers) /\ k \in DOMAIN tracker
  BY DEF NameTypes, Ids
<1>3. CASE nt.st = "active"
  <2> DEFINE r == [name |-> nt.name, client |-> nt.client, st |-> nt.st,
                   told |-> [up |-> up, owner |-> o], late |-> late]
  <2>1. tracker' = [tracker EXCEPT ![k].told = [up |-> up, owner |-> o], ![k].late = late]
    BY <1>3 DEF ReplyCb
  <2>2. tracker' = [tracker EXCEPT ![k] = r]
    <3>1. [nt EXCEPT !.told = [up |-> up, owner |-> o], !.late = late] = r
      <4>1. PICK u : u = [nt EXCEPT !.told = [up |-> up, owner |-> o]]
        OBVIOUS
      <4>2. u = [name |-> nt.name, client |-> nt.client, st |-> nt.st, told |-> [up |-> up, owner |-> o],
                 late |-> nt.late]
        BY <1>1, <4>1
      <4>3. [u EXCEPT !.late = late] = r
        BY <4>2
      <4> QED  BY <4>1, <4>3
    <3>2. tracker' = [tracker EXCEPT ![k] = [nt EXCEPT !.told = [up |-> up, owner |-> o], !.late = late]]
      BY <1>2, <2>1
    <3> QED  BY <3>1, <3>2
  <2>3. r \in Trackers /\ r.name = nt.name /\ r.st = "active" /\ r.late = late /\ r.told = [up |-> up, owner |-> o]
    BY <1>1, <1>3 DEF Trackers
  <2> HIDE DEF r
  <2> QED  BY <1>3, <2>2, <2>3, EntryChanged
<1>4. CASE nt.st \in {"zombie", "call"}
  <2> DEFINE r == [name |-> nt.name, client |-> nt.client, st |-> "freed", told |-> nt.told, late |-> nt.late]
  <2>1. tracker' = [tracker EXCEPT ![k].st = "freed"]
    BY <1>4 DEF ReplyCb
  <2>2. tracker' = [tracker EXCEPT ![k] = r]
    <3>1. [nt EXCEPT !.st = "freed"] = r
      BY <1>1
    <3>2. tracker' = [tracker EXCEPT ![k] = [nt EXCEPT !.st = "freed"]]
      BY <1>2, <2>1
    <3> QED  BY <3>1, <3>2
  <2>3. r \in Trackers /\ r.name = nt.name /\ r.st = "freed"
    BY <1>1 DEF Trackers
  <2> HIDE DEF r
  <2> QED  BY <1>4, <2>2, <2>3, EntryChanged
<1>5. CASE nt.st = "freed"
  <2>1. tracker' = tracker
    BY <1>5 DEF ReplyCb
  <2> QED  BY <1>2, <1>5, <2>1 DEF Ids
<1> QED  BY <1>1, <1>3, <1>4, <1>5 DEF Trackers

\* The rest of the invariant, when a call has been answered or given up.
LEMMA ReplyInv ==
    ASSUME NamesIInv, NEW k \in Ids, NEW up \in BOOLEAN, NEW o \in OwnersOrNone, NEW late \in BOOLEAN,
           ReplyCb(k, up, o, late), asked' = asked \ {k},
           \/ inq' = inq /\ \A i \in DOMAIN inq : ~Answers(i, k)
           \/ \E r \in DOMAIN inq : Answers(r, k) /\ Shorter(r),
           k \in ToSet(trackers) => Informed(k)'
    PROVE  NamesIInv'
<1>1. /\ held' = held \ {k} /\ calls' = calls \ {k}
      /\ UNCHANGED <<owner, rules, trackers, walk, alive>>
  BY DEF ReplyCb
<1>2. NameTypes /\ Listed /\ Held
  BY DEF NamesIInv
<1>3. /\ tracker' \in Seq(Trackers) /\ Ids' = Ids
      /\ \A x \in Ids \ {k} : tracker'[x] = tracker[x]
      /\ tracker'[k].name = tracker[k].name /\ tracker'[k].st # "zombie"
      /\ tracker[k].st = "active" => tracker'[k].st = "active"
  BY <1>2, ReplyTold
<1>4. ToSet(trackers) \subseteq Ids /\ ToSet(trackers') = ToSet(trackers) /\ \A m : Followers(m)' = Followers(m)
  <2>1. ToSet(trackers) \subseteq Ids /\ ToSet(trackers') = ToSet(trackers)
    BY <1>1, <1>2, NameSeqs
  <2> QED  BY <1>1, <1>3, <2>1 DEF Followers
<1>5. /\ inq' \in Seq(Messages) /\ Replies' /\ Walks'
      /\ \A x \in ToSet(trackers) \ {k} : Informed(x)'
  <2>1. \A x \in ToSet(trackers) \ {k} : tracker'[x] = tracker[x]
    BY <1>3, <1>4
  <2> QED  BY <1>1, <1>3, <2>1, AnswerGone
<1>6. NameTypes'
  BY <1>1, <1>2, <1>3, <1>5 DEF NameTypes
<1>7. Listed'
  <2>1. \A x \in ToSet(trackers') : tracker'[x].st = "active"
    BY <1>2, <1>3, <1>4 DEF Listed
  <2> QED  BY <1>1, <1>2, <1>4, <2>1 DEF Listed
<1>8. Held'
  BY <1>1, <1>2, <1>3, <1>5 DEF Held
<1> QED  BY <1>4, <1>5, <1>6, <1>7, <1>8 DEF NamesIInv

\* A call that timed out: its tracker has been told that nobody has the name.
LEMMA TimeoutInv ==
    ASSUME NamesIInv, NEW k \in Ids, Timeout(k)
    PROVE  NamesIInv'
<1>1. ReplyCb(k, FALSE, NoOwner, TRUE) /\ DropAnswer(k)
  BY DEF Timeout
<1>2. NameTypes /\ Listed
  BY DEF NamesIInv
<1>3. /\ asked' = asked \ {k}
      /\ \/ inq' = inq /\ \A i \in DOMAIN inq : ~Answers(i, k)
         \/ \E r \in DOMAIN inq : Answers(r, k) /\ Shorter(r)
  BY <1>1, <1>2, AnswerDropped
<1>4. NoOwner \in OwnersOrNone /\ TRUE \in BOOLEAN /\ FALSE \in BOOLEAN
  BY DEF OwnersOrNone
<1>5. ASSUME k \in ToSet(trackers)  PROVE Informed(k)'
  <2>1. tracker'[k].late
    BY <1>1, <1>2, <1>4, <1>5, ReplyTold DEF Listed
  <2> QED  BY <2>1 DEF Informed
<1> QED  BY <1>1, <1>3, <1>4, <1>5, ReplyInv

\* An answer is dispatched: what it says is the newest there is, or there
\* is newer news on the way.
LEMMA DispatchReplyInv ==
    ASSUME NamesIInv, DispatchReply
    PROVE  NamesIInv'
<1>1. /\ ~Walking /\ inq # <<>> /\ Head(inq).kind = "reply" /\ inq' = Tail(inq) /\ UNCHANGED asked
      /\ ReplyCb(Head(inq).id, Head(inq).up, Head(inq).owner, FALSE)
  BY DEF DispatchReply
<1>2. NameTypes /\ Listed /\ Held
  BY DEF NamesIInv
<1>3. Shorter(1) /\ 1 \in DOMAIN inq /\ Head(inq) = inq[1]
  BY <1>1, <1>2, TailShorter
<1>4. PICK k, up, o : k = inq[1].id /\ up = inq[1].up /\ o = inq[1].owner
  OBVIOUS
<1>5. /\ ReplyCb(k, up, o, FALSE) /\ Answers(1, k) /\ inq[1].kind = "reply"
      /\ k \in held \ asked /\ up = (o # NoOwner)
  <2>1. ReplyCb(k, up, o, FALSE) /\ inq[1].kind = "reply"
    BY <1>1, <1>3, <1>4
  <2> QED  BY <1>2, <1>3, <1>4, <2>1 DEF Held, Replies, Answers
<1>6. k \in Ids /\ up \in BOOLEAN /\ o \in OwnersOrNone
  <2>1. inq[1] \in Messages
    BY <1>2, <1>3, NameSeqs
  <2> QED  BY <1>2, <1>4, <1>5, <2>1 DEF Messages, NameTypes
<1>7. asked' = asked \ {k}
  BY <1>1, <1>5
<1>8. ASSUME k \in ToSet(trackers)  PROVE Informed(k)'
  <2>1. tracker[k].st = "active" /\ ~tracker[k].late /\ Informed(k)
    BY <1>2, <1>5, <1>6, <1>8 DEF Listed, Held, NamesIInv
  <2>2. /\ tracker'[k].name = tracker[k].name /\ tracker'[k].told = [up |-> up, owner |-> o]
        /\ UNCHANGED <<owner, walk>>
    <3>1. UNCHANGED <<owner, walk>>
      BY <1>5 DEF ReplyCb
    <3>2. FALSE \in BOOLEAN
      OBVIOUS
    <3> QED  BY <1>2, <1>5, <1>6, <2>1, <3>1, <3>2, ReplyTold
  <2>3. /\ News(k)' \subseteq 1 .. Len(inq) - 1
        /\ \A i \in 1 .. Len(inq) - 1 :
             (i \in News(k)' <=> Old(1, i) \in News(k)) /\ Says(i)' = Says(Old(1, i))
    <3>1. ~Walking'
      BY <1>1, <2>2 DEF Walking
    <3> QED  BY <1>1, <1>2, <1>3, <2>2, <3>1, NewsShifted
  <2>4. 1 \in News(k) /\ Says(1) = o
    BY <1>3, <1>4, <1>5 DEF News, Concerns, Says
  <2>5. Len(inq) \in Nat /\ News(k) \subseteq 1 .. Len(inq)
    BY <1>2, NameSeqs DEF News
  <2>6. PICK n \in News(k) : Says(n) = owner[tracker[k].name] /\ \A j \in News(k) : j <= n
    BY <1>5, <2>1, <2>4 DEF Informed
  <2>7. CASE n = 1
    <3>1. News(k)' = {}
      BY <2>3, <2>5, <2>6, <2>7 DEF Old
    <3>2. tracker'[k].told = Known(owner'[tracker'[k].name])
      BY <1>5, <2>2, <2>4, <2>6, <2>7 DEF Known
    <3> QED  BY <3>1, <3>2 DEF Informed, Known
  <2>8. CASE n # 1
    <3>1. PICK p \in 1 .. Len(inq) - 1 : Old(1, p) = n /\ n = p + 1
      <4>1. n - 1 \in 1 .. Len(inq) - 1 /\ Old(1, n - 1) = n /\ n = n - 1 + 1
        BY <2>5, <2>8 DEF Old
      <4> QED  BY <4>1
    <3>2. p \in News(k)' /\ Says(p)' = owner'[tracker'[k].name]
      BY <2>2, <2>3, <2>6, <3>1
    <3>3. \A j \in News(k)' : j <= p
      BY <2>3, <2>5, <2>6, <3>1 DEF Old
    <3> QED  BY <3>2, <3>3 DEF Informed
  <2> QED  BY <2>7, <2>8
<1> QED  BY <1>3, <1>5, <1>6, <1>7, <1>8, ReplyInv

\* A tracker leaves the list.
LEMMA TrackersLess ==
    ASSUME NEW T, trackers \in Seq(T), IsInjective(trackers), NEW i \in 1 .. Len(trackers)
    PROVE  /\ RemoveAt(trackers, i) \in Seq(T) /\ IsInjective(RemoveAt(trackers, i))
           /\ ToSet(RemoveAt(trackers, i)) = ToSet(trackers) \ {trackers[i]}
           /\ Len(RemoveAt(trackers, i)) = Len(trackers) - 1
           /\ \A j \in 1 .. Len(trackers) - 1 :
                RemoveAt(trackers, i)[j] = IF j < i THEN trackers[j] ELSE trackers[j + 1]
BY RemoveAtFacts

\* mrp_dbus_forget_name: a tracker leaves the list, and its rule the bus.
LEMMA ForgetInv ==
    ASSUME NamesIInv, NEW i \in DOMAIN trackers, alive, Walking => walk.called /\ trackers[i] = walk.p,
           Forget(i)
    PROVE  NamesIInv'
<1> DEFINE k == trackers[i]
           nt == tracker[k]
           s == IF k \in calls THEN "zombie" ELSE "freed"
           r == [name |-> nt.name, client |-> nt.client, st |-> s, told |-> nt.told, late |-> nt.late]
<1>1. /\ rules' = [rules EXCEPT ![nt.name] = @ - 1] /\ trackers' = RemoveAt(trackers, i)
      /\ tracker' = [tracker EXCEPT ![k].st = s]
      /\ UNCHANGED <<owner, inq, asked, held, calls, walk, alive>>
  BY DEF Forget
<1>2. NameTypes /\ Listed /\ Held /\ Walks
  BY DEF NamesIInv
<1>3. /\ k \in Ids /\ k \in ToSet(trackers) /\ nt \in Trackers /\ tracker \in Seq(Trackers)
      /\ nt = [name |-> nt.name, client |-> nt.client, st |-> nt.st, told |-> nt.told, late |-> nt.late]
      /\ ToSet(trackers) \subseteq Ids /\ IsFiniteSet(ToSet(trackers))
  BY <1>2, NameSeqs DEF Trackers, NameTypes
<1>4. /\ tracker' \in Seq(Trackers) /\ Ids' = Ids
      /\ \A x \in Ids \ {k} : tracker'[x] = tracker[x]
      /\ tracker'[k].st = s /\ tracker'[k].late = nt.late /\ tracker'[k].name = nt.name
  <2>1. r \in Trackers /\ r.st = s /\ r.late = nt.late /\ r.name = nt.name
    BY <1>3 DEF Trackers
  <2>2. tracker' = [tracker EXCEPT ![k] = r]
    <3>1. [nt EXCEPT !.st = s] = r
      BY <1>3
    <3>2. tracker' = [tracker EXCEPT ![k] = [nt EXCEPT !.st = s]]
      BY <1>1, <1>3 DEF Ids
    <3> QED  BY <3>1, <3>2
  <2> HIDE DEF r
  <2> QED  BY <1>2, <1>3, <2>1, <2>2, EntryChanged
<1>5. /\ trackers' \in Seq(Ids) /\ ToSet(trackers') = ToSet(trackers) \ {k} /\ IsInjective(trackers')
      /\ DOMAIN trackers = 1 .. Len(trackers) /\ Len(trackers) \in Nat
      /\ DOMAIN trackers' = 1 .. Len(trackers) - 1
      /\ \A j \in 1 .. Len(trackers) - 1 : trackers'[j] = IF j < i THEN trackers[j] ELSE trackers[j + 1]
  <2>1. trackers \in Seq(Ids) /\ IsInjective(trackers) /\ i \in 1 .. Len(trackers)
        /\ DOMAIN trackers = 1 .. Len(trackers) /\ Len(trackers) \in Nat
    BY <1>2, NameSeqs DEF NameTypes, Listed
  <2>2. /\ trackers' \in Seq(Ids) /\ ToSet(trackers') = ToSet(trackers) \ {trackers[i]} /\ IsInjective(trackers')
        /\ Len(trackers') = Len(trackers) - 1
        /\ \A j \in 1 .. Len(trackers) - 1 : trackers'[j] = IF j < i THEN trackers[j] ELSE trackers[j + 1]
    BY <1>1, <2>1, TrackersLess
  <2> QED  BY <2>1, <2>2, LenProperties
<1> HIDE DEF k, r, s
<1>6. rules' \in [Names -> Nat] /\ \A m \in Names : rules'[m] = Cardinality(Followers(m)')
  <2>1. nt.name \in Names /\ alive
    BY <1>3 DEF Trackers
  <2>2. \A m \in Names : IsFiniteSet(Followers(m)) /\ rules[m] = Cardinality(Followers(m))
    BY <1>2, <1>3, FS_Subset DEF Followers, Listed
  <2>3. PICK n \in Names : n = nt.name
    BY <2>1
  <2>4. /\ k \in Followers(n) /\ Followers(n)' = Followers(n) \ {k}
        /\ \A m \in Names \ {n} : Followers(m)' = Followers(m)
    BY <1>3, <1>4, <1>5, <2>3 DEF Followers
  <2>5. Cardinality(Followers(n)') = rules[n] - 1 /\ Cardinality(Followers(n)') \in Nat
    <3>1. IsFiniteSet(Followers(n)) /\ rules[n] = Cardinality(Followers(n))
      BY <2>2
    <3>2. Cardinality(Followers(n) \ {k}) = Cardinality(Followers(n)) - 1
      BY <2>4, <3>1, FS_RemoveElement
    <3>3. Cardinality(Followers(n) \ {k}) \in Nat
      BY <3>1, FS_RemoveElement, FS_CardinalityType
    <3> QED  BY <2>4, <3>1, <3>2, <3>3
  <2>6. rules \in [Names -> Nat]
    BY <1>2 DEF NameTypes
  <2>7. \A m \in Names : rules'[m] = IF m = n THEN rules[m] - 1 ELSE rules[m]
    BY <1>1, <2>3, <2>6
  <2>8. \A m \in Names : rules'[m] = Cardinality(Followers(m)') /\ rules'[m] \in Nat
    BY <2>2, <2>4, <2>5, <2>6, <2>7
  <2>9. rules' = [m \in Names |-> rules'[m]]
    BY <1>1, <2>6
  <2> QED  BY <2>8, <2>9
<1>7. NameTypes'
  BY <1>1, <1>2, <1>4, <1>5, <1>6 DEF NameTypes
<1>8. Listed'
  <2>1. \A x \in ToSet(trackers') : tracker'[x].st = "active"
    BY <1>2, <1>3, <1>4, <1>5 DEF Listed
  <2> QED  BY <1>1, <1>2, <1>5, <1>6, <2>1 DEF Listed
<1>9. Held'
  <2>1. Replies'
    BY <1>1, <1>2 DEF Held, Replies, Answers
  <2>2. ASSUME NEW x \in Ids  PROVE /\ tracker'[x].st = "zombie" => x \in held'
                                    /\ tracker'[x].late => x \notin held'
    BY <1>1, <1>2, <1>3, <1>4 DEF Held, Listed, s
  <2> QED  BY <1>4, <2>1, <2>2 DEF Held
<1>10. Walks'
  <2> SUFFICES ASSUME Walking  PROVE Walks'
    BY <1>1 DEF Walks, Walking
  <2>1. walk.called /\ k = walk.p
    BY DEF k
  <2> QED  BY <1>1, <1>2, <1>4, <1>5, <2>1 DEF Walks, Walking
<1>11. ASSUME NEW x \in ToSet(trackers) \ {k}  PROVE Informed(x)'
  <2>1. tracker'[x] = tracker[x] /\ Informed(x)
    BY <1>3, <1>4 DEF NamesIInv
  <2>2. ASSUME Walking  PROVE Ahead(x)' <=> Ahead(x)
    <3> DEFINE New(j) == IF j < i THEN j ELSE j - 1
    <3>1. walk.n # k /\ x # k /\ k = trackers[i]
      BY <1>2, <2>2 DEF Walks, k
    <3>2. /\ \A j \in DOMAIN trackers \ {i} : New(j) \in DOMAIN trackers' /\ trackers'[New(j)] = trackers[j]
          /\ \A a, b \in DOMAIN trackers \ {i} : a <= b => New(a) <= New(b)
          /\ \A j \in DOMAIN trackers' : Old(i, j) \in DOMAIN trackers /\ trackers'[j] = trackers[Old(i, j)]
          /\ \A a, b \in DOMAIN trackers' : a <= b => Old(i, a) <= Old(i, b)
      BY <1>5 DEF Old
    <3> HIDE DEF New
    <3>3. ASSUME Ahead(x)  PROVE Ahead(x)'
      <4>1. PICK a, b \in DOMAIN trackers : a <= b /\ trackers[a] = walk.n /\ trackers[b] = x
        BY <3>3 DEF Ahead
      <4>2. a \in DOMAIN trackers \ {i} /\ b \in DOMAIN trackers \ {i}
        BY <3>1, <4>1
      <4> QED  BY <1>1, <3>2, <4>1, <4>2 DEF Ahead
    <3>4. ASSUME Ahead(x)'  PROVE Ahead(x)
      <4>1. PICK a, b \in DOMAIN trackers' : a <= b /\ trackers'[a] = walk.n /\ trackers'[b] = x
        BY <1>1, <3>4 DEF Ahead
      <4> QED  BY <3>2, <4>1 DEF Ahead
    <3> QED  BY <3>3, <3>4
  <2> QED  BY <1>1, <2>1, <2>2, InformedStays DEF ToVisit, Walking
<1> QED  BY <1>5, <1>7, <1>8, <1>9, <1>10, <1>11 DEF NamesIInv

------------------------------------------------------------------------------
\* What mrp_list_foreach looks up before it calls a tracker.
LEMMA AfterIsNext ==
    ASSUME NameTypes, Listed, NEW i \in DOMAIN trackers
    PROVE  IF i + 1 \in DOMAIN trackers THEN After(trackers[i]) = trackers[i + 1]
                                        ELSE After(trackers[i]) = Head0
<1>1. Len(trackers) \in Nat /\ DOMAIN trackers = 1 .. Len(trackers)
  BY NameSeqs
<1>2. \A j \in 1 .. Len(trackers) : trackers[j] = trackers[i] <=> j = i
  BY <1>1 DEF Listed, IsInjective
<1>3. (CHOOSE j \in 1 .. Len(trackers) : trackers[j] = trackers[i]) = i
  BY <1>1, <1>2
<1>4. (\E j \in 1 .. Len(trackers) - 1 : trackers[j] = trackers[i]) <=> i + 1 \in DOMAIN trackers
  BY <1>1, <1>2
<1> QED  BY <1>3, <1>4 DEF After

\* The current tracker of a walk and the next one, when it comes to the i-th.
LEMMA WalkAt ==
    ASSUME NameTypes, Listed, NEW i \in DOMAIN trackers, NEW p, NEW n,
           p = trackers[i], n = After(trackers[i])
    PROVE  /\ p \in Ids /\ n \in {Head0} \union ToSet(trackers) /\ p # n
           /\ n # Head0 => i + 1 \in DOMAIN trackers /\ trackers[i + 1] = n
           /\ p \in Nat /\ n \in Nat /\ p # Head0
           /\ \A k : (\E j \in DOMAIN trackers : i <= j /\ trackers[j] = k)
                     <=> \/ k = p
                         \/ \E a, b \in DOMAIN trackers : a <= b /\ trackers[a] = n /\ trackers[b] = k
<1>1. /\ Len(trackers) \in Nat /\ DOMAIN trackers = 1 .. Len(trackers)
      /\ \A j \in DOMAIN trackers : trackers[j] \in Ids /\ trackers[j] \in ToSet(trackers)
      /\ Ids = 1 .. Len(tracker) /\ Len(tracker) \in Nat /\ Head0 \notin Ids
  BY NameSeqs
<1>2. \A a, b \in DOMAIN trackers : trackers[a] = trackers[b] => a = b
  BY DEF Listed, IsInjective
<1>3. IF i + 1 \in DOMAIN trackers THEN n = trackers[i + 1] ELSE n = Head0
  BY AfterIsNext
<1>4. n # Head0 => i + 1 \in DOMAIN trackers /\ trackers[i + 1] = n
  BY <1>3
<1>5. p \in Ids /\ n \in {Head0} \union ToSet(trackers) /\ p \in Nat /\ n \in Nat /\ p # Head0
  BY <1>1, <1>3 DEF Head0
<1>6. p # n
  <2>1. i + 1 # i
    BY <1>1
  <2> QED  BY <1>1, <1>2, <1>3, <1>5, <2>1
<1>7. ASSUME NEW k, NEW j \in DOMAIN trackers, i <= j, trackers[j] = k
      PROVE  \/ k = p
             \/ \E a, b \in DOMAIN trackers : a <= b /\ trackers[a] = n /\ trackers[b] = k
  <2>1. CASE j = i
    BY <1>7, <2>1
  <2>2. CASE j # i
    <3>1. i + 1 \in DOMAIN trackers /\ i + 1 <= j
      BY <1>1, <1>7, <2>2
    <3> QED  BY <1>3, <1>7, <3>1
  <2> QED  BY <2>1, <2>2
<1>8. ASSUME NEW a \in DOMAIN trackers, NEW b \in DOMAIN trackers, a <= b, trackers[a] = n
      PROVE  i <= b
  <2>1. i + 1 \in DOMAIN trackers /\ trackers[i + 1] = n
    BY <1>1, <1>3, <1>8
  <2>2. a = i + 1
    BY <1>2, <1>8, <2>1
  <2> QED  BY <1>1, <1>8, <2>2
<1>9. i <= i
  BY <1>1
<1> QED  BY <1>4, <1>5, <1>6, <1>7, <1>8, <1>9

\* name_owner_change_cb comes to its first tracker, and will to all.
LEMMA StartWalkInv ==
    ASSUME NamesIInv, StartWalk
    PROVE  NamesIInv'
<1>1. /\ ~Walking /\ alive /\ inq # <<>> /\ Head(inq).kind = "signal" /\ trackers # <<>>
      /\ walk' = [p |-> trackers[1], n |-> After(trackers[1]), next |-> Head(inq).next, called |-> FALSE]
      /\ UNCHANGED <<owner, rules, inq, asked, held, calls, trackers, tracker, alive>>
  BY DEF StartWalk
<1>2. NameTypes /\ Listed /\ Held
  BY DEF NamesIInv
<1>3. /\ inq[1] = Head(inq) /\ inq[1].next \in OwnersOrNone /\ inq[1].kind = "signal"
      /\ 1 \in DOMAIN trackers /\ DOMAIN trackers = 1 .. Len(trackers)
  <2>1. Len(inq) \in Nat \ {0} /\ Len(trackers) \in Nat \ {0}
    BY <1>1, <1>2, NameSeqs, EmptySeq DEF NameTypes
  <2>2. inq[1] = Head(inq) /\ inq[1] \in Messages
    BY <1>2, <2>1, NameSeqs
  <2> QED  BY <1>1, <1>2, <2>1, <2>2, NameSeqs DEF Messages
<1>14. PICK i \in DOMAIN trackers : i = 1
  BY <1>3
<1>4. PICK p, n : i = 1 /\ p = trackers[i] /\ n = After(trackers[i])
  BY <1>14
<1>5. /\ p \in Ids /\ n \in {Head0} \union ToSet(trackers) /\ p # n
      /\ n # Head0 => i + 1 \in DOMAIN trackers /\ trackers[i + 1] = n
      /\ p \in Nat /\ n \in Nat /\ p # Head0
      /\ \A k : (\E j \in DOMAIN trackers : i <= j /\ trackers[j] = k)
                <=> \/ k = p
                    \/ \E a, b \in DOMAIN trackers : a <= b /\ trackers[a] = n /\ trackers[b] = k
  BY <1>2, <1>4, WalkAt
<1>6. walk' = [p |-> p, n |-> n, next |-> inq[1].next, called |-> FALSE]
  BY <1>1, <1>3, <1>4
<1>7. Ids' = Ids /\ ToSet(trackers') = ToSet(trackers) /\ \A m : Followers(m)' = Followers(m)
  BY <1>1 DEF Ids, Followers
<1>8. NameTypes'
  BY <1>1, <1>2, <1>3, <1>5, <1>6, <1>7 DEF NameTypes
<1>9. Listed'
  BY <1>1, <1>2, <1>7 DEF Listed
<1>10. Held'
  BY <1>1, <1>2, <1>7 DEF Held, Replies, Answers
<1>11. Walks'
  <2>1. walk'.p = p /\ walk'.n = n /\ walk'.next = inq[1].next /\ ~walk'.called
    BY <1>6
  <2> QED  BY <1>1, <1>3, <1>4, <1>5, <1>7, <2>1 DEF Walks
<1>12. ASSUME NEW k \in ToSet(trackers)  PROVE Informed(k)'
  <2>1. ToVisit(k)'
    <3>1. \E j \in DOMAIN trackers : i <= j /\ trackers[j] = k
      BY <1>3, <1>4 DEF ToSet
    <3> QED  BY SMTT(40), <1>1, <1>5, <1>6, <3>1 DEF ToVisit, Ahead
  <2>2. \A j : Concerns(j, k)' <=> Concerns(j, k)
    BY <1>1, <2>1 DEF Concerns, Answers
  <2>3. News(k)' = News(k) /\ \A j : Says(j)' = Says(j)
    BY <1>1, <2>2 DEF News, Says
  <2> QED  BY <1>1, <2>3 DEF Informed, NamesIInv, Known
<1> QED  BY <1>7, <1>8, <1>9, <1>10, <1>11, <1>12 DEF NamesIInv

\* A signal that comes when nothing is tracked.
LEMMA DropSignalInv ==
    ASSUME NamesIInv, DropSignal
    PROVE  NamesIInv'
<1>1. /\ ~Walking /\ inq # <<>> /\ Head(inq).kind = "signal" /\ (alive => trackers = <<>>) /\ inq' = Tail(inq)
      /\ UNCHANGED <<owner, rules, asked, held, calls, trackers, tracker, walk, alive>>
  BY DEF DropSignal
<1>2. NameTypes /\ Listed /\ Held
  BY DEF NamesIInv
<1>3. Shorter(1) /\ 1 \in DOMAIN inq /\ Head(inq) = inq[1]
  BY <1>1, <1>2, TailShorter
<1>4. Ids' = Ids /\ ToSet(trackers') = ToSet(trackers) /\ \A m : Followers(m)' = Followers(m)
  BY <1>1 DEF Ids, Followers
<1>5. NameTypes'
  BY <1>1, <1>2, <1>3, <1>4 DEF NameTypes, Shorter
<1>6. Listed'
  BY <1>1, <1>2, <1>4 DEF Listed
<1>7. Held'
  <2>1. Replies'
    BY <1>1, <1>2, <1>3, RepliesLeft DEF Held
  <2> QED  BY <1>1, <1>2, <1>4, <2>1 DEF Held
<1>8. Walks'
  BY <1>1 DEF Walks, Walking
<1>9. trackers' = <<>>
  BY <1>1, <1>2 DEF Listed
<1>10. ToSet(trackers') = {}
  BY <1>9 DEF ToSet
<1> QED  BY <1>5, <1>6, <1>7, <1>8, <1>10 DEF NamesIInv

\* name_owner_change_cb calls a tracker: what it says is the newest there is
\* for it, or there is newer news behind it.
LEMMA CallTrackerInv ==
    ASSUME NamesIInv, CallTracker
    PROVE  NamesIInv'
<1> DEFINE told == [up |-> walk.next # NoOwner, owner |-> walk.next]
<1>1. PICK p : p = walk.p
  OBVIOUS
<1>2. /\ Walking /\ ~walk.called /\ walk' = [walk EXCEPT !.called = TRUE]
      /\ tracker' = IF tracker[p].name = Head(inq).name THEN [tracker EXCEPT ![p].told = told] ELSE tracker
      /\ UNCHANGED <<owner, rules, inq, asked, held, calls, trackers, alive>>
  BY <1>1 DEF CallTracker
<1>3. NameTypes /\ Listed /\ Held /\ Walks
  BY DEF NamesIInv
<1>4. /\ inq[1] = Head(inq) /\ 1 \in DOMAIN inq /\ inq[1].kind = "signal" /\ walk.next = inq[1].next
      /\ walk.next \in OwnersOrNone
  <2>1. Len(inq) \in Nat \ {0} /\ DOMAIN inq = 1 .. Len(inq)
    BY <1>2, <1>3, NameSeqs, EmptySeq DEF NameTypes, Walks
  <2> QED  BY <1>2, <1>3, <2>1 DEF Walks, NameTypes
<1>5. walk' = [p |-> walk.p, n |-> walk.n, next |-> walk.next, called |-> TRUE] /\ walk'.p = p /\ Walking'
  <2>1. walk = [p |-> walk.p, n |-> walk.n, next |-> walk.next, called |-> walk.called]
    BY <1>3 DEF NameTypes
  <2>2. walk' = [p |-> walk.p, n |-> walk.n, next |-> walk.next, called |-> TRUE]
    BY <1>2, <2>1
  <2> QED  BY <1>1, <1>2, <2>2 DEF Walking
<1>6. /\ tracker' \in Seq(Trackers) /\ Ids' = Ids /\ p \in Ids
      /\ \A x \in Ids \ {p} : tracker'[x] = tracker[x]
      /\ tracker'[p].st = tracker[p].st /\ tracker'[p].late = tracker[p].late
      /\ tracker'[p].name = tracker[p].name
      /\ tracker[p].name # inq[1].name => tracker'[p].told = tracker[p].told
      /\ tracker[p].name = inq[1].name => tracker'[p].told = told
  <2> DEFINE nt == tracker[p]
             r == [name |-> nt.name, client |-> nt.client, st |-> nt.st, told |-> told, late |-> nt.late]
  <2>1. p \in Ids
    BY <1>1, <1>2, <1>3 DEF Walks
  <2>2. /\ nt \in Trackers /\ tracker \in Seq(Trackers)
        /\ nt = [name |-> nt.name, client |-> nt.client, st |-> nt.st, told |-> nt.told, late |-> nt.late]
    BY <1>3, <2>1, NameSeqs DEF Trackers, NameTypes
  <2>3. CASE nt.name = inq[1].name
    <3>1. tracker' = [tracker EXCEPT ![p] = r]
      <4>1. [nt EXCEPT !.told = told] = r
        BY <2>2
      <4>2. tracker' = [tracker EXCEPT ![p] = [nt EXCEPT !.told = told]]
        BY <1>2, <1>4, <2>1, <2>3 DEF Ids
      <4> QED  BY <4>1, <4>2
    <3>2. r \in Trackers /\ r.name = nt.name /\ r.st = nt.st /\ r.late = nt.late /\ r.told = told
      BY <1>4, <2>2 DEF Trackers
    <3> HIDE DEF r
    <3> QED  BY <1>3, <2>1, <2>3, <3>1, <3>2, EntryChanged
  <2>4. CASE nt.name # inq[1].name
    <3>1. tracker' = tracker
      BY <1>2, <1>4, <2>4
    <3> QED  BY <2>1, <2>2, <2>4, <3>1 DEF Ids
  <2> QED  BY <2>3, <2>4
<1>7. ToSet(trackers) \subseteq Ids /\ ToSet(trackers') = ToSet(trackers)
  BY <1>2, <1>3, NameSeqs
<1>8. \A m : Followers(m)' = Followers(m)
  BY <1>2, <1>6, <1>7 DEF Followers
<1>9. NameTypes'
  BY <1>2, <1>3, <1>4, <1>5, <1>6 DEF NameTypes
<1>10. Listed'
  <2>1. \A x \in ToSet(trackers') : tracker'[x].st = "active"
    BY <1>3, <1>6, <1>7 DEF Listed
  <2> QED  BY <1>2, <1>3, <1>7, <1>8, <2>1 DEF Listed
<1>11. Held'
  BY <1>2, <1>3, <1>6 DEF Held, Replies, Answers
<1>12. Walks'
  BY <1>2, <1>3, <1>5, <1>6, <1>7 DEF Walks
<1>13. ASSUME NEW k \in ToSet(trackers), k # p  PROVE Informed(k)'
  <2>1. ToVisit(k)' <=> ToVisit(k)
    BY <1>1, <1>2, <1>5, <1>13 DEF ToVisit, Ahead
  <2>2. tracker'[k] = tracker[k] /\ Informed(k)
    BY <1>6, <1>7, <1>13 DEF NamesIInv
  <2> QED  BY <1>2, <1>5, <2>1, <2>2, InformedStays
<1>14. ASSUME p \in ToSet(trackers)  PROVE Informed(p)'
  <2>1. ToVisit(p) /\ ~ToVisit(p)'
    <3>1. PICK i \in DOMAIN trackers :
             /\ trackers[i] = p
             /\ walk.n # Head0 => i + 1 \in DOMAIN trackers /\ trackers[i + 1] = walk.n
      BY <1>1, <1>2, <1>3 DEF Walks
    <3>2. ~Ahead(p)
      <4> SUFFICES ASSUME NEW a \in DOMAIN trackers, NEW b \in DOMAIN trackers,
                          a <= b, trackers[a] = walk.n, trackers[b] = p
                   PROVE  FALSE
        BY DEF Ahead
      <4>1. b = i
        BY <1>3, <3>1 DEF Listed, IsInjective
      <4>2. DOMAIN trackers = 1 .. Len(trackers) /\ Len(trackers) \in Nat /\ walk.n # Head0
        BY <1>3, NameSeqs
      <4>3. a = i + 1
        BY <1>3, <3>1, <4>2 DEF Listed, IsInjective
      <4> QED  BY <4>1, <4>2, <4>3
    <3> QED  BY <1>1, <1>2, <1>5, <3>2 DEF ToVisit, Ahead
  <2>2. ASSUME NEW j  PROVE /\ Concerns(j, p)' <=> Concerns(j, p) /\ j # 1
                            /\ Says(j)' = Says(j)
    <3>1. Concerns(j, p)' <=> Concerns(j, p) /\ j # 1
      <4>1. CASE j = 1
        BY <1>2, <1>4, <1>5, <2>1, <4>1 DEF Concerns, Answers
      <4>2. CASE j # 1
        BY <1>2, <1>6, <4>2 DEF Concerns, Answers
      <4> QED  BY <4>1, <4>2
    <3> QED  BY <1>2, <3>1 DEF Says
  <2>3. News(p)' = News(p) \ {1} /\ \A j : Says(j)' = Says(j)
    BY <1>2, <2>2 DEF News
  <2>4. 1 \in News(p) <=> tracker[p].name = inq[1].name
    BY <1>4, <2>1 DEF News, Concerns, Answers
  <2>5. Informed(p)
    BY <1>14 DEF NamesIInv
  <2>6. Len(inq) \in Nat /\ News(p) \subseteq 1 .. Len(inq)
    BY <1>3, NameSeqs DEF News
  <2>7. CASE p \in asked \/ tracker[p].late
    BY <1>2, <1>6, <2>7 DEF Informed
  <2>8. CASE News(p) = {} /\ tracker[p].told = Known(owner[tracker[p].name])
    <3>1. tracker'[p].told = tracker[p].told /\ News(p)' = {}
      BY <1>6, <2>3, <2>4, <2>8
    <3> QED  BY <1>2, <1>6, <2>8, <3>1 DEF Informed, Known
  <2>9. ASSUME NEW n \in News(p), Says(n) = owner[tracker[p].name], \A j \in News(p) : j <= n
        PROVE  Informed(p)'
    <3>1. CASE n = 1
      <4>1. News(p)' = {}
        BY <2>3, <2>6, <2>9, <3>1
      <4>2. tracker'[p].told = Known(owner'[tracker'[p].name])
        BY <1>2, <1>4, <1>6, <2>4, <2>9, <3>1 DEF Known, Says
      <4> QED  BY <4>1, <4>2 DEF Informed, Known
    <3>2. CASE n # 1
      BY <1>2, <1>6, <2>3, <2>9, <3>2 DEF Informed
    <3> QED  BY <3>1, <3>2
  <2> QED  BY <2>5, <2>7, <2>8, <2>9 DEF Informed
<1> QED  BY <1>7, <1>9, <1>10, <1>11, <1>12, <1>13, <1>14 DEF NamesIInv

\* The loop goes on with the tracker it looked up, or is done with the signal.
LEMMA NextTrackerInv ==
    ASSUME NamesIInv, NextTracker
    PROVE  NamesIInv'
<1>1. /\ Walking /\ walk.called /\ UNCHANGED <<owner, rules, asked, held, calls, trackers, tracker, alive>>
      /\ IF walk.n = Head0 THEN walk' = Idle /\ inq' = Tail(inq)
         ELSE /\ walk' = [walk EXCEPT !.p = walk.n, !.n = After(walk.n), !.called = FALSE]
              /\ UNCHANGED inq
  BY DEF NextTracker
<1>2. NameTypes /\ Listed /\ Held /\ Walks
  BY DEF NamesIInv
<1>3. /\ ToSet(trackers) \subseteq Ids /\ Head0 \notin Ids
      /\ \A j \in DOMAIN trackers : trackers[j] \in Ids
  BY <1>2, NameSeqs
<1>4. Ids' = Ids /\ ToSet(trackers') = ToSet(trackers) /\ \A m : Followers(m)' = Followers(m)
  BY <1>1 DEF Ids, Followers
<1>5. Listed'
  BY <1>1, <1>2, <1>4 DEF Listed
<1>6. CASE walk.n = Head0
  <2>1. walk' = [p |-> 0, n |-> 0, next |-> NoOwner, called |-> FALSE] /\ ~Walking' /\ inq' = Tail(inq) /\ inq # <<>>
    BY <1>1, <1>2, <1>6 DEF Idle, Head0, Walking, Walks
  <2>2. Shorter(1) /\ 1 \in DOMAIN inq
    BY <1>2, <2>1, TailShorter
  <2>3. NameTypes'
    <3>1. walk' \in [p : Nat, n : Nat, next : OwnersOrNone, called : BOOLEAN]
      BY <2>1 DEF OwnersOrNone
    <3> QED  BY <1>1, <1>2, <1>4, <2>2, <3>1 DEF NameTypes, Shorter
  <2>4. Held'
    <3>1. Replies'
      BY <1>1, <1>2, <2>2, RepliesLeft DEF Held
    <3> QED  BY <1>1, <1>2, <1>4, <3>1 DEF Held
  <2>5. Walks'
    BY <2>1 DEF Walks
  <2>6. ASSUME NEW k \in ToSet(trackers)  PROVE Informed(k)'
    <3>1. ~ToVisit(k)
      BY <1>1, <1>3, <1>6 DEF ToVisit, Ahead
    <3>2. 1 \notin News(k)
      BY <1>1, <1>2, <3>1 DEF News, Concerns, Answers, Walks
    <3> QED  BY <1>1, <1>2, <2>1, <2>2, <3>2, NewsRemoved DEF NamesIInv
  <2> QED  BY <1>4, <1>5, <2>3, <2>4, <2>5, <2>6 DEF NamesIInv
<1>7. CASE walk.n # Head0
  <2>1. PICK i \in DOMAIN trackers : trackers[i] = walk.n
    BY <1>1, <1>2, <1>7 DEF Walks, ToSet
  <2>2. PICK p, n : p = trackers[i] /\ n = After(trackers[i])
    OBVIOUS
  <2>3. /\ p \in Ids /\ n \in {Head0} \union ToSet(trackers) /\ p # n
        /\ n # Head0 => i + 1 \in DOMAIN trackers /\ trackers[i + 1] = n
        /\ p \in Nat /\ n \in Nat /\ p # Head0
        /\ \A k : (\E j \in DOMAIN trackers : i <= j /\ trackers[j] = k)
                  <=> \/ k = p
                      \/ \E a, b \in DOMAIN trackers : a <= b /\ trackers[a] = n /\ trackers[b] = k
    BY <1>2, <2>2, WalkAt
  <2>4. walk' = [p |-> p, n |-> n, next |-> walk.next, called |-> FALSE] /\ inq' = inq
    <3>1. walk' = [walk EXCEPT !.p = p, !.n = n, !.called = FALSE]
      BY <1>1, <1>7, <2>1, <2>2
    <3>2. walk = [p |-> walk.p, n |-> walk.n, next |-> walk.next, called |-> walk.called]
      BY <1>2 DEF NameTypes
    <3>3. PICK v : v = [walk EXCEPT !.p = p]
      OBVIOUS
    <3>4. v = [p |-> p, n |-> walk.n, next |-> walk.next, called |-> walk.called]
      BY <3>2, <3>3
    <3>5. PICK u : u = [v EXCEPT !.n = n]
      OBVIOUS
    <3>6. u = [p |-> p, n |-> n, next |-> walk.next, called |-> walk.called]
      BY <3>4, <3>5
    <3>7. walk' = [u EXCEPT !.called = FALSE]
      BY <3>1, <3>3, <3>5
    <3>8. walk' = [p |-> p, n |-> n, next |-> walk.next, called |-> FALSE]
      BY <3>6, <3>7
    <3> QED  BY <1>1, <1>7, <3>8
  <2>5. walk'.p = p /\ walk'.n = n /\ walk'.next = walk.next /\ ~walk'.called /\ Walking'
    BY <2>3, <2>4 DEF Walking
  <2>6. NameTypes'
    BY <1>1, <1>2, <1>4, <2>3, <2>4 DEF NameTypes
  <2>7. Held'
    BY <1>1, <1>2, <1>4, <2>4 DEF Held, Replies, Answers
  <2>8. Walks'
    BY <1>1, <1>2, <1>4, <2>2, <2>3, <2>4, <2>5 DEF Walks
  <2>9. ASSUME NEW k \in ToSet(trackers)  PROVE Informed(k)'
    <3>1. ToVisit(k) <=> \E j \in DOMAIN trackers : i <= j /\ trackers[j] = k
      <4>1. \A a \in DOMAIN trackers : trackers[a] = walk.n <=> a = i
        BY <1>2, <2>1 DEF Listed, IsInjective
      <4> QED  BY <1>1, <4>1 DEF ToVisit, Ahead
    <3>2. ToVisit(k)' <=> ToVisit(k)
      <4>1. ToVisit(k)' <=> \/ k = p
                            \/ \E a, b \in DOMAIN trackers : a <= b /\ trackers[a] = n /\ trackers[b] = k
        BY <1>1, <2>5 DEF ToVisit, Ahead
      <4> QED  BY <2>3, <3>1, <4>1
    <3> QED  BY <1>1, <2>4, <2>5, <3>2, InformedStays DEF NamesIInv
  <2> QED  BY <1>4, <1>5, <2>6, <2>7, <2>8, <2>9 DEF NamesIInv
<1> QED  BY <1>6, <1>7

\* The last reference goes: nothing is tracked, and the calls are still held.
LEMMA DisconnectInv ==
    ASSUME NamesIInv, Disconnect
    PROVE  NamesIInv'
<1> DEFINE r(k) == [tracker[k] EXCEPT !.st = IF tracker[k].st = "active" THEN "freed" ELSE tracker[k].st]
<1>1. /\ alive /\ ~Walking /\ alive' = FALSE /\ trackers' = <<>> /\ calls' = {}
      /\ rules' = [m \in Names |-> 0] /\ tracker' = [k \in DOMAIN tracker |-> r(k)]
      /\ UNCHANGED <<owner, inq, asked, held, walk>>
  BY DEF Disconnect
<1>2. NameTypes /\ Held
  BY DEF NamesIInv
<1>3. ASSUME NEW k \in Ids
      PROVE  r(k) \in Trackers /\ r(k).late = tracker[k].late /\ (r(k).st = "zombie" => tracker[k].st = "zombie")
  <2> DEFINE nt == tracker[k]
             s == IF nt.st = "active" THEN "freed" ELSE nt.st
  <2>1. nt \in Trackers /\ nt = [name |-> nt.name, client |-> nt.client, st |-> nt.st, told |-> nt.told, late |-> nt.late]
    BY <1>2, NameSeqs DEF Trackers
  <2>2. [nt EXCEPT !.st = s] = [name |-> nt.name, client |-> nt.client, st |-> s, told |-> nt.told, late |-> nt.late]
    BY <2>1
  <2> QED  BY <2>1, <2>2 DEF Trackers
<1>4. tracker' \in Seq(Trackers) /\ Ids' = Ids
  <2>1. Len(tracker) \in Nat /\ Ids = 1 .. Len(tracker) /\ Ids = DOMAIN tracker
    BY <1>2, NameSeqs DEF Ids
  <2> HIDE DEF r
  <2>2. tracker' \in [1 .. Len(tracker) -> Trackers]
    BY <1>1, <1>3, <2>1
  <2>3. \A S : \A q : (\E n \in Nat : q \in [1 .. n -> S]) => q \in Seq(S)
    BY SeqDef
  <2>4. tracker' \in Seq(Trackers)
    BY <2>1, <2>2, <2>3
  <2> QED  BY <1>1, <2>1, <2>4 DEF Ids
<1>5. ToSet(trackers') = {} /\ trackers' \in Seq(Ids)
  BY <1>1 DEF ToSet
<1>6. NameTypes'
  BY <1>1, <1>2, <1>4, <1>5 DEF NameTypes
<1>7. Listed'
  BY <1>1, <1>5 DEF Listed, IsInjective
<1>8. Held'
  <2>1. Replies'
    BY <1>1, <1>2 DEF Held, Replies, Answers
  <2>2. \A k \in Ids : tracker'[k] = r(k)
    BY <1>1 DEF Ids
  <2> HIDE DEF r
  <2>3. ASSUME NEW k \in Ids  PROVE /\ tracker'[k].st = "zombie" => k \in held'
                                    /\ tracker'[k].late => k \notin held'
    BY <1>1, <1>2, <1>3, <2>2 DEF Held
  <2> QED  BY <1>4, <2>1, <2>3 DEF Held
<1>9. Walks'
  BY <1>1 DEF Walks, Walking
<1> QED  BY <1>5, <1>6, <1>7, <1>8, <1>9 DEF NamesIInv

\* Nothing of what the invariant is about changes.
LEMMA NamesStutter ==
    ASSUME NamesIInv, UNCHANGED nameVars
    PROVE  NamesIInv'
<1>1. UNCHANGED <<owner, rules, inq, asked, held, calls, trackers, tracker, walk, alive>>
  BY DEF nameVars
<1>2. NameTypes' /\ Listed' /\ Held' /\ Walks'
  BY <1>1 DEF NamesIInv, NameTypes, Listed, Followers, Held, Replies, Answers, Walks, Walking, Ids
<1>3. ASSUME NEW k \in ToSet(trackers)  PROVE Informed(k)'
  BY <1>1, InformedStays DEF NamesIInv, Walking, ToVisit, Ahead
<1> QED  BY <1>1, <1>2, <1>3 DEF NamesIInv

\* Every step of the bus, of the clients and of the connection.
LEMMA NamesNextInv == NamesIInv /\ [NamesNext]_nameVars => NamesIInv'
<1> SUFFICES ASSUME NamesIInv, [NamesNext]_nameVars  PROVE NamesIInv'
  OBVIOUS
<1>1. CASE \E m \in Names, o \in Owners \union {NoOwner} : ChangeOwner(m, o)
  BY <1>1, ChangeOwnerInv DEF OwnersOrNone
<1>2. CASE \E m \in Names, c \in Clients : FollowName(c, m)
  BY <1>2, FollowNameInv
<1>3. CASE \E m \in Names, c \in Clients : ForgetName(c, m)
  BY <1>3, ForgetInv DEF ForgetName, ClientRuns
<1>4. CASE \E m \in Names : Call(m)
  BY <1>4, CallInv
<1>5. CASE \E k \in Ids : Answer(k)
  BY <1>5, AnswerInv
<1>6. CASE \E k \in Ids : CancelCall(k)
  BY <1>6, CancelCallInv
<1>7. CASE \E k \in Ids : Timeout(k)
  BY <1>7, TimeoutInv
<1>8. CASE DispatchReply
  BY <1>8, DispatchReplyInv
<1>9. CASE StartWalk
  BY <1>9, StartWalkInv
<1>10. CASE DropSignal
  BY <1>10, DropSignalInv
<1>11. CASE CallTracker
  BY <1>11, CallTrackerInv
<1>12. CASE NextTracker
  BY <1>12, NextTrackerInv
<1>13. CASE Disconnect
  BY <1>13, DisconnectInv
<1>14. CASE UNCHANGED nameVars
  BY <1>14, NamesStutter
<1> QED
  BY <1>1, <1>2, <1>3, <1>4, <1>5, <1>6, <1>7, <1>8, <1>9, <1>10, <1>11, <1>12, <1>13, <1>14 DEF NamesNext, Ids

\* When the queue is empty there are no news on the way.
LEMMA NamesKnown == NamesIInv => NamesAreKnown
<1> SUFFICES ASSUME NamesIInv  PROVE NamesAreKnown
  OBVIOUS
<1>1. NameTypes /\ Listed /\ Held /\ Walks
  BY DEF NamesIInv
<1>2. OwnersAreKnown
  <2> SUFFICES ASSUME inq = <<>>, ~Walking, NEW j \in DOMAIN trackers
               PROVE  LET nt == tracker[trackers[j]]
                      IN  \/ trackers[j] \in asked \/ nt.late
                          \/ nt.told = [up |-> owner[nt.name] # NoOwner, owner |-> owner[nt.name]]
    BY DEF OwnersAreKnown
  <2>1. trackers[j] \in ToSet(trackers)
    BY DEF ToSet
  <2>2. News(trackers[j]) = {}
    BY DEF News
  <2>3. Informed(trackers[j])
    BY <2>1 DEF NamesIInv
  <2> QED  BY <2>2, <2>3 DEF Informed, Known
<1>3. WalkStaysOnList
  BY <1>1 DEF WalkStaysOnList, Walks
<1>4. NothingLingers
  BY <1>1 DEF NothingLingers, Listed, Held, Followers, Ids
<1> QED  BY <1>2, <1>3, <1>4 DEF NamesAreKnown

\* For any number of clients, names, owners, trackers and changes: a tracker
\* that has been told everything knows who owns its name, whatever the order
\* of the query's answer and the signals, and whatever the clients follow and
\* forget inside a callback; the walk over the trackers stays on the list; no
\* call, rule or forgotten tracker is left behind.
THEOREM NamesKnownAlways == NamesSpec => []NamesAreKnown
<1>1. NamesSpec => []NamesIInv
  <2>1. NamesInit => NamesIInv
    BY NamesInitInv
  <2>2. NamesIInv /\ [NamesNext]_nameVars => NamesIInv'
    BY NamesNextInv
  <2> QED  BY <2>1, <2>2, PTL DEF NamesSpec
<1>2. NamesIInv => NamesAreKnown
  BY NamesKnown
<1> QED  BY <1>1, <1>2, PTL

------------------------------------------------------------------------------
(* The transport. *)

Addresses == Peers \union {Name}
Events == [kind : {"state", "msg"}, from : Peers \union {Cleared}, to : SUBSET Nat]

TransportTypes ==
    /\ holder \in Peers \union {Cleared} /\ shared \in BOOLEAN /\ missed \in BOOLEAN
    /\ t \in [dbus : BOOLEAN, bound : BOOLEAN, connected : BOOLEAN, resolved : BOOLEAN,
              remote : Addresses \union {Cleared}]
    /\ life \in {"live", "busy", "doomed", "freed"}
    /\ life = "freed" => ~t.bound
    /\ nfollow \in Nat /\ inbox \in Seq(Events)
    /\ \A i \in DOMAIN inbox : \A id \in inbox[i].to : id <= nfollow
    /\ follows \subseteq [id : Nat, name : Addresses] /\ \A f \in follows : f.id <= nfollow

(* The i-th message of the bus is news for the tracker f.                   *)
Tells(i, f) == inbox[i].kind = "state" /\ f.id \in inbox[i].to

(* The newest of the news on their way say who has the peer's name, or      *)
(* there are none and the transport knows it, if anybody has.               *)
NewsOfPeer(f) ==
    \/ (\A i \in DOMAIN inbox : ~Tells(i, f)) /\ (holder # Cleared => t.remote = holder)
    \/ \E i \in DOMAIN inbox : /\ Tells(i, f) /\ inbox[i].from = holder
                               /\ \A j \in DOMAIN inbox : Tells(j, f) => j <= i

(* The tracker of a connected transport: the transport has the name it      *)
(* follows, or the connection that had it.                                  *)
Tracked(f) ==
    /\ t.remote = f.name \/ (t.resolved /\ f.name = Name)
    /\ t.resolved => t.remote \in holders \cap Peers
    /\ \A i \in DOMAIN inbox : Tells(i, f) => /\ inbox[i].from \in holders
                                              /\ f.name # Name => inbox[i].from = f.name
    /\ f.name = Name => NewsOfPeer(f)

(* A connected transport has one tracker, and no other has any.             *)
Attached == life \in {"live", "busy"} /\ t.connected
OneTracker ==
    /\ Attached => \E f : follows = {f} /\ Tracked(f)
    /\ ~Attached => follows = {} /\ (life \in {"live", "busy"} => ~t.resolved)

(* What was checked was checked by the connection there still is.           *)
Checked == heard.checked => t.connected /\ life \in {"busy", "doomed"} /\ heard.from \in holders

TransportInv == TransportTypes /\ (missed \/ (broken = "none" /\ OneTracker /\ Checked))

\* The messages of the queue.
LEMMA InboxElements ==
    ASSUME TransportTypes
    PROVE  Len(inbox) \in Nat /\ DOMAIN inbox = 1 .. Len(inbox) /\ \A i \in DOMAIN inbox : inbox[i] \in Events
BY LenProperties, ElementOfSeq DEF TransportTypes

\* One more message from the bus.
LEMMA InboxAppended ==
    ASSUME TransportTypes, NEW e \in Events, inbox' = Append(inbox, e)
    PROVE  \E k \in Nat :
              /\ inbox' \in Seq(Events) /\ DOMAIN inbox' = DOMAIN inbox \union {k}
              /\ \A i \in DOMAIN inbox : inbox'[i] = inbox[i] /\ i \in Nat /\ i < k
              /\ k \notin DOMAIN inbox /\ inbox'[k] = e
<1>1. Len(inbox) \in Nat /\ DOMAIN inbox = 1 .. Len(inbox) /\ inbox \in Seq(Events)
  BY InboxElements DEF TransportTypes
<1>2. /\ inbox' \in Seq(Events) /\ Len(inbox') = Len(inbox) + 1
      /\ \A i \in 1 .. Len(inbox) : inbox'[i] = inbox[i]
      /\ inbox'[Len(inbox) + 1] = e
  BY <1>1, AppendFacts
<1>3. DOMAIN inbox' = 1 .. Len(inbox) + 1
  BY <1>2, LenProperties
<1> WITNESS Len(inbox) + 1 \in Nat
<1> QED  BY <1>1, <1>2, <1>3

\* The first message of the queue is taken.
LEMMA InboxTaken ==
    ASSUME TransportTypes, inbox # <<>>, inbox' = Tail(inbox)
    PROVE  /\ inbox' \in Seq(Events) /\ Head(inbox) = inbox[1] /\ 1 \in DOMAIN inbox /\ inbox[1] \in Events
           /\ \A i \in DOMAIN inbox' : i + 1 \in DOMAIN inbox /\ inbox'[i] = inbox[i + 1] /\ i \in Nat
           /\ \A i \in DOMAIN inbox : i \in Nat /\ i >= 1
           /\ \A i \in DOMAIN inbox : i # 1 => i - 1 \in DOMAIN inbox' /\ inbox'[i - 1] = inbox[i]
<1>1. Len(inbox) \in Nat \ {0} /\ DOMAIN inbox = 1 .. Len(inbox) /\ inbox \in Seq(Events)
      /\ \A i \in DOMAIN inbox : inbox[i] \in Events
  BY InboxElements, EmptySeq DEF TransportTypes
<1>2. inbox' \in Seq(Events) /\ Len(inbox') = Len(inbox) - 1 /\ \A i \in 1 .. Len(inbox) - 1 : inbox'[i] = inbox[i + 1]
  BY <1>1, HeadTailProperties
<1>3. DOMAIN inbox' = 1 .. Len(inbox) - 1
  BY <1>2, LenProperties
<1>4. Head(inbox) = inbox[1]
  BY <1>1
<1>5. \A i \in DOMAIN inbox : i # 1 => i - 1 \in DOMAIN inbox' /\ inbox'[i - 1] = inbox[i]
  <2> SUFFICES ASSUME NEW i \in DOMAIN inbox, i # 1
               PROVE  i - 1 \in DOMAIN inbox' /\ inbox'[i - 1] = inbox[i]
    OBVIOUS
  <2>1. i - 1 \in 1 .. Len(inbox) - 1 /\ (i - 1) + 1 = i
    BY <1>1
  <2> QED  BY <1>2, <1>3, <2>1
<1> QED  BY <1>1, <1>2, <1>3, <1>4, <1>5

------------------------------------------------------------------------------
\* Nothing is connected yet.
LEMMA TransportInitInv == TransportInit => TransportInv
<1> SUFFICES ASSUME TransportInit PROVE TransportInv
  OBVIOUS
<1>1. inbox = <<>> /\ inbox \in Seq(Events) /\ DOMAIN inbox = {}
  BY DEF TransportInit
<1>2. TransportTypes
  BY <1>1 DEF TransportInit, TransportTypes
<1>3. OneTracker /\ Checked
  BY DEF TransportInit, OneTracker, Attached, Checked, Silence
<1> QED  BY <1>2, <1>3 DEF TransportInv, TransportInit

\* A step that changes nothing a tracker is about.
LEMMA SameTracker ==
    ASSUME OneTracker, UNCHANGED <<holder, inbox, holders, nfollow, follows>>,
           t'.remote = t.remote, t'.resolved = t.resolved, t'.connected = t.connected,
           life \in {"live", "busy"} <=> life' \in {"live", "busy"}
    PROVE  OneTracker'
<1>1. Attached' = Attached
  BY DEF Attached
<1>2. \A f : Tracked(f) => Tracked(f)'
  BY DEF Tracked, Tells, NewsOfPeer
<1> QED  BY <1>1, <1>2 DEF OneTracker

\* dbus_bind.
LEMMA BoundFields ==
    ASSUME TransportTypes, NEW ok, t' = Bound(ok)
    PROVE  /\ t' \in [dbus : BOOLEAN, bound : BOOLEAN, connected : BOOLEAN, resolved : BOOLEAN,
                      remote : Addresses \union {Cleared}]
           /\ t'.remote = t.remote /\ t'.resolved = t.resolved /\ t'.connected = t.connected
BY DEF TransportTypes, Bound

\* Binding, by itself or because something is sent.
LEMMA BindInv ==
    ASSUME TransportInv, NEW ok \in BOOLEAN, Bind(ok) \/ SendTo(ok)
    PROVE  TransportInv'
<1>1. /\ UserRuns /\ t' = Bound(ok)
      /\ UNCHANGED <<holder, shared, life, follows, inbox, nfollow, heard, holders, missed, broken>>
  BY DEF Bind, SendTo
<1>2. TransportTypes
  BY DEF TransportInv
<1>3. TransportTypes'
  BY <1>1, <1>2, BoundFields DEF TransportTypes, UserRuns
<1>4. OneTracker => OneTracker'
  BY <1>1, <1>2, BoundFields, SameTracker
<1>5. Checked => Checked'
  BY <1>1, <1>2, BoundFields DEF Checked
<1> QED  BY <1>1, <1>3, <1>4, <1>5 DEF TransportInv

\* A message of some program is nothing to a tracker.
LEMMA PeerSendsInv ==
    ASSUME TransportInv, NEW p \in Peers, PeerSends(p)
    PROVE  TransportInv'
<1> DEFINE e == [kind |-> "msg", from |-> p, to |-> {}]
<1>1. /\ inbox' = Append(inbox, e)
      /\ UNCHANGED <<holder, shared, t, life, follows, nfollow, heard, holders, missed, broken>>
  BY DEF PeerSends, Deliver
<1>2. TransportTypes /\ e \in Events
  BY DEF TransportInv, Events
<1>3. PICK k \in Nat :
         /\ inbox' \in Seq(Events) /\ DOMAIN inbox' = DOMAIN inbox \union {k}
         /\ \A i \in DOMAIN inbox : inbox'[i] = inbox[i] /\ i \in Nat /\ i < k
         /\ k \notin DOMAIN inbox /\ inbox'[k] = e
  BY <1>1, <1>2, InboxAppended
<1>4. TransportTypes'
  BY <1>1, <1>2, <1>3 DEF TransportTypes
<1>5. ASSUME NEW f, Tracked(f)  PROVE Tracked(f)'
  <2>1. \A i \in DOMAIN inbox : Tells(i, f)' = Tells(i, f)
    BY <1>3 DEF Tells
  <2>2. ~Tells(k, f)'
    BY <1>1, <1>3 DEF Tells
  <2>3. NewsOfPeer(f) => NewsOfPeer(f)'
    BY <1>1, <1>3, <2>1, <2>2 DEF NewsOfPeer
  <2> QED  BY <1>1, <1>3, <1>5, <2>1, <2>2, <2>3 DEF Tracked
<1>6. OneTracker => OneTracker'
  BY <1>1, <1>5 DEF OneTracker, Attached
<1>7. Checked => Checked'
  BY <1>1 DEF Checked
<1> QED  BY <1>1, <1>4, <1>6, <1>7 DEF TransportInv

\* The name moves: a transport that follows it is told last of all.
LEMMA PeerMovesInv ==
    ASSUME TransportInv, NEW o \in Peers \union {Cleared}, PeerMoves(o)
    PROVE  TransportInv'
<1> DEFINE ids == {f.id : f \in TrackersOf(Name)}
           e == State(ids, o)
<1>1. /\ holder' = o
      /\ UNCHANGED <<shared, t, life, follows, nfollow, heard, missed, broken>>
      /\ holders' = IF t.connected /\ t.remote # Cleared THEN holders \union {o} ELSE holders
      /\ IF TrackersOf(Name) # {} THEN inbox' = Append(inbox, e) ELSE inbox' = inbox
  BY DEF PeerMoves, Deliver
<1>2. TransportTypes
  BY DEF TransportInv
<1>3. /\ TrackersOf(Name) \subseteq follows /\ \A f \in follows : f.name # Name => f \notin TrackersOf(Name)
      /\ e.kind = "state" /\ e.from = o /\ e.to = ids
  BY DEF TrackersOf, State
<1>4. ids \subseteq Nat /\ (\A id \in ids : id <= nfollow) /\ e \in Events
  <2>1. ids \subseteq Nat /\ \A id \in ids : id <= nfollow
    BY <1>2, <1>3 DEF TransportTypes
  <2> QED  BY <2>1 DEF Events, State
<1> HIDE DEF ids, e
<1>5. CASE TrackersOf(Name) = {}
  <2>1. inbox' = inbox
    BY <1>1, <1>5
  <2>2. TransportTypes'
    BY <1>1, <1>2, <2>1 DEF TransportTypes
  <2>3. ASSUME NEW f \in follows, Tracked(f)  PROVE Tracked(f)'
    <3>1. f.name # Name
      BY <1>5 DEF TrackersOf
    <3>2. \A i \in DOMAIN inbox : Tells(i, f)' = Tells(i, f)
      BY <2>1 DEF Tells
    <3> QED  BY <1>1, <2>1, <2>3, <3>1, <3>2 DEF Tracked
  <2>4. OneTracker => OneTracker'
    BY <1>1, <2>3 DEF OneTracker, Attached
  <2>5. Checked => Checked'
    BY <1>1 DEF Checked
  <2> QED  BY <1>1, <2>2, <2>4, <2>5 DEF TransportInv
<1>6. CASE TrackersOf(Name) # {}
  <2>1. PICK k \in Nat :
           /\ inbox' \in Seq(Events) /\ DOMAIN inbox' = DOMAIN inbox \union {k}
           /\ \A i \in DOMAIN inbox : inbox'[i] = inbox[i] /\ i \in Nat /\ i < k
           /\ k \notin DOMAIN inbox /\ inbox'[k] = e
    BY <1>1, <1>2, <1>4, <1>6, InboxAppended
  <2>2. TransportTypes'
    BY <1>1, <1>2, <1>3, <1>4, <2>1 DEF TransportTypes
  <2>3. ASSUME NEW f, follows = {f}, Tracked(f), Attached  PROVE Tracked(f)'
    <3>1. f.name = Name /\ f.id \in ids
      BY <1>6, <2>3 DEF TrackersOf, ids
    <3>2. holders' = holders \union {o}
      BY <1>1, <1>2, <2>3, TransportAssumption DEF Attached, Tracked, TransportTypes, Addresses
    <3>3. \A i \in DOMAIN inbox : Tells(i, f)' = Tells(i, f)
      BY <2>1 DEF Tells
    <3>4. Tells(k, f)' /\ inbox'[k].from = holder'
      BY <1>1, <1>3, <2>1, <3>1 DEF Tells
    <3>5. NewsOfPeer(f)'
      <4>1. \A j \in DOMAIN inbox' : j <= k
        BY <2>1
      <4> QED  BY <2>1, <3>4, <4>1 DEF NewsOfPeer
    <3> QED  BY <1>1, <2>1, <2>3, <3>1, <3>2, <3>3, <3>4, <3>5 DEF Tracked
  <2>4. OneTracker => OneTracker'
    BY <1>1, <2>3 DEF OneTracker, Attached
  <2>5. Checked => Checked'
    BY <1>1 DEF Checked
  <2> QED  BY <1>1, <2>2, <2>4, <2>5 DEF TransportInv
<1> QED  BY <1>5, <1>6

\* dbus_connect: the answer to the query of the new tracker is all the news it
\* has.
LEMMA ConnectInv ==
    ASSUME TransportInv, NEW a \in Peers \union {Name}, NEW reach \in BOOLEAN, NEW ok \in BOOLEAN,
           Connect(a, reach, ok)
    PROVE  TransportInv'
<1>1. /\ UserRuns /\ ~t.connected
      /\ UNCHANGED <<holder, shared, life, heard, missed, broken>>
  BY DEF Connect
<1>2. TransportTypes /\ life \in {"live", "busy"}
  BY <1>1 DEF TransportInv, UserRuns
<1>3. Checked => Checked'
  <2>1. Checked => ~heard.checked
    BY <1>1 DEF Checked
  <2> QED  BY <1>1, <2>1 DEF Checked
<1>4. CASE ~(t.dbus \/ reach) \/ ~(t.bound \/ ok)
  <2>1. /\ t' = t \/ t' = [t EXCEPT !.dbus = TRUE]
        /\ UNCHANGED <<follows, inbox, nfollow, holders>>
    BY <1>4 DEF Connect
  <2>2. TransportTypes'
    BY <1>1, <1>2, <2>1 DEF TransportTypes
  <2>3. t'.remote = t.remote /\ t'.resolved = t.resolved /\ t'.connected = t.connected
    BY <1>2, <2>1 DEF TransportTypes
  <2>4. OneTracker => OneTracker'
    BY <1>1, <2>1, <2>3, SameTracker
  <2> QED  BY <1>1, <1>3, <2>2, <2>4 DEF TransportInv
<1>5. CASE (t.dbus \/ reach) /\ (t.bound \/ ok)
  <2> DEFINE e == State({nfollow + 1}, OwnerOf(a))
  <2>1. PICK f : f = [id |-> nfollow + 1, name |-> a]
    OBVIOUS
  <2>2. /\ t' = [t EXCEPT !.dbus = TRUE, !.bound = TRUE, !.connected = TRUE, !.remote = a]
        /\ follows' = follows \union {f} /\ inbox' = Append(inbox, e)
        /\ nfollow' = nfollow + 1 /\ holders' = {OwnerOf(a)}
    BY <1>5, <2>1 DEF Connect, Deliver
  <2>3. /\ e \in Events /\ e.kind = "state" /\ e.from = OwnerOf(a) /\ e.to = {nfollow + 1}
        /\ a # Name => OwnerOf(a) = a /\ a \in Peers
        /\ a = Name => OwnerOf(a) = holder
        /\ f.id = nfollow + 1 /\ f.name = a /\ f \in [id : Nat, name : Addresses]
        /\ nfollow \in Nat
    BY <1>2, <2>1 DEF TransportTypes, Events, State, OwnerOf, Addresses
  <2> HIDE DEF e
  <2>4. PICK k \in Nat :
           /\ inbox' \in Seq(Events) /\ DOMAIN inbox' = DOMAIN inbox \union {k}
           /\ \A i \in DOMAIN inbox : inbox'[i] = inbox[i] /\ i \in Nat /\ i < k
           /\ k \notin DOMAIN inbox /\ inbox'[k] = e
    BY <1>2, <2>2, <2>3, InboxAppended
  <2>5. /\ t' \in [dbus : BOOLEAN, bound : BOOLEAN, connected : BOOLEAN, resolved : BOOLEAN,
                   remote : Addresses \union {Cleared}]
        /\ t'.remote = a /\ t'.connected /\ t'.resolved = t.resolved
    BY <1>2, <2>2 DEF TransportTypes, Addresses
  <2>6. TransportTypes'
    <3>1. \A i \in DOMAIN inbox' : \A id \in inbox'[i].to : id <= nfollow'
      <4>1. ASSUME NEW i \in DOMAIN inbox, NEW id \in inbox[i].to  PROVE id <= nfollow + 1
        <5>1. inbox[i] \in Events /\ id \in Nat /\ id <= nfollow
          BY <1>2, InboxElements DEF TransportTypes, Events
        <5> QED  BY <2>3, <5>1
      <4> QED  BY <2>2, <2>3, <2>4, <4>1
    <3>2. follows' \subseteq [id : Nat, name : Addresses] /\ \A g \in follows' : g.id <= nfollow'
      BY <1>2, <2>2, <2>3 DEF TransportTypes
    <3> QED  BY <1>1, <1>2, <2>2, <2>3, <2>4, <2>5, <3>1, <3>2 DEF TransportTypes
  <2>7. OneTracker => OneTracker'
    <3> SUFFICES ASSUME OneTracker  PROVE OneTracker'
      OBVIOUS
    <3>1. follows' = {f} /\ ~t'.resolved /\ Attached'
      BY <1>1, <1>2, <2>2, <2>5 DEF OneTracker, Attached
    <3>2. \A i \in DOMAIN inbox : ~Tells(i, f)'
      BY <1>2, <2>3, <2>4, InboxElements DEF Tells, TransportTypes, Events
    <3>3. Tells(k, f)' /\ inbox'[k].from = OwnerOf(a)
      BY <2>3, <2>4 DEF Tells
    <3>4. a = Name => NewsOfPeer(f)'
      BY <1>1, <2>3, <2>4, <3>2, <3>3 DEF NewsOfPeer
    <3>5. Tracked(f)'
      BY <2>2, <2>3, <2>4, <2>5, <3>1, <3>2, <3>3, <3>4 DEF Tracked
    <3> QED  BY <3>1, <3>5 DEF OneTracker
  <2> QED  BY <1>1, <1>3, <2>6, <2>7 DEF TransportInv
<1> QED  BY <1>4, <1>5

\* What dbus_disconnect forgets is the one tracker there is, or the name was
\* not followed.
LEMMA HangupForgets ==
    ASSUME TransportTypes, Hangup
    PROVE  /\ follows' \subseteq follows /\ missed' \in BOOLEAN /\ (missed => missed')
           /\ OneTracker /\ life \in {"live", "busy"} /\ ~missed' => follows' = {}
<1>1. /\ follows' \subseteq follows /\ missed' \in BOOLEAN /\ (missed => missed')
  BY DEF Hangup, ForgetPeer, TransportTypes
<1>2. ASSUME OneTracker, life \in {"live", "busy"}, ~missed'  PROVE follows' = {}
  <2>1. CASE ~Attached
    BY <1>1, <1>2, <2>1 DEF OneTracker
  <2>2. CASE Attached
    <3>1. PICK f : follows = {f} /\ Tracked(f)
      BY <1>2, <2>2 DEF OneTracker
    <3>2. f \in [id : Nat, name : Addresses] /\ t.connected /\ t.remote # Cleared
      BY <2>2, <3>1, TransportAssumption DEF TransportTypes, Tracked, Attached, Addresses
    <3> DEFINE mine == TrackersOf(t.remote)
    <3>3. mine = {f}
      BY <1>2, <3>1, <3>2 DEF Hangup, ForgetPeer, TrackersOf
    <3>4. follows' = follows \ {CHOOSE h \in mine : \A g \in mine : h.id <= g.id}
      BY <3>2, <3>3 DEF Hangup, ForgetPeer
    <3> HIDE DEF mine
    <3>5. \E h \in mine : \A g \in mine : h.id <= g.id
      BY <3>2, <3>3
    <3>6. (CHOOSE h \in mine : \A g \in mine : h.id <= g.id) \in mine
      BY <3>5
    <3> QED  BY <3>1, <3>3, <3>4, <3>6
  <2> QED  BY <2>1, <2>2
<1> QED  BY <1>1, <1>2

\* The user disconnects.
LEMMA TransportDisconnectInv ==
    ASSUME TransportInv, TransportDisconnect
    PROVE  TransportInv'
<1>1. /\ UserRuns /\ t.connected /\ Hangup
      /\ t' = [t EXCEPT !.connected = FALSE, !.resolved = FALSE, !.remote = Cleared]
      /\ heard' = Silence
      /\ UNCHANGED <<holder, shared, life, inbox, nfollow, holders, broken>>
  BY DEF TransportDisconnect
<1>2. TransportTypes /\ life \in {"live", "busy"}
  BY <1>1 DEF TransportInv, UserRuns
<1>3. /\ t' \in [dbus : BOOLEAN, bound : BOOLEAN, connected : BOOLEAN, resolved : BOOLEAN,
                 remote : Addresses \union {Cleared}]
      /\ t'.connected = FALSE /\ t'.resolved = FALSE /\ t'.bound = t.bound
  BY <1>1, <1>2 DEF TransportTypes
<1>4. TransportTypes'
  BY <1>1, <1>2, <1>3, HangupForgets DEF TransportTypes
<1>5. ASSUME OneTracker, ~missed'  PROVE OneTracker'
  BY <1>1, <1>2, <1>3, <1>5, HangupForgets DEF OneTracker, Attached
<1>6. Checked'
  BY <1>1 DEF Checked, Silence
<1> QED  BY <1>1, <1>2, <1>4, <1>5, <1>6, HangupForgets DEF TransportInv

\* The user destroys the transport, in a callback or outside of one.
LEMMA DestroyInv ==
    ASSUME TransportInv, Destroy
    PROVE  TransportInv'
<1>1. /\ UserRuns
      /\ t' = [t EXCEPT !.remote = Cleared, !.resolved = FALSE,
                        !.bound = (@ /\ life = "busy"), !.dbus = (@ /\ life = "busy")]
      /\ UNCHANGED <<holder, shared, inbox, nfollow, heard, holders, broken>>
  BY DEF Destroy
<1>2. TransportTypes /\ life \in {"live", "busy"}
  BY <1>1 DEF TransportInv, UserRuns
<1>3. /\ t' \in [dbus : BOOLEAN, bound : BOOLEAN, connected : BOOLEAN, resolved : BOOLEAN,
                 remote : Addresses \union {Cleared}]
      /\ t'.connected = t.connected /\ (life = "live" => ~t'.bound)
  BY <1>1, <1>2 DEF TransportTypes
<1>4. /\ follows' \subseteq follows /\ missed' \in BOOLEAN /\ (missed => missed')
      /\ life' = IF life = "busy" THEN "doomed" ELSE "freed"
      /\ OneTracker /\ ~missed' => follows' = {}
  <2>1. life' = IF life = "busy" THEN "doomed" ELSE "freed"
    BY <1>2 DEF Destroy
  <2>2. CASE Hangup
    BY <1>2, <2>1, <2>2, HangupForgets
  <2>3. CASE ~Hangup
    <3>1. life = "live" /\ (~shared \/ ~(t.connected /\ t.remote # Cleared)) /\ missed' = missed
          /\ follows' = IF shared THEN follows ELSE {}
      BY <1>2, <2>3 DEF Destroy, Close
    <3>2. OneTracker /\ shared => follows = {}
      <4> SUFFICES ASSUME OneTracker, shared  PROVE follows = {}
        OBVIOUS
      <4>1. Attached => t.remote # Cleared
        BY <1>2, TransportAssumption DEF OneTracker, Tracked, TransportTypes, Addresses
      <4>2. ~Attached
        BY <3>1, <4>1 DEF Attached
      <4> QED  BY <4>2 DEF OneTracker
    <3> QED  BY <1>2, <2>1, <3>1, <3>2 DEF TransportTypes
  <2> QED  BY <2>2, <2>3
<1>5. TransportTypes'
  BY <1>1, <1>2, <1>3, <1>4 DEF TransportTypes
<1>6. ASSUME OneTracker, ~missed'  PROVE OneTracker'
  BY <1>2, <1>4, <1>6 DEF OneTracker, Attached
<1>7. Checked => Checked'
  BY <1>1, <1>2, <1>3, <1>4 DEF Checked
<1> QED  BY <1>1, <1>4, <1>5, <1>6, <1>7 DEF TransportInv

\* The callback returns.
LEMMA ReturnInv ==
    ASSUME TransportInv, Return
    PROVE  TransportInv'
<1>1. /\ life \in {"busy", "doomed"} /\ heard' = Silence
      /\ UNCHANGED <<holder, shared, inbox, nfollow, holders, missed, broken>>
  BY DEF Return
<1>2. TransportTypes
  BY DEF TransportInv
<1>3. Checked'
  BY <1>1 DEF Checked, Silence
<1>4. CASE life = "busy"
  <2>1. life' = "live" /\ t' = t /\ follows' = follows
    BY <1>4 DEF Return
  <2>2. TransportTypes'
    BY <1>1, <1>2, <2>1 DEF TransportTypes
  <2>3. OneTracker => OneTracker'
    BY <1>1, <1>4, <2>1, SameTracker
  <2> QED  BY <1>1, <1>3, <2>2, <2>3 DEF TransportInv
<1>5. CASE life = "doomed"
  <2>1. life' = "freed" /\ follows' \subseteq follows /\ t' = [t EXCEPT !.dbus = FALSE, !.bound = FALSE]
    BY <1>5 DEF Return, Close
  <2>2. TransportTypes'
    BY <1>1, <1>2, <2>1 DEF TransportTypes
  <2>3. OneTracker => OneTracker'
    BY <1>5, <2>1 DEF OneTracker, Attached
  <2> QED  BY <1>1, <1>3, <2>2, <2>3 DEF TransportInv
<1> QED  BY <1>1, <1>4, <1>5

\* The news in front were for others, or the transport has learnt from them.
LEMMA NewsTaken ==
    ASSUME TransportTypes, inbox # <<>>, inbox' = Tail(inbox), UNCHANGED <<holder, holders>>,
           NEW f, Tracked(f),
           \/ ~Tells(1, f) /\ t'.remote = t.remote /\ t'.resolved = t.resolved
           \/ /\ Tells(1, f) /\ inbox[1].from # Cleared
              /\ t'.remote = inbox[1].from /\ t'.resolved = TRUE
           \/ /\ Tells(1, f) /\ inbox[1].from = Cleared
              /\ t'.remote = t.remote /\ t'.resolved = t.resolved
    PROVE  Tracked(f)'
<1>1. /\ 1 \in DOMAIN inbox /\ inbox[1] \in Events
      /\ \A i \in DOMAIN inbox' : i + 1 \in DOMAIN inbox /\ inbox'[i] = inbox[i + 1] /\ i \in Nat
      /\ \A i \in DOMAIN inbox : i \in Nat /\ i >= 1
      /\ \A i \in DOMAIN inbox : i # 1 => i - 1 \in DOMAIN inbox' /\ inbox'[i - 1] = inbox[i]
  BY InboxTaken
<1>2. inbox[1].from \in Peers \union {Cleared}
  BY <1>1 DEF Events
<1>3. \A i \in DOMAIN inbox' : \E j \in DOMAIN inbox : j = i + 1 /\ Tells(i, f)' = Tells(j, f) /\ inbox'[i] = inbox[j]
  BY <1>1 DEF Tells
<1>4. /\ t'.remote = f.name \/ (t'.resolved /\ f.name = Name)
      /\ t'.resolved => t'.remote \in holders \cap Peers
  BY <1>1, <1>2 DEF Tracked
<1>5. ASSUME f.name = Name  PROVE NewsOfPeer(f)'
  <2>1. CASE \A i \in DOMAIN inbox : ~Tells(i, f)
    BY <1>1, <1>3, <1>5, <2>1 DEF Tracked, NewsOfPeer
  <2>2. CASE \E i \in DOMAIN inbox : Tells(i, f)
    <3>1. PICK i \in DOMAIN inbox : /\ Tells(i, f) /\ inbox[i].from = holder
                                    /\ \A j \in DOMAIN inbox : Tells(j, f) => j <= i
      BY <1>5, <2>2 DEF Tracked, NewsOfPeer
    <3>2. CASE i = 1
      <4>1. \A j \in DOMAIN inbox' : ~Tells(j, f)'
        BY <1>1, <1>3, <3>1, <3>2
      <4>2. holder' # Cleared => t'.remote = holder'
        BY <3>1, <3>2
      <4> QED  BY <4>1, <4>2 DEF NewsOfPeer
    <3>3. CASE i # 1
      <4>1. PICK k \in DOMAIN inbox' : k = i - 1
        BY <1>1, <3>3
      <4>2. Tells(k, f)' /\ inbox'[k].from = holder'
        BY <1>1, <3>1, <3>3, <4>1 DEF Tells
      <4>3. \A j \in DOMAIN inbox' : Tells(j, f)' => j <= k
        BY <1>1, <1>3, <3>1, <4>1
      <4> QED  BY <4>2, <4>3 DEF NewsOfPeer
    <3> QED  BY <3>2, <3>3
  <2> QED  BY <2>1, <2>2
<1>6. \A i \in DOMAIN inbox' : Tells(i, f)' => /\ inbox'[i].from \in holders
                                               /\ f.name # Name => inbox'[i].from = f.name
  BY <1>3 DEF Tracked
<1> QED  BY <1>4, <1>5, <1>6 DEF Tracked

\* peer_state_cb: a transport that forgot its name has no tracker to be called
\* back by.
LEMMA PeerStateInv ==
    ASSUME TransportInv, PeerState
    PROVE  TransportInv'
<1> DEFINE e == Head(inbox)
           mine == {f \in follows : f.id \in e.to}
<1>1. /\ Running /\ life \in {"live", "freed"} /\ inbox # <<>> /\ e.kind = "state" /\ inbox' = Tail(inbox)
      /\ IF mine # {} /\ e.from # Cleared THEN PeerUp(e.from) ELSE t' = t /\ broken' = broken
      /\ UNCHANGED <<holder, shared, life, follows, nfollow, heard, holders, missed>>
  BY DEF PeerState
<1>2. TransportTypes
  BY DEF TransportInv
<1>3. /\ inbox' \in Seq(Events) /\ e = inbox[1] /\ e \in Events
      /\ \A i \in DOMAIN inbox' : i + 1 \in DOMAIN inbox /\ inbox'[i] = inbox[i + 1]
  BY <1>1, <1>2, InboxTaken
<1>4. \A f \in follows : Tells(1, f) <=> f \in mine
  BY <1>1, <1>3 DEF Tells
<1>5. \/ t' = t /\ broken' = broken /\ (mine = {} \/ e.from = Cleared)
      \/ mine # {} /\ t' = t /\ broken' # "none" /\ (life = "freed" \/ t.remote = Cleared)
      \/ /\ mine # {} /\ e.from # Cleared /\ life # "freed"
         /\ t' = [t EXCEPT !.remote = e.from, !.resolved = TRUE] /\ broken' = broken
  BY <1>1 DEF PeerUp
<1>6. mine \subseteq follows /\ e.from \in Peers \union {Cleared}
  BY <1>3 DEF Events
<1> HIDE DEF e, mine
<1>7. /\ t' \in [dbus : BOOLEAN, bound : BOOLEAN, connected : BOOLEAN, resolved : BOOLEAN,
                 remote : Addresses \union {Cleared}]
      /\ t'.connected = t.connected /\ t'.bound = t.bound
      /\ t' = t \/ (t'.remote = e.from /\ t'.resolved = TRUE)
  BY <1>2, <1>5, <1>6 DEF TransportTypes, Addresses
<1>8. TransportTypes'
  BY <1>1, <1>2, <1>3, <1>7 DEF TransportTypes
<1>9. Checked => Checked'
  BY <1>1, <1>7 DEF Checked
<1>10. ASSUME OneTracker, broken = "none"  PROVE OneTracker' /\ broken' = "none"
  <2>1. CASE ~Attached
    <3>1. mine = {} /\ t' = t /\ broken' = broken
      BY <1>5, <1>6, <1>10, <2>1 DEF OneTracker
    <3> QED  BY <1>1, <1>10, <2>1, <3>1 DEF OneTracker, Attached
  <2>2. CASE Attached
    <3>1. PICK f : follows = {f} /\ Tracked(f)
      BY <1>10, <2>2 DEF OneTracker
    <3>2. life = "live" /\ t.remote # Cleared
      BY <1>1, <1>2, <2>2, <3>1, TransportAssumption DEF Attached, Tracked, TransportTypes, Addresses
    <3>3. Tells(1, f) <=> mine # {}
      BY <1>4, <1>6, <3>1
    <3>4. Tracked(f)'
      <4>1. CASE t' = t /\ (mine = {} \/ e.from = Cleared)
        BY <1>1, <1>2, <1>3, <3>1, <3>3, <4>1, NewsTaken
      <4>2. CASE /\ mine # {} /\ e.from # Cleared
                 /\ t' = [t EXCEPT !.remote = e.from, !.resolved = TRUE]
        <5>1. t'.remote = e.from /\ t'.resolved = TRUE
          BY <1>2, <4>2 DEF TransportTypes
        <5> QED  BY <1>1, <1>2, <1>3, <3>1, <3>3, <4>2, <5>1, NewsTaken
      <4> QED  BY <1>5, <3>2, <4>1, <4>2
    <3>5. Attached' /\ broken' = "none"
      BY <1>1, <1>5, <1>7, <1>10, <2>2, <3>2 DEF Attached
    <3> QED  BY <1>1, <3>1, <3>4, <3>5 DEF OneTracker
  <2> QED  BY <2>1, <2>2
<1> QED  BY <1>1, <1>8, <1>9, <1>10 DEF TransportInv

\* dbus_msg_cb: a resolved connection looks who sends.
LEMMA MessageInv ==
    ASSUME TransportInv, Message
    PROVE  TransportInv'
<1> DEFINE e == Head(inbox)
<1>1. /\ life \in {"live", "freed"} /\ inbox # <<>> /\ e.kind = "msg" /\ inbox' = Tail(inbox)
      /\ IF Accepts(e.from)
         THEN heard' = [from |-> e.from, checked |-> t.connected /\ t.resolved] /\ life' = "busy"
         ELSE heard' = heard /\ life' = life
      /\ UNCHANGED <<holder, shared, t, follows, nfollow, holders, missed, broken>>
  BY DEF Message
<1>2. TransportTypes
  BY DEF TransportInv
<1>3. /\ inbox' \in Seq(Events) /\ e = inbox[1] /\ e \in Events
      /\ \A i \in DOMAIN inbox' : i + 1 \in DOMAIN inbox /\ inbox'[i] = inbox[i + 1]
  BY <1>1, <1>2, InboxTaken
<1>4. Accepts(e.from) => life = "live" /\ (t.connected /\ t.resolved => t.remote = e.from)
  BY <1>1, <1>2 DEF Accepts, TransportTypes
<1> HIDE DEF e
<1>5. TransportTypes'
  BY <1>1, <1>2, <1>3, <1>4 DEF TransportTypes
<1>6. \A f : Tracked(f) => Tracked(f)'
  <2>1. \A f : ~Tells(1, f)
    BY <1>1, <1>3 DEF Tells
  <2> QED  BY <1>1, <1>2, <2>1, NewsTaken
<1>7. OneTracker => OneTracker'
  BY <1>1, <1>4, <1>6 DEF OneTracker, Attached
<1>8. ASSUME OneTracker, Checked  PROVE Checked'
  <2>1. CASE Accepts(e.from) /\ t.connected /\ t.resolved
    <3>1. t.remote = e.from /\ Attached
      BY <1>4, <2>1 DEF Attached
    <3>2. t.remote \in holders
      BY <1>8, <2>1, <3>1 DEF OneTracker, Tracked
    <3> QED  BY <1>1, <2>1, <3>1, <3>2 DEF Checked
  <2>2. CASE Accepts(e.from) /\ ~(t.connected /\ t.resolved)
    <3>1. PICK c : c = (t.connected /\ t.resolved)
      OBVIOUS
    <3>2. heard' = [from |-> e.from, checked |-> c]
      BY <1>1, <2>2, <3>1
    <3>3. ~heard'.checked
      BY <2>2, <3>1, <3>2
    <3> QED  BY <3>3 DEF Checked
  <2>3. CASE ~Accepts(e.from)
    BY <1>1, <1>8, <2>3 DEF Checked
  <2> QED  BY <2>1, <2>2, <2>3
<1> QED  BY <1>1, <1>5, <1>7, <1>8 DEF TransportInv

\* Wherever the peer's name moves, and whatever the user does in callbacks: what
\* a resolved connection delivers comes from a connection that has had the
\* name, a quiet transport knows who has it, and one that is gone is not
\* called back, unless it forgot a name it did not follow.
THEOREM PeerAlwaysFollowed == TransportSpec => []PeerIsFollowed
<1>1. TransportInit => TransportInv
  BY TransportInitInv
<1>2. TransportInv /\ [TransportNext]_busTransportVars => TransportInv'
  <2>1. TransportInv /\ TransportNext => TransportInv'
    BY PeerMovesInv, PeerSendsInv, BindInv, ConnectInv, TransportDisconnectInv, DestroyInv, PeerStateInv,
       MessageInv, ReturnInv DEF TransportNext
  <2>2. TransportInv /\ UNCHANGED busTransportVars => TransportInv'
    BY DEF busTransportVars, TransportInv, TransportTypes, OneTracker, Attached, Tracked, Tells, NewsOfPeer,
           Checked
  <2> QED  BY <2>1, <2>2
<1>3. TransportInv => PeerIsFollowed
  <2> SUFFICES ASSUME TransportInv  PROVE PeerIsFollowed
    OBVIOUS
  <2>1. HeardFromPeer /\ ForgottenWithTransport
    BY DEF TransportInv, Checked, HeardFromPeer, ForgottenWithTransport
  <2>2. ASSUME t.connected, life = "live", inbox = <<>>, holder # Cleared, TrackersOf(Name) # {}, ~missed
        PROVE  t.remote = holder
    <3>1. PICK f : follows = {f} /\ Tracked(f)
      BY <2>2 DEF TransportInv, OneTracker, Attached
    <3>2. f.name = Name
      BY <2>2, <3>1 DEF TrackersOf
    <3>3. DOMAIN inbox = {}
      BY <2>2
    <3> QED  BY <2>2, <3>1, <3>2, <3>3 DEF Tracked, NewsOfPeer
  <2>3. FollowsPeer
    BY <2>2 DEF FollowsPeer
  <2> QED  BY <2>1, <2>3 DEF PeerIsFollowed
<1> QED  BY <1>1, <1>2, <1>3, PTL DEF TransportSpec

------------------------------------------------------------------------------
(* The handlers of methods and signals. *)

KnownHandlers == {[id |-> x, client |-> c, path |-> r.path, interface |-> r.interface,
                   member |-> r.member, arg |-> r.arg] : x \in Nat, c \in Subscribers, r \in Patterns}

\* More specific, or as specific and newer.
Before(g, h) == Score(g) > Score(h) \/ (Score(g) = Score(h) /\ g.id > h.id)

Ranked(chain) == \A i, j \in DOMAIN chain : i < j => Before(chain[i], chain[j])

\* The chains of a table, of handlers made so far.
ChainsSound(tbl, last) ==
    /\ tbl \in [DOMAIN tbl -> Seq(KnownHandlers)]
    /\ \A k \in DOMAIN tbl :
          /\ Ranked(tbl[k])
          /\ \A h \in ToSet(tbl[k]) : h.id \in 1 .. last /\ h.member = k

HandlersInOrder ==
    /\ made \in Nat
    /\ ChainsSound(methods, made) /\ ChainsSound(signals, made)
    /\ \A k \in DOMAIN signals : signals[k] # NoChain
    /\ \A g, h \in Subscribed : g.id = h.id => g = h

RulesCounted ==
    /\ installed \in [Patterns -> Nat]
    /\ IsFiniteSet(Subscribed)
    /\ RulesBalanced

Visits == [msg : Requests \union {Quiet.msg}, key : {m.member : m \in Requests} \union {AnyName},
           p : Nat, n : Nat, called : Seq(Nat), due : SUBSET Nat,
           st : {"quiet", "walk", "calling", "end"}]

Cursor == IF visit.st = "walk" THEN visit.p ELSE visit.n

\* The walk has yet to come to the handler h.
Coming(h) ==
    /\ visit.st \in {"walk", "calling"}
    /\ \/ h.member = visit.key /\ \E g \in Subscribed : g.member = visit.key /\ g.id = Cursor /\ ~Before(h, g)
       \/ visit.key # AnyName /\ h.member = AnyName

NotCalled(x) == \A j \in DOMAIN visit.called : visit.called[j] # x
CalledOnce(x) == \E j \in DOMAIN visit.called : \A i \in DOMAIN visit.called : visit.called[i] = x <=> i = j

OnChain(x) == x = 0 \/ \E g \in Subscribed : g.member = visit.key /\ g.id = x

WalkSound ==
    /\ visit.key \in {visit.msg.member, AnyName}
    /\ \A x \in visit.due : \E h \in Subscribed : h.id = x
    /\ \A h \in Subscribed : h.id \in visit.due =>
          Matches(h, visit.msg) /\ IF Coming(h) THEN NotCalled(h.id) ELSE CalledOnce(h.id)
    /\ visit.st = "walk" => OnChain(visit.p) /\ visit.n = Next1(Chain(signals, visit.key), visit.p)
    /\ visit.st = "calling" => OnChain(visit.n) /\ visit.n # visit.p

SignalsVisit ==
    /\ visit \in Visits
    /\ IF visit.st = "quiet" THEN visit = Quiet ELSE WalkSound

HandlersInv == HandlersInOrder /\ RulesCounted /\ SignalsVisit

------------------------------------------------------------------------------
LEMMA KnownFacts ==
    ASSUME NEW h \in KnownHandlers
    PROVE  h.id \in Nat /\ h.client \in Subscribers /\ Pattern(h) \in Patterns /\ Score(h) \in Nat
<1>1. PICK x \in Nat, c \in Subscribers, r \in Patterns :
         h = [id |-> x, client |-> c, path |-> r.path, interface |-> r.interface,
              member |-> r.member, arg |-> r.arg]
  BY DEF KnownHandlers
<1>2. PICK n \in HandlerNames, a \in BOOLEAN :
         r = [path |-> n.path, interface |-> n.interface, member |-> n.member, arg |-> a]
  BY DEF Patterns
<1>3. Pattern(h) = r
  BY <1>1, <1>2 DEF Pattern
<1> QED  BY <1>1, <1>3 DEF Score

\* The handler that is made next.
LEMMA HandlerFacts ==
    ASSUME NEW c \in Subscribers, NEW r \in Patterns, made \in Nat
    PROVE  /\ Handler(c, r) \in KnownHandlers /\ Handler(c, r).id = made + 1
           /\ Handler(c, r).client = c /\ Handler(c, r).path = r.path
           /\ Handler(c, r).interface = r.interface /\ Handler(c, r).member = r.member
           /\ Pattern(Handler(c, r)) = r
<1>1. PICK n \in HandlerNames, a \in BOOLEAN :
         r = [path |-> n.path, interface |-> n.interface, member |-> n.member, arg |-> a]
  BY DEF Patterns
<1>2. made + 1 \in Nat
  OBVIOUS
<1>3. Handler(c, r) = [id |-> made + 1, client |-> c, path |-> r.path, interface |-> r.interface,
                       member |-> r.member, arg |-> r.arg]
  BY DEF Handler
<1>4. Handler(c, r) \in KnownHandlers
  BY <1>2, <1>3 DEF KnownHandlers
<1> HIDE DEF KnownHandlers
<1>5. Pattern(Handler(c, r)) = r
  BY <1>1, <1>3 DEF Pattern
<1>6. /\ Handler(c, r).id = made + 1 /\ Handler(c, r).client = c /\ Handler(c, r).path = r.path
      /\ Handler(c, r).interface = r.interface /\ Handler(c, r).member = r.member
  BY <1>3
<1> QED  BY <1>4, <1>5, <1>6

\* Before orders handlers with different numbers.
LEMMA BeforeFacts ==
    ASSUME NEW g \in KnownHandlers, NEW h \in KnownHandlers, NEW i \in KnownHandlers
    PROVE  /\ Before(g, h) => ~Before(h, g) /\ g # h
           /\ g.id # h.id => Before(g, h) \/ Before(h, g)
           /\ Before(g, h) /\ Before(h, i) => Before(g, i)
<1>1. /\ g.id \in Nat /\ h.id \in Nat /\ i.id \in Nat
      /\ Score(g) \in Nat /\ Score(h) \in Nat /\ Score(i) \in Nat
  BY KnownFacts
<1> QED  BY <1>1 DEF Before

LEMMA FirstFacts ==
    ASSUME NEW S, S \subseteq Nat, S # {}
    PROVE  FirstOf(S) \in S /\ \A k \in S : FirstOf(S) <= k
BY NatMinimum DEF FirstOf

LEMMA RankedInjective ==
    ASSUME NEW chain \in Seq(KnownHandlers), Ranked(chain)
    PROVE  IsInjective(chain)
<1>1. Len(chain) \in Nat /\ DOMAIN chain = 1 .. Len(chain) /\ \A i \in 1 .. Len(chain) : chain[i] \in KnownHandlers
  BY LenProperties, ElementOfSeq
<1>2. ASSUME NEW i \in DOMAIN chain, NEW j \in DOMAIN chain, chain[i] = chain[j], i < j  PROVE FALSE
  BY <1>1, <1>2, BeforeFacts DEF Ranked
<1> QED  BY <1>1, <1>2 DEF IsInjective

\* handler_list_insert keeps the order of a chain when the handler is new.
LEMMA InsertFacts ==
    ASSUME NEW chain \in Seq(KnownHandlers), Ranked(chain), NEW h \in KnownHandlers,
           \A g \in ToSet(chain) : g.id < h.id
    PROVE  \E k \in 1 .. Len(chain) + 1 :
              /\ Insert(chain, h) = InsertAt(chain, k, h)
              /\ \A i \in 1 .. Len(chain) : i < k => Score(chain[i]) > Score(h)
              /\ Insert(chain, h) \in Seq(KnownHandlers)
              /\ Ranked(Insert(chain, h))
              /\ ToSet(Insert(chain, h)) = ToSet(chain) \union {h}
              /\ Insert(chain, h) # NoChain
              /\ DOMAIN Insert(chain, h) = 1 .. Len(chain) + 1
              /\ \A i \in 1 .. Len(chain) + 1 :
                    Insert(chain, h)[i] = IF i < k THEN chain[i] ELSE IF i = k THEN h ELSE chain[i - 1]
<1> DEFINE below == {j \in DOMAIN chain : Score(h) >= Score(chain[j])}
           k == IF below = {} THEN Len(chain) + 1 ELSE FirstOf(below)
           r == InsertAt(chain, k, h)
<1>1. /\ Len(chain) \in Nat /\ DOMAIN chain = 1 .. Len(chain)
      /\ \A i \in 1 .. Len(chain) : /\ chain[i] \in KnownHandlers /\ Score(chain[i]) \in Nat
                                    /\ chain[i].id \in Nat /\ chain[i].id < h.id
      /\ Score(h) \in Nat /\ h.id \in Nat
  <2>1. Len(chain) \in Nat /\ DOMAIN chain = 1 .. Len(chain) /\ \A i \in 1 .. Len(chain) : chain[i] \in KnownHandlers
    BY LenProperties, ElementOfSeq
  <2>2. \A i \in 1 .. Len(chain) : chain[i].id < h.id
    BY <2>1 DEF ToSet
  <2> QED  BY <2>1, <2>2, KnownFacts
<1>2. /\ k \in 1 .. Len(chain) + 1
      /\ \A i \in 1 .. Len(chain) : i < k => Score(chain[i]) > Score(h)
      /\ k <= Len(chain) => Score(h) >= Score(chain[k])
  <2>1. CASE below = {}
    BY <1>1, <2>1
  <2>2. CASE below # {}
    <3>1. below \subseteq Nat /\ k = FirstOf(below)
      BY <1>1, <2>2
    <3>2. k \in below /\ \A j \in below : k <= j
      BY <2>2, <3>1, FirstFacts
    <3> HIDE DEF k
    <3>3. k \in 1 .. Len(chain) /\ Score(h) >= Score(chain[k])
      BY <1>1, <3>2
    <3>4. ASSUME NEW i \in 1 .. Len(chain), i < k  PROVE Score(chain[i]) > Score(h)
      <4>1. i \notin below
        BY <1>1, <3>2, <3>3, <3>4
      <4> QED  BY <1>1, <4>1
    <3> QED  BY <1>1, <3>3, <3>4
  <2> QED  BY <2>1, <2>2
<1>3. Insert(chain, h) = r
  BY DEF Insert
<1> HIDE DEF k
<1>4. /\ r \in Seq(KnownHandlers) /\ Len(r) = Len(chain) + 1 /\ DOMAIN r = 1 .. Len(chain) + 1
      /\ \A i \in 1 .. Len(chain) + 1 : r[i] = IF i < k THEN chain[i] ELSE IF i = k THEN h ELSE chain[i - 1]
  BY <1>1, <1>2, InsertAtFacts, LenProperties
<1>5. Ranked(r)
  <2> SUFFICES ASSUME NEW i \in DOMAIN r, NEW j \in DOMAIN r, i < j  PROVE Before(r[i], r[j])
    BY DEF Ranked
  <2> HIDE DEF r
  <2>1. CASE j < k
    BY <1>1, <1>2, <1>4, <2>1 DEF Ranked
  <2>2. CASE j = k
    <3>1. i \in 1 .. Len(chain) /\ i < k /\ r[i] = chain[i] /\ r[j] = h
      BY <1>1, <1>2, <1>4, <2>2
    <3> QED  BY <1>2, <3>1 DEF Before
  <2>3. CASE j > k /\ i < k
    <3>1. j - 1 \in 1 .. Len(chain) /\ i \in 1 .. Len(chain) /\ i < j - 1 /\ r[i] = chain[i] /\ r[j] = chain[j - 1]
      BY <1>1, <1>2, <1>4, <2>3
    <3> QED  BY <1>1, <3>1 DEF Ranked
  <2>4. CASE j > k /\ i = k
    <3>1. j - 1 \in 1 .. Len(chain) /\ k \in 1 .. Len(chain) /\ k <= j - 1 /\ r[i] = h /\ r[j] = chain[j - 1]
      BY <1>1, <1>2, <1>4, <2>4
    <3>2. Score(chain[k]) >= Score(chain[j - 1])
      <4>1. CASE k = j - 1
        BY <1>1, <3>1, <4>1
      <4>2. CASE k < j - 1
        <5>1. Before(chain[k], chain[j - 1])
          BY <1>1, <3>1, <4>2 DEF Ranked
        <5> QED  BY <1>1, <3>1, <5>1 DEF Before
      <4> QED  BY <1>1, <3>1, <4>1, <4>2
    <3>3. Score(h) >= Score(chain[j - 1]) /\ chain[j - 1].id < h.id
      BY <1>1, <1>2, <3>1, <3>2
    <3> QED  BY <1>1, <3>1, <3>3 DEF Before
  <2>5. CASE j > k /\ i > k
    <3>1. /\ j - 1 \in 1 .. Len(chain) /\ i - 1 \in 1 .. Len(chain) /\ i - 1 < j - 1
          /\ r[i] = chain[i - 1] /\ r[j] = chain[j - 1]
      BY <1>1, <1>2, <1>4, <2>5
    <3> QED  BY <1>1, <3>1 DEF Ranked
  <2> QED  BY <1>1, <1>2, <1>4, <2>1, <2>2, <2>3, <2>4, <2>5
<1>6. ToSet(r) = ToSet(chain) \union {h}
  <2> HIDE DEF r
  <2>1. ASSUME NEW i \in 1 .. Len(chain) + 1  PROVE r[i] \in ToSet(chain) \union {h}
    <3>1. CASE i < k
      BY <1>1, <1>2, <1>4, <3>1 DEF ToSet
    <3>2. CASE i = k
      BY <1>4, <3>2
    <3>3. CASE i > k
      <4>1. i - 1 \in DOMAIN chain /\ r[i] = chain[i - 1]
        BY <1>1, <1>2, <1>4, <3>3
      <4> QED  BY <4>1 DEF ToSet
    <3> QED  BY <1>2, <3>1, <3>2, <3>3
  <2>2. h \in ToSet(r)
    BY <1>2, <1>4 DEF ToSet
  <2>3. ASSUME NEW i \in 1 .. Len(chain)  PROVE chain[i] \in ToSet(r)
    <3>1. CASE i < k
      <4>1. i \in DOMAIN r /\ r[i] = chain[i]
        BY <1>1, <1>2, <1>4, <3>1
      <4> QED  BY <4>1 DEF ToSet
    <3>2. CASE i >= k
      <4>1. i + 1 \in DOMAIN r /\ r[i + 1] = chain[i]
        BY <1>1, <1>2, <1>4, <3>2
      <4> QED  BY <4>1 DEF ToSet
    <3> QED  BY <1>2, <3>1, <3>2
  <2> QED  BY <1>1, <1>4, <2>1, <2>2, <2>3 DEF ToSet
<1>7. r # NoChain
  <2>1. Len(r) # 0
    BY <1>1, <1>4
  <2> QED  BY <2>1 DEF NoChain
<1> QED  BY <1>2, <1>3, <1>4, <1>5, <1>6, <1>7

\* Taking a handler off keeps the order of the others.
LEMMA RemoveFacts ==
    ASSUME NEW chain \in Seq(KnownHandlers), Ranked(chain), NEW k \in DOMAIN chain
    PROVE  /\ RemoveAt(chain, k) \in Seq(KnownHandlers)
           /\ Ranked(RemoveAt(chain, k))
           /\ ToSet(RemoveAt(chain, k)) = ToSet(chain) \ {chain[k]}
<1> DEFINE r == RemoveAt(chain, k)
<1>1. Len(chain) \in Nat /\ DOMAIN chain = 1 .. Len(chain)
  BY LenProperties
<1>2. IsInjective(chain)
  BY RankedInjective
<1>3. /\ r \in Seq(KnownHandlers) /\ ToSet(r) = ToSet(chain) \ {chain[k]} /\ DOMAIN r = 1 .. Len(chain) - 1
      /\ \A i \in 1 .. Len(chain) - 1 : r[i] = IF i < k THEN chain[i] ELSE chain[i + 1]
  <2>1. k \in 1 .. Len(chain)
    BY <1>1
  <2>2. /\ r \in Seq(KnownHandlers) /\ ToSet(r) = ToSet(chain) \ {chain[k]} /\ Len(r) = Len(chain) - 1
        /\ \A i \in 1 .. Len(chain) - 1 : r[i] = IF i < k THEN chain[i] ELSE chain[i + 1]
    BY <1>2, <2>1, RemoveAtFacts
  <2> HIDE DEF r
  <2> QED  BY <2>2, LenProperties
<1> HIDE DEF r
<1>4. Ranked(r)
  <2> SUFFICES ASSUME NEW i \in 1 .. Len(chain) - 1, NEW j \in 1 .. Len(chain) - 1, i < j  PROVE Before(r[i], r[j])
    BY <1>3 DEF Ranked
  <2> DEFINE at(x) == IF x < k THEN x ELSE x + 1
  <2>1. \A x \in 1 .. Len(chain) - 1 : at(x) \in DOMAIN chain /\ r[x] = chain[at(x)]
    BY <1>1, <1>3
  <2>2. at(i) < at(j)
    BY <1>1
  <2> HIDE DEF at
  <2> QED  BY <2>1, <2>2 DEF Ranked
<1> QED  BY <1>3, <1>4 DEF r

-----------------------------------------------------------------------------
\* Looking a member up in a table of chains.
LEMMA ChainFacts ==
    ASSUME NEW tbl, NEW last \in Nat, ChainsSound(tbl, last), NEW key
    PROVE  /\ Chain(tbl, key) \in Seq(KnownHandlers) /\ Ranked(Chain(tbl, key))
           /\ ToSet(Chain(tbl, key)) = {h \in Contents(tbl) : h.member = key}
           /\ \A h \in ToSet(Chain(tbl, key)) : h \in KnownHandlers /\ h.id \in 1 .. last /\ h.member = key
<1> DEFINE chain == Chain(tbl, key)
<1>1. CASE key \in DOMAIN tbl
  <2>1. chain = tbl[key]
    BY <1>1 DEF Chain
  <2> HIDE DEF chain
  <2>2. chain \in Seq(KnownHandlers) /\ Ranked(chain) /\ \A h \in ToSet(chain) : h.id \in 1 .. last /\ h.member = key
    BY <1>1, <2>1 DEF ChainsSound
  <2>3. \A h \in ToSet(chain) : h \in KnownHandlers
    <3>1. \A i \in DOMAIN chain : chain[i] \in KnownHandlers
      BY <2>2, LenProperties, ElementOfSeq
    <3> QED  BY <3>1 DEF ToSet
  <2>4. ToSet(chain) = {h \in Contents(tbl) : h.member = key}
    <3>1. \A h \in ToSet(chain) : h \in Contents(tbl) /\ h.member = key
      BY <1>1, <2>1, <2>2 DEF Contents
    <3>2. ASSUME NEW h \in Contents(tbl), h.member = key  PROVE h \in ToSet(chain)
      <4>1. PICK k \in DOMAIN tbl : h \in ToSet(tbl[k])
        BY DEF Contents
      <4>2. k = key
        BY <3>2, <4>1 DEF ChainsSound
      <4> QED  BY <2>1, <4>1, <4>2
    <3> QED  BY <3>1, <3>2
  <2> QED  BY <2>2, <2>3, <2>4 DEF chain
<1>2. CASE key \notin DOMAIN tbl
  <2>1. chain = <<>>
    BY <1>2 DEF Chain, NoChain
  <2> HIDE DEF chain
  <2>2. chain \in Seq(KnownHandlers) /\ ToSet(chain) = {} /\ Ranked(chain)
    BY <2>1 DEF ToSet, Ranked
  <2>3. ASSUME NEW h \in Contents(tbl), h.member = key  PROVE FALSE
    BY <1>2, <2>3 DEF Contents, ChainsSound
  <2> QED  BY <2>2, <2>3 DEF chain
<1> QED  BY <1>1, <1>2

\* The handlers of a table are known, and numbered by those made.
LEMMA ContentsFacts ==
    ASSUME NEW tbl, NEW last \in Nat, ChainsSound(tbl, last)
    PROVE  \A h \in Contents(tbl) : h \in KnownHandlers /\ h.id \in 1 .. last
<1> SUFFICES ASSUME NEW h \in Contents(tbl)  PROVE h \in KnownHandlers /\ h.id \in 1 .. last
  OBVIOUS
<1>1. PICK k \in DOMAIN tbl : h \in ToSet(tbl[k])
  BY DEF Contents
<1>2. Chain(tbl, k) = tbl[k]
  BY DEF Chain
<1> QED  BY <1>1, <1>2, ChainFacts

LEMMA EmptyTable ==
    ASSUME NEW last \in Nat
    PROVE  ChainsSound(<<>>, last) /\ Contents(<<>>) = {}
<1>1. DOMAIN <<>> = {}
  OBVIOUS
<1>2. <<>> \in [DOMAIN <<>> -> Seq(KnownHandlers)]
  <2>1. <<>> = [k \in {} |-> k]
    OBVIOUS
  <2> QED  BY <1>1, <2>1
<1> QED  BY <1>1, <1>2 DEF ChainsSound, Contents

LEMMA MoreMade ==
    ASSUME NEW tbl, NEW last \in Nat, ChainsSound(tbl, last)
    PROVE  ChainsSound(tbl, last + 1)
<1>1. 1 .. last \subseteq 1 .. (last + 1)
  OBVIOUS
<1> QED  BY <1>1 DEF ChainsSound

\* Putting a chain into a table, and taking one out of it.
LEMMA WithFacts ==
    ASSUME NEW tbl, NEW last \in Nat, ChainsSound(tbl, last), NEW key, NEW chain \in Seq(KnownHandlers),
           Ranked(chain), \A h \in ToSet(chain) : h.id \in 1 .. last /\ h.member = key
    PROVE  /\ ChainsSound(With(tbl, key, chain), last)
           /\ Contents(With(tbl, key, chain)) = {h \in Contents(tbl) : h.member # key} \union ToSet(chain)
           /\ key \in DOMAIN With(tbl, key, chain) /\ With(tbl, key, chain)[key] = chain
<1> DEFINE w == With(tbl, key, chain)
<1>1. /\ DOMAIN w = DOMAIN tbl \union {key} /\ w[key] = chain
      /\ \A k \in DOMAIN tbl : k # key => w[k] = tbl[k]
      /\ w = [k \in DOMAIN w |-> w[k]]
  BY DEF With
<1> HIDE DEF w
<1>2. \A k \in DOMAIN w : w[k] \in Seq(KnownHandlers) /\ Ranked(w[k]) /\ \A h \in ToSet(w[k]) : h.id \in 1 .. last /\ h.member = k
  BY <1>1 DEF ChainsSound
<1>3. ChainsSound(w, last)
  <2>1. w \in [DOMAIN w -> Seq(KnownHandlers)]
    BY <1>1, <1>2
  <2> QED  BY <1>2, <2>1 DEF ChainsSound
<1>4. Contents(w) = {h \in Contents(tbl) : h.member # key} \union ToSet(chain)
  <2>1. ASSUME NEW k \in DOMAIN w, NEW h \in ToSet(w[k])
        PROVE  h \in {g \in Contents(tbl) : g.member # key} \union ToSet(chain)
    BY <1>1, <1>2 DEF Contents
  <2>2. ASSUME NEW h \in Contents(tbl), h.member # key  PROVE h \in Contents(w)
    <3>1. PICK k \in DOMAIN tbl : h \in ToSet(tbl[k])
      BY DEF Contents
    <3>2. k # key
      BY <2>2, <3>1 DEF ChainsSound
    <3> QED  BY <1>1, <3>1, <3>2 DEF Contents
  <2>3. ToSet(chain) \subseteq Contents(w)
    BY <1>1 DEF Contents
  <2> QED  BY <2>1, <2>2, <2>3 DEF Contents
<1> QED  BY <1>1, <1>3, <1>4 DEF w

LEMMA WithoutChain ==
    ASSUME NEW tbl, NEW last \in Nat, ChainsSound(tbl, last), NEW key
    PROVE  /\ ChainsSound(Without(tbl, key), last)
           /\ Contents(Without(tbl, key)) = {h \in Contents(tbl) : h.member # key}
<1> DEFINE w == Without(tbl, key)
<1>1. /\ DOMAIN w = DOMAIN tbl \ {key}
      /\ \A k \in DOMAIN w : w[k] = tbl[k]
      /\ w = [k \in DOMAIN w |-> w[k]]
  BY DEF Without
<1> HIDE DEF w
<1>2. ChainsSound(w, last)
  <2>1. \A k \in DOMAIN w : k \in DOMAIN tbl /\ w[k] = tbl[k] /\ w[k] \in Seq(KnownHandlers)
    BY <1>1 DEF ChainsSound
  <2>2. w \in [DOMAIN w -> Seq(KnownHandlers)]
    BY <1>1, <2>1
  <2> QED  BY <2>1, <2>2 DEF ChainsSound
<1>3. Contents(w) = {h \in Contents(tbl) : h.member # key}
  <2>1. ASSUME NEW k \in DOMAIN w, NEW h \in ToSet(w[k])  PROVE h \in Contents(tbl) /\ h.member # key
    BY <1>1 DEF Contents, ChainsSound
  <2>2. ASSUME NEW h \in Contents(tbl), h.member # key  PROVE h \in Contents(w)
    <3>1. PICK k \in DOMAIN tbl : h \in ToSet(tbl[k])
      BY DEF Contents
    <3>2. k # key
      BY <2>2, <3>1 DEF ChainsSound
    <3> QED  BY <1>1, <3>1, <3>2 DEF Contents
  <2> QED  BY <2>1, <2>2 DEF Contents
<1> QED  BY <1>2, <1>3 DEF w

\* Adding a new handler to the chain of its member.
LEMMA AddFacts ==
    ASSUME NEW tbl, NEW last \in Nat, ChainsSound(tbl, last), NEW h \in KnownHandlers, h.id = last + 1
    PROVE  LET new == With(tbl, h.member, Insert(Chain(tbl, h.member), h))
           IN  /\ ChainsSound(new, last + 1)
               /\ Contents(new) = Contents(tbl) \union {h}
               /\ h \notin Contents(tbl)
               /\ (\A k \in DOMAIN tbl : tbl[k] # NoChain) => \A k \in DOMAIN new : new[k] # NoChain
<1> DEFINE chain == Chain(tbl, h.member)
           more == Insert(chain, h)
           new == With(tbl, h.member, more)
<1>1. /\ chain \in Seq(KnownHandlers) /\ Ranked(chain)
      /\ ToSet(chain) = {g \in Contents(tbl) : g.member = h.member}
      /\ \A g \in ToSet(chain) : g \in KnownHandlers /\ g.id \in 1 .. last /\ g.member = h.member
  BY ChainFacts
<1> HIDE DEF chain
<1>2. \A g \in ToSet(chain) : g.id < h.id
  BY <1>1
<1>3. more \in Seq(KnownHandlers) /\ Ranked(more) /\ ToSet(more) = ToSet(chain) \union {h} /\ more # NoChain
  BY <1>1, <1>2, InsertFacts
<1> HIDE DEF more
<1>4. ChainsSound(tbl, last + 1)
  BY MoreMade
<1>5. \A g \in ToSet(more) : g.id \in 1 .. (last + 1) /\ g.member = h.member
  <2>1. h.id \in 1 .. (last + 1) /\ 1 .. last \subseteq 1 .. (last + 1)
    OBVIOUS
  <2> QED  BY <1>1, <1>3, <2>1
<1>6. /\ ChainsSound(new, last + 1)
      /\ Contents(new) = {g \in Contents(tbl) : g.member # h.member} \union ToSet(more)
      /\ new[h.member] = more
  <2>1. last + 1 \in Nat
    OBVIOUS
  <2> QED  BY <1>3, <1>4, <1>5, <2>1, WithFacts
<1>7. Contents(new) = Contents(tbl) \union {h}
  BY <1>1, <1>3, <1>6
<1>8. h \notin Contents(tbl)
  <2>1. \A g \in Contents(tbl) : g.id \in 1 .. last
    BY ContentsFacts
  <2> QED  BY <2>1
<1>9. (\A k \in DOMAIN tbl : tbl[k] # NoChain) => \A k \in DOMAIN new : new[k] # NoChain
  BY <1>3 DEF With
<1> QED  BY <1>6, <1>7, <1>8, <1>9 DEF new, more, chain

\* The place handler_list_lookup ends at.
LEMMA LookupFacts ==
    ASSUME NEW chain \in Seq(KnownHandlers), NEW c, NEW r, Lookup(chain, c, r) # {}
    PROVE  LET k == FirstOf(Lookup(chain, c, r))
           IN  /\ k \in DOMAIN chain /\ chain[k] \in ToSet(chain)
               /\ chain[k].client = c /\ chain[k].path = r.path
               /\ chain[k].interface = r.interface /\ chain[k].member = r.member
               /\ \A j \in Lookup(chain, c, r) : k <= j
<1>1. Lookup(chain, c, r) \subseteq DOMAIN chain /\ DOMAIN chain \subseteq Nat
  BY LenProperties DEF Lookup
<1>2. /\ FirstOf(Lookup(chain, c, r)) \in Lookup(chain, c, r)
      /\ \A j \in Lookup(chain, c, r) : FirstOf(Lookup(chain, c, r)) <= j
  BY <1>1, FirstFacts
<1> QED  BY <1>2 DEF Lookup, ToSet

\* Taking a handler off the chain of its member, and the chain with its last.
LEMMA DelFacts ==
    ASSUME NEW tbl, NEW last \in Nat, ChainsSound(tbl, last), NEW c, NEW r,
           Lookup(Chain(tbl, r.member), c, r) # {}
    PROVE  LET new == DelSignalHandler(tbl, c, r)
               h == tbl[r.member][FirstOf(Lookup(Chain(tbl, r.member), c, r))]
           IN  /\ ChainsSound(new, last)
               /\ h \in Contents(tbl) /\ h.client = c /\ h.path = r.path
               /\ h.interface = r.interface /\ h.member = r.member
               /\ Contents(new) = Contents(tbl) \ {h}
               /\ (\A k \in DOMAIN tbl : tbl[k] # NoChain) => \A k \in DOMAIN new : new[k] # NoChain
<1> DEFINE chain == Chain(tbl, r.member)
           mine == Lookup(chain, c, r)
           k == FirstOf(mine)
           left == RemoveAt(chain, k)
           new == DelSignalHandler(tbl, c, r)
           h == chain[k]
<1>1. /\ chain \in Seq(KnownHandlers) /\ Ranked(chain)
      /\ ToSet(chain) = {g \in Contents(tbl) : g.member = r.member}
      /\ \A g \in ToSet(chain) : g \in KnownHandlers /\ g.id \in 1 .. last /\ g.member = r.member
  BY ChainFacts
<1>2. k \in DOMAIN chain
  <2> HIDE DEF chain
  <2> QED  BY <1>1, LookupFacts DEF chain
<1>3. r.member \in DOMAIN tbl /\ chain = tbl[r.member]
  <2>1. chain # <<>>
    <3> HIDE DEF chain, k
    <3> QED  BY <1>2
  <2> QED  BY <2>1 DEF Chain, NoChain
<1>4. /\ h \in ToSet(chain) /\ h.client = c /\ h.path = r.path /\ h.interface = r.interface /\ h.member = r.member
  <2> HIDE DEF chain
  <2> QED  BY <1>1, LookupFacts DEF chain
<1>5. new = IF left = <<>> THEN Without(tbl, r.member) ELSE With(tbl, r.member, left)
  BY <1>3 DEF DelSignalHandler
<1> HIDE DEF chain, k, mine
<1>6. left \in Seq(KnownHandlers) /\ Ranked(left) /\ ToSet(left) = ToSet(chain) \ {h}
  BY <1>1, <1>2, RemoveFacts
<1> HIDE DEF left, new, h
<1>7. /\ ChainsSound(new, last) /\ Contents(new) = Contents(tbl) \ {h}
      /\ (\A m \in DOMAIN tbl : tbl[m] # NoChain) => \A m \in DOMAIN new : new[m] # NoChain
  <2>1. CASE left = <<>>
    <3>1. new = Without(tbl, r.member) /\ ToSet(chain) \ {h} = {}
      BY <1>5, <1>6, <2>1 DEF ToSet
    <3>2. ChainsSound(new, last) /\ Contents(new) = {g \in Contents(tbl) : g.member # r.member}
      BY <3>1, WithoutChain
    <3>3. (\A m \in DOMAIN tbl : tbl[m] # NoChain) => \A m \in DOMAIN new : new[m] # NoChain
      BY <3>1 DEF Without
    <3> QED  BY <1>1, <1>4, <3>1, <3>2, <3>3
  <2>2. CASE left # <<>>
    <3>1. new = With(tbl, r.member, left)
      BY <1>5, <2>2
    <3>2. \A g \in ToSet(left) : g.id \in 1 .. last /\ g.member = r.member
      BY <1>1, <1>6
    <3>3. ChainsSound(new, last) /\ Contents(new) = {g \in Contents(tbl) : g.member # r.member} \union ToSet(left)
      BY <1>6, <3>1, <3>2, WithFacts
    <3>4. (\A m \in DOMAIN tbl : tbl[m] # NoChain) => \A m \in DOMAIN new : new[m] # NoChain
      BY <2>2, <3>1 DEF With, NoChain
    <3> QED  BY <1>1, <1>4, <1>6, <3>3, <3>4
  <2> QED  BY <2>1, <2>2
<1>8. h \in Contents(tbl)
  BY <1>1, <1>4
<1>9. h = tbl[r.member][FirstOf(Lookup(Chain(tbl, r.member), c, r))]
  BY <1>3 DEF h, k, mine, chain
<1> QED  BY <1>4, <1>7, <1>8, <1>9 DEF new

\* A subscription whose rule the bus refuses leaves the chains as they were:
\* the handler looked up is the one that was just put in.
LEMMA AddDelFacts ==
    ASSUME NEW tbl, NEW last \in Nat, ChainsSound(tbl, last), \A k \in DOMAIN tbl : tbl[k] # NoChain,
           NEW h \in KnownHandlers, h.id = last + 1, NEW c, NEW r,
           h.client = c, h.path = r.path, h.interface = r.interface, h.member = r.member
    PROVE  DelSignalHandler(With(tbl, h.member, Insert(Chain(tbl, h.member), h)), c, r) = tbl
<1> DEFINE chain == Chain(tbl, h.member)
           more == Insert(chain, h)
           new == With(tbl, h.member, more)
           mine == Lookup(more, c, r)
<1>1. /\ chain \in Seq(KnownHandlers) /\ Ranked(chain)
      /\ \A g \in ToSet(chain) : g \in KnownHandlers /\ g.id \in 1 .. last
  BY ChainFacts
<1>2. /\ h.member \in DOMAIN tbl => chain = tbl[h.member] /\ chain # <<>>
      /\ h.member \notin DOMAIN tbl => chain = <<>>
  BY DEF Chain, NoChain
<1> HIDE DEF chain
<1>3. \A g \in ToSet(chain) : g.id < h.id
  BY <1>1
<1>4. PICK k \in 1 .. Len(chain) + 1 :
          /\ more = InsertAt(chain, k, h)
          /\ \A i \in 1 .. Len(chain) : i < k => Score(chain[i]) > Score(h)
          /\ more \in Seq(KnownHandlers)
          /\ DOMAIN more = 1 .. Len(chain) + 1
          /\ \A i \in 1 .. Len(chain) + 1 : more[i] = IF i < k THEN chain[i] ELSE IF i = k THEN h ELSE chain[i - 1]
  BY <1>1, <1>3, InsertFacts
<1>5. /\ Len(chain) \in Nat /\ DOMAIN more = 1 .. Len(chain) + 1
      /\ \A i \in 1 .. Len(chain) + 1 : more[i] = IF i < k THEN chain[i] ELSE IF i = k THEN h ELSE chain[i - 1]
  BY <1>1, <1>4, LenProperties
<1> HIDE DEF more
<1>6. k \in mine /\ \A j \in mine : k <= j
  <2>1. k \in DOMAIN more /\ more[k] = h
    BY <1>4, <1>5
  <2>2. k \in mine
    BY <2>1 DEF Lookup
  <2>3. ASSUME NEW j \in mine, j < k  PROVE FALSE
    <3>1. j \in 1 .. Len(chain) /\ more[j] = chain[j]
      BY <1>4, <1>5, <2>3 DEF Lookup
    <3>2. more[j].path = h.path /\ more[j].interface = h.interface /\ more[j].member = h.member
      BY DEF Lookup
    <3>3. Score(chain[j]) = Score(h)
      BY <3>1, <3>2 DEF Score
    <3>4. Score(h) \in Nat
      BY KnownFacts
    <3> QED  BY <1>4, <2>3, <3>1, <3>3, <3>4
  <2>4. mine \subseteq Nat
    BY <1>5 DEF Lookup
  <2> QED  BY <1>4, <2>2, <2>3, <2>4
<1>7. FirstOf(mine) = k
  <2>1. mine \subseteq Nat /\ mine # {}
    <3>1. mine \subseteq Nat
      BY <1>5 DEF Lookup
    <3> HIDE DEF mine
    <3> QED  BY <1>6, <3>1
  <2> HIDE DEF mine
  <2>2. FirstOf(mine) \in mine /\ \A j \in mine : FirstOf(mine) <= j
    BY <2>1, FirstFacts
  <2>3. FirstOf(mine) \in Nat /\ k \in Nat /\ FirstOf(mine) <= k /\ k <= FirstOf(mine)
    BY <1>6, <2>1, <2>2
  <2> QED  BY <2>3
<1>8. RemoveAt(more, k) = chain
  BY <1>1, <1>4, InsertRemove
<1>9. h.member \in DOMAIN new /\ new[h.member] = more /\ Chain(new, r.member) = more
  BY DEF With, Chain
<1>10. DelSignalHandler(new, c, r) = IF chain = <<>> THEN Without(new, h.member) ELSE With(new, h.member, chain)
  <2>1. Lookup(Chain(new, r.member), c, r) = mine /\ mine # {}
    BY <1>6, <1>9
  <2>2. RemoveAt(new[r.member], FirstOf(Lookup(Chain(new, r.member), c, r))) = chain
    BY <1>7, <1>8, <1>9, <2>1
  <2> HIDE DEF new, mine
  <2> QED  BY <2>1, <2>2 DEF DelSignalHandler
<1>11. tbl = [x \in DOMAIN tbl |-> tbl[x]]
  BY DEF ChainsSound
<1>12. CASE h.member \in DOMAIN tbl
  <2>1. DelSignalHandler(new, c, r) = With(new, h.member, chain)
    BY <1>2, <1>10, <1>12
  <2>2. With(new, h.member, chain) = [x \in DOMAIN tbl |-> tbl[x]]
    BY <1>2, <1>12 DEF With
  <2> QED  BY <1>11, <2>1, <2>2 DEF more, chain
<1>13. CASE h.member \notin DOMAIN tbl
  <2>1. DelSignalHandler(new, c, r) = Without(new, h.member)
    BY <1>2, <1>10, <1>13
  <2>2. Without(new, h.member) = [x \in DOMAIN tbl |-> tbl[x]]
    BY <1>13 DEF With, Without
  <2> QED  BY <1>11, <2>1, <2>2 DEF more, chain
<1> QED  BY <1>12, <1>13

-----------------------------------------------------------------------------
\* The hook after that of a handler: the first of those that come after it.
LEMMA NextFacts ==
    ASSUME NEW chain \in Seq(KnownHandlers), Ranked(chain),
           \A g, h \in ToSet(chain) : g.id = h.id => g = h, NEW g \in ToSet(chain)
    PROVE  \/ Next1(chain, g.id) = 0 /\ \A h \in ToSet(chain) : ~Before(g, h)
           \/ \E f \in ToSet(chain) : /\ f.id = Next1(chain, g.id) /\ Before(g, f)
                                      /\ \A h \in ToSet(chain) : Before(g, h) => ~Before(h, f)
<1>1. Len(chain) \in Nat /\ DOMAIN chain = 1 .. Len(chain) /\ \A i \in 1 .. Len(chain) : chain[i] \in KnownHandlers
  BY LenProperties, ElementOfSeq
<1>2. PICK j \in DOMAIN chain : chain[j] = g
  BY DEF ToSet
<1>3. \A i \in DOMAIN chain : chain[i].id = g.id => i = j
  <2>1. IsInjective(chain)
    BY RankedInjective
  <2>2. \A i \in DOMAIN chain : chain[i] \in ToSet(chain)
    BY DEF ToSet
  <2> QED  BY <1>2, <2>1, <2>2 DEF IsInjective
<1>4. Next1(chain, g.id) = IF j < Len(chain) THEN chain[j + 1].id ELSE 0
  <2> DEFINE at == CHOOSE i \in DOMAIN chain : chain[i].id = g.id
  <2>1. at = j
    BY <1>2, <1>3
  <2>2. (\E i \in DOMAIN chain : chain[i].id = g.id /\ i < Len(chain)) <=> j < Len(chain)
    BY <1>2, <1>3
  <2>3. Next1(chain, g.id) = IF \E i \in DOMAIN chain : chain[i].id = g.id /\ i < Len(chain)
                             THEN chain[at + 1].id ELSE 0
    BY DEF Next1
  <2> HIDE DEF at
  <2> QED  BY <2>1, <2>2, <2>3
<1>5. ASSUME NEW h \in ToSet(chain), Before(g, h)
      PROVE  \E i \in DOMAIN chain : chain[i] = h /\ j < i
  <2>1. PICK i \in DOMAIN chain : chain[i] = h
    BY DEF ToSet
  <2>2. ~(i < j)
    BY <1>1, <1>2, <1>5, <2>1, BeforeFacts DEF Ranked
  <2>3. i # j
    BY <1>1, <1>2, <1>5, <2>1, BeforeFacts
  <2> QED  BY <1>1, <2>1, <2>2, <2>3
<1>6. CASE j < Len(chain)
  <2> DEFINE f == chain[j + 1]
  <2>1. j + 1 \in DOMAIN chain /\ j < j + 1
    BY <1>1, <1>6
  <2>2. f \in ToSet(chain) /\ Before(g, f)
    BY <1>1, <1>2, <2>1 DEF ToSet, Ranked
  <2>3. ASSUME NEW h \in ToSet(chain), Before(g, h)  PROVE ~Before(h, f)
    <3>1. PICK i \in DOMAIN chain : chain[i] = h /\ j < i
      BY <1>5, <2>3
    <3>2. CASE i = j + 1
      BY <1>1, <3>1, <3>2, BeforeFacts
    <3>3. CASE j + 1 < i
      BY <1>1, <2>1, <3>1, <3>3, BeforeFacts DEF Ranked
    <3> QED  BY <1>1, <3>1, <3>2, <3>3
  <2> HIDE DEF f
  <2>4. f.id = Next1(chain, g.id)
    BY <1>4, <1>6 DEF f
  <2> QED  BY <2>2, <2>3, <2>4
<1>7. CASE ~(j < Len(chain))
  <2>1. ASSUME NEW h \in ToSet(chain), Before(g, h)  PROVE FALSE
    BY <1>1, <1>5, <1>7, <2>1
  <2> QED  BY <1>4, <1>7, <2>1
<1> QED  BY <1>6, <1>7

LEMMA NextOfHead ==
    ASSUME NEW chain, \A h \in ToSet(chain) : h.id \in Nat \ {0}
    PROVE  Next1(chain, 0) = 0
<1>1. \A j \in DOMAIN chain : chain[j].id # 0
  BY DEF ToSet
<1> QED  BY <1>1 DEF Next1

\* The first handler of a chain comes before the others.
LEMMA FirstOfChain ==
    ASSUME NEW chain \in Seq(KnownHandlers), Ranked(chain), chain # <<>>
    PROVE  chain[1] \in ToSet(chain) /\ \A h \in ToSet(chain) : ~Before(h, chain[1])
<1>1. Len(chain) \in Nat \ {0} /\ DOMAIN chain = 1 .. Len(chain) /\ \A i \in 1 .. Len(chain) : chain[i] \in KnownHandlers
  BY LenProperties, ElementOfSeq, EmptySeq
<1>2. 1 \in DOMAIN chain
  BY <1>1
<1>3. ASSUME NEW j \in DOMAIN chain  PROVE ~Before(chain[j], chain[1])
  <2>1. CASE j = 1
    BY <1>1, <2>1, BeforeFacts
  <2>2. CASE 1 < j
    BY <1>1, <1>2, <2>2, BeforeFacts DEF Ranked
  <2> QED  BY <1>1, <2>1, <2>2
<1> QED  BY <1>2, <1>3 DEF ToSet

-----------------------------------------------------------------------------
\* A call of a method goes to the best of its handlers.
LEMMA BestReached == HandlersInOrder => MethodReachesBest
<1> SUFFICES ASSUME HandlersInOrder, NEW m \in Requests
             PROVE  LET own == {h \in ToSet(Chain(methods, m.member)) : Matches(h, m)}
                        all == {h \in ToSet(Chain(methods, AnyName)) : Matches(h, m)}
                        from == IF m.member \in DOMAIN methods THEN own ELSE all
                    IN  /\ Dispatched(m) = {} <=> from = {}
                        /\ \A g \in Dispatched(m) : \A h \in from :
                              Score(h) < Score(g) \/ (Score(h) = Score(g) /\ h.id <= g.id)
  BY DEF MethodReachesBest
<1> DEFINE chain == Chain(methods, IF m.member \in DOMAIN methods THEN m.member ELSE AnyName)
           from == {h \in ToSet(chain) : Matches(h, m)}
           hits == {j \in DOMAIN chain : Matches(chain[j], m)}
<1>1. chain \in Seq(KnownHandlers) /\ Ranked(chain)
  BY ChainFacts DEF HandlersInOrder
<1>2. Dispatched(m) = IF hits = {} THEN {} ELSE {chain[FirstOf(hits)]}
  BY DEF Dispatched, Find
<1>3. from = IF m.member \in DOMAIN methods THEN {h \in ToSet(Chain(methods, m.member)) : Matches(h, m)}
             ELSE {h \in ToSet(Chain(methods, AnyName)) : Matches(h, m)}
  OBVIOUS
<1> HIDE DEF chain
<1>4. Len(chain) \in Nat /\ DOMAIN chain = 1 .. Len(chain) /\ \A i \in 1 .. Len(chain) : chain[i] \in KnownHandlers
  BY <1>1, LenProperties, ElementOfSeq
<1>5. from = {chain[j] : j \in hits}
  BY DEF ToSet
<1>6. hits \subseteq DOMAIN chain /\ hits \subseteq Nat
  BY <1>4
<1> HIDE DEF hits, from
<1>7. Dispatched(m) = {} <=> from = {}
  BY <1>2, <1>5
<1>8. ASSUME NEW g \in Dispatched(m), NEW h \in from
      PROVE  Score(h) < Score(g) \/ (Score(h) = Score(g) /\ h.id <= g.id)
  <2>1. hits # {}
    BY <1>2, <1>8
  <2>2. PICK k \in hits : k = FirstOf(hits) /\ \A j \in hits : k <= j
    BY <1>6, <2>1, FirstFacts
  <2>3. g = chain[k]
    BY <1>2, <2>1, <2>2
  <2>4. PICK j \in hits : h = chain[j]
    BY <1>5
  <2>5. g \in KnownHandlers /\ h \in KnownHandlers
    BY <1>4, <1>6, <2>3, <2>4
  <2>6. Score(g) \in Nat /\ Score(h) \in Nat /\ g.id \in Nat /\ h.id \in Nat
    BY <2>5, KnownFacts
  <2>7. CASE k = j
    BY <2>3, <2>4, <2>6, <2>7
  <2>8. CASE k < j
    <3>1. Before(g, h)
      BY <1>1, <1>6, <2>3, <2>4, <2>8 DEF Ranked
    <3> QED  BY <2>6, <3>1 DEF Before
  <2>9. k <= j /\ k \in Nat /\ j \in Nat
    BY <1>6, <2>2, <2>4
  <2> QED  BY <2>7, <2>8, <2>9
<1> QED  BY <1>3, <1>7, <1>8

-----------------------------------------------------------------------------
Rule(n, a) == [path |-> n.path, interface |-> n.interface, member |-> n.member, arg |-> a]

\* The rules that clients ask for, and setting whether there is an argument.
LEMMA RuleFacts ==
    ASSUME NEW r \in Patterns
    PROVE  \E n \in HandlerNames : /\ (r = Rule(n, TRUE) /\ r.arg) \/ (r = Rule(n, FALSE) /\ ~r.arg)
                                   /\ Bare(r) = Rule(n, FALSE)
                                   /\ [r EXCEPT !.arg = TRUE] = Rule(n, TRUE)
                                   /\ r.path = n.path /\ r.interface = n.interface /\ r.member = n.member
<1>1. PICK n \in HandlerNames, a \in BOOLEAN : r = Rule(n, a)
  BY DEF Patterns, Rule
<1>2. \A b : [Rule(n, a) EXCEPT !.arg = b] = Rule(n, b)
  BY DEF Rule
<1>3. \A b : [r EXCEPT !.arg = b] = Rule(n, b)
  BY <1>1, <1>2, Zenon
<1>4. Bare(r) = Rule(n, FALSE) /\ [r EXCEPT !.arg = TRUE] = Rule(n, TRUE)
  BY <1>3, Zenon DEF Bare
<1>5. (r = Rule(n, TRUE) /\ r.arg) \/ (r = Rule(n, FALSE) /\ ~r.arg)
  <2>1. CASE a = TRUE
    BY <1>1, <2>1 DEF Rule
  <2>2. CASE a = FALSE
    BY <1>1, <2>2 DEF Rule
  <2> QED  BY <2>1, <2>2
<1>6. r.path = n.path /\ r.interface = n.interface /\ r.member = n.member
  BY <1>1 DEF Rule
<1> QED  BY <1>4, <1>5, <1>6

\* A rule and its variant with an argument.
LEMMA PatternFacts ==
    ASSUME NEW q \in Patterns, ~q.arg
    PROVE  /\ [q EXCEPT !.arg = TRUE] \in Patterns /\ [q EXCEPT !.arg = TRUE] # q
           /\ \A r \in Patterns : Bare(r) = q <=> r = q \/ r = [q EXCEPT !.arg = TRUE]
<1>1. /\ \A m, n : Rule(m, TRUE) # Rule(n, FALSE)
      /\ \A m, n : Rule(m, TRUE) = Rule(n, TRUE) <=> Rule(m, FALSE) = Rule(n, FALSE)
  BY DEF Rule
<1>2. \A n \in HandlerNames : Rule(n, TRUE) \in Patterns
  <2> SUFFICES ASSUME NEW n \in HandlerNames  PROVE Rule(n, TRUE) \in Patterns
    OBVIOUS
  <2>1. TRUE \in BOOLEAN
    OBVIOUS
  <2>2. \E h \in HandlerNames, a \in BOOLEAN : Rule(n, TRUE) = Rule(h, a)
    BY <2>1, Zenon
  <2> QED  BY <2>2, SMT DEF Patterns, Rule
<1>3. PICK n \in HandlerNames : q = Rule(n, FALSE) /\ [q EXCEPT !.arg = TRUE] = Rule(n, TRUE)
  BY RuleFacts
<1> DEFINE w == [q EXCEPT !.arg = TRUE]
<1> HIDE DEF w
<1>4. w = Rule(n, TRUE)
  BY <1>3 DEF w
<1>5. w \in Patterns /\ w # q
  BY <1>1, <1>2, <1>3, <1>4
<1>6. ASSUME NEW r \in Patterns  PROVE Bare(r) = q <=> r = q \/ r = w
  <2>1. PICK m \in HandlerNames : (r = Rule(m, TRUE) \/ r = Rule(m, FALSE)) /\ Bare(r) = Rule(m, FALSE)
    BY RuleFacts
  <2> QED  BY <1>1, <1>3, <1>4, <2>1
<1> QED  BY <1>5, <1>6 DEF w

\* Handlers of the same names have the same rule but for the argument.
LEMMA SameNames ==
    ASSUME NEW h \in KnownHandlers, NEW r \in Patterns,
           h.path = r.path, h.interface = r.interface, h.member = r.member
    PROVE  Bare(Pattern(h)) = Bare(r)
<1>1. Pattern(h) \in Patterns /\ Pattern(h).path = r.path /\ Pattern(h).interface = r.interface /\ Pattern(h).member = r.member
  BY KnownFacts DEF Pattern
<1> DEFINE g == Pattern(h)
<1> HIDE DEF g
<1>2. PICK n \in HandlerNames : Bare(g) = Rule(n, FALSE) /\ g.path = n.path /\ g.interface = n.interface /\ g.member = n.member
  BY <1>1, RuleFacts DEF g
<1>3. PICK m \in HandlerNames : Bare(r) = Rule(m, FALSE) /\ r.path = m.path /\ r.interface = m.interface /\ r.member = m.member
  BY RuleFacts
<1>4. g.path = r.path /\ g.interface = r.interface /\ g.member = r.member
  BY <1>1 DEF g
<1>5. Bare(g) = Bare(r)
  BY <1>2, <1>3, <1>4 DEF Rule
<1> QED  BY <1>5 DEF g

LEMMA RulesUnchanged ==
    RulesCounted /\ UNCHANGED <<signals, installed, strays, isUp>> => RulesCounted'
<1> SUFFICES ASSUME RulesCounted, UNCHANGED <<signals, installed, strays, isUp>>  PROVE RulesCounted'
  OBVIOUS
<1>1. Subscribed' = Subscribed
  BY DEF Subscribed
<1>2. \A r \in Patterns : SubscribedTo(r)' = SubscribedTo(r)
  BY <1>1 DEF SubscribedTo
<1>3. RulesBalanced'
  BY <1>2 DEF RulesCounted, RulesBalanced
<1> QED  BY <1>1, <1>3 DEF RulesCounted

LEMMA VisitUnchanged ==
    SignalsVisit /\ UNCHANGED <<signals, visit>> => SignalsVisit'
BY DEF SignalsVisit, WalkSound, Coming, NotCalled, CalledOnce, OnChain, Cursor, Subscribed

LEMMA InitHandlers == HandlersInit => HandlersInv
<1> SUFFICES ASSUME HandlersInit  PROVE HandlersInv
  OBVIOUS
<1> USE DEF HandlersInit
<1>1. Subscribed = {}
  BY EmptyTable DEF Subscribed
<1>2. HandlersInOrder
  <2>1. DOMAIN signals = {}
    OBVIOUS
  <2> QED  BY <1>1, <2>1, EmptyTable DEF HandlersInOrder
<1>3. RulesCounted
  <2>1. installed \in [Patterns -> Nat] /\ IsFiniteSet(Subscribed)
    BY <1>1, FS_EmptySet
  <2>2. \A r \in Patterns : Cardinality(SubscribedTo(r)) = 0
    BY <1>1, FS_EmptySet DEF SubscribedTo
  <2>3. RulesBalanced
    BY <2>2, PatternFacts DEF RulesBalanced
  <2> QED  BY <2>1, <2>3 DEF RulesCounted
<1>4. SignalsVisit
  <2>1. Quiet \in Visits /\ Quiet.st = "quiet"
    BY DEF Quiet, Visits
  <2> QED  BY <2>1 DEF SignalsVisit
<1> QED  BY <1>2, <1>3, <1>4 DEF HandlersInv

LEMMA ExportStep ==
    ASSUME HandlersInv, NEW c \in Subscribers, NEW r \in Patterns, ExportMethod(c, r)
    PROVE  HandlersInv'
<1> USE DEF HandlersInv
<1>1. SignalsVisit' /\ RulesCounted'
  BY RulesUnchanged, VisitUnchanged DEF ExportMethod
<1>2. HandlersInOrder'
  <2> DEFINE h == Handler(c, r)
  <2>1. made \in Nat /\ made + 1 \in Nat /\ made' = made + 1 /\ signals' = signals
    BY DEF HandlersInOrder, ExportMethod
  <2>2. h \in KnownHandlers /\ h.id = made + 1 /\ h.member = r.member
    BY <2>1, HandlerFacts
  <2>3. methods' = With(methods, h.member, Insert(Chain(methods, h.member), h))
    BY <2>2 DEF ExportMethod
  <2> HIDE DEF h
  <2>4. ChainsSound(methods', made + 1)
    BY <2>1, <2>2, <2>3, AddFacts DEF HandlersInOrder
  <2>5. ChainsSound(signals, made + 1)
    BY <2>1, MoreMade DEF HandlersInOrder
  <2> QED  BY <2>1, <2>4, <2>5 DEF HandlersInOrder, Subscribed
<1> QED  BY <1>1, <1>2

LEMMA RemoveMethodStep ==
    ASSUME HandlersInv, NEW c \in Subscribers, NEW r \in Patterns, RemoveMethod(c, r)
    PROVE  HandlersInv'
<1> USE DEF HandlersInv
<1>1. SignalsVisit' /\ RulesCounted'
  BY RulesUnchanged, VisitUnchanged DEF RemoveMethod
<1>2. HandlersInOrder'
  <2> DEFINE chain == Chain(methods, r.member)
             k == FirstOf(Lookup(chain, c, r))
             left == RemoveAt(chain, k)
  <2>1. made \in Nat /\ made' = made /\ signals' = signals /\ ChainsSound(methods, made)
    BY DEF HandlersInOrder, RemoveMethod
  <2>2. /\ chain \in Seq(KnownHandlers) /\ Ranked(chain)
        /\ \A h \in ToSet(chain) : h.id \in 1 .. made /\ h.member = r.member
    BY <2>1, ChainFacts
  <2>3. k \in DOMAIN chain
    <3>1. Lookup(chain, c, r) # {}
      BY DEF RemoveMethod
    <3> HIDE DEF chain
    <3> QED  BY <2>2, <3>1, LookupFacts
  <2>4. r.member \in DOMAIN methods /\ chain = methods[r.member]
    <3>1. chain # <<>>
      <4> HIDE DEF chain, k
      <4> QED  BY <2>3
    <3> QED  BY <3>1 DEF Chain, NoChain
  <2>5. methods' = [methods EXCEPT ![r.member] = left]
    BY <2>4 DEF RemoveMethod
  <2> HIDE DEF chain, k
  <2>6. left \in Seq(KnownHandlers) /\ Ranked(left) /\ ToSet(left) \subseteq ToSet(chain)
    BY <2>2, <2>3, RemoveFacts
  <2> HIDE DEF left
  <2>7. methods' = With(methods, r.member, left)
    <3>1. methods = [m \in DOMAIN methods |-> methods[m]]
      BY <2>1 DEF ChainsSound
    <3> QED  BY <2>4, <2>5, <3>1 DEF With
  <2>8. ChainsSound(methods', made)
    BY <2>1, <2>2, <2>6, <2>7, WithFacts
  <2> QED  BY <2>1, <2>8 DEF HandlersInOrder, Subscribed
<1> QED  BY <1>1, <1>2

-----------------------------------------------------------------------------
\* One handler more in the rules of a subscription.
LEMMA SubscribeRules ==
    ASSUME RulesCounted, NEW h \in KnownHandlers, h \notin Subscribed, Subscribed' = Subscribed \union {h},
           installed' = [installed EXCEPT ![Pattern(h)] = @ + 1], isUp, UNCHANGED <<strays, isUp>>
    PROVE  RulesCounted'
<1> DEFINE r == Pattern(h)
<1>1. r \in Patterns
  BY KnownFacts
<1>2. /\ installed \in [Patterns -> Nat] /\ installed[r] \in Nat
      /\ installed' = [installed EXCEPT ![r] = installed[r] + 1]
      /\ installed' \in [Patterns -> Nat]
  BY <1>1 DEF RulesCounted
<1>3. IsFiniteSet(Subscribed') /\ IsFiniteSet(Subscribed)
  BY FS_AddElement DEF RulesCounted
<1>4. ASSUME ~strays, NEW q \in Patterns, ~q.arg
      PROVE  installed'[q] + installed'[[q EXCEPT !.arg = TRUE]] = Cardinality(SubscribedTo(q)')
  <2> DEFINE w == [q EXCEPT !.arg = TRUE]
  <2>1. w \in Patterns /\ w # q /\ (Bare(r) = q <=> r = q \/ r = w)
    BY <1>1, <1>4, PatternFacts
  <2>2. installed[q] + installed[w] = Cardinality(SubscribedTo(q))
    BY <1>4 DEF RulesCounted, RulesBalanced
  <2> HIDE DEF w
  <2>3. IsFiniteSet(SubscribedTo(q))
    <3>1. SubscribedTo(q) \subseteq Subscribed
      BY DEF SubscribedTo
    <3> QED  BY <1>3, <3>1, FS_Subset
  <2>4. CASE Bare(r) = q
    <3>1. SubscribedTo(q)' = SubscribedTo(q) \union {h} /\ h \notin SubscribedTo(q)
      BY <2>4 DEF SubscribedTo
    <3>2. Cardinality(SubscribedTo(q)') = Cardinality(SubscribedTo(q)) + 1
      BY <2>3, <3>1, FS_AddElement
    <3>3. installed[q] \in Nat /\ installed[w] \in Nat
      BY <1>2, <2>1
    <3> HIDE DEF r
    <3>4. CASE r = q
      <4>1. installed'[q] = installed[q] + 1 /\ installed'[w] = installed[w]
        BY <1>2, <2>1, <3>4
      <4> QED  BY <2>2, <3>2, <3>3, <4>1 DEF w
    <3>5. CASE r = w
      <4>1. installed'[w] = installed[w] + 1 /\ installed'[q] = installed[q]
        BY <1>2, <2>1, <3>5
      <4> QED  BY <2>2, <3>2, <3>3, <4>1 DEF w
    <3> QED  BY <2>1, <2>4, <3>4, <3>5 DEF w
  <2>5. CASE Bare(r) # q
    <3>1. SubscribedTo(q)' = SubscribedTo(q)
      BY <2>5 DEF SubscribedTo
    <3> QED  BY <1>2, <2>1, <2>2, <2>5, <3>1 DEF w
  <2> QED  BY <2>4, <2>5
<1>5. RulesBalanced'
  BY <1>4 DEF RulesBalanced
<1> QED  BY <1>2, <1>3, <1>5 DEF RulesCounted

LEMMA SubscribeStep ==
    ASSUME HandlersInv, NEW c \in Subscribers, NEW r \in Patterns, NEW ok \in BOOLEAN, Subscribe(c, r, ok)
    PROVE  HandlersInv'
<1> USE DEF HandlersInv
<1> DEFINE h == Handler(c, r)
<1>1. /\ made \in Nat /\ made + 1 \in Nat /\ made' = made + 1 /\ methods' = methods
      /\ visit' = visit /\ strays' = strays /\ isUp' = isUp /\ isUp /\ visit.st \in {"quiet", "calling"}
  BY DEF HandlersInOrder, Subscribe, SubscribersRun
<1>2. /\ h \in KnownHandlers /\ h.id = made + 1 /\ h.client = c /\ h.path = r.path /\ h.interface = r.interface
      /\ h.member = r.member /\ Pattern(h) = r
  BY <1>1, HandlerFacts
<1>3. /\ ok => signals' = AddSignalHandler(h) /\ installed' = [installed EXCEPT ![r] = @ + 1]
      /\ ~ok => signals' = DelSignalHandler(AddSignalHandler(h), c, r) /\ installed' = installed
  BY DEF Subscribe
<1> HIDE DEF h
<1>4. AddSignalHandler(h) = With(signals, h.member, Insert(Chain(signals, h.member), h))
  BY DEF AddSignalHandler
<1>5. /\ ChainsSound(methods, made + 1) /\ ChainsSound(signals, made + 1)
      /\ ChainsSound(signals, made) /\ \A k \in DOMAIN signals : signals[k] # NoChain
  BY <1>1, MoreMade DEF HandlersInOrder
<1>6. CASE ~ok
  <2>1. signals' = signals
    BY <1>1, <1>2, <1>3, <1>4, <1>5, <1>6, AddDelFacts
  <2>2. SignalsVisit' /\ RulesCounted'
    BY <1>1, <1>3, <1>6, <2>1, RulesUnchanged, VisitUnchanged
  <2>3. HandlersInOrder'
    BY <1>1, <1>5, <2>1 DEF HandlersInOrder, Subscribed
  <2> QED  BY <2>2, <2>3
<1>7. CASE ok
  <2>1. /\ ChainsSound(signals', made + 1) /\ Contents(signals') = Contents(signals) \union {h}
        /\ h \notin Contents(signals) /\ \A k \in DOMAIN signals' : signals'[k] # NoChain
    BY <1>1, <1>2, <1>3, <1>4, <1>5, <1>7, AddFacts
  <2>2. Subscribed' = Subscribed \union {h} /\ h \notin Subscribed
    BY <2>1 DEF Subscribed
  <2>3. \A g \in Subscribed : g \in KnownHandlers /\ g.id \in 1 .. made
    BY <1>1, <1>5, ContentsFacts DEF Subscribed
  <2>4. HandlersInOrder'
    <3>1. \A f, g \in Subscribed' : f.id = g.id => f = g
      <4>1. \A g \in Subscribed : g.id # h.id
        BY <1>1, <1>2, <2>3
      <4> QED  BY <2>2, <4>1 DEF HandlersInOrder
    <3> QED  BY <1>1, <1>5, <2>1, <3>1 DEF HandlersInOrder
  <2>5. RulesCounted'
    BY <1>1, <1>2, <1>3, <1>7, <2>2, SubscribeRules
  <2>6. SignalsVisit'
    <3>1. CASE visit.st = "quiet"
      BY <1>1, <3>1 DEF SignalsVisit
    <3>2. CASE visit.st = "calling"
      <4>1. WalkSound /\ visit \in Visits
        BY <3>2 DEF SignalsVisit
      <4>2. PICK n \in Nat : n = visit.n
        BY <4>1 DEF Visits
      <4>3. h.id \notin visit.due
        BY <1>1, <1>2, <2>3, <4>1 DEF WalkSound
      <4>4. n # h.id /\ Cursor = n /\ Cursor' = n
        <5>1. n = 0 \/ \E g \in Subscribed : g.id = n
          BY <3>2, <4>1, <4>2 DEF WalkSound, OnChain
        <5>2. n # h.id
          BY <1>1, <1>2, <2>3, <5>1
        <5> QED  BY <1>1, <3>2, <4>2, <5>2 DEF Cursor
      <4>5. ASSUME NEW g \in Subscribed  PROVE Coming(g)' <=> Coming(g)
        <5>1. (\E f \in Subscribed' : f.member = visit.key /\ f.id = n /\ ~Before(g, f))
              <=> (\E f \in Subscribed : f.member = visit.key /\ f.id = n /\ ~Before(g, f))
          BY <2>2, <4>4
        <5> QED  BY <1>1, <4>4, <5>1 DEF Coming
      <4>6. WalkSound'
        <5>1. visit'.key \in {visit'.msg.member, AnyName}
          BY <1>1, <4>1 DEF WalkSound
        <5>2. \A x \in visit'.due : \E g \in Subscribed' : g.id = x
          BY <1>1, <2>2, <4>1 DEF WalkSound
        <5>3. ASSUME NEW g \in Subscribed', g.id \in visit'.due
              PROVE  Matches(g, visit'.msg) /\ IF Coming(g)' THEN NotCalled(g.id)' ELSE CalledOnce(g.id)'
          <6>1. g \in Subscribed /\ g.id \in visit.due
            BY <1>1, <2>2, <4>3, <5>3
          <6>2. PICK x : x = g.id
            OBVIOUS
          <6>3. (NotCalled(x)' <=> NotCalled(x)) /\ (CalledOnce(x)' <=> CalledOnce(x))
            BY <1>1 DEF NotCalled, CalledOnce
          <6> QED  BY <1>1, <4>1, <4>5, <6>1, <6>2, <6>3 DEF WalkSound
        <5>4. visit'.st = "calling" => OnChain(visit.n)' /\ visit'.n # visit'.p
          BY <1>1, <2>2, <3>2, <4>1 DEF WalkSound, OnChain
        <5> QED  BY <1>1, <3>2, <5>1, <5>2, <5>3, <5>4 DEF WalkSound
      <4> QED  BY <1>1, <3>2, <4>1, <4>6 DEF SignalsVisit
    <3> QED  BY <1>1, <3>1, <3>2
  <2> QED  BY <2>4, <2>5, <2>6
<1> QED  BY <1>6, <1>7

\* One handler less; a client that removes a rule for which it has no handler
\* or the bus no rule strays.
LEMMA UnsubscribeRules ==
    ASSUME RulesCounted, NEW r \in Patterns, NEW h \in Subscribed, Bare(Pattern(h)) = Bare(r),
           Subscribed' = Subscribed \ {h}, strays' = (strays \/ installed[r] = 0),
           installed' = [installed EXCEPT ![r] = IF @ > 0 THEN @ - 1 ELSE 0], isUp, UNCHANGED isUp
    PROVE  RulesCounted'
<1>1. /\ installed \in [Patterns -> Nat] /\ installed[r] \in Nat
      /\ installed' = [installed EXCEPT ![r] = IF installed[r] > 0 THEN installed[r] - 1 ELSE 0]
      /\ installed' \in [Patterns -> Nat]
  BY DEF RulesCounted
<1>2. IsFiniteSet(Subscribed') /\ IsFiniteSet(Subscribed)
  BY FS_RemoveElement DEF RulesCounted
<1>3. ASSUME ~strays', NEW q \in Patterns, ~q.arg
      PROVE  installed'[q] + installed'[[q EXCEPT !.arg = TRUE]] = Cardinality(SubscribedTo(q)')
  <2> DEFINE w == [q EXCEPT !.arg = TRUE]
  <2>1. w \in Patterns /\ w # q /\ (Bare(r) = q <=> r = q \/ r = w)
    BY <1>3, PatternFacts
  <2>2. installed[q] + installed[w] = Cardinality(SubscribedTo(q))
    BY <1>3 DEF RulesCounted, RulesBalanced
  <2>3. installed[r] # 0
    BY <1>3
  <2> HIDE DEF w
  <2>4. IsFiniteSet(SubscribedTo(q))
    <3>1. SubscribedTo(q) \subseteq Subscribed
      BY DEF SubscribedTo
    <3> QED  BY <1>2, <3>1, FS_Subset
  <2>5. CASE Bare(r) = q
    <3>1. SubscribedTo(q)' = SubscribedTo(q) \ {h} /\ h \in SubscribedTo(q)
      BY <2>5 DEF SubscribedTo
    <3>2. Cardinality(SubscribedTo(q)') = Cardinality(SubscribedTo(q)) - 1
      BY <2>4, <3>1, FS_RemoveElement
    <3>3. installed[q] \in Nat /\ installed[w] \in Nat
      BY <1>1, <2>1
    <3>4. installed' = [installed EXCEPT ![r] = installed[r] - 1]
      <4>1. installed[r] > 0
        BY <1>1, <2>3
      <4>2. (IF installed[r] > 0 THEN installed[r] - 1 ELSE 0) = installed[r] - 1
        BY <4>1
      <4> QED  BY <1>1, <4>2
    <3>5. CASE r = q
      <4>1. installed'[q] = installed[q] - 1 /\ installed'[w] = installed[w]
        BY <1>1, <2>1, <3>4, <3>5
      <4> QED  BY <2>2, <3>2, <3>3, <4>1 DEF w
    <3>6. CASE r = w
      <4>1. installed'[w] = installed[w] - 1 /\ installed'[q] = installed[q]
        BY <1>1, <2>1, <3>4, <3>6
      <4> QED  BY <2>2, <3>2, <3>3, <4>1 DEF w
    <3> QED  BY <2>1, <2>5, <3>5, <3>6
  <2>6. CASE Bare(r) # q
    <3>1. SubscribedTo(q)' = SubscribedTo(q)
      BY <2>6 DEF SubscribedTo
    <3>2. installed'[w] = installed[w] /\ installed'[q] = installed[q]
      BY <1>1, <2>1, <2>6
    <3> QED  BY <2>2, <3>1, <3>2 DEF w
  <2> QED  BY <2>5, <2>6
<1>4. RulesBalanced'
  BY <1>3 DEF RulesBalanced
<1> QED  BY <1>1, <1>2, <1>4 DEF RulesCounted

LEMMA UnsubscribeStep ==
    ASSUME HandlersInv, NEW c \in Subscribers, NEW r \in Patterns, Unsubscribe(c, r)
    PROVE  HandlersInv'
<1> USE DEF HandlersInv
<1> DEFINE mine == Lookup(Chain(signals, r.member), c, r)
           h == signals[r.member][FirstOf(mine)]
<1>1. /\ made \in Nat /\ made' = made /\ methods' = methods /\ isUp' = isUp /\ isUp
      /\ visit.st \in {"quiet", "calling"}
      /\ ChainsSound(methods, made) /\ ChainsSound(signals, made) /\ \A k \in DOMAIN signals : signals[k] # NoChain
  BY DEF HandlersInOrder, Unsubscribe, SubscribersRun
<1>2. /\ strays' = (strays \/ mine = {} \/ installed[r] = 0)
      /\ signals' = DelSignalHandler(signals, c, r)
      /\ installed' = [installed EXCEPT ![r] = IF @ > 0 THEN @ - 1 ELSE 0]
  BY DEF Unsubscribe
<1>3. CASE mine = {}
  <2>1. signals' = signals /\ visit' = visit /\ strays'
    BY <1>2, <1>3 DEF DelSignalHandler, Unsubscribe
  <2>2. HandlersInOrder' /\ SignalsVisit'
    BY <1>1, <2>1, VisitUnchanged DEF HandlersInOrder, Subscribed
  <2>3. installed' \in [Patterns -> Nat]
    <3>1. installed \in [Patterns -> Nat] /\ installed[r] \in Nat
      BY DEF RulesCounted
    <3> QED  BY <1>2, <3>1
  <2>4. Subscribed' = Subscribed
    BY <2>1 DEF Subscribed
  <2>5. RulesCounted'
    BY <2>1, <2>3, <2>4 DEF RulesCounted, RulesBalanced
  <2> QED  BY <2>2, <2>5
<1>4. CASE mine # {}
  <2>1. /\ (visit.st = "calling" => h.id = visit.p)
        /\ visit' = [visit EXCEPT !.due = @ \ {h.id}]
    BY <1>4 DEF Unsubscribe, InCallback
  <2>2. /\ ChainsSound(signals', made)
        /\ h \in Contents(signals) /\ h.path = r.path /\ h.interface = r.interface /\ h.member = r.member
        /\ Contents(signals') = Contents(signals) \ {h}
        /\ \A k \in DOMAIN signals' : signals'[k] # NoChain
    BY <1>1, <1>2, <1>4, DelFacts
  <2> HIDE DEF h, mine
  <2>3. Subscribed' = Subscribed \ {h} /\ h \in Subscribed
    BY <2>2 DEF Subscribed
  <2>4. h \in KnownHandlers
    BY <1>1, <2>2, ContentsFacts
  <2>5. HandlersInOrder'
    BY <1>1, <2>2, <2>3 DEF HandlersInOrder
  <2>6. RulesCounted'
    <3>1. Bare(Pattern(h)) = Bare(r)
      BY <2>2, <2>4, SameNames
    <3>2. strays' = (strays \/ installed[r] = 0)
      BY <1>2, <1>4
    <3> QED  BY <1>1, <1>2, <2>3, <3>1, <3>2, UnsubscribeRules
  <2>7. SignalsVisit'
    <3>1. CASE visit.st = "quiet"
      <4>1. visit = Quiet
        BY <3>1 DEF SignalsVisit
      <4>2. visit' = Quiet
        BY <2>1, <4>1 DEF Quiet
      <4>3. visit' \in Visits /\ visit'.st = "quiet"
        BY <3>1, <4>1, <4>2 DEF SignalsVisit
      <4> QED  BY <4>2, <4>3 DEF SignalsVisit
    <3>2. CASE visit.st = "calling"
      <4>1. WalkSound /\ visit \in Visits
        BY <3>2 DEF SignalsVisit
      <4>2. PICK d \in SUBSET Nat : d = visit.due
        BY <4>1 DEF Visits
      <4>3. /\ visit' \in Visits /\ visit'.st = "calling" /\ visit'.key = visit.key /\ visit'.msg = visit.msg
            /\ visit'.p = visit.p /\ visit'.n = visit.n /\ visit'.called = visit.called
            /\ visit'.due = visit.due \ {h.id}
        BY <2>1, <3>2, <4>1 DEF Visits
      <4>4. PICK n \in Nat : n = visit.n
        BY <4>1 DEF Visits
      <4>5. n # h.id /\ Cursor = n /\ Cursor' = n
        BY <2>1, <3>2, <4>1, <4>3, <4>4 DEF WalkSound, Cursor
      <4>6. ASSUME NEW g \in Subscribed  PROVE Coming(g)' <=> Coming(g)
        <5>1. (\E f \in Subscribed' : f.member = visit.key /\ f.id = n /\ ~Before(g, f))
              <=> (\E f \in Subscribed : f.member = visit.key /\ f.id = n /\ ~Before(g, f))
          BY <2>3, <4>5
        <5> QED  BY <3>2, <4>3, <4>5, <5>1 DEF Coming
      <4>7. \A g \in Subscribed : g.id = h.id => g = h
        BY <2>3 DEF HandlersInOrder
      <4>8. WalkSound'
        <5>1. visit'.key \in {visit'.msg.member, AnyName}
          BY <4>1, <4>3 DEF WalkSound
        <5>2. \A x \in visit'.due : \E g \in Subscribed' : g.id = x
          BY <2>3, <4>1, <4>3 DEF WalkSound
        <5>3. ASSUME NEW g \in Subscribed', g.id \in visit'.due
              PROVE  Matches(g, visit'.msg) /\ IF Coming(g)' THEN NotCalled(g.id)' ELSE CalledOnce(g.id)'
          <6>1. g \in Subscribed /\ g.id \in visit.due
            BY <2>3, <4>3, <5>3
          <6>2. PICK x : x = g.id
            OBVIOUS
          <6>3. (NotCalled(x)' <=> NotCalled(x)) /\ (CalledOnce(x)' <=> CalledOnce(x))
            BY <4>3 DEF NotCalled, CalledOnce
          <6> QED  BY <4>1, <4>3, <4>6, <6>1, <6>2, <6>3 DEF WalkSound
        <5>4. OnChain(visit.n)' /\ visit'.n # visit'.p
          <6>1. n # visit.p /\ (n = 0 \/ \E g \in Subscribed : g.member = visit.key /\ g.id = n)
            BY <3>2, <4>1, <4>4 DEF WalkSound, OnChain
          <6> QED  BY <2>3, <4>3, <4>4, <4>5, <6>1 DEF OnChain
        <5> QED  BY <4>3, <5>1, <5>2, <5>3, <5>4 DEF WalkSound
      <4> QED  BY <4>3, <4>8 DEF SignalsVisit
    <3> QED  BY <1>1, <3>1, <3>2
  <2> QED  BY <2>5, <2>6, <2>7
<1> QED  BY <1>3, <1>4

LEMMA PurgeStep ==
    ASSUME HandlersInv, Purge
    PROVE  HandlersInv'
<1> USE DEF HandlersInv
<1>1. /\ made \in Nat /\ made' = made /\ methods' = <<>> /\ signals' = <<>> /\ visit' = visit
      /\ strays' = strays /\ isUp /\ ~isUp' /\ visit.st = "quiet"
  BY DEF HandlersInOrder, Purge, SubscribersRun, InCallback
<1>2. Subscribed' = {}
  BY <1>1, EmptyTable DEF Subscribed
<1>3. HandlersInOrder'
  <2>1. DOMAIN signals' = {}
    BY <1>1
  <2> QED  BY <1>1, <1>2, <2>1, EmptyTable DEF HandlersInOrder
<1>4. SignalsVisit'
  BY <1>1 DEF SignalsVisit
<1>5. RulesCounted'
  <2>1. /\ installed \in [Patterns -> Nat]
        /\ installed' = [r \in Patterns |-> IF installed[r] > Cardinality(SubscribedTo(r))
                                            THEN installed[r] - Cardinality(SubscribedTo(r)) ELSE 0]
    BY DEF RulesCounted, Purge
  <2>2. \A r \in Patterns : Cardinality(SubscribedTo(r)) \in Nat
    <3>1. \A r \in Patterns : IsFiniteSet(SubscribedTo(r))
      <4>1. \A r \in Patterns : SubscribedTo(r) \subseteq Subscribed
        BY DEF SubscribedTo
      <4> QED  BY <4>1, FS_Subset DEF RulesCounted
    <3> QED  BY <3>1, FS_CardinalityType
  <2>3. installed' \in [Patterns -> Nat]
    BY <2>1, <2>2
  <2>4. ASSUME ~strays, NEW r \in Patterns, ~r.arg  PROVE installed'[r] = 0
    <3>1. /\ [r EXCEPT !.arg = TRUE] \in Patterns
          /\ installed[r] + installed[[r EXCEPT !.arg = TRUE]] = Cardinality(SubscribedTo(r))
      BY <1>1, <2>4, PatternFacts DEF RulesCounted, RulesBalanced
    <3>2. installed[r] \in Nat /\ installed[[r EXCEPT !.arg = TRUE]] \in Nat
      BY <2>1, <3>1
    <3>3. ~(installed[r] > Cardinality(SubscribedTo(r)))
      BY <2>2, <3>1, <3>2
    <3> QED  BY <2>1, <3>3
  <2>5. RulesBalanced'
    BY <1>1, <2>4 DEF RulesBalanced
  <2> QED  BY <1>2, <2>3, <2>5, FS_EmptySet DEF RulesCounted
<1> QED  BY <1>3, <1>4, <1>5

-----------------------------------------------------------------------------
\* What the steps of a walk leave alone.
LEMMA RestFacts ==
    ASSUME HandlersInv, UNCHANGED <<methods, signals, made, installed, strays, isUp>>
    PROVE  HandlersInOrder' /\ RulesCounted' /\ Subscribed' = Subscribed
<1>1. Subscribed' = Subscribed
  BY DEF Subscribed
<1>2. HandlersInOrder'
  BY <1>1 DEF HandlersInv, HandlersInOrder
<1> QED  BY <1>1, <1>2, RulesUnchanged DEF HandlersInv

\* The chain a walk is on.
LEMMA WalkChain ==
    ASSUME HandlersInOrder, NEW key
    PROVE  /\ Chain(signals, key) \in Seq(KnownHandlers) /\ Ranked(Chain(signals, key))
           /\ ToSet(Chain(signals, key)) = {h \in Subscribed : h.member = key}
           /\ \A g, h \in ToSet(Chain(signals, key)) : g.id = h.id => g = h
           /\ \A h \in Subscribed : h \in KnownHandlers /\ h.id \in Nat \ {0}
           /\ Next1(Chain(signals, key), 0) = 0
           /\ \A g \in Subscribed : g.member = key => Next1(Chain(signals, key), g.id) \in Nat
<1>1. made \in Nat /\ ChainsSound(signals, made)
  BY DEF HandlersInOrder
<1>2. /\ Chain(signals, key) \in Seq(KnownHandlers) /\ Ranked(Chain(signals, key))
      /\ ToSet(Chain(signals, key)) = {h \in Subscribed : h.member = key}
  BY <1>1, ChainFacts DEF Subscribed
<1>3. \A h \in Subscribed : h \in KnownHandlers /\ h.id \in Nat \ {0}
  <2>1. \A h \in Subscribed : h \in KnownHandlers /\ h.id \in 1 .. made
    BY <1>1, ContentsFacts DEF Subscribed
  <2> QED  BY <1>1, <2>1
<1>4. \A g, h \in ToSet(Chain(signals, key)) : g.id = h.id => g = h
  BY <1>2 DEF HandlersInOrder
<1>5. Next1(Chain(signals, key), 0) = 0
  BY <1>2, <1>3, NextOfHead
<1>6. ASSUME NEW g \in Subscribed, g.member = key  PROVE Next1(Chain(signals, key), g.id) \in Nat
  <2>1. g \in ToSet(Chain(signals, key))
    BY <1>2, <1>6
  <2>2. Next1(Chain(signals, key), g.id) = 0
        \/ \E f \in ToSet(Chain(signals, key)) : f.id = Next1(Chain(signals, key), g.id)
    BY <1>2, <1>4, <2>1, NextFacts
  <2> QED  BY <1>2, <1>3, <2>2
<1> QED  BY <1>2, <1>3, <1>4, <1>5, <1>6

\* A walk enters a chain at its first handler.
LEMMA EnterFacts ==
    ASSUME HandlersInOrder, UNCHANGED signals, NEW v \in Visits, NEW key \in {m.member : m \in Requests} \union {AnyName},
           visit' = Enter(v, key)
    PROVE  /\ visit' \in Visits /\ visit'.st = "walk" /\ visit'.key = key
           /\ visit'.msg = v.msg /\ visit'.called = v.called /\ visit'.due = v.due
           /\ OnChain(visit.p)' /\ visit'.n = Next1(Chain(signals, key), visit'.p)
           /\ \A h \in Subscribed : Coming(h)' <=> h.member = key \/ (key # AnyName /\ h.member = AnyName)
<1> DEFINE chain == Chain(signals, key)
           first == IF chain = <<>> THEN 0 ELSE chain[1].id
<1>1. /\ chain \in Seq(KnownHandlers) /\ Ranked(chain)
      /\ ToSet(chain) = {h \in Subscribed : h.member = key}
      /\ \A h \in Subscribed : h \in KnownHandlers /\ h.id \in Nat \ {0}
      /\ Next1(chain, 0) = 0
      /\ \A g \in Subscribed : g.member = key => Next1(chain, g.id) \in Nat
  BY WalkChain
<1>2. Subscribed' = Subscribed
  BY DEF Subscribed
<1>3. visit' = [v EXCEPT !.key = key, !.p = first, !.n = Next1(chain, first), !.st = "walk"]
  BY DEF Enter
<1> HIDE DEF chain
<1>4. /\ first = 0 \/ \E g \in Subscribed : g.member = key /\ g.id = first
      /\ first \in Nat /\ Next1(chain, first) \in Nat
      /\ \A h \in Subscribed : h.member = key <=>
            h.member = key /\ \E g \in Subscribed : g.member = key /\ g.id = first /\ ~Before(h, g)
  <2>1. CASE chain = <<>>
    <3>1. first = 0 /\ ToSet(chain) = {}
      BY <2>1 DEF ToSet
    <3> QED  BY <1>1, <3>1
  <2>2. CASE chain # <<>>
    <3>1. PICK g \in ToSet(chain) : g.id = first /\ \A h \in ToSet(chain) : ~Before(h, g)
      BY <1>1, <2>2, FirstOfChain
    <3> HIDE DEF first
    <3>2. g \in Subscribed /\ g.member = key
      BY <1>1
    <3> QED  BY <1>1, <3>1, <3>2
  <2> QED  BY <2>1, <2>2
<1> HIDE DEF first
<1>5. /\ visit' \in Visits /\ visit'.st = "walk" /\ visit'.key = key /\ visit'.p = first
      /\ visit'.msg = v.msg /\ visit'.called = v.called /\ visit'.due = v.due /\ visit'.n = Next1(chain, first)
  BY <1>3, <1>4 DEF Visits
<1>6. OnChain(visit.p)'
  BY <1>2, <1>4, <1>5 DEF OnChain
<1>7. ASSUME NEW h \in Subscribed  PROVE Coming(h)' <=> h.member = key \/ (key # AnyName /\ h.member = AnyName)
  <2>1. Cursor' = first
    BY <1>5 DEF Cursor
  <2>2. (h.member = key /\ \E g \in Subscribed : g.member = key /\ g.id = first /\ ~Before(h, g)) <=> h.member = key
    BY <1>4
  <2> QED  BY <1>2, <1>5, <2>1, <2>2 DEF Coming
<1> QED  BY <1>5, <1>6, <1>7 DEF chain

LEMMA StartSignalStep ==
    ASSUME HandlersInv, NEW m \in Requests, StartSignal(m)
    PROVE  HandlersInv'
<1> USE DEF HandlersInv
<1>1. HandlersInOrder' /\ RulesCounted' /\ Subscribed' = Subscribed
  BY RestFacts DEF StartSignal
<1> DEFINE due == {h.id : h \in {g \in Subscribed : Matches(g, m)}}
           v == [Quiet EXCEPT !.msg = m, !.due = due]
<1>2. visit' = Enter(v, m.member) /\ signals' = signals
  BY DEF StartSignal
<1>3. \A h \in Subscribed : h \in KnownHandlers /\ h.id \in Nat
  BY WalkChain
<1>4. v \in Visits /\ v.msg = m /\ v.due = due /\ v.called = <<>>
  <2>1. due \in SUBSET Nat
    BY <1>3
  <2> HIDE DEF due
  <2>2. PICK q \in Visits : q = Quiet /\ q.called = <<>>
    <3>1. Quiet \in Visits
      BY DEF Quiet, Visits
    <3>2. Quiet.called = <<>>
      BY DEF Quiet
    <3> QED  BY <3>1, <3>2
  <2>3. [q EXCEPT !.msg = m, !.due = due] \in Visits
    BY <2>1 DEF Visits
  <2>4. /\ [q EXCEPT !.msg = m, !.due = due].msg = m /\ [q EXCEPT !.msg = m, !.due = due].due = due
        /\ [q EXCEPT !.msg = m, !.due = due].called = q.called
    BY DEF Visits
  <2> QED  BY <2>2, <2>3, <2>4
<1> HIDE DEF v
<1>5. /\ visit' \in Visits /\ visit'.st = "walk" /\ visit'.key = m.member
      /\ visit'.msg = m /\ visit'.called = <<>> /\ visit'.due = due
      /\ OnChain(visit.p)' /\ visit'.n = Next1(Chain(signals, m.member), visit'.p)
      /\ \A h \in Subscribed : Coming(h)' <=> h.member = m.member \/ (m.member # AnyName /\ h.member = AnyName)
  BY <1>2, <1>4, EnterFacts
<1>6. ASSUME NEW h \in Subscribed', h.id \in visit'.due
      PROVE  Matches(h, visit'.msg) /\ IF Coming(h)' THEN NotCalled(h.id)' ELSE CalledOnce(h.id)'
  <2>1. h \in Subscribed /\ h.id \in due
    BY <1>1, <1>5, <1>6
  <2>2. PICK g \in Subscribed : Matches(g, m) /\ g.id = h.id
    BY <2>1
  <2>3. g = h
    BY <2>1, <2>2 DEF HandlersInOrder
  <2>4. h.member = m.member \/ h.member = AnyName
    BY <2>2, <2>3 DEF Matches
  <2>5. Coming(h)'
    BY <1>5, <2>1, <2>4
  <2>6. PICK x : x = h.id
    OBVIOUS
  <2>7. NotCalled(x)'
    BY <1>5 DEF NotCalled
  <2> QED  BY <1>5, <2>2, <2>3, <2>5, <2>6, <2>7
<1>7. \A x \in visit'.due : \E h \in Subscribed' : h.id = x
  BY <1>1, <1>5
<1>8. WalkSound'
  BY <1>2, <1>5, <1>6, <1>7 DEF WalkSound
<1>9. SignalsVisit'
  BY <1>5, <1>8 DEF SignalsVisit
<1> QED  BY <1>1, <1>9

\* Calling a handler once more.
LEMMA CalledFacts ==
    ASSUME visit \in Visits, NEW x \in Nat, NEW y \in Nat, visit'.called = Append(visit.called, x)
    PROVE  /\ NotCalled(x) => CalledOnce(x)'
           /\ y # x => (NotCalled(y)' <=> NotCalled(y)) /\ (CalledOnce(y) => CalledOnce(y)')
<1>1. PICK s \in Seq(Nat) : s = visit.called
  BY DEF Visits
<1>2. PICK u \in Seq(Nat) : u = visit'.called /\ u = Append(s, x)
  <2>1. Append(s, x) \in Seq(Nat)
    OBVIOUS
  <2> QED  BY <1>1, <2>1
<1>3. Len(s) \in Nat /\ DOMAIN s = 1 .. Len(s)
  BY <1>1, LenProperties
<1>4. Len(u) = Len(s) + 1 /\ (\A i \in 1 .. Len(s) : u[i] = s[i]) /\ u[Len(s) + 1] = x /\ DOMAIN u = 1 .. Len(s) + 1
  BY <1>2, <1>3, LenProperties
<1>5. NotCalled(x) => CalledOnce(x)'
  <2> SUFFICES ASSUME \A j \in DOMAIN s : s[j] # x
               PROVE  \E j \in DOMAIN u : \A i \in DOMAIN u : u[i] = x <=> i = j
    BY <1>1, <1>2 DEF NotCalled, CalledOnce
  <2>1. Len(s) + 1 \in DOMAIN u /\ \A i \in DOMAIN u : u[i] = x <=> i = Len(s) + 1
    BY SMTT(40), <1>3, <1>4
  <2> QED  BY <2>1
<1>6. ASSUME y # x  PROVE NotCalled(y)' <=> NotCalled(y)
  <2>1. ASSUME \A j \in DOMAIN u : u[j] # y  PROVE \A j \in DOMAIN s : s[j] # y
    <3>1. \A j \in DOMAIN s : j \in DOMAIN u /\ u[j] = s[j]
      BY <1>3, <1>4
    <3> QED  BY <2>1, <3>1
  <2>2. ASSUME \A j \in DOMAIN s : s[j] # y  PROVE \A j \in DOMAIN u : u[j] # y
    <3>1. \A j \in DOMAIN u : j = Len(s) + 1 \/ j \in DOMAIN s
      BY <1>3, <1>4
    <3> QED  BY <1>3, <1>4, <1>6, <2>2, <3>1
  <2> QED  BY <1>1, <1>2, <2>1, <2>2 DEF NotCalled
<1>7. ASSUME y # x, CalledOnce(y)  PROVE CalledOnce(y)'
  <2>1. PICK j \in DOMAIN s : \A i \in DOMAIN s : s[i] = y <=> i = j
    BY <1>1, <1>7 DEF CalledOnce
  <2>2. j \in DOMAIN u /\ \A i \in DOMAIN u : u[i] = y <=> i = j
    BY SMTT(40), <1>3, <1>4, <1>7, <2>1
  <2> QED  BY SMTT(40), <1>2, <2>2 DEF CalledOnce
<1> QED  BY <1>5, <1>6, <1>7

LEMMA CallHandlerStep ==
    ASSUME HandlersInv, CallHandler
    PROVE  HandlersInv'
<1> USE DEF HandlersInv
<1> DEFINE chain == Chain(signals, visit.key)
           now == CHOOSE g \in ToSet(chain) : g.id = visit.p
<1>1. HandlersInOrder' /\ RulesCounted' /\ Subscribed' = Subscribed
  BY RestFacts DEF CallHandler, Rest
<1>2. visit.st = "walk" /\ visit.p # 0 /\ visit \in Visits /\ WalkSound
  BY DEF CallHandler, SignalsVisit
<1>3. /\ chain \in Seq(KnownHandlers) /\ Ranked(chain)
      /\ ToSet(chain) = {g \in Subscribed : g.member = visit.key}
      /\ \A f, g \in ToSet(chain) : f.id = g.id => f = g
      /\ \A g \in Subscribed : g \in KnownHandlers /\ g.id \in Nat \ {0}
      /\ \A g \in Subscribed : g.member = visit.key => Next1(chain, g.id) \in Nat
  BY WalkChain
<1>4. PICK h \in ToSet(chain) : h = now /\ h.id = visit.p
  <2>1. \E g \in ToSet(chain) : g.id = visit.p
    BY <1>2, <1>3 DEF WalkSound, OnChain
  <2> HIDE DEF chain
  <2> QED  BY <2>1
<1>5. /\ visit' = [visit EXCEPT !.st = "calling",
                       !.called = IF Matches(h, visit.msg) THEN Append(@, h.id) ELSE @]
      /\ signals' = signals
  BY <1>4 DEF CallHandler, Rest
<1> HIDE DEF chain, now
<1>6. h \in Subscribed /\ h \in KnownHandlers /\ h.member = visit.key /\ h.id \in Nat \ {0}
  BY <1>3, <1>4
<1>7. PICK n \in Nat : n = visit.n /\ n = Next1(chain, h.id)
  BY <1>2, <1>3, <1>4, <1>6 DEF WalkSound, chain
<1>8. \/ n = 0 /\ \A g \in ToSet(chain) : ~Before(h, g)
      \/ \E f \in ToSet(chain) : f.id = n /\ Before(h, f) /\ \A g \in ToSet(chain) : Before(h, g) => ~Before(g, f)
  BY <1>3, <1>4, <1>7, NextFacts
<1>9. /\ visit' \in Visits /\ visit'.st = "calling" /\ visit'.key = visit.key /\ visit'.msg = visit.msg
      /\ visit'.p = visit.p /\ visit'.n = n /\ visit'.due = visit.due
      /\ visit'.called = IF Matches(h, visit.msg) THEN Append(visit.called, h.id) ELSE visit.called
  <2> DEFINE called == IF Matches(h, visit.msg) THEN Append(visit.called, h.id) ELSE visit.called
  <2>1. called \in Seq(Nat)
    <3>1. visit.called \in Seq(Nat)
      BY <1>2 DEF Visits
    <3>2. Append(visit.called, h.id) \in Seq(Nat)
      BY <1>6, <3>1
    <3> QED  BY <3>1, <3>2
  <2>2. visit' = [visit EXCEPT !.st = "calling", !.called = called]
    BY <1>5
  <2> HIDE DEF called
  <2>3. /\ visit' \in Visits /\ visit'.st = "calling" /\ visit'.key = visit.key /\ visit'.msg = visit.msg
        /\ visit'.p = visit.p /\ visit'.n = visit.n /\ visit'.due = visit.due /\ visit'.called = called
    BY <1>2, <2>1, <2>2 DEF Visits
  <2> QED  BY <1>7, <2>3 DEF called
<1>10. Cursor = h.id /\ Cursor' = n
  BY <1>2, <1>4, <1>9 DEF Cursor
<1>11. Coming(h) /\ ~Coming(h)'
  <2>1. ~Before(h, h)
    BY <1>6, BeforeFacts
  <2>2. Coming(h)
    BY <1>2, <1>6, <1>10, <2>1 DEF Coming
  <2>3. ASSUME NEW g \in Subscribed, g.member = visit.key, g.id = n  PROVE Before(h, g)
    <3>1. g \in ToSet(chain) /\ n # 0
      BY <1>3, <2>3
    <3> QED  BY <1>3, <1>8, <2>3, <3>1
  <2>4. ~Coming(h)'
    <3>1. ~\E g \in Subscribed : g.member = visit.key /\ g.id = n /\ ~Before(h, g)
      BY <2>3
    <3> QED  BY <1>1, <1>6, <1>9, <1>10, <3>1 DEF Coming
  <2> QED  BY <2>2, <2>4
<1>12. ASSUME NEW g \in Subscribed, g # h  PROVE g.id # h.id /\ (Coming(g)' <=> Coming(g))
  <2>1. g.id # h.id
    BY <1>6, <1>12 DEF HandlersInOrder
  <2>2. g \in KnownHandlers
    BY <1>3
  <2>3. ASSUME g.member = visit.key
        PROVE  (\E f \in Subscribed : f.member = visit.key /\ f.id = n /\ ~Before(g, f)) <=> ~Before(g, h)
    <3>1. g \in ToSet(chain)
      BY <1>3, <2>3
    <3>2. CASE n = 0
      <4>1. ~Before(h, g)
        <5>1. ~\E f \in ToSet(chain) : f.id = n
          BY <1>3, <3>2
        <5> QED  BY <1>8, <3>1, <5>1
      <4>2. Before(g, h)
        BY <1>6, <2>1, <2>2, <4>1, BeforeFacts
      <4>3. ~\E f \in Subscribed : f.id = n
        BY <1>3, <3>2
      <4> QED  BY <4>2, <4>3
    <3>3. CASE n # 0
      <4>1. PICK f \in ToSet(chain) : /\ f.id = n /\ Before(h, f)
                                      /\ \A i \in ToSet(chain) : Before(h, i) => ~Before(i, f)
        BY <1>8, <3>3
      <4>2. f \in Subscribed /\ f \in KnownHandlers /\ f.member = visit.key
        BY <1>3
      <4>3. \A i \in Subscribed : i.member = visit.key /\ i.id = n => i = f
        BY <4>1, <4>2 DEF HandlersInOrder
      <4>4. ~Before(g, h) => ~Before(g, f)
        BY <1>6, <2>1, <2>2, <3>1, <4>1, BeforeFacts
      <4>5. Before(g, h) => Before(g, f)
        BY <1>6, <2>2, <4>1, <4>2, BeforeFacts
      <4> QED  BY <4>1, <4>2, <4>3, <4>4, <4>5
    <3> QED  BY <3>2, <3>3
  <2>4. ASSUME g.member = visit.key
        PROVE  (\E f \in Subscribed : f.member = visit.key /\ f.id = h.id /\ ~Before(g, f)) <=> ~Before(g, h)
    <3>1. \A f \in Subscribed : f.id = h.id => f = h
      BY <1>6 DEF HandlersInOrder
    <3> QED  BY <1>6, <3>1
  <2>5. Coming(g)' <=> Coming(g)
    BY <1>1, <1>2, <1>9, <1>10, <2>3, <2>4 DEF Coming
  <2> QED  BY <2>1, <2>5
<1>13. ASSUME NEW g \in Subscribed', g.id \in visit'.due
       PROVE  Matches(g, visit'.msg) /\ IF Coming(g)' THEN NotCalled(g.id)' ELSE CalledOnce(g.id)'
  <2>1. g \in Subscribed /\ g.id \in visit.due
    BY <1>1, <1>9, <1>13
  <2>2. Matches(g, visit.msg) /\ IF Coming(g) THEN NotCalled(g.id) ELSE CalledOnce(g.id)
    BY <1>2, <2>1 DEF WalkSound
  <2>3. PICK x \in Nat : x = h.id
    BY <1>6
  <2>4. PICK y \in Nat : y = g.id
    BY <1>3, <2>1
  <2>5. CASE g = h
    <3>1. visit'.called = Append(visit.called, x) /\ NotCalled(x)
      BY <1>9, <1>11, <2>2, <2>3, <2>5
    <3>2. CalledOnce(x)'
      BY <1>2, <3>1, CalledFacts
    <3> QED  BY <1>9, <1>11, <2>2, <2>3, <2>5, <3>2
  <2>6. CASE g # h
    <3>1. y # x /\ (Coming(g)' <=> Coming(g))
      BY <1>12, <2>1, <2>3, <2>4, <2>6
    <3>2. (NotCalled(y)' <=> NotCalled(y)) /\ (CalledOnce(y) => CalledOnce(y)')
      <4>1. CASE visit'.called = visit.called
        BY <4>1 DEF NotCalled, CalledOnce
      <4>2. CASE visit'.called = Append(visit.called, x)
        BY <1>2, <3>1, <4>2, CalledFacts
      <4> QED  BY <1>9, <2>3, <4>1, <4>2
    <3> QED  BY <1>9, <2>2, <2>4, <3>1, <3>2
  <2> QED  BY <2>5, <2>6
<1>14. WalkSound'
  <2>1. visit'.key \in {visit'.msg.member, AnyName}
    BY <1>2, <1>9 DEF WalkSound
  <2>2. \A x \in visit'.due : \E g \in Subscribed' : g.id = x
    BY <1>1, <1>2, <1>9 DEF WalkSound
  <2>3. OnChain(visit.n)' /\ visit'.n # visit'.p
    <3>1. CASE n = 0
      BY <1>4, <1>6, <1>9, <3>1 DEF OnChain
    <3>2. CASE n # 0
      <4>1. PICK f \in ToSet(chain) : f.id = n /\ Before(h, f)
        BY <1>8, <3>2
      <4>2. f \in Subscribed /\ f.member = visit.key /\ f \in KnownHandlers
        BY <1>3
      <4>3. f # h
        BY <1>6, <4>1, <4>2, BeforeFacts
      <4>4. f.id # h.id
        BY <1>6, <4>2, <4>3 DEF HandlersInOrder
      <4> QED  BY <1>1, <1>4, <1>9, <4>1, <4>2, <4>4 DEF OnChain
    <3> QED  BY <3>1, <3>2
  <2> QED  BY <1>9, <1>13, <2>1, <2>2, <2>3 DEF WalkSound
<1>15. SignalsVisit'
  BY <1>9, <1>14 DEF SignalsVisit
<1> QED  BY <1>1, <1>15

LEMMA NextHandlerStep ==
    ASSUME HandlersInv, NextHandler
    PROVE  HandlersInv'
<1> USE DEF HandlersInv
<1> DEFINE chain == Chain(signals, visit.key)
<1>1. HandlersInOrder' /\ RulesCounted' /\ Subscribed' = Subscribed
  BY RestFacts DEF NextHandler, Rest
<1>2. visit.st = "calling" /\ visit \in Visits /\ WalkSound /\ signals' = signals
  BY DEF NextHandler, SignalsVisit, Rest
<1>3. /\ Next1(chain, 0) = 0
      /\ \A g \in Subscribed : g.member = visit.key => Next1(chain, g.id) \in Nat
  BY WalkChain
<1>4. PICK n \in Nat : n = visit.n
  BY <1>2 DEF Visits
<1>5. visit' = [visit EXCEPT !.p = n, !.st = "walk", !.n = IF n = 0 THEN 0 ELSE Next1(chain, n)]
  BY <1>4 DEF NextHandler
<1> HIDE DEF chain
<1>6. (IF n = 0 THEN 0 ELSE Next1(chain, n)) = Next1(chain, n) /\ Next1(chain, n) \in Nat
  <2>1. n = 0 \/ \E g \in Subscribed : g.member = visit.key /\ g.id = n
    BY <1>2, <1>4 DEF WalkSound, OnChain
  <2> QED  BY <1>3, <2>1
<1>7. /\ visit' \in Visits /\ visit'.st = "walk" /\ visit'.key = visit.key /\ visit'.msg = visit.msg
      /\ visit'.p = n /\ visit'.n = Next1(chain, n) /\ visit'.due = visit.due /\ visit'.called = visit.called
  <2>1. visit' = [visit EXCEPT !.p = n, !.st = "walk", !.n = Next1(chain, n)]
    BY <1>5, <1>6
  <2> QED  BY <1>2, <1>6, <2>1 DEF Visits
<1>8. ASSUME NEW g  PROVE Coming(g)' <=> Coming(g)
  <2>1. Cursor = n /\ Cursor' = n
    BY <1>2, <1>4, <1>7 DEF Cursor
  <2> QED  BY <1>1, <1>2, <1>7, <2>1 DEF Coming
<1>9. ASSUME NEW x  PROVE (NotCalled(x)' <=> NotCalled(x)) /\ (CalledOnce(x)' <=> CalledOnce(x))
  BY <1>7 DEF NotCalled, CalledOnce
<1>10. WalkSound'
  <2>1. visit'.key \in {visit'.msg.member, AnyName} /\ \A x \in visit'.due : \E g \in Subscribed' : g.id = x
    BY <1>1, <1>2, <1>7 DEF WalkSound
  <2>2. ASSUME NEW g \in Subscribed', g.id \in visit'.due
        PROVE  Matches(g, visit'.msg) /\ IF Coming(g)' THEN NotCalled(g.id)' ELSE CalledOnce(g.id)'
    BY <1>1, <1>2, <1>7, <1>8, <1>9, <2>2 DEF WalkSound
  <2>3. OnChain(visit.p)' /\ visit'.n = Next1(Chain(signals, visit.key), visit.p)'
    BY <1>1, <1>2, <1>4, <1>7 DEF WalkSound, OnChain, chain
  <2> QED  BY <1>7, <2>1, <2>2, <2>3 DEF WalkSound
<1>11. SignalsVisit'
  BY <1>7, <1>10 DEF SignalsVisit
<1> QED  BY <1>1, <1>11

LEMMA EndChainStep ==
    ASSUME HandlersInv, EndChain
    PROVE  HandlersInv'
<1> USE DEF HandlersInv
<1>1. HandlersInOrder' /\ RulesCounted' /\ Subscribed' = Subscribed
  BY RestFacts DEF EndChain, Rest
<1>2. visit.st = "walk" /\ visit.p = 0 /\ visit \in Visits /\ WalkSound /\ signals' = signals
  BY DEF EndChain, SignalsVisit, Rest
<1>3. \A h \in Subscribed : h.id # 0
  BY WalkChain
<1>4. ASSUME NEW h  PROVE Coming(h) <=> visit.key # AnyName /\ h.member = AnyName
  <2>1. Cursor = 0
    BY <1>2 DEF Cursor
  <2>2. ~\E g \in Subscribed : g.member = visit.key /\ g.id = 0 /\ ~Before(h, g)
    BY <1>3
  <2> QED  BY <1>2, <2>1, <2>2 DEF Coming
<1>5. CASE visit.key # AnyName
  <2>1. visit' = Enter(visit, AnyName)
    BY <1>5 DEF EndChain
  <2>2. /\ visit' \in Visits /\ visit'.st = "walk" /\ visit'.key = AnyName
        /\ visit'.msg = visit.msg /\ visit'.called = visit.called /\ visit'.due = visit.due
        /\ OnChain(visit.p)' /\ visit'.n = Next1(Chain(signals, AnyName), visit'.p)
        /\ \A h \in Subscribed : Coming(h)' <=> h.member = AnyName
    BY <1>2, <2>1, EnterFacts
  <2>3. ASSUME NEW x  PROVE (NotCalled(x)' <=> NotCalled(x)) /\ (CalledOnce(x)' <=> CalledOnce(x))
    BY <2>2 DEF NotCalled, CalledOnce
  <2>4. ASSUME NEW g \in Subscribed', g.id \in visit'.due
        PROVE  Matches(g, visit'.msg) /\ IF Coming(g)' THEN NotCalled(g.id)' ELSE CalledOnce(g.id)'
    <3>1. Coming(g)' <=> Coming(g)
      BY <1>1, <1>4, <1>5, <2>2
    <3> QED  BY <1>1, <1>2, <2>2, <2>3, <2>4, <3>1 DEF WalkSound
  <2>5. \A x \in visit'.due : \E g \in Subscribed' : g.id = x
    BY <1>1, <1>2, <2>2 DEF WalkSound
  <2>6. WalkSound'
    BY <1>2, <2>2, <2>4, <2>5 DEF WalkSound
  <2> QED  BY <1>1, <2>2, <2>6 DEF SignalsVisit
<1>6. CASE visit.key = AnyName
  <2>1. visit' = [visit EXCEPT !.st = "end"]
    BY <1>6 DEF EndChain
  <2>2. /\ visit' \in Visits /\ visit'.st = "end" /\ visit'.key = visit.key
        /\ visit'.msg = visit.msg /\ visit'.called = visit.called /\ visit'.due = visit.due
    BY <1>2, <2>1 DEF Visits
  <2>3. ASSUME NEW x  PROVE CalledOnce(x)' <=> CalledOnce(x)
    BY <2>2 DEF CalledOnce
  <2>4. ASSUME NEW g \in Subscribed', g.id \in visit'.due
        PROVE  Matches(g, visit'.msg) /\ IF Coming(g)' THEN NotCalled(g.id)' ELSE CalledOnce(g.id)'
    <3>1. ~Coming(g)' /\ ~Coming(g)
      BY <1>4, <1>6, <2>2 DEF Coming
    <3> QED  BY <1>1, <1>2, <2>2, <2>3, <2>4, <3>1 DEF WalkSound
  <2>5. visit'.key \in {visit'.msg.member, AnyName} /\ \A x \in visit'.due : \E g \in Subscribed' : g.id = x
    BY <1>1, <1>2, <2>2 DEF WalkSound
  <2>6. WalkSound'
    BY <2>2, <2>4, <2>5 DEF WalkSound
  <2> QED  BY <1>1, <2>2, <2>6 DEF SignalsVisit
<1> QED  BY <1>5, <1>6

LEMMA EndSignalStep ==
    ASSUME HandlersInv, EndSignal
    PROVE  HandlersInv'
<1>1. HandlersInOrder' /\ RulesCounted'
  BY RestFacts DEF EndSignal, Rest
<1>2. Quiet \in Visits /\ Quiet.st = "quiet"
  BY DEF Quiet, Visits
<1>3. SignalsVisit'
  BY <1>2 DEF EndSignal, SignalsVisit
<1> QED  BY <1>1, <1>3 DEF HandlersInv

LEMMA HandlersNextInv == HandlersInv /\ [HandlersNext]_handlerVars => HandlersInv'
<1> SUFFICES ASSUME HandlersInv, [HandlersNext]_handlerVars  PROVE HandlersInv'
  OBVIOUS
<1>1. ASSUME NEW c \in Subscribers, NEW r \in Patterns, ExportMethod(c, r)  PROVE HandlersInv'
  BY <1>1, ExportStep
<1>2. ASSUME NEW c \in Subscribers, NEW r \in Patterns, RemoveMethod(c, r)  PROVE HandlersInv'
  BY <1>2, RemoveMethodStep
<1>3. ASSUME NEW c \in Subscribers, NEW r \in Patterns, Unsubscribe(c, r)  PROVE HandlersInv'
  BY <1>3, UnsubscribeStep
<1>4. ASSUME NEW c \in Subscribers, NEW r \in Patterns, NEW ok \in BOOLEAN, Subscribe(c, r, ok)  PROVE HandlersInv'
  BY <1>4, SubscribeStep
<1>5. ASSUME NEW m \in Requests, StartSignal(m)  PROVE HandlersInv'
  BY <1>5, StartSignalStep
<1>6. CASE CallHandler
  BY <1>6, CallHandlerStep
<1>7. CASE NextHandler
  BY <1>7, NextHandlerStep
<1>8. CASE EndChain
  BY <1>8, EndChainStep
<1>9. CASE EndSignal
  BY <1>9, EndSignalStep
<1>10. CASE Purge
  BY <1>10, PurgeStep
<1>11. CASE UNCHANGED handlerVars
  BY <1>11, RestFacts, VisitUnchanged DEF HandlersInv, handlerVars
<1> QED  BY <1>1, <1>2, <1>3, <1>4, <1>5, <1>6, <1>7, <1>8, <1>9, <1>10, <1>11 DEF HandlersNext

\* At the end of a walk every handler that was due has been called once.
LEMMA AllReached == HandlersInv => SignalReachesAll
<1> SUFFICES ASSUME HandlersInv, visit.st = "end", NEW x \in visit.due
             PROVE  Cardinality({j \in DOMAIN visit.called : visit.called[j] = x}) = 1
  BY DEF SignalReachesAll
<1>1. WalkSound
  BY DEF HandlersInv, SignalsVisit
<1>2. PICK h \in Subscribed : h.id = x
  BY <1>1 DEF WalkSound
<1>3. CalledOnce(x)
  <2>1. ~Coming(h)
    BY DEF Coming
  <2> QED  BY <1>1, <1>2, <2>1 DEF WalkSound
<1>4. PICK j \in DOMAIN visit.called : \A i \in DOMAIN visit.called : visit.called[i] = x <=> i = j
  BY <1>3 DEF CalledOnce
<1>5. {i \in DOMAIN visit.called : visit.called[i] = x} = {j}
  BY <1>4
<1> QED  BY <1>5, FS_Singleton

\* Methods and signals reach the handlers they are for, for any clients, names,
\* requests, handlers and signals.
THEOREM HandlersAlwaysReached == HandlersSpec => []HandlersAreReached
<1>1. HandlersInv => HandlersAreReached
  BY BestReached, AllReached DEF HandlersInv, RulesCounted, HandlersAreReached
<1> QED  BY <1>1, InitHandlers, HandlersNextInv, PTL DEF HandlersSpec

--------------------------------------------------------------------------------
(* The messages that travel: what is in the buffer, and what the decoder has *)
(* read of it.                                                               *)

MsgFields == {r \in AskedFields : Valid(r)}
WireVals  == Nat \cup {r.tag : r \in AskedFields} \cup {[base |-> r.base, array |-> r.array] : r \in AskedFields}
                 \cup UNION {ToSet(r.vals) : r \in AskedFields}
WireItems == [w : Nat, v : WireVals]

LEMMA ItemFacts == \A w, v : /\ Item(w, v).w = w /\ Item(w, v).v = v
                             /\ w \in Nat /\ v \in WireVals => Item(w, v) \in WireItems
BY DEF Item, WireItems

LEMMA FieldFacts ==
    ASSUME NEW f \in MsgFields
    PROVE  /\ f = [tag |-> f.tag, base |-> f.base, array |-> f.array, vals |-> f.vals]
           /\ f.array \in BOOLEAN /\ f.vals \in Seq(ToSet(f.vals))
           /\ Len(f.vals) \in Nat /\ DOMAIN f.vals = 1 .. Len(f.vals)
           /\ ~f.array => Len(f.vals) = 1
           /\ f.base \in Sized => \A k \in 1 .. Len(f.vals) : f.vals[k] \in Nat
           /\ f.base \notin Sized => Width[f.base] \in Nat \ {0}
           /\ f.tag \in WireVals /\ [base |-> f.base, array |-> f.array] \in WireVals
           /\ \A k \in 1 .. Len(f.vals) : f.vals[k] \in WireVals
           /\ FieldBlocks(f) \in Nat
<1>1. /\ f \in AskedFields /\ Valid(f)
  BY DEF MsgFields
<1>2. /\ f = [tag |-> f.tag, base |-> f.base, array |-> f.array, vals |-> f.vals]
      /\ f.array \in BOOLEAN /\ f.vals \in Seq(ToSet(f.vals))
      /\ ~f.array => Len(f.vals) = 1
      /\ f.base \in Sized => ToSet(f.vals) \subseteq Nat
  BY Zenon, <1>1, MessageAssumption
<1>3. Len(f.vals) \in Nat /\ DOMAIN f.vals = 1 .. Len(f.vals)
  BY <1>2
<1>4. \A k \in 1 .. Len(f.vals) : f.vals[k] \in ToSet(f.vals)
  BY <1>3 DEF ToSet
<1>5. f.base \notin Sized => Width[f.base] \in Nat \ {0}
  <2>1. f.base \notin Sized => f.base \in DOMAIN Width
    BY <1>1 DEF Valid, Sized
  <2>2. \A b \in DOMAIN Width : Width[b] \in Nat \ {0}
    BY DEF Width
  <2> QED  BY <2>1, <2>2
<1>6. /\ f.tag \in WireVals /\ [base |-> f.base, array |-> f.array] \in WireVals
      /\ ToSet(f.vals) \subseteq WireVals
  BY <1>1 DEF WireVals
<1>7. FieldBlocks(f) \in Nat
  <2> DEFINE a == IF f.array \/ f.base \in Sized THEN 1 ELSE 0
             b == IF f.array /\ f.base = "string" THEN Len(f.vals) ELSE 0
  <2>1. a \in Nat /\ b \in Nat
    BY <1>3
  <2>2. FieldBlocks(f) = 1 + a + b
    BY DEF FieldBlocks
  <2> HIDE DEF a, b
  <2> QED  BY <2>1, <2>2
<1> QED  BY <1>2, <1>3, <1>4, <1>5, <1>6, <1>7

\* What a field is on the wire.
HeadLen(f) == IF f.array THEN 3 ELSE 2
Per(f) == IF f.base \in Sized THEN 2 ELSE 1
Span(f) == HeadLen(f) + Per(f) * Len(f.vals)

LEMMA WireValuesFacts ==
    ASSUME NEW f \in MsgFields
    PROVE  /\ WireValues(f.base, f.vals) \in Seq(WireItems)
           /\ Len(WireValues(f.base, f.vals)) = Per(f) * Len(f.vals)
           /\ \A k \in 1 .. Len(f.vals) :
                 IF f.base \in Sized
                 THEN /\ WireValues(f.base, f.vals)[2 * k - 1] = Item(4, f.vals[k])
                      /\ WireValues(f.base, f.vals)[2 * k] = Item(f.vals[k], f.vals[k])
                 ELSE WireValues(f.base, f.vals)[k] = Item(Width[f.base], f.vals[k])
<1> DEFINE n == Len(f.vals)
<1>1. n \in Nat
  BY FieldFacts
<1>2. CASE f.base \in Sized
  <2> DEFINE it(k) == LET v == f.vals[(k + 1) \div 2] IN Item(IF k % 2 = 1 THEN 4 ELSE v, v)
  <2>1. WireValues(f.base, f.vals) = [k \in 1 .. 2 * n |-> it(k)]
    BY <1>2 DEF WireValues
  <2>2. ASSUME NEW k \in 1 .. 2 * n  PROVE it(k) \in WireItems
    <3>1. (k + 1) \div 2 \in 1 .. n
      BY <1>1
    <3>2. f.vals[(k + 1) \div 2] \in Nat /\ f.vals[(k + 1) \div 2] \in WireVals
      BY <1>2, <3>1, FieldFacts
    <3> QED  BY <3>2, ItemFacts
  <2>3. ASSUME NEW k \in 1 .. n  PROVE it(2 * k - 1) = Item(4, f.vals[k]) /\ it(2 * k) = Item(f.vals[k], f.vals[k])
    <3>1. ((2 * k - 1) + 1) \div 2 = k /\ (2 * k + 1) \div 2 = k /\ (2 * k - 1) % 2 = 1 /\ (2 * k) % 2 # 1
      BY <1>1
    <3> QED  BY <3>1
  <2>4. \A k \in 1 .. n : 2 * k - 1 \in 1 .. 2 * n /\ 2 * k \in 1 .. 2 * n
    BY <1>1
  <2>5. 2 * n \in Nat /\ Per(f) = 2
    BY <1>1, <1>2 DEF Per
  <2> HIDE DEF it, n
  <2>6. /\ [k \in 1 .. 2 * n |-> it(k)] \in Seq(WireItems)
        /\ Len([k \in 1 .. 2 * n |-> it(k)]) = 2 * n
    BY <2>2, <2>5
  <2>7. \A k \in 1 .. n : /\ [j \in 1 .. 2 * n |-> it(j)][2 * k - 1] = Item(4, f.vals[k])
                          /\ [j \in 1 .. 2 * n |-> it(j)][2 * k] = Item(f.vals[k], f.vals[k])
    BY Zenon, <2>3, <2>4
  <2> QED  BY <1>2, <2>1, <2>5, <2>6, <2>7 DEF n
<1>3. CASE f.base \notin Sized
  <2>1. WireValues(f.base, f.vals) = [k \in 1 .. n |-> Item(Width[f.base], f.vals[k])]
    BY <1>3 DEF WireValues
  <2>2. \A k \in 1 .. n : Item(Width[f.base], f.vals[k]) \in WireItems
    BY <1>3, FieldFacts, ItemFacts
  <2>3. Per(f) * n = n
    BY <1>1, <1>3 DEF Per
  <2> HIDE DEF n
  <2>4. /\ [k \in 1 .. n |-> Item(Width[f.base], f.vals[k])] \in Seq(WireItems)
        /\ Len([k \in 1 .. n |-> Item(Width[f.base], f.vals[k])]) = n
    BY <1>1, <2>2
  <2> QED  BY <1>3, <2>1, <2>3, <2>4 DEF n
<1> QED  BY <1>2, <1>3

LEMMA WireFieldFacts ==
    ASSUME NEW f \in MsgFields
    PROVE  /\ WireField(f) \in Seq(WireItems) /\ Len(WireField(f)) = Span(f) /\ Span(f) \in Nat
           /\ WireField(f)[1] = Item(2, f.tag)
           /\ WireField(f)[2] = Item(2, [base |-> f.base, array |-> f.array])
           /\ f.array => WireField(f)[3] = Item(4, Len(f.vals))
           /\ \A k \in 1 .. Len(f.vals) :
                 IF f.base \in Sized
                 THEN /\ WireField(f)[HeadLen(f) + 2 * k - 1] = Item(4, f.vals[k])
                      /\ WireField(f)[HeadLen(f) + 2 * k] = Item(f.vals[k], f.vals[k])
                 ELSE WireField(f)[HeadLen(f) + k] = Item(Width[f.base], f.vals[k])
<1> DEFINE a == <<Item(2, f.tag), Item(2, [base |-> f.base, array |-> f.array])>>
           b == IF f.array THEN <<Item(4, Len(f.vals))>> ELSE <<>>
           c == WireValues(f.base, f.vals)
           h == a \o b
           n == Len(f.vals)
<1>1. /\ a \in Seq(WireItems) /\ Len(a) = 2 /\ a[1] = Item(2, f.tag)
      /\ a[2] = Item(2, [base |-> f.base, array |-> f.array])
  <2>1. Item(2, f.tag) \in WireItems /\ Item(2, [base |-> f.base, array |-> f.array]) \in WireItems
    BY FieldFacts, ItemFacts
  <2> QED  BY <2>1
<1>2. /\ b \in Seq(WireItems) /\ Len(b) = IF f.array THEN 1 ELSE 0
      /\ f.array => b[1] = Item(4, Len(f.vals))
  <2>1. Item(4, Len(f.vals)) \in WireItems
    <3>1. Len(f.vals) \in WireVals
      BY FieldFacts DEF WireVals
    <3> QED  BY <3>1, ItemFacts
  <2> QED  BY <2>1
<1>3. /\ c \in Seq(WireItems) /\ Len(c) = Per(f) * n
      /\ \A k \in 1 .. n : IF f.base \in Sized
                           THEN c[2 * k - 1] = Item(4, f.vals[k]) /\ c[2 * k] = Item(f.vals[k], f.vals[k])
                           ELSE c[k] = Item(Width[f.base], f.vals[k])
  BY WireValuesFacts
<1>4. WireField(f) = h \o c
  BY DEF WireField
<1>5. n \in Nat /\ f.array \in BOOLEAN
  BY FieldFacts
<1> HIDE DEF a, b, c, n
<1>6. /\ h \in Seq(WireItems) /\ Len(h) = HeadLen(f)
      /\ h[1] = Item(2, f.tag) /\ h[2] = Item(2, [base |-> f.base, array |-> f.array])
      /\ f.array => h[3] = Item(4, Len(f.vals))
  <2>1. /\ h \in Seq(WireItems) /\ Len(h) = Len(a) + Len(b)
        /\ \A i \in 1 .. Len(a) + Len(b) : h[i] = IF i <= Len(a) THEN a[i] ELSE b[i - Len(a)]
    BY <1>1, <1>2, ConcatProperties
  <2> QED  BY <1>1, <1>2, <1>5, <2>1 DEF HeadLen
<1> HIDE DEF h
<1>7. HeadLen(f) \in {2, 3} /\ (f.array => HeadLen(f) = 3) /\ Per(f) \in {1, 2} /\ (f.base \in Sized <=> Per(f) = 2)
  BY DEF HeadLen, Per
<1>8. Per(f) * n \in Nat /\ Span(f) = HeadLen(f) + Per(f) * n /\ (Per(f) = 2 => Per(f) * n = 2 * n) /\ (Per(f) # 2 => Per(f) * n = n)
  BY <1>5, <1>7 DEF Span, n
<1>9. /\ h \o c \in Seq(WireItems) /\ Len(h \o c) = Len(h) + Len(c)
      /\ \A i \in 1 .. Len(h) + Len(c) : (h \o c)[i] = IF i <= Len(h) THEN h[i] ELSE c[i - Len(h)]
  BY <1>3, <1>6, ConcatProperties
<1>10. Len(h) = HeadLen(f) /\ Len(c) = Per(f) * n
  BY <1>3, <1>6
<1>11. /\ (h \o c)[1] = h[1] /\ (h \o c)[2] = h[2] /\ (f.array => (h \o c)[3] = h[3])
  BY <1>7, <1>8, <1>9, <1>10
<1>12. ASSUME NEW j \in 1 .. Len(c)  PROVE (h \o c)[HeadLen(f) + j] = c[j]
  BY <1>7, <1>8, <1>9, <1>10, <1>12
<1>13. ASSUME NEW k \in 1 .. n
       PROVE  IF f.base \in Sized
              THEN /\ (h \o c)[HeadLen(f) + 2 * k - 1] = Item(4, f.vals[k])
                   /\ (h \o c)[HeadLen(f) + 2 * k] = Item(f.vals[k], f.vals[k])
              ELSE (h \o c)[HeadLen(f) + k] = Item(Width[f.base], f.vals[k])
  <2>1. CASE f.base \in Sized
    <3>1. 2 * k - 1 \in 1 .. Len(c) /\ 2 * k \in 1 .. Len(c) /\ HeadLen(f) + 2 * k - 1 = HeadLen(f) + (2 * k - 1)
      BY <1>5, <1>7, <1>8, <1>10, <2>1
    <3> QED  BY <1>3, <1>12, <2>1, <3>1
  <2>2. CASE f.base \notin Sized
    <3>1. k \in 1 .. Len(c)
      BY <1>5, <1>7, <1>8, <1>10, <2>2
    <3> QED  BY <1>3, <1>12, <2>2, <3>1
  <2> QED  BY <2>1, <2>2
<1>14. Span(f) \in Nat /\ Len(h \o c) = Span(f)
  BY <1>7, <1>8, <1>9, <1>10
<1> QED  BY <1>4, <1>6, <1>9, <1>11, <1>13, <1>14 DEF n

Widths(items) == [k \in DOMAIN items |-> items[k].w]

LEMMA BytesFacts ==
    ASSUME NEW items \in Seq(WireItems)
    PROVE  /\ Bytes(items) = Upto(Widths(items), Len(items)) /\ Bytes(items) \in Nat
           /\ \A k \in 1 .. Len(items) : Widths(items)[k] = items[k].w /\ items[k].w \in Nat
<1>1. Len(items) \in Nat /\ DOMAIN items = 1 .. Len(items) /\ \A k \in 1 .. Len(items) : items[k] \in WireItems
  OBVIOUS
<1>2. \A k \in 1 .. Len(items) : Widths(items)[k] = items[k].w /\ items[k].w \in Nat
  BY <1>1 DEF Widths, WireItems
<1>3. DOMAIN Widths(items) = 1 .. Len(items)
  BY <1>1 DEF Widths
<1>4. Bytes(items) = SumFunction(Widths(items))
  BY DEF Bytes, Widths
<1>5. Bytes(items) = Upto(Widths(items), Len(items))
  BY <1>3, <1>4 DEF SumFunction, Upto
<1>6. Upto(Widths(items), Len(items)) \in Nat
  BY <1>1, <1>2, UptoGrows
<1> QED  BY <1>2, <1>5, <1>6

LEMMA BytesAppend ==
    ASSUME NEW items \in Seq(WireItems), NEW it \in WireItems
    PROVE  Bytes(Append(items, it)) = Bytes(items) + it.w
<1> DEFINE a == Append(items, it)
           n == Len(items)
<1>1. /\ a \in Seq(WireItems) /\ Len(a) = n + 1 /\ n \in Nat
      /\ (\A i \in 1 .. n : a[i] = items[i]) /\ a[n + 1] = it
  OBVIOUS
<1> HIDE DEF a, n
<1>2. /\ Bytes(a) = Upto(Widths(a), n + 1)
      /\ \A k \in 1 .. n + 1 : Widths(a)[k] = a[k].w /\ a[k].w \in Nat
  BY <1>1, BytesFacts
<1>3. /\ Bytes(items) = Upto(Widths(items), n) /\ Bytes(items) \in Nat
      /\ \A k \in 1 .. n : Widths(items)[k] = items[k].w /\ items[k].w \in Nat
  BY BytesFacts DEF n
<1>4. Upto(Widths(a), n + 1) = Upto(Widths(a), n) + Widths(a)[n + 1]
  <2>1. n + 1 \in Nat /\ n + 1 > 0 /\ (n + 1) - 1 = n
    BY <1>1
  <2>2. ASSUME NEW k \in 1 .. n + 1  PROVE Widths(a)[k] \in Int
    <3>1. Widths(a)[k] = a[k].w /\ a[k].w \in Nat
      BY <1>2
    <3> QED  BY <3>1
  <2> QED  BY <2>1, <2>2, UptoFacts
<1>5. Upto(Widths(a), n) = Upto(Widths(items), n)
  <2>1. ASSUME NEW k \in 1 .. n  PROVE Widths(items)[k] \in Int /\ Widths(a)[k] = Widths(items)[k]
    <3>1. k \in 1 .. n + 1 /\ a[k] = items[k]
      BY <1>1
    <3>2. Widths(a)[k] = a[k].w
      BY <1>2, <3>1
    <3>3. Widths(items)[k] = items[k].w /\ items[k].w \in Nat
      BY <1>3
    <3> QED  BY <3>1, <3>2, <3>3
  <2> QED  BY <1>1, <2>1, UptoFacts
<1>6. Widths(a)[n + 1] = it.w
  BY <1>1, <1>2
<1> QED  BY <1>2, <1>3, <1>4, <1>5, <1>6 DEF a

Buffers == {b \in [items : Seq(WireItems), size : Int, l : Int] :
                b.l >= 0 /\ b.l = b.size - Bytes(b.items)}

LEMMA BufferUpdates ==
    ASSUME NEW T, NEW b \in [items : T, size : Int, l : Int], NEW x \in Int, NEW y \in Int, NEW z \in T
    PROVE  /\ [b EXCEPT !.size = x, !.l = y] \in [items : T, size : Int, l : Int]
           /\ [b EXCEPT !.size = x, !.l = y].items = b.items
           /\ [b EXCEPT !.size = x, !.l = y].size = x
           /\ [b EXCEPT !.size = x, !.l = y].l = y
           /\ [b EXCEPT !.l = y, !.items = z] \in [items : T, size : Int, l : Int]
           /\ [b EXCEPT !.l = y, !.items = z].items = z
           /\ [b EXCEPT !.l = y, !.items = z].size = b.size
           /\ [b EXCEPT !.l = y, !.items = z].l = y
OBVIOUS

\* mrp_msgbuf_ensure makes room, whatever is missing.
LEMMA PushFacts ==
    ASSUME NEW b \in Buffers, NEW it \in WireItems
    PROVE  Push(b, it) \in Buffers /\ Push(b, it).items = Append(b.items, it)
<1> DEFINE e == Ensure(b, it.w)
           p == Push(b, it)
<1>1. /\ b \in [items : Seq(WireItems), size : Int, l : Int] /\ b.l >= 0 /\ b.l = b.size - Bytes(b.items)
  BY DEF Buffers
<1>2. it.w \in Nat
  BY DEF WireItems
<1>3. /\ e \in [items : Seq(WireItems), size : Int, l : Int] /\ e.items = b.items
      /\ e.l - b.l = e.size - b.size /\ e.l >= it.w
  <2> DEFINE need == it.w - b.l
             diff == IF need < MSG_MIN_CHUNK THEN MSG_MIN_CHUNK ELSE need
  <2>1. need \in Int /\ diff \in Int /\ diff >= need
    BY <1>1, <1>2 DEF MSG_MIN_CHUNK
  <2>2. CASE need > 0
    <3>1. e = [b EXCEPT !.size = @ + diff, !.l = @ + diff]
      BY <2>2 DEF Ensure
    <3>2. b.size \in Int /\ b.l \in Int /\ b.items \in Seq(WireItems)
      BY <1>1
    <3> HIDE DEF e, diff, need
    <3>3. b.size + diff \in Int /\ b.l + diff \in Int
      BY <2>1, <3>2
    <3>4. e = [b EXCEPT !.size = b.size + diff, !.l = b.l + diff]
      BY <3>1
    <3>5. e \in [items : Seq(WireItems), size : Int, l : Int] /\ e.items = b.items /\ e.size = b.size + diff /\ e.l = b.l + diff
      BY <1>1, <3>2, <3>3, <3>4, BufferUpdates
    <3>6. need = it.w - b.l
      BY DEF need
    <3>7. e.l - b.l = e.size - b.size
      BY <2>1, <3>2, <3>5
    <3>8. e.l >= it.w
      BY <1>2, <2>1, <3>2, <3>5, <3>6
    <3> QED  BY <3>5, <3>7, <3>8
  <2>3. CASE ~(need > 0)
    <3>1. e = b
      BY <2>3 DEF Ensure
    <3> QED  BY <1>1, <1>2, <2>3, <3>1
  <2> QED  BY <2>2, <2>3
<1> HIDE DEF e
<1>4. p = [e EXCEPT !.l = @ - it.w, !.items = Append(@, it)]
  BY DEF Push, e
<1>5. /\ p \in [items : Seq(WireItems), size : Int, l : Int]
      /\ p.items = Append(b.items, it) /\ p.size = e.size /\ p.l = e.l - it.w
  <2>1. e.items \in Seq(WireItems) /\ e.l - it.w \in Int /\ e.size \in Int /\ Append(e.items, it) \in Seq(WireItems)
    BY <1>2, <1>3
  <2>2. p = [e EXCEPT !.l = e.l - it.w, !.items = Append(e.items, it)]
    BY <1>4
  <2> HIDE DEF p
  <2> QED  BY <1>3, <2>1, <2>2, BufferUpdates
<1>6. Bytes(p.items) = Bytes(b.items) + it.w /\ Bytes(b.items) \in Nat
  BY <1>1, <1>5, BytesAppend, BytesFacts
<1> HIDE DEF p
<1>7. p.l >= 0 /\ p.l = p.size - Bytes(p.items)
  <2>1. e.l \in Int /\ e.size \in Int /\ b.l \in Int /\ b.size \in Int
    BY <1>1, <1>3
  <2>2. e.l - b.l = e.size - b.size /\ e.l >= it.w /\ b.l = b.size - Bytes(b.items)
    BY <1>1, <1>3
  <2> DEFINE bytes == Bytes(b.items)
             new == Bytes(p.items)
  <2>3. bytes \in Nat /\ new = bytes + it.w /\ b.l = b.size - bytes
    BY <1>6, <2>2
  <2> HIDE DEF bytes, new
  <2>4. e.l - it.w >= 0 /\ e.l - it.w = e.size - new
    <3>1. bytes \in Int /\ it.w \in Int
      BY <1>2, <2>3
    <3>2. e.l - it.w >= 0
      BY <2>1, <2>2, <3>1
    <3>3. e.l - it.w = e.size - (bytes + it.w)
      BY <2>1, <2>2, <2>3, <3>1
    <3> QED  BY <2>3, <3>2, <3>3
  <2> QED  BY <1>5, <2>4 DEF new
<1> QED  BY <1>5, <1>7 DEF Buffers, p

LEMMA PushAllFacts ==
    ASSUME NEW b \in Buffers, NEW its \in Seq(WireItems)
    PROVE  PushAll(b, its) \in Buffers /\ PushAll(b, its).items = b.items \o its
<1> DEFINE n == Len(its)
           B(h) == [k \in 0 .. n |-> IF k = 0 THEN b ELSE Push(h[k - 1], its[k])]
           p == CHOOSE h : h = B(h)
           step == [x \in (1 .. n) \X Buffers |-> Push(x[2], its[x[1]])]
<1>1. n \in Nat /\ \A k \in 1 .. n : its[k] \in WireItems
  OBVIOUS
<1>2. IsStep(n, Buffers, b, step)
  <2>1. \A x \in (1 .. n) \X Buffers : Push(x[2], its[x[1]]) \in Buffers
    BY <1>1, PushFacts
  <2> QED  BY <1>1, <2>1 DEF IsStep
<1>3. PICK f \in [0 .. n -> Buffers] : f[0] = b /\ \A k \in 1 .. n : f[k] = step[<<k, f[k - 1]>>]
  <2> HIDE DEF step, n
  <2> QED  BY <1>2, StepsExist
<1>4. f = B(f)
  <2>1. ASSUME NEW k \in 0 .. n, k # 0  PROVE f[k] = Push(f[k - 1], its[k])
    <3>1. k \in 1 .. n /\ k - 1 \in 0 .. n
      BY <2>1
    <3>2. <<k, f[k - 1]>> \in (1 .. n) \X Buffers
      BY <3>1
    <3>3. step[<<k, f[k - 1]>>] = Push(f[k - 1], its[k])
      BY <3>2
    <3> HIDE DEF step
    <3> QED  BY <1>3, <3>1, <3>3
  <2>2. 0 \in 0 .. n
    BY <1>1
  <2> HIDE DEF step
  <2> QED  BY <1>3, <2>1, <2>2
<1>5. p = B(p)
  BY <1>4
<1>6. PushAll(b, its) = p[n]
  BY Zenon DEF PushAll
<1> HIDE DEF p
<1>7. p[0] = b /\ \A k \in 1 .. n : p[k] = Push(p[k - 1], its[k])
  <2>1. 0 \in 0 .. n /\ \A k \in 1 .. n : k \in 0 .. n /\ k # 0
    BY <1>1
  <2> QED  BY <1>5, <2>1
<1> HIDE DEF n
<1>8. b.items \in Seq(WireItems)
  BY DEF Buffers
<1> DEFINE m == Len(b.items)
           S == {k \in 0 .. n : /\ p[k] \in Buffers /\ Len(p[k].items) = m + k
                                /\ \A i \in 1 .. m : p[k].items[i] = b.items[i]
                                /\ \A i \in 1 .. k : p[k].items[m + i] = its[i]}
<1>9. m \in Nat
  BY <1>8
<1>10. 0 \in S
  BY <1>1, <1>7, <1>9
<1>11. ASSUME NEW k \in 0 .. n - 1, k \in S  PROVE k + 1 \in S
  <2>1. k + 1 \in 1 .. n /\ k + 1 \in 0 .. n /\ (k + 1) - 1 = k /\ \A i \in 1 .. k + 1 : i \in 1 .. k \/ i = k + 1
    BY <1>1
  <2>2. /\ p[k] \in Buffers /\ Len(p[k].items) = m + k
        /\ \A i \in 1 .. m : p[k].items[i] = b.items[i]
        /\ \A i \in 1 .. k : p[k].items[m + i] = its[i]
    BY <1>11
  <2>3. p[k + 1] = Push(p[k], its[k + 1]) /\ its[k + 1] \in WireItems
    BY <1>1, <1>7, <2>1
  <2>4. p[k + 1] \in Buffers /\ p[k + 1].items = Append(p[k].items, its[k + 1])
    <3>1. Push(p[k], its[k + 1]) \in Buffers /\ Push(p[k], its[k + 1]).items = Append(p[k].items, its[k + 1])
      BY <2>2, <2>3, PushFacts
    <3> QED  BY <2>3, <3>1
  <2>5. p[k].items \in Seq(WireItems)
    BY <2>2 DEF Buffers
  <2> DEFINE q == p[k].items
             r == p[k + 1].items
  <2>6. /\ Len(r) = (m + k) + 1 /\ r[(m + k) + 1] = its[k + 1]
        /\ \A i \in 1 .. m + k : r[i] = q[i]
    <3>1. q \in Seq(WireItems) /\ Len(q) = m + k /\ r = Append(q, its[k + 1])
      BY <2>2, <2>4, <2>5
    <3> HIDE DEF q, r, m
    <3> QED  BY <2>3, <3>1
  <2>7. k \in Nat
    OBVIOUS
  <2> HIDE DEF q, r, m
  <2>8. (m + k) + 1 = m + (k + 1) /\ (\A i \in 1 .. m : i \in 1 .. m + k) /\ \A i \in 1 .. k : m + i \in 1 .. m + k
    BY <1>9, <2>7
  <2>9. (\A i \in 1 .. m : r[i] = b.items[i]) /\ \A i \in 1 .. k + 1 : r[m + i] = its[i]
    BY <2>1, <2>2, <2>6, <2>8 DEF q
  <2>10. Len(r) = m + (k + 1)
    BY <2>6, <2>8
  <2> QED  BY <2>1, <2>4, <2>9, <2>10 DEF r
<1> HIDE DEF S
<1>12. n \in S
  <2>1. 0 .. n \subseteq S
    BY <1>1, <1>10, <1>11, CountingUp
  <2> QED  BY <1>1, <2>1
<1>13. /\ p[n] \in Buffers /\ Len(p[n].items) = m + n
       /\ \A i \in 1 .. m : p[n].items[i] = b.items[i]
       /\ \A i \in 1 .. n : p[n].items[m + i] = its[i]
  BY <1>12 DEF S
<1>14. p[n].items = b.items \o its
  <2> DEFINE r == p[n].items
             q == b.items \o its
  <2>1. r \in Seq(WireItems)
    BY <1>13 DEF Buffers
  <2>2. /\ q \in Seq(WireItems) /\ Len(q) = m + n
        /\ \A i \in 1 .. m + n : q[i] = IF i <= m THEN b.items[i] ELSE its[i - m]
    BY <1>8, ConcatProperties DEF n
  <2>3. Len(r) = m + n /\ (\A i \in 1 .. m : r[i] = b.items[i]) /\ \A i \in 1 .. n : r[m + i] = its[i]
    BY <1>13
  <2> HIDE DEF r, q, m
  <2>4. ASSUME NEW i \in 1 .. m + n  PROVE r[i] = q[i]
    <3>1. CASE i <= m
      BY <1>1, <1>9, <2>2, <2>3, <3>1
    <3>2. CASE ~(i <= m)
      <4>1. i - m \in 1 .. n /\ m + (i - m) = i
        BY <1>1, <1>9, <3>2
      <4> QED  BY <2>2, <2>3, <3>2, <4>1
    <3> QED  BY <3>1, <3>2
  <2> QED  BY <2>1, <2>2, <2>3, <2>4, SeqEqual DEF r, q
<1> QED  BY <1>6, <1>13, <1>14

\* Where the fields of a message begin and end in the buffer.
Spans(fs) == [j \in DOMAIN fs |-> Span(fs[j])]
Start(fs, k) == 2 + Upto(Spans(fs), k)

Written(items, fs, n) ==
    /\ items \in Seq(WireItems) /\ Len(items) = Start(fs, n)
    /\ items[1].w = 2 /\ items[2] = Item(2, Len(fs))
    /\ \A k \in 1 .. n : \A j \in 1 .. Span(fs[k]) : items[Start(fs, k - 1) + j] = WireField(fs[k])[j]

LEMMA StartFacts ==
    ASSUME NEW fs \in Seq(MsgFields)
    PROVE  /\ Start(fs, 0) = 2
           /\ \A k \in 1 .. Len(fs) : Start(fs, k) = Start(fs, k - 1) + Span(fs[k]) /\ Span(fs[k]) \in Nat
           /\ \A n \in 0 .. Len(fs) : Start(fs, n) \in Nat /\ Start(fs, n) >= 2
           /\ \A n \in 0 .. Len(fs) : \A k \in 0 .. n : Start(fs, k) <= Start(fs, n)
<1> DEFINE s == Spans(fs)
<1>1. Len(fs) \in Nat /\ DOMAIN fs = 1 .. Len(fs) /\ \A k \in 1 .. Len(fs) : fs[k] \in MsgFields
  OBVIOUS
<1>2. \A k \in 1 .. Len(fs) : s[k] = Span(fs[k]) /\ s[k] \in Nat
  BY <1>1, WireFieldFacts DEF Spans
<1> HIDE DEF s
<1>3. ASSUME NEW n \in 0 .. Len(fs)
      PROVE  Upto(s, n) \in Nat /\ \A k \in 0 .. n : Upto(s, k) \in Nat /\ Upto(s, k) <= Upto(s, n)
  <2>1. n \in Nat /\ \A i \in 1 .. n : s[i] \in Nat
    BY <1>1, <1>2
  <2> QED  BY <2>1, UptoGrows
<1>4. Upto(s, 0) = 0
  <2>1. \A i \in 1 .. Len(fs) : s[i] \in Int
    BY <1>2
  <2> QED  BY <1>1, <2>1, UptoFacts
<1>5. ASSUME NEW k \in 1 .. Len(fs)  PROVE Upto(s, k) = Upto(s, k - 1) + s[k] /\ Upto(s, k - 1) \in Nat
  <2>1. k \in Nat /\ k > 0 /\ k - 1 \in 0 .. Len(fs) /\ \A i \in 1 .. k : s[i] \in Int
    BY <1>1, <1>2
  <2> QED  BY <1>3, <2>1, UptoFacts
<1>6. \A k : Start(fs, k) = 2 + Upto(s, k)
  BY DEF Start, s
<1>7. ASSUME NEW k \in 1 .. Len(fs)  PROVE Start(fs, k) = Start(fs, k - 1) + Span(fs[k]) /\ Span(fs[k]) \in Nat
  BY <1>2, <1>5, <1>6
<1>8. ASSUME NEW n \in 0 .. Len(fs)  PROVE Start(fs, n) \in Nat /\ Start(fs, n) >= 2
  BY <1>3, <1>6
<1>9. ASSUME NEW n \in 0 .. Len(fs), NEW k \in 0 .. n  PROVE Start(fs, k) <= Start(fs, n)
  BY <1>3, <1>6
<1>10. Start(fs, 0) = 2
  BY <1>4, <1>6
<1> QED  BY <1>7, <1>8, <1>9, <1>10

LEMMA WrittenStep ==
    ASSUME NEW fs \in Seq(MsgFields), NEW n \in 0 .. Len(fs) - 1, NEW items, Written(items, fs, n)
    PROVE  Written(items \o WireField(fs[n + 1]), fs, n + 1)
<1> DEFINE f == fs[n + 1]
           w == WireField(f)
           r == items \o w
<1>1. n + 1 \in 1 .. Len(fs) /\ (n + 1) - 1 = n /\ n \in 0 .. Len(fs) /\ f \in MsgFields /\ Len(fs) \in Nat
  OBVIOUS
<1>2. w \in Seq(WireItems) /\ Len(w) = Span(f) /\ Span(f) \in Nat
  BY <1>1, WireFieldFacts
<1>3. Start(fs, n + 1) = Start(fs, n) + Span(f) /\ Start(fs, n) \in Nat /\ Start(fs, n) >= 2
  BY <1>1, StartFacts
<1>4. items \in Seq(WireItems) /\ Len(items) = Start(fs, n)
  BY DEF Written
<1> HIDE DEF w
<1>5. /\ r \in Seq(WireItems) /\ Len(r) = Len(items) + Len(w)
      /\ \A i \in 1 .. Len(items) + Len(w) : r[i] = IF i <= Len(items) THEN items[i] ELSE w[i - Len(items)]
  BY <1>2, <1>4, ConcatProperties
<1> HIDE DEF r
<1>6. \A i \in 1 .. Len(items) : r[i] = items[i]
  BY <1>2, <1>3, <1>4, <1>5
<1>7. ASSUME NEW j \in 1 .. Span(f)  PROVE r[Start(fs, n) + j] = w[j]
  <2>1. Start(fs, n) + j \in 1 .. Len(items) + Len(w) /\ ~(Start(fs, n) + j <= Len(items)) /\ (Start(fs, n) + j) - Len(items) = j
    BY <1>2, <1>3, <1>4
  <2> QED  BY <1>5, <2>1
<1>8. ASSUME NEW k \in 1 .. n, NEW j \in 1 .. Span(fs[k])  PROVE r[Start(fs, k - 1) + j] = WireField(fs[k])[j]
  <2>1. k \in 1 .. Len(fs) /\ k \in 0 .. n /\ k - 1 \in 0 .. Len(fs)
    BY <1>1
  <2>2. Start(fs, k) = Start(fs, k - 1) + Span(fs[k]) /\ Span(fs[k]) \in Nat /\ Start(fs, k - 1) \in Nat /\ Start(fs, k) <= Start(fs, n)
    BY <1>1, <2>1, StartFacts
  <2>3. Start(fs, k - 1) + j \in 1 .. Len(items)
    BY <1>3, <1>4, <2>2
  <2>4. items[Start(fs, k - 1) + j] = WireField(fs[k])[j]
    BY DEF Written
  <2> QED  BY <1>6, <2>3, <2>4
<1>9. \A k \in 1 .. n + 1 : k \in 1 .. n \/ k = n + 1
  OBVIOUS
<1>10. \A k \in 1 .. n + 1 : \A j \in 1 .. Span(fs[k]) : r[Start(fs, k - 1) + j] = WireField(fs[k])[j]
  BY <1>1, <1>7, <1>8, <1>9 DEF w
<1>11. 1 \in 1 .. Len(items) /\ 2 \in 1 .. Len(items)
  BY <1>3, <1>4
<1>12. r[1].w = 2 /\ r[2] = Item(2, Len(fs))
  BY <1>6, <1>11 DEF Written
<1>13. Len(r) = Start(fs, n + 1)
  BY <1>2, <1>3, <1>4, <1>5
<1> QED  BY <1>5, <1>10, <1>12, <1>13 DEF Written, r, w

------------------------------------------------------------------------------
\* A reader that has taken the first k items and no error, the last one v.
ReadAt(items, k, v) ==
    [at |-> k, l |-> Bytes(items) - Upto(Widths(items), k), err |-> FALSE, val |-> v]

LEMMA UnreadFacts ==
    ASSUME NEW items \in Seq(WireItems)
    PROVE  /\ \A k \in 0 .. Len(items) : Bytes(items) - Upto(Widths(items), k) \in Nat
           /\ Bytes(items) - Upto(Widths(items), Len(items)) = 0
           /\ \A k \in 1 .. Len(items) : /\ items[k].w \in Nat
                                         /\ Bytes(items) - Upto(Widths(items), k - 1) >= items[k].w
                                         /\ (Bytes(items) - Upto(Widths(items), k - 1)) - items[k].w = Bytes(items) - Upto(Widths(items), k)
<1> DEFINE s == Widths(items)
           n == Len(items)
           total == Bytes(items)
<1>1. total = Upto(s, n) /\ total \in Nat /\ \A k \in 1 .. n : s[k] = items[k].w /\ items[k].w \in Nat
  BY BytesFacts
<1>2. n \in Nat
  OBVIOUS
<1> HIDE DEF s, n, total
<1>3. \A k \in 0 .. n : Upto(s, k) \in Nat /\ Upto(s, k) <= total
  BY <1>1, <1>2, UptoGrows
<1>4. ASSUME NEW k \in 1 .. n  PROVE Upto(s, k) = Upto(s, k - 1) + items[k].w /\ k - 1 \in 0 .. n /\ k \in 0 .. n
  <2>1. k \in Nat /\ k > 0 /\ \A i \in 1 .. k : s[i] \in Int
    BY <1>1, <1>2
  <2>2. Upto(s, k) = Upto(s, k - 1) + s[k]
    BY <2>1, UptoFacts
  <2> QED  BY <1>1, <1>2, <2>2
<1>5. \A k \in 0 .. n : total - Upto(s, k) \in Nat
  BY <1>1, <1>3
<1>6. total - Upto(s, n) = 0
  BY <1>1
<1>7. ASSUME NEW k \in 1 .. n
      PROVE  items[k].w \in Nat /\ total - Upto(s, k - 1) >= items[k].w /\ (total - Upto(s, k - 1)) - items[k].w = total - Upto(s, k)
  <2>1. Upto(s, k) = Upto(s, k - 1) + items[k].w /\ Upto(s, k) \in Nat /\ Upto(s, k - 1) \in Nat /\ Upto(s, k) <= total /\ items[k].w \in Nat
    BY <1>1, <1>3, <1>4
  <2>2. total - Upto(s, k - 1) >= items[k].w
    BY <1>1, <2>1
  <2>3. (total - Upto(s, k - 1)) - items[k].w = total - Upto(s, k)
    BY <1>1, <2>1
  <2> QED  BY <2>1, <2>2, <2>3
<1> QED  BY <1>5, <1>6, <1>7 DEF s, n, total

\* mrp_msgbuf_pull gives what was pushed, and fails past the end.
LEMMA PullReads ==
    ASSUME mb.items \in Seq(WireItems), NEW k \in 1 .. Len(mb.items), NEW v
    PROVE  Pull(ReadAt(mb.items, k - 1, v), mb.items[k].w) = ReadAt(mb.items, k, mb.items[k].v)
<1> DEFINE it == mb.items
           r == ReadAt(it, k - 1, v)
           l0 == Bytes(it) - Upto(Widths(it), k - 1)
           l1 == Bytes(it) - Upto(Widths(it), k)
<1>1. r = [at |-> k - 1, l |-> l0, err |-> FALSE, val |-> v]
  BY DEF ReadAt
<1>2. ReadAt(it, k, it[k].v) = [at |-> k, l |-> l1, err |-> FALSE, val |-> it[k].v]
  BY DEF ReadAt
<1>3. it[k].w \in Nat /\ l0 >= it[k].w /\ l0 - it[k].w = l1 /\ l0 \in Nat
  <2>1. k - 1 \in 0 .. Len(it)
    OBVIOUS
  <2> QED  BY <2>1, UnreadFacts
<1>4. (k - 1) + 1 = k
  OBVIOUS
<1> HIDE DEF r, l0, l1
<1>5. ~(l0 < it[k].w)
  BY <1>3
<1>6. ~(r.err \/ r.l < it[k].w)
  BY <1>1, <1>5
<1>7. Pull(r, it[k].w) = [r EXCEPT !.at = @ + 1, !.l = @ - it[k].w, !.val = it[r.at + 1].v]
  BY <1>6 DEF Pull
<1>8. Pull(r, it[k].w) = [at |-> k, l |-> l1, err |-> FALSE, val |-> it[k].v]
  BY <1>1, <1>3, <1>4, <1>7
<1> QED  BY <1>2, <1>8 DEF r

LEMMA PullEnds ==
    ASSUME mb.items \in Seq(WireItems), NEW v, NEW w \in Nat, w > 0
    PROVE  LET end == Pull(ReadAt(mb.items, Len(mb.items), v), w) IN end.err = TRUE /\ "err" \in DOMAIN end
<1> DEFINE r == ReadAt(mb.items, Len(mb.items), v)
<1>1. r.l = 0 /\ r = [at |-> r.at, l |-> r.l, err |-> FALSE, val |-> r.val]
  BY UnreadFacts DEF ReadAt
<1> HIDE DEF r
<1>2. r.l < w
  BY <1>1
<1>3. Pull(r, w) = [r EXCEPT !.err = TRUE]
  BY <1>2 DEF Pull
<1>4. [r EXCEPT !.err = TRUE].err = TRUE /\ "err" \in DOMAIN [r EXCEPT !.err = TRUE]
  BY <1>1
<1> QED  BY <1>3, <1>4 DEF r

\* The values of a field are in the buffer after place p.
ValuesAt(items, p, f) ==
    /\ p \in Nat /\ p + Per(f) * Len(f.vals) <= Len(items)
    /\ \A k \in 1 .. Len(f.vals) :
          IF f.base \in Sized
          THEN items[p + 2 * k - 1] = Item(4, f.vals[k]) /\ items[p + 2 * k] = Item(f.vals[k], f.vals[k])
          ELSE items[p + k] = Item(Width[f.base], f.vals[k])

LEMMA PullValueReads ==
    ASSUME mb.items \in Seq(WireItems), NEW f \in MsgFields, NEW p, ValuesAt(mb.items, p, f),
           NEW k \in 1 .. Len(f.vals), NEW v
    PROVE  PullValue(ReadAt(mb.items, p + Per(f) * (k - 1), v), f.base)
             = ReadAt(mb.items, p + Per(f) * k, f.vals[k])
<1> DEFINE n == Len(f.vals)
           it == mb.items
<1>1. n \in Nat /\ p \in Nat /\ Len(it) \in Nat /\ k \in 1 .. n
  BY FieldFacts DEF ValuesAt
<1>2. CASE f.base \in Sized
  <2>1. Per(f) = 2 /\ p + 2 * n <= Len(it)
    BY <1>2 DEF ValuesAt, Per
  <2> DEFINE a == p + 2 * k - 1
             b == p + 2 * k
  <2>2. a \in 1 .. Len(it) /\ b \in 1 .. Len(it) /\ a - 1 = p + 2 * (k - 1) /\ b - 1 = a
    BY <1>1, <2>1
  <2>3. it[a] = Item(4, f.vals[k]) /\ it[b] = Item(f.vals[k], f.vals[k])
    BY <1>2 DEF ValuesAt
  <2> HIDE DEF a, b
  <2>4. it[a].w = 4 /\ it[a].v = f.vals[k] /\ it[b].w = f.vals[k] /\ it[b].v = f.vals[k]
    BY <2>3, ItemFacts
  <2> DEFINE r == ReadAt(it, a - 1, v)
             s == ReadAt(it, a, f.vals[k])
  <2>5. Pull(r, 4) = s
    BY <2>2, <2>4, PullReads
  <2>6. s.val = f.vals[k]
    BY DEF ReadAt
  <2>7. Pull(s, f.vals[k]) = ReadAt(it, b, f.vals[k])
    BY <2>2, <2>4, PullReads
  <2> HIDE DEF r, s
  <2>8. PullValue(r, f.base) = Pull(s, s.val)
    BY <1>2, <2>5 DEF PullValue
  <2> QED  BY <2>1, <2>2, <2>6, <2>7, <2>8 DEF r, b
<1>3. CASE f.base \notin Sized
  <2>1. Per(f) = 1 /\ p + n <= Len(it)
    <3>1. Per(f) = 1 /\ p + Per(f) * n <= Len(it)
      BY <1>3 DEF ValuesAt, Per
    <3> QED  BY <1>1, <3>1
  <2> DEFINE b == p + k
  <2>2. b \in 1 .. Len(it) /\ b - 1 = p + 1 * (k - 1) /\ b = p + 1 * k
    BY <1>1, <2>1
  <2>3. it[b] = Item(Width[f.base], f.vals[k])
    BY <1>3 DEF ValuesAt
  <2> HIDE DEF b
  <2>4. it[b].w = Width[f.base] /\ it[b].v = f.vals[k]
    BY <2>3, ItemFacts
  <2>5. Pull(ReadAt(it, b - 1, v), Width[f.base]) = ReadAt(it, b, f.vals[k])
    BY <2>2, <2>4, PullReads
  <2>6. PullValue(ReadAt(it, b - 1, v), f.base) = Pull(ReadAt(it, b - 1, v), Width[f.base])
    BY <1>3 DEF PullValue
  <2> QED  BY <2>1, <2>2, <2>5, <2>6
<1> QED  BY <1>2, <1>3

LEMMA PullValuesReads ==
    ASSUME mb.items \in Seq(WireItems), NEW f \in MsgFields, NEW p, ValuesAt(mb.items, p, f), NEW v
    PROVE  \E u : PullValues(ReadAt(mb.items, p, v), f.base, Len(f.vals))
                    = [r |-> ReadAt(mb.items, p + Per(f) * Len(f.vals), u), vals |-> f.vals]
<1> DEFINE n == Len(f.vals)
           it == mb.items
           r0 == ReadAt(it, p, v)
           more(s) == LET q == PullValue(s.r, f.base) IN [r |-> q, vals |-> Append(s.vals, q.val)]
           B(h) == [k \in 0 .. n |-> IF k = 0 THEN [r |-> r0, vals |-> <<>>] ELSE more(h[k - 1])]
           u(k) == IF k = 0 THEN v ELSE f.vals[k]
           done(k) == [r |-> ReadAt(it, p + Per(f) * k, u(k)), vals |-> SubSeq(f.vals, 1, k)]
           g == [k \in 0 .. n |-> done(k)]
           h == CHOOSE h : h = B(h)
<1>1. n \in Nat /\ f.vals \in Seq(ToSet(f.vals)) /\ p \in Nat /\ Per(f) \in Nat /\ p + Per(f) * 0 = p
  <2>1. Per(f) \in {1, 2}
    BY DEF Per
  <2>2. p \in Nat
    BY DEF ValuesAt
  <2>3. n \in Nat /\ f.vals \in Seq(ToSet(f.vals))
    BY FieldFacts
  <2> QED  BY <2>1, <2>2, <2>3
<1>2. done(0) = [r |-> r0, vals |-> <<>>]
  <2>1. SubSeq(f.vals, 1, 0) = <<>> /\ u(0) = v
    BY <1>1
  <2> HIDE DEF u, n
  <2> QED  BY <1>1, <2>1
<1>3. ASSUME NEW k \in 1 .. n  PROVE more(done(k - 1)) = done(k)
  <2>1. PullValue(ReadAt(it, p + Per(f) * (k - 1), u(k - 1)), f.base) = ReadAt(it, p + Per(f) * k, f.vals[k])
    BY PullValueReads
  <2>2. ReadAt(it, p + Per(f) * k, f.vals[k]).val = f.vals[k]
    BY DEF ReadAt
  <2>3. Append(SubSeq(f.vals, 1, k - 1), f.vals[k]) = SubSeq(f.vals, 1, k)
    <3> DEFINE T == ToSet(f.vals)
               s == f.vals
               x == SubSeq(s, 1, k - 1)
               y == SubSeq(s, 1, k)
    <3>1. s \in Seq(T) /\ k - 1 \in 0 .. Len(s) /\ k \in 1 .. Len(s) /\ s[k] \in T
      BY <1>1
    <3> HIDE DEF s, T
    <3>2. x \in Seq(T) /\ Len(x) = k - 1 /\ \A i \in 1 .. k - 1 : x[i] = s[i]
      BY <3>1
    <3>3. y \in Seq(T) /\ Len(y) = k /\ \A i \in 1 .. k : y[i] = s[i]
      BY <3>1
    <3> HIDE DEF x, y
    <3>4. /\ Append(x, s[k]) \in Seq(T) /\ Len(Append(x, s[k])) = Len(x) + 1
          /\ (\A i \in 1 .. Len(x) : Append(x, s[k])[i] = x[i]) /\ Append(x, s[k])[Len(x) + 1] = s[k]
      BY <3>1, <3>2, AppendFacts
    <3>5. (k - 1) + 1 = k /\ \A i \in 1 .. k : i \in 1 .. k - 1 \/ i = k
      OBVIOUS
    <3>6. Len(Append(x, s[k])) = Len(y) /\ \A i \in 1 .. Len(y) : Append(x, s[k])[i] = y[i]
      BY <3>2, <3>3, <3>4, <3>5
    <3>7. Append(x, s[k]) = y
      BY <3>3, <3>4, <3>6, SeqEqual
    <3> QED  BY <3>7 DEF x, y, s
  <2>4. k # 0 /\ k \in 0 .. n /\ u(k) = f.vals[k]
    OBVIOUS
  <2> DEFINE q == done(k - 1)
  <2>5. q.r = ReadAt(it, p + Per(f) * (k - 1), u(k - 1)) /\ q.vals = SubSeq(f.vals, 1, k - 1)
    OBVIOUS
  <2> HIDE DEF q
  <2>6. more(q) = [r |-> ReadAt(it, p + Per(f) * k, f.vals[k]), vals |-> SubSeq(f.vals, 1, k)]
    BY <2>1, <2>2, <2>3, <2>5
  <2>7. done(k) = [r |-> ReadAt(it, p + Per(f) * k, f.vals[k]), vals |-> SubSeq(f.vals, 1, k)]
    <3> HIDE DEF u
    <3> QED  BY <2>4
  <2> QED  BY <2>6, <2>7 DEF q
<1>4. PullValues(r0, f.base, n) = h[n]
  BY Zenon DEF PullValues
<1> HIDE DEF done, more, r0
<1>5. g = B(g)
  <2>1. ASSUME NEW k \in 0 .. n, k # 0  PROVE done(k) = more(g[k - 1])
    <3>1. k \in 1 .. n /\ k - 1 \in 0 .. n
      BY <1>1, <2>1
    <3>2. g[k - 1] = done(k - 1)
      BY <3>1
    <3> HIDE DEF g
    <3> QED  BY <1>3, <3>1, <3>2
  <2>2. g = [k \in 0 .. n |-> done(k)]
    OBVIOUS
  <2> HIDE DEF g
  <2> QED  BY <1>2, <2>1, <2>2
<1>6. h = B(h)
  <2> HIDE DEF g
  <2> QED  BY <1>5
<1> HIDE DEF h
<1>7. h[0] = done(0) /\ \A k \in 1 .. n : h[k] = more(h[k - 1])
  <2>1. 0 \in 0 .. n /\ \A k \in 1 .. n : k \in 0 .. n /\ k # 0
    BY <1>1
  <2> QED  BY <1>2, <1>6, <2>1
<1> DEFINE S == {k \in 0 .. n : h[k] = done(k)}
<1>8. 0 \in S
  BY <1>1, <1>7
<1>9. ASSUME NEW k \in 0 .. n - 1, k \in S  PROVE k + 1 \in S
  <2>1. k + 1 \in 1 .. n /\ k + 1 \in 0 .. n /\ (k + 1) - 1 = k
    BY <1>1
  <2> QED  BY <1>3, <1>7, <1>9, <2>1
<1>10. h[n] = done(n)
  <2>1. n \in 0 .. n
    BY <1>1
  <2> HIDE DEF S
  <2>2. 0 .. n \subseteq S
    BY <1>1, <1>8, <1>9, CountingUp
  <2> QED  BY <2>1, <2>2 DEF S
<1>11. SubSeq(f.vals, 1, n) = f.vals
  BY <1>1, SubSeqFull
<1> QED  BY <1>4, <1>10, <1>11 DEF done, r0

\* The decoder reads the next field of what was written, whole, or the end.
FieldRead(f, d) ==
    /\ f \in MsgFields
    /\ Header.r.err = FALSE /\ Header.tag = f.tag /\ Header.type = [base |-> f.base, array |-> f.array]
    /\ ~f.array => \E u : PullValues(Header.r, f.base, 1)
                            = [r |-> ReadAt(mb.items, Start(orig, d + 1), u), vals |-> f.vals]
    /\ f.array => /\ Pull(Header.r, 4).val = Len(f.vals)
                  /\ \E u : PullValues(Pull(Header.r, 4), f.base, Len(f.vals))
                              = [r |-> ReadAt(mb.items, Start(orig, d + 1), u), vals |-> f.vals]

LEMMA FieldReads ==
    ASSUME orig \in Seq(MsgFields), Written(mb.items, orig, Len(orig)),
           NEW d \in 0 .. Len(orig) - 1, NEW v, rd = ReadAt(mb.items, Start(orig, d), v)
    PROVE  \E f : f = orig[d + 1] /\ FieldRead(f, d)
<1> DEFINE f == orig[d + 1]
<1> SUFFICES FieldRead(f, d)
  OBVIOUS
<1> DEFINE it == mb.items
           p == Start(orig, d)
           type == [base |-> f.base, array |-> f.array]
           n == Len(f.vals)
<1>1. d + 1 \in 1 .. Len(orig) /\ (d + 1) - 1 = d /\ d \in 0 .. Len(orig) /\ d + 1 \in 0 .. Len(orig) /\ Len(orig) \in Nat /\ f \in MsgFields /\ f = orig[d + 1]
  OBVIOUS
<1> HIDE DEF f
<1>2. it \in Seq(WireItems) /\ Len(it) = Start(orig, Len(orig))
  BY DEF Written
<1>3. Start(orig, d + 1) = p + Span(f) /\ p \in Nat /\ Span(f) \in Nat /\ p + Span(f) <= Len(it)
  <2>1. Len(orig) \in 0 .. Len(orig) /\ d + 1 \in 0 .. Len(orig)
    BY <1>1
  <2>2. Start(orig, d + 1) <= Start(orig, Len(orig))
    BY <2>1, StartFacts
  <2> QED  BY <1>1, <1>2, <2>2, StartFacts
<1>4. \A j \in 1 .. Span(f) : it[p + j] = WireField(f)[j]
  BY <1>1 DEF Written
<1>5. Span(f) = HeadLen(f) + Per(f) * n /\ n \in Nat /\ Per(f) \in {1, 2} /\ Per(f) * n \in Nat
      /\ (f.array => HeadLen(f) = 3) /\ (~f.array => HeadLen(f) = 2 /\ n = 1) /\ HeadLen(f) \in {2, 3}
  <2>1. n \in Nat /\ (~f.array => n = 1)
    BY <1>1, FieldFacts
  <2>2. Per(f) \in {1, 2}
    BY DEF Per
  <2>3. (f.array => HeadLen(f) = 3) /\ (~f.array => HeadLen(f) = 2) /\ HeadLen(f) \in {2, 3}
    BY DEF HeadLen
  <2>4. Span(f) = HeadLen(f) + Per(f) * n
    BY DEF Span
  <2>5. Per(f) * n \in Nat
    BY <2>1, <2>2
  <2> QED  BY <2>1, <2>2, <2>3, <2>4, <2>5
<1>6. it[p + 1] = Item(2, f.tag) /\ it[p + 2] = Item(2, type) /\ (f.array => it[p + 3] = Item(4, n))
  <2>1. 1 \in 1 .. Span(f) /\ 2 \in 1 .. Span(f) /\ (f.array => 3 \in 1 .. Span(f))
    <3> HIDE DEF n
    <3> QED  BY <1>5
  <2> QED  BY <1>1, <1>4, <2>1, WireFieldFacts
<1>7. ValuesAt(it, p + HeadLen(f), f)
  <2>1. p + HeadLen(f) \in Nat /\ (p + HeadLen(f)) + Per(f) * n <= Len(it)
    <3> DEFINE m == Per(f) * n
               h == HeadLen(f)
    <3>1. h \in Nat /\ m \in Nat /\ p \in Nat /\ p + (h + m) <= Len(it) /\ Len(it) \in Nat
      BY <1>2, <1>3, <1>5
    <3> HIDE DEF h, m, p, it
    <3>2. p + h \in Nat /\ (p + h) + m <= Len(it)
      BY <3>1
    <3> QED  BY <3>2 DEF h, m
  <2>2. ASSUME NEW k \in 1 .. n
        PROVE  IF f.base \in Sized
               THEN /\ it[(p + HeadLen(f)) + 2 * k - 1] = Item(4, f.vals[k])
                    /\ it[(p + HeadLen(f)) + 2 * k] = Item(f.vals[k], f.vals[k])
               ELSE it[(p + HeadLen(f)) + k] = Item(Width[f.base], f.vals[k])
    <3>1. CASE f.base \in Sized
      <4>1. Span(f) = HeadLen(f) + 2 * n
        BY <1>5, <3>1 DEF Per
      <4> DEFINE h == HeadLen(f)
      <4>2. h \in Nat /\ p \in Nat /\ n \in Nat /\ k \in 1 .. n
        BY <1>3, <1>5
      <4>3. h + 2 * k - 1 \in 1 .. Span(f) /\ h + 2 * k \in 1 .. Span(f)
        <5> HIDE DEF h, n, p
        <5> QED  BY <4>1, <4>2 DEF h
      <4>4. p + (h + 2 * k - 1) = (p + h) + 2 * k - 1 /\ p + (h + 2 * k) = (p + h) + 2 * k
        <5> HIDE DEF h, n, p
        <5> QED  BY <4>2
      <4>5. it[p + (h + 2 * k - 1)] = Item(4, f.vals[k]) /\ it[p + (h + 2 * k)] = Item(f.vals[k], f.vals[k])
        <5>1. WireField(f)[h + 2 * k - 1] = Item(4, f.vals[k]) /\ WireField(f)[h + 2 * k] = Item(f.vals[k], f.vals[k])
          BY ZenonT(40), <1>1, <3>1, WireFieldFacts
        <5> HIDE DEF h, p, it
        <5> QED  BY <1>4, <4>3, <5>1
      <4> QED  BY <3>1, <4>4, <4>5
    <3>2. CASE f.base \notin Sized
      <4>1. Span(f) = HeadLen(f) + n
        BY <1>5, <3>2 DEF Per
      <4> DEFINE h == HeadLen(f)
      <4>2. h \in Nat /\ p \in Nat /\ n \in Nat /\ k \in 1 .. n
        BY <1>3, <1>5
      <4>3. h + k \in 1 .. Span(f) /\ p + (h + k) = (p + h) + k
        <5> HIDE DEF h, n, p
        <5> QED  BY <4>1, <4>2 DEF h
      <4>4. it[p + (h + k)] = Item(Width[f.base], f.vals[k])
        <5>1. WireField(f)[h + k] = Item(Width[f.base], f.vals[k])
          BY ZenonT(40), <1>1, <3>2, WireFieldFacts
        <5> HIDE DEF h, p, it
        <5> QED  BY <1>4, <4>3, <5>1
      <4> QED  BY <3>2, <4>3, <4>4
    <3> QED  BY <3>1, <3>2
  <2> QED  BY <2>1, <2>2 DEF ValuesAt
<1> HIDE DEF n, p, it, type
<1>8. /\ p + 1 \in 1 .. Len(it) /\ (p + 1) - 1 = p /\ p + 2 \in 1 .. Len(it) /\ (p + 2) - 1 = p + 1
      /\ f.array => p + 3 \in 1 .. Len(it) /\ (p + 3) - 1 = p + 2
  <2> DEFINE m == Per(f) * n
  <2>1. m \in Nat /\ Span(f) = HeadLen(f) + m /\ Len(it) \in Nat
    BY <1>2, <1>5
  <2> HIDE DEF m
  <2>2. p + HeadLen(f) <= Len(it) /\ p \in Nat
    <3> DEFINE h == HeadLen(f)
    <3>0. h \in Nat /\ Span(f) = h + m
      BY <1>5, <2>1
    <3>1. p \in Nat /\ p + (h + m) <= Len(it)
      BY <1>3, <3>0
    <3> HIDE DEF h
    <3>2. p + h <= Len(it)
      BY <2>1, <3>0, <3>1
    <3> QED  BY <3>1, <3>2 DEF h
  <2>3. p + 2 <= Len(it) /\ (f.array => p + 3 <= Len(it))
    BY <1>5, <2>1, <2>2
  <2> QED  BY <2>1, <2>2, <2>3
<1>9. Pull(ReadAt(it, p, v), 2) = ReadAt(it, p + 1, f.tag)
  <2>1. it[p + 1].w = 2 /\ it[p + 1].v = f.tag
    BY <1>6, ItemFacts
  <2>2. Pull(ReadAt(it, (p + 1) - 1, v), it[p + 1].w) = ReadAt(it, p + 1, it[p + 1].v)
    BY <1>2, <1>8, PullReads DEF it
  <2> QED  BY <1>8, <2>1, <2>2
<1>10. Pull(ReadAt(it, p + 1, f.tag), 2) = ReadAt(it, p + 2, type)
  <2>1. it[p + 2].w = 2 /\ it[p + 2].v = type
    BY <1>6, ItemFacts
  <2>2. Pull(ReadAt(it, (p + 2) - 1, f.tag), it[p + 2].w) = ReadAt(it, p + 2, it[p + 2].v)
    BY <1>2, <1>8, PullReads DEF it
  <2> QED  BY <1>8, <2>1, <2>2
<1>11. rd = ReadAt(it, p, v)
  BY DEF it, p
<1>12. Header = [tag |-> f.tag, type |-> type, r |-> ReadAt(it, p + 2, type)]
  <2>1. ReadAt(it, p + 1, f.tag).val = f.tag /\ ReadAt(it, p + 2, type).val = type
    BY DEF ReadAt
  <2> QED  BY <1>9, <1>10, <1>11, <2>1 DEF Header
<1>13. Header.r = ReadAt(it, p + 2, type) /\ Header.r.err = FALSE /\ Header.tag = f.tag /\ Header.type = type
  BY <1>12 DEF ReadAt
<1>14. (p + HeadLen(f)) + Per(f) * n = Start(orig, d + 1)
  <2> DEFINE m == Per(f) * n
  <2>1. m \in Nat /\ Span(f) = HeadLen(f) + m /\ HeadLen(f) \in Nat
    BY <1>5
  <2> HIDE DEF m
  <2>2. (p + HeadLen(f)) + m = p + Span(f)
    BY <1>3, <2>1
  <2> QED  BY <1>3, <2>2 DEF m
<1>15. ASSUME ~f.array
       PROVE  \E u : PullValues(Header.r, f.base, 1) = [r |-> ReadAt(it, Start(orig, d + 1), u), vals |-> f.vals]
  <2>1. HeadLen(f) = 2 /\ n = 1
    BY <1>5, <1>15
  <2>2. \E u : PullValues(ReadAt(it, p + 2, type), f.base, n) = [r |-> ReadAt(it, (p + 2) + Per(f) * n, u), vals |-> f.vals]
    <3>1. ValuesAt(mb.items, p + 2, f) /\ mb.items \in Seq(WireItems)
      BY <1>2, <1>7, <2>1 DEF it
    <3>2. \E u : PullValues(ReadAt(mb.items, p + 2, type), f.base, Len(f.vals))
                   = [r |-> ReadAt(mb.items, (p + 2) + Per(f) * Len(f.vals), u), vals |-> f.vals]
      BY <1>1, <3>1, PullValuesReads
    <3> QED  BY <3>2 DEF it, n
  <2> QED  BY <1>13, <1>14, <2>1, <2>2
<1>16. ASSUME f.array
       PROVE  /\ Pull(Header.r, 4).val = n
              /\ \E u : PullValues(Pull(Header.r, 4), f.base, n)
                          = [r |-> ReadAt(it, Start(orig, d + 1), u), vals |-> f.vals]
  <2>1. HeadLen(f) = 3
    BY <1>5, <1>16
  <2>2. it[p + 3].w = 4 /\ it[p + 3].v = n
    BY <1>6, <1>16, ItemFacts
  <2>3. Pull(ReadAt(it, (p + 3) - 1, type), it[p + 3].w) = ReadAt(it, p + 3, it[p + 3].v)
    BY <1>2, <1>8, <1>16, PullReads DEF it
  <2>4. Pull(Header.r, 4) = ReadAt(it, p + 3, n) /\ ReadAt(it, p + 3, n).val = n
    BY <1>8, <1>13, <1>16, <2>2, <2>3 DEF ReadAt
  <2>5. \E u : PullValues(ReadAt(it, p + 3, n), f.base, n) = [r |-> ReadAt(it, (p + 3) + Per(f) * n, u), vals |-> f.vals]
    <3>1. ValuesAt(mb.items, p + 3, f) /\ mb.items \in Seq(WireItems)
      BY <1>2, <1>7, <2>1 DEF it
    <3>2. \E u : PullValues(ReadAt(mb.items, p + 3, n), f.base, Len(f.vals))
                   = [r |-> ReadAt(mb.items, (p + 3) + Per(f) * Len(f.vals), u), vals |-> f.vals]
      BY <1>1, <3>1, PullValuesReads
    <3> QED  BY <3>2 DEF it, n
  <2> QED  BY <1>14, <2>1, <2>4, <2>5
<1> QED  BY <1>1, <1>13, <1>15, <1>16 DEF FieldRead, it, n, type

LEMMA HeaderEnds ==
    ASSUME orig \in Seq(MsgFields), Written(mb.items, orig, Len(orig)),
           NEW v, rd = ReadAt(mb.items, Start(orig, Len(orig)), v)
    PROVE  Header.r.err = TRUE
<1> DEFINE tag == Pull(rd, 2)
           y == Pull(tag, 2)
<1>1. mb.items \in Seq(WireItems) /\ Len(mb.items) = Start(orig, Len(orig))
  BY DEF Written
<1>2. tag.err = TRUE /\ "err" \in DOMAIN tag
  <2>1. 2 \in Nat /\ 2 > 0
    OBVIOUS
  <2> QED  BY <1>1, <2>1, PullEnds
<1> HIDE DEF tag
<1>3. y = [tag EXCEPT !.err = TRUE]
  BY <1>2 DEF Pull
<1>4. y.err = TRUE
  BY <1>2, <1>3
<1>5. Header.r = y
  BY DEF Header, tag
<1> QED  BY <1>4, <1>5
------------------------------------------------------------------------------
\* The blocks of a message, with one more field at either end.
Pieces(fs) == [k \in DOMAIN fs |-> FieldBlocks(fs[k])]

LEMMA BlocksFacts ==
    ASSUME NEW fs \in Seq(MsgFields)
    PROVE  /\ MsgBlocks(fs) = 1 + Upto(Pieces(fs), Len(fs)) /\ MsgBlocks(fs) \in Nat
           /\ fs = <<>> => MsgBlocks(fs) = 1
           /\ \A k \in 1 .. Len(fs) : Pieces(fs)[k] = FieldBlocks(fs[k]) /\ Pieces(fs)[k] \in Nat
<1>1. Len(fs) \in Nat /\ DOMAIN fs = 1 .. Len(fs) /\ \A k \in 1 .. Len(fs) : fs[k] \in MsgFields
  OBVIOUS
<1>2. \A k \in 1 .. Len(fs) : Pieces(fs)[k] = FieldBlocks(fs[k]) /\ Pieces(fs)[k] \in Nat
  BY <1>1, FieldFacts DEF Pieces
<1>3. DOMAIN Pieces(fs) = 1 .. Len(fs)
  BY <1>1 DEF Pieces
<1>4. MsgBlocks(fs) = 1 + SumFunction(Pieces(fs))
  BY DEF MsgBlocks, Pieces
<1>5. MsgBlocks(fs) = 1 + Upto(Pieces(fs), Len(fs))
  BY <1>3, <1>4 DEF SumFunction, Upto
<1>6. Upto(Pieces(fs), Len(fs)) \in Nat
  BY <1>1, <1>2, UptoGrows
<1>7. fs = <<>> => Upto(Pieces(fs), Len(fs)) = 0
  <2>1. \A k \in 1 .. Len(fs) : Pieces(fs)[k] \in Int
    BY <1>2
  <2>2. Upto(Pieces(fs), 0) = 0
    BY <1>1, <2>1, UptoFacts
  <2> QED  BY <2>2
<1> QED  BY <1>2, <1>5, <1>6, <1>7

LEMMA BlocksAdd ==
    ASSUME NEW fs \in Seq(MsgFields), NEW r \in MsgFields
    PROVE  /\ Append(fs, r) \in Seq(MsgFields) /\ MsgBlocks(Append(fs, r)) = MsgBlocks(fs) + FieldBlocks(r)
           /\ <<r>> \o fs \in Seq(MsgFields) /\ MsgBlocks(<<r>> \o fs) = MsgBlocks(fs) + FieldBlocks(r)
           /\ MsgBlocks(<<r>>) = 1 + FieldBlocks(r)
<1> DEFINE n == Len(fs)
           a == Append(fs, r)
           b == <<r>> \o fs
<1>1. n \in Nat /\ FieldBlocks(r) \in Nat
  <2>1. FieldBlocks(r) \in Nat
    BY Zenon, FieldFacts
  <2> QED  BY <2>1
<1>2. /\ a \in Seq(MsgFields) /\ Len(a) = n + 1 /\ a[n + 1] = r /\ \A i \in 1 .. n : a[i] = fs[i]
  OBVIOUS
<1>3. /\ b \in Seq(MsgFields) /\ Len(b) = n + 1 /\ b[1] = r /\ \A i \in 1 .. n : b[i + 1] = fs[i]
  <2>1. <<r>> \in Seq(MsgFields) /\ Len(<<r>>) = 1 /\ <<r>>[1] = r
    OBVIOUS
  <2>2. /\ b \in Seq(MsgFields) /\ Len(b) = 1 + n
        /\ \A i \in 1 .. 1 + n : b[i] = IF i <= 1 THEN <<r>>[i] ELSE fs[i - 1]
    BY <2>1, ConcatProperties
  <2> HIDE DEF b
  <2>3. \A i \in 1 .. n : i + 1 \in 1 .. 1 + n /\ ~(i + 1 <= 1) /\ (i + 1) - 1 = i
    BY <1>1
  <2> HIDE DEF n
  <2> QED  BY <1>1, <2>1, <2>2, <2>3
<1> HIDE DEF a, b
<1> DEFINE s == Pieces(fs)
           x == Pieces(a)
           y == Pieces(b)
<1>4. MsgBlocks(fs) = 1 + Upto(s, n) /\ Upto(s, n) \in Nat /\ \A k \in 1 .. n : s[k] = FieldBlocks(fs[k]) /\ s[k] \in Int
  <2>1. MsgBlocks(fs) = 1 + Upto(s, n) /\ \A k \in 1 .. n : s[k] = FieldBlocks(fs[k]) /\ s[k] \in Nat
    BY BlocksFacts
  <2> HIDE DEF s, n
  <2> QED  BY <1>1, <2>1, UptoGrows
<1>5. MsgBlocks(a) = 1 + Upto(x, n + 1) /\ \A k \in 1 .. n + 1 : x[k] = FieldBlocks(a[k]) /\ x[k] \in Int
  <2>1. MsgBlocks(a) = 1 + Upto(x, n + 1) /\ \A k \in 1 .. n + 1 : x[k] = FieldBlocks(a[k]) /\ x[k] \in Nat
    BY <1>2, BlocksFacts
  <2> HIDE DEF x, n
  <2> QED  BY <2>1
<1>6. MsgBlocks(b) = 1 + Upto(y, n + 1) /\ \A k \in 1 .. n + 1 : y[k] = FieldBlocks(b[k]) /\ y[k] \in Int
  <2>1. MsgBlocks(b) = 1 + Upto(y, n + 1) /\ \A k \in 1 .. n + 1 : y[k] = FieldBlocks(b[k]) /\ y[k] \in Nat
    BY <1>3, BlocksFacts
  <2> HIDE DEF y, n
  <2> QED  BY <2>1
<1> HIDE DEF s, x, y, n
<1>7. Upto(x, n + 1) = Upto(s, n) + FieldBlocks(r)
  <2>1. n + 1 \in Nat /\ n + 1 > 0 /\ (n + 1) - 1 = n /\ \A i \in 1 .. n : i \in 1 .. n + 1
    BY <1>1
  <2>2. Upto(x, n + 1) = Upto(x, n) + x[n + 1]
    BY <1>5, <2>1, UptoFacts
  <2>3. x[n + 1] = FieldBlocks(r)
    BY <1>1, <1>2, <1>5
  <2>4. Upto(x, n) = Upto(s, n)
    <3>1. \A i \in 1 .. n : s[i] \in Int /\ x[i] = s[i]
      BY <1>2, <1>4, <1>5, <2>1
    <3> QED  BY <1>1, <3>1, UptoFacts
  <2> QED  BY <2>2, <2>3, <2>4
<1>8. Upto(y, n + 1) = FieldBlocks(r) + Upto(s, n)
  <2>1. 1 \in 1 .. n + 1 /\ \A i \in 1 .. n : i + 1 \in 1 .. n + 1
    BY <1>1
  <2>2. y[1] = FieldBlocks(r) /\ y[1] \in Int /\ \A i \in 1 .. n : s[i] \in Int /\ y[i + 1] = s[i]
    BY <1>3, <1>4, <1>6, <2>1
  <2> QED  BY <1>1, <2>2, UptoShifts
<1>9. MsgBlocks(a) = MsgBlocks(fs) + FieldBlocks(r)
  BY <1>1, <1>4, <1>5, <1>7
<1>10. MsgBlocks(b) = MsgBlocks(fs) + FieldBlocks(r)
  BY <1>1, <1>4, <1>6, <1>8
<1>11. MsgBlocks(<<r>>) = 1 + FieldBlocks(r)
  <2> DEFINE c == <<r>>
             z == Pieces(c)
  <2>1. c \in Seq(MsgFields) /\ Len(c) = 1 /\ c[1] = r
    OBVIOUS
  <2> HIDE DEF c
  <2>2. MsgBlocks(c) = 1 + Upto(z, 1) /\ \A k \in 1 .. 1 : z[k] = FieldBlocks(c[k]) /\ z[k] \in Nat
    BY <2>1, BlocksFacts
  <2> HIDE DEF z
  <2>3. Upto(z, 1) = Upto(z, 0) + z[1] /\ Upto(z, 0) = 0
    <3>1. 1 \in Nat /\ 1 > 0 /\ 1 - 1 = 0 /\ \A k \in 1 .. 1 : z[k] \in Int
      BY <2>2
    <3> QED  BY <3>1, UptoFacts
  <2>4. z[1] = FieldBlocks(r)
    BY <2>1, <2>2
  <2> QED  BY <1>1, <2>2, <2>3, <2>4 DEF c
<1> QED  BY <1>2, <1>3, <1>9, <1>10, <1>11 DEF a, b

MessageTypes ==
    /\ msg \in [Ends -> Seq(MsgFields)] /\ refs \in [Ends -> Nat] /\ blocks \in Int
    /\ mb \in Buffers /\ orig \in Seq(MsgFields)
    /\ stage \in {"idle", "build", "encode", "sent", "decode", "failed", "done"}

(* There is nothing to decode before it is encoded.                         *)
Handed ==
    /\ refs.got = 0 => msg.got = <<>>
    /\ stage = "idle" => refs.sent = 0
    /\ stage \in {"idle", "build", "encode", "sent", "failed"} => refs.got = 0

SoFar == Len(msg.got) <= Len(orig) /\ \A k \in 1 .. Len(msg.got) : msg.got[k] = orig[k]

(* The fields up to the counter are in the buffer, and the decoder is where *)
(* the fields it has end.                                                   *)
Coding ==
    /\ stage = "encode" => /\ msg.sent = orig /\ counter \in 0 .. Len(orig)
                           /\ Written(mb.items, orig, counter)
    /\ stage \in {"sent", "decode"} => Written(mb.items, orig, Len(orig))
    /\ stage = "decode" => /\ refs.got = 1 /\ SoFar /\ (Lucky => counter = Len(msg.got))
                           /\ \E v : rd = ReadAt(mb.items, Start(orig, Len(msg.got)), v)
    /\ stage = "failed" => ~Lucky
    /\ stage = "done" /\ refs.got > 0 => SoFar /\ (Lucky => msg.got = orig)

MsgInv == MessageTypes /\ MessageFreed /\ Handed /\ Coding

LEMMA EndsFacts ==
    ASSUME MessageTypes
    PROVE  /\ msg.sent \in Seq(MsgFields) /\ msg.got \in Seq(MsgFields)
           /\ refs.sent \in Nat /\ refs.got \in Nat
           /\ MsgBlocks(msg.sent) \in Nat /\ MsgBlocks(msg.got) \in Nat
           /\ \A s \in Seq(MsgFields) :
                 /\ [msg EXCEPT !.sent = s] \in [Ends -> Seq(MsgFields)]
                 /\ [msg EXCEPT !.sent = s].sent = s /\ [msg EXCEPT !.sent = s].got = msg.got
                 /\ [msg EXCEPT !.got = s] \in [Ends -> Seq(MsgFields)]
                 /\ [msg EXCEPT !.got = s].got = s /\ [msg EXCEPT !.got = s].sent = msg.sent
           /\ \A n \in Nat :
                 /\ [refs EXCEPT !.sent = n] \in [Ends -> Nat]
                 /\ [refs EXCEPT !.sent = n].sent = n /\ [refs EXCEPT !.sent = n].got = refs.got
                 /\ [refs EXCEPT !.got = n] \in [Ends -> Nat]
                 /\ [refs EXCEPT !.got = n].got = n /\ [refs EXCEPT !.got = n].sent = refs.sent
<1>1. msg \in [Ends -> Seq(MsgFields)] /\ refs \in [Ends -> Nat] /\ "sent" \in Ends /\ "got" \in Ends /\ "sent" # "got"
  BY DEF MessageTypes, Ends
<1>2. msg.sent \in Seq(MsgFields) /\ msg.got \in Seq(MsgFields) /\ refs.sent \in Nat /\ refs.got \in Nat
  BY <1>1
<1>3. MsgBlocks(msg.sent) \in Nat /\ MsgBlocks(msg.got) \in Nat
  BY <1>2, BlocksFacts
<1> QED  BY <1>1, <1>2, <1>3

LEMMA InitMsgInv ==
    ASSUME MessageInit  PROVE MsgInv
<1> USE DEF MessageInit
<1>1. MessageTypes
  <2>1. <<>> \in Seq(MsgFields) /\ <<>> \in Seq(WireItems)
    OBVIOUS
  <2>2. Bytes(mb.items) = 0
    <3>1. Len(<<>>) = 0 /\ \A k \in 1 .. 0 : Widths(<<>>)[k] \in Int
      OBVIOUS
    <3>2. Bytes(<<>>) = Upto(Widths(<<>>), 0)
      BY <2>1, <3>1, BytesFacts
    <3>3. Upto(Widths(<<>>), 0) = 0
      BY <3>1, UptoFacts
    <3> QED  BY <3>2, <3>3
  <2>3. mb \in Buffers
    BY <2>1, <2>2 DEF Buffers
  <2> QED  BY <2>1, <2>3 DEF MessageTypes
<1>2. MessageFreed
  BY DEF MessageFreed, Ends
<1>3. Handed
  BY DEF Handed, Ends
<1>4. Coding
  BY DEF Coding
<1> QED  BY <1>1, <1>2, <1>3, <1>4 DEF MsgInv

LEMMA CreateKeeps ==
    ASSUME MsgInv, Create  PROVE MsgInv'
<1> DEFINE s == msg'.sent
<1>1. /\ MessageTypes /\ MessageFreed /\ Handed /\ Coding /\ stage = "idle" /\ refs.sent = 0 /\ refs.got = 0
      /\ mb' = mb /\ orig' = orig /\ counter' = counter /\ rd' = rd
  BY DEF MsgInv, Create, Handed
<1>2. blocks = 0
  BY <1>1 DEF MessageFreed
<1>3. CASE UNCHANGED <<msg, blocks, refs, stage>>
  <2>1. MessageTypes'
    BY <1>1, <1>3 DEF MessageTypes
  <2>2. MessageFreed'
    BY <1>1, <1>3 DEF MessageFreed
  <2>3. Handed' /\ Coding'
    BY <1>1, <1>3 DEF Handed, Coding
  <2> QED  BY <2>1, <2>2, <2>3 DEF MsgInv
<1>4. ASSUME NEW s0 \in Seq(MsgFields), msg' = [msg EXCEPT !.sent = s0], blocks' = blocks + MsgBlocks(s0),
             refs' = [refs EXCEPT !.sent = 1], stage' = "build"
      PROVE  MsgInv'
  <2>1. /\ msg' \in [Ends -> Seq(MsgFields)] /\ msg'.sent = s0 /\ msg'.got = msg.got
        /\ refs' \in [Ends -> Nat] /\ refs'.sent = 1 /\ refs'.got = 0
    BY <1>1, <1>4, EndsFacts
  <2>2. MsgBlocks(s0) \in Nat
    BY BlocksFacts
  <2>3. MessageTypes'
    <3>1. blocks' \in Int
      BY <1>2, <1>4, <2>2
    <3> QED  BY <1>1, <1>4, <2>1, <3>1 DEF MessageTypes
  <2>4. MessageFreed'
    BY <1>2, <1>4, <2>1, <2>2 DEF MessageFreed
  <2>5. Handed' /\ Coding'
    BY <1>1, <1>4, <2>1 DEF Handed, Coding
  <2> QED  BY <2>3, <2>4, <2>5 DEF MsgInv
<1>5. CASE CreateEmpty
  <2>1. <<>> \in Seq(MsgFields) /\ MsgBlocks(<<>>) = 1
    <3>1. <<>> \in Seq(MsgFields)
      OBVIOUS
    <3> QED  BY <3>1, BlocksFacts
  <2> QED  BY <1>4, <1>5, <2>1 DEF CreateEmpty
<1>6. ASSUME NEW r \in AskedFields, CreateWith(r)  PROVE MsgInv'
  <2>1. CASE Valid(r)
    <3>1. <<r>> \in Seq(MsgFields)
      BY <2>1 DEF MsgFields
    <3> QED  BY <1>4, <1>6, <2>1, <3>1 DEF CreateWith
  <2>2. CASE ~Valid(r)
    BY <1>3, <1>6, <2>2 DEF CreateWith
  <2> QED  BY <2>1, <2>2
<1> QED  BY <1>5, <1>6 DEF Create

LEMMA AddKeeps ==
    ASSUME MsgInv, NEW r \in AskedFields, MsgAppend(r) \/ MsgPrepend(r)  PROVE MsgInv'
<1>1. /\ MessageTypes /\ MessageFreed /\ Handed /\ Coding /\ stage = "build" /\ refs.sent > 0 /\ refs.got = 0
      /\ UNCHANGED <<refs, stage, mb, orig, counter, rd>> /\ CreateField(r)
  BY DEF MsgInv, MsgAppend, MsgPrepend, Add, Handed
<1>2. CASE ~Valid(r)
  <2>1. UNCHANGED <<msg, blocks>>
    BY <1>1, <1>2 DEF MsgAppend, MsgPrepend, Add, CreateField
  <2> QED  BY <1>1, <2>1 DEF MsgInv, MessageTypes, MessageFreed, Handed, Coding, SoFar, Lucky
<1>3. CASE Valid(r)
  <2>1. r \in MsgFields
    BY <1>3 DEF MsgFields
  <2>2. PICK s \in Seq(MsgFields) : msg' = [msg EXCEPT !.sent = s] /\ MsgBlocks(s) = MsgBlocks(msg.sent) + FieldBlocks(r)
    <3>1. msg.sent \in Seq(MsgFields)
      BY <1>1, EndsFacts
    <3>2. /\ Append(msg.sent, r) \in Seq(MsgFields) /\ MsgBlocks(Append(msg.sent, r)) = MsgBlocks(msg.sent) + FieldBlocks(r)
          /\ <<r>> \o msg.sent \in Seq(MsgFields) /\ MsgBlocks(<<r>> \o msg.sent) = MsgBlocks(msg.sent) + FieldBlocks(r)
      BY <2>1, <3>1, BlocksAdd
    <3>3. msg' = [msg EXCEPT !.sent = Append(msg.sent, r)] \/ msg' = [msg EXCEPT !.sent = <<r>> \o msg.sent]
      BY <1>3 DEF MsgAppend, MsgPrepend, Add
    <3> QED  BY <3>2, <3>3
  <2>3. msg' \in [Ends -> Seq(MsgFields)] /\ msg'.sent = s /\ msg'.got = msg.got
    BY <1>1, <2>2, EndsFacts
  <2>4. blocks' = blocks + FieldBlocks(r) /\ FieldBlocks(r) \in Nat /\ blocks \in Int /\ MsgBlocks(msg.sent) \in Nat
    <3>1. FieldBlocks(r) \in Nat
      BY <2>1, FieldFacts
    <3> QED  BY <1>1, <1>3, <3>1, EndsFacts DEF CreateField, MessageTypes
  <2>5. MessageTypes'
    BY <1>1, <2>3, <2>4 DEF MessageTypes
  <2>6. MessageFreed'
    <3>1. blocks = MsgBlocks(msg.sent)
      BY <1>1, <2>4 DEF MessageFreed
    <3>2. refs'.sent > 0 /\ refs'.got = 0 /\ MsgBlocks(msg'.sent) = MsgBlocks(msg.sent) + FieldBlocks(r)
      BY <1>1, <2>2, <2>3
    <3>3. ~(refs'.got > 0) /\ blocks' = MsgBlocks(msg'.sent) /\ blocks' \in Int
      BY <2>4, <3>1, <3>2
    <3> QED  BY <3>2, <3>3 DEF MessageFreed
  <2>7. Handed' /\ Coding'
    BY <1>1, <2>3 DEF Handed, Coding
  <2> QED  BY <2>5, <2>6, <2>7 DEF MsgInv
<1> QED  BY <1>2, <1>3

\* mrp_msg_ref and mrp_msg_unref, on a message that is neither encoded nor
\* decoded.
LEMMA RefKeeps ==
    ASSUME MsgInv, NEW e \in Ends, Ref(e)  PROVE MsgInv'
<1>1. /\ MessageTypes /\ MessageFreed /\ Handed /\ Coding /\ AtRest /\ refs[e] > 0 /\ refs[e] \in Nat
      /\ refs' = [refs EXCEPT ![e] = refs[e] + 1]
      /\ UNCHANGED <<msg, blocks, lost, stage, mb, orig, counter, rd>>
  BY DEF MsgInv, Ref, MessageTypes
<1>2. refs' \in [Ends -> Nat] /\ \A x \in Ends : (refs'[x] > 0 <=> refs[x] > 0) /\ (refs'[x] = 0 <=> refs[x] = 0)
  BY <1>1 DEF MessageTypes
<1>3. "sent" \in Ends /\ "got" \in Ends
  BY DEF Ends
<1>4. MessageTypes'
  BY <1>1, <1>2 DEF MessageTypes
<1>5. MessageFreed'
  BY <1>1, <1>2, <1>3 DEF MessageFreed
<1>6. Handed'
  BY <1>1, <1>2, <1>3 DEF Handed
<1>7. Coding'
  BY <1>1, <1>2, <1>3 DEF Coding, SoFar, Lucky, AtRest
<1> QED  BY <1>4, <1>5, <1>6, <1>7 DEF MsgInv

LEMMA UnrefKeeps ==
    ASSUME MsgInv, NEW e \in Ends, Unref(e)  PROVE MsgInv'
<1>1. /\ MessageTypes /\ MessageFreed /\ Handed /\ Coding /\ AtRest /\ refs[e] > 0 /\ refs[e] \in Nat
      /\ refs' = [refs EXCEPT ![e] = refs[e] - 1] /\ blocks \in Int
      /\ UNCHANGED <<lost, stage, mb, orig, counter, rd>>
  BY DEF MsgInv, Unref, MessageTypes
<1>2. refs' \in [Ends -> Nat] /\ refs'[e] = refs[e] - 1 /\ \A x \in Ends \ {e} : refs'[x] = refs[x]
  BY <1>1 DEF MessageTypes
<1>3. Ends = {"sent", "got"} /\ \A x \in Ends : msg[x] \in Seq(MsgFields)
  BY <1>1 DEF Ends, MessageTypes
<1>4. /\ msg' \in [Ends -> Seq(MsgFields)] /\ \A x \in Ends \ {e} : msg'[x] = msg[x]
      /\ IF refs[e] = 1 THEN msg'[e] = <<>> /\ blocks' = blocks - MsgBlocks(msg[e])
                        ELSE msg' = msg /\ blocks' = blocks
  <2>1. <<>> \in Seq(MsgFields)
    OBVIOUS
  <2>2. CASE refs[e] = 1
    <3>1. msg' = [msg EXCEPT ![e] = <<>>] /\ blocks' = blocks - MsgBlocks(msg[e])
      BY <2>2 DEF Unref, MsgDestroy
    <3> QED  BY <1>1, <2>1, <2>2, <3>1 DEF MessageTypes
  <2>3. CASE refs[e] # 1
    <3>1. msg' = msg /\ blocks' = blocks
      BY <2>3 DEF Unref
    <3> QED  BY <1>1, <2>3, <3>1 DEF MessageTypes
  <2> QED  BY <2>2, <2>3
<1>5. \A x \in Ends : MsgBlocks(msg[x]) \in Nat
  BY <1>3, BlocksFacts
<1>6. MessageTypes'
  <2>1. blocks' \in Int
    BY <1>1, <1>4, <1>5
  <2> QED  BY <1>1, <1>2, <1>4, <2>1 DEF MessageTypes
<1>7. MessageFreed'
  <2> DEFINE before(x) == IF refs[x] > 0 THEN MsgBlocks(msg[x]) ELSE 0
             now(x) == IF refs'[x] > 0 THEN MsgBlocks(msg'[x]) ELSE 0
  <2>1. blocks = before("sent") + before("got")
    BY <1>1 DEF MessageFreed
  <2>2. \A x \in Ends \ {e} : now(x) = before(x)
    BY <1>2, <1>4
  <2>3. before("sent") \in Nat /\ before("got") \in Nat /\ before(e) = MsgBlocks(msg[e])
    BY <1>1, <1>3, <1>5
  <2>4. CASE refs[e] = 1
    <3>1. now(e) = 0 /\ blocks' = blocks - before(e)
      BY <1>1, <1>2, <1>4, <2>4
    <3> HIDE DEF before, now
    <3>2. blocks' = now("sent") + now("got")
      <4>1. e = "sent" \/ e = "got"
        BY <1>3
      <4>2. "sent" # "got"
        OBVIOUS
      <4>3. CASE e = "sent"
        <5>1. now("got") = before("got")
          BY <1>3, <2>2, <4>2, <4>3
        <5> QED  BY <2>1, <2>3, <3>1, <4>3, <5>1
      <4>4. CASE e = "got"
        <5>1. now("sent") = before("sent")
          BY <1>3, <2>2, <4>2, <4>4
        <5> QED  BY <2>1, <2>3, <3>1, <4>4, <5>1
      <4> QED  BY <4>1, <4>3, <4>4
    <3> QED  BY <3>2 DEF MessageFreed, now
  <2>5. CASE refs[e] # 1
    <3>1. now(e) = before(e) /\ blocks' = blocks
      BY <1>1, <1>2, <1>4, <2>5
    <3>2. now("sent") = before("sent") /\ now("got") = before("got")
      BY <1>3, <2>2, <3>1
    <3> HIDE DEF before, now
    <3>3. blocks' = now("sent") + now("got")
      BY <2>1, <3>1, <3>2
    <3> QED  BY <3>3 DEF MessageFreed, now
  <2> QED  BY <2>4, <2>5
<1>8. /\ refs'.got > 0 => refs.got > 0 /\ msg'.got = msg.got
      /\ refs'.got = 0 => msg'.got = <<>>
      /\ refs.got = 0 => refs'.got = 0
      /\ refs.sent = 0 => refs'.sent = 0
  <2>1. CASE e = "got"
    <3>1. refs.got > 0 /\ refs'.got = refs.got - 1 /\ refs.got \in Nat
      BY <1>1, <1>2, <2>1
    <3>2. refs'.sent = refs.sent
      BY <1>2, <1>3, <2>1
    <3>3. refs.got = 1 => msg'.got = <<>>
      BY <1>4, <2>1
    <3>4. refs.got # 1 => msg'.got = msg.got
      BY <1>4, <2>1
    <3> QED  BY <3>1, <3>2, <3>3, <3>4
  <2>2. CASE e = "sent"
    <3>1. refs.sent > 0 /\ refs'.got = refs.got /\ msg'.got = msg.got
      BY <1>1, <1>2, <1>3, <1>4, <2>2
    <3> QED  BY <1>1, <3>1 DEF Handed
  <2> QED  BY <1>3, <2>1, <2>2
<1>9. Handed'
  BY <1>1, <1>8 DEF Handed
<1>10. Coding'
  BY <1>1, <1>8 DEF Coding, SoFar, Lucky, AtRest
<1> QED  BY <1>6, <1>7, <1>9, <1>10 DEF MsgInv

LEMMA EncodeStartKeeps ==
    ASSUME MsgInv, EncodeStart  PROVE MsgInv'
<1> DEFINE n == Len(msg.sent)
           b == [items |-> <<>>, size |-> 12 * n, l |-> 12 * n]
           its == <<Item(2, 0), Item(2, n)>>
<1>1. /\ MessageTypes /\ MessageFreed /\ Handed /\ Coding /\ stage = "build" /\ refs.sent > 0 /\ refs.got = 0
      /\ stage' = "encode" /\ orig' = msg.sent /\ counter' = 0 /\ mb' = PushAll(b, its)
      /\ msg' = msg /\ refs' = refs /\ blocks' = blocks /\ msg.sent \in Seq(MsgFields)
  BY EndsFacts DEF MsgInv, EncodeStart, Handed
<1>2. n \in Nat
  BY <1>1
<1> HIDE DEF n
<1>3. b \in Buffers
  <2>1. <<>> \in Seq(WireItems)
    OBVIOUS
  <2>2. Bytes(<<>>) = 0
    <3>1. Len(<<>>) = 0 /\ \A k \in 1 .. 0 : Widths(<<>>)[k] \in Int
      OBVIOUS
    <3>2. Bytes(<<>>) = Upto(Widths(<<>>), 0)
      BY <2>1, <3>1, BytesFacts
    <3>3. Upto(Widths(<<>>), 0) = 0
      BY <3>1, UptoFacts
    <3> QED  BY <3>2, <3>3
  <2> QED  BY <1>2, <2>1, <2>2 DEF Buffers
<1>4. its \in Seq(WireItems) /\ Len(its) = 2 /\ its[1] = Item(2, 0) /\ its[2] = Item(2, n)
  <2>1. Item(2, 0) \in WireItems /\ Item(2, n) \in WireItems
    <3>1. 0 \in WireVals /\ n \in WireVals
      BY <1>2 DEF WireVals
    <3> QED  BY <3>1, ItemFacts
  <2> QED  BY <2>1
<1> HIDE DEF its
<1>5. mb' \in Buffers /\ mb'.items = its
  <2>1. mb' \in Buffers /\ mb'.items = b.items \o its
    BY <1>1, <1>3, <1>4, PushAllFacts
  <2>2. <<>> \o its = its
    BY <1>4, ConcatEmptySeq
  <2> QED  BY <2>1, <2>2
<1>6. MessageTypes'
  BY <1>1, <1>5 DEF MessageTypes
<1>7. MessageFreed' /\ Handed'
  BY <1>1 DEF MessageFreed, Handed
<1>8. Written(mb'.items, orig', 0)
  <2>1. its[1].w = 2
    BY <1>4, ItemFacts
  <2>2. Start(orig', 0) = 2
    BY <1>1, StartFacts
  <2>3. \A k \in 1 .. 0 : FALSE
    OBVIOUS
  <2> QED  BY <1>1, <1>4, <1>5, <2>1, <2>2, <2>3 DEF Written, n
<1>9. Coding'
  BY <1>1, <1>2, <1>8 DEF Coding, n
<1> QED  BY <1>6, <1>7, <1>9 DEF MsgInv

LEMMA EncodeFieldKeeps ==
    ASSUME MsgInv, EncodeField  PROVE MsgInv'
<1> DEFINE f == msg.sent[counter + 1]
<1>1. /\ MessageTypes /\ MessageFreed /\ Handed /\ Coding /\ stage = "encode" /\ counter < Len(msg.sent)
      /\ stage' = stage /\ orig' = orig /\ counter' = counter + 1 /\ mb' = PushAll(mb, WireField(f))
      /\ msg' = msg /\ refs' = refs /\ blocks' = blocks /\ msg.sent \in Seq(MsgFields) /\ mb \in Buffers
  BY EndsFacts DEF MsgInv, EncodeField, MessageTypes
<1>2. msg.sent = orig /\ counter \in 0 .. Len(orig) /\ Written(mb.items, orig, counter)
  BY <1>1 DEF Coding
<1>3. counter \in 0 .. Len(orig) - 1 /\ counter + 1 \in 0 .. Len(orig) /\ f = orig[counter + 1] /\ orig \in Seq(MsgFields)
  BY <1>1, <1>2
<1>4. f \in MsgFields
  BY <1>3
<1> HIDE DEF f
<1>5. mb' \in Buffers /\ mb'.items = mb.items \o WireField(f)
  BY <1>1, <1>4, WireFieldFacts, PushAllFacts
<1>6. Written(mb'.items, orig, counter + 1)
  BY <1>2, <1>3, <1>5, WrittenStep
<1>7. MessageTypes'
  BY <1>1, <1>5 DEF MessageTypes
<1>8. MessageFreed' /\ Handed'
  BY <1>1 DEF MessageFreed, Handed
<1>9. Coding'
  BY <1>1, <1>2, <1>3, <1>6 DEF Coding
<1> QED  BY <1>7, <1>8, <1>9 DEF MsgInv

LEMMA EncodeDoneKeeps ==
    ASSUME MsgInv, EncodeDone  PROVE MsgInv'
<1>1. /\ MessageTypes /\ MessageFreed /\ Handed /\ Coding /\ stage = "encode" /\ counter = Len(msg.sent)
      /\ stage' = "sent" /\ orig' = orig /\ mb' = mb
      /\ msg' = msg /\ refs' = refs /\ blocks' = blocks
  BY DEF MsgInv, EncodeDone
<1>2. Written(mb.items, orig, Len(orig))
  BY <1>1 DEF Coding
<1>3. MessageTypes'
  BY <1>1 DEF MessageTypes
<1>4. MessageFreed' /\ Handed'
  BY <1>1 DEF MessageFreed, Handed
<1>5. Coding'
  BY <1>1, <1>2 DEF Coding
<1> QED  BY <1>3, <1>4, <1>5 DEF MsgInv

LEMMA DecodeStartKeeps ==
    ASSUME MsgInv, DecodeStart  PROVE MsgInv'
<1> DEFINE it == mb.items
           r0 == [at |-> 1, l |-> Bytes(it) - 2, err |-> FALSE, val |-> 0]
<1>1. /\ MessageTypes /\ MessageFreed /\ Handed /\ Coding /\ stage = "sent" /\ refs.got = 0 /\ msg.got = <<>>
      /\ stage' = "decode" /\ orig' = orig /\ counter' = 0 /\ mb' = mb /\ rd' = Pull(r0, 2)
      /\ msg' = msg /\ refs' = [refs EXCEPT !.got = 1] /\ blocks' = blocks + 1 /\ blocks \in Int
      /\ orig \in Seq(MsgFields)
  BY DEF MsgInv, DecodeStart, Handed, MessageTypes
<1>2. refs' \in [Ends -> Nat] /\ refs'.got = 1 /\ refs'.sent = refs.sent /\ MsgBlocks(msg.sent) \in Nat
  BY <1>1, EndsFacts
<1>3. Written(it, orig, Len(orig))
  BY <1>1 DEF Coding
<1>4. it \in Seq(WireItems) /\ Len(it) = Start(orig, Len(orig)) /\ it[1].w = 2 /\ it[2] = Item(2, Len(orig))
  BY <1>3 DEF Written
<1>5. Len(it) \in Nat /\ 1 \in 1 .. Len(it) /\ 2 \in 1 .. Len(it) /\ Start(orig, 0) = 2
  <2>1. Len(orig) \in 0 .. Len(orig)
    BY <1>1
  <2>2. Start(orig, Len(orig)) \in Nat /\ Start(orig, Len(orig)) >= 2
    BY <1>1, <2>1, StartFacts
  <2> QED  BY <1>1, <1>4, <2>2, StartFacts
<1>6. Upto(Widths(it), 1) = 2
  <2>1. \A k \in 1 .. Len(it) : Widths(it)[k] = it[k].w /\ it[k].w \in Nat
    BY <1>4, BytesFacts
  <2>2. 1 \in Nat /\ 1 > 0 /\ 1 - 1 = 0 /\ (\A k \in 1 .. 1 : Widths(it)[k] \in Int) /\ Widths(it)[1] = 2
    BY <1>4, <1>5, <2>1
  <2>3. Upto(Widths(it), 1) = Upto(Widths(it), 0) + Widths(it)[1] /\ Upto(Widths(it), 0) = 0
    BY <2>2, UptoFacts
  <2> QED  BY <2>2, <2>3
<1>7. r0 = ReadAt(it, 1, 0)
  BY <1>6 DEF ReadAt
<1>8. Pull(ReadAt(it, 1, 0), 2) = ReadAt(it, 2, it[2].v)
  <2>1. it[2].w = 2 /\ 2 - 1 = 1
    BY <1>4, ItemFacts
  <2>2. Pull(ReadAt(it, 2 - 1, 0), it[2].w) = ReadAt(it, 2, it[2].v)
    BY <1>4, <1>5, PullReads
  <2> QED  BY <2>1, <2>2
<1> HIDE DEF r0
<1>9. rd' = ReadAt(it, 2, it[2].v)
  BY <1>1, <1>7, <1>8
<1>10. MessageTypes'
  <2>1. blocks' \in Int
    BY <1>1
  <2> QED  BY <1>1, <1>2, <2>1 DEF MessageTypes
<1>11. MessageFreed'
  <2>1. MsgBlocks(<<>>) = 1
    <3>1. <<>> \in Seq(MsgFields)
      OBVIOUS
    <3> QED  BY <3>1, BlocksFacts
  <2>2. blocks = IF refs.sent > 0 THEN MsgBlocks(msg.sent) ELSE 0
    BY <1>1, <1>2 DEF MessageFreed
  <2>3. refs'.got > 0 /\ msg'.got = <<>> /\ msg'.sent = msg.sent
    BY <1>1, <1>2
  <2> QED  BY <1>1, <1>2, <2>1, <2>2, <2>3 DEF MessageFreed
<1>12. Handed'
  BY <1>1, <1>2 DEF Handed
<1>13. Coding'
  <2>1. Len(msg.got) = 0 /\ Len(orig) \in Nat
    BY <1>1
  <2>2. rd' = ReadAt(mb'.items, Start(orig', Len(msg'.got)), it[2].v)
    BY <1>1, <1>5, <1>9, <2>1
  <2>3. SoFar'
    BY <1>1, <2>1 DEF SoFar
  <2>4. counter' = Len(msg'.got)
    BY <1>1, <2>1
  <2> QED  BY <1>1, <1>2, <1>3, <2>2, <2>3, <2>4 DEF Coding
<1> QED  BY <1>10, <1>11, <1>12, <1>13 DEF MsgInv
------------------------------------------------------------------------------
\* While it decodes: how many fields there are, and where the decoder stands.
LEMMA DecodingFacts ==
    ASSUME MsgInv, stage = "decode"
    PROVE  /\ orig \in Seq(MsgFields) /\ Written(mb.items, orig, Len(orig)) /\ NField = Len(orig)
           /\ SoFar /\ Len(msg.got) \in 0 .. Len(orig) /\ msg.got \in Seq(MsgFields) /\ refs.got = 1
           /\ Lucky => counter = Len(msg.got)
           /\ \E v : rd = ReadAt(mb.items, Start(orig, Len(msg.got)), v)
           /\ Len(msg.got) = Len(orig) => Header.r.err = TRUE
           /\ Len(msg.got) # Len(orig) => Len(msg.got) \in 0 .. Len(orig) - 1 /\ Header.r.err = FALSE
<1>1. /\ MessageTypes /\ Coding /\ orig \in Seq(MsgFields) /\ msg.got \in Seq(MsgFields)
  BY EndsFacts DEF MsgInv, MessageTypes
<1>2. /\ Written(mb.items, orig, Len(orig)) /\ SoFar /\ refs.got = 1 /\ (Lucky => counter = Len(msg.got))
      /\ \E v : rd = ReadAt(mb.items, Start(orig, Len(msg.got)), v)
  BY <1>1 DEF Coding
<1>3. Len(msg.got) \in 0 .. Len(orig)
  BY <1>1, <1>2 DEF SoFar
<1>4. NField = Len(orig)
  BY <1>2, ItemFacts DEF NField, Written
<1>5. PICK v : rd = ReadAt(mb.items, Start(orig, Len(msg.got)), v)
  BY <1>2
<1>6. Len(msg.got) = Len(orig) => Header.r.err = TRUE
  BY <1>1, <1>2, <1>5, HeaderEnds
<1>7. ASSUME Len(msg.got) # Len(orig)  PROVE Len(msg.got) \in 0 .. Len(orig) - 1 /\ Header.r.err = FALSE
  <2>1. Len(msg.got) \in 0 .. Len(orig) - 1
    BY <1>1, <1>3, <1>7
  <2> QED  BY <1>1, <1>2, <1>5, <2>1, FieldReads DEF FieldRead
<1> QED  BY <1>1, <1>2, <1>3, <1>4, <1>6, <1>7

LEMMA NoHeaderKeeps ==
    ASSUME MsgInv, NoHeader  PROVE MsgInv'
<1>1. /\ MessageTypes /\ MessageFreed /\ Handed /\ Coding /\ stage = "decode" /\ counter < NField /\ Header.r.err
      /\ stage' = "failed" /\ refs' = [refs EXCEPT !.got = 0] /\ msg' = [msg EXCEPT !.got = <<>>]
      /\ blocks' = blocks - MsgBlocks(msg.got) /\ mb' = mb /\ orig' = orig /\ blocks \in Int
  BY DEF MsgInv, NoHeader, DecodeFail, MsgDestroy, MessageTypes
<1>2. /\ NField = Len(orig) /\ Len(msg.got) = Len(orig) /\ refs.got = 1 /\ (Lucky => counter = Len(msg.got))
      /\ Len(orig) \in Nat
  BY <1>1, DecodingFacts
<1>3. ~Lucky
  BY <1>1, <1>2
<1>4. /\ refs' \in [Ends -> Nat] /\ refs'.got = 0 /\ refs'.sent = refs.sent
      /\ msg' \in [Ends -> Seq(MsgFields)] /\ msg'.got = <<>> /\ msg'.sent = msg.sent
      /\ MsgBlocks(msg.got) \in Nat /\ MsgBlocks(msg.sent) \in Nat
  <2>1. <<>> \in Seq(MsgFields) /\ 0 \in Nat
    OBVIOUS
  <2> QED  BY <1>1, <2>1, EndsFacts
<1>5. MessageTypes'
  <2>1. blocks' \in Int
    BY <1>1, <1>4
  <2> QED  BY <1>1, <1>4, <2>1 DEF MessageTypes
<1>6. MessageFreed'
  <2>1. blocks = (IF refs.sent > 0 THEN MsgBlocks(msg.sent) ELSE 0) + MsgBlocks(msg.got)
    BY <1>1, <1>2 DEF MessageFreed
  <2> DEFINE s == IF refs.sent > 0 THEN MsgBlocks(msg.sent) ELSE 0
  <2>2. s \in Nat /\ blocks' = (s + MsgBlocks(msg.got)) - MsgBlocks(msg.got)
    BY <1>1, <1>4, <2>1
  <2>3. s = IF refs'.sent > 0 THEN MsgBlocks(msg'.sent) ELSE 0
    BY <1>4
  <2>4. ~(refs'.got > 0)
    BY <1>4
  <2> HIDE DEF s
  <2>5. blocks' = s + 0
    BY <1>4, <2>2
  <2> QED  BY <2>3, <2>4, <2>5 DEF MessageFreed
<1>7. Handed' /\ Coding'
  BY <1>1, <1>3, <1>4 DEF Handed, Coding, Lucky
<1> QED  BY <1>5, <1>6, <1>7 DEF MsgInv

\* A field that is read whole is the one that was sent.
LEMMA AppendDecodedKeeps ==
    ASSUME MsgInv, stage = "decode", Len(msg.got) # Len(orig),
           NEW f, f = orig[Len(msg.got) + 1], NEW h, h.tag = f.tag, h.type = [base |-> f.base, array |-> f.array],
           NEW u, NEW j, Lucky => j = Len(msg.got) + 1,
           AppendDecoded(h, [r |-> ReadAt(mb.items, Start(orig, Len(msg.got) + 1), u), vals |-> f.vals], j)
    PROVE  MsgInv'
<1> DEFINE d == Len(msg.got)
           g == Append(msg.got, f)
           r1 == ReadAt(mb.items, Start(orig, d + 1), u)
           s1 == [r |-> r1, vals |-> f.vals]
<1>1. /\ MessageTypes /\ MessageFreed /\ Handed /\ Coding /\ blocks \in Int
  BY DEF MsgInv, MessageTypes
<1>2. /\ orig \in Seq(MsgFields) /\ Written(mb.items, orig, Len(orig)) /\ SoFar
      /\ d \in 0 .. Len(orig) - 1 /\ msg.got \in Seq(MsgFields) /\ refs.got = 1
  BY DecodingFacts
<1>3. d + 1 \in 1 .. Len(orig) /\ d \in Nat /\ f \in MsgFields /\ Valid(f)
  BY <1>2 DEF MsgFields
<1>4. [tag |-> h.tag, base |-> h.type.base, array |-> h.type.array, vals |-> s1.vals] = f
  <2>1. f = [tag |-> f.tag, base |-> f.base, array |-> f.array, vals |-> f.vals]
    BY <1>3, FieldFacts
  <2>2. h.type.base = f.base /\ h.type.array = f.array
    OBVIOUS
  <2> QED  BY <2>1, <2>2
<1>5. s1.r = r1 /\ r1.err = FALSE
  BY DEF ReadAt
<1> HIDE DEF s1, r1
<1>6. /\ msg' = [msg EXCEPT !.got = g] /\ blocks' = blocks + FieldBlocks(f) /\ rd' = r1 /\ counter' = j
      /\ refs' = refs /\ stage' = stage /\ mb' = mb /\ orig' = orig
  <2>1. AppendDecoded(h, s1, j)
    BY DEF s1, r1
  <2> HIDE DEF g
  <2>2. msg' = [msg EXCEPT !.got = Append(@, f)] /\ CreateField(f) /\ rd' = s1.r /\ counter' = j /\ UNCHANGED <<refs, stage, mb, orig>>
    BY <1>4, <1>5, <2>1 DEF AppendDecoded
  <2> QED  BY <1>3, <1>5, <2>2 DEF CreateField, g
<1>7. g \in Seq(MsgFields) /\ Len(g) = d + 1 /\ g[d + 1] = f /\ (\A i \in 1 .. d : g[i] = msg.got[i])
      /\ MsgBlocks(g) = MsgBlocks(msg.got) + FieldBlocks(f) /\ FieldBlocks(f) \in Nat
  <2>1. g \in Seq(MsgFields) /\ MsgBlocks(g) = MsgBlocks(msg.got) + FieldBlocks(f)
    BY <1>2, <1>3, BlocksAdd
  <2>2. FieldBlocks(f) \in Nat
    BY <1>3, FieldFacts
  <2>3. Len(g) = d + 1 /\ g[d + 1] = f /\ \A i \in 1 .. d : g[i] = msg.got[i]
    BY <1>2, <1>3
  <2> QED  BY <2>1, <2>2, <2>3
<1> HIDE DEF g
<1>8. /\ msg' \in [Ends -> Seq(MsgFields)] /\ msg'.got = g /\ msg'.sent = msg.sent
      /\ MsgBlocks(msg.got) \in Nat /\ MsgBlocks(msg.sent) \in Nat
  BY <1>1, <1>6, <1>7, EndsFacts
<1>9. MessageTypes'
  <2>1. blocks' \in Int
    BY <1>1, <1>6, <1>7
  <2> QED  BY <1>1, <1>6, <1>8, <2>1 DEF MessageTypes
<1>10. MessageFreed'
  <2> DEFINE s == IF refs.sent > 0 THEN MsgBlocks(msg.sent) ELSE 0
  <2>1. blocks = s + MsgBlocks(msg.got) /\ s \in Nat
    BY <1>1, <1>2, <1>8 DEF MessageFreed
  <2>2. s = IF refs'.sent > 0 THEN MsgBlocks(msg'.sent) ELSE 0
    BY <1>6, <1>8
  <2>3. refs'.got > 0
    BY <1>2, <1>6
  <2> HIDE DEF s
  <2>4. blocks' = s + MsgBlocks(msg'.got)
    BY <1>6, <1>7, <1>8, <2>1
  <2> QED  BY <2>2, <2>3, <2>4 DEF MessageFreed
<1>11. Handed'
  BY <1>1, <1>2, <1>6 DEF Handed
<1>12. SoFar'
  <2>1. \A i \in 1 .. d + 1 : i \in 1 .. d \/ i = d + 1
    BY <1>3
  <2>2. \A i \in 1 .. d : msg.got[i] = orig[i]
    BY <1>2 DEF SoFar
  <2>3. d + 1 <= Len(orig) /\ orig[d + 1] = f
    BY <1>2
  <2> HIDE DEF d
  <2> QED  BY <1>6, <1>7, <1>8, <2>1, <2>2, <2>3 DEF SoFar
<1>13. rd' = ReadAt(mb'.items, Start(orig', Len(msg'.got)), u)
  BY <1>6, <1>7, <1>8 DEF r1
<1>14. Lucky' => counter' = Len(msg'.got)
  <2>1. Lucky' => Lucky
    BY <1>6 DEF Lucky
  <2> QED  BY <1>6, <1>7, <1>8, <2>1
<1>15. Coding'
  BY <1>2, <1>6, <1>12, <1>13, <1>14 DEF Coding
<1> QED  BY <1>9, <1>10, <1>11, <1>15 DEF MsgInv

LEMMA DecodeBasicKeeps ==
    ASSUME MsgInv, DecodeBasic  PROVE MsgInv'
<1> DEFINE h == Header
           d == Len(msg.got)
           f == orig[d + 1]
<1>1. /\ stage = "decode" /\ counter < NField /\ ~h.r.err /\ ~h.type.array
      /\ AppendDecoded(h, PullValues(h.r, h.type.base, 1), counter + 1)
  BY DEF DecodeBasic
<1>2. /\ orig \in Seq(MsgFields) /\ Written(mb.items, orig, Len(orig)) /\ d # Len(orig) /\ d \in 0 .. Len(orig) - 1
      /\ (Lucky => counter = d) /\ \E v : rd = ReadAt(mb.items, Start(orig, d), v)
  BY <1>1, DecodingFacts
<1>3. PICK v : rd = ReadAt(mb.items, Start(orig, d), v)
  BY <1>2
<1> HIDE DEF h, f
<1>4. /\ h.tag = f.tag /\ h.type = [base |-> f.base, array |-> f.array]
      /\ ~f.array => \E u : PullValues(h.r, f.base, 1) = [r |-> ReadAt(mb.items, Start(orig, d + 1), u), vals |-> f.vals]
  <2>1. f = orig[d + 1] /\ FieldRead(f, d)
    BY <1>2, <1>3, FieldReads DEF f
  <2> QED  BY <2>1 DEF FieldRead, h
<1>5. h.type.base = f.base /\ ~f.array
  BY <1>1, <1>4
<1>6. PICK u : PullValues(h.r, f.base, 1) = [r |-> ReadAt(mb.items, Start(orig, d + 1), u), vals |-> f.vals]
  BY <1>4, <1>5
<1>7. AppendDecoded(h, [r |-> ReadAt(mb.items, Start(orig, d + 1), u), vals |-> f.vals], counter + 1)
  BY <1>1, <1>5, <1>6
<1>8. Lucky => counter + 1 = d + 1
  BY <1>2
<1> QED  BY <1>1, <1>2, <1>4, <1>7, <1>8, AppendDecodedKeeps DEF f

\* The counter of the outer loop goes on from the length of the array, which
\* is the number of the field in a message that is lucky.
LEMMA DecodeArrayKeeps ==
    ASSUME MsgInv, DecodeArray  PROVE MsgInv'
<1> DEFINE h == Header
           c == Pull(h.r, 4)
           d == Len(msg.got)
           f == orig[d + 1]
<1>1. /\ stage = "decode" /\ counter < NField /\ ~h.r.err /\ h.type.array
      /\ AppendDecoded(h, PullValues(c, h.type.base, c.val), c.val + 1)
  BY DEF DecodeArray
<1>2. /\ orig \in Seq(MsgFields) /\ Written(mb.items, orig, Len(orig)) /\ d # Len(orig) /\ d \in 0 .. Len(orig) - 1
      /\ \E v : rd = ReadAt(mb.items, Start(orig, d), v)
  BY <1>1, DecodingFacts
<1>3. PICK v : rd = ReadAt(mb.items, Start(orig, d), v)
  BY <1>2
<1> HIDE DEF h, f
<1>4. /\ h.tag = f.tag /\ h.type = [base |-> f.base, array |-> f.array]
      /\ f.array => /\ c.val = Len(f.vals)
                    /\ \E u : PullValues(c, f.base, Len(f.vals))
                                = [r |-> ReadAt(mb.items, Start(orig, d + 1), u), vals |-> f.vals]
  <2>1. f = orig[d + 1] /\ FieldRead(f, d)
    BY <1>2, <1>3, FieldReads DEF f
  <2> QED  BY <2>1 DEF FieldRead, h
<1> HIDE DEF c
<1>5. h.type.base = f.base /\ f.array /\ c.val = Len(f.vals)
  BY <1>1, <1>4
<1>6. PICK u : PullValues(c, f.base, Len(f.vals)) = [r |-> ReadAt(mb.items, Start(orig, d + 1), u), vals |-> f.vals]
  BY <1>4, <1>5
<1>7. AppendDecoded(h, [r |-> ReadAt(mb.items, Start(orig, d + 1), u), vals |-> f.vals], c.val + 1)
  BY <1>1, <1>5, <1>6
<1>8. Lucky => c.val + 1 = d + 1
  <2>1. d + 1 \in DOMAIN orig /\ (d + 1) - 1 = d
    BY <1>2
  <2>2. Lucky => Len(f.vals) = d
    BY <1>5, <2>1 DEF Lucky, f
  <2> QED  BY <1>5, <2>2
<1> QED  BY <1>1, <1>2, <1>4, <1>7, <1>8, AppendDecodedKeeps DEF f

LEMMA DecodeDoneKeeps ==
    ASSUME MsgInv, DecodeDone  PROVE MsgInv'
<1>1. /\ MessageTypes /\ MessageFreed /\ Handed /\ Coding /\ stage = "decode" /\ counter >= NField
      /\ stage' = "done" /\ UNCHANGED <<msg, refs, blocks, lost, mb, orig, counter, rd>>
  BY DEF MsgInv, DecodeDone
<1>2. /\ orig \in Seq(MsgFields) /\ msg.got \in Seq(MsgFields) /\ NField = Len(orig) /\ SoFar /\ Len(msg.got) \in 0 .. Len(orig)
      /\ (Lucky => counter = Len(msg.got)) /\ refs.got = 1
  BY <1>1, DecodingFacts
<1>3. Lucky => msg.got = orig
  <2> SUFFICES ASSUME Lucky  PROVE msg.got = orig
    OBVIOUS
  <2>1. Len(msg.got) = Len(orig)
    BY <1>1, <1>2
  <2>2. \A i \in 1 .. Len(msg.got) : msg.got[i] = orig[i]
    BY <1>2 DEF SoFar
  <2> QED  BY <1>2, <2>1, <2>2, SeqEqual
<1>4. MessageTypes'
  BY <1>1 DEF MessageTypes
<1>5. MessageFreed' /\ Handed'
  BY <1>1, <1>2 DEF MessageFreed, Handed
<1>6. SoFar' /\ (Lucky' => (msg.got = orig)')
  BY <1>1, <1>2, <1>3 DEF SoFar, Lucky
<1>7. Coding'
  BY <1>1, <1>6 DEF Coding
<1> QED  BY <1>4, <1>5, <1>7 DEF MsgInv
------------------------------------------------------------------------------
LEMMA MsgInvImplies ==
    ASSUME MsgInv  PROVE MessagesAreSound
<1>1. /\ MessageTypes /\ MessageFreed /\ Handed /\ Coding /\ msg.got \in Seq(MsgFields) /\ orig \in Seq(MsgFields)
  BY EndsFacts DEF MsgInv, MessageTypes
<1>2. BufferSound
  BY <1>1 DEF MessageTypes, Buffers, BufferSound
<1>3. refs.got > 0 => SoFar
  <2>1. refs.got > 0 => stage \in {"decode", "done"}
    BY <1>1 DEF MessageTypes, Handed
  <2> QED  BY <1>1, <2>1 DEF Coding
<1>4. DecodedIsPrefix
  <2> SUFFICES ASSUME refs.got > 0  PROVE IsPrefix(msg.got, orig)
    BY DEF DecodedIsPrefix
  <2> DEFINE n == Len(msg.got)
             a == SubSeq(msg.got, 1, n)
             b == SubSeq(orig, 1, n)
  <2>1. n \in Nat /\ n <= Len(orig) /\ \A i \in 1 .. n : msg.got[i] = orig[i]
    BY <1>1, <1>3 DEF SoFar
  <2>2. a \in Seq(MsgFields) /\ Len(a) = n /\ \A i \in 1 .. n : a[i] = msg.got[i]
    BY <1>1
  <2>3. b \in Seq(MsgFields) /\ Len(b) = n /\ \A i \in 1 .. n : b[i] = orig[i]
    BY <1>1, <2>1
  <2> HIDE DEF a, b
  <2>4. a = b
    BY <2>1, <2>2, <2>3, SeqEqual
  <2> QED  BY <2>1, <2>4 DEF IsPrefix, a, b
<1>5. LuckyArrives
  BY <1>1 DEF LuckyArrives, Coding
<1> QED  BY <1>1, <1>2, <1>4, <1>5 DEF MessagesAreSound

LEMMA NextKeepsMsgInv ==
    ASSUME MsgInv, [MessageNext]_messageVars  PROVE MsgInv'
<1>1. CASE UNCHANGED messageVars
  <2>1. /\ MessageTypes /\ MessageFreed /\ Handed /\ Coding
        /\ UNCHANGED <<msg, refs, blocks, lost, stage, mb, orig, counter, rd>>
    BY <1>1 DEF MsgInv, messageVars
  <2>2. MessageTypes'
    BY <2>1 DEF MessageTypes
  <2>3. MessageFreed' /\ Handed'
    BY <2>1 DEF MessageFreed, Handed
  <2>4. Coding'
    BY <2>1 DEF Coding, SoFar, Lucky
  <2> QED  BY <2>2, <2>3, <2>4 DEF MsgInv
<1>2. CASE MessageNext
  <2>1. CASE Create
    BY <2>1, CreateKeeps
  <2>2. CASE EncodeStart
    BY <2>2, EncodeStartKeeps
  <2>3. CASE EncodeField
    BY <2>3, EncodeFieldKeeps
  <2>4. CASE EncodeDone
    BY <2>4, EncodeDoneKeeps
  <2>5. CASE DecodeStart
    BY <2>5, DecodeStartKeeps
  <2>6. CASE NoHeader
    BY <2>6, NoHeaderKeeps
  <2>7. CASE DecodeBasic
    BY <2>7, DecodeBasicKeeps
  <2>8. CASE DecodeArray
    BY <2>8, DecodeArrayKeeps
  <2>9. CASE DecodeDone
    BY <2>9, DecodeDoneKeeps
  <2>10. CASE \E r \in AskedFields : MsgAppend(r) \/ MsgPrepend(r)
    BY <2>10, AddKeeps
  <2>11. CASE \E e \in Ends : Ref(e) \/ Unref(e)
    BY <2>11, RefKeeps, UnrefKeeps
  <2> QED  BY <1>2, <2>1, <2>2, <2>3, <2>4, <2>5, <2>6, <2>7, <2>8, <2>9, <2>10, <2>11 DEF MessageNext
<1> QED  BY <1>1, <1>2

\* What is written fits the buffer, what is decoded is a beginning of what was
\* sent and all of it when no array leads the decoder's counter astray, and all
\* blocks of a message go with its last reference: for any fields that callers
\* ask for, of any number, lengths and values.
THEOREM MessagesSound == MessageSpec => []MessagesAreSound
<1>1. MessageInit => MsgInv
  BY InitMsgInv
<1>2. MsgInv /\ [MessageNext]_messageVars => MsgInv'
  BY NextKeepsMsgInv
<1>3. MsgInv => MessagesAreSound
  BY MsgInvImplies
<1> QED  BY <1>1, <1>2, <1>3, PTL DEF MessageSpec

------------------------------------------------------------------------------
(* Data types.  The inductive invariant says which descriptors are found,   *)
(* that the frame is the structure that was sent, member by member, and how *)
(* far the decoder has come in it: the members it has are the first ones of *)
(* the structure, and the heap has their blocks.                            *)

KnownTypes(s) == {Enumerated(d) : d \in {x \in Descriptors[s] : Registrable(x)}}
AnyType       == {NoType} \cup UNION {KnownTypes(s) : s \in Sides}

TypesKnown ==
    /\ direct \in [Sides -> [1 .. NDIRECT_TYPE -> AnyType]]
    /\ \A s \in Sides : \A i \in 1 .. NDIRECT_TYPE :
          direct[s][i] # NoType => direct[s][i] \in KnownTypes(s) /\ direct[s][i].tag = i
    /\ others \in [Sides -> Seq(AnyType)]
    /\ \A s \in Sides : \A i \in DOMAIN others[s] : others[s][i] \in KnownTypes(s)

EncodedMembers(d, vals) == [n \in DOMAIN d.fields |-> EncodeMember(d, n - 1, vals)]
Members  == EncodedMembers(sent.descr, sent.vals)
Place(n) == Upto(Lengths(Members), n)

Encoded == /\ sent.descr \in KnownTypes("sender") /\ sent.vals \in Values(sent.descr)
           /\ Troubles(sent.descr, sent.vals) = {}
           /\ wire = FlattenSeq(Members)

Decoded ==
    /\ Descr # NoType
    /\ turn \in 0 .. Len(Descr.fields) /\ turn <= Len(sent.descr.fields)
    /\ data = [n \in 1 .. turn |-> sent.vals[n]]
    /\ \A n \in 1 .. turn :
          Descr.fields[n].array => ArraySize(Descr, n - 1, sent.vals) = Len(sent.vals[n])

Stored == UNION {Blocks(n, Descr.fields[n], data[n]) : n \in DOMAIN data}

DataIInv ==
    /\ TypesKnown
    /\ phase \in {"idle", "refused", "crashed", "sent", "decode", "done", "freed", "failed"}
    /\ phase \in {"sent", "decode", "done", "freed", "failed"} => Encoded
    /\ phase \in {"idle", "sent", "refused", "crashed"} => heap = {}
    /\ phase = "sent" => pos = 0
    /\ phase \in {"decode", "done", "freed"} => Decoded
    /\ phase = "decode" => pos = Place(turn)
    /\ phase \in {"decode", "done"} => heap = {Whole} \cup Stored
    /\ phase \in {"done", "freed"} => turn = Len(Descr.fields)
    /\ phase = "failed" => ~(Same /\ Blobless(sent.descr))
    /\ StructureFreed

\* What a registered type is: members by index, arrays counted by an earlier one.
IsType(y) ==
    /\ y.tag \in Nat \ {0} /\ y.fields \in Seq(ToSet(y.fields))
    /\ y.allocated = {k \in Indices(y) : Field(y, k).array \/ Field(y, k).base \in Boxed}
    /\ \A k \in Indices(y) :
          LET f == Field(y, k)
          IN  /\ f.array \in BOOLEAN /\ f.guard \in BOOLEAN
              /\ f.array /\ f.guard => f.base # "string"
              /\ f.array /\ ~f.guard => /\ f.u32 \in 0 .. k - 1 /\ ~Field(y, f.u32).array
                                        /\ Field(y, f.u32).base \in Counts

\* An array that is registered has its count before it.
LEMMA CountFacts ==
    ASSUME NEW d, IsDescriptor(d), Registrable(d), NEW k \in Indices(d), Field(d, k).array, ~Field(d, k).guard
    PROVE  LET c == CHOOSE x \in CountOf(d, k) : TRUE
           IN  c \in 0 .. k - 1 /\ ~Field(d, c).array /\ Field(d, c).base \in Counts
<1>1. Len(d.fields) \in Nat
  BY DEF IsDescriptor
<1>2. PICK j \in CountOf(d, k) : j < k /\ ~Field(d, j).array /\ Field(d, j).base \in Counts
  BY DEF Registrable, ArrayOK
<1>3. ASSUME NEW i \in CountOf(d, k)  PROVE i = j
  <2>1. i \in Nat /\ j \in Nat
    BY <1>1 DEF CountOf, Indices
  <2>2. ~(i < j) /\ ~(j < i)
    BY <2>1 DEF CountOf
  <2> QED  BY <2>1, <2>2
<1>4. (CHOOSE x \in CountOf(d, k) : TRUE) = j
  BY <1>3
<1>5. j \in 0 .. k - 1
  BY <1>1, <1>2 DEF CountOf, Indices
<1> QED  BY <1>2, <1>4, <1>5

LEMMA EnumeratedFacts ==
    ASSUME NEW d, IsDescriptor(d), Registrable(d)
    PROVE  LET y == Enumerated(d)
           IN  /\ IsType(y) /\ y # NoType /\ y.tag = d.tag /\ Len(y.fields) = Len(d.fields)
               /\ \A n \in 1 .. Len(d.fields) :
                     LET f == d.fields[n]
                         g == y.fields[n]
                     IN  /\ g.base = f.base /\ g.array = f.array /\ g.guard = f.guard
                         /\ f.guard => g.u32 = f.u32
<1> DEFINE y == Enumerated(d)
           m == Len(d.fields)
<1>1. m \in Nat /\ DOMAIN d.fields = 1 .. m /\ \A n \in 1 .. m : d.fields[n] \in ToSet(d.fields)
  BY DEF IsDescriptor, ToSet
<1>2. \A n \in 1 .. m : LET f == d.fields[n]
                        IN  /\ f = [offs |-> f.offs, base |-> f.base, array |-> f.array,
                                    guard |-> f.guard, u32 |-> f.u32]
                            /\ f.array \in BOOLEAN /\ f.guard \in BOOLEAN
                            /\ f.array /\ f.guard => f.base # "string"
  BY <1>1 DEF IsDescriptor
<1>3. /\ y.tag = d.tag /\ DOMAIN y.fields = 1 .. m
      /\ \A n \in 1 .. m : y.fields[n] = IF d.fields[n].array /\ ~d.fields[n].guard
                                         THEN [d.fields[n] EXCEPT !.u32 = CHOOSE j \in CountOf(d, n - 1) : TRUE]
                                         ELSE d.fields[n]
      /\ y.allocated = {k \in Indices(d) : Field(d, k).array \/ Field(d, k).base \in Boxed}
  BY <1>1 DEF Enumerated
<1> HIDE DEF y
<1>4. y.fields \in Seq(ToSet(y.fields)) /\ Len(y.fields) = m
  <2>1. \A n \in 1 .. m : y.fields[n] \in ToSet(y.fields)
    BY <1>3 DEF ToSet
  <2>2. y.fields = [n \in 1 .. m |-> y.fields[n]]
    BY <1>3 DEF y, Enumerated
  <2>3. y.fields \in [1 .. m -> ToSet(y.fields)]
    BY <2>1, <2>2
  <2> HIDE DEF m
  <2> QED  BY <1>1, <2>3
<1>5. ASSUME NEW n \in 1 .. m
      PROVE  LET f == d.fields[n]
                 g == y.fields[n]
             IN  /\ g.base = f.base /\ g.array = f.array /\ g.guard = f.guard
                 /\ ~(f.array /\ ~f.guard) => g.u32 = f.u32
                 /\ f.array /\ ~f.guard => g.u32 = CHOOSE j \in CountOf(d, n - 1) : TRUE
  <2> DEFINE f == d.fields[n]
             g == y.fields[n]
  <2>1. CASE f.array /\ ~f.guard
    <3> DEFINE c == CHOOSE j \in CountOf(d, n - 1) : TRUE
    <3>1. g = [f EXCEPT !.u32 = c]
      BY <1>3, <2>1
    <3>2. f = [offs |-> f.offs, base |-> f.base, array |-> f.array, guard |-> f.guard, u32 |-> f.u32]
      BY <1>2
    <3> HIDE DEF c, f, g
    <3>3. g.base = f.base /\ g.array = f.array /\ g.guard = f.guard /\ g.u32 = c
      BY <3>1, <3>2
    <3> QED  BY <2>1, <3>3 DEF c, f, g
  <2>2. CASE ~(f.array /\ ~f.guard)
    BY <1>3, <2>2
  <2> QED  BY <2>1, <2>2
<1>6. Indices(y) = Indices(d) /\ Indices(d) = 0 .. m - 1 /\ \A k \in Indices(d) : k + 1 \in 1 .. m
  BY <1>1, <1>4 DEF Indices
<1>7. y.allocated = {k \in Indices(y) : Field(y, k).array \/ Field(y, k).base \in Boxed}
  <2>1. \A k \in Indices(d) : Field(y, k).array = Field(d, k).array /\ Field(y, k).base = Field(d, k).base
    BY <1>5, <1>6 DEF Field
  <2> QED  BY <1>3, <1>6, <2>1
<1>8. ASSUME NEW k \in Indices(y)
      PROVE  LET f == Field(y, k)
             IN  /\ f.array \in BOOLEAN /\ f.guard \in BOOLEAN
                 /\ f.array /\ f.guard => f.base # "string"
                 /\ f.array /\ ~f.guard => /\ f.u32 \in 0 .. k - 1 /\ ~Field(y, f.u32).array
                                           /\ Field(y, f.u32).base \in Counts
  <2> DEFINE f == Field(y, k)
             h == Field(d, k)
  <2>1. k \in Indices(d) /\ k + 1 \in 1 .. m /\ (k + 1) - 1 = k /\ k \in 0 .. m - 1
    BY <1>6
  <2>2. /\ f.base = h.base /\ f.array = h.array /\ f.guard = h.guard
        /\ h.array /\ ~h.guard => f.u32 = CHOOSE j \in CountOf(d, k) : TRUE
    BY <1>5, <2>1 DEF Field
  <2>3. h.array \in BOOLEAN /\ h.guard \in BOOLEAN /\ (h.array /\ h.guard => h.base # "string")
    BY <1>2, <2>1 DEF Field
  <2>4. ASSUME h.array, ~h.guard
        PROVE  f.u32 \in 0 .. k - 1 /\ ~Field(y, f.u32).array /\ Field(y, f.u32).base \in Counts
    <3>1. f.u32 \in 0 .. k - 1 /\ ~Field(d, f.u32).array /\ Field(d, f.u32).base \in Counts
      BY <2>1, <2>2, <2>4, CountFacts
    <3>2. f.u32 + 1 \in 1 .. m
      BY <1>1, <2>1, <3>1
    <3>3. Field(y, f.u32).array = Field(d, f.u32).array /\ Field(y, f.u32).base = Field(d, f.u32).base
      BY <1>5, <3>2 DEF Field
    <3> QED  BY <3>1, <3>3
  <2> HIDE DEF f, h
  <2>5. QED  BY <2>2, <2>3, <2>4 DEF f
<1>9. y.tag \in Nat \ {0} /\ y # NoType
  <2>1. d.tag \in Nat \ {0}
    BY DEF IsDescriptor, Registrable
  <2>2. NoType.tag = 0
    BY DEF NoType
  <2> QED  BY <1>3, <2>1, <2>2
<1>10. IsType(y)
  BY <1>4, <1>7, <1>8, <1>9 DEF IsType
<1> QED  BY <1>3, <1>4, <1>5, <1>9, <1>10 DEF y

LEMMA KnownTypesFacts ==
    ASSUME NEW s \in Sides, NEW y \in KnownTypes(s)
    PROVE  IsType(y) /\ y # NoType
<1>1. PICK d \in Descriptors[s] : Registrable(d) /\ y = Enumerated(d)
  BY DEF KnownTypes
<1>2. IsDescriptor(d)
  BY DataCodecAssumption
<1> QED  BY <1>1, <1>2, EnumeratedFacts

\* What the two sides know under a tag is alike, and structures are of their type.
LEMMA AlikeFacts ==
    ASSUME NEW y \in KnownTypes("sender")
    PROVE  /\ \A r \in KnownTypes("receiver") : r.tag = y.tag => Alike(y, r)
           /\ \A vals \in Values(y) : IsStructure(y, vals)
<1>1. PICK d \in Descriptors["sender"] : Registrable(d) /\ y = Enumerated(d)
  BY DEF KnownTypes
<1>2. IsDescriptor(d) /\ \A e \in Descriptors["receiver"] : IsDescriptor(e)
  BY DataCodecAssumption DEF Sides
<1>3. ASSUME NEW r \in KnownTypes("receiver"), r.tag = y.tag  PROVE Alike(y, r)
  <2>1. PICK e \in Descriptors["receiver"] : Registrable(e) /\ r = Enumerated(e)
    BY DEF KnownTypes
  <2>2. y.tag = d.tag /\ r.tag = e.tag
    BY <1>1, <1>2, <2>1, EnumeratedFacts
  <2>3. Alike(d, e)
    BY <1>1, <1>3, <2>1, <2>2, DataCodecAssumption
  <2>4. /\ DOMAIN y.fields = DOMAIN d.fields /\ DOMAIN d.fields = 1 .. Len(d.fields)
        /\ DOMAIN r.fields = DOMAIN e.fields /\ DOMAIN e.fields = 1 .. Len(e.fields)
    BY <1>1, <1>2, <2>1 DEF Enumerated, IsDescriptor
  <2> SUFFICES ASSUME NEW n \in DOMAIN y.fields \cap DOMAIN r.fields
               PROVE  LET f == y.fields[n]
                          g == r.fields[n]
                      IN  /\ f.base = g.base /\ f.array = g.array /\ f.guard = g.guard
                          /\ f.guard => f.u32 = g.u32
    BY DEF Alike
  <2>5. n \in 1 .. Len(d.fields) /\ n \in 1 .. Len(e.fields)
    BY <2>4
  <2>6. LET f == d.fields[n]
            g == e.fields[n]
        IN  f.base = g.base /\ f.array = g.array /\ f.guard = g.guard /\ (f.guard => f.u32 = g.u32)
    BY <2>3, <2>4, <2>5 DEF Alike
  <2>7. LET f == d.fields[n]
            g == y.fields[n]
        IN  g.base = f.base /\ g.array = f.array /\ g.guard = f.guard /\ (f.guard => g.u32 = f.u32)
    BY <1>1, <1>2, <2>5, EnumeratedFacts
  <2>8. LET f == e.fields[n]
            g == r.fields[n]
        IN  g.base = f.base /\ g.array = f.array /\ g.guard = f.guard /\ (f.guard => g.u32 = f.u32)
    BY <1>2, <2>1, <2>5, EnumeratedFacts
  <2> QED  BY <2>6, <2>7, <2>8
<1>4. \A vals \in Values(y) : IsStructure(y, vals)
  BY <1>1, DataCodecAssumption
<1> QED  BY <1>3, <1>4

\* A type is found by its tag among those that were registered.
LEMMA FindTypeFacts ==
    ASSUME TypesKnown, NEW s \in Sides, NEW tag \in Nat
    PROVE  LET y == FindType(s, tag)
           IN  y # NoType => y \in KnownTypes(s) /\ y.tag = tag
<1>1. CASE tag = 0
  BY <1>1 DEF FindType
<1>2. CASE tag # 0 /\ tag <= NDIRECT_TYPE
  <2>1. tag \in 1 .. NDIRECT_TYPE /\ FindType(s, tag) = direct[s][tag]
    BY <1>2, DataCodecAssumption DEF FindType
  <2> QED  BY <2>1 DEF TypesKnown
<1>3. CASE tag # 0 /\ ~(tag <= NDIRECT_TYPE)
  <2> DEFINE hits == {i \in DOMAIN others[s] : others[s][i].tag = tag}
  <2>1. CASE hits = {}
    BY <1>3, <2>1 DEF FindType
  <2>2. CASE hits # {}
    <3>1. hits \subseteq Nat
      BY DEF TypesKnown
    <3>2. \E x \in hits : \A y \in hits : x <= y
      BY <2>2, <3>1, NatMinimum
    <3> DEFINE c == CHOOSE i \in hits : \A j \in hits : i <= j
    <3>3. c \in hits
      BY <3>2
    <3>4. FindType(s, tag) = others[s][c]
      BY <1>3, <2>2 DEF FindType
    <3> HIDE DEF c
    <3> QED  BY <3>3, <3>4 DEF TypesKnown
  <2> QED  BY <2>1, <2>2
<1> QED  BY <1>1, <1>2, <1>3

LEMMA IndexFacts ==
    ASSUME NEW y, IsType(y)
    PROVE  /\ Len(y.fields) \in Nat /\ DOMAIN y.fields = 1 .. Len(y.fields)
           /\ Indices(y) = 0 .. Len(y.fields) - 1
           /\ \A n \in 1 .. Len(y.fields) : n - 1 \in Indices(y) /\ Field(y, n - 1) = y.fields[n]
           /\ \A k \in Indices(y) : k + 1 \in 1 .. Len(y.fields) /\ Field(y, k) = y.fields[k + 1]
BY DEF IsType, Indices, Field

LEMMA GuardFacts ==
    ASSUME NEW f, NEW v, v \in Seq(ToSet(v)), v # <<>>, v[Len(v)] = f.u32, \A j \in 1 .. Len(v) - 1 : v[j] # f.u32
    PROVE  GuardedSize(f, v) = Len(v)
<1> DEFINE P(n) == v[n] = f.u32 /\ \A j \in 1 .. n - 1 : v[j] # f.u32
<1>1. Len(v) \in Nat /\ Len(v) \in 1 .. Len(v) /\ P(Len(v))
  OBVIOUS
<1>2. ASSUME NEW n \in 1 .. Len(v), P(n)  PROVE n = Len(v)
  <2>1. n # Len(v) => n \in 1 .. Len(v) - 1
    BY <1>1
  <2> QED  BY <1>2, <2>1
<1>3. GuardedSize(f, v) = CHOOSE n \in 1 .. Len(v) : P(n)
  BY DEF GuardedSize
<1> HIDE DEF P
<1> QED  BY <1>1, <1>2, <1>3

LEMMA StructureFacts ==
    ASSUME NEW y, IsType(y), NEW vals, IsStructure(y, vals), NEW n \in 1 .. Len(y.fields)
    PROVE  LET f == y.fields[n]
               v == vals[n]
           IN  /\ v \in Seq(ToSet(v))
               /\ ~f.array => Len(v) = 1 /\ (f.base \in Counts => v[1] \in Int)
               /\ f.array /\ f.guard => GuardedSize(f, v) = Len(v)
               /\ f.array /\ ~f.guard /\ Count(y, f.u32, vals) >= 0 => Len(v) = Count(y, f.u32, vals)
<1>1. n - 1 \in Indices(y) /\ Field(y, n - 1) = y.fields[n] /\ (n - 1) + 1 = n
  BY IndexFacts
<1> DEFINE f == y.fields[n]
           v == vals[n]
<1>2. /\ v \in Seq(ToSet(v))
      /\ ~f.array => Len(v) = 1 /\ (f.base \in Counts => v[1] \in Int)
      /\ f.array /\ f.guard => v # <<>> /\ v[Len(v)] = f.u32 /\ \A j \in 1..Len(v) - 1 : v[j] # f.u32
      /\ f.array /\ ~f.guard /\ Count(y, f.u32, vals) >= 0 => Len(v) = Count(y, f.u32, vals)
  BY <1>1 DEF IsStructure
<1> HIDE DEF f, v
<1> QED  BY <1>2, GuardFacts DEF f, v

\* An array that was sent has the size it was sent with.
LEMMA SizeFacts ==
    ASSUME NEW y, IsType(y), NEW vals, IsStructure(y, vals), Troubles(y, vals) = {},
           NEW n \in 1 .. Len(y.fields), y.fields[n].array
    PROVE  /\ ArraySize(y, n - 1, vals) = Len(vals[n]) /\ n # 1
           /\ y.fields[n].base = "blob" => ~y.fields[n].guard /\ Len(vals[n]) = 0
<1> DEFINE f == y.fields[n]
           c == ArraySize(y, n - 1, vals)
<1>1. n - 1 \in Indices(y) /\ Field(y, n - 1) = f /\ (n - 1) + 1 = n /\ n \in Nat /\ Len(y.fields) \in Nat
  BY IndexFacts
<1>2. ~(c < 0 \/ (c > 0 /\ f.base = "blob"))
  <2>1. n - 1 \notin Troubles(y, vals)
    OBVIOUS
  <2> QED  BY <1>1, <2>1 DEF Troubles
<1>3. n # 1
  <2>1. n = 1 => c = -1
    BY <1>1 DEF ArraySize
  <2> QED  BY <1>2, <2>1
<1>4. c = IF f.guard THEN IF f.base = "blob" THEN -1 ELSE GuardedSize(f, vals[n])
          ELSE IF f.u32 \in Indices(y) THEN Count(y, f.u32, vals) ELSE -1
  <2>1. n - 1 \in Indices(y) \ {0} /\ f.array
    BY <1>1, <1>3
  <2> QED  BY <1>1, <2>1 DEF ArraySize
<1>5. /\ Len(vals[n]) \in Nat
      /\ f.guard => GuardedSize(f, vals[n]) = Len(vals[n])
      /\ ~f.guard /\ Count(y, f.u32, vals) >= 0 => Len(vals[n]) = Count(y, f.u32, vals)
  BY StructureFacts
<1>6. f.guard \in BOOLEAN
  BY <1>1 DEF IsType
<1>7. CASE f.guard
  <2>1. f.base # "blob"
    BY <1>2, <1>4, <1>7
  <2> QED  BY <1>3, <1>4, <1>5, <1>7, <2>1
<1>8. CASE ~f.guard
  <2> DEFINE q == Count(y, f.u32, vals)
  <2>1. f.u32 \in 0 .. n - 2
    <3>1. f.u32 \in 0 .. (n - 1) - 1
      BY <1>1, <1>8 DEF IsType
    <3> QED  BY <1>1, <3>1
  <2>2. q \in Int
    <3> DEFINE g == Field(y, f.u32)
    <3>1. f.u32 + 1 \in 1 .. Len(y.fields) /\ g = y.fields[f.u32 + 1] /\ ~g.array /\ g.base \in Counts
      <4>1. ~g.array /\ g.base \in Counts
        BY <1>1, <1>8 DEF IsType
      <4> QED  BY <1>1, <2>1, <4>1 DEF Field
    <3>2. vals[f.u32 + 1][1] \in Int
      BY <3>1, StructureFacts
    <3> QED  BY <3>1, <3>2 DEF Count
  <2>3. c = q \/ c = -1
    BY <1>4, <1>8
  <2> HIDE DEF q, c
  <2>4. c = q /\ q >= 0
    BY <1>2, <2>2, <2>3
  <2>5. c = Len(vals[n])
    BY <1>5, <1>8, <2>4 DEF q
  <2>6. f.base = "blob" => c = 0
    BY <1>2, <2>2, <2>4
  <2> QED  BY <1>3, <1>8, <2>5, <2>6 DEF c
<1> QED  BY <1>6, <1>7, <1>8

\* The size of an array depends on its guarded items or on its count alone.
LEMMA SameSize ==
    ASSUME NEW y, IsType(y), NEW n \in 1 .. Len(y.fields), y.fields[n].array, NEW u, NEW v,
           y.fields[n].guard => u[n] = v[n], \A i \in 1 .. n - 1 : u[i] = v[i]
    PROVE  ArraySize(y, n - 1, u) = ArraySize(y, n - 1, v)
<1> DEFINE f == y.fields[n]
<1>1. n - 1 \in Indices(y) /\ Field(y, n - 1) = f /\ (n - 1) + 1 = n /\ n \in Nat /\ Len(y.fields) \in Nat
  BY IndexFacts
<1>2. f.guard \in BOOLEAN /\ (~f.guard => f.u32 \in 0 .. (n - 1) - 1)
  BY <1>1 DEF IsType
<1>3. CASE f.guard
  BY <1>1, <1>3 DEF ArraySize
<1>4. CASE ~f.guard
  <2>1. f.u32 + 1 \in 1 .. n - 1
    BY <1>1, <1>2, <1>4
  <2>2. Count(y, f.u32, u) = Count(y, f.u32, v)
    BY <2>1 DEF Count
  <2> HIDE DEF f
  <2> QED  BY <1>1, <1>4, <2>2 DEF ArraySize
<1> QED  BY <1>2, <1>3, <1>4

LEMMA OneItem == ASSUME NEW x  PROVE LET e == <<x>> IN e \in Seq({x}) /\ Len(e) = 1 /\ e[1] = x
OBVIOUS

LEMMA OneAndMore ==
    ASSUME NEW a, NEW q, q \in Seq(ToSet(q))
    PROVE  LET e == <<a>> \o q
           IN  /\ e \in Seq({a} \cup ToSet(q)) /\ Len(e) = 1 + Len(q) /\ e[1] = a
               /\ \A j \in 1 .. Len(q) : e[1 + j] = q[j]
<1> DEFINE T == {a} \cup ToSet(q)
           h == <<a>>
           e == h \o q
<1>1. h \in Seq(T) /\ Len(h) = 1 /\ h[1] = a
  OBVIOUS
<1>2. q \in Seq(T) /\ Len(q) \in Nat
  <2>1. ToSet(q) \subseteq T
    OBVIOUS
  <2> HIDE DEF T
  <2> QED  BY <2>1
<1> HIDE DEF h, T
<1>3. /\ e \in Seq(T) /\ Len(e) = 1 + Len(q)
      /\ \A i \in 1 .. 1 + Len(q) : e[i] = IF i <= 1 THEN h[i] ELSE q[i - 1]
  <2>1. /\ e \in Seq(T) /\ Len(e) = Len(h) + Len(q)
        /\ \A i \in 1 .. Len(h) + Len(q) : e[i] = IF i <= Len(h) THEN h[i] ELSE q[i - Len(h)]
    BY <1>1, <1>2, ConcatProperties
  <2> HIDE DEF e
  <2> QED  BY <1>1, <2>1
<1> HIDE DEF e
<1>4. 1 \in 1 .. 1 + Len(q)
  BY <1>2
<1>5. ASSUME NEW j \in 1 .. Len(q)  PROVE e[1 + j] = q[j]
  <2>1. 1 + j \in 1 .. 1 + Len(q) /\ ~(1 + j <= 1) /\ (1 + j) - 1 = j
    BY <1>2
  <2> QED  BY <1>3, <2>1
<1> QED  BY <1>1, <1>3, <1>4, <1>5 DEF e, h, T

\* A member as it is sent: its tag, the size of an array, and its values.
IsMember(y, vals, n, e) ==
    LET f == y.fields[n]
        v == vals[n]
    IN  /\ e \in Seq(ToSet(e)) /\ e[1] = n
        /\ f.array => Len(e) = 2 + Len(v) /\ e[2] = Len(v) /\ \A j \in 1 .. Len(v) : e[2 + j] = v[j]
        /\ ~f.array => Len(e) = 2 /\ (f.base # "blob" => e[2] = v[1])

LEMMA MemberFacts ==
    ASSUME NEW y, IsType(y), NEW vals, IsStructure(y, vals), Troubles(y, vals) = {},
           NEW n \in 1 .. Len(y.fields)
    PROVE  IsMember(y, vals, n, EncodeMember(y, n - 1, vals))
<1> DEFINE f == y.fields[n]
           v == vals[n]
           c == ArraySize(y, n - 1, vals)
           q == IF f.array THEN <<c>> \o SubSeq(v, 1, c) ELSE IF f.base = "blob" THEN <<"address">> ELSE v
           e == <<n>> \o q
<1>1. Field(y, n - 1) = f /\ (n - 1) + 1 = n /\ f.array \in BOOLEAN
  <2>1. n - 1 \in Indices(y) /\ Field(y, n - 1) = f /\ (n - 1) + 1 = n
    BY IndexFacts
  <2> QED  BY <2>1 DEF IsType
<1>2. EncodeMember(y, n - 1, vals) = e
  BY <1>1 DEF EncodeMember
<1>3. v \in Seq(ToSet(v)) /\ Len(v) \in Nat /\ (~f.array => Len(v) = 1)
  BY StructureFacts
<1>4. f.array => c = Len(v)
  BY SizeFacts
<1>5. /\ q \in Seq(ToSet(q))
      /\ f.array => Len(q) = 1 + Len(v) /\ q[1] = Len(v) /\ \A j \in 1 .. Len(v) : q[1 + j] = v[j]
      /\ ~f.array => Len(q) = 1 /\ (f.base # "blob" => q[1] = v[1])
  <2>1. CASE f.array
    <3>1. SubSeq(v, 1, c) = v
      BY <1>3, <1>4, <2>1, SubSeqFull
    <3>2. q = <<Len(v)>> \o v
      BY <1>4, <2>1, <3>1
    <3> HIDE DEF q, v
    <3>3. q \in Seq({Len(v)} \cup ToSet(v)) /\ Len(q) = 1 + Len(v) /\ q[1] = Len(v)
          /\ \A j \in 1 .. Len(v) : q[1 + j] = v[j]
      BY <1>3, <3>2, OneAndMore
    <3>4. q \in Seq(ToSet(q))
      BY <3>3, InItsSet
    <3> QED  BY <2>1, <3>3, <3>4
  <2>2. CASE ~f.array /\ f.base = "blob"
    <3>1. q = <<"address">>
      BY <2>2
    <3>2. q \in Seq({"address"}) /\ Len(q) = 1
      BY <3>1, OneItem
    <3> HIDE DEF q
    <3>3. q \in Seq(ToSet(q))
      BY <3>2, InItsSet
    <3> QED  BY <2>2, <3>2, <3>3
  <2>3. CASE ~f.array /\ f.base # "blob"
    <3>1. q = v
      BY <2>3
    <3> HIDE DEF q, v
    <3> QED  BY <1>3, <2>3, <3>1
  <2> QED  BY <1>1, <2>1, <2>2, <2>3
<1> HIDE DEF q, v, f, c
<1>6. e \in Seq({n} \cup ToSet(q)) /\ Len(e) = 1 + Len(q) /\ e[1] = n /\ \A j \in 1 .. Len(q) : e[1 + j] = q[j]
  BY <1>5, OneAndMore
<1> HIDE DEF e
<1>7. e \in Seq(ToSet(e))
  BY <1>6, InItsSet
<1>8. ASSUME f.array  PROVE IsMember(y, vals, n, e)
  <2>1. Len(e) = 2 + Len(v) /\ 1 \in 1 .. Len(q)
    BY <1>3, <1>5, <1>6, <1>8
  <2>2. e[2] = Len(v)
    <3>1. e[1 + 1] = q[1]
      BY <1>6, <2>1
    <3> QED  BY <1>5, <1>8, <3>1
  <2>3. ASSUME NEW j \in 1 .. Len(v)  PROVE e[2 + j] = v[j]
    <3>1. 1 + j \in 1 .. Len(q) /\ 1 + (1 + j) = 2 + j
      BY <1>3, <1>5, <1>8
    <3>2. e[1 + (1 + j)] = q[1 + j]
      BY <1>6, <3>1
    <3> QED  BY <1>5, <1>8, <3>1, <3>2
  <2> QED  BY <1>7, <1>6, <1>8, <2>1, <2>2, <2>3 DEF IsMember, f, v
<1>9. ASSUME ~f.array  PROVE IsMember(y, vals, n, e)
  <2>1. Len(q) = 1 /\ 1 \in 1 .. Len(q) /\ Len(e) = 2
    BY <1>5, <1>6, <1>9
  <2>2. e[1 + 1] = q[1]
    BY <1>6, <2>1
  <2> QED  BY <1>5, <1>6, <1>7, <1>9, <2>1, <2>2 DEF IsMember, f, v
<1>10. IsMember(y, vals, n, e)
  BY <1>1, <1>8, <1>9
<1> QED  BY <1>2, <1>10

\* The members of a structure lie one after the other in its frame, of these lengths.
LaidOut(y, vals, w, lengths) ==
    LET at(n) == Upto(lengths, n) IN
    /\ at(0) = 0 /\ at(Len(y.fields)) = Len(w) /\ Len(w) \in Nat
    /\ \A n \in 1 .. Len(y.fields) :
          /\ at(n - 1) \in Nat /\ at(n - 1) < Len(w) /\ w[at(n - 1) + 1] = n
          /\ y.fields[n].array => /\ w[at(n - 1) + 2] = Len(vals[n])
                                  /\ at(n) = at(n - 1) + 2 + Len(vals[n])
                                  /\ SubSeq(w, at(n - 1) + 3, at(n)) = vals[n]
          /\ ~y.fields[n].array => /\ at(n) = at(n - 1) + 2
                                   /\ y.fields[n].base # "blob" => <<w[at(n - 1) + 2]>> = vals[n]

LEMMA FrameFacts ==
    ASSUME NEW y, IsType(y), NEW vals, IsStructure(y, vals), Troubles(y, vals) = {}
    PROVE  LET s == EncodedMembers(y, vals) IN LaidOut(y, vals, FlattenSeq(s), Lengths(s))
<1> DEFINE s == EncodedMembers(y, vals)
           w == FlattenSeq(s)
           at(n) == Upto(Lengths(s), n)
           m == Len(y.fields)
           T == UNION {ToSet(EncodeMember(y, n - 1, vals)) : n \in 1 .. m}
<1>1. m \in Nat /\ DOMAIN y.fields = 1 .. m
  BY IndexFacts
<1>2. \A n \in 1 .. m : EncodeMember(y, n - 1, vals) \in Seq(T)
  <2> SUFFICES ASSUME NEW n \in 1 .. m  PROVE EncodeMember(y, n - 1, vals) \in Seq(T)
    OBVIOUS
  <2> DEFINE e == EncodeMember(y, n - 1, vals)
  <2>1. e \in Seq(ToSet(e))
    BY MemberFacts DEF IsMember
  <2>2. ToSet(e) \subseteq T
    OBVIOUS
  <2> HIDE DEF e, T
  <2> QED  BY <2>1, <2>2 DEF e
<1>3. s \in Seq(Seq(T)) /\ Len(s) = m /\ \A n \in 1 .. m : s[n] = EncodeMember(y, n - 1, vals)
  <2> HIDE DEF T, m
  <2> QED  BY <1>1, <1>2 DEF EncodedMembers
<1> HIDE DEF s, T, w
<1>4. /\ w \in Seq(T) /\ Len(w) = at(m)
      /\ \A n \in 1 .. m : \A j \in 1 .. Len(s[n]) : at(n - 1) + j \in 1 .. Len(w) /\ w[at(n - 1) + j] = s[n][j]
  <2>1. s \in Seq(Seq(T))
    BY <1>3
  <2>2. /\ FlattenSeq(s) \in Seq(T) /\ Len(FlattenSeq(s)) = Upto(Lengths(s), Len(s))
        /\ \A k \in 1 .. Len(s) : \A j \in 1 .. Len(s[k]) :
              LET p == Upto(Lengths(s), k - 1) + j
              IN  p \in 1 .. Len(FlattenSeq(s)) /\ FlattenSeq(s)[p] = s[k][j]
    BY <2>1, FlattenFacts
  <2>3. Len(s) = m
    BY <1>3
  <2> QED  BY <2>2, <2>3 DEF w
<1>5. /\ at(0) = 0
      /\ \A n \in 1 .. m : at(n) = at(n - 1) + Len(s[n]) /\ at(n - 1) \in Nat /\ at(n) \in Nat
  BY <1>3, LengthsFacts
<1> HIDE DEF at, m
<1>6. ASSUME NEW n \in 1 .. m
      PROVE  /\ at(n - 1) \in Nat /\ at(n - 1) < Len(w) /\ w[at(n - 1) + 1] = n
             /\ y.fields[n].array => /\ w[at(n - 1) + 2] = Len(vals[n])
                                     /\ at(n) = at(n - 1) + 2 + Len(vals[n])
                                     /\ SubSeq(w, at(n - 1) + 3, at(n)) = vals[n]
             /\ ~y.fields[n].array => /\ at(n) = at(n - 1) + 2
                                      /\ y.fields[n].base # "blob" => <<w[at(n - 1) + 2]>> = vals[n]
  <2> DEFINE f == y.fields[n]
             v == vals[n]
             e == s[n]
             p == at(n - 1)
  <2>1. /\ e \in Seq(ToSet(e)) /\ e[1] = n
        /\ f.array => Len(e) = 2 + Len(v) /\ e[2] = Len(v) /\ \A j \in 1 .. Len(v) : e[2 + j] = v[j]
        /\ ~f.array => Len(e) = 2 /\ (f.base # "blob" => e[2] = v[1])
    <3>1. IsMember(y, vals, n, EncodeMember(y, n - 1, vals))
      BY MemberFacts DEF m
    <3>2. IsMember(y, vals, n, e)
      BY <1>3, <3>1
    <3> HIDE DEF e
    <3> QED  BY <3>2 DEF IsMember
  <2>2. v \in Seq(ToSet(v)) /\ Len(v) \in Nat /\ (~f.array => Len(v) = 1)
    BY StructureFacts DEF m
  <2>3. p \in Nat /\ at(n) = p + Len(e) /\ at(n) \in Nat
    BY <1>5
  <2>4. \A j \in 1 .. Len(e) : p + j \in 1 .. Len(w) /\ w[p + j] = e[j]
    BY <1>4
  <2>5. f.array \in BOOLEAN
    <3>1. n - 1 \in Indices(y) /\ Field(y, n - 1) = f
      BY IndexFacts DEF m
    <3> QED  BY <3>1 DEF IsType
  <2>6. w \in Seq(ToSet(w)) /\ Len(w) \in Nat /\ DOMAIN w = 1 .. Len(w)
    BY <1>4, InItsSet
  <2> HIDE DEF f, v, e, p
  <2>7. Len(e) \in Nat /\ 1 \in 1 .. Len(e) /\ 2 \in 1 .. Len(e)
    <3>1. \E i \in Nat : Len(e) = 2 + i
      <4>1. CASE f.array
        <5>1. Len(e) = 2 + Len(v) /\ Len(v) \in Nat
          BY <2>1, <2>2, <4>1
        <5> QED  BY <5>1
      <4>2. CASE ~f.array
        <5>1. Len(e) = 2 + 0
          BY <2>1, <4>2
        <5> QED  BY <5>1
      <4> QED  BY <4>1, <4>2
    <3>2. PICK i \in Nat : Len(e) = 2 + i
      BY <3>1
    <3> QED  BY <3>2
  <2>8. p < Len(w) /\ w[p + 1] = n /\ w[p + 2] = e[2]
    <3>1. p + 1 \in 1 .. Len(w)
      BY <2>4, <2>7
    <3> QED  BY <2>1, <2>3, <2>4, <2>6, <2>7, <3>1
  <2>9. CASE f.array
    <3>1. at(n) = p + 2 + Len(v) /\ w[p + 2] = Len(v)
      <4>1. Len(e) = 2 + Len(v) /\ e[2] = Len(v)
        BY <2>1, <2>9
      <4>2. at(n) = p + (2 + Len(v))
        BY <2>3, <4>1
      <4> QED  BY <2>2, <2>3, <2>8, <4>1, <4>2
    <3> DEFINE q == SubSeq(w, p + 3, at(n))
    <3>2. ASSUME NEW j \in 1 .. Len(v)  PROVE p + 2 + j \in 1 .. Len(w) /\ w[p + 2 + j] = v[j]
      <4>1. 2 + j \in 1 .. Len(e) /\ p + (2 + j) = p + 2 + j
        BY <2>1, <2>2, <2>3, <2>9
      <4> QED  BY <2>1, <2>4, <2>9, <4>1
    <3>3. \A i \in p + 3 .. at(n) : i \in 1 .. Len(w)
      <4> SUFFICES ASSUME NEW i \in p + 3 .. at(n)  PROVE i \in 1 .. Len(w)
        OBVIOUS
      <4>1. i - p - 2 \in 1 .. Len(v) /\ p + 2 + (i - p - 2) = i
        BY <2>2, <2>3, <3>1
      <4> QED  BY <3>2, <4>1
    <3>4. q \in Seq(ToSet(w)) /\ Len(q) = Len(v) /\ \A j \in 1 .. Len(v) : q[j] = w[p + 2 + j]
      <4>1. \A i \in p + 3 .. at(n) : w[i] \in ToSet(w)
        BY <2>6, <3>3
      <4>2. /\ q \in Seq(ToSet(w))
            /\ Len(q) = IF p + 3 <= at(n) THEN at(n) - (p + 3) + 1 ELSE 0
            /\ \A j \in 1 .. at(n) - (p + 3) + 1 : q[j] = w[p + 3 + j - 1]
        BY <2>3, <4>1, SubSeqProperties
      <4>3. at(n) - (p + 3) + 1 = Len(v) /\ (p + 3 <= at(n) <=> Len(v) > 0)
            /\ \A j \in 1 .. Len(v) : p + 3 + j - 1 = p + 2 + j
        BY <2>2, <2>3, <3>1
      <4> HIDE DEF q
      <4> QED  BY <2>2, <4>2, <4>3
    <3>5. q = v
      <4> HIDE DEF q
      <4> QED  BY <2>2, <3>2, <3>4, SeqEqual
    <3> QED  BY <2>3, <2>8, <2>9, <3>1, <3>5 DEF f, v, p
  <2>10. CASE ~f.array
    <3>1. at(n) = p + 2
      BY <2>1, <2>3, <2>10
    <3>2. v = <<v[1]>>
      BY <2>2, <2>10
    <3> QED  BY <2>1, <2>3, <2>8, <2>10, <3>1, <3>2 DEF f, v, p
  <2> QED  BY <2>5, <2>9, <2>10
<1> QED  BY <1>4, <1>5, <1>6 DEF LaidOut, s, w, at, m

-----------------------------------------------------------------------------
LEMMA InitDataIInv == DataInit => DataIInv
<1> SUFFICES ASSUME DataInit  PROVE DataIInv
  OBVIOUS
<1>1. TypesKnown
  <2>1. /\ direct = [e \in Sides |-> [i \in 1 .. NDIRECT_TYPE |-> NoType]]
        /\ others = [e \in Sides |-> <<>>] /\ NoType \in AnyType
    BY DEF DataInit, AnyType
  <2> QED  BY <2>1 DEF TypesKnown
<1>2. phase = "idle" /\ heap = {}
  BY DEF DataInit
<1> QED  BY <1>1, <1>2 DEF DataIInv, StructureFreed

\* What was sent is a structure of a type; the receiver has none, or one like it.
LEMMA EndFacts ==
    ASSUME TypesKnown, Encoded
    PROVE  /\ IsType(sent.descr) /\ IsStructure(sent.descr, sent.vals) /\ Troubles(sent.descr, sent.vals) = {}
           /\ sent.descr # NoType
           /\ Descr # NoType => IsType(Descr) /\ Alike(sent.descr, Descr)
<1>1. "sender" \in Sides /\ "receiver" \in Sides
  BY DEF Sides
<1>2. sent.descr \in KnownTypes("sender") /\ sent.vals \in Values(sent.descr) /\ Troubles(sent.descr, sent.vals) = {}
  BY DEF Encoded
<1>3. IsType(sent.descr) /\ sent.descr # NoType
  BY <1>1, <1>2, KnownTypesFacts
<1>4. IsStructure(sent.descr, sent.vals)
  BY <1>2, AlikeFacts
<1>5. ASSUME Descr # NoType  PROVE IsType(Descr) /\ Alike(sent.descr, Descr)
  <2>1. sent.descr.tag \in Nat
    BY <1>3 DEF IsType
  <2>2. Descr \in KnownTypes("receiver") /\ Descr.tag = sent.descr.tag
    BY <1>1, <1>5, <2>1, FindTypeFacts DEF Descr
  <2> QED  BY <1>1, <1>2, <2>2, KnownTypesFacts, AlikeFacts
<1> QED  BY <1>2, <1>3, <1>4, <1>5

LEMMA AlikeAt ==
    ASSUME NEW y, NEW r, IsType(y), IsType(r), Alike(y, r), NEW n \in 1 .. Len(y.fields), n \in 1 .. Len(r.fields)
    PROVE  LET f == y.fields[n]
               g == r.fields[n]
           IN  /\ f.base = g.base /\ f.array = g.array /\ f.guard = g.guard /\ (f.guard => f.u32 = g.u32)
               /\ g.array \in BOOLEAN /\ g.guard \in BOOLEAN
<1>1. n \in DOMAIN y.fields \cap DOMAIN r.fields /\ n - 1 \in Indices(r) /\ Field(r, n - 1) = r.fields[n]
  BY IndexFacts
<1>2. r.fields[n].array \in BOOLEAN /\ r.fields[n].guard \in BOOLEAN
  BY <1>1 DEF IsType
<1> QED  BY <1>1, <1>2 DEF Alike

\* Nothing changes what the two sides know, or what was sent, while it is decoded.
LEMMA StillEncoded ==
    ASSUME UNCHANGED <<direct, others, sent, wire>>
    PROVE  /\ Descr' = Descr /\ (TypesKnown => TypesKnown') /\ (Encoded => Encoded')
           /\ (Same <=> Same') /\ \A n : Place(n)' = Place(n)
<1>1. direct' = direct /\ others' = others /\ sent' = sent /\ wire' = wire
  OBVIOUS
<1>2. Descr' = Descr
  BY <1>1 DEF Descr, FindType
<1>3. Members' = Members
  BY <1>1 DEF Members
<1>4. TypesKnown => TypesKnown'
  BY <1>1 DEF TypesKnown
<1>5. Encoded => Encoded'
  BY <1>1, <1>3 DEF Encoded
<1>6. (Same <=> Same') /\ \A n : Place(n)' = Place(n)
  BY <1>1, <1>2, <1>3 DEF Same, Place
<1> QED  BY <1>2, <1>4, <1>5, <1>6

LEMMA DataIInvImplies == DataIInv => StructuresArrive
<1> SUFFICES ASSUME DataIInv  PROVE StructuresArrive
  OBVIOUS
<1>1. StructureFreed
  BY DEF DataIInv
<1>2. phase # "idle" /\ Same /\ Blobless(sent.descr) => phase # "failed"
  BY DEF DataIInv
<1>3. ASSUME phase = "done"
      PROVE  /\ Same => data = sent.vals
             /\ \A k \in Indices(Descr) : Field(Descr, k).array => ArraySize(Descr, k, data) = Len(data[k + 1])
  <2>1. TypesKnown /\ Encoded /\ Decoded /\ turn = Len(Descr.fields)
    BY <1>3 DEF DataIInv
  <2>2. IsType(Descr) /\ IsStructure(sent.descr, sent.vals)
    BY <2>1, EndFacts DEF Decoded
  <2>3. data = [n \in 1 .. turn |-> sent.vals[n]]
    BY <2>1 DEF Decoded
  <2>4. ASSUME Same  PROVE data = sent.vals
    <3>1. sent.vals \in Seq(ToSet(sent.vals)) /\ Len(sent.vals) = turn
      BY <2>1, <2>2, <2>4 DEF IsStructure, Same
    <3>2. sent.vals = [n \in 1 .. Len(sent.vals) |-> sent.vals[n]]
      BY <3>1
    <3> QED  BY <2>3, <3>1, <3>2
  <2>5. ASSUME NEW k \in Indices(Descr), Field(Descr, k).array
        PROVE  ArraySize(Descr, k, data) = Len(data[k + 1])
    <3> DEFINE n == k + 1
    <3>1. n \in 1 .. Len(Descr.fields) /\ Field(Descr, k) = Descr.fields[n] /\ n - 1 = k
          /\ Len(Descr.fields) \in Nat
      BY <2>2, IndexFacts
    <3> HIDE DEF n
    <3>2. data[n] = sent.vals[n] /\ \A i \in 1 .. n - 1 : data[i] = sent.vals[i]
      BY <2>1, <2>3, <3>1
    <3>3. ArraySize(Descr, n - 1, data) = ArraySize(Descr, n - 1, sent.vals)
      BY <2>2, <2>5, <3>1, <3>2, SameSize
    <3>4. ArraySize(Descr, n - 1, sent.vals) = Len(sent.vals[n])
      BY <2>1, <2>5, <3>1 DEF Decoded
    <3> QED  BY <3>1, <3>2, <3>3, <3>4 DEF n
  <2> QED  BY <2>4, <2>5
<1> QED  BY <1>1, <1>2, <1>3 DEF StructuresArrive, DataArrives

-----------------------------------------------------------------------------
LEMMA RegisterTypeKeeps ==
    ASSUME DataIInv, NEW e \in Sides, NEW d \in Descriptors[e], RegisterType(e, d)
    PROVE  DataIInv'
<1>1. phase = "idle" /\ UNCHANGED <<phase, heap>>
  BY DEF RegisterType
<1>2. TypesKnown /\ heap = {}
  BY <1>1 DEF DataIInv
<1>3. CASE ~Registrable(d)
  <2>1. UNCHANGED <<direct, others>>
    BY <1>3 DEF RegisterType
  <2>2. TypesKnown'
    BY <1>2, <2>1 DEF TypesKnown
  <2> QED  BY <1>1, <1>2, <2>2 DEF DataIInv, StructureFreed
<1>4. CASE Registrable(d)
  <2> DEFINE y == Enumerated(d)
  <2>1. y \in KnownTypes(e) /\ y \in AnyType /\ y.tag = d.tag /\ d.tag \in Nat \ {0} /\ NDIRECT_TYPE \in Nat
    <3>1. IsDescriptor(d) /\ NDIRECT_TYPE \in Nat
      BY DataCodecAssumption
    <3>2. y.tag = d.tag /\ d.tag \in Nat \ {0}
      BY <1>4, <3>1, EnumeratedFacts DEF IsType
    <3> QED  BY <1>4, <3>1, <3>2 DEF KnownTypes, AnyType
  <2> HIDE DEF y
  <2>2. CASE d.tag <= NDIRECT_TYPE
    <3>1. d.tag \in 1 .. NDIRECT_TYPE
      BY <2>1, <2>2
    <3>2. /\ UNCHANGED others
          /\ direct' = IF direct[e][d.tag] = NoType THEN [direct EXCEPT ![e][d.tag] = y] ELSE direct
      BY <1>4, <2>2 DEF RegisterType, y
    <3>3. CASE direct[e][d.tag] # NoType
      <4>1. TypesKnown'
        BY <1>2, <3>2, <3>3 DEF TypesKnown
      <4> QED  BY <1>1, <1>2, <4>1 DEF DataIInv, StructureFreed
    <3>4. CASE direct[e][d.tag] = NoType
      <4>1. direct' = [direct EXCEPT ![e][d.tag] = y]
        BY <3>2, <3>4
      <4>2. direct' \in [Sides -> [1 .. NDIRECT_TYPE -> AnyType]]
        BY <1>2, <2>1, <3>1, <4>1 DEF TypesKnown
      <4>3. \A s \in Sides : \A i \in 1 .. NDIRECT_TYPE :
               direct'[s][i] = IF s = e /\ i = d.tag THEN y ELSE direct[s][i]
        BY <1>2, <3>1, <4>1 DEF TypesKnown
      <4>4. TypesKnown'
        BY <1>2, <2>1, <3>2, <4>2, <4>3 DEF TypesKnown
      <4> QED  BY <1>1, <1>2, <4>4 DEF DataIInv, StructureFreed
    <3> QED  BY <3>3, <3>4
  <2>3. CASE ~(d.tag <= NDIRECT_TYPE)
    <3>1. UNCHANGED direct /\ others' = [others EXCEPT ![e] = Append(@, y)]
      BY <1>4, <2>3 DEF RegisterType, y
    <3>2. others[e] \in Seq(AnyType)
      BY <1>2 DEF TypesKnown
    <3> DEFINE q == Append(others[e], y)
    <3>3. q \in Seq(AnyType) /\ \A i \in DOMAIN q : q[i] = y \/ (i \in DOMAIN others[e] /\ q[i] = others[e][i])
      BY <2>1, <3>2
    <3>4. others' = [others EXCEPT ![e] = q]
      BY <3>1
    <3> HIDE DEF q
    <3>5. others' \in [Sides -> Seq(AnyType)] /\ \A s \in Sides : others'[s] = IF s = e THEN q ELSE others[s]
      BY <1>2, <3>3, <3>4 DEF TypesKnown
    <3>6. ASSUME NEW s \in Sides, NEW i \in DOMAIN others'[s]  PROVE others'[s][i] \in KnownTypes(s)
      <4>1. CASE s = e
        BY <1>2, <2>1, <3>3, <3>5, <3>6, <4>1 DEF TypesKnown
      <4>2. CASE s # e
        <5>1. others'[s] = others[s]
          BY <3>5, <4>2
        <5> QED  BY <1>2, <3>6, <5>1 DEF TypesKnown
      <4> QED  BY <4>1, <4>2
    <3>7. TypesKnown'
      BY <1>2, <3>1, <3>5, <3>6 DEF TypesKnown
    <3> QED  BY <1>1, <1>2, <3>7 DEF DataIInv, StructureFreed
  <2> QED  BY <2>2, <2>3
<1> QED  BY <1>3, <1>4

LEMMA SendKeeps ==
    ASSUME DataIInv, NEW d \in Descriptors["sender"], NEW y, y = FindType("sender", d.tag),
           NEW vals \in Values(y), Send(y, vals) \/ SendFails(y, vals)
    PROVE  DataIInv'
<1>1. TypesKnown /\ phase = "idle" /\ heap = {} /\ y # NoType
      /\ UNCHANGED <<direct, others, tried, heap>>
  BY DEF DataIInv, Send, SendFails
<1>2. TypesKnown'
  BY <1>1 DEF TypesKnown
<1>3. CASE SendFails(y, vals)
  <2>1. phase' \in {"crashed", "refused"}
    BY <1>3 DEF SendFails
  <2> QED  BY <1>1, <1>2, <2>1 DEF DataIInv, StructureFreed
<1>4. CASE Send(y, vals)
  <2>1. "sender" \in Sides /\ d.tag \in Nat
    <3>1. "sender" \in Sides
      BY DEF Sides
    <3> QED  BY <3>1, DataCodecAssumption DEF IsDescriptor
  <2>2. y \in KnownTypes("sender")
    BY <1>1, <2>1, FindTypeFacts
  <2>3. /\ sent' = [descr |-> y, vals |-> vals] /\ phase' = "sent" /\ pos' = 0 /\ Troubles(y, vals) = {}
        /\ wire' = FlattenSeq([n \in DOMAIN y.fields |-> EncodeMember(y, n - 1, vals)])
    BY <1>4 DEF Send
  <2>4. sent'.descr = y /\ sent'.vals = vals
    BY <2>3
  <2>5. Encoded'
    BY <2>2, <2>3, <2>4 DEF Encoded, Members, EncodedMembers
  <2> QED  BY <1>1, <1>2, <2>3, <2>5 DEF DataIInv, StructureFreed
<1> QED  BY <1>3, <1>4

LEMMA ReceiveKeeps == ASSUME DataIInv, Receive  PROVE DataIInv'
<1>1. TypesKnown /\ Encoded /\ phase = "sent" /\ pos = 0 /\ heap = {}
  BY DEF DataIInv, Receive
<1>2. UNCHANGED <<direct, others, tried, sent, wire, pos>> /\ turn' = 0 /\ data' = <<>>
  BY DEF Receive
<1>3. Descr' = Descr /\ TypesKnown' /\ Encoded' /\ (Same <=> Same') /\ Place(0)' = Place(0)
  BY <1>1, <1>2, StillEncoded
<1>4. CASE Descr = NoType
  <2>1. phase' = "failed" /\ heap' = {}
    BY <1>1, <1>4 DEF Receive
  <2>2. ~Same'
    BY <1>1, <1>3, <1>4, EndFacts DEF Same
  <2>3. StructureFreed'
    BY <1>2, <2>1 DEF StructureFreed
  <2> QED  BY <1>3, <2>1, <2>2, <2>3 DEF DataIInv
<1>5. CASE Descr # NoType
  <2>1. phase' = "decode" /\ heap' = {Whole}
    BY <1>5 DEF Receive
  <2>2. IsType(sent.descr) /\ IsType(Descr) /\ IsStructure(sent.descr, sent.vals) /\ Troubles(sent.descr, sent.vals) = {}
    BY <1>1, <1>5, EndFacts
  <2>3. 0 \in 0 .. Len(Descr.fields) /\ 0 <= Len(sent.descr.fields)
    BY <2>2, IndexFacts
  <2>4. Place(0) = 0
    BY <2>2, FrameFacts DEF LaidOut, Place, Members
  <2>5. Decoded'
    BY <1>2, <1>3, <1>5, <2>3 DEF Decoded
  <2>6. Stored' = {}
    BY <1>2 DEF Stored
  <2>7. pos' = Place(turn)'
    <3>1. Place(turn)' = Place(0)'
      BY <1>2
    <3> QED  BY <1>1, <1>2, <1>3, <2>4, <3>1
  <2>8. phase' # "freed" /\ phase' # "failed"
    BY <2>1
  <2> QED  BY <1>3, <2>1, <2>5, <2>6, <2>7, <2>8 DEF DataIInv, StructureFreed
<1> QED  BY <1>4, <1>5

\* The next member of the frame is the one after those the decoder has.
LEMMA TurnFacts ==
    ASSUME DataIInv, phase = "decode", turn < Len(Descr.fields), NEW n, n = turn + 1
    PROVE  /\ IsType(sent.descr) /\ IsType(Descr) /\ n \in 1 .. Len(Descr.fields)
           /\ Same => ~NoMember
           /\ ~NoMember =>
                LET f == Descr.fields[n]
                    v == sent.vals[n]
                IN  /\ wire[pos + 1] = n /\ n \in 1 .. Len(sent.descr.fields)
                    /\ f.array \in BOOLEAN /\ f.guard \in BOOLEAN
                    /\ f.array => /\ wire[pos + 2] = Len(v) /\ Place(n) = pos + 2 + Len(v)
                                  /\ SubSeq(wire, pos + 3, Place(n)) = v
                                  /\ f.base = "blob" => ~Blobless(sent.descr)
                                  /\ f.guard /\ f.base # "blob" => ArraySize(Descr, n - 1, sent.vals) = Len(v)
                                  /\ Same => ArraySize(Descr, n - 1, sent.vals) = Len(v)
                    /\ ~f.array => /\ Place(n) = pos + 2
                                   /\ f.base # "blob" => <<wire[pos + 2]>> = v
                                   /\ f.base = "blob" => ~Blobless(sent.descr)
<1> DEFINE y == sent.descr
           r == Descr
           f == r.fields[n]
           v == sent.vals[n]
<1>1. TypesKnown /\ Encoded /\ Decoded /\ pos = Place(turn) /\ r # NoType
  BY DEF DataIInv, Decoded
<1>2. IsType(y) /\ IsStructure(y, sent.vals) /\ Troubles(y, sent.vals) = {} /\ IsType(r) /\ Alike(y, r)
  BY <1>1, EndFacts
<1>3. Len(r.fields) \in Nat /\ Len(y.fields) \in Nat
  BY <1>2, IndexFacts
<1>4. turn \in Nat /\ turn <= Len(y.fields) /\ n - 1 = turn /\ n \in 1 .. Len(r.fields) /\ n \in DOMAIN r.fields
  <2>1. turn \in 0 .. Len(r.fields) /\ turn <= Len(y.fields)
    BY <1>1 DEF Decoded
  <2>2. n \in 1 .. Len(r.fields)
    BY <1>3, <2>1
  <2> QED  BY <1>2, <2>1, <2>2, IndexFacts
<1>5. /\ Place(Len(y.fields)) = Len(wire) /\ Len(wire) \in Nat
      /\ \A k \in 1 .. Len(y.fields) :
            /\ Place(k - 1) \in Nat /\ Place(k - 1) < Len(wire) /\ wire[Place(k - 1) + 1] = k
            /\ y.fields[k].array => /\ wire[Place(k - 1) + 2] = Len(sent.vals[k])
                                    /\ Place(k) = Place(k - 1) + 2 + Len(sent.vals[k])
                                    /\ SubSeq(wire, Place(k - 1) + 3, Place(k)) = sent.vals[k]
            /\ ~y.fields[k].array => /\ Place(k) = Place(k - 1) + 2
                                     /\ y.fields[k].base # "blob" => <<wire[Place(k - 1) + 2]>> = sent.vals[k]
  <2>1. LaidOut(y, sent.vals, wire, Lengths(Members))
    <3>1. LaidOut(y, sent.vals, FlattenSeq(EncodedMembers(y, sent.vals)), Lengths(EncodedMembers(y, sent.vals)))
      BY <1>2, FrameFacts
    <3> QED  BY <1>1, <3>1 DEF Encoded, Members
  <2> HIDE DEF y
  <2> QED  BY <2>1 DEF LaidOut, Place
<1>6. CASE turn = Len(y.fields)
  <2>1. NoMember
    <3>1. pos = Len(wire) /\ Len(wire) \in Nat
      BY <1>1, <1>5, <1>6
    <3> QED  BY <3>1 DEF NoMember
  <2>2. ~Same
    BY <1>6 DEF Same
  <2> QED  BY <1>2, <1>4, <2>1, <2>2
<1>7. CASE turn # Len(y.fields)
  <2>1. n \in 1 .. Len(y.fields)
    BY <1>3, <1>4, <1>7
  <2>2. /\ pos \in Nat /\ pos < Len(wire) /\ wire[pos + 1] = n
        /\ y.fields[n].array => /\ wire[pos + 2] = Len(v) /\ Place(n) = pos + 2 + Len(v)
                                /\ SubSeq(wire, pos + 3, Place(n)) = v
        /\ ~y.fields[n].array => Place(n) = pos + 2 /\ (y.fields[n].base # "blob" => <<wire[pos + 2]>> = v)
    <3>1. /\ Place(n - 1) \in Nat /\ Place(n - 1) < Len(wire) /\ wire[Place(n - 1) + 1] = n
          /\ y.fields[n].array => /\ wire[Place(n - 1) + 2] = Len(sent.vals[n])
                                  /\ Place(n) = Place(n - 1) + 2 + Len(sent.vals[n])
                                  /\ SubSeq(wire, Place(n - 1) + 3, Place(n)) = sent.vals[n]
          /\ ~y.fields[n].array => /\ Place(n) = Place(n - 1) + 2
                                   /\ y.fields[n].base # "blob" => <<wire[Place(n - 1) + 2]>> = sent.vals[n]
      BY <1>5, <2>1
    <3>2. pos = Place(n - 1)
      BY <1>1, <1>4
    <3> HIDE DEF y
    <3> QED  BY <3>1, <3>2
  <2>3. ~NoMember
    BY <1>4, <2>2 DEF NoMember
  <2>4. /\ y.fields[n].base = f.base /\ y.fields[n].array = f.array /\ y.fields[n].guard = f.guard
        /\ y.fields[n].guard => y.fields[n].u32 = f.u32
        /\ f.array \in BOOLEAN /\ f.guard \in BOOLEAN
    BY <1>2, <1>4, <2>1, AlikeAt
  <2>5. f.base = "blob" => ~Blobless(y)
    BY <1>2, <2>1, <2>4, IndexFacts DEF Blobless
  <2>6. ASSUME f.array
        PROVE  /\ f.guard /\ f.base # "blob" => ArraySize(r, n - 1, sent.vals) = Len(v)
               /\ Same => ArraySize(r, n - 1, sent.vals) = Len(v)
    <3>1. ArraySize(y, n - 1, sent.vals) = Len(v) /\ n # 1
      <4>1. y.fields[n].array
        BY <2>4, <2>6
      <4> HIDE DEF y, v
      <4> QED  BY <1>2, <2>1, <4>1, SizeFacts DEF v
    <3>2. ASSUME f.guard, f.base # "blob"  PROVE ArraySize(r, n - 1, sent.vals) = Len(v)
      <4>1. n - 1 \in Indices(r) \ {0} /\ Field(r, n - 1) = f /\ (n - 1) + 1 = n
        BY <1>2, <1>4, <3>1, IndexFacts
      <4>2. n - 1 \in Indices(y) \ {0} /\ Field(y, n - 1) = y.fields[n]
        <5>1. n - 1 \in Indices(y) /\ Field(y, n - 1) = y.fields[n]
          BY <1>2, <2>1, IndexFacts
        <5> QED  BY <4>1, <5>1
      <4>3. ArraySize(r, n - 1, sent.vals) = GuardedSize(f, v)
        BY <2>6, <3>2, <4>1 DEF ArraySize
      <4>4. ArraySize(y, n - 1, sent.vals) = GuardedSize(y.fields[n], v)
        BY <2>4, <2>6, <3>2, <4>1, <4>2 DEF ArraySize
      <4>5. GuardedSize(f, v) = GuardedSize(y.fields[n], v)
        BY <2>4, <3>2 DEF GuardedSize
      <4> QED  BY <3>1, <4>3, <4>4, <4>5
    <3>3. Same => ArraySize(r, n - 1, sent.vals) = Len(v)
      BY <3>1 DEF Same
    <3> QED  BY <3>2, <3>3
  <2> QED  BY <1>2, <1>4, <2>1, <2>2, <2>3, <2>4, <2>5, <2>6
<1> QED  BY <1>6, <1>7

LEMMA StoreKeeps ==
    ASSUME DataIInv, phase = "decode", turn < Len(Descr.fields), ~NoMember, NEW n, n = turn + 1,
           StoreMember(n, Descr.fields[n], sent.vals[n], Place(n)),
           Descr.fields[n].array => ArraySize(Descr, n - 1, sent.vals) = Len(sent.vals[n]),
           UNCHANGED <<direct, others, tried, sent, wire>>
    PROVE  DataIInv'
<1> DEFINE f == Descr.fields[n]
           v == sent.vals[n]
<1>1. TypesKnown /\ Encoded /\ Decoded /\ heap = {Whole} \cup Stored
  BY DEF DataIInv
<1>2. /\ data' = [m \in DOMAIN data \cup {n} |-> IF m = n THEN v ELSE data[m]]
      /\ heap' = heap \cup Blocks(n, f, v)
      /\ pos' = Place(n) /\ turn' = n /\ phase' = "decode"
  BY DEF StoreMember
<1>3. Descr' = Descr /\ TypesKnown' /\ Encoded' /\ \A m : Place(m)' = Place(m)
  BY <1>1, StillEncoded
<1>4. /\ n \in 1 .. Len(Descr.fields) /\ n \in 1 .. Len(sent.descr.fields)
      /\ Len(Descr.fields) \in Nat /\ Len(sent.descr.fields) \in Nat
  BY TurnFacts, IndexFacts
<1>5. turn \in Nat /\ data = [m \in 1 .. turn |-> sent.vals[m]]
  BY <1>1, <1>4 DEF Decoded
<1>6. DOMAIN data \cup {n} = 1 .. n /\ DOMAIN data = 1 .. turn
  BY <1>4, <1>5
<1> HIDE DEF f, v
<1>7. data' = [m \in 1 .. n |-> sent.vals[m]]
  <2>1. \A m \in 1 .. n : (IF m = n THEN v ELSE data[m]) = sent.vals[m]
    BY <1>5, <1>6 DEF v
  <2> QED  BY <1>2, <1>6, <2>1
<1>8. Decoded'
  <2>1. \A m \in 1 .. n : Descr.fields[m].array => ArraySize(Descr, m - 1, sent.vals) = Len(sent.vals[m])
    <3> SUFFICES ASSUME NEW m \in 1 .. n, Descr.fields[m].array
                 PROVE  ArraySize(Descr, m - 1, sent.vals) = Len(sent.vals[m])
      OBVIOUS
    <3>1. CASE m = n
      BY <3>1
    <3>2. CASE m # n
      <4>1. m \in 1 .. turn
        BY <1>5, <3>2
      <4> QED  BY <1>1, <4>1 DEF Decoded
    <3> QED  BY <3>1, <3>2
  <2>2. n \in 0 .. Len(Descr.fields) /\ n <= Len(sent.descr.fields)
    BY <1>4
  <2>3. sent' = sent /\ Descr' = Descr /\ Descr # NoType /\ turn' = n
    BY <1>1, <1>2, <1>3 DEF Decoded
  <2> QED  BY <1>7, <2>1, <2>2, <2>3 DEF Decoded
<1>9. heap' = {Whole} \cup Stored'
  <2>1. DOMAIN data' = DOMAIN data \cup {n} /\ data'[n] = v /\ \A m \in DOMAIN data : data'[m] = data[m]
    BY <1>2, <1>5, <1>6
  <2>2. Stored' = Stored \cup Blocks(n, f, v)
    BY <1>3, <2>1 DEF Stored, f
  <2> QED  BY <1>1, <1>2, <2>2
<1>10. pos' = Place(turn)'
  <2>1. Place(turn)' = Place(n)'
    BY <1>2
  <2> QED  BY <1>2, <1>3, <2>1
<1>11. phase' # "freed" /\ phase' # "failed"
  BY <1>2
<1> QED  BY <1>2, <1>3, <1>8, <1>9, <1>10, <1>11 DEF DataIInv, StructureFreed

LEMMA FailKeeps ==
    ASSUME DataIInv, phase = "decode", DataFail, ~(Same /\ Blobless(sent.descr)),
           UNCHANGED <<direct, others, tried, sent, wire>>
    PROVE  DataIInv'
<1>1. TypesKnown /\ Encoded /\ Decoded /\ heap = {Whole} \cup Stored
  BY DEF DataIInv
<1>2. /\ heap' = heap \ ({Whole} \cup {<<n, 0>> : n \in {m \in DOMAIN Descr.fields :
                                         ~Descr.fields[m].array /\ Descr.fields[m].base \in Boxed}})
      /\ phase' = "failed" /\ data' = data
  BY DEF DataFail
<1>3. Descr' = Descr /\ TypesKnown' /\ Encoded' /\ (Same <=> Same') /\ sent' = sent
  BY <1>1, StillEncoded
<1>4. ~(Same /\ Blobless(sent.descr))'
  BY <1>3
<1>5. IsType(Descr) /\ DOMAIN data = 1 .. turn /\ turn \in 0 .. Len(Descr.fields)
  BY <1>1, EndFacts DEF Decoded
<1>6. DOMAIN Descr.fields = 1 .. Len(Descr.fields) /\ Len(Descr.fields) \in Nat
  BY <1>5, IndexFacts
<1>7. \A n \in DOMAIN data : n \in Nat /\ n # 0 /\ n \in DOMAIN Descr.fields
  BY <1>5, <1>6
<1> DEFINE A == {m \in DOMAIN data : Descr.fields[m].array}
           Arrays == UNION {Blocks(n, Descr.fields[n], data[n]) : n \in A}
           F == {m \in DOMAIN Descr.fields : ~Descr.fields[m].array /\ Descr.fields[m].base \in Boxed}
           Free == {Whole} \cup {<<n, 0>> : n \in F}
<1>8. heap' = ({Whole} \cup Stored) \ Free
  BY <1>1, <1>2
<1>9. ASSUME NEW n \in A, NEW b \in Blocks(n, Descr.fields[n], data[n])  PROVE b \in Stored /\ b \notin Free
  <2>1. n \in DOMAIN data /\ n # 0 /\ n \notin F
    BY <1>7
  <2>2. b \in Stored
    BY <2>1 DEF Stored
  <2>3. PICK j : b = <<n, j>>
    BY DEF Blocks
  <2>4. b \notin Free
    BY <2>1, <2>3 DEF Whole
  <2> QED  BY <2>2, <2>4
<1>10. ASSUME NEW b \in Stored, b \notin Free  PROVE b \in Arrays
  <2>1. PICK n \in DOMAIN data : b \in Blocks(n, Descr.fields[n], data[n])
    BY DEF Stored
  <2>2. CASE n \in A
    BY <2>1, <2>2
  <2>3. CASE n \notin A
    <3>1. b = <<n, 0>> /\ n \in F
      BY <1>7, <2>1, <2>3 DEF Blocks
    <3> QED  BY <1>10, <3>1
  <2> QED  BY <2>2, <2>3
<1>11. Arrays \subseteq Stored /\ Arrays \cap Free = {}
  BY <1>9
<1>12. Whole \in Free
  OBVIOUS
<1> HIDE DEF A, Free
<1>13. heap' = Arrays
  <2> HIDE DEF Arrays
  <2> QED  BY <1>8, <1>10, <1>11, <1>12
<1>14. StructureFreed'
  BY <1>2, <1>3, <1>13 DEF StructureFreed, A
<1> QED  BY <1>2, <1>3, <1>4, <1>14 DEF DataIInv

LEMMA UnknownKeeps == ASSUME DataIInv, DataUnknown  PROVE DataIInv'
<1>1. /\ phase = "decode" /\ turn < Len(Descr.fields) /\ NoMember /\ DataFail
      /\ UNCHANGED <<direct, others, tried, sent, wire>>
  BY DEF DataUnknown
<1>2. ~Same
  BY <1>1, TurnFacts
<1> QED  BY <1>1, <1>2, FailKeeps

LEMMA MemberKeeps == ASSUME DataIInv, DataMember  PROVE DataIInv'
<1> DEFINE n == turn + 1
           f == Descr.fields[n]
<1>1. /\ phase = "decode" /\ turn < Len(Descr.fields) /\ ~NoMember
      /\ UNCHANGED <<direct, others, tried, sent, wire>>
  BY DEF DataMember
<1>2. /\ wire[pos + 1] = n
      /\ ~f.array => /\ Place(n) = pos + 2
                     /\ f.base # "blob" => <<wire[pos + 2]>> = sent.vals[n]
                     /\ f.base = "blob" => ~Blobless(sent.descr)
  BY <1>1, TurnFacts
<1>3. /\ ~f.array
      /\ IF f.base = "blob" THEN DataFail ELSE StoreMember(n, f, <<wire[pos + 2]>>, pos + 2)
  BY <1>2 DEF DataMember
<1> HIDE DEF n
<1>4. CASE f.base = "blob"
  BY <1>1, <1>2, <1>3, <1>4, FailKeeps
<1>5. CASE f.base # "blob"
  <2>1. StoreMember(n, f, sent.vals[n], Place(n))
    BY <1>2, <1>3, <1>5
  <2> QED  BY <1>1, <1>3, <2>1, StoreKeeps DEF n
<1> QED  BY <1>4, <1>5

LEMMA ArrayKeeps == ASSUME DataIInv, DataArray  PROVE DataIInv'
<1> DEFINE n == turn + 1
           f == Descr.fields[n]
           v == sent.vals[n]
           c == Len(v)
           ok == f.base # "blob" /\ (f.guard \/ ArraySize(Descr, turn, data) = c)
<1>1. /\ phase = "decode" /\ turn < Len(Descr.fields) /\ ~NoMember
      /\ UNCHANGED <<direct, others, tried, sent, wire>>
  BY DEF DataArray
<1>2. /\ wire[pos + 1] = n /\ IsType(Descr) /\ n \in 1 .. Len(Descr.fields)
      /\ f.array => /\ wire[pos + 2] = c /\ Place(n) = pos + 2 + c
                    /\ SubSeq(wire, pos + 3, Place(n)) = v
                    /\ f.base = "blob" => ~Blobless(sent.descr)
                    /\ f.guard /\ f.base # "blob" => ArraySize(Descr, n - 1, sent.vals) = c
                    /\ Same => ArraySize(Descr, n - 1, sent.vals) = c
  BY <1>1, TurnFacts
<1>3. /\ f.array
      /\ IF ok THEN StoreMember(n, f, SubSeq(wire, pos + 3, pos + 2 + c), pos + 2 + c) ELSE DataFail
  <2>1. f.array
    BY <1>2 DEF DataArray
  <2>2. wire[pos + 1] = n /\ wire[pos + 2] = c
    BY <1>2, <2>1
  <2> QED  BY <2>1, <2>2 DEF DataArray
<1>4. turn \in Nat /\ n - 1 = turn /\ data = [m \in 1 .. turn |-> sent.vals[m]]
  <2>1. Decoded /\ Len(Descr.fields) \in Nat
    BY <1>1, <1>2, IndexFacts DEF DataIInv
  <2> QED  BY <2>1 DEF Decoded
<1> HIDE DEF n, v, c, f
<1>5. ASSUME ~f.guard  PROVE ArraySize(Descr, turn, data) = ArraySize(Descr, n - 1, sent.vals)
  <2>1. \A i \in 1 .. n - 1 : data[i] = sent.vals[i]
    BY <1>4
  <2>2. Descr.fields[n].array /\ ~Descr.fields[n].guard
    BY <1>3, <1>5 DEF f
  <2>3. IsType(Descr) /\ n \in 1 .. Len(Descr.fields)
    BY <1>2
  <2>4. ArraySize(Descr, n - 1, data) = ArraySize(Descr, n - 1, sent.vals)
    BY <2>1, <2>2, <2>3, SameSize
  <2> QED  BY <1>4, <2>4
<1>6. CASE ok
  <2>1. StoreMember(n, f, v, Place(n))
    BY <1>2, <1>3, <1>6
  <2>2. ArraySize(Descr, n - 1, sent.vals) = c
    BY <1>2, <1>3, <1>5, <1>6
  <2> QED  BY <1>1, <2>1, <2>2, StoreKeeps DEF n, f, v, c
<1>7. CASE ~ok
  <2>1. ~(Same /\ Blobless(sent.descr))
    BY <1>2, <1>3, <1>5, <1>7
  <2> QED  BY <1>1, <1>3, <1>7, <2>1, FailKeeps
<1> QED  BY <1>6, <1>7

LEMMA DoneKeeps == ASSUME DataIInv, DataDone  PROVE DataIInv'
<1>1. /\ phase = "decode" /\ turn = Len(Descr.fields) /\ phase' = "done"
      /\ UNCHANGED <<direct, others, tried, sent, wire, pos, turn, data, heap>>
  BY DEF DataDone
<1>2. TypesKnown /\ Encoded /\ Decoded /\ heap = {Whole} \cup Stored
  BY <1>1 DEF DataIInv
<1>3. Descr' = Descr /\ TypesKnown' /\ Encoded'
  BY <1>1, <1>2, StillEncoded
<1>4. Decoded' /\ Stored' = Stored
  BY <1>1, <1>2, <1>3 DEF Decoded, Stored
<1>5. phase' \notin {"freed", "failed", "decode", "sent", "idle", "refused", "crashed"}
  BY <1>1
<1>6. heap' = {Whole} \cup Stored' /\ turn' = Len(Descr'.fields)
  BY <1>1, <1>2, <1>3, <1>4
<1> QED  BY <1>1, <1>3, <1>4, <1>5, <1>6 DEF DataIInv, StructureFreed

LEMMA FreeKeeps == ASSUME DataIInv, DataFree  PROVE DataIInv'
<1>1. /\ phase = "done" /\ phase' = "freed"
      /\ heap' = heap \ ({Whole} \cup UNION {Freed(Descr, k) : k \in Descr.allocated})
      /\ UNCHANGED <<direct, others, tried, sent, wire, pos, turn, data>>
  BY DEF DataFree
<1>2. TypesKnown /\ Encoded /\ Decoded /\ heap = {Whole} \cup Stored /\ turn = Len(Descr.fields) /\ StructuresArrive
  BY <1>1, DataIInvImplies DEF DataIInv
<1>3. Descr' = Descr /\ TypesKnown' /\ Encoded'
  BY <1>1, <1>2, StillEncoded
<1>4. Decoded'
  BY <1>1, <1>2, <1>3 DEF Decoded
<1>5. IsType(Descr) /\ DOMAIN data = 1 .. Len(Descr.fields)
  BY <1>2, EndFacts DEF Decoded
<1>6. ASSUME NEW n \in DOMAIN data, NEW b \in Blocks(n, Descr.fields[n], data[n])
      PROVE  \E k \in Descr.allocated : b \in Freed(Descr, k)
  <2> DEFINE k == n - 1
             f == Descr.fields[n]
  <2>1. k \in Indices(Descr) /\ Field(Descr, k) = f /\ k + 1 = n
    BY <1>5, IndexFacts
  <2> HIDE DEF k
  <2>2. f.array \in BOOLEAN /\ (f.array \/ f.base \in Boxed)
    BY <1>5, <2>1 DEF IsType, Blocks
  <2>3. k \in Descr.allocated
    BY <1>5, <2>1, <2>2 DEF IsType
  <2>4. f.array => ArraySize(Descr, k, data) = Len(data[n])
    BY <1>1, <1>2, <2>1 DEF StructuresArrive, DataArrives
  <2>5. b \in Freed(Descr, k)
    BY <2>1, <2>2, <2>4 DEF Blocks, Freed
  <2> QED  BY <2>3, <2>5
<1>7. heap' = {}
  BY <1>1, <1>2, <1>6 DEF Stored
<1>8. phase' \notin {"failed", "decode", "done", "sent", "idle", "refused", "crashed"} /\ turn' = Len(Descr'.fields)
  BY <1>1, <1>2, <1>3
<1> QED  BY <1>1, <1>3, <1>4, <1>7, <1>8 DEF DataIInv, StructureFreed

LEMMA NextKeepsDataIInv == ASSUME DataIInv, [DataNext]_dataVars  PROVE DataIInv'
<1>1. CASE UNCHANGED dataVars
  <2>1. UNCHANGED <<direct, others, tried, phase, sent, wire, pos, turn, data, heap>>
    BY <1>1 DEF dataVars
  <2>2. /\ Descr' = Descr /\ (TypesKnown => TypesKnown') /\ (Encoded => Encoded')
        /\ (Same <=> Same') /\ Place(turn)' = Place(turn)
    <3>1. Place(turn)' = Place(turn)
      BY <2>1 DEF Place, Members
    <3> QED  BY <2>1, <3>1, StillEncoded
  <2>3. (Decoded => Decoded') /\ Stored' = Stored
    BY <2>1, <2>2 DEF Decoded, Stored
  <2>4. StructureFreed => StructureFreed'
    BY <2>1, <2>2 DEF StructureFreed
  <2> QED  BY <2>1, <2>2, <2>3, <2>4 DEF DataIInv
<1>2. CASE DataNext
  <2>1. ASSUME NEW e \in Sides, NEW d \in Descriptors[e], RegisterType(e, d)  PROVE DataIInv'
    BY <2>1, RegisterTypeKeeps
  <2>2. ASSUME NEW d \in Descriptors["sender"], NEW vals \in Values(FindType("sender", d.tag)),
               Send(FindType("sender", d.tag), vals) \/ SendFails(FindType("sender", d.tag), vals)
        PROVE  DataIInv'
    BY <2>2, SendKeeps
  <2>3. CASE Receive
    BY <2>3, ReceiveKeeps
  <2>4. CASE DataUnknown
    BY <2>4, UnknownKeeps
  <2>5. CASE DataMember
    BY <2>5, MemberKeeps
  <2>6. CASE DataArray
    BY <2>6, ArrayKeeps
  <2>7. CASE DataDone
    BY <2>7, DoneKeeps
  <2>8. CASE DataFree
    BY <2>8, FreeKeeps
  <2> QED  BY <1>2, <2>1, <2>2, <2>3, <2>4, <2>5, <2>6, <2>7, <2>8 DEF DataNext
<1> QED  BY <1>1, <1>2

\* Between two sides that agree on a type, a structure without blobs arrives as
\* it was sent; between any two, no array comes out that is longer or shorter
\* than its count says; and a structure is freed whole, but for the arrays that
\* a failed decode loses: for any descriptors and structures.
THEOREM StructuresSound == DataSpec => []StructuresArrive
<1>1. DataInit => DataIInv
  BY InitDataIInv
<1>2. DataIInv /\ [DataNext]_dataVars => DataIInv'
  BY NextKeepsDataIInv
<1>3. DataIInv => StructuresArrive
  BY DataIInvImplies
<1> QED  BY <1>1, <1>2, <1>3, PTL DEF DataSpec
==============================================================================

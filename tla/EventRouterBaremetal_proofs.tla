-------------------- MODULE EventRouterBaremetal_proofs --------------------
(***************************************************************************)
(* Theorems about EventRouterBaremetal: about its bits of subscriptions,    *)
(* for every number and offset of the event types, and, for every number of *)
(* events and modules, that its linked lists keep every event that was sent,*)
(* that its counts tell who has still to return one, that events keep their *)
(* order, and that it implements EventLifecycle.                            *)
(*                                                                          *)
(* A list is described by the sequence of events its pointers make         *)
(* (IsChain).  Lemmas say what each write of a pointer does to that         *)
(* sequence; the inductive invariant IInv relates the lists, the counts and *)
(* what the loop has in its hands; each action has a lemma that it keeps    *)
(* IInv.                                                                    *)
(***************************************************************************)
EXTENDS EventRouterBaremetal, FiniteSetTheorems, SequenceTheorems,
        WellFoundedInduction, TLAPS

(* A bit of an array is a byte and a bit of that byte.                     *)
LEMMA BitRefTyped ==
  ASSUME NEW ty \in Nat
  PROVE  GetBitRef(ty) \in BitRef
  BY DEF GetBitRef, BitRef, CHAR_BIT

(* GetBitRef() gives different types different bits.                       *)
LEMMA BitRefsDiffer ==
  ASSUME NEW ty \in RoutableType, NEW other \in RoutableType \ {ty}
  PROVE  GetBitRef(ty) # GetBitRef(other)
<1>1. ty \in Nat /\ other \in Nat /\ ty # other
  BY TypesAssumption
  DEF RoutableType, ER_EVENT_TYPE__FIRST, ER_EVENT_TYPE__LAST
<1>2. \A n \in Nat : n = (CHAR_BIT * (n \div CHAR_BIT)) + (n % CHAR_BIT)
  BY DEF CHAR_BIT
<1>3. ty \div CHAR_BIT # other \div CHAR_BIT \/ ty % CHAR_BIT # other % CHAR_BIT
  BY <1>1, <1>2
<1> QED  BY <1>3 DEF GetBitRef

(* Setting or clearing the subscription to one type leaves those to all    *)
(* others as they are.                                                     *)
THEOREM TypesShareNoBit ==
  ASSUME NEW memory, NEW ty \in RoutableType, NEW other \in RoutableType \ {ty}
  PROVE  /\ IsSet(SetBit(memory, ty), ty)
         /\ ~IsSet(ClearBit(memory, ty), ty)
         /\ IsSet(SetBit(memory, ty), other) <=> IsSet(memory, other)
         /\ IsSet(ClearBit(memory, ty), other) <=> IsSet(memory, other)
BY BitRefsDiffer DEF IsSet, SetBit, ClearBit

(* When the types start at 0 the array has a bit for each of them.         *)
LEMMA BitsInArray ==
  ASSUME ER_EVENT_TYPE__OFFSET = 0, NEW ty \in RoutableType
  PROVE  GetBitRef(ty).m_byte < ArrayBytes
  BY TypesAssumption
  DEF GetBitRef, ArrayBytes, RoutableType, ER_EVENT_TYPE__FIRST, ER_EVENT_TYPE__LAST,
      CHAR_BIT

(* When they start at 8 or above, the bit of the last type never lies in   *)
(* the array, however many types there are: GetBitRef() does not take the  *)
(* offset into account.                                                    *)
THEOREM OffsetLeavesArray ==
  ASSUME ER_EVENT_TYPE__OFFSET >= CHAR_BIT
  PROVE  GetBitRef(ER_EVENT_TYPE__LAST).m_byte >= ArrayBytes
  BY TypesAssumption DEF GetBitRef, ArrayBytes, ER_EVENT_TYPE__LAST, CHAR_BIT

(* When the types start at 0 the router never writes behind the array of   *)
(* any module.                                                             *)
THEOREM StaysInArray ==
  ASSUME ER_EVENT_TYPE__OFFSET = 0
  PROVE  Spec => []SubscriptionsStayInArray
<1> DEFINE Inv == /\ m_subscriptions \in [Module -> SUBSET BitRef]
                  /\ SubscriptionsStayInArray
<1>1. Init => Inv
  BY DEF Init, SubscriptionsStayInArray, InArray
<1>2. ASSUME Inv, [Next]_vars PROVE Inv'
  <2>1. CASE ErInit
    BY <1>2, <2>1 DEF ErInit, ClearArray, SubscriptionsStayInArray, InArray
  <2>2. ASSUME NEW m \in Module, NEW ty \in RoutableType, ErSubscribe(m, ty)
        PROVE  Inv'
    <3>1. ty \in Nat
      BY TypesAssumption DEF RoutableType, ER_EVENT_TYPE__FIRST, ER_EVENT_TYPE__LAST
    <3>2. GetBitRef(ty) \in BitRef /\ GetBitRef(ty).m_byte < ArrayBytes
      BY <3>1, BitRefTyped, BitsInArray
    <3>3. m_subscriptions' = [m_subscriptions EXCEPT ![m] = @ \cup {GetBitRef(ty)}]
      BY <2>2 DEF ErSubscribe, SetBit
    <3> QED  BY <1>2, <3>2, <3>3 DEF SubscriptionsStayInArray, InArray
  <2>3. ASSUME NEW m \in Module, NEW ty \in RoutableType, ErUnsubscribe(m, ty)
        PROVE  Inv'
    <3>1. m_subscriptions' = [m_subscriptions EXCEPT ![m] = @ \ {GetBitRef(ty)}]
      BY <2>3 DEF ErUnsubscribe, ClearBit
    <3> QED  BY <1>2, <3>1 DEF SubscriptionsStayInArray, InArray
  <2>4. CASE UNCHANGED m_subscriptions
    BY <1>2, <2>4 DEF SubscriptionsStayInArray
  <2>5. CASE ErDeinit \/ RouterStep \/ LoopStep
    BY <2>4, <2>5
    DEF ErDeinit, RouterStep, LoopStep, FindEnd, AppendAtEnd, ClearDeliverNext,
        ErCallHandlers, AllHandled, DropReference, CallSender, ErNewLoop,
        ErGetEventToDeliver, HandlerHandled, HandlerKept
  <2>6. ASSUME NEW e \in Event,
               ErSendEx(e) \/ Interrupt(e) \/ \E m \in Module : ErReturnToSender(m, e)
        PROVE  Inv'
    BY <2>4, <2>6 DEF ErSendEx, Interrupt, ErReturnToSender
  <2> QED  BY <1>2, <2>1, <2>2, <2>3, <2>4, <2>5, <2>6 DEF Next, vars
<1> QED  BY <1>1, <1>2, PTL DEF Spec
-----------------------------------------------------------------------------
(* The k-th node of a list that holds s: its head, or one of its events.   *)
NodeAt(list, s, k) == IF k = 0 THEN list ELSE s[k]
LastNode(list, s) == NodeAt(list, s, Len(s))
Elements(s) == {s[k] : k \in DOMAIN s}

(* The pointers next hold exactly the events s in list, each once, in this *)
(* order.                                                                  *)
IsChain(next, list, s) ==
  /\ s \in Seq(Event)
  /\ \A j, k \in 1..Len(s) : s[j] = s[k] => j = k
  /\ \A k \in 0..Len(s) :
       next[NodeAt(list, s, k)] = IF k = Len(s) THEN NULL ELSE s[k + 1]

(* Every non-empty set of natural numbers has a smallest element.          *)
LEMMA Smallest ==
  ASSUME NEW T \in SUBSET Nat, T # {}
  PROVE  \E n \in T : \A m \in T : n <= m
<1>1. \E n \in T : \A m \in T : ~(<<m, n>> \in OpToRel(<, Nat))
  BY NatLessThanWellFounded, WFMin
<1>2. PICK n \in T : \A m \in T : <<m, n>> \notin OpToRel(<, Nat)
  BY <1>1
<1>3. \A m \in T : ~(m < n)
  BY <1>2 DEF OpToRel
<1>4. \A m \in T : n <= m
  BY <1>3
<1> QED
  BY <1>4

(* Path() returns the events of a chain.  Its recursive function is compared*)
(* with the chain: there is no smallest place where they differ.           *)
LEMMA PathOfChain ==
  ASSUME NEW next, NEW list \in List, NEW s, IsChain(next, list, s)
  PROVE  Path(next, list) = s
<1> DEFINE n == Cardinality(Event)
           at[k \in 0..n] == IF k = 0 THEN list
                        ELSE IF at[k - 1] = NULL THEN NULL ELSE next[at[k - 1]]
           w == [k \in 0..n |-> IF k <= Len(s) THEN NodeAt(list, s, k) ELSE NULL]
<1>1. n \in Nat
  BY FS_CardinalityType, EventsAssumption
<1>2. s \in Seq(Event) /\ Len(s) \in Nat
  BY DEF IsChain
<1>3. w = [k \in 0..n |-> IF k = 0 THEN list
                        ELSE IF w[k - 1] = NULL THEN NULL ELSE next[w[k - 1]]]
  <2>1. ASSUME NEW k \in 0..n
        PROVE  w[k] = IF k = 0 THEN list
                        ELSE IF w[k - 1] = NULL THEN NULL ELSE next[w[k - 1]]
    <3>1. CASE k = 0
      BY <1>1, <1>2, <3>1 DEF NodeAt
    <3>2. CASE k # 0 /\ k - 1 <= Len(s)
      <4>1. k - 1 \in 0..Len(s) /\ k - 1 \in 0..n
        BY <1>1, <1>2, <2>1, <3>2
      <4>2. w[k - 1] = NodeAt(list, s, k - 1)
        BY <4>1
      <4>3. w[k - 1] # NULL
        BY <1>2, <4>1, <4>2, NodesAssumption DEF NodeAt, Node
      <4>4. next[w[k - 1]] = IF k - 1 = Len(s) THEN NULL ELSE s[k]
        BY <4>1, <4>2 DEF IsChain
      <4> QED  BY <1>2, <2>1, <3>2, <4>1, <4>3, <4>4 DEF NodeAt
    <3>3. CASE k # 0 /\ k - 1 > Len(s)
      <4>1. k - 1 \in 0..n /\ ~(k <= Len(s))
        BY <1>1, <1>2, <2>1, <3>3
      <4> QED  BY <2>1, <3>3, <4>1
    <3> QED  BY <1>1, <1>2, <3>1, <3>2, <3>3
  <2> QED  BY <2>1
<1>4. at = [k \in 0..n |-> IF k = 0 THEN list
                        ELSE IF at[k - 1] = NULL THEN NULL ELSE next[at[k - 1]]]
  <2> HIDE DEF w, n
  <2> QED BY <1>3, Zenon
<1>5. \A k \in 0..n : at[k] = w[k]
  <2> HIDE DEF at, w
  <2> DEFINE T == {k \in 0..n : at[k] # w[k]}
  <2>1. SUFFICES ASSUME T # {}
                 PROVE  FALSE
    OBVIOUS
  <2>2. T \in SUBSET Nat
    BY <1>1
  <2>3. PICK k \in T : \A j \in T : k <= j
    <3> HIDE DEF T
    <3> QED  BY <2>1, <2>2, Smallest
  <2>4. CASE k = 0
    BY <1>3, <1>4, <2>3, <2>4
  <2>5. CASE k # 0
    <3>1. k - 1 \in 0..n /\ k \in 0..n /\ ~(k <= k - 1)
      BY <1>1, <2>5
    <3>2. at[k - 1] = w[k - 1]
      BY <2>3, <3>1
    <3>3. at[k] = w[k]
      BY <1>3, <1>4, <2>5, <3>1, <3>2
    <3> QED  BY <3>3
  <2> QED  BY <2>4, <2>5
<1>6. Len(s) <= n
  <2>1. s \in Injection(1..Len(s), Event)
    BY <1>2 DEF IsChain, Injection, IsInjective
  <2>2. Cardinality(1..Len(s)) <= n
    BY <2>1, FS_Injection, EventsAssumption
  <2>3. Cardinality(1..Len(s)) = IF 1 > Len(s) THEN 0 ELSE Len(s) - 1 + 1
    BY <1>2, FS_Interval
  <2> QED  BY <1>2, <2>2, <2>3
<1> DEFINE K == {k \in 1..n : at[k] # NULL}
<1>7. K = 1..Len(s) /\ \A k \in 1..Len(s) : at[k] = s[k]
  <2> HIDE DEF at
  <2>1. ASSUME NEW k \in 1..n
        PROVE  at[k] = IF k <= Len(s) THEN s[k] ELSE NULL
    BY <1>1, <1>2, <1>5 DEF NodeAt
  <2>2. \A k \in 1..Len(s) : s[k] \in Event /\ s[k] # NULL
    BY <1>2, NodesAssumption DEF Node
  <2> QED  BY <1>1, <1>2, <1>6, <2>1, <2>2
<1>8. Cardinality(K) = Len(s)
  <2> HIDE DEF K
  <2>1. Cardinality(1..Len(s)) = IF 1 > Len(s) THEN 0 ELSE Len(s) - 1 + 1
    BY <1>2, FS_Interval
  <2> QED  BY <1>2, <1>7, <2>1
<1>9. Path(next, list) = [k \in 1..Cardinality(K) |-> at[k]]
  BY DEF Path
<1> HIDE DEF K, at
<1>10. Path(next, list) = [k \in 1..Len(s) |-> s[k]]
  BY <1>7, <1>8, <1>9
<1> QED
  BY <1>2, <1>10

(* The members of a list, its last node and its first event.               *)
LEMMA ChainFacts ==
  ASSUME NEW next, NEW list \in List, NEW s, IsChain(next, list, s)
  PROVE  /\ s \in Seq(Event) /\ Len(s) \in Nat /\ DOMAIN s = 1..Len(s)
         /\ Members(next, list) = Elements(s)
         /\ Elements(s) \subseteq Event
         /\ list \notin Elements(s) /\ NULL \notin Elements(s)
         /\ LastNode(list, s) \in {list} \cup Elements(s)
         /\ next[LastNode(list, s)] = NULL
         /\ next[list] = IF s = <<>> THEN NULL ELSE s[1]
<1>1. s \in Seq(Event) /\ Len(s) \in Nat /\ DOMAIN s = 1..Len(s)
  BY DEF IsChain
<1>2. Members(next, list) = Elements(s)
  BY PathOfChain DEF Members, Elements
<1>3. Elements(s) \subseteq Event
  BY <1>1 DEF Elements
<1>4. list \notin Elements(s) /\ NULL \notin Elements(s)
  BY <1>3, NodesAssumption DEF Node
<1>5. LastNode(list, s) \in {list} \cup Elements(s)
  BY <1>1 DEF LastNode, NodeAt, Elements
<1>6. next[LastNode(list, s)] = NULL
  <2>1. Len(s) \in 0..Len(s)
    BY <1>1
  <2>2. next[NodeAt(list, s, Len(s))] = IF Len(s) = Len(s) THEN NULL ELSE s[Len(s) + 1]
    BY <2>1 DEF IsChain
  <2> QED  BY <2>2 DEF LastNode
<1>7. next[list] = IF s = <<>> THEN NULL ELSE s[1]
  <2>1. next[NodeAt(list, s, 0)] = IF 0 = Len(s) THEN NULL ELSE s[0 + 1]
    <3>1. 0 \in 0..Len(s)
      BY <1>1
    <3> QED  BY <3>1 DEF IsChain
  <2>2. s = <<>> <=> Len(s) = 0
    BY <1>1
  <2> QED  BY <2>1, <2>2 DEF NodeAt
<1> QED  BY <1>1, <1>2, <1>3, <1>4, <1>5, <1>6, <1>7

(* A write to any other node leaves a list as it is.                       *)
LEMMA ChainFrame ==
  ASSUME NEW next, NEW list \in List, NEW s, IsChain(next, list, s), NEW other,
         \A n \in {list} \cup Elements(s) : other[n] = next[n]
  PROVE  IsChain(other, list, s)
<1>1. \A k \in 0..Len(s) : NodeAt(list, s, k) \in {list} \cup Elements(s)
  BY ChainFacts DEF NodeAt, Elements
<1> QED  BY <1>1 DEF IsChain

(* The last node is made to point to an event that points nowhere.         *)
LEMMA ChainAppend ==
  ASSUME NEW next \in [Node -> Event \cup {NULL}], NEW list \in List, NEW s,
         IsChain(next, list, s),
         NEW e \in Event, e \notin Elements(s), next[e] = NULL
  PROVE  IsChain([next EXCEPT ![LastNode(list, s)] = e], list, Append(s, e))
<1> DEFINE z == Append(s, e)
           new == [next EXCEPT ![LastNode(list, s)] = e]
<1>0. Len(s) \in Nat
  BY ChainFacts
<1>1. /\ s \in Seq(Event) /\ Len(s) \in Nat /\ DOMAIN s = 1..Len(s)
      /\ Elements(s) \subseteq Event /\ list \notin Elements(s)
      /\ LastNode(list, s) \in {list} \cup Elements(s)
  BY ChainFacts
<1>2. /\ z \in Seq(Event) /\ Len(z) = Len(s) + 1 /\ z[Len(s) + 1] = e
      /\ \A k \in 1..Len(s) : z[k] = s[k]
  BY <1>1
<1>3. \A k \in 1..Len(s) : s[k] # e
  BY <1>1 DEF Elements
<1>4. ASSUME NEW j \in 1..Len(z), NEW k \in 1..Len(z), z[j] = z[k]
      PROVE  j = k
  <2>1. \A i \in 1..Len(z) : i \in 1..Len(s) \/ i = Len(s) + 1
    BY <1>1, <1>2
  <2>2. CASE j \in 1..Len(s) /\ k \in 1..Len(s)
    BY <1>2, <1>4, <2>2 DEF IsChain
  <2> HIDE DEF z
  <2> QED  BY <1>2, <1>3, <1>4, <2>1, <2>2
<1>5. ASSUME NEW k \in 0..Len(z)
      PROVE  new[NodeAt(list, z, k)] = IF k = Len(z) THEN NULL ELSE z[k + 1]
  <2> HIDE DEF z
  <2>1. CASE k = Len(z)
    <3>1. NodeAt(list, z, k) = e
      BY <1>1, <1>2, <2>1 DEF NodeAt
    <3>2. e # LastNode(list, s) /\ e \in Node
      BY <1>1, NodesAssumption DEF Node
    <3> QED  BY <2>1, <3>1, <3>2
  <2>2. CASE k = Len(s)
    <3>1. NodeAt(list, z, k) = LastNode(list, s)
      <4>1. k = 0 \/ k \in 1..Len(s)
        BY <1>1, <2>2
      <4> QED  BY <1>2, <2>2, <4>1 DEF NodeAt, LastNode
    <3>2. LastNode(list, s) \in Node
      BY <1>1 DEF Node
    <3>3. k # Len(z) /\ z[k + 1] = e
      BY <1>0, <1>2, <1>5, <2>2
    <3> QED  BY <3>1, <3>2, <3>3
  <2>3. CASE k \in 0..Len(s) /\ k # Len(s)
    <3>1. k + 1 \in 1..Len(s) /\ k # Len(z)
      BY <1>0, <1>2, <1>5, <2>3
    <3>2. NodeAt(list, z, k) = NodeAt(list, s, k)
      <4>1. k = 0 \/ k \in 1..Len(s)
        BY <1>0, <1>5, <2>3
      <4> QED  BY <1>2, <4>1 DEF NodeAt
    <3>3. next[NodeAt(list, s, k)] = s[k + 1]
      BY <2>3 DEF IsChain
    <3>4. next[LastNode(list, s)] = NULL
      BY ChainFacts
    <3>5. s[k + 1] \in Event /\ s[k + 1] # NULL
      BY <1>1, <3>1, NodesAssumption DEF Node
    <3>6. NodeAt(list, s, k) # LastNode(list, s)
      BY <3>3, <3>4, <3>5
    <3>7. NodeAt(list, s, k) \in Node
      <4>1. k = 0 \/ k \in 1..Len(s)
        BY <1>0, <1>5, <2>3
      <4> QED  BY <1>1, <4>1 DEF NodeAt, Node
    <3>8. z[k + 1] = s[k + 1]
      BY <1>2, <3>1
    <3> QED  BY <3>1, <3>2, <3>3, <3>6, <3>7, <3>8
  <2>4. k = Len(z) \/ k = Len(s) \/ (k \in 0..Len(s) /\ k # Len(s))
    <3>1. Len(z) = Len(s) + 1
      BY <1>2
    <3> QED  BY <1>0, <1>5, <3>1
  <2> QED  BY <2>1, <2>2, <2>3, <2>4
<1> HIDE DEF z, new
<1>6. IsChain(new, list, z)
  BY <1>2, <1>4, <1>5 DEF IsChain
<1> QED  BY <1>6 DEF z, new

(* A chain whose last node is made to point to another chain goes on with  *)
(* it.                                                                     *)
LEMMA ChainConcat ==
  ASSUME NEW next \in [Node -> Event \cup {NULL}],
         NEW l \in List, NEW a, IsChain(next, l, a),
         NEW m \in List \ {l}, NEW b, IsChain(next, m, b),
         b # <<>>, Elements(a) \cap Elements(b) = {}
  PROVE  /\ IsChain([next EXCEPT ![LastNode(l, a)] = next[m]], l, a \o b)
         /\ IsChain([next EXCEPT ![LastNode(l, a)] = next[m]], m, b)
<1> DEFINE z == a \o b
           last == LastNode(l, a)
           new == [next EXCEPT ![last] = next[m]]
<1>0. Len(a) \in Nat /\ Len(b) \in Nat
  BY ChainFacts
<1>1. a \in Seq(Event) /\ b \in Seq(Event)
  BY ChainFacts
<1>2. /\ z \in Seq(Event) /\ Len(z) = Len(a) + Len(b)
      /\ \A k \in 1..Len(a) : z[k] = a[k]
      /\ \A k \in 1..Len(b) : z[Len(a) + k] = b[k]
  BY <1>1
<1>3. Len(b) # 0 /\ next[m] = b[1]
  BY <1>1, ChainFacts
<1>4. /\ last \in {l} \cup Elements(a) /\ next[last] = NULL
      /\ Elements(a) \subseteq Event /\ Elements(b) \subseteq Event
  BY ChainFacts
<1>5. \A k \in 1..Len(a) : a[k] \in Event /\ a[k] # NULL /\ a[k] \in Elements(a)
  BY <1>1, NodesAssumption DEF Node, Elements
<1>6. \A k \in 1..Len(b) : b[k] \in Event /\ b[k] # NULL /\ b[k] \in Elements(b)
  BY <1>1, NodesAssumption DEF Node, Elements
<1>7. last \in Node /\ l \in Node /\ m \in Node /\ l \notin Event /\ m \notin Event
  BY <1>4, NodesAssumption DEF Node
<1> HIDE DEF z, last, new
<1>8. \A k \in 1..Len(z) : k \in 1..Len(a) \/ \E i \in 1..Len(b) : k = Len(a) + i
  <2>1. ASSUME NEW k \in 1..Len(z), k \notin 1..Len(a)
        PROVE  k - Len(a) \in 1..Len(b) /\ k = Len(a) + (k - Len(a))
    <3>1. Len(z) = Len(a) + Len(b)
      BY <1>2
    <3> QED  BY <1>0, <2>1, <3>1
  <2> QED  BY <2>1
<1>9. ASSUME NEW j \in 1..Len(z), NEW k \in 1..Len(z), z[j] = z[k]
      PROVE  j = k
  <2>1. CASE j \in 1..Len(a) /\ k \in 1..Len(a)
    BY <1>2, <1>9, <2>1 DEF IsChain
  <2>2. ASSUME NEW i \in 1..Len(b), NEW h \in 1..Len(b), j = Len(a) + i, k = Len(a) + h
        PROVE  j = k
    <3>1. b[i] = b[h]
      BY <1>2, <1>9, <2>2
    <3>2. i = h
      BY <3>1 DEF IsChain
    <3> QED  BY <2>2, <3>2
  <2>3. ASSUME NEW i \in 1..Len(b), k = Len(a) + i, j \in 1..Len(a)
        PROVE  FALSE
    BY <1>2, <1>5, <1>6, <1>9, <2>3
  <2>4. ASSUME NEW i \in 1..Len(b), j = Len(a) + i, k \in 1..Len(a)
        PROVE  FALSE
    BY <1>2, <1>5, <1>6, <1>9, <2>4
  <2> QED  BY <1>8, <1>9, <2>1, <2>2, <2>3, <2>4
<1>10. ASSUME NEW k \in 0..Len(z)
       PROVE  new[NodeAt(l, z, k)] = IF k = Len(z) THEN NULL ELSE z[k + 1]
  <2>0. Len(z) = Len(a) + Len(b)
    BY <1>2
  <2>1. CASE k < Len(a)
    <3>1. k + 1 \in 1..Len(a) /\ k # Len(z) /\ (k = 0 \/ k \in 1..Len(a))
          /\ k \in 0..Len(a) /\ k # Len(a)
      BY <1>0, <1>10, <2>0, <2>1
    <3>2. NodeAt(l, z, k) = NodeAt(l, a, k)
      BY <1>2, <3>1 DEF NodeAt
    <3>3. next[NodeAt(l, a, k)] = a[k + 1]
      BY <3>1 DEF IsChain
    <3>4. NodeAt(l, a, k) # last
      BY <1>4, <1>5, <3>1, <3>3
    <3>5. NodeAt(l, a, k) \in Node
      BY <1>5, <1>7, <3>1 DEF NodeAt, Node
    <3>6. z[k + 1] = a[k + 1]
      BY <1>2, <3>1
    <3> QED  BY <3>1, <3>2, <3>3, <3>4, <3>5, <3>6 DEF new
  <2>2. CASE k = Len(a)
    <3>1. k # Len(z) /\ 1 \in 1..Len(b) /\ (k = 0 \/ k \in 1..Len(a))
      BY <1>0, <1>3, <1>10, <2>0, <2>2
    <3>2. NodeAt(l, z, k) = last
      BY <1>2, <2>2, <3>1 DEF NodeAt, LastNode, last
    <3>3. z[k + 1] = b[1]
      BY <1>2, <2>2, <3>1
    <3> QED  BY <1>3, <1>7, <3>1, <3>2, <3>3 DEF new
  <2>3. CASE k > Len(a)
    <3>1. PICK i \in 1..Len(b) : k = Len(a) + i
      <4>1. k - Len(a) \in 1..Len(b) /\ k = Len(a) + (k - Len(a))
        BY <1>0, <1>10, <2>0, <2>3
      <4> QED  BY <4>1
    <3>2. i \in 0..Len(b) /\ i # 0 /\ k # 0 /\ (k = Len(z) <=> i = Len(b))
      BY <1>0, <2>0, <3>1
    <3>3. NodeAt(l, z, k) = b[i] /\ NodeAt(m, b, i) = b[i]
      BY <1>2, <3>1, <3>2 DEF NodeAt
    <3>4. next[b[i]] = IF i = Len(b) THEN NULL ELSE b[i + 1]
      BY <3>2, <3>3 DEF IsChain
    <3>5. b[i] # last /\ b[i] \in Node
      BY <1>4, <1>6, <1>7 DEF Node
    <3>6. CASE i = Len(b)
      BY <3>2, <3>3, <3>4, <3>5, <3>6 DEF new
    <3>7. CASE i # Len(b)
      <4>1. i + 1 \in 1..Len(b) /\ k + 1 = Len(a) + (i + 1)
        BY <1>0, <3>1, <3>7
      <4>2. z[k + 1] = b[i + 1]
        BY <1>2, <4>1
      <4> QED  BY <3>2, <3>3, <3>4, <3>5, <3>7, <4>2 DEF new
    <3> QED  BY <3>6, <3>7
  <2> QED  BY <1>0, <1>10, <2>0, <2>1, <2>2, <2>3
<1>11. IsChain(new, l, z)
  BY <1>2, <1>9, <1>10 DEF IsChain
<1>12. IsChain(new, m, b)
  <2>1. \A n \in {m} \cup Elements(b) : n # last
    BY <1>4, <1>7
  <2>2. \A n \in {m} \cup Elements(b) : new[n] = next[n]
    BY <1>4, <1>7, <2>1 DEF new, Node
  <2> QED  BY <2>2, ChainFrame
<1> QED  BY <1>11, <1>12 DEF new, last, z

(* The sequence without its i-th element.                                  *)
Cut(s, i) == [k \in 1..(Len(s) - 1) |-> IF k < i THEN s[k] ELSE s[k + 1]]

(* An append adds one element.                                             *)
LEMMA ElementsOfAppend ==
  ASSUME NEW s \in Seq(Event), NEW e \in Event
  PROVE  Elements(Append(s, e)) = Elements(s) \cup {e}
<1>1. /\ DOMAIN Append(s, e) = 1..(Len(s) + 1) /\ DOMAIN s = 1..Len(s)
      /\ Append(s, e)[Len(s) + 1] = e
      /\ \A k \in 1..Len(s) : Append(s, e)[k] = s[k]
  OBVIOUS
<1>2. Len(s) \in Nat
  OBVIOUS
<1>3. 1..(Len(s) + 1) = 1..Len(s) \cup {Len(s) + 1}
  BY <1>2
<1> QED  BY <1>1, <1>3 DEF Elements

(* A concatenation has the elements of both sequences.                     *)
LEMMA ElementsOfConcat ==
  ASSUME NEW a \in Seq(Event), NEW b \in Seq(Event)
  PROVE  Elements(a \o b) = Elements(a) \cup Elements(b)
<1> DEFINE z == a \o b
<1>1. /\ DOMAIN z = 1..(Len(a) + Len(b)) /\ DOMAIN a = 1..Len(a) /\ DOMAIN b = 1..Len(b)
      /\ \A k \in 1..Len(a) : z[k] = a[k]
      /\ \A k \in 1..Len(b) : z[Len(a) + k] = b[k]
  OBVIOUS
<1>2. Len(a) \in Nat /\ Len(b) \in Nat
  OBVIOUS
<1> HIDE DEF z
<1>3. \A k \in 1..Len(a) : k \in DOMAIN z
  BY <1>1, <1>2
<1>4. \A k \in 1..Len(b) : Len(a) + k \in DOMAIN z
  BY <1>1, <1>2
<1>5. ASSUME NEW k \in DOMAIN z
      PROVE  k \in 1..Len(a) \/ (k - Len(a) \in 1..Len(b) /\ k = Len(a) + (k - Len(a)))
  BY <1>1, <1>2, <1>5
<1>6. Elements(z) \subseteq Elements(a) \cup Elements(b)
  <2> SUFFICES ASSUME NEW k \in DOMAIN z
               PROVE  z[k] \in Elements(a) \cup Elements(b)
    BY DEF Elements
  <2>1. CASE k \in 1..Len(a)
    BY <1>1, <2>1 DEF Elements
  <2>2. ASSUME NEW i \in 1..Len(b), k = Len(a) + i
        PROVE  z[k] \in Elements(b)
    BY <1>1, <2>2 DEF Elements
  <2> QED  BY <1>5, <2>1, <2>2
<1>7. Elements(a) \subseteq Elements(z) /\ Elements(b) \subseteq Elements(z)
  BY <1>1, <1>3, <1>4 DEF Elements
<1> QED  BY <1>6, <1>7 DEF z

(* What is left without the i-th element.                                  *)
LEMMA CutFacts ==
  ASSUME NEW s \in Seq(Event), NEW i \in 1..Len(s),
         \A j, k \in 1..Len(s) : s[j] = s[k] => j = k
  PROVE  /\ Cut(s, i) \in Seq(Event) /\ Len(Cut(s, i)) = Len(s) - 1
         /\ \A k \in 1..(Len(s) - 1) : Cut(s, i)[k] = IF k < i THEN s[k] ELSE s[k + 1]
         /\ Elements(Cut(s, i)) = Elements(s) \ {s[i]}
         /\ i = 1 => Cut(s, i) = Tail(s)
<1> DEFINE c == Cut(s, i)
           n == Len(s)
<1>0. n \in Nat
  OBVIOUS
<1>1. \A k \in 1..n : s[k] \in Event
  OBVIOUS
<1> HIDE DEF n
<1>2. \A k \in 1..(n - 1) : k \in 1..n /\ k + 1 \in 1..n
  BY <1>0
<1>3. \A k \in 1..(n - 1) : c[k] = IF k < i THEN s[k] ELSE s[k + 1]
  BY DEF Cut, n
<1>4. c \in [1..(n - 1) -> Event]
  BY <1>1, <1>2, <1>3 DEF Cut, n
<1>5. n - 1 \in Nat
  BY <1>0 DEF n
<1>6. c \in Seq(Event) /\ Len(c) = n - 1
  <2> HIDE DEF c
  <2> QED  BY <1>4, <1>5
<1>7. Elements(c) \subseteq Elements(s) \ {s[i]}
  <2>1. ASSUME NEW k \in 1..(n - 1)
        PROVE  c[k] \in Elements(s) \ {s[i]}
    <3>1. k # i \/ ~(k < i)
      BY <1>0, <2>1
    <3>2. CASE k < i
      <4>1. k \in 1..n /\ i \in 1..n /\ k # i
        BY <1>2, <2>1, <3>2 DEF n
      <4> QED  BY <1>3, <2>1, <3>2, <4>1 DEF Elements, n
    <3>3. CASE ~(k < i)
      <4>1. k + 1 \in 1..n /\ i \in 1..n /\ k + 1 # i
        BY <1>0, <1>2, <2>1, <3>3 DEF n
      <4> QED  BY <1>3, <2>1, <3>3, <4>1 DEF Elements, n
    <3> QED  BY <3>2, <3>3
  <2>2. DOMAIN c = 1..(n - 1)
    BY <1>4
  <2> HIDE DEF c
  <2> QED  BY <2>1, <2>2 DEF Elements
<1>8. Elements(s) \ {s[i]} \subseteq Elements(c)
  <2>1. ASSUME NEW k \in 1..n, s[k] # s[i]
        PROVE  s[k] \in Elements(c)
    <3>1. k # i /\ i \in 1..n
      BY <2>1 DEF n
    <3>2. DOMAIN c = 1..(n - 1)
      BY <1>4
    <3> HIDE DEF c
    <3>3. CASE k < i
      <4>1. k \in 1..(n - 1)
        BY <1>0, <2>1, <3>1, <3>3
      <4>2. c[k] = s[k]
        BY <1>3, <3>3, <4>1
      <4> QED  BY <3>2, <4>1, <4>2 DEF Elements
    <3>4. CASE k > i
      <4>1. k - 1 \in 1..(n - 1) /\ ~(k - 1 < i) /\ (k - 1) + 1 = k
        BY <1>0, <2>1, <3>1, <3>4
      <4>2. c[k - 1] = s[k]
        BY <1>3, <4>1
      <4> QED  BY <3>2, <4>1, <4>2 DEF Elements
    <3> QED  BY <1>0, <2>1, <3>1, <3>3, <3>4
  <2> QED  BY <2>1 DEF Elements, n
<1>9. ASSUME i = 1 PROVE c = Tail(s)
  <2>1. s # <<>>
    BY <1>5 DEF n
  <2>2. /\ Tail(s) \in Seq(Event) /\ Len(Tail(s)) = n - 1
        /\ \A k \in 1..Len(Tail(s)) : Tail(s)[k] = s[k + 1]
    BY <2>1, HeadTailProperties DEF n
  <2>3. \A k \in 1..(n - 1) : c[k] = s[k + 1]
    <3>1. \A k \in 1..(n - 1) : ~(k < i)
      BY <1>0, <1>9
    <3> QED  BY <1>3, <3>1
  <2> HIDE DEF c
  <2>4. Len(c) = Len(Tail(s)) /\ \A k \in 1..Len(c) : c[k] = Tail(s)[k]
    BY <1>6, <2>2, <2>3
  <2> QED  BY <1>6, <2>2, <2>4, SeqEqual
<1> QED  BY <1>3, <1>6, <1>7, <1>8, <1>9 DEF n

(* An event is taken out of a list: the node before it points to the next. *)
LEMMA ChainCut ==
  ASSUME NEW next \in [Node -> Event \cup {NULL}], NEW list \in List, NEW s,
         IsChain(next, list, s), NEW i \in 1..Len(s)
  PROVE  IsChain([next EXCEPT ![NodeAt(list, s, i - 1)] = next[s[i]], ![s[i]] = NULL],
                 list, Cut(s, i))
<1> DEFINE c == Cut(s, i)
           prev == NodeAt(list, s, i - 1)
           e == s[i]
           new == [next EXCEPT ![prev] = next[e], ![e] = NULL]
<1>0. Len(s) \in Nat
  BY ChainFacts
<1>1. s \in Seq(Event) /\ list \notin Elements(s)
  BY ChainFacts
<1>2. \A j, k \in 1..Len(s) : s[j] = s[k] => j = k
  BY DEF IsChain
<1>3. /\ c \in Seq(Event) /\ Len(c) = Len(s) - 1
      /\ \A k \in 1..(Len(s) - 1) : c[k] = IF k < i THEN s[k] ELSE s[k + 1]
      /\ Elements(c) = Elements(s) \ {e}
  BY <1>1, <1>2, CutFacts
<1>4. \A k \in 1..Len(s) : s[k] \in Event /\ s[k] \in Node /\ s[k] # list
  BY <1>1, NodesAssumption DEF Node
<1>5. list \in Node
  BY DEF Node
<1>6. i - 1 = 0 \/ i - 1 \in 1..Len(s)
  BY <1>0
<1>7. prev \in Node
  BY <1>4, <1>5, <1>6 DEF NodeAt
<1>8. prev # e
  <2>1. CASE i - 1 = 0
    BY <1>4, <2>1 DEF NodeAt
  <2>2. CASE i - 1 \in 1..Len(s)
    <3>1. i - 1 # i /\ i - 1 # 0
      BY <1>0, <2>2
    <3> QED  BY <1>2, <2>2, <3>1 DEF NodeAt
  <2> QED  BY <1>6, <2>1, <2>2
<1>9. \A n \in Node : new[n] = IF n = e THEN NULL ELSE IF n = prev THEN next[e] ELSE next[n]
  BY <1>7, <1>8, <1>4
<1> HIDE DEF c, prev, new, e
<1>10. ASSUME NEW j \in 1..Len(c), NEW k \in 1..Len(c), c[j] = c[k]
       PROVE  j = k
  <2>1. j \in 1..(Len(s) - 1) /\ k \in 1..(Len(s) - 1)
    BY <1>3
  <2> DEFINE at(h) == IF h < i THEN h ELSE h + 1
  <2>2. at(j) \in 1..Len(s) /\ at(k) \in 1..Len(s) /\ (at(j) = at(k) => j = k)
    BY <1>0, <2>1
  <2>3. c[j] = s[at(j)] /\ c[k] = s[at(k)]
    BY <1>3, <2>1
  <2>4. s[at(j)] = s[at(k)]
    BY <1>10, <2>3
  <2> HIDE DEF at
  <2> QED  BY <1>2, <2>2, <2>4
<1>11. ASSUME NEW k \in 0..Len(c)
       PROVE  new[NodeAt(list, c, k)] = IF k = Len(c) THEN NULL ELSE c[k + 1]
  <2>0. Len(c) = Len(s) - 1
    BY <1>3
  <2>1. CASE k < i - 1
    <3>1. /\ k \in 0..Len(s) /\ k # Len(s) /\ k # Len(c) /\ k + 1 \in 1..(Len(s) - 1)
          /\ k + 1 < i /\ (k = 0 \/ k \in 1..(Len(s) - 1)) /\ k < i /\ k # i /\ k # i - 1
          /\ (k = 0 \/ k \in 1..Len(s)) /\ k + 1 \in 1..Len(s)
      BY <1>0, <1>11, <2>0, <2>1
    <3>2. NodeAt(list, c, k) = NodeAt(list, s, k) /\ NodeAt(list, s, k) \in Node
      BY <1>3, <1>4, <1>5, <3>1 DEF NodeAt
    <3>3. next[NodeAt(list, s, k)] = s[k + 1] /\ c[k + 1] = s[k + 1]
      BY <1>3, <3>1 DEF IsChain
    <3>4. NodeAt(list, s, k) # e /\ NodeAt(list, s, k) # prev
      BY <1>2, <1>4, <1>6, <3>1 DEF NodeAt, e, prev
    <3> QED  BY <1>9, <3>1, <3>2, <3>3, <3>4
  <2>2. CASE k = i - 1
    <3>1. (k = 0 \/ k \in 1..(Len(s) - 1)) /\ k < i
          /\ (k = Len(c) <=> i = Len(s)) /\ i \in 0..Len(s) /\ i # 0
      BY <1>0, <1>11, <2>0, <2>2
    <3>2. NodeAt(list, c, k) = prev
      BY <1>3, <2>2, <3>1 DEF NodeAt, prev
    <3>3. next[e] = IF i = Len(s) THEN NULL ELSE s[i + 1]
      BY <3>1 DEF IsChain, NodeAt, e
    <3>4. CASE i = Len(s)
      BY <1>7, <1>8, <1>9, <3>1, <3>2, <3>3, <3>4
    <3>5. CASE i # Len(s)
      <4>1. k + 1 \in 1..(Len(s) - 1) /\ ~(k + 1 < i) /\ k + 1 = i
        BY <1>0, <2>2, <3>5
      <4>2. c[k + 1] = s[i + 1]
        BY <1>3, <4>1
      <4> QED  BY <1>7, <1>8, <1>9, <3>1, <3>2, <3>3, <3>5, <4>2
    <3> QED  BY <3>4, <3>5
  <2>3. CASE k > i - 1
    <3>1. /\ k \in 1..(Len(s) - 1) /\ ~(k < i) /\ k # 0 /\ k + 1 # 0
          /\ k + 1 \in 1..Len(s) /\ k + 1 \in 0..Len(s) /\ k + 1 # i /\ k + 1 # i - 1
          /\ (k = Len(c) <=> k + 1 = Len(s))
      BY <1>0, <1>11, <2>0, <2>3
    <3>2. NodeAt(list, c, k) = s[k + 1] /\ NodeAt(list, s, k + 1) = s[k + 1]
      BY <1>3, <3>1 DEF NodeAt
    <3>3. next[s[k + 1]] = IF k + 1 = Len(s) THEN NULL ELSE s[(k + 1) + 1]
      BY <3>1, <3>2 DEF IsChain
    <3>4. s[k + 1] # e /\ s[k + 1] # prev /\ s[k + 1] \in Node
      BY <1>2, <1>4, <1>6, <3>1 DEF NodeAt, e, prev
    <3>5. CASE k = Len(c)
      BY <1>9, <3>1, <3>2, <3>3, <3>4, <3>5
    <3>6. CASE k # Len(c)
      <4>1. k + 1 \in 1..(Len(s) - 1) /\ ~(k + 1 < i)
        BY <1>0, <2>0, <2>3, <3>1, <3>6
      <4>2. c[k + 1] = s[(k + 1) + 1]
        BY <1>3, <4>1
      <4> QED  BY <1>9, <3>1, <3>2, <3>3, <3>4, <3>6, <4>2
    <3> QED  BY <3>5, <3>6
  <2> QED  BY <1>0, <1>11, <2>0, <2>1, <2>2, <2>3
<1>12. IsChain(new, list, c)
  BY <1>3, <1>10, <1>11 DEF IsChain
<1> QED  BY <1>12 DEF new, prev, c, e
-----------------------------------------------------------------------------
(* What the proofs assume of the clients: interrupts are disciplined, and   *)
(* no module subscribes to what it sends.                                  *)
NobodySubscribesToOwn ==
  \A e \in Event : <<m_sending_module[e], m_type[e]>> \notin MaySubscribe

(* The types, and the shape of a call at each of its points.               *)
TypeOK ==
  /\ m_initialized \in BOOLEAN
  /\ m_reference_count \in [Event -> Nat]
  /\ m_next \in [Node -> Event \cup {NULL}]
  /\ m_subscriptions \in [Module -> SUBSET BitRef]
  /\ op \in {None} \cup [pc : {"clear"}] \cup [pc : {"walk", "sub", "test"}, e : Event]
            \cup [pc : {"append"}, e : Event, last : Node]
  /\ disp \in {None} \cup [pc : {"loop"}, e : Event, i : Nat]
              \cup [pc : {"handler"}, e : Event, m : Module]
  /\ kept \in [Module -> [Event -> 0..1]]
  /\ failed \in BOOLEAN
  /\ inFlight \subseteq Event

(* Bits are set only for the subscriptions that clients make.              *)
BitsInv ==
  \A m \in Module : m_subscriptions[m] \subseteq
    {GetBitRef(ty) : ty \in {t \in RoutableType : <<m, t>> \in MaySubscribe}}

Queue(l) == Path(m_next, l)

(* Each list is a chain.  While ErNewLoop() moves events from one list to  *)
(* the other both end in the same event.                                   *)
ListsInv ==
  /\ \A l \in List : IsChain(m_next, l, Queue(l))
  /\ ListsAreDisjoint
  /\ op.pc = "clear" =>
       /\ Queue("m_deliver_next") # <<>> /\ Queue("m_deliver_now") # <<>>
       /\ On("m_deliver_next") \subseteq On("m_deliver_now")
       /\ LastNode("m_deliver_next", Queue("m_deliver_next"))
            = LastNode("m_deliver_now", Queue("m_deliver_now"))
  /\ op.pc = "append" => op.last = LastNode("m_deliver_next", Queue("m_deliver_next"))

(* Where an event is: the router has it in one way at most, and its count  *)
(* is one for that, and one for each module that still has to return it.   *)
Dispatched(e) == disp.pc # "none" /\ disp.e = e
Returning(e) == op.pc = "sub" /\ op.e = e
Tested(e) == op.pc = "test" /\ op.e = e
(* How far the modules have been gone through.                             *)
Position == IF disp.pc = "loop" THEN disp.i ELSE m_module_idx[disp.m]
InRouter(e) == Waiting(e) \/ BeingSent(e) \/ Dispatched(e)
One(P) == IF P THEN 1 ELSE 0

Counted(e) ==
  m_reference_count[e]
    = One(InRouter(e)) + Cardinality(Keepers(e)) + One(Returning(e))

OneWay(e) ==
  /\ ~(Waiting(e) /\ BeingSent(e))
  /\ Dispatched(e) => ~Waiting(e) /\ ~BeingSent(e)

(* Nobody has an event before it is delivered.                             *)
Untouched(e) ==
  Waiting(e) \/ BeingSent(e) =>
    Keepers(e) = {} /\ e \notin On("m_kept") /\ ~Returning(e) /\ ~Tested(e)

(* Keepers are on the list, which holds no event that was returned, and    *)
(* while an event is dispatched they are among the modules that had it.    *)
KeptInv(e) ==
  /\ IsFiniteSet(Keepers(e))
  /\ Keepers(e) # {} => e \in On("m_kept")
  /\ e \in On("m_kept") => e \in inFlight
  /\ Dispatched(e) => \A m \in Keepers(e) : m_module_idx[m] < Position

FlightInv(e) == e \in inFlight <=> m_reference_count[e] > 0 \/ Tested(e)

EventInv(e) == Counted(e) /\ OneWay(e) /\ Untouched(e) /\ KeptInv(e) /\ FlightInv(e)

IInv ==
  /\ TypeOK /\ BitsInv
  /\ ListsInv
  /\ \A e \in Event : EventInv(e)

(* ErListAppend() writes the pointer of the last node, unless the event is *)
(* in the list already.                                                    *)
LEMMA AppendIs ==
  ASSUME NEW next, NEW list \in List, NEW s, IsChain(next, list, s), NEW e
  PROVE  ErListAppend(next, list, e)
           = IF e \in Elements(s) THEN next ELSE [next EXCEPT ![LastNode(list, s)] = e]
<1>1. Path(next, list) = s /\ Members(next, list) = Elements(s)
  BY PathOfChain, ChainFacts
<1>2. s \in Seq(Event)
  BY DEF IsChain
<1>3. (IF s = <<>> THEN list ELSE s[Len(s)]) = LastNode(list, s)
  BY <1>2 DEF LastNode, NodeAt
<1> QED  BY <1>1, <1>3 DEF ErListAppend

(* ErListRemove() cuts the event out of the list, if it is there.          *)
LEMMA RemoveIs ==
  ASSUME NEW next, NEW list \in List, NEW s, IsChain(next, list, s), NEW i \in 1..Len(s)
  PROVE  ErListRemove(next, list, s[i])
           = [next EXCEPT ![NodeAt(list, s, i - 1)] = next[s[i]], ![s[i]] = NULL]
<1>0. Len(s) \in Nat
  BY ChainFacts
<1>1. s \in Seq(Event) /\ Members(next, list) = Elements(s)
  BY ChainFacts
<1>2. s[i] \in Elements(s) /\ s[i] # NULL
  BY <1>1, NodesAssumption DEF Elements, Node
<1> DEFINE prev == NodeAt(list, s, i - 1)
<1>3. prev \in {list} \cup Elements(s) /\ next[prev] = s[i]
  <2>1. i - 1 \in 0..Len(s) /\ i - 1 # Len(s) /\ (i - 1) + 1 = i
        /\ (i - 1 = 0 \/ i - 1 \in 1..Len(s))
    BY <1>0
  <2>2. next[prev] = s[i]
    BY <2>1 DEF IsChain
  <2>3. prev \in {list} \cup Elements(s)
    BY <1>1, <2>1 DEF NodeAt, Elements
  <2> QED  BY <2>2, <2>3
<1>4. ASSUME NEW n \in {list} \cup Elements(s), next[n] = s[i]
      PROVE  n = prev
  <2>1. PICK k \in 0..Len(s) : n = NodeAt(list, s, k)
    <3>1. CASE n = list
      <4>1. 0 \in 0..Len(s)
        BY <1>0
      <4> QED  BY <3>1, <4>1 DEF NodeAt
    <3>2. CASE n \in Elements(s)
      <4>1. PICK k \in 1..Len(s) : n = s[k]
        BY <1>1, <3>2 DEF Elements
      <4>2. k \in 0..Len(s) /\ k # 0
        BY <1>0
      <4> QED  BY <4>1, <4>2 DEF NodeAt
    <3> QED  BY <1>4, <3>1, <3>2
  <2>2. next[n] = IF k = Len(s) THEN NULL ELSE s[k + 1]
    BY <2>1 DEF IsChain
  <2>3. k # Len(s) /\ s[k + 1] = s[i]
    BY <1>2, <1>4, <2>2
  <2>4. k + 1 \in 1..Len(s)
    BY <1>0, <2>3
  <2>5. k + 1 = i
    BY <2>3, <2>4 DEF IsChain
  <2>6. k = i - 1
    BY <1>0, <2>5
  <2> QED  BY <2>1, <2>6
<1>5. (CHOOSE n \in {list} \cup Elements(s) : next[n] = s[i]) = prev
  BY <1>3, <1>4
<1> QED  BY <1>1, <1>2, <1>5 DEF ErListRemove

(* ErListRemove() of an event that is not there does nothing.              *)
LEMMA RemoveAbsent ==
  ASSUME NEW next, NEW list \in List, NEW s, IsChain(next, list, s), NEW e,
         e \notin Elements(s)
  PROVE  ErListRemove(next, list, e) = next
BY ChainFacts DEF ErListRemove

(* The members of a list are the elements of its chain.                    *)
LEMMA QueueFacts ==
  ASSUME ListsInv, NEW l \in List
  PROVE  /\ IsChain(m_next, l, Queue(l)) /\ Queue(l) \in Seq(Event)
         /\ On(l) = Elements(Queue(l)) /\ On(l) \subseteq Event
<1>1. IsChain(m_next, l, Queue(l))
  BY DEF ListsInv
<1> HIDE DEF Queue
<1> QED  BY <1>1, ChainFacts DEF On

(* After a step the queue is the chain that its pointers make.             *)
LEMMA QueueIs ==
  ASSUME NEW l \in List, NEW s, IsChain(m_next', l, s)
  PROVE  /\ Queue(l)' = s /\ On(l)' = Elements(s)
         /\ IsChain(m_next', l, Queue(l)')
<1>1. Path(m_next', l) = s /\ Members(m_next', l) = Elements(s)
  BY PathOfChain, ChainFacts
<1>2. Queue(l)' = s
  BY <1>1 DEF Queue
<1> QED  BY <1>1, <1>2 DEF On

(* A step that writes no pointer changes no list.                          *)
LEMMA SameLists ==
  ASSUME UNCHANGED m_next
  PROVE  \A l : Queue(l)' = Queue(l) /\ On(l)' = On(l)
BY DEF Queue, On

(* A list none of whose pointers is written stays as it is.                *)
LEMMA FrameQueue ==
  ASSUME ListsInv, NEW l \in List, \A n \in {l} \cup On(l) : m_next'[n] = m_next[n]
  PROVE  /\ Queue(l)' = Queue(l) /\ On(l)' = On(l)
         /\ IsChain(m_next', l, Queue(l)')
<1>1. IsChain(m_next, l, Queue(l)) /\ On(l) = Elements(Queue(l))
  BY QueueFacts
<1> DEFINE s == Queue(l)
<1> HIDE DEF s
<1>2. IsChain(m_next', l, s)
  BY <1>1, ChainFrame DEF s
<1>3. Queue(l)' = s /\ On(l)' = Elements(s) /\ IsChain(m_next', l, Queue(l)')
  BY <1>2, QueueIs
<1> QED  BY <1>1, <1>3 DEF s

(* What the lists share, at any time.                                      *)
LEMMA ListFacts ==
  ASSUME TypeOK, ListsInv
  PROVE  /\ \A l \in List : On(l) \subseteq Event /\ l \in Node /\ l \notin Event
         /\ \A l, k \in List : l \notin On(k)
         /\ On("m_kept") \cap (On("m_deliver_now") \cup On("m_deliver_next")) = {}
         /\ op.pc # "clear" => On("m_deliver_now") \cap On("m_deliver_next") = {}
         /\ \A e \in Event : (\A l \in List : e \notin On(l)) => m_next[e] = NULL
         /\ \A l \in List : LastNode(l, Queue(l)) \in {l} \cup On(l)
<1>1. \A l \in List : On(l) \subseteq Event /\ l \in Node /\ l \notin Event
  BY QueueFacts, NodesAssumption DEF Node
<1>2. \A l, k \in List : l \notin On(k)
  BY <1>1
<1>3. ListsAreDisjoint
  BY DEF ListsInv
<1>4. \A e \in Event : (\A l \in List : e \notin On(l)) => m_next[e] = NULL
  BY <1>3 DEF ListsAreDisjoint
<1>5. \A l \in List : LastNode(l, Queue(l)) \in {l} \cup On(l)
  <2> SUFFICES ASSUME NEW l \in List PROVE LastNode(l, Queue(l)) \in {l} \cup On(l)
    OBVIOUS
  <2>1. IsChain(m_next, l, Queue(l)) /\ On(l) = Elements(Queue(l))
    BY QueueFacts
  <2> HIDE DEF Queue
  <2> QED  BY <2>1, ChainFacts
<1> QED  BY <1>1, <1>2, <1>3, <1>4, <1>5 DEF ListsAreDisjoint

(* The node an append makes the last.                                      *)
LEMMA LastOfAppend ==
  ASSUME NEW l, NEW s \in Seq(Event), NEW e \in Event
  PROVE  LastNode(l, Append(s, e)) = e
<1>1. Len(Append(s, e)) = Len(s) + 1 /\ Append(s, e)[Len(s) + 1] = e
  OBVIOUS
<1>2. Len(s) \in Nat
  OBVIOUS
<1>3. Len(s) + 1 # 0
  BY <1>2
<1> QED  BY <1>1, <1>3 DEF LastNode, NodeAt

(* An event is appended to the list of the next round.  While ErNewLoop()  *)
(* moves that list the event lands in both.                                *)
LEMMA AppendNext ==
  ASSUME TypeOK, ListsInv, NEW e \in Event, \A l \in List : e \notin On(l),
         m_next' = [m_next EXCEPT ![LastNode("m_deliver_next", Queue("m_deliver_next"))] = e],
         op'.pc # "append", op'.pc = "clear" <=> op.pc = "clear"
  PROVE  /\ ListsInv'
         /\ m_next' \in [Node -> Event \cup {NULL}]
         /\ Queue("m_deliver_next")' = Append(Queue("m_deliver_next"), e)
         /\ Queue("m_deliver_now")' = IF op.pc = "clear" THEN Append(Queue("m_deliver_now"), e)
                                                         ELSE Queue("m_deliver_now")
         /\ On("m_deliver_next")' = On("m_deliver_next") \cup {e}
         /\ On("m_deliver_now")' = IF op.pc = "clear" THEN On("m_deliver_now") \cup {e}
                                                      ELSE On("m_deliver_now")
         /\ On("m_kept")' = On("m_kept")
<1> DEFINE next == "m_deliver_next"
           now == "m_deliver_now"
           last == LastNode(next, Queue(next))
<1>0. next \in List /\ now \in List /\ "m_kept" \in List /\ List = {now, next, "m_kept"}
  BY DEF List
<1>1. m_next \in [Node -> Event \cup {NULL}]
  BY DEF TypeOK
<1>2. last \in {next} \cup On(next) /\ last \in Node /\ m_next[e] = NULL
  <2>1. last \in {next} \cup On(next) /\ m_next[e] = NULL
    BY <1>0, ListFacts
  <2> QED  BY <1>0, <2>1, ListFacts DEF Node
<1> HIDE DEF last
<1>3. m_next' \in [Node -> Event \cup {NULL}] /\ m_next' = [m_next EXCEPT ![last] = e]
  BY <1>1, <1>2 DEF last
<1>4. \A n \in Node : n # last => m_next'[n] = m_next[n]
  BY <1>1, <1>3
<1>5. ASSUME NEW l \in List, LastNode(l, Queue(l)) = last
      PROVE  /\ IsChain(m_next', l, Queue(l)') /\ Queue(l)' = Append(Queue(l), e)
             /\ On(l)' = On(l) \cup {e} /\ LastNode(l, Queue(l)') = e
  <2>1. IsChain(m_next, l, Queue(l)) /\ On(l) = Elements(Queue(l)) /\ Queue(l) \in Seq(Event)
    BY QueueFacts
  <2> DEFINE s == Queue(l)
  <2> HIDE DEF s
  <2>2. s \in Seq(Event) /\ e \notin Elements(s) /\ LastNode(l, s) = last /\ IsChain(m_next, l, s)
    BY <1>5, <2>1 DEF s
  <2>3. IsChain([m_next EXCEPT ![LastNode(l, s)] = e], l, Append(s, e))
    BY <1>1, <1>2, <2>2, ChainAppend
  <2>4. IsChain(m_next', l, Append(s, e))
    BY <1>3, <2>2, <2>3
  <2>5. /\ Queue(l)' = Append(s, e) /\ On(l)' = Elements(Append(s, e))
        /\ IsChain(m_next', l, Queue(l)')
    BY <2>4, QueueIs
  <2>6. Elements(Append(s, e)) = Elements(s) \cup {e} /\ LastNode(l, Append(s, e)) = e
    BY <2>2, ElementsOfAppend, LastOfAppend
  <2> QED  BY <2>1, <2>5, <2>6 DEF s
<1>6. ASSUME NEW l \in List, last \notin {l} \cup On(l)
      PROVE  Queue(l)' = Queue(l) /\ On(l)' = On(l) /\ IsChain(m_next', l, Queue(l)')
  <2>1. \A n \in {l} \cup On(l) : n \in Node /\ n # last
    BY <1>6, ListFacts DEF Node
  <2>2. \A n \in {l} \cup On(l) : m_next'[n] = m_next[n]
    BY <1>4, <2>1
  <2> QED  BY <2>2, FrameQueue
<1>7. /\ IsChain(m_next', next, Queue(next)') /\ Queue(next)' = Append(Queue(next), e)
      /\ On(next)' = On(next) \cup {e} /\ LastNode(next, Queue(next)') = e
  BY <1>0, <1>5 DEF last
<1>8. Queue("m_kept")' = Queue("m_kept") /\ On("m_kept")' = On("m_kept")
      /\ IsChain(m_next', "m_kept", Queue("m_kept")')
  <2>1. last \notin {"m_kept"} \cup On("m_kept")
    BY <1>0, <1>2, ListFacts
  <2> QED  BY <1>0, <1>6, <2>1
<1>9. CASE op.pc = "clear"
  <2>1. LastNode(now, Queue(now)) = last
    BY <1>9 DEF ListsInv, last
  <2>2. /\ IsChain(m_next', now, Queue(now)') /\ Queue(now)' = Append(Queue(now), e)
        /\ On(now)' = On(now) \cup {e} /\ LastNode(now, Queue(now)') = e
    BY <1>0, <1>5, <2>1
  <2> QED
    <3>1. ListsAreDisjoint'
      <4>1. ASSUME NEW x \in Event, \A l \in List : x \notin On(l)'
            PROVE  m_next'[x] = NULL
        <5>1. x \in Node /\ x # last /\ \A l \in List : x \notin On(l)
          BY <1>0, <1>2, <1>7, <1>8, <2>2, <4>1, ListFacts DEF Node
        <5> QED  BY <1>4, <5>1, ListFacts
      <4>2. On("m_kept")' \cap (On(now)' \cup On(next)') = {}
        BY <1>0, <1>7, <1>8, <2>2, ListFacts
      <4> QED  BY <1>9, <4>1, <4>2 DEF ListsAreDisjoint
    <3>2. Queue(next)' # <<>> /\ Queue(now)' # <<>>
      BY <1>0, <1>7, <2>2, QueueFacts
    <3>3. On(next)' \subseteq On(now)'
      BY <1>7, <1>9, <2>2 DEF ListsInv
    <3>4. ListsInv'
      BY <1>0, <1>7, <1>8, <2>2, <3>1, <3>2, <3>3 DEF ListsInv
    <3> QED  BY <1>3, <1>7, <1>8, <1>9, <2>2, <3>4
<1>10. CASE op.pc # "clear"
  <2>1. last \notin {now} \cup On(now)
    BY <1>0, <1>2, <1>10, ListFacts
  <2>2. Queue(now)' = Queue(now) /\ On(now)' = On(now) /\ IsChain(m_next', now, Queue(now)')
    BY <1>0, <1>6, <2>1
  <2>3. ListsAreDisjoint'
    <3>1. ASSUME NEW x \in Event, \A l \in List : x \notin On(l)'
          PROVE  m_next'[x] = NULL
      <4>1. x \in Node /\ x # last /\ \A l \in List : x \notin On(l)
        BY <1>0, <1>2, <1>7, <1>8, <2>2, <3>1, ListFacts DEF Node
      <4> QED  BY <1>4, <4>1, ListFacts
    <3>2. On("m_kept")' \cap (On(now)' \cup On(next)') = {} /\ On(now)' \cap On(next)' = {}
      BY <1>0, <1>7, <1>8, <1>10, <2>2, ListFacts
    <3> QED  BY <3>1, <3>2 DEF ListsAreDisjoint
  <2>4. ListsInv'
    BY <1>0, <1>7, <1>8, <1>10, <2>2, <2>3 DEF ListsInv
  <2> QED  BY <1>3, <1>7, <1>8, <1>10, <2>2, <2>4
<1> QED  BY <1>9, <1>10

(* The event a module keeps is appended to the list of kept events.        *)
LEMMA AppendKept ==
  ASSUME TypeOK, ListsInv, NEW e \in Event, \A l \in List : e \notin On(l),
         m_next' = [m_next EXCEPT ![LastNode("m_kept", Queue("m_kept"))] = e],
         op.pc \notin {"append", "clear"}, op'.pc \notin {"append", "clear"}
  PROVE  /\ ListsInv'
         /\ m_next' \in [Node -> Event \cup {NULL}]
         /\ On("m_kept")' = On("m_kept") \cup {e}
         /\ \A l \in List \ {"m_kept"} : Queue(l)' = Queue(l) /\ On(l)' = On(l)
<1> DEFINE k == "m_kept"
           s == Queue(k)
           last == LastNode(k, s)
<1>0. k \in List /\ List = {"m_deliver_now", "m_deliver_next", k}
  BY DEF List
<1>1. m_next \in [Node -> Event \cup {NULL}]
  BY DEF TypeOK
<1>2. last \in {k} \cup On(k) /\ last \in Node /\ m_next[e] = NULL
  <2>1. last \in {k} \cup On(k) /\ m_next[e] = NULL
    BY <1>0, ListFacts
  <2> QED  BY <1>0, <2>1, ListFacts DEF Node
<1>3. IsChain(m_next, k, s) /\ On(k) = Elements(s) /\ s \in Seq(Event)
  BY <1>0, QueueFacts
<1> HIDE DEF s
<1>4. m_next' = [m_next EXCEPT ![last] = e]
  BY DEF s
<1> HIDE DEF last
<1>5. m_next' \in [Node -> Event \cup {NULL}]
  BY <1>1, <1>2, <1>4
<1>6. IsChain(m_next', k, Append(s, e))
  <2>1. IsChain([m_next EXCEPT ![LastNode(k, s)] = e], k, Append(s, e))
    BY <1>0, <1>1, <1>2, <1>3, ChainAppend
  <2> QED  BY <1>4, <2>1 DEF last
<1>7. On(k)' = Elements(Append(s, e)) /\ IsChain(m_next', k, Queue(k)')
  BY <1>0, <1>6, QueueIs
<1>8. On(k)' = On(k) \cup {e}
  BY <1>3, <1>7, ElementsOfAppend
<1>9. \A n \in Node : n # last => m_next'[n] = m_next[n]
  BY <1>1, <1>4
<1>10. ASSUME NEW l \in List \ {k}
       PROVE  Queue(l)' = Queue(l) /\ On(l)' = On(l) /\ IsChain(m_next', l, Queue(l)')
  <2>1. last \notin {l} \cup On(l)
    BY <1>0, <1>2, <1>10, ListFacts
  <2>2. \A n \in {l} \cup On(l) : n \in Node /\ n # last
    BY <2>1, ListFacts DEF Node
  <2>3. \A n \in {l} \cup On(l) : m_next'[n] = m_next[n]
    BY <1>9, <2>2
  <2> QED  BY <2>3, FrameQueue
<1>11. ListsAreDisjoint'
  <2>1. ASSUME NEW x \in Event, \A l \in List : x \notin On(l)'
        PROVE  m_next'[x] = NULL
    <3>1. x \in Node /\ x # last /\ \A l \in List : x \notin On(l)
      BY <1>0, <1>2, <1>8, <1>10, <2>1, ListFacts DEF Node
    <3> QED  BY <1>9, <3>1, ListFacts
  <2>2. /\ On(k)' \cap (On("m_deliver_now")' \cup On("m_deliver_next")') = {}
        /\ On("m_deliver_now")' \cap On("m_deliver_next")' = {}
    <3>1. /\ On("m_deliver_now")' = On("m_deliver_now")
          /\ On("m_deliver_next")' = On("m_deliver_next")
          /\ e \notin On("m_deliver_now") /\ e \notin On("m_deliver_next")
      BY <1>0, <1>10
    <3> QED  BY <1>0, <1>8, <3>1, ListFacts
  <2> QED  BY <2>1, <2>2 DEF ListsAreDisjoint
<1>12. ListsInv'
  BY <1>0, <1>7, <1>10, <1>11 DEF ListsInv
<1> QED  BY <1>5, <1>8, <1>10, <1>12

(* An event is cut out of one of the lists.                                *)
LEMMA CutOut ==
  ASSUME TypeOK, ListsInv, NEW k \in List, NEW i \in 1..Len(Queue(k)),
         m_next' = [m_next EXCEPT ![NodeAt(k, Queue(k), i - 1)] = m_next[Queue(k)[i]],
                                  ![Queue(k)[i]] = NULL],
         op.pc \notin {"append", "clear"}, op'.pc \notin {"append", "clear"}
  PROVE  /\ ListsInv'
         /\ m_next' \in [Node -> Event \cup {NULL}]
         /\ Queue(k)' = Cut(Queue(k), i)
         /\ On(k)' = On(k) \ {Queue(k)[i]}
         /\ \A l \in List \ {k} : Queue(l)' = Queue(l) /\ On(l)' = On(l)
<1> DEFINE s == Queue(k)
           prev == NodeAt(k, s, i - 1)
           e == s[i]
<1>0. List = {"m_deliver_now", "m_deliver_next", "m_kept"}
  BY DEF List
<1>1. m_next \in [Node -> Event \cup {NULL}]
  BY DEF TypeOK
<1>2. IsChain(m_next, k, s) /\ On(k) = Elements(s) /\ s \in Seq(Event)
  BY QueueFacts
<1>3. m_next' = [m_next EXCEPT ![prev] = m_next[e], ![e] = NULL] /\ i \in 1..Len(s)
  OBVIOUS
<1>4. Queue(k) = s
  OBVIOUS
<1> HIDE DEF s
<1>5. IsChain(m_next', k, Cut(s, i))
  <2>1. IsChain([m_next EXCEPT ![NodeAt(k, s, i - 1)] = m_next[s[i]], ![s[i]] = NULL],
                k, Cut(s, i))
    <3>1. i \in 1..Len(s)
      BY <1>3
    <3>2. IsChain(m_next, k, s)
      BY <1>2
    <3> QED  BY <1>1, <3>1, <3>2, ChainCut
  <2> QED  BY <1>3, <2>1
<1>6. Queue(k)' = Cut(s, i) /\ On(k)' = Elements(Cut(s, i)) /\ IsChain(m_next', k, Queue(k)')
  BY <1>5, QueueIs
<1>7. \A j, h \in 1..Len(s) : s[j] = s[h] => j = h
  BY <1>2 DEF IsChain
<1>8. Elements(Cut(s, i)) = Elements(s) \ {e}
  BY <1>2, <1>3, <1>7, CutFacts
<1>9. e \in On(k) /\ e \in Event
  BY <1>2, <1>3 DEF Elements
<1>10. prev \in {k} \cup On(k)
  <2>1. i - 1 = 0 \/ i - 1 \in 1..Len(s)
    BY <1>2, <1>3
  <2> QED  BY <1>2, <2>1 DEF NodeAt, Elements
<1>11. e \in Node /\ prev \in Node
  BY <1>9, <1>10, ListFacts DEF Node
<1> HIDE DEF prev, e
<1>12. m_next' \in [Node -> Event \cup {NULL}]
  BY <1>1, <1>3, <1>11
<1>13. \A n \in Node : n # prev /\ n # e => m_next'[n] = m_next[n]
  BY <1>1, <1>3
<1>14. m_next'[e] = NULL
  BY <1>1, <1>3, <1>11
<1>15. ASSUME NEW l \in List \ {k}
       PROVE  Queue(l)' = Queue(l) /\ On(l)' = On(l) /\ IsChain(m_next', l, Queue(l)')
  <2>0. On(l) \cap On(k) = {}
    BY <1>0, <1>15, ListFacts
  <2>1. prev \notin {l} \cup On(l) /\ e \notin {l} \cup On(l)
    BY <1>9, <1>10, <1>15, <2>0, ListFacts
  <2>2. \A n \in {l} \cup On(l) : n \in Node /\ n # prev /\ n # e
    BY <2>1, ListFacts DEF Node
  <2>3. \A n \in {l} \cup On(l) : m_next'[n] = m_next[n]
    BY <1>13, <2>2
  <2> QED  BY <2>3, FrameQueue
<1>16. On(k)' = On(k) \ {e}
  BY <1>2, <1>6, <1>8
<1>17. ListsAreDisjoint'
  <2>1. ASSUME NEW x \in Event, \A l \in List : x \notin On(l)'
        PROVE  m_next'[x] = NULL
    <3>1. CASE x = e
      BY <1>14, <3>1
    <3>2. CASE x # e
      <4>1. x \in Node /\ \A l \in List : x \notin On(l)
        <5>1. x \notin On(k)
          BY <1>16, <2>1, <3>2
        <5> QED  BY <1>15, <2>1, <5>1 DEF Node
      <4>2. x # prev
        BY <1>10, <4>1, ListFacts
      <4> QED  BY <1>13, <3>2, <4>1, <4>2, ListFacts
    <3> QED  BY <3>1, <3>2
  <2>2. \A l \in List : On(l)' \subseteq On(l)
    BY <1>15, <1>16
  <2>3. /\ On("m_kept")' \cap (On("m_deliver_now")' \cup On("m_deliver_next")') = {}
        /\ On("m_deliver_now")' \cap On("m_deliver_next")' = {}
    <3>1. /\ On("m_kept")' \subseteq On("m_kept")
          /\ On("m_deliver_now")' \subseteq On("m_deliver_now")
          /\ On("m_deliver_next")' \subseteq On("m_deliver_next")
      BY <1>0, <2>2
    <3>2. On("m_kept") \cap (On("m_deliver_now") \cup On("m_deliver_next")) = {}
          /\ On("m_deliver_now") \cap On("m_deliver_next") = {}
      BY ListFacts
    <3> QED  BY <3>1, <3>2
  <2> QED  BY <2>1, <2>3 DEF ListsAreDisjoint
<1>18. ListsInv'
  BY <1>6, <1>15, <1>17 DEF ListsInv
<1> QED  BY <1>4, <1>6, <1>12, <1>15, <1>16, <1>18 DEF e

(* A concatenation ends where its second sequence does.                    *)
LEMMA LastOfConcat ==
  ASSUME NEW l, NEW m, NEW a \in Seq(Event), NEW b \in Seq(Event), b # <<>>
  PROVE  LastNode(l, a \o b) = LastNode(m, b) /\ a \o b # <<>>
<1>1. Len(a) \in Nat /\ Len(b) \in Nat
  OBVIOUS
<1>2. Len(b) # 0
  OBVIOUS
<1>3. Len(a \o b) = Len(a) + Len(b) /\ \A k \in 1..Len(b) : (a \o b)[Len(a) + k] = b[k]
  OBVIOUS
<1>4. Len(b) \in 1..Len(b) /\ Len(a) + Len(b) # 0
  BY <1>1, <1>2
<1>5. (a \o b)[Len(a \o b)] = b[Len(b)] /\ Len(a \o b) # 0
  BY <1>3, <1>4
<1>6. a \o b # <<>>
  BY <1>5
<1> QED  BY <1>2, <1>5, <1>6 DEF LastNode, NodeAt

(* ErNewLoop() appends the next round's events to this round's.            *)
LEMMA MoveNext ==
  ASSUME TypeOK, ListsInv, op.pc \notin {"append", "clear"}, op' = [pc |-> "clear"],
         m_next["m_deliver_next"] # NULL,
         m_next' = ErListAppend(m_next, "m_deliver_now", m_next["m_deliver_next"])
  PROVE  /\ ListsInv'
         /\ m_next' \in [Node -> Event \cup {NULL}]
         /\ Queue("m_deliver_now")' = Queue("m_deliver_now") \o Queue("m_deliver_next")
         /\ On("m_deliver_now")' = On("m_deliver_now") \cup On("m_deliver_next")
         /\ \A l \in {"m_deliver_next", "m_kept"} : On(l)' = On(l)
<1> DEFINE next == "m_deliver_next"
           now == "m_deliver_now"
           a == Queue(now)
           b == Queue(next)
           last == LastNode(now, a)
<1>0. /\ List = {now, next, "m_kept"}
      /\ next \in List /\ now \in List /\ "m_kept" \in List /\ next \in List \ {now}
  BY DEF List
<1>1. m_next \in [Node -> Event \cup {NULL}]
  BY DEF TypeOK
<1>2. /\ IsChain(m_next, now, a) /\ On(now) = Elements(a) /\ a \in Seq(Event)
      /\ IsChain(m_next, next, b) /\ On(next) = Elements(b) /\ b \in Seq(Event)
  BY <1>0, QueueFacts
<1>3. On(now) \cap On(next) = {} /\ last \in {now} \cup On(now)
  BY <1>0, ListFacts
<1>4. Queue(now) = a /\ Queue(next) = b
  OBVIOUS
<1> HIDE DEF a, b
<1>5. b # <<>> /\ m_next[next] = b[1] /\ b[1] \in Elements(b)
  <2>1. m_next[next] = IF b = <<>> THEN NULL ELSE b[1]
    BY <1>0, <1>2, ChainFacts
  <2>2. b # <<>>
    BY <2>1
  <2>3. 1 \in DOMAIN b
    BY <1>2, <2>2
  <2> QED  BY <2>1, <2>2, <2>3 DEF Elements
<1>6. m_next' = [m_next EXCEPT ![last] = m_next[next]]
  <2>1. m_next[next] \notin Elements(a)
    BY <1>2, <1>3, <1>5
  <2> QED  BY <1>0, <1>2, <2>1, AppendIs
<1>7. IsChain(m_next', now, a \o b) /\ IsChain(m_next', next, b)
  <2>1. Elements(a) \cap Elements(b) = {}
    BY <1>2, <1>3
  <2>2. /\ IsChain([m_next EXCEPT ![LastNode(now, a)] = m_next[next]], now, a \o b)
        /\ IsChain([m_next EXCEPT ![LastNode(now, a)] = m_next[next]], next, b)
    BY <1>0, <1>1, <1>2, <1>5, <2>1, ChainConcat
  <2> QED  BY <1>6, <2>2
<1>8. /\ Queue(now)' = a \o b /\ On(now)' = Elements(a \o b)
      /\ IsChain(m_next', now, Queue(now)')
  BY <1>0, <1>7, QueueIs
<1>9. Queue(next)' = b /\ On(next)' = Elements(b) /\ IsChain(m_next', next, Queue(next)')
  BY <1>0, <1>7, QueueIs
<1>10. Elements(a \o b) = Elements(a) \cup Elements(b)
  BY <1>2, ElementsOfConcat
<1>11. last \in Node /\ m_next[next] \in Event
  BY <1>0, <1>2, <1>3, <1>5, ListFacts DEF Node
<1> HIDE DEF last
<1>12. /\ m_next' \in [Node -> Event \cup {NULL}]
       /\ \A n \in Node : n # last => m_next'[n] = m_next[n]
  BY <1>1, <1>6, <1>11
<1>13. On("m_kept")' = On("m_kept") /\ IsChain(m_next', "m_kept", Queue("m_kept")')
  <2>1. last \notin {"m_kept"} \cup On("m_kept")
    BY <1>0, <1>3, ListFacts
  <2>2. \A n \in {"m_kept"} \cup On("m_kept") : n \in Node /\ n # last
    BY <1>0, <2>1, ListFacts DEF Node
  <2>3. \A n \in {"m_kept"} \cup On("m_kept") : m_next'[n] = m_next[n]
    BY <1>12, <2>2
  <2> QED  BY <1>0, <2>3, FrameQueue
<1>14. ListsAreDisjoint'
  <2>1. ASSUME NEW x \in Event, \A l \in List : x \notin On(l)'
        PROVE  m_next'[x] = NULL
    <3>1. x \in Node /\ \A l \in List : x \notin On(l)
      BY <1>0, <1>2, <1>8, <1>9, <1>10, <1>13, <2>1 DEF Node
    <3>2. x # last
      BY <1>0, <1>3, <3>1, ListFacts
    <3> QED  BY <1>12, <3>1, <3>2, ListFacts
  <2>2. On("m_kept")' \cap (On(now)' \cup On(next)') = {}
    BY <1>2, <1>8, <1>9, <1>10, <1>13, ListFacts
  <2>3. op'.pc = "clear"
    OBVIOUS
  <2> QED  BY <2>1, <2>2, <2>3 DEF ListsAreDisjoint
<1>15. ListsInv'
  <2>1. Queue(next)' # <<>> /\ Queue(now)' # <<>>
        /\ LastNode(next, Queue(next)') = LastNode(now, Queue(now)')
    <3>1. LastNode(now, a \o b) = LastNode(next, b) /\ a \o b # <<>>
      <4>1. a \in Seq(Event) /\ b \in Seq(Event) /\ b # <<>>
        BY <1>2, <1>5
      <4> QED  BY <4>1, LastOfConcat
    <3>2. Queue(next)' = b /\ Queue(now)' = a \o b /\ b # <<>>
      BY <1>5, <1>8, <1>9
    <3> HIDE DEF Queue
    <3> QED  BY <3>1, <3>2
  <2>2. On(next)' \subseteq On(now)'
    BY <1>8, <1>9, <1>10
  <2>3. op'.pc = "clear"
    OBVIOUS
  <2>4. \A l \in List : IsChain(m_next', l, Queue(l)')
    BY <1>0, <1>8, <1>9, <1>13
  <2> QED  BY <1>14, <2>1, <2>2, <2>3, <2>4 DEF ListsInv
<1> QED  BY <1>2, <1>4, <1>8, <1>9, <1>10, <1>12, <1>13, <1>15

(* Then it clears the head of the next round's list.                       *)
LEMMA ClearNext ==
  ASSUME TypeOK, ListsInv, op.pc = "clear", op'.pc \notin {"append", "clear"},
         m_next' = [m_next EXCEPT !["m_deliver_next"] = NULL]
  PROVE  /\ ListsInv'
         /\ m_next' \in [Node -> Event \cup {NULL}]
         /\ Queue("m_deliver_next")' = <<>>
         /\ On("m_deliver_next")' = {}
         /\ On("m_deliver_next") \subseteq On("m_deliver_now")
         /\ \A l \in List \ {"m_deliver_next"} : Queue(l)' = Queue(l) /\ On(l)' = On(l)
<1> DEFINE next == "m_deliver_next"
           now == "m_deliver_now"
<1>0. List = {now, next, "m_kept"} /\ next \in List /\ now \in List /\ "m_kept" \in List
  BY DEF List
<1>1. m_next \in [Node -> Event \cup {NULL}] /\ next \in Node /\ next \notin Event
  BY <1>0, ListFacts DEF TypeOK
<1>2. /\ m_next' \in [Node -> Event \cup {NULL}] /\ m_next'[next] = NULL
      /\ \A n \in Node : n # next => m_next'[n] = m_next[n]
  BY <1>1
<1>3. IsChain(m_next', next, <<>>)
  <2>1. \A k \in 0..Len(<<>>) : k = 0 /\ k = Len(<<>>)
    OBVIOUS
  <2>2. <<>> \in Seq(Event) /\ \A k \in 1..Len(<<>>) : FALSE
    OBVIOUS
  <2> QED  BY <1>2, <2>1, <2>2 DEF IsChain, NodeAt
<1>4. Queue(next)' = <<>> /\ On(next)' = {} /\ IsChain(m_next', next, Queue(next)')
  <2>1. Elements(<<>>) = {}
    BY DEF Elements
  <2> QED  BY <1>0, <1>3, <2>1, QueueIs
<1>5. ASSUME NEW l \in List \ {next}
      PROVE  Queue(l)' = Queue(l) /\ On(l)' = On(l) /\ IsChain(m_next', l, Queue(l)')
  <2>1. \A n \in {l} \cup On(l) : n \in Node /\ n # next
    BY <1>0, <1>5, ListFacts DEF Node
  <2>2. \A n \in {l} \cup On(l) : m_next'[n] = m_next[n]
    BY <1>2, <2>1
  <2> QED  BY <2>2, FrameQueue
<1>6. On(next) \subseteq On(now)
  BY DEF ListsInv
<1>7. ListsAreDisjoint'
  <2>1. ASSUME NEW x \in Event, \A l \in List : x \notin On(l)'
        PROVE  m_next'[x] = NULL
    <3>1. x \in Node /\ x # next /\ \A l \in List : x \notin On(l)
      BY <1>0, <1>1, <1>5, <1>6, <2>1 DEF Node
    <3> QED  BY <1>2, <3>1, ListFacts
  <2>2. On("m_kept")' \cap (On(now)' \cup On(next)') = {} /\ On(now)' \cap On(next)' = {}
    BY <1>0, <1>4, <1>5, ListFacts
  <2> QED  BY <2>1, <2>2 DEF ListsAreDisjoint
<1>8. ListsInv'
  BY <1>4, <1>5, <1>7 DEF ListsInv
<1> QED  BY <1>2, <1>4, <1>5, <1>6, <1>8
-----------------------------------------------------------------------------
(* The shape of a call, and of a dispatch, at each of its points.          *)
LEMMA Shapes ==
  ASSUME TypeOK
  PROVE  /\ op.pc \in {"none", "clear", "walk", "sub", "test", "append"}
         /\ op.pc = "none" => op = None
         /\ op.pc \in {"walk", "sub", "test"} =>
              op.e \in Event /\ op = [pc |-> op.pc, e |-> op.e]
         /\ op.pc = "append" => op.e \in Event /\ op.last \in Node
         /\ disp.pc \in {"none", "loop", "handler"}
         /\ disp.pc = "none" => disp = None
         /\ disp.pc = "loop" => disp.e \in Event /\ disp.i \in Nat
         /\ disp.pc = "handler" => disp.e \in Event /\ disp.m \in Module
         /\ disp.pc # "none" => Position \in Nat
<1>1. /\ op.pc \in {"none", "clear", "walk", "sub", "test", "append"}
      /\ op.pc = "none" => op = None
      /\ op.pc \in {"walk", "sub", "test"} =>
           op.e \in Event /\ op = [pc |-> op.pc, e |-> op.e]
      /\ op.pc = "append" => op.e \in Event /\ op.last \in Node
  BY DEF TypeOK, None
<1>2. /\ disp.pc \in {"none", "loop", "handler"}
      /\ disp.pc = "none" => disp = None
      /\ disp.pc = "loop" => disp.e \in Event /\ disp.i \in Nat
      /\ disp.pc = "handler" => disp.e \in Event /\ disp.m \in Module
  BY DEF TypeOK, None
<1>3. disp.pc # "none" => Position \in Nat
  BY <1>2, ModulesAssumption DEF Position
<1> QED  BY <1>1, <1>2, <1>3

(* An event to which nothing happens keeps its invariant, also when more   *)
(* modules have had it.                                                    *)
LEMMA EventFrame ==
  ASSUME NEW e \in Event, EventInv(e),
         Waiting(e)' <=> Waiting(e),
         BeingSent(e)' <=> BeingSent(e),
         Dispatched(e)' <=> Dispatched(e),
         Returning(e)' <=> Returning(e),
         Tested(e)' <=> Tested(e),
         e \in On("m_kept")' <=> e \in On("m_kept"),
         Keepers(e)' = Keepers(e),
         m_reference_count'[e] = m_reference_count[e],
         e \in inFlight' <=> e \in inFlight,
         Dispatched(e) => Position \in Nat /\ Position' \in Nat /\ Position <= Position'
  PROVE  EventInv(e)'
<1>1. Counted(e)'
  <2>1. InRouter(e)' <=> InRouter(e)
    BY DEF InRouter
  <2> QED  BY <2>1 DEF EventInv, Counted, One
<1>2. OneWay(e)' /\ Untouched(e)' /\ FlightInv(e)'
  BY DEF EventInv, OneWay, Untouched, FlightInv
<1>3. KeptInv(e)'
  <2>1. \A m \in Keepers(e) : m_module_idx[m] \in Nat
    BY ModulesAssumption DEF Keepers
  <2>2. ASSUME Dispatched(e)', NEW m \in Keepers(e)
        PROVE  m_module_idx[m] < Position'
    <3>1. m_module_idx[m] < Position /\ Position <= Position'
          /\ Position \in Nat /\ Position' \in Nat
      BY <2>2 DEF EventInv, KeptInv
    <3> HIDE DEF Position
    <3> QED  BY <2>1, <2>2, <3>1
  <2> QED  BY <2>2 DEF EventInv, KeptInv
<1> QED  BY <1>1, <1>2, <1>3 DEF EventInv

(* A step that writes no pointer leaves the lists as they are.             *)
LEMMA QuietLists ==
  ASSUME ListsInv, UNCHANGED m_next, op'.pc = "clear" <=> op.pc = "clear",
         op'.pc = "append" => op'.last = LastNode("m_deliver_next", Queue("m_deliver_next"))
  PROVE  /\ ListsInv'
         /\ \A e : (Waiting(e)' <=> Waiting(e)) /\ (e \in On("m_kept")' <=> e \in On("m_kept"))
<1>1. \A l : Queue(l)' = Queue(l) /\ On(l)' = On(l)
  BY SameLists
<1>2. \A l \in List : IsChain(m_next', l, Queue(l)')
  BY <1>1 DEF ListsInv
<1>3. ListsAreDisjoint'
  BY <1>1 DEF ListsInv, ListsAreDisjoint
<1>4. ListsInv'
  BY <1>1, <1>2, <1>3 DEF ListsInv
<1>5. ASSUME NEW e
      PROVE  (Waiting(e)' <=> Waiting(e)) /\ (e \in On("m_kept")' <=> e \in On("m_kept"))
  BY <1>1 DEF Waiting
<1> QED  BY <1>4, <1>5

(* When a step changes neither lists nor counts nor what the router and    *)
(* the modules have in their hands, every event is where it was.           *)
LEMMA QuietEvents ==
  ASSUME IInv, UNCHANGED <<m_next, m_reference_count, kept, inFlight>>,
         op'.pc = "clear" <=> op.pc = "clear",
         op'.pc = "append" => op'.last = LastNode("m_deliver_next", Queue("m_deliver_next")),
         \A e \in Event : /\ BeingSent(e)' <=> BeingSent(e)
                          /\ Returning(e)' <=> Returning(e)
                          /\ Tested(e)' <=> Tested(e)
                          /\ Dispatched(e)' <=> Dispatched(e)
                          /\ Dispatched(e) =>
                               Position \in Nat /\ Position' \in Nat /\ Position <= Position'
  PROVE  ListsInv' /\ \A e \in Event : EventInv(e)'
<1>1. /\ ListsInv'
      /\ \A e : (Waiting(e)' <=> Waiting(e)) /\ (e \in On("m_kept")' <=> e \in On("m_kept"))
  BY QuietLists DEF IInv
<1>2. ASSUME NEW e \in Event
      PROVE  EventInv(e)'
  <2>1. Keepers(e)' = Keepers(e)
    BY DEF Keepers
  <2>2. EventInv(e)
    BY DEF IInv
  <2> QED  BY <1>1, <2>1, <2>2, EventFrame
<1> QED  BY <1>1, <1>2
-----------------------------------------------------------------------------
(* A module never has the bit of a type that it sends.                     *)
LEMMA SenderUnsubscribed ==
  ASSUME NobodySubscribesToOwn, BitsInv, NEW e \in Event
  PROVE  ~Subscribed(m_sending_module[e], e)
<1> DEFINE m == m_sending_module[e]
           ty == m_type[e]
<1>1. m \in Module /\ ty \in RoutableType /\ <<m, ty>> \notin MaySubscribe
  BY EventsAssumption DEF NobodySubscribesToOwn
<1> HIDE DEF m, ty
<1>2. ASSUME GetBitRef(ty) \in m_subscriptions[m]
      PROVE  FALSE
  <2>1. PICK t \in RoutableType : <<m, t>> \in MaySubscribe /\ GetBitRef(t) = GetBitRef(ty)
    BY <1>1, <1>2 DEF BitsInv
  <2>2. t = ty
    BY <1>1, <2>1, BitRefsDiffer
  <2> QED  BY <1>1, <2>1, <2>2
<1> QED  BY <1>2 DEF Subscribed, IsSet, m, ty

(* What is known of an event whose count is 0 and which is not just being  *)
(* returned.                                                               *)
LEMMA IdleFacts ==
  ASSUME IInv, NEW e \in Event, m_reference_count[e] = 0, ~Tested(e)
  PROVE  /\ e \notin inFlight /\ \A l \in List : e \notin On(l)
         /\ ~Waiting(e) /\ ~BeingSent(e) /\ ~Dispatched(e) /\ ~Returning(e)
         /\ Keepers(e) = {} /\ m_next[e] = NULL
<1>1. EventInv(e) /\ IsFiniteSet(Keepers(e))
  BY DEF IInv, EventInv, KeptInv
<1>2. Cardinality(Keepers(e)) \in Nat
  BY <1>1, FS_CardinalityType
<1>3. /\ 0 = One(InRouter(e)) + Cardinality(Keepers(e)) + One(Returning(e))
      /\ One(InRouter(e)) \in 0..1 /\ One(Returning(e)) \in 0..1
  BY <1>1 DEF EventInv, Counted, One
<1>4. One(InRouter(e)) = 0 /\ Cardinality(Keepers(e)) = 0 /\ One(Returning(e)) = 0
  BY <1>2, <1>3
<1>5. ~InRouter(e) /\ ~Returning(e)
  BY <1>4 DEF One
<1>6. Keepers(e) = {}
  BY <1>1, <1>4, FS_EmptySet
<1>7. e \notin inFlight
  BY <1>1 DEF EventInv, FlightInv
<1>8. \A l \in List : e \notin On(l)
  <2>1. e \notin On("m_kept")
    BY <1>1, <1>7 DEF EventInv, KeptInv
  <2> QED  BY <1>5, <2>1 DEF InRouter, Waiting, List
<1>9. m_next[e] = NULL
  BY <1>8, ListFacts DEF IInv
<1> QED  BY <1>5, <1>6, <1>7, <1>8, <1>9 DEF InRouter

(* One count goes up or down by one; the others stay.                      *)
LEMMA CountUp ==
  ASSUME TypeOK, NEW e \in Event, NEW n \in {-1, 1}, Add(e, n),
         m_reference_count[e] > 0 \/ n = 1
  PROVE  /\ m_reference_count' \in [Event -> Nat]
         /\ m_reference_count'[e] = m_reference_count[e] + n
         /\ \A x \in Event \ {e} : m_reference_count'[x] = m_reference_count[x]
BY DEF TypeOK, Add

(* The actions that touch neither lists nor events.                        *)
LEMMA OtherCalls ==
  ASSUME IInv,
         ErInit \/ \E m \in Module, ty \in RoutableType : ErSubscribe(m, ty) \/ ErUnsubscribe(m, ty)
  PROVE  IInv'
<1>1. UNCHANGED <<m_next, m_reference_count, kept, inFlight, op, disp, failed>>
  BY DEF ErInit, ErSubscribe, ErUnsubscribe
<1>2. TypeOK'
  <2>1. m_subscriptions \in [Module -> SUBSET BitRef]
    BY DEF IInv, TypeOK
  <2>2. m_subscriptions' \in [Module -> SUBSET BitRef]
    <3>1. CASE ErInit
      BY <2>1, <3>1 DEF ErInit, ClearArray
    <3>2. ASSUME NEW m \in Module, NEW ty \in RoutableType, ErSubscribe(m, ty)
          PROVE  m_subscriptions' \in [Module -> SUBSET BitRef]
      <4>1. ty \in Nat
        BY TypesAssumption DEF RoutableType, ER_EVENT_TYPE__FIRST, ER_EVENT_TYPE__LAST
      <4>2. GetBitRef(ty) \in BitRef
        BY <4>1, BitRefTyped
      <4> QED  BY <2>1, <3>2, <4>2 DEF ErSubscribe, SetBit
    <3>3. ASSUME NEW m \in Module, NEW ty \in RoutableType, ErUnsubscribe(m, ty)
          PROVE  m_subscriptions' \in [Module -> SUBSET BitRef]
      BY <2>1, <3>3 DEF ErUnsubscribe, ClearBit
    <3> QED  BY <3>1, <3>2, <3>3
  <2>3. m_initialized' \in BOOLEAN
    BY DEF IInv, TypeOK, ErInit, ErSubscribe, ErUnsubscribe
  <2> QED  BY <1>1, <2>2, <2>3 DEF IInv, TypeOK
<1>3. BitsInv'
  <2>1. CASE ErInit
    BY <2>1 DEF IInv, TypeOK, BitsInv, ErInit, ClearArray
  <2>2. ASSUME NEW m \in Module, NEW ty \in RoutableType, ErSubscribe(m, ty)
        PROVE  BitsInv'
    BY <2>2 DEF IInv, TypeOK, BitsInv, ErSubscribe, SetBit
  <2>3. ASSUME NEW m \in Module, NEW ty \in RoutableType, ErUnsubscribe(m, ty)
        PROVE  BitsInv'
    BY <2>3 DEF IInv, TypeOK, BitsInv, ErUnsubscribe, ClearBit
  <2> QED  BY <2>1, <2>2, <2>3
<1>4. \A e \in Event : /\ BeingSent(e)' <=> BeingSent(e)
                       /\ Returning(e)' <=> Returning(e)
                       /\ Tested(e)' <=> Tested(e)
                       /\ Dispatched(e)' <=> Dispatched(e)
                       /\ Dispatched(e) =>
                            Position \in Nat /\ Position' \in Nat /\ Position <= Position'
  <2>1. Position' = Position
    BY <1>1 DEF Position
  <2>2. disp.pc # "none" => Position \in Nat
    BY Shapes DEF IInv
  <2> QED  BY <1>1, <2>1, <2>2 DEF BeingSent, Returning, Tested, Dispatched
<1>5. op.pc = "append" => op.last = LastNode("m_deliver_next", Queue("m_deliver_next"))
  BY DEF IInv, ListsInv
<1>6. ListsInv' /\ \A e \in Event : EventInv(e)'
  BY <1>1, <1>4, <1>5, QuietEvents
<1> QED  BY <1>1, <1>2, <1>3, <1>6 DEF IInv

(* A send by the loop begins.                                              *)
LEMMA SendBegins ==
  ASSUME IInv, NEW e \in Event, ErSendEx(e)
  PROVE  IInv'
<1>1. /\ op.pc = "none" /\ m_reference_count[e] = 0 /\ ~Tested(e)
      /\ op' = [pc |-> "walk", e |-> e] /\ Add(e, 1) /\ inFlight' = inFlight \cup {e}
      /\ failed' = ~Sendable(e)
      /\ UNCHANGED <<m_initialized, m_next, m_subscriptions, disp, kept>>
  BY DEF ErSendEx, InClient, ErEventIsInFlight, Tested
<1>2. /\ e \notin inFlight /\ ~Waiting(e) /\ ~BeingSent(e) /\ ~Dispatched(e)
      /\ ~Returning(e) /\ Keepers(e) = {} /\ m_next[e] = NULL /\ e \notin On("m_kept")
  BY <1>1, IdleFacts DEF List
<1>3. failed' \in BOOLEAN
  BY <1>1
<1>4. /\ m_reference_count' \in [Event -> Nat] /\ m_reference_count'[e] = 1
      /\ \A x \in Event \ {e} : m_reference_count'[x] = m_reference_count[x]
  BY <1>1, CountUp DEF IInv
<1>5. TypeOK' /\ BitsInv'
  BY <1>1, <1>3, <1>4 DEF IInv, TypeOK, BitsInv
<1>6. /\ ListsInv'
      /\ \A x : (Waiting(x)' <=> Waiting(x)) /\ (x \in On("m_kept")' <=> x \in On("m_kept"))
  BY <1>1, QuietLists DEF IInv
<1>7. Position' = Position /\ (disp.pc # "none" => Position \in Nat)
  BY <1>1, Shapes DEF IInv, Position
<1>8. /\ \A x : Keepers(x)' = Keepers(x) /\ (Dispatched(x)' <=> Dispatched(x))
      /\ \A x : BeingSent(x)' <=> x = e
      /\ \A x : ~BeingSent(x) /\ ~Returning(x) /\ ~Tested(x) /\ ~Returning(x)' /\ ~Tested(x)'
  BY <1>1 DEF Keepers, Dispatched, BeingSent, Returning, Tested
<1>9. ASSUME NEW x \in Event \ {e}
      PROVE  EventInv(x)'
  <2>1. EventInv(x)
    BY DEF IInv
  <2>2. Dispatched(x) => Position \in Nat /\ Position' \in Nat /\ Position <= Position'
    BY <1>7 DEF Dispatched
  <2> QED  BY <1>1, <1>4, <1>6, <1>8, <2>1, <2>2, EventFrame
<1>10. EventInv(e)'
  <2>1. ~Waiting(e)' /\ BeingSent(e)' /\ ~Dispatched(e)' /\ ~Returning(e)' /\ ~Tested(e)'
        /\ Keepers(e)' = {} /\ e \notin On("m_kept")' /\ e \in inFlight'
    BY <1>1, <1>2, <1>6, <1>8
  <2>2. Cardinality({}) = 0 /\ IsFiniteSet({})
    BY FS_EmptySet
  <2>3. Counted(e)'
    BY <1>4, <2>1, <2>2 DEF Counted, InRouter, One
  <2>4. OneWay(e)' /\ Untouched(e)' /\ FlightInv(e)'
    BY <1>4, <2>1 DEF OneWay, Untouched, FlightInv
  <2>5. KeptInv(e)'
    BY <2>1, <2>2 DEF KeptInv
  <2> QED  BY <2>3, <2>4, <2>5 DEF EventInv
<1> QED  BY <1>3, <1>5, <1>6, <1>9, <1>10 DEF IInv

(* The loop has found the end of the list.                                 *)
LEMMA EndFound ==
  ASSUME IInv, FindEnd
  PROVE  IInv'
<1>1. /\ op.pc = "walk" /\ op.e \in Event
      /\ UNCHANGED <<m_initialized, m_reference_count, m_next, m_subscriptions, disp,
                     kept, failed, inFlight>>
  BY Shapes DEF IInv, FindEnd, At
<1>0. op.e \notin Members(m_next, "m_deliver_next")
  <2>1. OneWay(op.e) /\ BeingSent(op.e)
    BY <1>1 DEF IInv, EventInv, BeingSent
  <2> QED  BY <2>1 DEF OneWay, Waiting, On
<1> DEFINE s == Queue("m_deliver_next")
           last == LastNode("m_deliver_next", s)
<1>2. op' = [pc |-> "append", e |-> op.e, last |-> last]
  <2>1. s \in Seq(Event)
    BY QueueFacts DEF IInv, List
  <2>2. op' = [pc |-> "append", e |-> op.e,
               last |-> IF s = <<>> THEN "m_deliver_next" ELSE s[Len(s)]]
    BY <1>0 DEF FindEnd, Queue
  <2> HIDE DEF s
  <2>3. (IF s = <<>> THEN "m_deliver_next" ELSE s[Len(s)]) = last
    BY <2>1 DEF LastNode, NodeAt
  <2> QED  BY <2>2, <2>3
<1>3. last \in Node
  BY ListFacts DEF IInv, List, Node
<1> HIDE DEF last
<1>4. TypeOK' /\ BitsInv'
  BY <1>1, <1>2, <1>3 DEF IInv, TypeOK, BitsInv
<1>5. Position' = Position /\ (disp.pc # "none" => Position \in Nat)
  BY <1>1, Shapes DEF IInv, Position
<1>6. \A x \in Event : /\ BeingSent(x)' <=> BeingSent(x)
                       /\ Returning(x)' <=> Returning(x)
                       /\ Tested(x)' <=> Tested(x)
                       /\ Dispatched(x)' <=> Dispatched(x)
                       /\ Dispatched(x) =>
                            Position \in Nat /\ Position' \in Nat /\ Position <= Position'
  BY <1>1, <1>2, <1>5 DEF BeingSent, Returning, Tested, Dispatched
<1>7. ListsInv' /\ \A x \in Event : EventInv(x)'
  BY <1>1, <1>2, <1>6, QuietEvents DEF last
<1> QED  BY <1>4, <1>7 DEF IInv

(* ErDeinit() finds the lists empty: nothing is in flight.                 *)
LEMMA Deinitialized ==
  ASSUME IInv, ErDeinit
  PROVE  IInv' /\ m_next' = m_next
<1>1. /\ inFlight = {} /\ m_initialized' = FALSE
      /\ m_next' = [n \in Node |-> IF n \in List THEN NULL ELSE m_next[n]]
      /\ UNCHANGED <<m_reference_count, m_subscriptions, op, disp, kept, failed, inFlight>>
  BY DEF ErDeinit
<1>2. \A e \in Event, l \in List : e \notin On(l)
  <2>1. ASSUME NEW e \in Event
        PROVE  m_reference_count[e] = 0 /\ ~Tested(e)
    BY <1>1 DEF IInv, TypeOK, EventInv, FlightInv
  <2> QED  BY <2>1, IdleFacts
<1>3. \A l \in List : m_next[l] = NULL
  <2>1. ASSUME NEW l \in List
        PROVE  m_next[l] = NULL
    <3>1. LastNode(l, Queue(l)) = l
      BY <1>2, ListFacts DEF IInv
    <3>2. m_next[LastNode(l, Queue(l))] = NULL
      BY QueueFacts, ChainFacts DEF IInv
    <3> QED  BY <3>1, <3>2
  <2> QED  BY <2>1
<1>4. m_next' = m_next
  BY <1>1, <1>3 DEF IInv, TypeOK
<1>5. TypeOK' /\ BitsInv'
  BY <1>1, <1>4 DEF IInv, TypeOK, BitsInv
<1>6. Position' = Position /\ (disp.pc # "none" => Position \in Nat)
  BY <1>1, Shapes DEF IInv, Position
<1>7. \A e \in Event : /\ BeingSent(e)' <=> BeingSent(e)
                       /\ Returning(e)' <=> Returning(e)
                       /\ Tested(e)' <=> Tested(e)
                       /\ Dispatched(e)' <=> Dispatched(e)
                       /\ Dispatched(e) =>
                            Position \in Nat /\ Position' \in Nat /\ Position <= Position'
  BY <1>1, <1>6 DEF BeingSent, Returning, Tested, Dispatched
<1>8. op.pc = "append" => op.last = LastNode("m_deliver_next", Queue("m_deliver_next"))
  BY DEF IInv, ListsInv
<1>9. ListsInv' /\ \A e \in Event : EventInv(e)'
  BY <1>1, <1>4, <1>7, <1>8, QuietEvents
<1> QED  BY <1>4, <1>5, <1>9 DEF IInv

(* The loop's send ends: the event waits where it was being sent.          *)
LEMMA Appended ==
  ASSUME IInv, AppendAtEnd
  PROVE  /\ IInv' /\ op.e \in Event /\ op'.pc = "none"
         /\ Queue("m_deliver_next")' = Append(Queue("m_deliver_next"), op.e)
         /\ Queue("m_deliver_now")' = Queue("m_deliver_now")
<1> DEFINE s == Queue("m_deliver_next")
<1>0. PICK e \in Event : op.pc = "append" /\ e = op.e
  BY Shapes DEF IInv, AppendAtEnd, At
<1>1. /\ op.pc = "append" /\ e \in Event /\ op' = None
      /\ m_next' = [m_next EXCEPT ![LastNode("m_deliver_next", s)] = e]
      /\ UNCHANGED <<m_initialized, m_reference_count, m_subscriptions, disp, kept,
                     failed, inFlight>>
  BY <1>0 DEF IInv, ListsInv, AppendAtEnd, At
<1>2. BeingSent(e) /\ EventInv(e)
  BY <1>0 DEF BeingSent, IInv
<1>3. /\ ~Waiting(e) /\ ~Dispatched(e) /\ Keepers(e) = {} /\ e \notin On("m_kept")
      /\ ~Returning(e) /\ ~Tested(e) /\ IsFiniteSet(Keepers(e))
  BY <1>2 DEF EventInv, OneWay, Untouched, KeptInv
<1>4. \A l \in List : e \notin On(l)
  BY <1>3 DEF Waiting, List
<1>5. /\ ListsInv' /\ m_next' \in [Node -> Event \cup {NULL}]
      /\ Queue("m_deliver_next")' = Append(Queue("m_deliver_next"), e)
      /\ Queue("m_deliver_now")' = Queue("m_deliver_now")
      /\ On("m_deliver_next")' = On("m_deliver_next") \cup {e}
      /\ On("m_deliver_now")' = On("m_deliver_now")
      /\ On("m_kept")' = On("m_kept")
  <2>1. op.pc # "clear" /\ op'.pc # "append" /\ op'.pc # "clear"
    BY <1>1 DEF None
  <2> QED  BY <1>1, <1>4, <2>1, AppendNext DEF IInv
<1>6. TypeOK' /\ BitsInv'
  BY <1>1, <1>5 DEF IInv, TypeOK, BitsInv
<1>7. Position' = Position /\ (disp.pc # "none" => Position \in Nat)
  BY <1>1, Shapes DEF IInv, Position
<1>8. \A x : /\ Waiting(x)' <=> Waiting(x) \/ x = e
             /\ x \in On("m_kept")' <=> x \in On("m_kept")
             /\ Keepers(x)' = Keepers(x) /\ (Dispatched(x)' <=> Dispatched(x))
             /\ BeingSent(x) <=> x = e
             /\ ~BeingSent(x)'
             /\ ~Returning(x) /\ ~Tested(x) /\ ~Returning(x)' /\ ~Tested(x)'
  BY <1>0, <1>1, <1>5 DEF Waiting, Keepers, Dispatched, BeingSent, Returning, Tested, None
<1>9. ASSUME NEW x \in Event \ {e}
      PROVE  EventInv(x)'
  <2>1. EventInv(x)
    BY DEF IInv
  <2>2. Dispatched(x) => Position \in Nat /\ Position' \in Nat /\ Position <= Position'
    BY <1>7 DEF Dispatched
  <2> QED  BY <1>1, <1>8, <2>1, <2>2, EventFrame
<1>10. EventInv(e)'
  <2>1. Waiting(e)' /\ ~BeingSent(e)' /\ ~Dispatched(e)' /\ ~Returning(e)' /\ ~Tested(e)'
        /\ Keepers(e)' = Keepers(e) /\ e \notin On("m_kept")'
    BY <1>3, <1>8
  <2>2. Counted(e)'
    BY <1>1, <1>2, <1>3, <2>1 DEF EventInv, Counted, InRouter, One
  <2>3. OneWay(e)' /\ Untouched(e)' /\ FlightInv(e)'
    BY <1>1, <1>2, <1>3, <2>1 DEF EventInv, OneWay, Untouched, FlightInv
  <2>4. KeptInv(e)'
    BY <1>3, <2>1 DEF KeptInv
  <2> QED  BY <2>2, <2>3, <2>4 DEF EventInv
<1> QED  BY <1>0, <1>1, <1>5, <1>6, <1>9, <1>10 DEF IInv, None

(* A disciplined interrupt sends what has come back, and not in the middle *)
(* of a send of the loop.                                                  *)
LEMMA Interrupted ==
  ASSUME Disciplined, IInv, NEW e \in Event, Interrupt(e)
  PROVE  /\ IInv'
         /\ Queue("m_deliver_next")' = Append(Queue("m_deliver_next"), e)
         /\ Queue("m_deliver_now")' = IF op.pc = "clear" THEN Append(Queue("m_deliver_now"), e)
                                                         ELSE Queue("m_deliver_now")
<1> DEFINE s == Queue("m_deliver_next")
<1>1. /\ op.pc \notin {"walk", "append"} /\ m_reference_count[e] = 0 /\ e \notin inFlight
      /\ Add(e, 1) /\ inFlight' = inFlight \cup {e}
      /\ failed' = ~Sendable(e)
      /\ m_next' = ErListAppend(m_next, "m_deliver_next", e)
      /\ UNCHANGED <<m_initialized, m_subscriptions, op, disp, kept>>
  BY DEF Interrupt, ErEventIsInFlight, Disciplined
<1>2. ~Tested(e)
  BY <1>1 DEF IInv, EventInv, FlightInv
<1>3. /\ \A l \in List : e \notin On(l)
      /\ ~Waiting(e) /\ ~BeingSent(e) /\ ~Dispatched(e) /\ ~Returning(e)
      /\ Keepers(e) = {} /\ m_next[e] = NULL /\ e \notin On("m_kept")
  BY <1>1, <1>2, IdleFacts DEF List
<1>4. failed' \in BOOLEAN
  BY <1>1
<1>5. /\ m_reference_count' \in [Event -> Nat] /\ m_reference_count'[e] = 1
      /\ \A x \in Event \ {e} : m_reference_count'[x] = m_reference_count[x]
  BY <1>1, CountUp DEF IInv
<1>6. m_next' = [m_next EXCEPT ![LastNode("m_deliver_next", s)] = e]
  <2>1. "m_deliver_next" \in List
    BY DEF List
  <2>2. IsChain(m_next, "m_deliver_next", s) /\ e \notin Elements(s)
    BY <1>3, <2>1, QueueFacts DEF IInv
  <2> QED  BY <1>1, <2>1, <2>2, AppendIs
<1>7. /\ ListsInv' /\ m_next' \in [Node -> Event \cup {NULL}]
      /\ Queue("m_deliver_next")' = Append(Queue("m_deliver_next"), e)
      /\ Queue("m_deliver_now")' = IF op.pc = "clear" THEN Append(Queue("m_deliver_now"), e)
                                                      ELSE Queue("m_deliver_now")
      /\ On("m_deliver_next")' = On("m_deliver_next") \cup {e}
      /\ On("m_deliver_now")' = IF op.pc = "clear" THEN On("m_deliver_now") \cup {e}
                                                   ELSE On("m_deliver_now")
      /\ On("m_kept")' = On("m_kept")
  BY <1>1, <1>3, <1>6, AppendNext DEF IInv
<1>8. TypeOK' /\ BitsInv'
  BY <1>1, <1>4, <1>5, <1>7 DEF IInv, TypeOK, BitsInv
<1>9. Position' = Position /\ (disp.pc # "none" => Position \in Nat)
  BY <1>1, Shapes DEF IInv, Position
<1>10. \A x : /\ Waiting(x)' <=> Waiting(x) \/ x = e
              /\ x \in On("m_kept")' <=> x \in On("m_kept")
              /\ Keepers(x)' = Keepers(x) /\ (Dispatched(x)' <=> Dispatched(x))
              /\ BeingSent(x)' <=> BeingSent(x)
              /\ Returning(x)' <=> Returning(x)
              /\ Tested(x)' <=> Tested(x)
  BY <1>1, <1>7 DEF Waiting, Keepers, Dispatched, BeingSent, Returning, Tested
<1>11. ASSUME NEW x \in Event \ {e}
       PROVE  EventInv(x)'
  <2>1. EventInv(x)
    BY DEF IInv
  <2>2. Dispatched(x) => Position \in Nat /\ Position' \in Nat /\ Position <= Position'
    BY <1>9 DEF Dispatched
  <2> QED  BY <1>1, <1>5, <1>10, <2>1, <2>2, EventFrame
<1>12. EventInv(e)'
  <2>1. Waiting(e)' /\ ~BeingSent(e)' /\ ~Dispatched(e)' /\ ~Returning(e)' /\ ~Tested(e)'
        /\ Keepers(e)' = {} /\ e \notin On("m_kept")' /\ e \in inFlight'
    BY <1>1, <1>2, <1>3, <1>10
  <2>2. Cardinality({}) = 0 /\ IsFiniteSet({})
    BY FS_EmptySet
  <2>3. Counted(e)'
    BY <1>5, <2>1, <2>2 DEF Counted, InRouter, One
  <2>4. OneWay(e)' /\ Untouched(e)' /\ FlightInv(e)'
    BY <1>5, <2>1 DEF OneWay, Untouched, FlightInv
  <2>5. KeptInv(e)'
    BY <2>1, <2>2 DEF KeptInv
  <2> QED  BY <2>3, <2>4, <2>5 DEF EventInv
<1> QED  BY <1>4, <1>7, <1>8, <1>11, <1>12 DEF IInv

(* A step that moves events between the two lists of those that wait.      *)
LEMMA StillWaiting ==
  ASSUME IInv, op.pc \in {"none", "clear"}, op'.pc \in {"none", "clear"},
         \A e : (Waiting(e)' <=> Waiting(e)) /\ (e \in On("m_kept")' <=> e \in On("m_kept")),
         UNCHANGED <<m_reference_count, disp, kept, inFlight>>
  PROVE  \A e \in Event : EventInv(e)'
<1>1. Position' = Position /\ (disp.pc # "none" => Position \in Nat)
  BY Shapes DEF IInv, Position
<1>2. ASSUME NEW e \in Event
      PROVE  EventInv(e)'
  <2>1. /\ EventInv(e) /\ Keepers(e)' = Keepers(e) /\ (Dispatched(e)' <=> Dispatched(e))
        /\ ~BeingSent(e) /\ ~Returning(e) /\ ~Tested(e)
        /\ ~BeingSent(e)' /\ ~Returning(e)' /\ ~Tested(e)'
    BY DEF IInv, Keepers, Dispatched, BeingSent, Returning, Tested
  <2>2. Dispatched(e) => Position \in Nat /\ Position' \in Nat /\ Position <= Position'
    BY <1>1 DEF Dispatched
  <2> QED  BY <2>1, <2>2, EventFrame
<1> QED  BY <1>2

(* A round begins: what waited for the next one joins this one.            *)
LEMMA RoundBegins ==
  ASSUME IInv, ErNewLoop
  PROVE  /\ IInv' /\ op'.pc = "clear"
         /\ Queue("m_deliver_now")' = Queue("m_deliver_now") \o Queue("m_deliver_next")
<1>1. /\ op.pc = "none" /\ op' = [pc |-> "clear"]
      /\ m_next["m_deliver_next"] # NULL
      /\ m_next' = ErListAppend(m_next, "m_deliver_now", m_next["m_deliver_next"])
      /\ UNCHANGED <<m_initialized, m_reference_count, m_subscriptions, disp, kept,
                     failed, inFlight>>
  BY DEF ErNewLoop, InClient
<1>2. /\ ListsInv' /\ m_next' \in [Node -> Event \cup {NULL}]
      /\ Queue("m_deliver_now")' = Queue("m_deliver_now") \o Queue("m_deliver_next")
      /\ On("m_deliver_now")' = On("m_deliver_now") \cup On("m_deliver_next")
      /\ On("m_deliver_next")' = On("m_deliver_next") /\ On("m_kept")' = On("m_kept")
  BY <1>1, MoveNext DEF IInv
<1>3. TypeOK' /\ BitsInv'
  BY <1>1, <1>2 DEF IInv, TypeOK, BitsInv
<1>4. \A e : (Waiting(e)' <=> Waiting(e)) /\ (e \in On("m_kept")' <=> e \in On("m_kept"))
  BY <1>2 DEF Waiting
<1>5. \A e \in Event : EventInv(e)'
  BY <1>1, <1>4, StillWaiting
<1> QED  BY <1>1, <1>2, <1>3, <1>5 DEF IInv

(* The list of the next round is emptied: this round has all it held.      *)
LEMMA NextCleared ==
  ASSUME IInv, ClearDeliverNext
  PROVE  /\ IInv' /\ op'.pc = "none"
         /\ Queue("m_deliver_now")' = Queue("m_deliver_now")
         /\ Queue("m_deliver_next")' = <<>>
<1>1. /\ op.pc = "clear" /\ op' = None
      /\ m_next' = [m_next EXCEPT !["m_deliver_next"] = NULL]
      /\ UNCHANGED <<m_initialized, m_reference_count, m_subscriptions, disp, kept,
                     failed, inFlight>>
  BY DEF ClearDeliverNext, At
<1>2. op'.pc = "none"
  BY <1>1 DEF None
<1>3. /\ ListsInv' /\ m_next' \in [Node -> Event \cup {NULL}]
      /\ Queue("m_deliver_next")' = <<>>
      /\ Queue("m_deliver_now")' = Queue("m_deliver_now")
      /\ On("m_deliver_next")' = {} /\ On("m_deliver_next") \subseteq On("m_deliver_now")
      /\ \A l \in List \ {"m_deliver_next"} : On(l)' = On(l)
  BY <1>1, <1>2, ClearNext DEF IInv, List
<1>4. On("m_deliver_now")' = On("m_deliver_now") /\ On("m_kept")' = On("m_kept")
  BY <1>3 DEF List
<1>5. TypeOK' /\ BitsInv'
  BY <1>1, <1>3 DEF IInv, TypeOK, BitsInv
<1>6. \A e : (Waiting(e)' <=> Waiting(e)) /\ (e \in On("m_kept")' <=> e \in On("m_kept"))
  BY <1>3, <1>4 DEF Waiting
<1>7. \A e \in Event : EventInv(e)'
  BY <1>1, <1>2, <1>6, StillWaiting
<1> QED  BY <1>2, <1>3, <1>5, <1>7 DEF IInv

(* The loop takes the first event off the list of this round.              *)
LEMMA Taken ==
  ASSUME IInv, ErGetEventToDeliver
  PROVE  /\ IInv' /\ op'.pc = "none"
         /\ Queue("m_deliver_now") # <<>>
         /\ Queue("m_deliver_now")' = Tail(Queue("m_deliver_now"))
         /\ Queue("m_deliver_next")' = Queue("m_deliver_next")
<1> DEFINE now == "m_deliver_now"
           s == Queue(now)
<1>0. now \in List /\ IsChain(m_next, now, s) /\ On(now) = Elements(s) /\ s \in Seq(Event)
  BY QueueFacts DEF IInv, List
<1>1. PICK e \in Event : e = m_next[now] /\ s # <<>> /\ s[1] = e /\ e \in On(now)
  <2>1. m_next[now] # NULL
    BY DEF ErGetEventToDeliver
  <2>2. s # <<>> /\ m_next[now] = s[1]
    BY <1>0, <2>1, ChainFacts
  <2>3. s[1] \in Event /\ s[1] \in Elements(s)
    BY <1>0, <2>2 DEF Elements
  <2> QED  BY <1>0, <2>2, <2>3
<1>2. /\ op.pc = "none" /\ disp.pc = "none" /\ op' = op
      /\ m_next' = [m_next EXCEPT !["m_deliver_now"] = m_next[e], ![e] = NULL]
      /\ disp' = [pc |-> "loop", e |-> e, i |-> 0]
      /\ UNCHANGED <<m_initialized, m_reference_count, m_subscriptions, kept, failed,
                     inFlight>>
  BY <1>1 DEF ErGetEventToDeliver, InClient
<1>3. /\ ListsInv' /\ m_next' \in [Node -> Event \cup {NULL}]
      /\ Queue(now)' = Tail(s) /\ Queue("m_deliver_next")' = Queue("m_deliver_next")
      /\ On(now)' = On(now) \ {e}
      /\ On("m_deliver_next")' = On("m_deliver_next") /\ On("m_kept")' = On("m_kept")
  <2>1. 1 \in 1..Len(s) /\ NodeAt(now, s, 1 - 1) = now
    BY <1>0, <1>1 DEF NodeAt
  <2>2. m_next' = [m_next EXCEPT ![NodeAt(now, s, 1 - 1)] = m_next[s[1]], ![s[1]] = NULL]
    BY <1>1, <1>2, <2>1
  <2>3. ListsInv' /\ m_next' \in [Node -> Event \cup {NULL}] /\ On(now)' = On(now) \ {s[1]}
        /\ Queue(now)' = Cut(s, 1)
        /\ \A l \in List \ {now} : Queue(l)' = Queue(l) /\ On(l)' = On(l)
    <3> HIDE DEF now
    <3> QED  BY <1>0, <1>2, <2>1, <2>2, CutOut DEF IInv
  <2>4. Cut(s, 1) = Tail(s)
    <3>1. \A j, k \in 1..Len(s) : s[j] = s[k] => j = k
      BY <1>0 DEF IsChain
    <3> HIDE DEF s
    <3> QED  BY <1>0, <2>1, <3>1, CutFacts
  <2> QED  BY <1>1, <2>3, <2>4 DEF List
<1>4. e \notin On("m_deliver_next") /\ e \notin On("m_kept")
  BY <1>1, <1>2, ListFacts DEF IInv
<1>5. TypeOK' /\ BitsInv'
  BY <1>1, <1>2, <1>3 DEF IInv, TypeOK, BitsInv
<1>6. \A x : /\ Waiting(x)' <=> Waiting(x) /\ x # e
             /\ x \in On("m_kept")' <=> x \in On("m_kept")
             /\ Keepers(x)' = Keepers(x)
             /\ ~Dispatched(x) /\ (Dispatched(x)' <=> x = e)
             /\ ~BeingSent(x) /\ ~Returning(x) /\ ~Tested(x)
             /\ ~BeingSent(x)' /\ ~Returning(x)' /\ ~Tested(x)'
  BY <1>2, <1>3, <1>4 DEF Waiting, Keepers, Dispatched, BeingSent, Returning, Tested
<1>7. ASSUME NEW x \in Event \ {e}
      PROVE  EventInv(x)'
  <2>1. EventInv(x)
    BY DEF IInv
  <2> QED  BY <1>2, <1>6, <2>1, EventFrame
<1>8. EventInv(e)'
  <2>1. EventInv(e) /\ Waiting(e)
    BY <1>1 DEF IInv, Waiting
  <2>2. Keepers(e)' = {} /\ Keepers(e) = {} /\ IsFiniteSet({})
    BY <1>6, <2>1, FS_EmptySet DEF EventInv, Untouched
  <2>3. Counted(e)'
    BY <1>2, <1>6, <2>1, <2>2 DEF EventInv, Counted, InRouter, One
  <2>4. OneWay(e)' /\ Untouched(e)' /\ FlightInv(e)'
    BY <1>2, <1>6, <2>1 DEF EventInv, OneWay, Untouched, FlightInv
  <2>5. KeptInv(e)'
    BY <1>4, <1>6, <2>2 DEF KeptInv
  <2> QED  BY <2>3, <2>4, <2>5 DEF EventInv
<1> QED  BY <1>1, <1>2, <1>3, <1>5, <1>7, <1>8 DEF IInv

(* The dispatch goes on, to a handler or past one.                         *)
LEMMA DispatchGoesOn ==
  ASSUME IInv, ErCallHandlers \/ HandlerHandled
  PROVE  IInv'
<1>1. UNCHANGED <<m_initialized, m_reference_count, m_next, m_subscriptions, op,
                  kept, failed, inFlight>>
  BY DEF ErCallHandlers, HandlerHandled
<1>2. /\ disp.pc # "none" /\ disp'.pc # "none" /\ disp'.e = disp.e
      /\ disp' \in [pc : {"loop"}, e : Event, i : Nat]
                   \cup [pc : {"handler"}, e : Event, m : Module]
      /\ Position \in Nat /\ Position' \in Nat /\ Position <= Position'
  <2>1. CASE ErCallHandlers
    <3>1. disp.pc = "loop" /\ disp.e \in Event /\ disp.i \in Nat
      BY <2>1, Shapes DEF IInv, ErCallHandlers, Dispatching
    <3>2. PICK m \in Module : m_module_idx[m] >= disp.i
                              /\ disp' = [pc |-> "handler", e |-> disp.e, m |-> m]
      BY <2>1 DEF ErCallHandlers, Receivers
    <3>3. m_module_idx[m] \in Nat
      BY ModulesAssumption
    <3>4. Position = disp.i /\ Position' = m_module_idx[m]
      BY <3>1, <3>2 DEF Position
    <3> QED  BY <3>1, <3>2, <3>3, <3>4
  <2>2. CASE HandlerHandled
    <3>1. disp.pc = "handler" /\ disp.e \in Event /\ disp.m \in Module
      BY <2>2, Shapes DEF IInv, HandlerHandled, Dispatching
    <3>2. disp' = [pc |-> "loop", e |-> disp.e, i |-> m_module_idx[disp.m] + 1]
      BY <2>2 DEF HandlerHandled, Continue
    <3>3. m_module_idx[disp.m] \in Nat
      BY <3>1, ModulesAssumption
    <3>4. Position = m_module_idx[disp.m] /\ Position' = m_module_idx[disp.m] + 1
      BY <3>1, <3>2 DEF Position
    <3> QED  BY <3>1, <3>2, <3>3, <3>4
  <2> QED  BY <2>1, <2>2
<1> HIDE DEF Position
<1>3. TypeOK' /\ BitsInv'
  BY <1>1, <1>2 DEF IInv, TypeOK, BitsInv
<1>4. \A e \in Event : /\ BeingSent(e)' <=> BeingSent(e)
                       /\ Returning(e)' <=> Returning(e)
                       /\ Tested(e)' <=> Tested(e)
                       /\ Dispatched(e)' <=> Dispatched(e)
                       /\ Dispatched(e) =>
                            Position \in Nat /\ Position' \in Nat /\ Position <= Position'
  BY <1>1, <1>2 DEF BeingSent, Returning, Tested, Dispatched
<1>5. op.pc = "append" => op.last = LastNode("m_deliver_next", Queue("m_deliver_next"))
  BY DEF IInv, ListsInv
<1>6. ListsInv' /\ \A e \in Event : EventInv(e)'
  BY <1>1, <1>4, <1>5, QuietEvents
<1> QED  BY <1>3, <1>6 DEF IInv

(* All modules have had the event: only those that keep it and the router  *)
(* still hold a reference, and the router is about to drop its own.        *)
LEMMA DispatchEnds ==
  ASSUME IInv, AllHandled
  PROVE  IInv' /\ m_next' = m_next
<1>1. PICK e \in Event : e = disp.e
  BY Shapes DEF IInv, AllHandled, Dispatching
<1>2. /\ op.pc = "none" /\ disp.pc = "loop" /\ op' = [pc |-> "sub", e |-> e] /\ disp' = None
      /\ m_next' = ErListRemove(m_next, "m_deliver_now", e)
      /\ UNCHANGED <<m_initialized, m_reference_count, m_subscriptions, kept, failed,
                     inFlight>>
  BY <1>1 DEF AllHandled, Dispatching
<1>3. EventInv(e) /\ Dispatched(e) /\ ~Waiting(e) /\ ~BeingSent(e)
  BY <1>1, <1>2 DEF IInv, EventInv, OneWay, Dispatched
<1>4. m_next' = m_next
  <2>1. "m_deliver_now" \in List
    BY DEF List
  <2>2. IsChain(m_next, "m_deliver_now", Queue("m_deliver_now"))
        /\ e \notin Elements(Queue("m_deliver_now"))
    BY <1>3, <2>1, QueueFacts DEF IInv, Waiting
  <2> QED  BY <1>2, <2>1, <2>2, RemoveAbsent
<1>5. /\ ListsInv'
      /\ \A x : (Waiting(x)' <=> Waiting(x)) /\ (x \in On("m_kept")' <=> x \in On("m_kept"))
  BY <1>2, <1>4, QuietLists DEF IInv
<1>6. TypeOK' /\ BitsInv'
  BY <1>2, <1>4 DEF IInv, TypeOK, BitsInv
<1>7. \A x : /\ Keepers(x)' = Keepers(x)
             /\ Dispatched(x) <=> x = e
             /\ ~Dispatched(x)'
             /\ ~BeingSent(x) /\ ~Returning(x) /\ ~Tested(x)
             /\ ~BeingSent(x)' /\ (Returning(x)' <=> x = e) /\ ~Tested(x)'
  BY <1>1, <1>2 DEF Keepers, Dispatched, BeingSent, Returning, Tested, None
<1>8. ASSUME NEW x \in Event \ {e}
      PROVE  EventInv(x)'
  <2>1. EventInv(x)
    BY DEF IInv
  <2> QED  BY <1>2, <1>5, <1>7, <2>1, EventFrame
<1>9. EventInv(e)'
  <2>1. Counted(e)'
    <3>1. Cardinality(Keepers(e)) \in Nat
      BY <1>3, FS_CardinalityType DEF EventInv, KeptInv
    <3>2. m_reference_count[e] = 1 + Cardinality(Keepers(e)) + 0
      BY <1>3, <1>7 DEF EventInv, Counted, InRouter, One
    <3>3. /\ One(InRouter(e))' = 0 /\ One(Returning(e))' = 1
          /\ m_reference_count'[e] = m_reference_count[e] /\ Keepers(e)' = Keepers(e)
      BY <1>2, <1>3, <1>5, <1>7 DEF InRouter, One
    <3>4. m_reference_count'[e] = 0 + Cardinality(Keepers(e)) + 1
      BY <3>1, <3>2, <3>3
    <3> QED  BY <3>3, <3>4 DEF Counted
  <2>2. OneWay(e)' /\ Untouched(e)' /\ FlightInv(e)'
    BY <1>2, <1>3, <1>5, <1>7 DEF EventInv, OneWay, Untouched, FlightInv
  <2>3. KeptInv(e)'
    BY <1>2, <1>3, <1>5, <1>7 DEF EventInv, KeptInv
  <2> QED  BY <2>1, <2>2, <2>3 DEF EventInv
<1> QED  BY <1>4, <1>5, <1>6, <1>8, <1>9 DEF IInv

(* A handler keeps the event it was called with: its module did not keep   *)
(* it yet.                                                                 *)
LEMMA KeptByHandler ==
  ASSUME IInv, HandlerKept
  PROVE  /\ IInv'
         /\ Queue("m_deliver_now")' = Queue("m_deliver_now")
         /\ Queue("m_deliver_next")' = Queue("m_deliver_next")
<1>1. PICK e \in Event, m \in Module : e = disp.e /\ m = disp.m
  BY Shapes DEF IInv, HandlerKept, Dispatching
<1> DEFINE j == m_module_idx[m]
<1>2. /\ op.pc = "none" /\ disp.pc = "handler" /\ Add(e, 1)
      /\ kept' = [kept EXCEPT ![m][e] = @ + 1]
      /\ m_next' = ErListAppend(m_next, "m_kept", e)
      /\ disp' = [pc |-> "loop", e |-> e, i |-> j + 1]
      /\ UNCHANGED <<m_initialized, m_subscriptions, op, failed, inFlight>>
  BY <1>1 DEF HandlerKept, Dispatching, Continue
<1>3. j \in Nat /\ Position = j /\ Position' = j + 1
  BY <1>1, <1>2, ModulesAssumption DEF Position
<1>4. /\ EventInv(e) /\ Dispatched(e) /\ ~Waiting(e) /\ ~BeingSent(e)
      /\ ~Returning(e) /\ ~Tested(e)
  BY <1>1, <1>2 DEF IInv, EventInv, OneWay, Dispatched, Returning, Tested
<1>5. m \notin Keepers(e)
  <2>1. m \in Keepers(e) => j < Position
    BY <1>4 DEF EventInv, KeptInv
  <2> QED  BY <1>3, <2>1
<1>6. /\ kept' \in [Module -> [Event -> 0..1]]
      /\ Keepers(e)' = Keepers(e) \cup {m}
      /\ \A x \in Event \ {e} : Keepers(x)' = Keepers(x)
  <2>1. kept \in [Module -> [Event -> 0..1]] /\ kept[m][e] = 0
    BY <1>5 DEF IInv, TypeOK, Keepers
  <2>2. kept' = [kept EXCEPT ![m] = [kept[m] EXCEPT ![e] = 1]]
    BY <1>2, <2>1
  <2>3. /\ kept' \in [Module -> [Event -> 0..1]]
        /\ kept'[m][e] = 1
        /\ \A n \in Module, x \in Event : n # m \/ x # e => kept'[n][x] = kept[n][x]
    BY <2>1, <2>2
  <2> QED  BY <2>1, <2>3 DEF Keepers
<1>7. /\ m_reference_count' \in [Event -> Nat]
      /\ m_reference_count'[e] = m_reference_count[e] + 1
      /\ \A x \in Event \ {e} : m_reference_count'[x] = m_reference_count[x]
  BY <1>2, CountUp DEF IInv
<1>8. /\ ListsInv' /\ m_next' \in [Node -> Event \cup {NULL}]
      /\ On("m_kept")' = On("m_kept") \cup {e}
      /\ \A x : Waiting(x)' <=> Waiting(x)
      /\ Queue("m_deliver_now")' = Queue("m_deliver_now")
      /\ Queue("m_deliver_next")' = Queue("m_deliver_next")
  <2> DEFINE s == Queue("m_kept")
  <2>1. "m_kept" \in List
    BY DEF List
  <2>2. IsChain(m_next, "m_kept", s) /\ On("m_kept") = Elements(s)
    BY <2>1, QueueFacts DEF IInv
  <2>3. CASE e \in On("m_kept")
    <3>1. m_next' = m_next
      BY <1>2, <2>1, <2>2, <2>3, AppendIs
    <3>2. /\ ListsInv'
          /\ \A x : (Waiting(x)' <=> Waiting(x)) /\ (x \in On("m_kept")' <=> x \in On("m_kept"))
      BY <1>2, <3>1, QuietLists DEF IInv
    <3>3. On("m_kept")' = On("m_kept")
      BY <3>1, SameLists
    <3>4. Queue("m_deliver_now")' = Queue("m_deliver_now")
          /\ Queue("m_deliver_next")' = Queue("m_deliver_next")
      BY <3>1, SameLists
    <3> QED  BY <2>3, <3>1, <3>2, <3>3, <3>4 DEF IInv, TypeOK
  <2>4. CASE e \notin On("m_kept")
    <3>1. m_next' = [m_next EXCEPT ![LastNode("m_kept", s)] = e]
      BY <1>2, <2>1, <2>2, <2>4, AppendIs
    <3>2. \A l \in List : e \notin On(l)
      BY <1>4, <2>4 DEF Waiting, List
    <3>3. /\ ListsInv' /\ m_next' \in [Node -> Event \cup {NULL}]
          /\ On("m_kept")' = On("m_kept") \cup {e}
          /\ \A l \in List \ {"m_kept"} : Queue(l)' = Queue(l) /\ On(l)' = On(l)
      BY <1>2, <3>1, <3>2, AppendKept DEF IInv
    <3>4. /\ Queue("m_deliver_now")' = Queue("m_deliver_now")
          /\ Queue("m_deliver_next")' = Queue("m_deliver_next")
          /\ On("m_deliver_now")' = On("m_deliver_now")
          /\ On("m_deliver_next")' = On("m_deliver_next")
      BY <3>3 DEF List
    <3> QED  BY <3>3, <3>4 DEF Waiting
  <2> QED  BY <2>3, <2>4
<1>9. TypeOK' /\ BitsInv'
  <2>1. disp' \in [pc : {"loop"}, e : Event, i : Nat]
    BY <1>2, <1>3
  <2> QED  BY <1>2, <1>6, <1>7, <1>8, <2>1 DEF IInv, TypeOK, BitsInv
<1>10. \A x : /\ Dispatched(x) <=> x = e
              /\ Dispatched(x)' <=> x = e
              /\ ~BeingSent(x) /\ ~Returning(x) /\ ~Tested(x)
              /\ ~BeingSent(x)' /\ ~Returning(x)' /\ ~Tested(x)'
  BY <1>1, <1>2 DEF Dispatched, BeingSent, Returning, Tested
<1>11. ASSUME NEW x \in Event \ {e}
       PROVE  EventInv(x)'
  <2>1. EventInv(x)
    BY DEF IInv
  <2> QED  BY <1>2, <1>6, <1>7, <1>8, <1>10, <2>1, EventFrame
<1>12. EventInv(e)'
  <2>1. IsFiniteSet(Keepers(e))
    BY <1>4 DEF EventInv, KeptInv
  <2>2. /\ Cardinality(Keepers(e)) \in Nat /\ IsFiniteSet(Keepers(e)')
        /\ Cardinality(Keepers(e)') = Cardinality(Keepers(e)) + 1
    BY <1>5, <1>6, <2>1, FS_CardinalityType, FS_AddElement
  <2>3. Counted(e)'
    <3>1. m_reference_count[e] = 1 + Cardinality(Keepers(e)) + 0
      BY <1>4 DEF EventInv, Counted, InRouter, One
    <3>2. One(InRouter(e))' = 1 /\ One(Returning(e))' = 0
      BY <1>10 DEF InRouter, One
    <3>3. m_reference_count'[e] = 1 + Cardinality(Keepers(e)') + 0
      BY <1>7, <2>2, <3>1
    <3> QED  BY <3>2, <3>3 DEF Counted
  <2>4. OneWay(e)' /\ Untouched(e)'
    BY <1>4, <1>8, <1>10 DEF OneWay, Untouched
  <2>5. m_reference_count[e] > 0 /\ m_reference_count'[e] > 0
    <3>1. m_reference_count[e] = 1 + Cardinality(Keepers(e)) + 0
      BY <1>4 DEF EventInv, Counted, InRouter, One
    <3> QED  BY <1>7, <2>2, <3>1
  <2>6. e \in inFlight' /\ FlightInv(e)'
    BY <1>2, <1>4, <1>10, <2>5 DEF EventInv, FlightInv
  <2>7. \A n \in Keepers(e)' : m_module_idx[n] < Position'
    <3>1. ASSUME NEW n \in Keepers(e)
          PROVE  m_module_idx[n] < j + 1
      <4>1. m_module_idx[n] < Position /\ m_module_idx[n] \in Nat
        BY <1>4, ModulesAssumption DEF EventInv, KeptInv, Keepers
      <4> QED  BY <1>3, <4>1
    <3> QED  BY <1>3, <1>6, <3>1
  <2>8. KeptInv(e)'
    BY <1>8, <2>2, <2>6, <2>7 DEF KeptInv
  <2> QED  BY <2>3, <2>4, <2>6, <2>8 DEF EventInv
<1> QED  BY <1>8, <1>9, <1>11, <1>12 DEF IInv

(* A module gives back what it keeps: its reference is now the router's to *)
(* drop.                                                                   *)
LEMMA GivenBack ==
  ASSUME IInv, NEW m \in Module, NEW e \in Event, ErReturnToSender(m, e)
  PROVE  IInv'
<1>1. /\ op.pc = "none" /\ kept[m][e] > 0
      /\ kept' = [kept EXCEPT ![m][e] = @ - 1]
      /\ op' = [pc |-> "sub", e |-> e]
      /\ UNCHANGED <<m_initialized, m_reference_count, m_next, m_subscriptions, disp,
                     failed, inFlight>>
  BY DEF ErReturnToSender, InClient
<1>2. m \in Keepers(e)
  BY <1>1 DEF Keepers
<1>3. /\ EventInv(e) /\ ~Waiting(e) /\ ~BeingSent(e) /\ ~Returning(e) /\ ~Tested(e)
      /\ e \in On("m_kept") /\ e \in inFlight
  BY <1>1, <1>2 DEF IInv, EventInv, Untouched, KeptInv, Returning, Tested
<1>4. /\ kept' \in [Module -> [Event -> 0..1]]
      /\ Keepers(e)' = Keepers(e) \ {m}
      /\ \A x \in Event \ {e} : Keepers(x)' = Keepers(x)
  <2>1. kept \in [Module -> [Event -> 0..1]] /\ kept[m][e] = 1
    BY <1>1 DEF IInv, TypeOK
  <2>2. kept' = [kept EXCEPT ![m] = [kept[m] EXCEPT ![e] = 0]]
    BY <1>1, <2>1
  <2>3. /\ kept' \in [Module -> [Event -> 0..1]]
        /\ kept'[m][e] = 0
        /\ \A n \in Module, x \in Event : n # m \/ x # e => kept'[n][x] = kept[n][x]
    BY <2>1, <2>2
  <2> QED  BY <2>1, <2>3 DEF Keepers
<1>5. TypeOK' /\ BitsInv'
  BY <1>1, <1>4 DEF IInv, TypeOK, BitsInv
<1>6. /\ ListsInv'
      /\ \A x : (Waiting(x)' <=> Waiting(x)) /\ (x \in On("m_kept")' <=> x \in On("m_kept"))
  BY <1>1, QuietLists DEF IInv
<1>7. Position' = Position /\ (disp.pc # "none" => Position \in Nat)
  BY <1>1, Shapes DEF IInv, Position
<1>8. \A x : /\ Dispatched(x)' <=> Dispatched(x)
             /\ ~BeingSent(x) /\ ~Returning(x) /\ ~Tested(x)
             /\ ~BeingSent(x)' /\ (Returning(x)' <=> x = e) /\ ~Tested(x)'
  BY <1>1 DEF Dispatched, BeingSent, Returning, Tested
<1>9. ASSUME NEW x \in Event \ {e}
      PROVE  EventInv(x)'
  <2>1. EventInv(x)
    BY DEF IInv
  <2>2. Dispatched(x) => Position \in Nat /\ Position' \in Nat /\ Position <= Position'
    BY <1>7 DEF Dispatched
  <2> QED  BY <1>1, <1>4, <1>6, <1>8, <2>1, <2>2, EventFrame
<1>10. EventInv(e)'
  <2>1. IsFiniteSet(Keepers(e))
    BY <1>3 DEF EventInv, KeptInv
  <2>2. /\ Cardinality(Keepers(e)) \in Nat /\ IsFiniteSet(Keepers(e)')
        /\ Cardinality(Keepers(e)') = Cardinality(Keepers(e)) - 1
    BY <1>2, <1>4, <2>1, FS_CardinalityType, FS_RemoveElement
  <2>3. Counted(e)'
    <3>1. m_reference_count[e] = One(InRouter(e)) + Cardinality(Keepers(e)) + 0
      BY <1>3 DEF EventInv, Counted, One
    <3>2. One(InRouter(e))' = One(InRouter(e)) /\ One(InRouter(e)) \in 0..1
          /\ One(Returning(e))' = 1
      BY <1>3, <1>6, <1>8 DEF InRouter, One
    <3>3. m_reference_count'[e] = One(InRouter(e)) + Cardinality(Keepers(e)') + 1
      <4> HIDE DEF One
      <4> QED  BY <1>1, <2>2, <3>1, <3>2
    <3> QED  BY <3>2, <3>3 DEF Counted
  <2>4. OneWay(e)' /\ Untouched(e)'
    BY <1>3, <1>6, <1>8 DEF OneWay, Untouched
  <2>5. FlightInv(e)'
    BY <1>1, <1>3, <1>8 DEF EventInv, FlightInv
  <2>6. KeptInv(e)'
    BY <1>1, <1>3, <1>4, <1>6, <1>7, <1>8, <2>2 DEF EventInv, KeptInv
  <2> QED  BY <2>3, <2>4, <2>5, <2>6 DEF EventInv
<1> QED  BY <1>5, <1>6, <1>9, <1>10 DEF IInv

(* A reference is dropped.                                                 *)
LEMMA Dropped ==
  ASSUME IInv, DropReference
  PROVE  IInv'
<1>1. PICK e \in Event : op = [pc |-> "sub", e |-> e]
  BY Shapes DEF IInv, DropReference, At
<1>2. /\ Add(e, -1) /\ op' = [pc |-> "test", e |-> e]
      /\ UNCHANGED <<m_initialized, m_next, m_subscriptions, disp, kept, failed, inFlight>>
  BY <1>1 DEF DropReference
<1>3. EventInv(e) /\ Returning(e) /\ ~Waiting(e) /\ ~BeingSent(e)
  BY <1>1 DEF IInv, EventInv, Untouched, Returning
<1>4. Cardinality(Keepers(e)) \in Nat /\ One(InRouter(e)) \in 0..1
      /\ m_reference_count[e] = One(InRouter(e)) + Cardinality(Keepers(e)) + 1
  BY <1>3, FS_CardinalityType DEF EventInv, KeptInv, Counted, One
<1>5. m_reference_count[e] > 0
  BY <1>4
<1>6. /\ m_reference_count' \in [Event -> Nat]
      /\ m_reference_count'[e] = m_reference_count[e] - 1
      /\ \A x \in Event \ {e} : m_reference_count'[x] = m_reference_count[x]
  <2>1. /\ m_reference_count' \in [Event -> Nat]
        /\ m_reference_count'[e] = m_reference_count[e] + (-1)
        /\ \A x \in Event \ {e} : m_reference_count'[x] = m_reference_count[x]
    BY <1>2, <1>5, CountUp DEF IInv
  <2> QED  BY <1>5, <2>1 DEF IInv, TypeOK
<1>7. TypeOK' /\ BitsInv'
  BY <1>2, <1>6 DEF IInv, TypeOK, BitsInv
<1>8. /\ ListsInv'
      /\ \A x : (Waiting(x)' <=> Waiting(x)) /\ (x \in On("m_kept")' <=> x \in On("m_kept"))
  BY <1>1, <1>2, QuietLists DEF IInv
<1>9. Position' = Position /\ (disp.pc # "none" => Position \in Nat)
  BY <1>2, Shapes DEF IInv, Position
<1>10. \A x : /\ Dispatched(x)' <=> Dispatched(x)
              /\ Keepers(x)' = Keepers(x)
              /\ ~BeingSent(x) /\ (Returning(x) <=> x = e) /\ ~Tested(x)
              /\ ~BeingSent(x)' /\ ~Returning(x)' /\ (Tested(x)' <=> x = e)
  BY <1>1, <1>2 DEF Dispatched, Keepers, BeingSent, Returning, Tested
<1>11. ASSUME NEW x \in Event \ {e}
       PROVE  EventInv(x)'
  <2>1. EventInv(x)
    BY DEF IInv
  <2>2. Dispatched(x) => Position \in Nat /\ Position' \in Nat /\ Position <= Position'
    BY <1>9 DEF Dispatched
  <2> QED  BY <1>2, <1>6, <1>8, <1>10, <2>1, <2>2, EventFrame
<1>12. EventInv(e)'
  <2>1. Counted(e)'
    <3>1. One(InRouter(e))' = One(InRouter(e)) /\ One(Returning(e))' = 0
          /\ Keepers(e)' = Keepers(e)
      BY <1>8, <1>10 DEF InRouter, One
    <3>2. m_reference_count'[e] = One(InRouter(e)) + Cardinality(Keepers(e)) + 0
      <4> HIDE DEF One
      <4> QED  BY <1>4, <1>6
    <3> QED  BY <3>1, <3>2 DEF Counted
  <2>2. OneWay(e)' /\ Untouched(e)'
    BY <1>3, <1>8, <1>10 DEF EventInv, OneWay, Untouched
  <2>3. e \in inFlight' /\ FlightInv(e)'
    BY <1>2, <1>3, <1>5, <1>10 DEF EventInv, FlightInv
  <2>4. KeptInv(e)'
    BY <1>3, <1>8, <1>9, <1>10, <2>3 DEF EventInv, KeptInv
  <2> QED  BY <2>1, <2>2, <2>3, <2>4 DEF EventInv
<1> QED  BY <1>7, <1>8, <1>11, <1>12 DEF IInv

(* What is known of an event whose last reference was dropped.             *)
LEMMA NothingHeld ==
  ASSUME IInv, NEW e \in Event, m_reference_count[e] = 0
  PROVE  ~InRouter(e) /\ Keepers(e) = {} /\ ~Returning(e)
<1>1. EventInv(e) /\ IsFiniteSet(Keepers(e))
  BY DEF IInv, EventInv, KeptInv
<1>2. Cardinality(Keepers(e)) \in Nat
  BY <1>1, FS_CardinalityType
<1>3. /\ 0 = One(InRouter(e)) + Cardinality(Keepers(e)) + One(Returning(e))
      /\ One(InRouter(e)) \in 0..1 /\ One(Returning(e)) \in 0..1
  BY <1>1 DEF EventInv, Counted, One
<1>4. One(InRouter(e)) = 0 /\ Cardinality(Keepers(e)) = 0 /\ One(Returning(e)) = 0
  BY <1>2, <1>3
<1> QED  BY <1>1, <1>4, FS_EmptySet DEF One

(* The last reference is gone, and the sender's handler is called: the     *)
(* event leaves the list of kept events.                                   *)
LEMMA HandedBack ==
  ASSUME IInv, CallSender
  PROVE  /\ IInv'
         /\ Queue("m_deliver_now")' = Queue("m_deliver_now")
         /\ Queue("m_deliver_next")' = Queue("m_deliver_next")
<1>1. PICK e \in Event : op = [pc |-> "test", e |-> e]
  BY Shapes DEF IInv, CallSender, At
<1>2. /\ op' = None
      /\ IF m_reference_count[e] = 0
           THEN /\ m_next' = ErListRemove(m_next, "m_kept", e)
                /\ inFlight' = inFlight \ {e}
           ELSE UNCHANGED <<m_next, inFlight>>
      /\ UNCHANGED <<m_initialized, m_reference_count, m_subscriptions, disp, kept, failed>>
  BY <1>1 DEF CallSender
<1>3. Position' = Position /\ (disp.pc # "none" => Position \in Nat)
  BY <1>2, Shapes DEF IInv, Position
<1>4. \A x : /\ Dispatched(x)' <=> Dispatched(x)
             /\ Keepers(x)' = Keepers(x)
             /\ ~BeingSent(x) /\ ~Returning(x) /\ (Tested(x) <=> x = e)
             /\ ~BeingSent(x)' /\ ~Returning(x)' /\ ~Tested(x)'
  BY <1>1, <1>2 DEF Dispatched, Keepers, BeingSent, Returning, Tested, None
<1>5. EventInv(e) /\ ~Waiting(e)
  BY <1>4 DEF IInv, EventInv, Untouched
<1>6. /\ ListsInv' /\ m_next' \in [Node -> Event \cup {NULL}]
      /\ \A x : Waiting(x)' <=> Waiting(x)
      /\ Queue("m_deliver_now")' = Queue("m_deliver_now")
      /\ Queue("m_deliver_next")' = Queue("m_deliver_next")
      /\ On("m_kept")' = IF m_reference_count[e] = 0 THEN On("m_kept") \ {e} ELSE On("m_kept")
  <2> DEFINE s == Queue("m_kept")
  <2>1. "m_kept" \in List
    BY DEF List
  <2>2. IsChain(m_next, "m_kept", s) /\ On("m_kept") = Elements(s) /\ DOMAIN s = 1..Len(s)
    BY <2>1, QueueFacts, ChainFacts DEF IInv
  <2>3. op.pc \notin {"append", "clear"} /\ op'.pc \notin {"append", "clear"}
    BY <1>1, <1>2 DEF None
  <2>4. CASE UNCHANGED m_next /\ (m_reference_count[e] = 0 => e \notin On("m_kept"))
    <3>1. /\ ListsInv'
          /\ \A x : (Waiting(x)' <=> Waiting(x)) /\ (x \in On("m_kept")' <=> x \in On("m_kept"))
      BY <2>3, <2>4, QuietLists DEF IInv
    <3>2. On("m_kept")' = On("m_kept")
      BY <2>4, SameLists
    <3>3. Queue("m_deliver_now")' = Queue("m_deliver_now")
          /\ Queue("m_deliver_next")' = Queue("m_deliver_next")
      BY <2>4, SameLists
    <3> QED  BY <2>4, <3>1, <3>2, <3>3 DEF IInv, TypeOK
  <2>5. CASE m_reference_count[e] = 0 /\ e \notin On("m_kept")
    <3>1. m_next' = m_next
      BY <1>2, <2>1, <2>2, <2>5, RemoveAbsent
    <3> QED  BY <2>4, <2>5, <3>1
  <2>6. CASE m_reference_count[e] = 0 /\ e \in On("m_kept")
    <3>1. PICK i \in 1..Len(s) : s[i] = e
      BY <2>2, <2>6 DEF Elements
    <3>2. m_next' = [m_next EXCEPT ![NodeAt("m_kept", s, i - 1)] = m_next[s[i]], ![s[i]] = NULL]
      <4>1. ErListRemove(m_next, "m_kept", s[i])
            = [m_next EXCEPT ![NodeAt("m_kept", s, i - 1)] = m_next[s[i]], ![s[i]] = NULL]
        <5>1. IsChain(m_next, "m_kept", s)
          BY <2>2
        <5> HIDE DEF s
        <5> QED  BY <2>1, <5>1, RemoveIs, Z3
      <4> QED  BY <1>2, <2>6, <3>1, <4>1
    <3>3. /\ ListsInv' /\ m_next' \in [Node -> Event \cup {NULL}]
          /\ On("m_kept")' = On("m_kept") \ {e}
          /\ \A l \in List \ {"m_kept"} : Queue(l)' = Queue(l) /\ On(l)' = On(l)
      BY <2>1, <2>3, <3>1, <3>2, CutOut DEF IInv
    <3>4. /\ Queue("m_deliver_now")' = Queue("m_deliver_now")
          /\ Queue("m_deliver_next")' = Queue("m_deliver_next")
          /\ On("m_deliver_now")' = On("m_deliver_now")
          /\ On("m_deliver_next")' = On("m_deliver_next")
      BY <3>3 DEF List
    <3> QED  BY <2>6, <3>3, <3>4 DEF Waiting
  <2> QED  BY <1>2, <2>4, <2>5, <2>6
<1>7. inFlight' = IF m_reference_count[e] = 0 THEN inFlight \ {e} ELSE inFlight
  BY <1>2
<1>8. TypeOK' /\ BitsInv'
  BY <1>2, <1>6, <1>7 DEF IInv, TypeOK, BitsInv
<1>9. ASSUME NEW x \in Event \ {e}
      PROVE  EventInv(x)'
  <2>1. EventInv(x)
    BY DEF IInv
  <2>2. Dispatched(x) => Position \in Nat /\ Position' \in Nat /\ Position <= Position'
    BY <1>3 DEF Dispatched
  <2>3. (x \in On("m_kept")' <=> x \in On("m_kept")) /\ (x \in inFlight' <=> x \in inFlight)
    BY <1>6, <1>7
  <2> QED  BY <1>2, <1>4, <1>6, <2>1, <2>2, <2>3, EventFrame
<1>10. EventInv(e)'
  <2>1. Counted(e)'
    <3>1. (InRouter(e)' <=> InRouter(e)) /\ (Returning(e)' <=> Returning(e))
          /\ Keepers(e)' = Keepers(e)
      BY <1>4, <1>6 DEF InRouter
    <3> QED  BY <1>2, <1>5, <3>1 DEF EventInv, Counted, One
  <2>2. OneWay(e)' /\ Untouched(e)'
    BY <1>4, <1>5, <1>6 DEF OneWay, Untouched
  <2>3. e \in inFlight' <=> m_reference_count[e] # 0
    BY <1>4, <1>5, <1>7 DEF EventInv, FlightInv
  <2>4. m_reference_count'[e] = m_reference_count[e] /\ m_reference_count[e] \in Nat
    BY <1>2 DEF IInv, TypeOK
  <2>5. FlightInv(e)'
    BY <1>4, <2>3, <2>4 DEF FlightInv
  <2>6. KeptInv(e)'
    <3>1. m_reference_count[e] = 0 => Keepers(e) = {}
      BY NothingHeld
    <3>2. IsFiniteSet(Keepers(e)') /\ (Keepers(e)' # {} => e \in On("m_kept")')
      BY <1>4, <1>5, <1>6, <3>1 DEF EventInv, KeptInv
    <3>3. e \in On("m_kept")' => e \in inFlight'
      BY <1>6, <2>3
    <3>4. Dispatched(e)' => \A m \in Keepers(e)' : m_module_idx[m] < Position'
      BY <1>3, <1>4, <1>5 DEF EventInv, KeptInv
    <3> QED  BY <3>2, <3>3, <3>4 DEF KeptInv
  <2> QED  BY <2>1, <2>2, <2>5, <2>6 DEF EventInv
<1> QED  BY <1>6, <1>8, <1>9, <1>10 DEF IInv

(* Nothing has happened yet: the lists are empty and nothing is counted.   *)
LEMMA InitIsGood ==
  ASSUME Init
  PROVE  IInv
<1>1. TypeOK
  <2>1. None \in {None} /\ 0 \in Nat /\ 0 \in 0..1
    OBVIOUS
  <2> QED  BY <2>1 DEF Init, TypeOK
<1>2. BitsInv
  BY DEF Init, BitsInv
<1>3. ASSUME NEW l \in List
      PROVE  IsChain(m_next, l, <<>>)
  <2>1. l \in Node /\ <<>> \in Seq(Event) /\ Len(<<>>) = 0
    BY DEF Node
  <2>2. m_next[NodeAt(l, <<>>, 0)] = NULL
    BY <2>1 DEF Init, NodeAt
  <2>3. \A k \in 0..0 : m_next[NodeAt(l, <<>>, k)] = IF k = 0 THEN NULL ELSE <<>>[k + 1]
    BY <2>2
  <2> QED  BY <2>1, <2>3 DEF IsChain
<1>4. \A l \in List : Queue(l) = <<>> /\ On(l) = {} /\ IsChain(m_next, l, Queue(l))
  <2>1. ASSUME NEW l \in List
        PROVE  Queue(l) = <<>> /\ On(l) = {} /\ IsChain(m_next, l, Queue(l))
    <3>1. Queue(l) = <<>> /\ On(l) = Elements(<<>>)
      BY <1>3, PathOfChain, ChainFacts DEF Queue, On
    <3>2. Elements(<<>>) = {}
      BY DEF Elements
    <3> QED  BY <1>3, <3>1, <3>2
  <2> QED  BY <2>1
<1>5. /\ On("m_kept") = {} /\ On("m_deliver_now") = {} /\ On("m_deliver_next") = {}
      /\ op.pc = "none" /\ disp.pc = "none"
  BY <1>4 DEF List, Init, None
<1>6. ListsInv
  <2>1. ListsAreDisjoint
    BY <1>5 DEF ListsAreDisjoint, Init, Node
  <2> QED  BY <1>4, <1>5, <2>1 DEF ListsInv
<1>7. ASSUME NEW e \in Event
      PROVE  EventInv(e)
  <2>1. /\ ~Waiting(e) /\ ~BeingSent(e) /\ ~Dispatched(e) /\ ~Returning(e) /\ ~Tested(e)
    BY <1>5 DEF Waiting, BeingSent, Dispatched, Returning, Tested
  <2>2. Keepers(e) = {} /\ m_reference_count[e] = 0 /\ e \notin inFlight
    BY DEF Init, Keepers
  <2>3. Cardinality({}) = 0 /\ IsFiniteSet({})
    BY FS_EmptySet
  <2>4. Counted(e)
    BY <2>1, <2>2, <2>3 DEF Counted, InRouter, One
  <2> QED  BY <1>5, <2>1, <2>2, <2>3, <2>4
           DEF EventInv, OneWay, Untouched, KeptInv, FlightInv
<1> QED  BY <1>1, <1>2, <1>6, <1>7 DEF IInv

(* A step that changes nothing.                                            *)
LEMMA Stuttering ==
  ASSUME IInv, UNCHANGED vars
  PROVE  IInv'
<1>1. /\ UNCHANGED <<m_initialized, m_reference_count, m_next, m_subscriptions, op, disp,
                     kept, failed, inFlight>>
  BY DEF vars
<1>2. TypeOK' /\ BitsInv'
  BY <1>1 DEF IInv, TypeOK, BitsInv
<1>3. Position' = Position /\ (disp.pc # "none" => Position \in Nat)
  BY <1>1, Shapes DEF IInv, Position
<1>4. \A e \in Event : /\ BeingSent(e)' <=> BeingSent(e)
                       /\ Returning(e)' <=> Returning(e)
                       /\ Tested(e)' <=> Tested(e)
                       /\ Dispatched(e)' <=> Dispatched(e)
                       /\ Dispatched(e) =>
                            Position \in Nat /\ Position' \in Nat /\ Position <= Position'
  BY <1>1, <1>3 DEF BeingSent, Returning, Tested, Dispatched
<1>5. op.pc = "append" => op.last = LastNode("m_deliver_next", Queue("m_deliver_next"))
  BY DEF IInv, ListsInv
<1>6. ListsInv' /\ \A e \in Event : EventInv(e)'
  BY <1>1, <1>4, <1>5, QuietEvents
<1> QED  BY <1>2, <1>6 DEF IInv

(* Every step keeps the invariant.                                         *)
LEMMA NextKeeps ==
  ASSUME Disciplined, IInv, [Next]_vars
  PROVE  IInv'
<1>1. CASE ErDeinit
  BY <1>1, Deinitialized
<1>2. CASE FindEnd
  BY <1>2, EndFound
<1>3. CASE AppendAtEnd
  BY <1>3, Appended
<1>4. CASE ClearDeliverNext
  BY <1>4, NextCleared
<1>5. CASE ErCallHandlers \/ HandlerHandled
  BY <1>5, DispatchGoesOn
<1>6. CASE AllHandled
  BY <1>6, DispatchEnds
<1>7. CASE DropReference
  BY <1>7, Dropped
<1>8. CASE CallSender
  BY <1>8, HandedBack
<1>9. CASE ErNewLoop
  BY <1>9, RoundBegins
<1>10. CASE ErGetEventToDeliver
  BY <1>10, Taken
<1>11. CASE HandlerKept
  BY <1>11, KeptByHandler
<1>12. ASSUME NEW e \in Event, ErSendEx(e)
       PROVE  IInv'
  BY <1>12, SendBegins
<1>13. ASSUME NEW e \in Event, Interrupt(e)
       PROVE  IInv'
  BY <1>13, Interrupted
<1>14. ASSUME NEW e \in Event, NEW m \in Module, ErReturnToSender(m, e)
       PROVE  IInv'
  BY <1>14, GivenBack
<1>15. CASE ErInit
  BY <1>15, OtherCalls
<1>16. CASE \E m \in Module, ty \in RoutableType : ErSubscribe(m, ty) \/ ErUnsubscribe(m, ty)
  BY <1>16, OtherCalls
<1>17. CASE UNCHANGED vars
  BY <1>17, Stuttering
<1> QED  BY <1>1, <1>2, <1>3, <1>4, <1>5, <1>6, <1>7, <1>8, <1>9, <1>10, <1>11, <1>12,
            <1>13, <1>14, <1>15, <1>16, <1>17 DEF Next, RouterStep, LoopStep

(* The inductive invariant, when interrupts are disciplined.               *)
THEOREM Invariance ==
  ASSUME Disciplined
  PROVE  Spec => []IInv
<1>1. Init => IInv
  BY InitIsGood
<1>2. IInv /\ [Next]_vars => IInv'
  BY NextKeeps
<1> QED  BY <1>1, <1>2, PTL DEF Spec

(* It implies what the runs check of the states.                           *)
LEMMA WhatItImplies ==
  ASSUME IInv
  PROVE  CountsAccountForAll /\ ListsAreDisjoint /\ KeptListTells /\ SentEventsAreFound
<1>1. ListsAreDisjoint
  BY DEF IInv, ListsInv
<1>2. KeptListTells
  <2>1. On("m_kept") \subseteq Event
    BY QueueFacts DEF IInv, List
  <2> QED  BY <2>1 DEF IInv, EventInv, KeptInv, KeptListTells
<1>3. ASSUME NEW e \in Event
      PROVE  m_reference_count[e] = Cardinality(
                 {x \in {"waits", "sent", "delivered"} :
                   \/ x = "waits" /\ Waiting(e)
                   \/ x = "sent" /\ BeingSent(e)
                   \/ x = "delivered" /\ disp.pc # "none" /\ disp.e = e})
               + Cardinality(Keepers(e)) + (IF op.pc = "sub" /\ op.e = e THEN 1 ELSE 0)
  <2> DEFINE ways == {x \in {"waits", "sent", "delivered"} :
                   \/ x = "waits" /\ Waiting(e)
                   \/ x = "sent" /\ BeingSent(e)
                   \/ x = "delivered" /\ disp.pc # "none" /\ disp.e = e}
  <2>1. EventInv(e)
    BY DEF IInv
  <2>2. Cardinality(ways) = One(InRouter(e))
    <3>1. CASE ~InRouter(e)
      <4>1. ways = {}
        BY <3>1 DEF InRouter, Dispatched
      <4> QED  BY <3>1, <4>1, FS_EmptySet DEF One
    <3>2. CASE InRouter(e)
      <4>1. \E w : ways = {w}
        <5>1. CASE Waiting(e)
          <6>1. ~BeingSent(e) /\ ~Dispatched(e)
            BY <2>1, <5>1 DEF EventInv, OneWay
          <6>2. ways = {"waits"}
            BY <5>1, <6>1 DEF Dispatched
          <6> QED  BY <6>2
        <5>2. CASE BeingSent(e)
          <6>1. ~Waiting(e) /\ ~Dispatched(e)
            BY <2>1, <5>2 DEF EventInv, OneWay
          <6>2. ways = {"sent"}
            BY <5>2, <6>1 DEF Dispatched
          <6> QED  BY <6>2
        <5>3. CASE Dispatched(e)
          <6>1. ~Waiting(e) /\ ~BeingSent(e)
            BY <2>1, <5>3 DEF EventInv, OneWay
          <6>2. ways = {"delivered"}
            BY <5>3, <6>1 DEF Dispatched
          <6> QED  BY <6>2
        <5> QED  BY <3>2, <5>1, <5>2, <5>3 DEF InRouter
      <4> HIDE DEF ways
      <4>2. Cardinality(ways) = 1
        BY <4>1, FS_Singleton
      <4> QED  BY <3>2, <4>2 DEF One
    <3> QED  BY <3>1, <3>2
  <2>3. One(Returning(e)) = IF op.pc = "sub" /\ op.e = e THEN 1 ELSE 0
    BY DEF One, Returning
  <2> HIDE DEF ways
  <2>4. m_reference_count[e] = Cardinality(ways) + Cardinality(Keepers(e))
                               + (IF op.pc = "sub" /\ op.e = e THEN 1 ELSE 0)
    BY <2>1, <2>2, <2>3 DEF EventInv, Counted
  <2> QED  BY <2>4 DEF ways
<1>4. CountsAccountForAll
  BY <1>3 DEF CountsAccountForAll
<1>5. SentEventsAreFound
  <2>1. ASSUME NEW e \in Event, m_reference_count[e] > 0,
               ~Waiting(e), ~BeingSent(e), ~BeingDelivered(e), Keepers(e) = {}
        PROVE  FALSE
    <3>1. ~InRouter(e) /\ ~Returning(e) /\ Cardinality(Keepers(e)) = 0
      BY <2>1, FS_EmptySet DEF InRouter, BeingDelivered, Dispatched, Returning
    <3>2. m_reference_count[e] = 0
      BY <3>1 DEF IInv, EventInv, Counted, One
    <3> QED  BY <2>1, <3>2
  <2> QED  BY <2>1 DEF SentEventsAreFound
<1> QED  BY <1>1, <1>2, <1>4, <1>5

(* No event gets lost, and each count says who has still to return the     *)
(* event, as long as interrupts are disciplined.                           *)
THEOREM CountsTell ==
  ASSUME Disciplined
  PROVE  Spec => []CountsAccountForAll
BY Invariance, WhatItImplies, PTL

(* The lists, linked through the events themselves, never share one.       *)
THEOREM ListsStayDisjoint ==
  ASSUME Disciplined
  PROVE  Spec => []ListsAreDisjoint
BY Invariance, WhatItImplies, PTL

(* ErListAppend() and ErListRemove() keep the list of kept events true.    *)
THEOREM KeptListIsTrue ==
  ASSUME Disciplined
  PROVE  Spec => []KeptListTells
BY Invariance, WhatItImplies, PTL

(* An event that was sent is where the router will find it.                *)
THEOREM SentEventsStay ==
  ASSUME Disciplined
  PROVE  Spec => []SentEventsAreFound
BY Invariance, WhatItImplies, PTL

(* No ER_ASSERT() fails: an event that is sent when its count is 0 points  *)
(* nowhere, and its sender has no subscription to it.                      *)
THEOREM SendAssertionsHold ==
  ASSUME Disciplined, NobodySubscribesToOwn
  PROVE  Spec => []NoAssertionFails
<1>1. Init => NoAssertionFails
  BY DEF Init, NoAssertionFails
<1>2. ASSUME IInv, NoAssertionFails, [Next]_vars
      PROVE  NoAssertionFails'
  <2>1. ASSUME NEW e \in Event, ErSendEx(e) \/ Interrupt(e)
        PROVE  NoAssertionFails'
    <3>1. failed' = ~Sendable(e) /\ m_reference_count[e] = 0
      BY <2>1 DEF ErSendEx, Interrupt, ErEventIsInFlight
    <3>2. ~Tested(e)
      <4>1. CASE ErSendEx(e)
        BY <4>1 DEF ErSendEx, InClient, Tested
      <4>2. CASE Interrupt(e)
        BY <1>2, <4>2 DEF Interrupt, Disciplined, IInv, EventInv, FlightInv
      <4> QED  BY <2>1, <4>1, <4>2
    <3>3. m_next[e] = NULL
      BY <1>2, <3>1, <3>2, IdleFacts
    <3>4. ~Subscribed(m_sending_module[e], e)
      BY <1>2, SenderUnsubscribed DEF IInv
    <3> QED  BY <3>1, <3>3, <3>4 DEF Sendable, NoAssertionFails
  <2>2. CASE UNCHANGED failed
    BY <1>2, <2>2 DEF NoAssertionFails
  <2>3. CASE RouterStep \/ LoopStep \/ ErInit \/ ErDeinit
    BY <2>2, <2>3 DEF RouterStep, LoopStep, FindEnd, AppendAtEnd, ClearDeliverNext,
       ErCallHandlers, AllHandled, DropReference, CallSender, ErNewLoop,
       ErGetEventToDeliver, HandlerHandled, HandlerKept, ErInit, ErDeinit
  <2>4. ASSUME NEW e \in Event, NEW m \in Module, ErReturnToSender(m, e)
        PROVE  NoAssertionFails'
    BY <2>2, <2>4 DEF ErReturnToSender
  <2>5. ASSUME NEW m \in Module, NEW ty \in RoutableType,
               ErSubscribe(m, ty) \/ ErUnsubscribe(m, ty)
        PROVE  NoAssertionFails'
    BY <2>2, <2>5 DEF ErSubscribe, ErUnsubscribe
  <2> QED  BY <1>2, <2>1, <2>2, <2>3, <2>4, <2>5 DEF Next, vars
<1> QED  BY <1>1, <1>2, Invariance, PTL DEF Spec
-----------------------------------------------------------------------------
(* Sequences that lose their first or gain a last element.                 *)
LEMMA EndsOfConcat ==
  ASSUME NEW a \in Seq(Event), NEW b \in Seq(Event), NEW e \in Event
  PROVE  /\ a \o Append(b, e) = Append(a \o b, e)
         /\ a \o <<>> = a
         /\ a # <<>> => a \o b # <<>> /\ Tail(a \o b) = Tail(a) \o b
<1>1. a \o Append(b, e) = Append(a \o b, e) /\ a \o <<>> = a
  OBVIOUS
<1>2. ASSUME a # <<>>
      PROVE  a \o b # <<>> /\ Tail(a \o b) = Tail(a) \o b
  <2>1. Len(a) \in Nat \ {0} /\ Len(b) \in Nat /\ Len(a \o b) = Len(a) + Len(b)
        /\ Tail(a) \in Seq(Event) /\ Tail(a \o b) \in Seq(Event) /\ Len(Tail(a)) = Len(a) - 1
    BY <1>2
  <2> QED  BY <1>2, <2>1
<1> QED  BY <1>1, <1>2

(* What is pending changes with the two lists only.                        *)
LEMMA PendingUnchanged ==
  ASSUME Queue("m_deliver_now")' = Queue("m_deliver_now"),
         Queue("m_deliver_next")' = Queue("m_deliver_next"),
         op'.pc = "clear" <=> op.pc = "clear"
  PROVE  Pending' = Pending
BY DEF Pending, Queue

(* A step of the router or of an interrupt takes the first pending event,  *)
(* adds one at the end, or leaves them as they are.                        *)
LEMMA StepKeepsOrder ==
  ASSUME Disciplined, IInv, Next
  PROVE  \/ Pending' = Pending
         \/ Pending # <<>> /\ Pending' = Tail(Pending)
         \/ \E e \in Event : Pending' = Append(Pending, e)
<1> DEFINE a == Queue("m_deliver_now")
           b == Queue("m_deliver_next")
<1>0. a \in Seq(Event) /\ b \in Seq(Event) /\ a' \in Seq(Event) /\ b' \in Seq(Event)
  <2>1. IInv'
    BY NextKeeps
  <2>2. \A l \in List : Queue(l) \in Seq(Event) /\ Queue(l)' \in Seq(Event)
    BY <2>1 DEF IInv, ListsInv, IsChain
  <2> QED  BY <2>2 DEF List
<1>1. Pending = a \o (IF op.pc = "clear" THEN <<>> ELSE b)
  BY DEF Pending, Queue
<1>2. Pending' = a' \o (IF op'.pc = "clear" THEN <<>> ELSE b')
  BY DEF Pending, Queue
<1>3. CASE AppendAtEnd
  <2>1. op.pc # "clear" /\ op'.pc # "clear" /\ op.e \in Event /\ b' = Append(b, op.e) /\ a' = a
    BY <1>3, Appended DEF AppendAtEnd, At
  <2> HIDE DEF a, b
  <2>2. Pending' = Append(Pending, op.e)
    BY <1>0, <1>1, <1>2, <2>1, EndsOfConcat
  <2> QED  BY <2>1, <2>2
<1>4. ASSUME NEW e \in Event, Interrupt(e)
      PROVE  Pending' = Append(Pending, e)
  <2>1. /\ op' = op /\ b' = Append(b, e)
        /\ a' = IF op.pc = "clear" THEN Append(a, e) ELSE a
    BY <1>4, Interrupted DEF Interrupt
  <2> HIDE DEF a, b
  <2>2. CASE op.pc = "clear"
    BY <1>0, <1>1, <1>2, <2>1, <2>2, EndsOfConcat
  <2>3. CASE op.pc # "clear"
    BY <1>0, <1>1, <1>2, <2>1, <2>3, EndsOfConcat
  <2> QED  BY <2>2, <2>3
<1>5. CASE ErNewLoop
  <2>1. op.pc = "none" /\ op'.pc = "clear" /\ a' = a \o b
    BY <1>5, RoundBegins DEF ErNewLoop, InClient
  <2> HIDE DEF a, b
  <2>2. (a \o b) \o <<>> = a \o b
    BY <1>0
  <2> QED  BY <1>1, <1>2, <2>1, <2>2
<1>6. CASE ClearDeliverNext
  <2>1. op.pc = "clear" /\ op'.pc = "none" /\ a' = a /\ b' = <<>>
    BY <1>6, NextCleared DEF ClearDeliverNext, At
  <2> HIDE DEF a, b
  <2> QED  BY <1>1, <1>2, <2>1
<1>7. CASE ErGetEventToDeliver
  <2>1. op.pc = "none" /\ op'.pc = "none" /\ a # <<>> /\ a' = Tail(a) /\ b' = b
    BY <1>7, Taken DEF ErGetEventToDeliver, InClient
  <2>2. PICK e \in Event : TRUE
    BY <1>0, <2>1
  <2> HIDE DEF a, b
  <2>3. Pending # <<>> /\ Pending' = Tail(Pending)
    BY <1>0, <1>1, <1>2, <2>1, <2>2, EndsOfConcat
  <2> QED  BY <2>3
<1>8. CASE HandlerKept
  <2>1. a' = a /\ b' = b /\ op' = op
    BY <1>8, KeptByHandler DEF HandlerKept
  <2> QED  BY <2>1, PendingUnchanged
<1>9. CASE CallSender
  <2>1. a' = a /\ b' = b /\ op.pc # "clear" /\ op'.pc # "clear"
    BY <1>9, HandedBack DEF CallSender, At, None
  <2> QED  BY <2>1, PendingUnchanged
<1>10. CASE UNCHANGED m_next /\ (op'.pc = "clear" <=> op.pc = "clear")
  BY <1>10, SameLists, PendingUnchanged
<1>11. CASE ErDeinit \/ AllHandled
  <2>1. m_next' = m_next
    BY <1>11, Deinitialized, DispatchEnds
  <2>2. op'.pc = "clear" <=> op.pc = "clear"
    BY <1>11 DEF ErDeinit, AllHandled, Dispatching
  <2> QED  BY <1>10, <2>1, <2>2
<1>12. CASE FindEnd \/ ErCallHandlers \/ DropReference \/ HandlerHandled \/ ErInit
  <2>1. CASE FindEnd
    BY <1>10, <2>1 DEF FindEnd, At, None
  <2>2. CASE DropReference
    <3>1. op'.pc = "test" /\ op.pc = "sub" /\ m_next' = m_next
      BY <2>2, Shapes DEF IInv, DropReference, At
    <3> QED  BY <1>10, <3>1
  <2>3. CASE ErCallHandlers \/ HandlerHandled \/ ErInit
    BY <1>10, <2>3 DEF ErCallHandlers, HandlerHandled, ErInit
  <2> QED  BY <1>12, <2>1, <2>2, <2>3
<1>13. ASSUME NEW e \in Event, ErSendEx(e) \/ \E m \in Module : ErReturnToSender(m, e)
       PROVE  Pending' = Pending
  <2>1. m_next' = m_next /\ op.pc # "clear" /\ op'.pc # "clear"
    BY <1>13 DEF ErSendEx, ErReturnToSender, InClient
  <2> QED  BY <2>1, SameLists, PendingUnchanged
<1>14. ASSUME NEW m \in Module, NEW ty \in RoutableType, ErSubscribe(m, ty) \/ ErUnsubscribe(m, ty)
       PROVE  Pending' = Pending
  <2>1. m_next' = m_next /\ op' = op
    BY <1>14 DEF ErSubscribe, ErUnsubscribe
  <2> QED  BY <2>1, SameLists, PendingUnchanged
<1> QED  BY <1>3, <1>4, <1>5, <1>6, <1>7, <1>8, <1>9, <1>11, <1>12, <1>13, <1>14
         DEF Next, RouterStep, LoopStep

(* Events are delivered in the order they were sent, those of a round that *)
(* was not finished first.                                                 *)
THEOREM DeliveryKeepsOrder ==
  ASSUME Disciplined
  PROVE  Spec => DeliveredInOrder
<1>1. ASSUME IInv, [Next]_vars
      PROVE  [\/ Pending' = Pending
              \/ Pending # <<>> /\ Pending' = Tail(Pending)
              \/ \E e \in Event : Pending' = Append(Pending, e)]_vars
  BY <1>1, StepKeepsOrder
<1> QED  BY <1>1, Invariance, PTL DEF Spec, DeliveredInOrder
-----------------------------------------------------------------------------
(* A module that is called with an event, or keeps it, holds it.           *)
LEMMA HoldersAre ==
  ASSUME TypeOK
  PROVE  /\ holders \in [Event -> SUBSET Module]
         /\ \A e \in Event : holders[e] =
              IF disp.pc = "handler" /\ disp.e = e THEN Keepers(e) \cup {disp.m}
                                                   ELSE Keepers(e)
<1>1. disp.pc = "handler" => disp.m \in Module
  BY Shapes
<1>2. \A e \in Event : holders[e] =
              IF disp.pc = "handler" /\ disp.e = e THEN Keepers(e) \cup {disp.m}
                                                   ELSE Keepers(e)
  BY DEF holders
<1>3. holders \in [Event -> SUBSET Module]
  BY <1>1 DEF holders, Keepers
<1> QED  BY <1>2, <1>3

(* The same after a step.                                                  *)
LEMMA HoldersNext ==
  ASSUME TypeOK'
  PROVE  /\ holders' \in [Event -> SUBSET Module]
         /\ \A e \in Event : holders'[e] =
              IF disp'.pc = "handler" /\ disp'.e = e THEN Keepers(e)' \cup {disp'.m}
                                                     ELSE Keepers(e)'
<1>1. disp'.pc = "handler" => disp'.m \in Module
  BY DEF TypeOK, None
<1>2. \A e \in Event : holders'[e] =
              IF disp'.pc = "handler" /\ disp'.e = e THEN Keepers(e)' \cup {disp'.m}
                                                     ELSE Keepers(e)'
  BY DEF holders
<1>3. holders' \in [Event -> SUBSET Module]
  BY <1>1 DEF holders, Keepers
<1> QED  BY <1>2, <1>3

(* A step that no module notices.                                          *)
LEMMA NobodyNotices ==
  ASSUME UNCHANGED <<kept, inFlight>>,
         disp' = disp \/ (disp.pc # "handler" /\ disp'.pc # "handler")
  PROVE  UNCHANGED Lifecycle!vars
<1>1. UNCHANGED holders
  BY DEF holders, Keepers
<1> QED  BY <1>1 DEF Lifecycle!vars

(* Only the holders of one event change.                                   *)
LEMMA OneChanges ==
  ASSUME TypeOK, TypeOK', NEW e \in Event, NEW hs,
         \A x \in Event \ {e} : holders'[x] = holders[x], holders'[e] = hs
  PROVE  holders' = [holders EXCEPT ![e] = hs]
<1>1. holders \in [Event -> SUBSET Module] /\ holders' \in [Event -> SUBSET Module]
  BY HoldersAre, HoldersNext
<1> QED  BY <1>1

(* A handler that is called gets an event in flight, of another module,    *)
(* that its module does not hold: those that keep it were called before.   *)
LEMMA CallingDelivers ==
  ASSUME NobodySubscribesToOwn, IInv, IInv', ErCallHandlers
  PROVE  [Lifecycle!Next]_(Lifecycle!vars)
<1>1. /\ disp.pc = "loop" /\ disp.i \in Nat /\ UNCHANGED <<kept, inFlight>>
  BY Shapes DEF IInv, ErCallHandlers, Dispatching
<1>2. PICK e \in Event : disp.e = e
  BY <1>1, Shapes DEF IInv
<1>3. PICK m \in Module : /\ m_module_idx[m] >= disp.i /\ Subscribed(m, e)
                          /\ disp' = [pc |-> "handler", e |-> e, m |-> m]
  BY <1>2 DEF ErCallHandlers, Receivers
<1>4. EventInv(e) /\ Dispatched(e)
  BY <1>1, <1>2 DEF IInv, Dispatched
<1>5. e \in inFlight
  <2>1. Cardinality(Keepers(e)) \in Nat /\ One(InRouter(e)) = 1 /\ One(Returning(e)) \in 0..1
    BY <1>4, FS_CardinalityType DEF EventInv, KeptInv, InRouter, One
  <2>2. m_reference_count[e]
          = One(InRouter(e)) + Cardinality(Keepers(e)) + One(Returning(e))
    BY <1>4 DEF EventInv, Counted
  <2>3. m_reference_count[e] > 0
    BY <2>1, <2>2
  <2> QED  BY <1>4, <2>3 DEF EventInv, FlightInv
<1>6. m # m_sending_module[e]
  BY <1>3, SenderUnsubscribed DEF IInv
<1>7. m \notin Keepers(e)
  <2>1. m \in Keepers(e) => m_module_idx[m] < disp.i
    BY <1>1, <1>4 DEF EventInv, KeptInv, Position
  <2> QED  BY <1>1, <1>3, <2>1, ModulesAssumption
<1>8. /\ holders[e] = Keepers(e) /\ holders'[e] = Keepers(e) \cup {m}
      /\ \A x \in Event \ {e} : holders'[x] = holders[x]
  <2>1. \A x : Keepers(x)' = Keepers(x)
    BY <1>1 DEF Keepers
  <2> QED  BY <1>1, <1>2, <1>3, <2>1, HoldersAre, HoldersNext DEF IInv
<1>9. holders' = [holders EXCEPT ![e] = @ \cup {m}]
  BY <1>8, OneChanges DEF IInv
<1>10. Lifecycle!Deliver(e, m)
  BY <1>1, <1>5, <1>6, <1>7, <1>8, <1>9 DEF Lifecycle!Deliver
<1> QED  BY <1>10 DEF Lifecycle!Next

(* A handler that returns without keeping its event releases it.           *)
LEMMA ReturningReleases ==
  ASSUME IInv, IInv', HandlerHandled
  PROVE  [Lifecycle!Next]_(Lifecycle!vars)
<1>1. disp.pc = "handler" /\ UNCHANGED <<kept, inFlight>>
  BY DEF HandlerHandled, Dispatching
<1>2. PICK e \in Event, m \in Module : disp.e = e /\ disp.m = m
  BY <1>1, Shapes DEF IInv
<1>3. disp'.pc = "loop"
  BY DEF HandlerHandled, Continue
<1>4. m \notin Keepers(e)
  <2>1. m \in Keepers(e) => m_module_idx[m] < m_module_idx[m]
    BY <1>1, <1>2 DEF IInv, EventInv, KeptInv, Dispatched, Position
  <2> QED  BY <2>1, ModulesAssumption
<1>5. /\ holders[e] = Keepers(e) \cup {m} /\ holders'[e] = Keepers(e)
      /\ \A x \in Event \ {e} : holders'[x] = holders[x]
  <2>1. \A x : Keepers(x)' = Keepers(x)
    BY <1>1 DEF Keepers
  <2> QED  BY <1>1, <1>2, <1>3, <2>1, HoldersAre, HoldersNext DEF IInv
<1>6. holders'[e] = holders[e] \ {m}
  BY <1>4, <1>5
<1>7. holders' = [holders EXCEPT ![e] = @ \ {m}]
  BY <1>5, <1>6, OneChanges DEF IInv
<1>8. Lifecycle!Release(e, m)
  BY <1>1, <1>5, <1>7 DEF Lifecycle!Release
<1> QED  BY <1>8 DEF Lifecycle!Next

(* A module whose handler keeps the event holds it as before.              *)
LEMMA KeepingHolds ==
  ASSUME IInv, IInv', HandlerKept
  PROVE  UNCHANGED Lifecycle!vars
<1>1. disp.pc = "handler" /\ UNCHANGED inFlight
  BY DEF HandlerKept, Dispatching
<1>2. PICK e \in Event, m \in Module : disp.e = e /\ disp.m = m
  BY <1>1, Shapes DEF IInv
<1>3. disp'.pc = "loop" /\ kept' = [kept EXCEPT ![m][e] = @ + 1]
  BY <1>2 DEF HandlerKept, Continue
<1>4. /\ Keepers(e)' = Keepers(e) \cup {m}
      /\ \A x \in Event \ {e} : Keepers(x)' = Keepers(x)
  <2>1. kept \in [Module -> [Event -> 0..1]]
    BY DEF IInv, TypeOK
  <2>2. kept' = [kept EXCEPT ![m] = [kept[m] EXCEPT ![e] = kept[m][e] + 1]]
    BY <1>3
  <2>3. /\ kept'[m][e] = kept[m][e] + 1 /\ kept[m][e] \in 0..1
        /\ \A n \in Module, x \in Event : n # m \/ x # e => kept'[n][x] = kept[n][x]
    BY <2>1, <2>2
  <2> QED  BY <2>3 DEF Keepers
<1>5. \A x \in Event : holders'[x] = holders[x]
  BY <1>1, <1>2, <1>3, <1>4, HoldersAre, HoldersNext DEF IInv
<1>6. holders' = holders
  BY <1>5, HoldersAre, HoldersNext DEF IInv
<1> QED  BY <1>1, <1>6 DEF Lifecycle!vars

(* A module that gives an event back releases it; it is not in the middle  *)
(* of the handler that got it.                                             *)
LEMMA GivingBackReleases ==
  ASSUME IInv, IInv', NEW m \in Module, NEW e \in Event, ErReturnToSender(m, e)
  PROVE  [Lifecycle!Next]_(Lifecycle!vars)
<1>1. /\ kept[m][e] > 0 /\ kept' = [kept EXCEPT ![m][e] = @ - 1]
      /\ UNCHANGED <<disp, inFlight>>
  BY DEF ErReturnToSender
<1>2. m \in Keepers(e)
  BY <1>1 DEF Keepers
<1>3. /\ Keepers(e)' = Keepers(e) \ {m}
      /\ \A x \in Event \ {e} : Keepers(x)' = Keepers(x)
  <2>1. kept \in [Module -> [Event -> 0..1]]
    BY DEF IInv, TypeOK
  <2>2. kept' = [kept EXCEPT ![m] = [kept[m] EXCEPT ![e] = kept[m][e] - 1]]
    BY <1>1
  <2>3. /\ kept'[m][e] = kept[m][e] - 1 /\ kept[m][e] = 1
        /\ \A n \in Module, x \in Event : n # m \/ x # e => kept'[n][x] = kept[n][x]
    BY <1>1, <2>1, <2>2
  <2> QED  BY <2>3 DEF Keepers
<1>4. ~(disp.pc = "handler" /\ disp.e = e /\ disp.m = m)
  <2>1. ASSUME disp.pc = "handler", disp.e = e, disp.m = m
        PROVE  m_module_idx[m] < m_module_idx[m]
    BY <1>2, <2>1 DEF IInv, EventInv, KeptInv, Dispatched, Position
  <2> QED  BY <2>1, ModulesAssumption
<1>5. /\ m \in holders[e] /\ holders'[e] = holders[e] \ {m}
      /\ \A x \in Event \ {e} : holders'[x] = holders[x]
  BY <1>1, <1>2, <1>3, <1>4, HoldersAre, HoldersNext DEF IInv
<1>6. holders' = [holders EXCEPT ![e] = @ \ {m}]
  BY <1>5, OneChanges DEF IInv
<1>7. Lifecycle!Release(e, m)
  BY <1>1, <1>5, <1>6 DEF Lifecycle!Release
<1> QED  BY <1>7 DEF Lifecycle!Next

(* The sender gets its event back when no module holds it.                 *)
LEMMA CallSenderReturns ==
  ASSUME IInv, CallSender
  PROVE  [Lifecycle!Next]_(Lifecycle!vars)
<1>1. PICK e \in Event : op = [pc |-> "test", e |-> e]
  BY Shapes DEF IInv, CallSender, At
<1>2. UNCHANGED <<kept, disp>>
  BY DEF CallSender
<1>3. UNCHANGED holders
  BY <1>2 DEF holders, Keepers
<1>4. CASE m_reference_count[e] = 0
  <2>1. inFlight' = inFlight \ {e}
    BY <1>1, <1>4 DEF CallSender
  <2>2. e \in inFlight
    BY <1>1 DEF IInv, EventInv, FlightInv, Tested
  <2>3. holders[e] = {}
    <3>1. Keepers(e) = {} /\ ~Dispatched(e)
      BY <1>4, NothingHeld DEF InRouter
    <3> QED  BY <3>1, HoldersAre DEF IInv, Dispatched
  <2>4. Lifecycle!Return(e)
    BY <1>3, <2>1, <2>2, <2>3 DEF Lifecycle!Return
  <2> QED  BY <2>4 DEF Lifecycle!Next
<1>5. CASE m_reference_count[e] # 0
  BY <1>1, <1>2, <1>5, NobodyNotices DEF CallSender
<1> QED  BY <1>4, <1>5

(* Only an event that is back is sent.                                     *)
LEMMA SendingSends ==
  ASSUME Disciplined, IInv, NEW e \in Event, ErSendEx(e) \/ Interrupt(e)
  PROVE  Lifecycle!Next
<1>1. UNCHANGED <<kept, disp>> /\ inFlight' = inFlight \cup {e}
  BY DEF ErSendEx, Interrupt
<1>2. UNCHANGED holders
  BY <1>1 DEF holders, Keepers
<1>3. e \notin inFlight
  <2>1. CASE ErSendEx(e)
    <3>1. m_reference_count[e] = 0 /\ ~Tested(e)
      BY <2>1 DEF ErSendEx, InClient, ErEventIsInFlight, Tested
    <3> QED  BY <3>1, IdleFacts
  <2>2. CASE Interrupt(e)
    BY <2>2 DEF Interrupt, Disciplined
  <2> QED  BY <2>1, <2>2
<1>4. Lifecycle!Send(e)
  BY <1>1, <1>2, <1>3 DEF Lifecycle!Send
<1> QED  BY <1>4 DEF Lifecycle!Next

(* Each step is one of the lifecycle, or none that a module notices.       *)
LEMMA StepSimulated ==
  ASSUME Disciplined, NobodySubscribesToOwn, IInv, IInv', [Next]_vars
  PROVE  [Lifecycle!Next]_(Lifecycle!vars)
<1>1. CASE ErCallHandlers
  BY <1>1, CallingDelivers
<1>2. CASE HandlerHandled
  BY <1>2, ReturningReleases
<1>3. CASE HandlerKept
  BY <1>3, KeepingHolds
<1>4. CASE CallSender
  BY <1>4, CallSenderReturns
<1>5. ASSUME NEW e \in Event, ErSendEx(e) \/ Interrupt(e)
      PROVE  [Lifecycle!Next]_(Lifecycle!vars)
  BY <1>5, SendingSends
<1>6. ASSUME NEW e \in Event, NEW m \in Module, ErReturnToSender(m, e)
      PROVE  [Lifecycle!Next]_(Lifecycle!vars)
  BY <1>6, GivingBackReleases
<1>7. CASE UNCHANGED <<kept, inFlight, disp>>
  BY <1>7, NobodyNotices
<1>8. CASE \/ ErInit \/ ErDeinit \/ FindEnd \/ AppendAtEnd \/ ClearDeliverNext
           \/ DropReference \/ ErNewLoop
  BY <1>7, <1>8 DEF ErInit, ErDeinit, FindEnd, AppendAtEnd, ClearDeliverNext,
                    DropReference, ErNewLoop
<1>9. CASE AllHandled \/ ErGetEventToDeliver
  <2>1. UNCHANGED <<kept, inFlight>> /\ disp.pc # "handler" /\ disp'.pc # "handler"
    BY <1>9 DEF AllHandled, ErGetEventToDeliver, Dispatching, InClient, None
  <2> QED  BY <2>1, NobodyNotices
<1>10. ASSUME NEW m \in Module, NEW ty \in RoutableType,
              ErSubscribe(m, ty) \/ ErUnsubscribe(m, ty)
       PROVE  [Lifecycle!Next]_(Lifecycle!vars)
  BY <1>7, <1>10 DEF ErSubscribe, ErUnsubscribe
<1>11. CASE UNCHANGED vars
  BY <1>7, <1>11 DEF vars
<1> QED  BY <1>1, <1>2, <1>3, <1>4, <1>5, <1>6, <1>8, <1>9, <1>10, <1>11
         DEF Next, RouterStep, LoopStep

(* This router implements the same documented lifecycle as the others: an  *)
(* idle event is sent, each subscribed module but its owner gets it, some  *)
(* keep it, and the owner gets it back when nobody holds it any more.      *)
THEOREM ImplementsLifecycle ==
  ASSUME Disciplined, NobodySubscribesToOwn
  PROVE  Spec => LifecycleSpec
<1>1. Init => Lifecycle!Init
  <2> SUFFICES ASSUME Init
               PROVE  Lifecycle!Init
    OBVIOUS
  <2>1. \A e \in Event : Keepers(e) = {} /\ disp.pc # "handler"
    BY DEF Init, Keepers, None
  <2>2. holders = [e \in Event |-> {}]
    BY <2>1 DEF holders
  <2> QED  BY <2>2 DEF Init, Lifecycle!Init
<1>2. IInv /\ IInv' /\ [Next]_vars => [Lifecycle!Next]_(Lifecycle!vars)
  BY StepSimulated
<1> QED
  BY <1>1, <1>2, Invariance, PTL DEF Spec, LifecycleSpec, Lifecycle!Spec
=============================================================================

--------------------------- MODULE CloudCallsProofs ---------------------------
(***************************************************************************)
(* Theorems about CloudCalls, for any forest of calls, any gate and any    *)
(* number of workers, requests, retries, tokens and troubles: what is lent *)
(* out is given back, a write happens once and is told, and a service call *)
(* is not refused for a token that died before.                            *)
(***************************************************************************)
EXTENDS CloudCalls, FiniteSetTheorems, TLAPS

-----------------------------------------------------------------------------
(* The forest. *)

LEMMA KidFacts ==
  ASSUME NEW n \in Nodes \cup {NoNode}
  PROVE  /\ Kids[n] \subseteq Nodes
         /\ \A k \in Nodes : k \in Kids[n] <=> Parent[k] = n
BY DEF Kids

LEMMA TreeFacts ==
  /\ Roots \subseteq Nodes /\ Leaves \subseteq Nodes /\ Roots \cap Leaves = {}
  /\ Writes \subseteq Leaves /\ Service \subseteq Leaves /\ Writes \cap Service = {}
  /\ \A n \in Nodes : n \in Roots <=> Parent[n] = NoNode
  /\ \A n \in Nodes : n \notin Roots => Parent[n] \in Nodes /\ n \in Kids[Parent[n]]
  /\ \A k \in Nodes : k \notin Roots => Parent[k] \notin Leaves
  /\ \A n \in Nodes : Parent[n] # n
<1>1. NoNode \in Nodes \cup {NoNode} /\ Parent \in [Nodes -> Nodes \cup {NoNode}]
  BY CallsAssumption
<1>2. Roots \subseteq Nodes /\ \A n \in Nodes : n \in Roots <=> Parent[n] = NoNode
  BY <1>1, KidFacts DEF Roots
<1>3. \A n \in Nodes : n \notin Roots => Parent[n] \in Nodes /\ n \in Kids[Parent[n]]
  BY <1>1, <1>2, KidFacts
<1>4. \A k \in Nodes : k \notin Roots => Parent[k] \notin Leaves
  BY <1>3 DEF Leaves
<1>5. \A n \in Nodes : Parent[n] # n
  <2>1. \A n \in Nodes : {n} \in SUBSET Nodes /\ {n} # {}
    OBVIOUS
  <2>2. \A n \in Nodes : \E m \in {n} : Parent[m] \notin {n}
    BY <2>1, CallsAssumption
  <2> QED BY <2>2
<1> QED BY <1>2, <1>3, <1>4, <1>5, CallsAssumption DEF Leaves

\* The nodes on the way up to where the climb stops.
Climbs(n, stops) == {some \in SUBSET Nodes : n \in some /\ \A m \in some \ stops : Parent[m] \in some}
Way(n, stops) == {m \in Nodes : \A some \in Climbs(n, stops) : m \in some}

LEMMA WayUp ==
  ASSUME NEW stops, Roots \subseteq stops, NEW n \in Nodes
  PROVE  /\ n \in stops => Way(n, stops) = {n}
         /\ n \notin stops => Way(n, stops) = {n} \cup Way(Parent[n], stops)
<1>1. \A m \in Nodes \ stops : Parent[m] \in Nodes
  BY TreeFacts
<1>2. ASSUME n \in stops PROVE Way(n, stops) = {n}
  <2>1. {n} \in Climbs(n, stops)
    BY <1>2 DEF Climbs
  <2>2. \A some \in Climbs(n, stops) : n \in some
    BY DEF Climbs
  <2> QED BY <2>1, <2>2 DEF Way
<1>3. ASSUME n \notin stops PROVE Way(n, stops) = {n} \cup Way(Parent[n], stops)
  <2> DEFINE p == Parent[n]
  <2>1. p \in Nodes
    BY <1>1, <1>3
  <2>2. Climbs(n, stops) \subseteq Climbs(p, stops)
    BY <1>3 DEF Climbs
  <2>3. p \in Way(p, stops)
    BY <2>1 DEF Way, Climbs
  <2>4. \A m \in Way(p, stops) \ stops : Parent[m] \in Way(p, stops)
    <3> SUFFICES ASSUME NEW m \in Way(p, stops), m \notin stops PROVE Parent[m] \in Way(p, stops)
      OBVIOUS
    <3>1. m \in Nodes /\ \A some \in Climbs(p, stops) : m \in some
      BY DEF Way
    <3>2. \A some \in Climbs(p, stops) : Parent[m] \in some
      BY <3>1 DEF Climbs
    <3> QED BY <1>1, <3>1, <3>2 DEF Way
  <2>5. {n} \cup Way(p, stops) \in Climbs(n, stops)
    <3> DEFINE both == {n} \cup Way(p, stops)
    <3>1. both \subseteq Nodes
      BY DEF Way
    <3>2. \A m \in both \ stops : Parent[m] \in both
      BY <2>3, <2>4
    <3> HIDE DEF both
    <3> QED BY <3>1, <3>2 DEF Climbs, both
  <2>6. Way(n, stops) \subseteq {n} \cup Way(p, stops)
    BY <2>5 DEF Way
  <2>7. \A m \in {n} \cup Way(p, stops) : m \in Nodes /\ \A some \in Climbs(n, stops) : m \in some
    BY <2>2 DEF Way, Climbs
  <2>8. {n} \cup Way(p, stops) \subseteq Way(n, stops)
    BY <2>7 DEF Way
  <2> QED BY <2>6, <2>8
<1> QED BY <1>2, <1>3

\* What is defined by climbing to a stop is defined.
LEMMA ClimbExists ==
  ASSUME NEW stops, Roots \subseteq stops
  PROVE  \E f : f = [n \in Nodes |-> IF n \in stops THEN n ELSE f[Parent[n]]]
<1> DEFINE Stop(some) == CHOOSE s : s \in some \cap stops
           f == [n \in Nodes |-> Stop(Way(n, stops))]
<1>1. ASSUME NEW n \in Nodes PROVE f[n] = IF n \in stops THEN n ELSE f[Parent[n]]
  <2>1. CASE n \in stops
    <3>1. Way(n, stops) \cap stops = {n}
      BY <2>1, WayUp
    <3>2. Stop(Way(n, stops)) \in Way(n, stops) \cap stops
      BY <3>1
    <3> QED BY <2>1, <3>1, <3>2
  <2>2. CASE n \notin stops
    <3>1. Parent[n] \in Nodes
      BY <2>2, TreeFacts
    <3>2. Way(n, stops) \cap stops = Way(Parent[n], stops) \cap stops
      BY <2>2, WayUp
    <3>3. Stop(Way(n, stops)) = Stop(Way(Parent[n], stops))
      BY <3>2
    <3>4. f[n] = Stop(Way(n, stops)) /\ f[Parent[n]] = Stop(Way(Parent[n], stops))
      BY <3>1
    <3> HIDE DEF f, Stop
    <3> QED BY <2>2, <3>3, <3>4
  <2> QED BY <2>1, <2>2
<1>2. f = [n \in Nodes |-> IF n \in stops THEN n ELSE f[Parent[n]]]
  <2>1. f = [n \in Nodes |-> f[n]]
    OBVIOUS
  <2> HIDE DEF f
  <2> QED BY <1>1, <2>1
<1> HIDE DEF f
<1> QED BY <1>2

LEMMA TopDefined ==
  /\ \A n \in Nodes : Top[n] = IF Parent[n] = NoNode THEN n ELSE Top[Parent[n]]
<1>1. PICK f : f = [n \in Nodes |-> IF n \in Roots THEN n ELSE f[Parent[n]]]
  BY ClimbExists
<1>2. f = [n \in Nodes |-> IF Parent[n] = NoNode THEN n ELSE f[Parent[n]]]
  BY <1>1, TreeFacts
<1> DEFINE Eq(g) == g = [n \in Nodes |-> IF Parent[n] = NoNode THEN n ELSE g[Parent[n]]]
<1>3. \E g : Eq(g)
  BY <1>2
<1>4. Top = CHOOSE g : Eq(g)
  BY DEF Top
<1> HIDE DEF Eq
<1>5. Eq(Top)
  BY <1>3, <1>4
<1> QED BY <1>5 DEF Eq

Heads == {n \in Nodes : Parent[n] = NoNode \/ InPool(n)}

LEMMA ThreadDefined ==
  /\ \A n \in Nodes : ThreadOf[n] = IF n \in Heads THEN n ELSE ThreadOf[Parent[n]]
<1>1. Roots \subseteq Heads
  BY TreeFacts DEF Heads
<1>2. PICK f : f = [n \in Nodes |-> IF n \in Heads THEN n ELSE f[Parent[n]]]
  BY <1>1, ClimbExists
<1> DEFINE Eq(g) == g = [n \in Nodes |-> IF Parent[n] = NoNode \/ InPool(n) THEN n ELSE g[Parent[n]]]
<1>3. Eq(f)
  BY <1>2 DEF Heads
<1>4. ThreadOf = CHOOSE g : Eq(g)
  BY DEF ThreadOf
<1> HIDE DEF Eq
<1>5. Eq(ThreadOf)
  BY <1>3, <1>4
<1> QED BY <1>5 DEF Eq, Heads

\* What holds of a node if it holds of its parent, holds of every node.
LEMMA UpTheTree ==
  ASSUME NEW good,
         \A n \in Nodes : n \in Roots \/ Parent[n] \in good => n \in good
  PROVE  Nodes \subseteq good
<1> DEFINE bad == Nodes \ good
<1> SUFFICES ASSUME bad # {} PROVE FALSE
  OBVIOUS
<1>1. PICK n \in bad : Parent[n] \notin bad
  BY CallsAssumption
<1> QED BY <1>1, TreeFacts

LEMMA TopIsRoot == \A n \in Nodes : Top[n] \in Roots
<1> DEFINE good == {n \in Nodes : Top[n] \in Roots}
<1>1. \A n \in Nodes : n \in Roots \/ Parent[n] \in good => n \in good
  BY TopDefined, TreeFacts
<1> HIDE DEF good
<1>2. Nodes \subseteq good
  BY <1>1, UpTheTree
<1> QED BY <1>2 DEF good

LEMMA ThreadIsHead == \A n \in Nodes : ThreadOf[n] \in Heads /\ ThreadOf[ThreadOf[n]] = ThreadOf[n]
<1> DEFINE good == {n \in Nodes : ThreadOf[n] \in Heads}
<1>1. \A n \in Nodes : n \in Roots \/ Parent[n] \in good => n \in good
  BY ThreadDefined, TreeFacts DEF Heads
<1> HIDE DEF good
<1>2. Nodes \subseteq good
  BY <1>1, UpTheTree
<1>3. \A n \in Nodes : ThreadOf[n] \in Heads
  BY <1>2 DEF good
<1> QED BY <1>3, ThreadDefined DEF Heads

-----------------------------------------------------------------------------
(* Types, and what is under way. *)

Live(n) == stage[n] \in {"wants", "flying", "under"}

\* A write that is not told yet is not over for its parent.
Busy(n) == Live(n) \/ (n \in Writes /\ stage[n] \in {"ok", "failed"} /\ trail[n] = "nothing")

Flying == {c \in Leaves : stage[c] = "flying"}

KindInv ==
    \A n \in Nodes : /\ stage[n] \in {"wants", "flying"} => n \in Leaves
                     /\ stage[n] = "under" => n \notin Leaves

\* Whatever is under way is part of something that is.
ParentInv == \A n \in Nodes \ Roots : Busy(n) => stage[Parent[n]] = "under"

\* What a killed process was doing is lost with the request it was part of.
LostInv == \A n \in Nodes : stage[n] = "lost" => stage[Top[n]] = "lost"

GateInv == IsFiniteSet(Flying) /\ free = Gate - Cardinality(Flying)

TreeInv == CallsTypeOK /\ KindInv /\ ParentInv /\ LostInv /\ GateInv

LEMMA LiveAbove ==
  ASSUME CallsTypeOK, KindInv, ParentInv
  PROVE  /\ \A n \in Nodes : Busy(n) => stage[Top[n]] = "under"
         /\ \A n \in Nodes : Live(n) => Live(ThreadOf[n])
<1>1. \A n \in Roots : Busy(n) => stage[n] = "under"
  BY TreeFacts DEF Busy, Live, KindInv
<1>2. \A n \in Nodes \ Roots : Busy(n) => stage[Parent[n]] = "under" /\ Live(Parent[n])
  BY DEF ParentInv, Live
<1>3. \A n \in Nodes : Busy(n) => stage[Top[n]] = "under"
  <2> DEFINE good == {n \in Nodes : Busy(n) => stage[Top[n]] = "under"}
  <2>1. ASSUME NEW n \in Nodes, n \in Roots \/ Parent[n] \in good PROVE n \in good
    <3>1. CASE n \in Roots
      BY <1>1, <3>1, TopDefined, TreeFacts
    <3>2. CASE n \notin Roots
      <4>1. Parent[n] # NoNode /\ Top[n] = Top[Parent[n]]
        BY <3>2, TopDefined, TreeFacts
      <4>2. Busy(n) => Busy(Parent[n])
        BY <1>2, <3>2 DEF Busy
      <4> QED BY <2>1, <3>2, <4>1, <4>2
    <3> QED BY <3>1, <3>2
  <2> HIDE DEF good
  <2>2. Nodes \subseteq good
    BY <2>1, UpTheTree
  <2> QED BY <2>2 DEF good
<1>4. \A n \in Nodes : Live(n) => Live(ThreadOf[n])
  <2> DEFINE good == {n \in Nodes : Live(n) => Live(ThreadOf[n])}
  <2>1. ASSUME NEW n \in Nodes, n \in Roots \/ Parent[n] \in good PROVE n \in good
    <3>1. CASE n \in Heads
      BY <3>1, ThreadDefined
    <3>2. CASE n \notin Heads
      <4>1. n \notin Roots /\ ThreadOf[n] = ThreadOf[Parent[n]]
        BY <3>2, ThreadDefined, TreeFacts DEF Heads
      <4>2. Live(n) => Live(Parent[n])
        BY <1>2, <4>1 DEF Busy
      <4> QED BY <2>1, <4>1, <4>2
    <3> QED BY <3>1, <3>2
  <2> HIDE DEF good
  <2>2. Nodes \subseteq good
    BY <2>1, UpTheTree
  <2> QED BY <2>2 DEF good
<1> QED BY <1>3, <1>4

LEMMA TreeInit == Init => TreeInv
<1> SUFFICES ASSUME Init PROVE TreeInv
  OBVIOUS
<1>1. CallsTypeOK
  BY CallsAssumption DEF Init, CallsTypeOK, Tokens
<1>2. KindInv /\ ParentInv /\ LostInv
  BY TreeFacts DEF Init, KindInv, ParentInv, LostInv, Busy, Live
<1>3. Flying = {}
  BY TreeFacts DEF Init, Flying
<1>4. GateInv
  BY <1>3, FS_EmptySet, CallsAssumption DEF Init, GateInv
<1> QED BY <1>1, <1>2, <1>4 DEF TreeInv

\* What a thread does to the stage of its node.
StageMoves(n) ==
    \/ n \in Roots /\ stage[n] = "idle" /\ stage'[n] = "under"
    \/ /\ n \notin Roots /\ stage[n] = "idle" /\ stage[Parent[n]] = "under"
       /\ stage'[n] = IF n \in Leaves THEN "wants" ELSE "under"
    \/ n \notin Leaves /\ stage[n] = "under" /\ stage'[n] \in {"ok", "failed"} /\ Ends(n)
    \/ n \in Leaves /\ stage[n] = "wants" /\ stage'[n] = "flying"
    \/ n \in Leaves /\ stage[n] = "flying" /\ stage'[n] \in {"wants", "ok", "failed"}

LEMMA Moves ==
  ASSUME CallsTypeOK, NEW n \in Nodes, Begin(n) \/ Step(n)
  PROVE  /\ stage' \in [Nodes -> {"idle", "wants", "flying", "under"} \cup Over]
         /\ \A m \in Nodes \ {n} : stage'[m] = stage[m]
         /\ \/ StageMoves(n) /\ UNCHANGED trail
            \/ Record(n) /\ UNCHANGED stage
            \/ CacheRefuses(n) /\ stage[n] = "ok" /\ stage'[n] = "failed"
<1>1. stage \in [Nodes -> {"idle", "wants", "flying", "under"} \cup Over]
  BY DEF CallsTypeOK
<1>2. CASE Begin(n) \/ Start(n) \/ Call(n)
  <2>1. \E s \in {"under", "wants"} : Becomes(n, s)
    BY <1>2 DEF Begin, Start, Call
  <2> QED BY <1>1, <1>2, <2>1, TreeFacts DEF Begin, Start, Call, MayStart, Becomes, StageMoves, Over,
                                             cloudVars
<1>3. CASE End(n) \/ Acquire(n)
  <2>1. \E s \in {"ok", "failed", "flying"} : Becomes(n, s)
    BY <1>3 DEF End, Acquire
  <2> QED BY <1>1, <1>3, <2>1 DEF End, Acquire, Becomes, StageMoves, Over, cloudVars
<1>4. CASE Answer(n)
  <2>1. /\ n \in Leaves /\ stage[n] = "flying" /\ UNCHANGED trail
        /\ \E s \in {"wants", "ok", "failed"} : Becomes(n, s)
    BY <1>4 DEF Answer, SignedIn, Succeeds, Renews, Spoils, cloudVars
  <2> QED BY <1>1, <2>1 DEF Becomes, StageMoves, Over
<1>5. CASE Record(n)
  BY <1>1, <1>5 DEF Record
<1>6. CASE CacheRefuses(n)
  BY <1>1, <1>6 DEF CacheRefuses, Becomes, Over
<1> QED BY <1>2, <1>3, <1>4, <1>5, <1>6 DEF Step

LEMMA ParentStep ==
  ASSUME TreeInv, NEW n \in Nodes, Begin(n) \/ Step(n)
  PROVE  KindInv' /\ ParentInv' /\ LostInv'
<1>1. CallsTypeOK /\ KindInv /\ ParentInv /\ LostInv
  BY DEF TreeInv
<1>2. \A m \in Nodes \ {n} : stage'[m] = stage[m]
  BY <1>1, Moves
<1>3. KindInv'
  BY <1>1, <1>2, Moves, TreeFacts DEF KindInv, StageMoves
<1>4. stage[n] # "lost" => stage'[n] # "lost"
  BY <1>1, Moves DEF StageMoves
<1>5. stage[n] = "lost" => stage'[n] = "lost"
  <2>1. StageMoves(n) => stage[n] # "lost"
    BY DEF StageMoves
  <2> QED BY <1>1, <2>1, Moves
<1>6. LostInv'
  <2> SUFFICES ASSUME NEW m \in Nodes, stage'[m] = "lost" PROVE stage'[Top[m]] = "lost"
    BY DEF LostInv
  <2>1. stage[m] = "lost" /\ Top[m] \in Nodes
    BY <1>2, <1>4, TopIsRoot, TreeFacts
  <2>2. stage[Top[m]] = "lost"
    BY <1>1, <2>1 DEF LostInv
  <2> QED BY <1>2, <1>5, <2>1, <2>2
<1>7. ASSUME NEW m \in Nodes \ Roots, Busy(m)' PROVE stage'[Parent[m]] = "under"
  <2>1. Parent[m] \in Nodes /\ m \in Kids[Parent[m]] /\ Parent[m] \notin Leaves
    BY TreeFacts
  <2>2. Busy(m) \/ (m = n /\ stage[Parent[m]] = "under" /\ stage[m] = "idle")
    <3>1. CASE StageMoves(n) /\ UNCHANGED trail
      BY <1>2, <1>7, <3>1 DEF StageMoves, Busy, Live
    <3>2. CASE Record(n) /\ UNCHANGED stage
      BY <1>1, <1>7, <3>2 DEF Record, Busy, Live, CallsTypeOK
    <3>3. CASE CacheRefuses(n)
      <4>1. stage'[n] = "failed" /\ trail'[n] = "unwritten" /\ \A w \in Writes \ {n} : trail'[w] = trail[w]
        BY <1>1, <3>3 DEF CacheRefuses, Becomes, CallsTypeOK
      <4> QED BY <1>2, <1>7, <4>1 DEF Busy, Live
    <3> QED BY <1>1, <3>1, <3>2, <3>3, Moves
  <2>3. stage[Parent[m]] = "under"
    BY <1>1, <2>2 DEF ParentInv
  <2>4. CASE Parent[m] # n
    BY <1>2, <2>1, <2>3, <2>4
  <2>5. CASE Parent[m] = n
    <3>1. m # n
      BY <2>5, TreeFacts
    <3>2. Busy(m)
      BY <2>2, <3>1
    <3>3. ~ Settled(m) /\ Begun(m)
      BY <3>2 DEF Busy, Live, Settled, Begun, Over
    <3>4. ~ Ends(n)
      BY <2>1, <2>5, <3>3 DEF Ends
    <3>5. ~ CacheRefuses(n)
      BY <2>1, <2>5, TreeFacts DEF CacheRefuses
    <3> QED BY <1>1, <2>3, <2>5, <3>4, <3>5, Moves DEF StageMoves
  <2> QED BY <2>4, <2>5
<1> QED BY <1>3, <1>6, <1>7 DEF ParentInv

\* What a call forgets keeps its type.
LEMMA ForgetsType ==
  ASSUME CallsTypeOK, NEW some, Forgets(some)
  PROVE  /\ attempt' \in [Leaves -> 0..MaxRetries]
         /\ using' \in [Service -> Tokens]
         /\ login' \subseteq Service /\ renewed' \subseteq Service
<1>1. 0 \in 0..MaxRetries /\ 0 \in Tokens
  BY CallsAssumption DEF Tokens
<1>2. attempt' = [c \in Leaves |-> IF c \in some THEN 0 ELSE attempt[c]]
      /\ using' = [c \in Service |-> IF c \in some THEN 0 ELSE using[c]]
      /\ login' = login \ some /\ renewed' = renewed \ some
  BY DEF Forgets
<1> QED BY <1>1, <1>2 DEF CallsTypeOK

LEMMA LinkedType ==
  ASSUME CallsTypeOK, NEW n \in Nodes, Begin(n) \/ Step(n)
  PROVE  linked' \subseteq Nodes
<1>1. CASE Begin(n) \/ Start(n) \/ Acquire(n) \/ Record(n) \/ CacheRefuses(n)
  BY <1>1 DEF Begin, Start, Acquire, Record, CacheRefuses, CallsTypeOK
<1>2. CASE Call(n)
  BY <1>2, ThreadIsHead DEF Call, Heads, CallsTypeOK
<1>3. CASE End(n) \/ Answer(n)
  BY <1>3 DEF End, Answer, SignedIn, Succeeds, Renews, Spoils, Closes, CallsTypeOK, cloudVars
<1> QED BY <1>1, <1>2, <1>3 DEF Step

\* The places at the gate.
LEMMA GateStep ==
  ASSUME CallsTypeOK, GateInv, NEW n \in Nodes, Begin(n) \/ Step(n)
  PROVE  GateInv' /\ free' \in 0..Gate
<1>1. Gate \in Nat \ {0}
  BY CallsAssumption
<1>2. IsFiniteSet(Flying) /\ free = Gate - Cardinality(Flying) /\ free \in 0..Gate
  BY DEF GateInv, CallsTypeOK
<1>3. Cardinality(Flying) \in Nat
  BY <1>2, FS_CardinalityType
<1>4. CASE Acquire(n)
  <2>1. n \in Leaves /\ stage[n] = "wants" /\ stage'[n] = "flying" /\ free > 0 /\ free' = free - 1
    BY <1>4 DEF Acquire, Becomes, CallsTypeOK
  <2>2. Flying' = Flying \cup {n} /\ n \notin Flying
    BY <1>4, <2>1, Moves, TreeFacts DEF Flying, Step
  <2>3. IsFiniteSet(Flying') /\ Cardinality(Flying') = Cardinality(Flying) + 1
    BY <1>2, <2>2, FS_AddElement
  <2> QED BY <1>1, <1>2, <1>3, <2>1, <2>3 DEF GateInv
<1>5. CASE Answer(n)
  <2>1. n \in Leaves /\ stage[n] = "flying" /\ free' = free + 1
    BY <1>5 DEF Answer, Releases
  <2>2. stage'[n] \in {"wants", "ok", "failed"} /\ \A m \in Nodes \ {n} : stage'[m] = stage[m]
    BY <1>5, <2>1, Moves DEF StageMoves, Step, Record, CacheRefuses, Over
  <2>3. Flying' = Flying \ {n} /\ n \in Flying
    BY <2>1, <2>2, TreeFacts DEF Flying
  <2>4. IsFiniteSet(Flying') /\ Cardinality(Flying') = Cardinality(Flying) - 1
    BY <1>2, <2>3, FS_RemoveElement
  <2>5. Cardinality(Flying') \in Nat
    BY <2>4, FS_CardinalityType
  <2> QED BY <1>1, <1>2, <1>3, <2>1, <2>4, <2>5 DEF GateInv
<1>6. CASE ~ (Acquire(n) \/ Answer(n))
  <2>1. UNCHANGED free
    BY <1>6 DEF Begin, Step, Start, Call, End, Record, CacheRefuses
  <2>2. (stage[n] = "flying") <=> (stage'[n] = "flying")
    <3>1. CASE Record(n) \/ CacheRefuses(n)
      BY <3>1 DEF Record, CacheRefuses, Becomes, CallsTypeOK
    <3>2. CASE Begin(n) \/ Start(n) \/ Call(n) \/ End(n)
      BY <3>2 DEF Begin, Start, Call, End, MayStart, Becomes, CallsTypeOK
    <3> QED BY <1>6, <3>1, <3>2 DEF Step
  <2>3. Flying' = Flying
    BY <2>2, Moves, TreeFacts DEF Flying
  <2> QED BY <1>2, <2>1, <2>3 DEF GateInv
<1> QED BY <1>4, <1>5, <1>6

\* Only a refusal is told as one.
LEMMA CodeType ==
  ASSUME NEW a
  PROVE  /\ CodeOf(a) \in Codes
         /\ CodeOf(a) = "refusal" <=> a \notin {"silent", "unwell", "broken", "limited"}
<1>1. CodeOf(a) = IF a = "silent" THEN "no_answer"
                  ELSE IF a \in {"unwell", "broken", "limited"} THEN "upstream_error" ELSE "refusal"
  BY DEF CodeOf
<1> QED BY <1>1 DEF Codes

\* Everything else a call has or the cloud does.
AnswerOK ==
    /\ attempt \in [Leaves -> 0..MaxRetries]
    /\ cached \in Tokens /\ using \in [Service -> Tokens]
    /\ login \subseteq Service /\ renewed \subseteq Service
    /\ why \in [Writes \cup Service -> Errors \cup {"nothing"}]
    /\ carried \in [Writes -> Nat]
    /\ issued \in Tokens /\ dead \subseteq 1..issued
    /\ troubles \in 0..MaxTroubles

LEMMA SpoilsType ==
  ASSUME CallsTypeOK, NEW n \in Leaves, NEW a \in Errors, Spoils(n, a)
  PROVE  AnswerOK'
<1>1. troubles' \in 0..MaxTroubles
  BY CallsAssumption DEF Spoils, Troubled, CallsTypeOK
<1>2. carried' \in [Writes -> Nat]
  <2>1. UNCHANGED carried \/ \E w \in Writes : carried' = [carried EXCEPT ![w] = @ + 1]
    BY DEF Spoils
  <2> QED BY <2>1 DEF CallsTypeOK
<1>3. UNCHANGED <<cached, issued, dead>>
  BY DEF Spoils
<1>4. CASE Retries(n, a)
  <2>1. attempt' = [attempt EXCEPT ![n] = @ + 1] /\ UNCHANGED <<why, using, login, renewed>>
    BY <1>4 DEF Spoils
  <2>2. attempt[n] < MaxRetries /\ attempt[n] \in 0..MaxRetries
    BY <1>4 DEF Retries, CallsTypeOK
  <2>3. attempt[n] + 1 \in 0..MaxRetries
    BY <2>2, CallsAssumption
  <2>4. attempt' \in [Leaves -> 0..MaxRetries]
    BY <2>1, <2>3 DEF CallsTypeOK
  <2> QED BY <1>1, <1>2, <1>3, <2>1, <2>4 DEF AnswerOK, CallsTypeOK
<1>5. CASE ~ Retries(n, a)
  <2>1. why' = [k \in DOMAIN why |-> IF k = n THEN a ELSE why[k]] /\ Forgets({n})
    BY <1>5 DEF Spoils
  <2>2. why' \in [Writes \cup Service -> Errors \cup {"nothing"}]
    BY <2>1 DEF CallsTypeOK
  <2> QED BY <1>1, <1>2, <1>3, <2>1, <2>2, ForgetsType DEF AnswerOK, CallsTypeOK
<1> QED BY <1>4, <1>5

LEMMA AnswerType ==
  ASSUME CallsTypeOK, NEW n \in Nodes, Answer(n)
  PROVE  AnswerOK' /\ UNCHANGED <<trail, unlucky>>
<1>1. n \in Leaves /\ 0 \in 0..MaxRetries
  BY CallsAssumption DEF Answer
<1>2. CASE SignedIn(n)
  <2>1. issued + 1 \in Tokens /\ dead \subseteq 1..(issued + 1) /\ n \in Service
    BY <1>2, CallsAssumption DEF SignedIn, CallsTypeOK, Tokens
  <2> QED BY <1>1, <1>2, <2>1 DEF SignedIn, NewToken, AnswerOK, CallsTypeOK
<1>3. CASE Succeeds(n)
  <2>1. carried' \in [Writes -> Nat]
    BY <1>3 DEF Succeeds, CallsTypeOK
  <2>2. Forgets({n}) /\ UNCHANGED <<cached, why, trail, issued, dead, troubles, unlucky>>
    BY <1>3 DEF Succeeds
  <2> QED BY <2>1, <2>2, ForgetsType DEF AnswerOK, CallsTypeOK
<1>4. CASE Renews(n)
  BY <1>1, <1>4 DEF Renews, AnswerOK, CallsTypeOK, cloudVars
<1>5. CASE \E a \in Errors : Spoils(n, a)
  BY <1>1, <1>5, SpoilsType DEF Spoils
<1> QED BY <1>2, <1>3, <1>4, <1>5 DEF Answer

LEMMA TypeStep ==
  ASSUME CallsTypeOK, GateInv, NEW n \in Nodes, Begin(n) \/ Step(n)
  PROVE  CallsTypeOK'
<1>1. stage' \in [Nodes -> {"idle", "wants", "flying", "under"} \cup Over]
      /\ linked' \subseteq Nodes /\ free' \in 0..Gate
  BY Moves, LinkedType, GateStep
<1>2. CASE Answer(n)
  BY <1>1, <1>2, AnswerType DEF AnswerOK, CallsTypeOK
<1>3. CASE Begin(n) \/ Start(n) \/ End(n) \/ Acquire(n)
  <2>1. UNCHANGED <<attempt, tokenVars, why, cloudVars>>
    BY <1>3 DEF Begin, Start, End, Acquire
  <2> QED BY <1>1, <2>1 DEF CallsTypeOK, tokenVars, cloudVars
<1>4. CASE Call(n)
  <2>1. UNCHANGED <<attempt, why, cloudVars>>
        /\ cached' = cached /\ renewed' = renewed /\ login' \subseteq Service
        /\ using' \in [Service -> Tokens]
    BY <1>4 DEF Call, CallsTypeOK, tokenVars
  <2> QED BY <1>1, <2>1 DEF CallsTypeOK, cloudVars
<1>5. CASE Record(n) \/ CacheRefuses(n)
  <2>1. trail' \in [Writes -> Codes \cup {"nothing", "success", "unwritten"}]
    <3>1. CASE Record(n)
      <4>1. trail' = [trail EXCEPT ![n] = IF stage[n] = "ok" THEN "success" ELSE CodeOf(why[n])]
            \/ trail' = [trail EXCEPT ![n] = "unwritten"]
        BY <3>1 DEF Record
      <4>2. CodeOf(why[n]) \in Codes
        BY CodeType
      <4> QED BY <4>1, <4>2 DEF CallsTypeOK
    <3>2. CASE CacheRefuses(n)
      BY <3>2 DEF CacheRefuses, CallsTypeOK
    <3> QED BY <1>5, <3>1, <3>2
  <2>2. UNCHANGED <<attempt, tokenVars, why, carried, issued, dead, unlucky>>
    BY <1>5 DEF Record, CacheRefuses
  <2>3. troubles' \in 0..MaxTroubles
    BY <1>5, CallsAssumption DEF Record, CacheRefuses, Troubled, CallsTypeOK
  <2> QED BY <1>1, <2>1, <2>2, <2>3 DEF CallsTypeOK, tokenVars
<1> QED BY <1>2, <1>3, <1>4, <1>5 DEF Step

\* A killed process leaves nothing under way.
LEMMA DieStills ==
  ASSUME TreeInv, Die
  PROVE  /\ stage' \in [Nodes -> {"idle", "wants", "flying", "under"} \cup Over]
         /\ \A n \in Nodes : stage'[n] = IF stage[Top[n]] = "under" THEN "lost" ELSE stage[n]
         /\ \A n \in Nodes : ~ Busy(n)'
         /\ \A n \in Nodes : stage[n] = "flying" => stage'[n] = "lost"
<1>1. CallsTypeOK /\ KindInv /\ ParentInv
  BY DEF TreeInv
<1>2. stage' = [n \in Nodes |-> IF stage[Top[n]] = "under" THEN "lost" ELSE stage[n]] /\ UNCHANGED trail
  BY DEF Die
<1>3. \A n \in Nodes : Busy(n) => stage[Top[n]] = "under"
  BY <1>1, LiveAbove
<1>4. \A n \in Nodes : Busy(n)' => Busy(n)
  BY <1>2 DEF Busy, Live
<1>5. \A n \in Nodes : stage[n] = "flying" => Busy(n)
  BY DEF Busy, Live
<1>6. stage' \in [Nodes -> {"idle", "wants", "flying", "under"} \cup Over]
  BY <1>1, <1>2 DEF CallsTypeOK, Over
<1>7. \A n \in Nodes : stage'[n] = "lost" => ~ Busy(n)'
  BY DEF Busy, Live
<1> QED BY <1>2, <1>3, <1>4, <1>5, <1>6, <1>7

LEMMA DieKeeps == ASSUME TreeInv, Die PROVE TreeInv'
<1>1. CallsTypeOK'
  <2>1. UNCHANGED <<why, trail, issued, dead, troubles, unlucky>> /\ linked' = {} /\ cached' = 0
        /\ free' = Gate /\ Forgets(Leaves)
    BY DEF Die
  <2>2. carried' \in [Writes -> Nat]
    <3>1. PICK sent \in SUBSET {c \in Writes : stage[c] = "flying"} :
             carried' = [c \in Writes |-> IF c \in sent THEN carried[c] + 1 ELSE carried[c]]
      BY DEF Die
    <3> QED BY <3>1 DEF TreeInv, CallsTypeOK
  <2>3. cached' \in Tokens /\ free' \in 0..Gate
    BY <2>1, CallsAssumption DEF Tokens
  <2> QED BY <2>1, <2>2, <2>3, DieStills, ForgetsType DEF TreeInv, CallsTypeOK
<1>2. KindInv' /\ ParentInv'
  BY DieStills DEF KindInv, ParentInv, Busy, Live
<1>3. LostInv'
  <2> SUFFICES ASSUME NEW n \in Nodes, stage'[n] = "lost" PROVE stage'[Top[n]] = "lost"
    BY DEF LostInv
  <2>1. Top[n] \in Nodes /\ Top[Top[n]] = Top[n]
    BY TopIsRoot, TopDefined, TreeFacts
  <2>2. stage[Top[n]] \in {"under", "lost"}
    BY DieStills DEF TreeInv, LostInv
  <2> QED BY <2>1, <2>2, DieStills
<1>4. GateInv'
  <2>1. Flying' = {}
    BY DieStills, TreeFacts DEF Flying, Busy, Live
  <2>2. free' = Gate
    BY DEF Die
  <2> QED BY <2>1, <2>2, FS_EmptySet, CallsAssumption DEF GateInv
<1> QED BY <1>1, <1>2, <1>3, <1>4 DEF TreeInv

LEMMA RevokeKeeps == ASSUME TreeInv, Revoke PROVE TreeInv'
<1>1. UNCHANGED <<stage, free, attempt, linked, tokenVars, why, trail, carried, issued>>
  BY DEF Revoke
<1>2. dead' = 1..issued /\ unlucky' \subseteq Service /\ troubles' \in 0..MaxTroubles
  BY CallsAssumption DEF Revoke, Troubled, TreeInv, CallsTypeOK
<1>3. CallsTypeOK'
  BY <1>1, <1>2 DEF TreeInv, CallsTypeOK, tokenVars
<1> QED BY <1>1, <1>3 DEF TreeInv, KindInv, ParentInv, LostInv, GateInv, Flying, Busy, Live

LEMMA TreeStep == TreeInv /\ [Next]_vars => TreeInv'
<1> SUFFICES ASSUME TreeInv, [Next]_vars PROVE TreeInv'
  OBVIOUS
<1>1. CASE \E n \in Nodes : Begin(n) \/ Step(n)
  BY <1>1, ParentStep, GateStep, TypeStep DEF TreeInv
<1>2. CASE UNCHANGED vars
  BY <1>2 DEF vars, tokenVars, cloudVars, TreeInv, CallsTypeOK, KindInv, ParentInv, LostInv, GateInv,
              Flying, Busy, Live
<1> QED BY <1>1, <1>2, DieKeeps, RevokeKeeps DEF Next

LEMMA TreeAlways == Spec => []TreeInv
<1> QED BY TreeInit, TreeStep, PTL DEF Spec

-----------------------------------------------------------------------------
(* What the process lends out: connections. *)

\* A connection belongs to a thread that runs, and a request has its own.
LinkInv ==
    /\ \A t \in linked : ThreadOf[t] = t /\ Live(t)
    /\ \A root \in Roots : stage[root] = "under" => root \in linked

LendInv == TreeInv /\ LinkInv

\* What a step of a node does to the connections.
LEMMA LinkMoves ==
  ASSUME TreeInv, NEW n \in Nodes, Begin(n) \/ Step(n)
  PROVE  \/ Begin(n) /\ linked' = linked \cup {n}
         \/ Call(n) /\ linked' \in {linked, linked \cup {ThreadOf[n]}}
         \/ Live(n) /\ ~ Live(n)' /\ Closes(n)
         \/ (Live(n) => Live(n)') /\ (stage'[n] = "under" => stage[n] = "under" \/ n \notin Roots)
            /\ UNCHANGED linked
<1>1. CallsTypeOK
  BY DEF TreeInv
<1>2. CASE Begin(n) \/ Call(n)
  BY <1>2 DEF Begin, Call
<1>6. CASE CacheRefuses(n)
  BY <1>1, <1>6, Moves DEF CacheRefuses, Becomes, Live, CallsTypeOK
<1>3. CASE Start(n) \/ Acquire(n) \/ Record(n)
  <2>1. UNCHANGED linked /\ (stage'[n] = stage[n] \/ stage'[n] \in {"under", "flying"})
    BY <1>1, <1>3 DEF Start, Acquire, Record, Becomes, CallsTypeOK
  <2>2. Start(n) => n \notin Roots
    BY TreeFacts DEF Start, MayStart
  <2> QED BY <1>1, <1>3, <2>1, <2>2 DEF Live, Acquire, Record, Becomes, CallsTypeOK
<1>4. CASE End(n)
  <2>1. stage[n] = "under" /\ stage'[n] \in {"ok", "failed"} /\ Closes(n)
    BY <1>1, <1>4 DEF End, Becomes, CallsTypeOK
  <2> QED BY <2>1 DEF Live
<1>5. CASE Answer(n)
  <2>1. stage[n] = "flying"
        /\ \/ stage'[n] = "wants" /\ UNCHANGED linked
           \/ stage'[n] \in {"ok", "failed"} /\ Closes(n)
    BY <1>1, <1>5 DEF Answer, SignedIn, Succeeds, Renews, Spoils, Becomes, CallsTypeOK
  <2> QED BY <2>1 DEF Live
<1> QED BY <1>2, <1>3, <1>4, <1>5, <1>6 DEF Step

LEMMA LinkStep ==
  ASSUME TreeInv, LinkInv, NEW n \in Nodes, Begin(n) \/ Step(n)
  PROVE  LinkInv'
<1>1. CallsTypeOK /\ \A m \in Nodes \ {n} : stage'[m] = stage[m]
  BY Moves DEF TreeInv
<1>2. linked \subseteq Nodes /\ Roots \subseteq Nodes
  BY <1>1, TreeFacts DEF CallsTypeOK
<1>3. \A m \in Nodes \ {n} : Live(m)' <=> Live(m)
  BY <1>1 DEF Live
<1>4. \A root \in Roots : ThreadOf[root] = root
  BY ThreadDefined, TreeFacts DEF Heads
<1>5. CASE Begin(n) /\ linked' = linked \cup {n}
  <2>1. n \in Roots /\ stage'[n] = "under"
    BY <1>1, <1>5 DEF Begin, Becomes, CallsTypeOK
  <2> QED BY <1>1, <1>2, <1>3, <1>4, <1>5, <2>1 DEF LinkInv, Live
<1>6. CASE Call(n) /\ linked' \in {linked, linked \cup {ThreadOf[n]}}
  <2>1. stage[n] = "idle" /\ stage'[n] = "wants" /\ stage[Parent[n]] = "under" /\ Parent[n] # NoNode
    BY <1>1, <1>6 DEF Call, MayStart, Becomes, CallsTypeOK
  <2>2. n \notin Roots /\ Parent[n] \in Nodes /\ ~ Live(n) /\ Live(n)' /\ Live(Parent[n])
    BY <2>1, TreeFacts DEF Live
  <2>3. ThreadOf[n] = n \/ (ThreadOf[n] = ThreadOf[Parent[n]] /\ ThreadOf[n] # n /\ Live(ThreadOf[n]))
    BY <2>2, ThreadDefined, LiveAbove DEF TreeInv
  <2>4. ThreadOf[n] \in Nodes /\ ThreadOf[ThreadOf[n]] = ThreadOf[n]
    BY ThreadIsHead DEF Heads
  <2>5. Live(ThreadOf[n])'
    BY <1>3, <2>2, <2>3, <2>4
  <2>6. \A t \in linked' : ThreadOf[t] = t /\ Live(t)'
    BY <1>2, <1>3, <1>6, <2>2, <2>4, <2>5 DEF LinkInv
  <2>7. \A root \in Roots : stage'[root] = "under" => root \in linked'
    BY <1>1, <1>2, <1>6, <2>2 DEF LinkInv
  <2> QED BY <2>6, <2>7 DEF LinkInv
<1>7. CASE Live(n) /\ ~ Live(n)' /\ Closes(n)
  <2>1. n \in Heads => linked' = linked \ {n}
    BY <1>7 DEF Closes, Heads
  <2>2. n \notin Heads => linked' = linked
    BY <1>7 DEF Closes, Heads
  <2>3. n \in linked => n \in Heads
    BY <1>2, ThreadIsHead DEF LinkInv
  <2>4. linked' = linked \ {n}
    BY <2>1, <2>2, <2>3
  <2>5. \A t \in linked' : ThreadOf[t] = t /\ Live(t)'
    BY <1>2, <1>3, <2>4 DEF LinkInv
  <2>6. \A root \in Roots : stage'[root] = "under" => root \in linked'
    BY <1>1, <1>2, <1>7, <2>4 DEF LinkInv, Live
  <2> QED BY <2>5, <2>6 DEF LinkInv
<1>8. CASE (Live(n) => Live(n)') /\ (stage'[n] = "under" => stage[n] = "under" \/ n \notin Roots)
           /\ UNCHANGED linked
  <2>1. \A t \in linked' : ThreadOf[t] = t /\ Live(t)'
    BY <1>2, <1>3, <1>8 DEF LinkInv
  <2>2. \A root \in Roots : stage'[root] = "under" => root \in linked'
    BY <1>1, <1>2, <1>8 DEF LinkInv
  <2> QED BY <2>1, <2>2 DEF LinkInv
<1> QED BY <1>5, <1>6, <1>7, <1>8, LinkMoves

LEMMA LendInit == Init => LendInv
<1> SUFFICES ASSUME Init PROVE LendInv
  OBVIOUS
<1>1. TreeInv
  BY TreeInit
<1>2. linked = {} /\ \A root \in Roots : stage[root] = "idle"
  BY TreeFacts DEF Init
<1> QED BY <1>1, <1>2 DEF LendInv, LinkInv

LEMMA LendStep == LendInv /\ [Next]_vars => LendInv'
<1> SUFFICES ASSUME LendInv, [Next]_vars PROVE LinkInv'
  BY TreeStep DEF LendInv
<1>1. TreeInv /\ LinkInv
  BY DEF LendInv
<1>2. CASE \E n \in Nodes : Begin(n) \/ Step(n)
  BY <1>1, <1>2, LinkStep
<1>3. CASE Revoke
  BY <1>1, <1>3 DEF Revoke, LinkInv, Live
<1>4. CASE Die
  <2>1. linked' = {} /\ \A n \in Nodes : ~ Busy(n)'
    BY <1>1, <1>4, DieStills DEF Die
  <2> QED BY <2>1, TreeFacts DEF LinkInv, Busy, Live
<1>5. CASE UNCHANGED vars
  BY <1>1, <1>5 DEF vars, LinkInv, Live
<1> QED BY <1>2, <1>3, <1>4, <1>5 DEF Next

LEMMA LendTells == LendInv => NothingLeaks
<1> SUFFICES ASSUME LendInv PROVE NothingLeaks
  OBVIOUS
<1>1. CallsTypeOK /\ GateCounts
  BY DEF LendInv, TreeInv, GateInv, GateCounts, Flying
<1>2. ConnectionsKept
  <2>1. \A t \in linked : t \in Nodes /\ ThreadOf[t] = t /\ Begun(t) /\ stage[ThreadOf[t]] \notin Over
    BY <1>1 DEF LendInv, LinkInv, Live, Begun, Over, CallsTypeOK
  <2>2. linked \subseteq
           {ThreadOf[n] : n \in {k \in Nodes : Begun(k) /\ stage[ThreadOf[k]] \notin Over}}
    BY <2>1
  <2> QED BY <2>2 DEF ConnectionsKept, LendInv, LinkInv
<1>3. NothingLeftRunning
  <2> SUFFICES ASSUME NEW n \in Nodes, stage[n] \in Over, NEW k \in Kids[n]
               PROVE  stage[k] \in Over \cup {"idle"}
    BY DEF NothingLeftRunning
  <2>1. k \in Nodes /\ Parent[k] = n /\ k \notin Roots
    BY KidFacts, TreeFacts, CallsAssumption
  <2>2. ~ Live(k)
    BY <2>1 DEF LendInv, TreeInv, ParentInv, Busy, Over
  <2> QED BY <1>1, <2>1, <2>2 DEF CallsTypeOK, Live
<1> QED BY <1>1, <1>2, <1>3 DEF NothingLeaks

\* The process gets back what it lends out: the places of the gate, taken and given
\* back around each call (http.py 45), the connections of its threads, closed when a
\* pool's thread or the request ends (concurrency.py 22), and the threads themselves,
\* however the reads are nested and wherever the process is killed.
THEOREM LeaksCorrect == Spec => []NothingLeaks
<1>1. Spec => []LendInv
  BY LendInit, LendStep, PTL DEF Spec
<1> QED BY <1>1, LendTells, PTL

-----------------------------------------------------------------------------
(* Writes. *)

Refusals == {"limited", "refused", "unauthorized"}

\* What a write has come to, from its stage and from its row on the trail.
Once(c) ==
    /\ stage[c] \in {"idle", "wants", "flying"} => carried[c] = 0 /\ trail[c] = "nothing"
    /\ carried[c] \in 0..1
    /\ stage[c] = "ok" => carried[c] = 1
    /\ stage[c] = "failed" /\ trail[c] = "nothing" => why[c] \in Errors /\ (why[c] \in Refusals => carried[c] = 0)
    /\ trail[c] = "success" => carried[c] = 1
    /\ trail[c] = "refusal" => carried[c] = 0

OnceInv == \A c \in Writes : Once(c)

WriteInv == TreeInv /\ OnceInv

LEMMA WriteInit == Init => WriteInv
<1> SUFFICES ASSUME Init PROVE WriteInv
  OBVIOUS
<1>1. TreeInv
  BY TreeInit
<1>2. OnceInv
  BY TreeFacts DEF Init, OnceInv, Once, Refusals
<1> QED BY <1>1, <1>2 DEF WriteInv

\* The write a step does not concern.
LEMMA OthersKeep ==
  ASSUME TreeInv, NEW n \in Nodes, Begin(n) \/ Step(n), NEW c \in Writes, c # n
  PROVE  stage'[c] = stage[c] /\ carried'[c] = carried[c] /\ why'[c] = why[c] /\ trail'[c] = trail[c]
<1>1. CallsTypeOK /\ c \in Nodes /\ c \in Writes \cup Service
  BY TreeFacts DEF TreeInv
<1>2. stage'[c] = stage[c]
  BY <1>1, Moves
<1>3. CASE ~ (Answer(n) \/ Record(n) \/ CacheRefuses(n))
  BY <1>2, <1>3 DEF Begin, Step, Start, Call, End, Acquire, cloudVars
<1>4. CASE Record(n) \/ CacheRefuses(n)
  BY <1>1, <1>2, <1>4 DEF Record, CacheRefuses, CallsTypeOK
<1>5. CASE Answer(n)
  <2>1. trail' = trail
    BY <1>1, <1>5, AnswerType
  <2>2. why'[c] = why[c]
    BY <1>1, <1>5 DEF Answer, SignedIn, Succeeds, Renews, Spoils, CallsTypeOK
  <2>3. carried'[c] = carried[c]
    <3>1. CASE SignedIn(n) \/ Renews(n)
      BY <3>1 DEF SignedIn, Renews, cloudVars
    <3>2. CASE Succeeds(n)
      BY <1>1, <3>2 DEF Succeeds, CallsTypeOK
    <3>3. CASE \E a \in Errors : Spoils(n, a)
      <4>1. PICK a \in Errors : Spoils(n, a)
        BY <3>3
      <4>2. carried' = carried \/ \E w \in {n} : carried' = [carried EXCEPT ![w] = @ + 1]
        BY <4>1 DEF Spoils
      <4> QED BY <1>1, <4>2 DEF CallsTypeOK
    <3> QED BY <1>5, <3>1, <3>2, <3>3 DEF Answer
  <2> QED BY <1>2, <2>1, <2>2, <2>3
<1> QED BY <1>3, <1>4, <1>5

\* The write that is answered.
LEMMA AnswerOnce ==
  ASSUME TreeInv, NEW n \in Writes, Answer(n), Once(n)
  PROVE  Once(n)'
<1>1. CallsTypeOK /\ n \in Nodes /\ n \notin Service /\ n \in Writes \cup Service /\ n \notin login
  BY TreeFacts DEF TreeInv, CallsTypeOK
<1>2. stage[n] = "flying" /\ carried[n] = 0 /\ trail[n] = "nothing" /\ trail' = trail
  BY <1>1, AnswerType DEF Answer, Once
<1>3. CASE Succeeds(n)
  <2>1. carried' = [carried EXCEPT ![n] = @ + 1] /\ Becomes(n, "ok")
    BY <1>3 DEF Succeeds
  <2>2. carried'[n] = 1 /\ stage'[n] = "ok"
    BY <1>1, <1>2, <2>1 DEF Becomes, CallsTypeOK
  <2> QED BY <1>2, <2>2 DEF Once, Refusals
<1>4. ASSUME NEW a \in Errors, Spoils(n, a) PROVE Once(n)'
  <2>1. carried' = carried \/ \E w \in {n} : carried' = [carried EXCEPT ![w] = @ + 1]
    BY <1>4 DEF Spoils
  <2>2. a \notin {"silent", "unwell", "broken"} => carried' = carried
    BY <1>4 DEF Spoils
  <2>3. carried'[n] \in 0..1
    BY <1>1, <1>2, <2>1 DEF CallsTypeOK
  <2>4. CASE Retries(n, a)
    <3>1. a = "limited" /\ Becomes(n, "wants")
      BY <1>4, <2>4 DEF Spoils, Retries, Repeatable
    <3>2. stage'[n] = "wants" /\ carried'[n] = 0
      BY <1>1, <1>2, <2>2, <3>1 DEF Becomes, CallsTypeOK
    <3> QED BY <1>2, <3>2 DEF Once, Refusals
  <2>5. CASE ~ Retries(n, a)
    <3>1. why' = [k \in DOMAIN why |-> IF k = n THEN a ELSE why[k]] /\ Becomes(n, "failed")
      BY <1>4, <2>5 DEF Spoils
    <3>2. why'[n] = a /\ stage'[n] = "failed"
      BY <1>1, <3>1 DEF Becomes, CallsTypeOK
    <3>3. a \in Refusals => carried'[n] = 0
      BY <1>2, <2>2 DEF Refusals
    <3> QED BY <1>2, <2>3, <3>2, <3>3 DEF Once, Refusals
  <2> QED BY <2>4, <2>5
<1> QED BY <1>1, <1>3, <1>4 DEF Answer, SignedIn, Renews

LEMMA OnceStep ==
  ASSUME TreeInv, NEW n \in Nodes, Begin(n) \/ Step(n), NEW c \in Writes, Once(c)
  PROVE  Once(c)'
<1>1. CallsTypeOK /\ c \in Nodes /\ c \in Leaves /\ c \in Writes \cup Service
  BY TreeFacts DEF TreeInv
<1>2. CASE c # n
  <2>1. stage'[c] = stage[c] /\ carried'[c] = carried[c] /\ why'[c] = why[c] /\ trail'[c] = trail[c]
    BY <1>2, OthersKeep
  <2> QED BY <2>1 DEF Once
<1>3. CASE c = n /\ Answer(n)
  BY <1>3, AnswerOnce
<1>4. CASE c = n /\ Record(n)
  <2>1. UNCHANGED <<stage, why, carried>> /\ stage[c] \in {"ok", "failed"} /\ trail[c] = "nothing"
        /\ trail'[c] \in {IF stage[c] = "ok" THEN "success" ELSE CodeOf(why[c]), "unwritten"}
    BY <1>1, <1>4 DEF Record, CallsTypeOK
  <2>2. CASE stage[c] = "ok"
    BY <2>1, <2>2 DEF Once
  <2>3. CASE stage[c] = "failed"
    <3>1. why[c] \in Errors /\ CodeOf(why[c]) \in Codes
          /\ (CodeOf(why[c]) = "refusal" => why[c] \in Refusals)
      <4>1. why[c] \in Errors
        BY <2>1, <2>3 DEF Once
      <4> QED BY <4>1, CodeType DEF Errors, Refusals
    <3> QED BY <2>1, <2>3, <3>1 DEF Once, Codes
  <2> QED BY <2>1, <2>2, <2>3
<1>7. CASE c = n /\ CacheRefuses(n)
  <2>1. UNCHANGED <<why, carried>> /\ stage[c] = "ok" /\ stage'[c] = "failed" /\ trail'[c] = "unwritten"
    BY <1>1, <1>7 DEF CacheRefuses, Becomes, CallsTypeOK
  <2> QED BY <2>1 DEF Once
<1>5. CASE c = n /\ (Call(n) \/ Acquire(n))
  <2>1. UNCHANGED <<why, trail, carried>> /\ stage[c] \in {"idle", "wants"}
        /\ stage'[c] \in {"wants", "flying"}
    BY <1>1, <1>5 DEF Call, Acquire, MayStart, Becomes, cloudVars, CallsTypeOK
  <2> QED BY <2>1 DEF Once
<1>6. c = n => ~ (Begin(n) \/ Start(n) \/ End(n))
  BY <1>1, TreeFacts DEF Begin, Start, End
<1> QED BY <1>2, <1>3, <1>4, <1>5, <1>6, <1>7 DEF Step

LEMMA WriteStep == WriteInv /\ [Next]_vars => WriteInv'
<1> SUFFICES ASSUME WriteInv, [Next]_vars PROVE OnceInv'
  BY TreeStep DEF WriteInv
<1>1. TreeInv /\ CallsTypeOK /\ \A c \in Writes : Once(c)
  BY DEF WriteInv, TreeInv, OnceInv
<1> SUFFICES ASSUME NEW c \in Writes PROVE Once(c)'
  BY DEF OnceInv
<1>2. CASE \E n \in Nodes : Begin(n) \/ Step(n)
  BY <1>1, <1>2, OnceStep
<1>3. CASE Revoke \/ UNCHANGED vars
  <2>1. UNCHANGED <<stage, why, trail, carried>>
    BY <1>3 DEF Revoke, vars, cloudVars
  <2> QED BY <1>1, <2>1 DEF Once
<1>4. CASE Die
  <2>1. c \in Nodes
    BY TreeFacts
  <2>2. UNCHANGED <<why, trail>> /\ stage'[c] \in {stage[c], "lost"}
    BY <1>1, <1>4, <2>1, DieStills DEF Die
  <2>3. \/ carried'[c] = carried[c] /\ stage'[c] \in {stage[c], "lost"}
        \/ stage[c] = "flying" /\ carried'[c] = carried[c] + 1 /\ stage'[c] = "lost"
    <3>1. PICK sent \in SUBSET {w \in Writes : stage[w] = "flying"} :
             carried' = [w \in Writes |-> IF w \in sent THEN carried[w] + 1 ELSE carried[w]]
      BY <1>4 DEF Die
    <3>2. stage[c] = "flying" => stage'[c] = "lost"
      BY <1>1, <1>4, <2>1, DieStills
    <3> QED BY <2>2, <3>1, <3>2
  <2>4. Once(c)
    BY <1>1
  <2> QED BY <2>2, <2>3, <2>4 DEF Once, Refusals
<1> QED BY <1>2, <1>3, <1>4 DEF Next

LEMMA WriteTells == WriteInv => WritesTold
<1> SUFFICES ASSUME WriteInv, NEW c \in Writes
             PROVE  /\ carried[c] <= 1
                    /\ trail[c] = "success" => carried[c] = 1
                    /\ trail[c] = "refusal" => carried[c] = 0
                    /\ stage[Top[c]] \in {"ok", "failed"} /\ carried[c] > 0 => trail[c] # "nothing"
  BY DEF WritesTold, WriteOnce, TrailTells
<1>1. /\ TreeInv /\ CallsTypeOK /\ KindInv /\ ParentInv /\ LostInv
      /\ Once(c) /\ c \in Nodes /\ c \in Leaves
  BY TreeFacts DEF WriteInv, TreeInv, OnceInv
<1>2. ASSUME stage[Top[c]] \in {"ok", "failed"}, carried[c] > 0
      PROVE  trail[c] # "nothing"
  <2>1. stage[c] # "lost" /\ stage[c] # "under"
    BY <1>1, <1>2 DEF LostInv, KindInv
  <2>2. stage[c] \notin {"idle", "wants", "flying"}
    BY <1>1, <1>2 DEF Once
  <2>3. stage[c] \in {"ok", "failed"}
    BY <1>1, <2>1, <2>2 DEF CallsTypeOK, Over
  <2>4. ~ Busy(c)
    BY <1>1, <1>2, LiveAbove
  <2> QED BY <2>3, <2>4 DEF Busy
<1> QED BY <1>1, <1>2 DEF Once

\* What a user asks for once the cloud does once at most, since a write is repeated
\* only after a 429 (http.py 109).  What the trail says of it is so, and it says
\* something of every write of a request that ended, unless the row could not be
\* stored or the cache failed first (compute/views.py 92, audit/services.py 49).
THEOREM WritesToldCorrect == Spec => []WritesTold
<1>1. Spec => []WriteInv
  BY WriteInit, WriteStep, PTL DEF Spec
<1> QED BY <1>1, WriteTells, PTL

-----------------------------------------------------------------------------
(* The service token. *)

Dead(c) == using[c] \in dead

\* A call that has renewed its token holds one that was taken since, so that only a
\* revocation made meanwhile can have spoiled it.
RenewInv ==
    /\ dead \subseteq 1..issued /\ issued \in Nat
    /\ \A c \in renewed : c \in Service /\ Live(c)
    /\ \A c \in login : c \in Service /\ Live(c)
    /\ \A c \in renewed \ login : Dead(c) => c \in unlucky
    /\ \A c \in Service : why[c] = "unauthorized" => c \in unlucky

TokenInv == TreeInv /\ RenewInv

LEMMA TokenInit == Init => TokenInv
<1> SUFFICES ASSUME Init PROVE TokenInv
  OBVIOUS
<1>1. TreeInv
  BY TreeInit
<1>2. RenewInv
  BY DEF Init, RenewInv
<1> QED BY <1>1, <1>2 DEF TokenInv

\* A step that answers nothing.
LEMMA OtherTokens ==
  ASSUME TreeInv, RenewInv, NEW n \in Nodes, Begin(n) \/ Step(n), ~ Answer(n)
  PROVE  RenewInv'
<1>1. /\ CallsTypeOK /\ Service \subseteq Nodes /\ Service \subseteq Leaves
      /\ \A m \in Nodes \ {n} : stage'[m] = stage[m]
  BY Moves, TreeFacts DEF TreeInv
<1>2. UNCHANGED <<cached, renewed, why, issued, dead, unlucky>>
  BY DEF Begin, Step, Start, Call, End, Acquire, Record, CacheRefuses, tokenVars, cloudVars
<1>3. n \in Service => (Live(n) => Live(n)')
  BY <1>1, TreeFacts DEF Begin, Step, Start, Call, MayStart, End, Acquire, Record, CacheRefuses, Becomes, Live,
                         CallsTypeOK
<1>4. \A c \in Service : Live(c) => Live(c)'
  BY <1>1, <1>3 DEF Live
<1>5. CASE Call(n) /\ n \in Service
  <2>1. ~ Live(n) /\ Live(n)' /\ login' \subseteq login \cup {n}
        /\ \A c \in Service \ {n} : using'[c] = using[c]
    BY <1>1, <1>5 DEF Call, MayStart, Becomes, Live, CallsTypeOK
  <2>2. n \notin renewed
    BY <2>1 DEF RenewInv
  <2>3. login \subseteq login'
    BY <1>5 DEF Call
  <2> QED BY <1>2, <1>4, <1>5, <2>1, <2>2, <2>3 DEF RenewInv, Dead
<1>6. CASE ~ (Call(n) /\ n \in Service)
  <2>1. UNCHANGED <<using, login>>
    BY <1>6 DEF Begin, Step, Start, Call, End, Acquire, Record, CacheRefuses, tokenVars
  <2> QED BY <1>2, <1>4, <2>1 DEF RenewInv, Dead
<1> QED BY <1>5, <1>6

\* A call that is over, answered or not, has no token any more.
LEMMA Forgotten ==
  ASSUME TreeInv, RenewInv, NEW n \in Nodes, Answer(n), Forgets({n}),
         UNCHANGED <<issued, dead, unlucky>>,
         \A c \in Service : why'[c] = "unauthorized" => c \in unlucky
  PROVE  RenewInv'
<1>1. /\ \A m \in Nodes \ {n} : stage'[m] = stage[m]
      /\ Service \subseteq Nodes
  BY Moves, TreeFacts DEF TreeInv, Step
<1>2. \A c \in Service \ {n} : Live(c) => Live(c)'
  BY <1>1 DEF Live
<1>3. login' = login \ {n} /\ renewed' = renewed \ {n} /\ \A c \in Service \ {n} : using'[c] = using[c]
  BY DEF Forgets
<1> QED BY <1>2, <1>3 DEF RenewInv, Dead

LEMMA AnswerTokens ==
  ASSUME TreeInv, RenewInv, NEW n \in Nodes, Answer(n)
  PROVE  RenewInv'
<1>1. /\ CallsTypeOK /\ Service \subseteq Nodes /\ Service \subseteq Leaves
      /\ \A m \in Nodes \ {n} : stage'[m] = stage[m]
  BY Moves, TreeFacts DEF TreeInv, Step
<1>2. \A c \in Service \ {n} : Live(c) => Live(c)'
  BY <1>1 DEF Live
<1>3. CASE SignedIn(n)
  <2>1. /\ n \in login /\ login' = login \ {n} /\ issued' = issued + 1
        /\ using' = [using EXCEPT ![n] = issued + 1] /\ Becomes(n, "wants")
        /\ UNCHANGED <<renewed, why, dead, unlucky>>
    BY <1>3 DEF SignedIn, NewToken
  <2>2. n \in Service /\ Live(n)' /\ issued \in Nat /\ dead \subseteq 1..issued
    BY <1>1, <2>1 DEF RenewInv, Becomes, Live, CallsTypeOK
  <2>3. issued' \in Nat /\ dead' \subseteq 1..issued' /\ issued + 1 \notin dead
    BY <2>1, <2>2
  <2>4. ~ Dead(n)' /\ \A c \in Service \ {n} : Dead(c)' <=> Dead(c)
    BY <1>1, <2>1, <2>2, <2>3 DEF Dead, CallsTypeOK
  <2> QED BY <1>2, <2>1, <2>2, <2>3, <2>4 DEF RenewInv
<1>4. CASE Renews(n)
  <2>1. /\ n \in Service /\ renewed' = renewed \cup {n} /\ login' = login \cup {n}
        /\ Becomes(n, "wants") /\ UNCHANGED <<using, why, issued, dead, unlucky>>
    BY <1>4 DEF Renews, cloudVars
  <2>2. Live(n)'
    BY <1>1, <2>1 DEF Becomes, Live, CallsTypeOK
  <2> QED BY <1>2, <2>1, <2>2 DEF RenewInv, Dead
<1>5. CASE Succeeds(n)
  <2>1. Forgets({n}) /\ UNCHANGED <<why, issued, dead, unlucky>>
    BY <1>5 DEF Succeeds
  <2> QED BY <2>1, Forgotten DEF RenewInv
<1>6. ASSUME NEW a \in Errors, Spoils(n, a) PROVE RenewInv'
  <2>1. UNCHANGED <<issued, dead, unlucky>>
    BY <1>6 DEF Spoils
  <2>2. CASE Retries(n, a)
    <3>1. UNCHANGED <<why, using, login, renewed>> /\ Becomes(n, "wants")
      BY <1>6, <2>2 DEF Spoils
    <3>2. Live(n)'
      BY <1>1, <3>1 DEF Becomes, Live, CallsTypeOK
    <3> QED BY <1>2, <2>1, <3>1, <3>2 DEF RenewInv, Dead
  <2>3. CASE ~ Retries(n, a)
    <3>1. why' = [k \in DOMAIN why |-> IF k = n THEN a ELSE why[k]] /\ Forgets({n})
      BY <1>6, <2>3 DEF Spoils
    <3>2. a = "unauthorized" /\ n \in Service => n \in renewed \ login /\ Dead(n)
      BY <1>6 DEF Spoils, Dead
    <3>3. \A c \in Service : why'[c] = "unauthorized" => c \in unlucky
      BY <1>1, <3>1, <3>2 DEF RenewInv, CallsTypeOK
    <3> QED BY <2>1, <3>1, <3>3, Forgotten
  <2> QED BY <2>2, <2>3
<1> QED BY <1>3, <1>4, <1>5, <1>6 DEF Answer

LEMMA TokenStep == TokenInv /\ [Next]_vars => TokenInv'
<1> SUFFICES ASSUME TokenInv, [Next]_vars PROVE RenewInv'
  BY TreeStep DEF TokenInv
<1>1. TreeInv /\ RenewInv /\ CallsTypeOK
  BY DEF TokenInv, TreeInv
<1>2. CASE \E n \in Nodes : Begin(n) \/ Step(n)
  BY <1>1, <1>2, OtherTokens, AnswerTokens
<1>3. CASE Revoke
  <2>1. /\ UNCHANGED <<stage, cached, using, login, renewed, why, issued>> /\ dead' = 1..issued
        /\ unlucky' = unlucky \cup {c \in Service : Begun(c) /\ stage[c] \notin Over}
    BY <1>3 DEF Revoke, tokenVars
  <2>2. \A c \in Service : Live(c) => c \in unlucky'
    BY <2>1 DEF Live, Begun, Over
  <2>3. \A c \in renewed' \cup login' : c \in Service /\ Live(c)'
    BY <1>1, <2>1 DEF RenewInv, Live
  <2>4. \A c \in renewed' : c \in unlucky'
    BY <1>1, <2>1, <2>2 DEF RenewInv
  <2> QED BY <1>1, <2>1, <2>3, <2>4 DEF RenewInv
<1>4. CASE Die
  <2>1. Forgets(Leaves) /\ UNCHANGED <<why, issued, dead, unlucky>> /\ Service \subseteq Leaves
    BY <1>4, TreeFacts DEF Die
  <2>2. login' = {} /\ renewed' = {}
    BY <1>1, <2>1 DEF Forgets, CallsTypeOK
  <2> QED BY <1>1, <2>1, <2>2 DEF RenewInv
<1>5. CASE UNCHANGED vars
  BY <1>1, <1>5 DEF vars, tokenVars, cloudVars, RenewInv, Live, Dead
<1> QED BY <1>2, <1>3, <1>4, <1>5 DEF Next

LEMMA TokenTells == TokenInv => RefusedOnlyIfRevoked
BY DEF TokenInv, RenewInv, RefusedOnlyIfRevoked

\* A service call that fails with 401 was under way when tokens were revoked: a token
\* that died before is renewed on the way, and the new one is the call's own, whoever
\* signs in meanwhile (service.py).
THEOREM RefusedCorrect == Spec => []RefusedOnlyIfRevoked
<1>1. Spec => []TokenInv
  BY TokenInit, TokenStep, PTL DEF Spec
<1> QED BY <1>1, TokenTells, PTL
=============================================================================

------------------------ MODULE ClosedHashLoopProofs ------------------------
(***************************************************************************)
(* A loop that erases as it goes comes to every element once, for any      *)
(* keys, hash function and capacities.                                     *)
(***************************************************************************)
EXTENDS ClosedHashLoop, ClosedHashProofs

(* D are the nodes of the used list before node x. *)
Before(h, x, D) ==
  /\ D \subseteq Used(h) /\ x \in (Used(h) \ D) \cup {UsedTail}
  /\ \A y \in D \cup {UsedTail} : h.next[y] \in D \cup {x}
  /\ \A y \in D : h.prior[y] \in D \cup {UsedTail}
  /\ x # UsedTail => h.prior[x] \in D \cup {UsedTail}

(* The keys the loop has come to: those it has erased, and those of the nodes it
   has left where they were. *)
Seen(h, D, gone) == gone \cup {h.value[y].key : y \in D}

(* A loop over the elements of one key each has come to node x. *)
Underway(h, x, D, elements, count, gone) ==
  /\ Good(h) /\ Before(h, x, D)
  /\ OnePerKey(elements) /\ gone \subseteq {e.key : e \in elements}
  /\ Elements(h) = {e \in elements : e.key \notin gone}
  /\ count = [key \in Key |-> IF key \in Seen(h, D, gone) THEN 1 ELSE 0]

(* The inductive invariant. *)
LInv ==
  /\ Inv
  /\ it # NoLoop => phase = "idle" /\ \E D : Underway(table, it, D, start, visits, erased)

-----------------------------------------------------------------------------
(* NoLoop is no node of a table. *)
LEMMA NoLoopIsNoNode ==
  ASSUME NEW h, Sound(h)
  PROVE  NoLoop \notin Used(h) \cup {UsedTail}
<1>1. Typed(h)
  BY DEF Sound, Lists
<1> QED BY <1>1 DEF Used, Node, Typed, NoLoop, UsedTail

(* The node after the one a loop has come to is not one it has been at. *)
LEMMA NextIsNew ==
  ASSUME NEW h, Sound(h), NEW D, NEW x, x # UsedTail, Before(h, x, D)
  PROVE  /\ x \in Used(h) /\ x \notin D
         /\ h.next[x] \in (Used(h) \ (D \cup {x})) \cup {UsedTail}
         /\ h.prior[h.next[x]] = x /\ UsedTail \notin Used(h)
<1>1. x \in Used(h) /\ x \notin D
  BY DEF Before
<1>2. /\ h.next[x] \in Used(h) \cup {UsedTail} /\ h.prior[h.next[x]] = x
      /\ h.next[x] # x /\ UsedTail \notin Used(h)
  BY <1>1, Near
<1>3. h.next[x] \notin D
  BY <1>1, <1>2 DEF Before
<1> QED BY <1>1, <1>2, <1>3

(* Going on to the next node. *)
LEMMA GoneOn ==
  ASSUME NEW h, Sound(h), NEW D, NEW x, x # UsedTail, Before(h, x, D)
  PROVE  Before(h, h.next[x], D \cup {x})
<1>1. /\ x \in Used(h) /\ h.next[x] \in (Used(h) \ (D \cup {x})) \cup {UsedTail}
      /\ h.prior[h.next[x]] = x
  BY NextIsNew
<1> QED BY <1>1 DEF Before

(* A loop that has come to end() has been at every node. *)
LEMMA AtTheEnd ==
  ASSUME NEW h, Sound(h), NEW D, Before(h, UsedTail, D)
  PROVE  D = Used(h)
<1>1. SUFFICES ASSUME Used(h) \ D # {} PROVE FALSE
  BY DEF Before
<1>2. Used(h) \ D \in SUBSET Used(h)
  OBVIOUS
<1>3. \E y \in Used(h) \ D : h.prior[y] \notin Used(h) \ D
  BY <1>1, <1>2 DEF Sound, Lists, Ring
<1>4. PICK y \in Used(h) \ D : h.prior[y] \notin Used(h) \ D
  BY <1>3
<1>5. h.prior[y] \in D \cup {UsedTail} /\ h.next[h.prior[y]] = y /\ y # UsedTail
  BY <1>4, Near
<1> QED BY <1>4, <1>5 DEF Before

(* Giving back node y, which the loop has not been at, while it is at x. *)
LEMMA BeforeTakenOut ==
  ASSUME NEW h, Sound(h), NEW D, NEW x, Before(h, x, D), x # UsedTail,
         NEW y \in {x, h.next[x]}, y # UsedTail, NEW g, g = TakenOut(h, y)
  PROVE  /\ Before(g, IF y = x THEN h.next[x] ELSE x, D)
         /\ \A z \in D : g.value[z] = h.value[z]
<1>1. /\ x \in Used(h) /\ x \notin D
      /\ h.next[x] \in (Used(h) \ (D \cup {x})) \cup {UsedTail}
      /\ h.prior[h.next[x]] = x /\ UsedTail \notin Used(h)
  BY NextIsNew
<1>2. y \in Used(h) /\ y \notin D
  BY <1>1
<1>3. /\ Used(g) = Used(h) \ {y}
      /\ \A z \in Used(h) \ {y} : g.value[z] = h.value[z]
      /\ \A z \in Used(h) \ {y} : g.prior[z] = (IF z = h.next[y] THEN h.prior[y] ELSE h.prior[z])
      /\ \A z \in (Used(h) \ {y}) \cup {UsedTail} :
           g.next[z] = (IF z = h.prior[y] THEN h.next[y] ELSE h.next[z])
  BY <1>2, TakenOutEffect
<1>4. /\ h.prior[h.next[y]] = y /\ h.next[h.prior[y]] = y
      /\ h.next[y] \in Used(h) \cup {UsedTail}
  BY <1>2, Near
<1>5. /\ D \subseteq Used(h)
      /\ \A z \in D \cup {UsedTail} : h.next[z] \in D \cup {x}
      /\ \A z \in D : h.prior[z] \in D \cup {UsedTail}
      /\ h.prior[x] \in D \cup {UsedTail}
  BY DEF Before
<1>6. \A z \in D : g.value[z] = h.value[z]
  BY <1>2, <1>3, <1>5
<1>7. \A z \in D : g.prior[z] \in D \cup {UsedTail}
  BY <1>1, <1>2, <1>3, <1>4, <1>5
<1>8. CASE y = x
  <2>1. ASSUME NEW z \in D \cup {UsedTail} PROVE g.next[z] \in D \cup {h.next[x]}
    <3>1. z \in (Used(h) \ {x}) \cup {UsedTail}
      BY <1>1, <1>5
    <3>2. g.next[z] = (IF z = h.prior[x] THEN h.next[x] ELSE h.next[z])
      BY <3>1, <1>3, <1>8
    <3>3. z # h.prior[x] => h.next[z] # x
      BY <3>1, Near
    <3> QED BY <3>2, <3>3, <1>5
  <2>2. h.next[x] # UsedTail => g.prior[h.next[x]] \in D \cup {UsedTail}
    BY <1>1, <1>3, <1>5, <1>8
  <2> QED BY <2>1, <2>2, <1>1, <1>3, <1>5, <1>6, <1>7, <1>8 DEF Before
<1>9. CASE y # x
  <2>1. y = h.next[x] /\ h.prior[y] = x
    BY <1>1, <1>9
  <2>2. \A z \in D \cup {UsedTail} : g.next[z] \in D \cup {x}
    BY <2>1, <1>1, <1>2, <1>3, <1>5
  <2>3. g.prior[x] \in D \cup {UsedTail}
    BY <2>1, <1>1, <1>2, <1>3, <1>4, <1>5
  <2> QED BY <2>2, <2>3, <1>1, <1>3, <1>5, <1>6, <1>7, <1>9 DEF Before
<1> QED BY <1>8, <1>9

(* erase takes nothing from the nodes the loop has been at, and returns the iterator
   to go on with. *)
LEMMA BeforeErased ==
  ASSUME NEW h, Good(h), NEW D, NEW x, x # UsedTail, Before(h, x, D), NEW g, g = Erased(h, x)
  PROVE  /\ Before(g, AfterErase(h, x), D)
         /\ \A z \in D : g.value[z] = h.value[z]
<1>1. /\ x \in Used(h) /\ x \notin D
      /\ h.next[x] \in (Used(h) \ (D \cup {x})) \cup {UsedTail}
      /\ h.prior[h.next[x]] = x /\ UsedTail \notin Used(h)
  BY NextIsNew DEF Good
<1>2. CASE TakesHome(h, x)
  <2> DEFINE y == h.next[x]
             f == Swapped(h, x, y)
  <2>1. h.state[x] = "home" /\ y \in Used(h) /\ h.state[y] = "misplaced" /\ x # y /\ y \notin D
    BY <1>1, <1>2 DEF TakesHome
  <2>2. HomeOf(h, x) = HomeOf(h, y)
    BY <1>1, <2>1 DEF Good, Chains
  <2>3. g = TakenOut(f, y)
    BY <1>2 DEF Erased, TakenOut, Swapped
  <2>4. \A z \in D : f.value[z] = h.value[z]
    <3>1. Typed(h) /\ D \subseteq Node(h)
      BY DEF Good, Sound, Lists, Used, Before
    <3>2. h.value \in [Node(h) -> Element \cup {None}]
      BY <3>1 DEF Typed
    <3>3. f.value = [h.value EXCEPT ![x] = h.value[y], ![y] = h.value[x]]
      BY <3>1 DEF Typed, Swapped
    <3> HIDE DEF f, y
    <3> QED BY <3>1, <3>2, <3>3, <2>1, <1>1
  <2> HIDE DEF y
  <2>5. /\ Good(f) /\ f.next = h.next /\ f.prior = h.prior /\ Used(f) = Used(h)
    BY <1>1, <2>1, <2>2, SwappedGood
  <2>6. y = f.next[x]
    BY <2>5 DEF y
  <2> HIDE DEF f
  <2>7. Before(f, x, D)
    BY <2>5 DEF Before
  <2>8. /\ Before(g, IF y = x THEN f.next[x] ELSE x, D)
        /\ \A z \in D : g.value[z] = f.value[z]
    <3>1. Sound(f) /\ y \in {x, f.next[x]} /\ y # UsedTail
      BY <2>1, <2>5, <2>6, <1>1 DEF Good
    <3> QED BY <3>1, <2>3, <2>7, BeforeTakenOut
  <2> QED BY <1>2, <2>1, <2>4, <2>8 DEF AfterErase
<1>3. CASE ~ TakesHome(h, x)
  <2>1. g = TakenOut(h, x)
    BY <1>3 DEF Erased, TakenOut
  <2>2. /\ Before(g, IF x = x THEN h.next[x] ELSE x, D)
        /\ \A z \in D : g.value[z] = h.value[z]
    <3>1. Sound(h) /\ x \in {x, h.next[x]}
      BY DEF Good
    <3> QED BY <3>1, <2>1, BeforeTakenOut
  <2> QED BY <1>3, <2>2 DEF AfterErase
<1> QED BY <1>2, <1>3

-----------------------------------------------------------------------------
(* The steps of the loop. *)

(* It begins at the first node, with nothing seen. *)
LEMMA BeginsUnderway ==
  ASSUME NEW h, Good(h)
  PROVE  Underway(h, Begin(h), {}, Contents(h), [key \in Key |-> 0], {})
<1>1. Begin(h) \in Used(h) \cup {UsedTail} /\ h.prior[Begin(h)] = UsedTail
  BY Near DEF Good, Begin
<1>2. Before(h, Begin(h), {})
  BY <1>1 DEF Before, Begin
<1>3. Contents(h) = Elements(h) /\ OnePerKey(Elements(h))
  BY GoodContents, GoodOnePerKey DEF Good
<1>4. Seen(h, {}, {}) = {}
  BY DEF Seen
<1> QED BY <1>2, <1>3, <1>4 DEF Underway

(* The element it comes to is one it has not seen. *)
LEMMA ComesToNew ==
  ASSUME NEW h, NEW x, NEW D, NEW E, NEW count, NEW gone, x # UsedTail,
         Underway(h, x, D, E, count, gone)
  PROVE  /\ h.value[x] \in Elements(h) /\ h.value[x] \in E
         /\ [count EXCEPT ![h.value[x].key] = @ + 1]
              = [key \in Key |-> IF key \in Seen(h, D, gone) \cup {h.value[x].key} THEN 1 ELSE 0]
<1> DEFINE k == h.value[x].key
<1>1. Good(h) /\ x \in Used(h) /\ x \notin D /\ D \subseteq Used(h)
  BY DEF Underway, Before
<1>2. h.value[x] \in Elements(h)
  BY <1>1 DEF Elements
<1>3. h.value[x] \in E /\ k \notin gone
  BY <1>2 DEF Underway
<1>4. k \in Key
  BY <1>3 DEF Underway, OnePerKey, Element
<1>5. \A y \in D : h.value[y].key # k
  BY <1>1 DEF Good, Chains
<1>6. k \notin Seen(h, D, gone)
  BY <1>3, <1>5 DEF Seen
<1> HIDE DEF k
<1>7. count = [key \in Key |-> IF key \in Seen(h, D, gone) THEN 1 ELSE 0]
  BY DEF Underway
<1>8. [count EXCEPT ![k] = @ + 1] = [key \in Key |-> IF key \in Seen(h, D, gone) \cup {k} THEN 1 ELSE 0]
  <2> DEFINE S == Seen(h, D, gone)
  <2>1. k \notin S /\ count = [key \in Key |-> IF key \in S THEN 1 ELSE 0]
    BY <1>6, <1>7
  <2> HIDE DEF S
  <2>2. count[k] + 1 = 1
    BY <2>1, <1>4
  <2>3. [count EXCEPT ![k] = @ + 1] = [key \in Key |-> IF key = k THEN 1 ELSE count[key]]
    BY <2>1, <2>2, <1>4
  <2>4. \A key \in Key : (IF key = k THEN 1 ELSE count[key]) = (IF key \in S \cup {k} THEN 1 ELSE 0)
    BY <2>1
  <2>5. [key \in Key |-> IF key = k THEN 1 ELSE count[key]]
          = [key \in Key |-> IF key \in S \cup {k} THEN 1 ELSE 0]
    BY <2>4
  <2> QED BY <2>3, <2>5 DEF S
<1> QED BY <1>2, <1>3, <1>4, <1>6, <1>8 DEF k

(* Leaving the element where it is. *)
LEMMA KeepsUnderway ==
  ASSUME NEW h, NEW x, NEW D, NEW E, NEW count, NEW gone, x # UsedTail,
         Underway(h, x, D, E, count, gone)
  PROVE  Underway(h, h.next[x], D \cup {x}, E, [count EXCEPT ![h.value[x].key] = @ + 1], gone)
<1>1. Good(h) /\ Before(h, h.next[x], D \cup {x})
  BY GoneOn DEF Underway, Good
<1>2. Seen(h, D \cup {x}, gone) = Seen(h, D, gone) \cup {h.value[x].key}
  BY DEF Seen
<1>3. [count EXCEPT ![h.value[x].key] = @ + 1]
        = [key \in Key |-> IF key \in Seen(h, D, gone) \cup {h.value[x].key} THEN 1 ELSE 0]
  BY ComesToNew, SMTT(30)
<1>4. [count EXCEPT ![h.value[x].key] = @ + 1]
        = [key \in Key |-> IF key \in Seen(h, D \cup {x}, gone) THEN 1 ELSE 0]
  BY <1>2, <1>3, Zenon
<1>5. OnePerKey(E) /\ gone \subseteq {e.key : e \in E} /\ Elements(h) = {e \in E : e.key \notin gone}
  BY DEF Underway
<1> QED BY <1>1, <1>4, <1>5 DEF Underway

(* Erasing it. *)
LEMMA ErasesUnderway ==
  ASSUME NEW h, NEW x, NEW D, NEW E, NEW count, NEW gone, x # UsedTail,
         Underway(h, x, D, E, count, gone), NEW g, g = Erased(h, x)
  PROVE  Underway(g, AfterErase(h, x), D, E, [count EXCEPT ![h.value[x].key] = @ + 1],
                  gone \cup {h.value[x].key})
<1>1. Good(h) /\ Before(h, x, D) /\ x \in Used(h)
  BY DEF Underway, Before
<1>2. Before(g, AfterErase(h, x), D) /\ \A z \in D : g.value[z] = h.value[z]
  BY <1>1, BeforeErased
<1>3. Good(g) /\ Elements(g) = Elements(h) \ {h.value[x]}
  BY <1>1, ErasedGood
<1>4. h.value[x] \in Elements(h) /\ h.value[x] \in E
  BY ComesToNew
<1>5. Seen(g, D, gone \cup {h.value[x].key}) = Seen(h, D, gone) \cup {h.value[x].key}
  BY <1>2 DEF Seen
<1>6. [count EXCEPT ![h.value[x].key] = @ + 1]
        = [key \in Key |-> IF key \in Seen(g, D, gone \cup {h.value[x].key}) THEN 1 ELSE 0]
  <2>1. [count EXCEPT ![h.value[x].key] = @ + 1]
          = [key \in Key |-> IF key \in Seen(h, D, gone) \cup {h.value[x].key} THEN 1 ELSE 0]
    BY ComesToNew, SMTT(30)
  <2> QED BY <2>1, <1>5, Zenon
<1>7. OnePerKey(E) /\ gone \subseteq {e.key : e \in E} /\ Elements(h) = {e \in E : e.key \notin gone}
  BY DEF Underway
<1>8. gone \cup {h.value[x].key} \subseteq {e.key : e \in E}
  BY <1>4, <1>7
<1>9. Elements(g) = {e \in E : e.key \notin gone \cup {h.value[x].key}}
  <2>1. \A e \in E : e = h.value[x] <=> e.key = h.value[x].key
    BY <1>4, <1>7 DEF OnePerKey
  <2> QED BY <2>1, <1>3, <1>4, <1>7
<1> QED BY <1>2, <1>3, <1>6, <1>7, <1>8, <1>9 DEF Underway

-----------------------------------------------------------------------------
(* One step per action. *)
LEMMA LStepKeeps ==
  ASSUME LInv, [LNext]_lvars
  PROVE  LInv'
<1>1. Inv
  BY DEF LInv
<1>2. CASE UNCHANGED lvars
  <2>1. Inv'
    BY <1>1, <1>2, StepKeeps DEF lvars
  <2> QED BY <2>1, <1>2 DEF LInv, lvars, vars
<1>3. CASE LOther
  <2>1. Inv' /\ it' = NoLoop
    BY <1>1, <1>3, StepKeeps DEF LOther
  <2> QED BY <2>1 DEF LInv
<1>4. CASE LBegin
  <2>1. /\ phase' = "idle" /\ table' = table /\ Inv'
        /\ it' = Begin(table) /\ start' = Contents(table)
        /\ visits' = [key \in Key |-> 0] /\ erased' = {}
    BY <1>1, <1>4, StepKeeps DEF LBegin, vars
  <2>2. Underway(table', it', {}, start', visits', erased')
    BY <1>1, <1>4, <2>1, BeginsUnderway DEF LBegin, Inv
  <2> QED BY <2>1, <2>2 DEF LInv
<1>5. CASE LEnd
  <2>1. Inv' /\ it' = NoLoop
    BY <1>1, <1>5, StepKeeps DEF LEnd
  <2> QED BY <2>1 DEF LInv
<1>6. CASE LKeep
  <2>1. /\ it # NoLoop /\ it # UsedTail /\ phase' = phase /\ table' = table /\ Inv'
        /\ visits' = [visits EXCEPT ![table.value[it].key] = @ + 1]
        /\ it' = table.next[it] /\ start' = start /\ erased' = erased
    BY <1>1, <1>6, StepKeeps DEF LKeep, Visited, vars
  <2>2. PICK D : Underway(table, it, D, start, visits, erased)
    BY <2>1 DEF LInv
  <2>3. Underway(table', it', D \cup {it}, start', visits', erased')
    BY <2>1, <2>2, KeepsUnderway
  <2>4. \E C : Underway(table', it', C, start', visits', erased')
    BY <2>3
  <2> QED BY <2>1, <2>4 DEF LInv
<1>7. CASE LErase
  <2>1. /\ it # NoLoop /\ it # UsedTail /\ Erase(it)
        /\ visits' = [visits EXCEPT ![table.value[it].key] = @ + 1]
        /\ erased' = erased \cup {table.value[it].key}
        /\ it' = AfterErase(table, it) /\ start' = start
    BY <1>7 DEF LErase, Visited
  <2>2. /\ phase = "idle" /\ UNCHANGED <<movable, tmp, at, pending, phase>>
        /\ table' = Erased(table, it)
    BY <2>1 DEF Erase, Idle
  <2>3. PICK D : Underway(table, it, D, start, visits, erased)
    BY <2>1 DEF LInv
  <2>4. Underway(table', it', D, start', visits', erased')
    BY <2>1, <2>2, <2>3, ErasesUnderway
  <2>5. Inv'
    BY <1>1, <2>2, <2>4, IdleKeeps DEF Underway
  <2> QED BY <2>2, <2>4, <2>5 DEF LInv
<1> QED BY <1>2, <1>3, <1>4, <1>5, <1>6, <1>7 DEF LNext

(* For any keys, hash function and capacities, a loop that erases as it goes comes to
   every element once, though erase fills a home from the next node, and leaves
   exactly the elements it did not erase. *)
THEOREM LoopIsExact == LSpec => []VisitsEachOnce
<1>1. LInit => LInv
  BY InitInv DEF LInit, LInv
<1>2. LInv /\ [LNext]_lvars => LInv'
  BY LStepKeeps
<1>3. LInv => VisitsEachOnce
  <2> SUFFICES ASSUME LInv, it # NoLoop
               PROVE  /\ \A key \in Key : visits[key] <= (IF \E e \in start : e.key = key THEN 1 ELSE 0)
                      /\ it = UsedTail =>
                           /\ \A e \in start : visits[e.key] = 1
                           /\ Contents(table) = {e \in start : e.key \notin erased}
    BY DEF VisitsEachOnce
  <2>1. PICK D : Underway(table, it, D, start, visits, erased)
    BY DEF LInv
  <2>2. /\ Good(table) /\ Before(table, it, D) /\ D \subseteq Used(table)
        /\ OnePerKey(start) /\ erased \subseteq {e.key : e \in start}
        /\ Elements(table) = {e \in start : e.key \notin erased}
        /\ visits = [key \in Key |-> IF key \in Seen(table, D, erased) THEN 1 ELSE 0]
    BY <2>1 DEF Underway, Before
  <2>3. \A y \in D : table.value[y] \in start
    BY <2>2 DEF Elements
  <2>4. Seen(table, D, erased) \subseteq {e.key : e \in start}
    BY <2>2, <2>3 DEF Seen
  <2>5. ASSUME NEW key \in Key
        PROVE  visits[key] <= (IF \E e \in start : e.key = key THEN 1 ELSE 0)
    BY <2>2, <2>4
  <2>6. ASSUME it = UsedTail
        PROVE  /\ \A e \in start : visits[e.key] = 1
               /\ Contents(table) = {e \in start : e.key \notin erased}
    <3>1. D = Used(table)
      BY <2>2, <2>6, AtTheEnd DEF Good
    <3>2. ASSUME NEW e \in start PROVE e.key \in Seen(table, D, erased)
      <4>1. CASE e.key \in erased
        BY <4>1 DEF Seen
      <4>2. CASE e.key \notin erased
        <5>1. e \in Elements(table)
          BY <4>2, <2>2
        <5> QED BY <5>1, <3>1 DEF Elements, Seen
      <4> QED BY <4>1, <4>2
    <3>3. \A e \in start : e.key \in Key
      BY <2>2 DEF OnePerKey, Element
    <3>4. Contents(table) = Elements(table)
      BY <2>2, GoodContents DEF Good
    <3> QED BY <2>2, <3>2, <3>3, <3>4
  <2> QED BY <2>5, <2>6
<1> QED BY <1>1, <1>2, <1>3, PTL DEF LSpec

(* A client that erases through its iterator does nothing to the table that the
   operations of ClosedHash do not do: all that is proved of them holds with it. *)
THEOREM LoopIsAClient == LSpec => Spec
<1>1. LInit => LInv /\ Init
  BY InitInv DEF LInit, LInv
<1>2. LInv /\ [LNext]_lvars => LInv'
  BY LStepKeeps
<1>3. LInv /\ [LNext]_lvars => [Next]_vars
  <2> SUFFICES ASSUME LInv, LNext \/ UNCHANGED lvars PROVE Next \/ UNCHANGED vars
    OBVIOUS
  <2>1. CASE LErase
    <3> DEFINE k == table.value[it].key
    <3>1. Erase(it) /\ it # NoLoop /\ phase = "idle" /\ it \in Used(table)
      BY <2>1 DEF LErase, Erase, Idle
    <3>2. Good(table)
      BY <3>1 DEF LInv, Inv
    <3>3. k \in Key /\ Find(table, k) = it /\ UsedTail \notin Used(table)
      <4>1. k \in Key
        BY <3>1, <3>2 DEF Good, Chains, Element
      <4>2. Find(table, k) = it
        BY <3>1, <3>2, Found
      <4> QED BY <4>1, <4>2, <3>1, <3>2, Near DEF Good
    <3> HIDE DEF k
    <3>4. EraseKey(k)
      BY <3>1, <3>3 DEF EraseKey
    <3> QED BY <3>3, <3>4 DEF Next
  <2> QED BY <2>1 DEF LNext, LOther, LBegin, LKeep, LEnd, lvars
<1> QED BY <1>1, <1>2, <1>3, PTL DEF LSpec, Spec
=============================================================================

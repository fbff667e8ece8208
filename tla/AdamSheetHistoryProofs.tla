----------------------- MODULE AdamSheetHistoryProofs -----------------------
(***************************************************************************)
(* What TLAPS proves of what a sheet promises its client (those of         *)
(* AdamSheetHistory that are about values): in a sheet that is layered,    *)
(* every cell holds after an update what its expression comes to, monitors *)
(* of values were told the last one, and get returns it.                   *)
(***************************************************************************)
EXTENDS AdamSheetHistory, AdamSheetProofs, WellFoundedInduction

USE NamesAssumption, SheetsAssumption

-----------------------------------------------------------------------------
(* An expression and what it has read. *)
Read(n) == [do |-> "read", name |-> n]
Give(v) == [do |-> "return", value |-> v]
Unread(e, vals, k, n) == \A j \in 0..(k - 1) : ~ReadAt(e, vals, j, n)

(* The names whose values stay as they are until the next update. *)
Known == evaluated \cup (Declared \ Evaluable)

(* An expression for cell n has read vals: of other names what they hold, of its own
   first one of the values own and from then on its input half. *)
Follows(e, vals, n, own) ==
  \A k \in 0..(Len(vals) - 1) : \E m \in Declared \cup Evaluable :
    /\ ReadAt(e, vals, k, m)
    /\ IF m = n /\ n \in Cell
       THEN IF Unread(e, vals, k, n) THEN vals[k + 1] \in own ELSE vals[k + 1] = start[n]
       ELSE m \in Known /\ vals[k + 1] = Seen(m)

Comes(e, vals, n, own, v) == Follows(e, vals, n, own) /\ Step(e, vals) = Give(v)

(* What a cell may read of itself first: what its relate clause derives, if it has one. *)
Derivable(n) == {x \in Value : \E w \in Seq(Value) : Comes(TermExpr(n), w, n, {start[n]}, x)}
Own(n) == IF term[n] = NoTerm THEN {start[n]} ELSE Derivable(n)

(* Cell n holds what its expression comes to. *)
Correct(n) == \E w \in Seq(Value) : Comes(sheet.expr[n], w, n, Own(n), state[n])

LEMMA Least ==
  ASSUME NEW S \in SUBSET Nat, S # {}
  PROVE  \E x \in S : \A y \in S : ~ (y < x)
<1>1. \E x \in S : \A y \in S : ~ (<<y, x>> \in OpToRel(<, Nat))
  BY NatLessThanWellFounded, WFMin, Zenon
<1>2. \A x \in S, y \in S : y < x => <<y, x>> \in OpToRel(<, Nat)
  BY DEF OpToRel
<1> QED BY <1>1, <1>2, Zenon

LEMMA PrefixIs ==
  ASSUME NEW s \in Seq(Value), NEW k \in 0..Len(s)
  PROVE  /\ SubSeq(s, 1, k) \in Seq(Value) /\ Len(SubSeq(s, 1, k)) = k
         /\ \A i \in 1..k : SubSeq(s, 1, k)[i] = s[i]
<1>1. k \in Int /\ \A i \in 1..k : s[i] \in Value
  OBVIOUS
<1>2. /\ SubSeq(s, 1, k) \in Seq(Value)
      /\ Len(SubSeq(s, 1, k)) = IF 1 <= k THEN k - 1 + 1 ELSE 0
      /\ \A i \in 1..(k - 1 + 1) : SubSeq(s, 1, k)[i] = s[1 + i - 1]
  BY <1>1, SubSeqProperties
<1>3. k \in Nat /\ k - 1 + 1 = k /\ \A i \in 1..k : 1 + i - 1 = i
  OBVIOUS
<1> QED BY <1>2, <1>3

LEMMA SamePrefix ==
  ASSUME NEW s \in Seq(Value), NEW t \in Seq(Value), NEW k \in 0..Len(s), k <= Len(t),
         \A i \in 1..k : s[i] = t[i]
  PROVE  SubSeq(s, 1, k) = SubSeq(t, 1, k)
<1>1. k \in 0..Len(t)
  OBVIOUS
<1>2. /\ SubSeq(s, 1, k) \in Seq(Value) /\ Len(SubSeq(s, 1, k)) = k
      /\ \A i \in 1..k : SubSeq(s, 1, k)[i] = s[i]
  BY PrefixIs
<1>3. /\ SubSeq(t, 1, k) \in Seq(Value) /\ Len(SubSeq(t, 1, k)) = k
      /\ \A i \in 1..k : SubSeq(t, 1, k)[i] = t[i]
  BY <1>1, PrefixIs
<1> DEFINE a == SubSeq(s, 1, k)  b == SubSeq(t, 1, k)
<1>4. a \in Seq(Value) /\ b \in Seq(Value) /\ Len(a) = k /\ Len(b) = k /\ \A i \in 1..k : a[i] = b[i]
  BY <1>2, <1>3
<1> HIDE DEF a, b
<1>5. a = b
  BY <1>4
<1> QED BY <1>5 DEF a, b

LEMMA WholePrefix ==
  ASSUME NEW s \in Seq(Value)
  PROVE  Len(s) \in 0..Len(s) /\ SubSeq(s, 1, Len(s)) = s
<1>1. Len(s) \in Nat /\ Len(s) \in 0..Len(s)
  OBVIOUS
<1>2. /\ SubSeq(s, 1, Len(s)) \in Seq(Value) /\ Len(SubSeq(s, 1, Len(s))) = Len(s)
      /\ \A i \in 1..Len(s) : SubSeq(s, 1, Len(s))[i] = s[i]
  BY <1>1, PrefixIs
<1> DEFINE a == SubSeq(s, 1, Len(s))
<1>3. a \in Seq(Value) /\ Len(a) = Len(s) /\ \A i \in 1..Len(s) : a[i] = s[i]
  BY <1>2
<1> HIDE DEF a
<1>4. a = s
  BY <1>3
<1> QED BY <1>1, <1>4 DEF a

LEMMA ReadsIt ==
  /\ \A m, q : Read(m) = Read(q) => m = q
  /\ \A m, v : Read(m) # Give(v)
  /\ \A u, v : Give(u) = Give(v) => u = v
<1>1. ASSUME NEW m, NEW q, Read(m) = Read(q) PROVE m = q
  <2>1. Read(m).name = m /\ Read(q).name = q
    BY DEF Read
  <2> QED BY <1>1, <2>1
<1>2. ASSUME NEW m, NEW v PROVE Read(m) # Give(v)
  BY DEF Read, Give
<1>3. ASSUME NEW u, NEW v, Give(u) = Give(v) PROVE u = v
  <2>1. Give(u).value = u /\ Give(v).value = v
    BY DEF Give
  <2> QED BY <1>3, <2>1
<1> QED BY <1>1, <1>2, <1>3

(* An expression reads the same each time: two runs of it agree as far as both have come. *)
LEMMA Agree ==
  ASSUME NEW e, NEW n, NEW own, \A x, y \in own : x = y,
         NEW s \in Seq(Value), Follows(e, s, n, own),
         NEW t \in Seq(Value), Follows(e, t, n, own)
  PROVE  \A k \in 1..Len(s) : k <= Len(t) => s[k] = t[k]
<1> DEFINE D == {k \in Nat : k >= 1 /\ k <= Len(s) /\ k <= Len(t) /\ s[k] # t[k]}
<1> SUFFICES ASSUME D # {} PROVE FALSE
  OBVIOUS
<1>1. PICK k \in D : \A j \in D : ~ (j < k)
  <2> D \in SUBSET Nat
    OBVIOUS
  <2> HIDE DEF D
  <2> QED BY Least
<1>2. /\ k \in Nat /\ k >= 1 /\ k <= Len(s) /\ k <= Len(t) /\ s[k] # t[k]
      /\ Len(s) \in Nat /\ Len(t) \in Nat
  OBVIOUS
<1>3. \A i \in 1..(k - 1) : s[i] = t[i]
  BY <1>1, <1>2
<1> HIDE DEF D
<1>4. \A j \in 0..(k - 1) : SubSeq(s, 1, j) = SubSeq(t, 1, j)
  <2> TAKE j \in 0..(k - 1)
  <2>1. j \in 0..Len(s) /\ j <= Len(t) /\ \A i \in 1..j : i \in 1..(k - 1)
    BY <1>2
  <2> QED BY <2>1, <1>3, SamePrefix
<1>5. k - 1 \in 0..(k - 1) /\ k - 1 \in 0..(Len(s) - 1) /\ k - 1 \in 0..(Len(t) - 1) /\ k - 1 + 1 = k
  BY <1>2
<1>6. PICK m \in Declared \cup Evaluable :
        /\ ReadAt(e, s, k - 1, m)
        /\ IF m = n /\ n \in Cell
           THEN IF Unread(e, s, k - 1, n) THEN s[k] \in own ELSE s[k] = start[n]
           ELSE m \in Known /\ s[k] = Seen(m)
  BY <1>5 DEF Follows
<1>7. PICK q \in Declared \cup Evaluable :
        /\ ReadAt(e, t, k - 1, q)
        /\ IF q = n /\ n \in Cell
           THEN IF Unread(e, t, k - 1, n) THEN t[k] \in own ELSE t[k] = start[n]
           ELSE q \in Known /\ t[k] = Seen(q)
  BY <1>5 DEF Follows
<1>8. m = q
  <2>1. SubSeq(s, 1, k - 1) = SubSeq(t, 1, k - 1)
    BY <1>4, <1>5
  <2>2. Read(m) = Read(q)
    BY <2>1, <1>6, <1>7 DEF ReadAt, Read
  <2> QED BY <2>2, ReadsIt
<1>9. Unread(e, s, k - 1, n) <=> Unread(e, t, k - 1, n)
  <2>1. \A j \in 0..(k - 1 - 1) : j \in 0..(k - 1)
    BY <1>2
  <2> QED BY <2>1, <1>4 DEF Unread, ReadAt
<1> QED BY <1>2, <1>6, <1>7, <1>8, <1>9

(* A run that waits for m is a proper beginning of one that returns, which has read m. *)
LEMMA Ahead ==
  ASSUME NEW e, NEW n, NEW own, \A x, y \in own : x = y,
         NEW s \in Seq(Value), Follows(e, s, n, own), NEW m, Step(e, s) = Read(m),
         NEW t \in Seq(Value), Follows(e, t, n, own), NEW v, Step(e, t) = Give(v)
  PROVE  IF m = n /\ n \in Cell
         THEN Unread(e, s, Len(s), n) => own # {}
         ELSE m \in Known
<1>1. Len(s) \in Nat /\ Len(t) \in Nat
  OBVIOUS
<1>2. \A k \in 1..Len(s) : k <= Len(t) => s[k] = t[k]
  BY Agree
<1>3. Read(m) # Give(v) /\ \A q : Read(q) # Give(v)
  BY ReadsIt
<1>4. ~ (Len(t) <= Len(s))
  <2> SUFFICES ASSUME Len(t) <= Len(s) PROVE FALSE
    OBVIOUS
  <2>1. Len(t) \in 0..Len(s) /\ \A i \in 1..Len(t) : s[i] = t[i]
    BY <1>1, <1>2
  <2>2. SubSeq(s, 1, Len(t)) = t
    BY <2>1, <1>1, SamePrefix, WholePrefix
  <2>3. CASE Len(t) = Len(s)
    <3>1. s = t
      BY <2>2, <2>3, WholePrefix
    <3> QED BY <3>1, <1>3
  <2>4. CASE Len(t) < Len(s)
    <3>1. Len(t) \in 0..(Len(s) - 1)
      BY <1>1, <2>4
    <3>2. PICK q : ReadAt(e, s, Len(t), q)
      BY <3>1 DEF Follows
    <3> QED BY <3>2, <2>2, <1>3 DEF ReadAt, Read
  <2> QED BY <2>3, <2>4, <1>1
<1>5. Len(s) \in 0..(Len(t) - 1) /\ Len(s) \in 0..Len(t) /\ Len(s) \in 0..Len(s)
  BY <1>1, <1>4
<1>6. \A j \in 0..Len(s) : SubSeq(s, 1, j) = SubSeq(t, 1, j)
  <2> TAKE j \in 0..Len(s)
  <2>1. j <= Len(t) /\ \A i \in 1..j : i \in 1..Len(s) /\ i <= Len(t)
    BY <1>1, <1>5
  <2> QED BY <2>1, <1>2, SamePrefix
<1>7. PICK q \in Declared \cup Evaluable :
        /\ ReadAt(e, t, Len(s), q)
        /\ IF q = n /\ n \in Cell
           THEN IF Unread(e, t, Len(s), n) THEN t[Len(s) + 1] \in own ELSE t[Len(s) + 1] = start[n]
           ELSE q \in Known /\ t[Len(s) + 1] = Seen(q)
  BY <1>5 DEF Follows
<1>8. q = m
  <2>1. SubSeq(t, 1, Len(s)) = s
    BY <1>5, <1>6, WholePrefix
  <2>2. Read(q) = Read(m)
    BY <2>1, <1>7 DEF ReadAt, Read
  <2> QED BY <2>2, ReadsIt
<1>9. Unread(e, s, Len(s), n) => Unread(e, t, Len(s), n)
  <2>1. \A j \in 0..(Len(s) - 1) : j \in 0..Len(s)
    BY <1>1
  <2> QED BY <2>1, <1>6 DEF Unread, ReadAt
<1> QED BY <1>7, <1>8, <1>9

(* It comes to one value. *)
LEMMA OneOutcome ==
  ASSUME NEW e, NEW n, NEW own, \A x, y \in own : x = y,
         NEW s \in Seq(Value), NEW v, Comes(e, s, n, own, v),
         NEW t \in Seq(Value), NEW u, Comes(e, t, n, own, u)
  PROVE  v = u
<1>1. Len(s) \in Nat /\ Len(t) \in Nat
  OBVIOUS
<1>2. /\ \A k \in 1..Len(s) : k <= Len(t) => s[k] = t[k]
      /\ \A k \in 1..Len(t) : k <= Len(s) => t[k] = s[k]
  BY Agree DEF Comes
<1>3. \A q, x : Read(q) # Give(x)
  BY ReadsIt
<1>4. ASSUME NEW a \in Seq(Value), NEW b \in Seq(Value), NEW x, NEW y,
             Comes(e, a, n, own, x), Comes(e, b, n, own, y),
             \A k \in 1..Len(a) : k <= Len(b) => a[k] = b[k], Len(a) < Len(b)
      PROVE  FALSE
  <2>1. Len(a) \in Nat /\ Len(b) \in Nat /\ Len(a) \in 0..(Len(b) - 1)
    BY <1>4
  <2>2. SubSeq(b, 1, Len(a)) = SubSeq(a, 1, Len(a))
    BY <2>1, <1>4, SamePrefix
  <2>3. PICK q : ReadAt(e, b, Len(a), q)
    BY <2>1, <1>4 DEF Comes, Follows
  <2> QED BY <2>2, <2>3, <1>3, <1>4, WholePrefix DEF ReadAt, Comes, Read
<1>5. Len(s) = Len(t)
  BY <1>1, <1>2, <1>4
<1>6. s = t
  BY <1>1, <1>2, <1>5
<1> QED BY <1>6, ReadsIt DEF Comes

LEMMA OwnIsOne == ASSUME NEW n PROVE \A x, y \in Own(n) : x = y
<1>1. ASSUME NEW x \in Derivable(n), NEW y \in Derivable(n) PROVE x = y
  <2>1. PICK s \in Seq(Value) : Comes(TermExpr(n), s, n, {start[n]}, x)
    BY DEF Derivable
  <2>2. PICK t \in Seq(Value) : Comes(TermExpr(n), t, n, {start[n]}, y)
    BY DEF Derivable
  <2> DEFINE own == {start[n]}
  <2>3. \A a, b \in own : a = b
    OBVIOUS
  <2> HIDE DEF own
  <2> QED BY <2>1, <2>2, <2>3, OneOutcome DEF own
<1> QED BY <1>1 DEF Own

-----------------------------------------------------------------------------
(* What is known stays known. *)
Stable == UNCHANGED <<sheet, start>> /\ \A m \in Known : m \in Known' /\ Seen(m)' = Seen(m)

LEMMA FollowsStays ==
  ASSUME Stable, NEW e, NEW vals, NEW n, NEW own, Follows(e, vals, n, own)
  PROVE  Follows(e, vals, n, own)'
<1> SUFFICES ASSUME NEW k \in 0..(Len(vals) - 1)
             PROVE  \E m \in Declared \cup Evaluable :
                      /\ ReadAt(e, vals, k, m)
                      /\ IF m = n /\ n \in Cell
                         THEN IF Unread(e, vals, k, n) THEN vals[k + 1] \in own ELSE vals[k + 1] = start'[n]
                         ELSE m \in Known' /\ vals[k + 1] = Seen(m)'
  BY DEF Follows
<1> QED BY DEF Follows, Stable

LEMMA InputFollowsStays ==
  ASSUME Stable, NEW e, NEW vals, NEW n, Follows(e, vals, n, {start[n]})
  PROVE  Follows(e, vals, n, {start[n]})'
<1> SUFFICES ASSUME NEW k \in 0..(Len(vals) - 1)
             PROVE  \E m \in Declared \cup Evaluable :
                      /\ ReadAt(e, vals, k, m)
                      /\ IF m = n /\ n \in Cell
                         THEN IF Unread(e, vals, k, n) THEN vals[k + 1] \in {start'[n]} ELSE vals[k + 1] = start'[n]
                         ELSE m \in Known' /\ vals[k + 1] = Seen(m)'
  BY DEF Follows
<1> QED BY DEF Follows, Stable

LEMMA OwnStays ==
  ASSUME Stable, NEW n, term'[n] = term[n]
  PROVE  \A x \in Own(n) : x \in Own(n)'
<1>1. start'[n] = start[n] /\ TermExpr(n)' = TermExpr(n)
  BY DEF Stable, TermExpr
<1>2. ASSUME NEW x \in Derivable(n) PROVE x \in Derivable(n)'
  <2>1. PICK w \in Seq(Value) : Comes(TermExpr(n), w, n, {start[n]}, x)
    BY DEF Derivable
  <2>2. PICK e : e = TermExpr(n)
    OBVIOUS
  <2>3. Follows(e, w, n, {start[n]}) /\ Step(e, w) = Give(x)
    BY <2>1, <2>2 DEF Comes
  <2>4. Follows(e, w, n, {start[n]})'
    BY <2>3, InputFollowsStays
  <2>5. Comes(TermExpr(n), w, n, {start[n]}, x)'
    BY <1>1, <2>2, <2>3, <2>4 DEF Comes, Follows
  <2>6. x \in Value
    BY DEF Derivable
  <2> QED BY <2>5, <2>6 DEF Derivable
<1> QED BY <1>1, <1>2 DEF Own

LEMMA OwnFollowsStays ==
  ASSUME Stable, NEW e, NEW vals, NEW n, term'[n] = term[n], Follows(e, vals, n, Own(n))
  PROVE  Follows(e, vals, n, Own(n))'
<1>1. \A x \in Own(n) : x \in Own(n)'
  BY OwnStays
<1> SUFFICES ASSUME NEW k \in 0..(Len(vals) - 1)
             PROVE  \E m \in Declared \cup Evaluable :
                      /\ ReadAt(e, vals, k, m)
                      /\ IF m = n /\ n \in Cell
                         THEN IF Unread(e, vals, k, n) THEN vals[k + 1] \in Own(n)' ELSE vals[k + 1] = start'[n]
                         ELSE m \in Known' /\ vals[k + 1] = Seen(m)'
  BY DEF Follows
<1> QED BY <1>1 DEF Follows, Stable

LEMMA CorrectStays ==
  ASSUME Stable, NEW n, term'[n] = term[n], state'[n] = state[n], Correct(n)
  PROVE  Correct(n)'
<1>1. PICK w \in Seq(Value) : Comes(sheet.expr[n], w, n, Own(n), state[n])
  BY DEF Correct
<1>2. PICK e : e = sheet.expr[n]
  OBVIOUS
<1>3. Follows(e, w, n, Own(n)) /\ Step(e, w) = Give(state[n])
  BY <1>1, <1>2 DEF Comes
<1>4. Follows(e, w, n, Own(n))'
  BY <1>3, OwnFollowsStays
<1>5. sheet'.expr[n] = e
  BY <1>2 DEF Stable
<1>6. Comes(sheet.expr[n], w, n, Own(n), state[n])'
  BY <1>3, <1>4, <1>5 DEF Comes, Follows
<1> QED BY <1>6 DEF Correct

-----------------------------------------------------------------------------
(* The evaluations in progress.  What a frame has read follows from its expression, and
   every frame but the innermost waits for the next to give what it reads. *)
Owner(f) == IF f.kind \in {"get", "output", "term"} THEN f.of ELSE NoCell

Faithful(f) ==
  /\ f.kind \in {"get", "output"} =>
       /\ f.of \in DOMAIN sheet.expr \ evaluated /\ f.expr = sheet.expr[f.of]
       /\ Follows(f.expr, f.vals, f.of, Own(f.of))
  /\ f.kind = "term" =>
       /\ f.of \in Cell /\ term[f.of] # NoTerm /\ f.expr = TermExpr(f.of)
       /\ Follows(f.expr, f.vals, f.of, {start[f.of]})
  /\ f.kind \in {"client", "when"} => Follows(f.expr, f.vals, NoCell, {})

Waits(f, g) ==
  /\ Step(f.expr, f.vals) = Read(g.of)
  /\ g.kind = "get" => Owner(f) \notin Cell \/ g.of # Owner(f)
  /\ g.kind = "term" => Named(f) /\ g.of = f.of /\ Unread(f.expr, f.vals, Len(f.vals), f.of)

(* No update has thrown, and one has begun. *)
Clean == ~failed /\ (phase # "idle" \/ published # Nothing)

Chained(fs) ==
  /\ \A i \in 1..Len(fs) : Faithful(fs[i])
  /\ \A i \in 1..(Len(fs) - 1) : Waits(fs[i], fs[i + 1])

LEMMA FaithfulStays ==
  ASSUME Stable, NEW f, term'[f.of] = term[f.of], Faithful(f),
         f.kind \in {"get", "output"} => f.of \notin evaluated'
  PROVE  Faithful(f)'
<1>1. sheet' = sheet
  BY DEF Stable
<1>2. TermExpr(f.of)' = TermExpr(f.of)
  BY <1>1 DEF TermExpr
<1>3. CASE f.kind \in {"get", "output"}
  <2>1. Follows(f.expr, f.vals, f.of, Own(f.of))'
    BY <1>3, OwnFollowsStays DEF Faithful
  <2> QED BY <1>1, <1>3, <2>1 DEF Faithful
<1>4. CASE f.kind = "term"
  <2>1. Follows(f.expr, f.vals, f.of, {start[f.of]})'
    BY <1>4, InputFollowsStays DEF Faithful
  <2> QED BY <1>2, <1>4, <2>1 DEF Faithful
<1>5. CASE f.kind \in {"client", "when"}
  <2>1. Follows(f.expr, f.vals, NoCell, {})'
    BY <1>5, FollowsStays DEF Faithful
  <2> QED BY <1>5, <2>1 DEF Faithful
<1> QED BY <1>3, <1>4, <1>5 DEF Faithful

(* Deterministic expressions: no cell is in progress twice when the innermost returns,
   because an earlier run of its expression waits for what the innermost has read. *)
LEMMA NotTwice ==
  ASSUME NEW fs, NEW A, fs \in Seq(FrameOver(A)), fs # <<>>, Chained(fs),
         \A i \in 1..Len(fs) : fs[i].vals \in Seq(Value),
         \A i \in 2..Len(fs) : fs[i].kind \in {"get", "term"},
         \A i \in 1..Len(fs) : fs[i].kind = "get" => fs[i].of \in Evaluable,
         fs[Len(fs)].kind = "get", NEW v, Step(fs[Len(fs)].expr, fs[Len(fs)].vals) = Give(v),
         NEW i \in 1..(Len(fs) - 1), fs[i].kind \in {"get", "output"}
  PROVE  fs[i].of # fs[Len(fs)].of
<1> SUFFICES ASSUME fs[i].of = fs[Len(fs)].of PROVE FALSE
  OBVIOUS
<1>1. PICK L : L = Len(fs)
  OBVIOUS
<1>2. PICK n : n = fs[L].of
  OBVIOUS
<1>3. PICK e : e = sheet.expr[n]
  OBVIOUS
<1>4. L \in Nat /\ L \in 1..L /\ i \in 1..L /\ i + 1 \in 2..L /\ i + 1 \in 1..L /\ i \in 1..(L - 1)
  BY <1>1
<1>5. /\ fs[i].expr = e /\ Follows(e, fs[i].vals, n, Own(n)) /\ fs[i].vals \in Seq(Value)
      /\ fs[L].expr = e /\ Follows(e, fs[L].vals, n, Own(n)) /\ fs[L].vals \in Seq(Value)
      /\ fs[i].of = n
  BY <1>1, <1>2, <1>3, <1>4 DEF Chained, Faithful
<1>6. PICK g : g = fs[i + 1]
  OBVIOUS
<1>7. Waits(fs[i], g) /\ Faithful(g) /\ g.kind \in {"get", "term"} /\ g.vals \in Seq(Value)
  BY <1>1, <1>4, <1>6 DEF Chained
<1>8. Step(e, fs[i].vals) = Read(g.of)
  BY <1>5, <1>7 DEF Waits
<1>9. IF g.of = n /\ n \in Cell
      THEN Unread(e, fs[i].vals, Len(fs[i].vals), n) => Own(n) # {}
      ELSE g.of \in Known
  BY <1>1, <1>5, <1>8, OwnIsOne, Ahead
<1>10. Owner(fs[i]) = n
  BY <1>5 DEF Owner
<1>11. ASSUME g.kind = "get" PROVE FALSE
  <2>1. g.of \in Evaluable \ evaluated
    BY <1>1, <1>4, <1>6, <1>7, <1>11 DEF Faithful
  <2>2. g.of \notin Known
    BY <2>1 DEF Known, Declared, Evaluable
  <2> QED BY <1>7, <1>9, <1>10, <1>11, <2>2 DEF Waits
<1>12. g.kind = "term" /\ g.of = n /\ n \in Cell /\ Own(n) # {} /\ term[n] # NoTerm
  BY <1>5, <1>7, <1>9, <1>11 DEF Waits, Named, Faithful
<1>13. PICK x, w : w \in Seq(Value) /\ Comes(TermExpr(n), w, n, {start[n]}, x)
  BY <1>12 DEF Own, Derivable
<1>14. Follows(TermExpr(n), g.vals, n, {start[n]}) /\ g.expr = TermExpr(n)
  BY <1>7, <1>12 DEF Faithful
<1>15. i + 1 \in 1..(L - 1) /\ i + 2 \in 2..L /\ i + 2 \in 1..L /\ (i + 1) + 1 = i + 2
  <2>1. i + 1 # L
    BY <1>1, <1>6, <1>12
  <2> QED BY <1>4, <2>1
<1>16. PICK h : h = fs[i + 2]
  OBVIOUS
<1>17. Waits(g, h) /\ Faithful(h) /\ h.kind \in {"get", "term"}
  BY <1>1, <1>6, <1>15, <1>16 DEF Chained
<1>18. h.kind = "get" /\ h.of # n
  BY <1>12, <1>17 DEF Waits, Named, Owner
<1>19. Step(TermExpr(n), g.vals) = Read(h.of)
  BY <1>14, <1>17 DEF Waits
<1>20. h.of \in Known
  <2> DEFINE own == {start[n]}
  <2>1. \A a, b \in own : a = b
    OBVIOUS
  <2>2. Follows(TermExpr(n), g.vals, n, own) /\ Follows(TermExpr(n), w, n, own) /\ Step(TermExpr(n), w) = Give(x)
    BY <1>13, <1>14 DEF Comes
  <2> HIDE DEF own
  <2> QED BY <1>7, <1>13, <1>18, <1>19, <2>1, <2>2, Ahead
<1>21. h.of \in Evaluable \ evaluated
  BY <1>1, <1>15, <1>16, <1>17, <1>18 DEF Faithful
<1> QED BY <1>20, <1>21 DEF Known, Declared, Evaluable

-----------------------------------------------------------------------------
(* An expression reads as often as its bound says, so what it has read is in Reading. *)
LEMMA ReadsEnd ==
  ASSUME NEW e, \A w \in [1..MaxReads -> Value] : Step(e, w).do # "read",
         NEW vals \in Seq(Value), \A k \in 0..(Len(vals) - 1) : \E m : ReadAt(e, vals, k, m)
  PROVE  Len(vals) <= MaxReads /\ vals \in Reading
<1>1. MaxReads \in Nat /\ Len(vals) \in Nat
  BY ReadsAssumption
<1>2. Len(vals) <= MaxReads
  <2> SUFFICES ASSUME MaxReads < Len(vals) PROVE FALSE
    BY <1>1
  <2>1. MaxReads \in 0..(Len(vals) - 1) /\ MaxReads \in 0..Len(vals)
    BY <1>1
  <2>2. PICK m : ReadAt(e, vals, MaxReads, m)
    BY <2>1
  <2>3. SubSeq(vals, 1, MaxReads) \in [1..MaxReads -> Value]
    <3>1. SubSeq(vals, 1, MaxReads) \in Seq(Value) /\ Len(SubSeq(vals, 1, MaxReads)) = MaxReads
      BY <2>1, PrefixIs
    <3>2. \A s2 \in Seq(Value) : s2 \in [1..Len(s2) -> Value]
      OBVIOUS
    <3> QED BY <3>1, <3>2
  <2>4. PICK w : w = SubSeq(vals, 1, MaxReads)
    OBVIOUS
  <2>5. Step(e, w) = Read(m) /\ Step(e, w).do # "read"
    BY <2>2, <2>3, <2>4 DEF ReadAt, Read
  <2>6. Read(m).do = "read"
    BY DEF Read
  <2> QED BY <2>5, <2>6
<1>3. vals \in [1..Len(vals) -> Value] /\ Len(vals) \in 0..MaxReads
  BY <1>1, <1>2
<1> QED BY <1>2, <1>3 DEF Reading

LEMMA Bounded ==
  ASSUME NEW s \in Sheets, NEW n \in DOMAIN s.expr, NEW e \in Calculators(s, n),
         NEW vals \in Seq(Value), \A k \in 0..(Len(vals) - 1) : \E m : ReadAt(e, vals, k, m)
  PROVE  Len(vals) <= MaxReads /\ vals \in Reading
<1>1. \A w \in [1..MaxReads -> Value] : Step(e, w).do # "read"
  BY ReadsAssumption, Zenon
<1> QED BY <1>1, ReadsEnd

(* The expressions that derive a cell are those of the relate clauses the client declared. *)
Clauses ==
  /\ \A c \in Cell : term[c] # NoTerm => c \in term[c][2]
  /\ Len(relations) <= Len(sheet.relations)
  /\ \A r \in Relation : relations[r].terms = sheet.relations[r].terms

LEMMA TermExprIs ==
  ASSUME TypeOK, Clauses, sheet \in Sheets, NEW n \in Cell, term[n] # NoTerm
  PROVE  TermExpr(n) \in Calculators(sheet, n)
<1>0. PICK r, t : r = term[n][1] /\ t = term[n][2]
  OBVIOUS
<1>1. r \in Relation /\ t \in Terms(r) /\ n \in t
  BY <1>0 DEF TypeOK, Clauses
<1>2. relations \in Seq([terms : Shapes, conditional : BOOLEAN])
  BY DEF TypeOK
<1>3. r \in 1..Len(relations) /\ Len(relations) \in Nat
  BY <1>1, <1>2 DEF Relation
<1>4. DOMAIN sheet.relations = 1..Len(sheet.relations)
  OBVIOUS
<1>5. r \in DOMAIN sheet.relations
  <2>1. PICK k : k = Len(sheet.relations)
    OBVIOUS
  <2>2. Len(relations) <= k
    BY <2>1 DEF Clauses
  <2>3. k \in Nat
    BY <2>1
  <2>4. r \in 1..k
    BY <1>3, <2>2, <2>3
  <2> QED BY <2>1, <2>4, <1>4
<1>6. t \in sheet.relations[r].terms
  BY <1>1 DEF Clauses, Terms
<1>7. TermExpr(n) = sheet.relations[r].derive[t][n]
  BY <1>0 DEF TermExpr
<1>8. TermExpr(n) \in DerivedAs(sheet, n)
  BY <1>1, <1>5, <1>6, <1>7 DEF DerivedAs
<1> QED BY <1>8 DEF Calculators

(* Where each name on the get stack comes from: the frames that push a name have it
   there, in order, and nothing else is there. *)
Placed(where, fs, gs) ==
  /\ where \in [1..Len(gs) -> 1..Len(fs)]
  /\ \A j \in 1..Len(gs) : Named(fs[where[j]]) /\ gs[j][1] = fs[where[j]].of
  /\ \A j, k \in 1..Len(gs) : j < k => where[j] < where[k]
  /\ \A i \in 1..Len(fs) : Named(fs[i]) => \E j \in 1..Len(gs) : where[j] = i

(* The second of a name says whether the cell has read itself. *)
OwnBegun(fs, i) ==
  \/ ~Unread(fs[i].expr, fs[i].vals, Len(fs[i].vals), fs[i].of)
  \/ i < Len(fs) /\ fs[i + 1].kind = "term"
Flagged(where, fs, gs) ==
  \A j \in 1..Len(gs) : term[gs[j][1]] # NoTerm => (gs[j][2] <=> OwnBegun(fs, where[j]))

(* What frames are, whatever they have read. *)
Frames(fs) ==
  /\ \E A : fs \in Seq(FrameOver(A))
  /\ fs # <<>> => fs[1].kind \in Roots
  /\ \A i \in 1..Len(fs) : fs[i].vals \in Seq(Value)
  /\ \A i \in 1..Len(fs) : fs[i].kind \in {"get", "output"} => fs[i].of \in Evaluable
  /\ \A i \in 2..Len(fs) : fs[i].kind \in {"get", "term"}

(* A frame that belongs to a cell reads what the cell may follow. *)
LEMMA MayFollows ==
  ASSUME TypeOK, Clauses, sheet \in Sheets, NEW f, f.vals \in Seq(Value), Faithful(f),
         Owner(f) # NoCell, f.kind = "term" => f.of \in DOMAIN sheet.expr,
         NEW m, Step(f.expr, f.vals) = Read(m)
  PROVE  f.of \in DOMAIN sheet.expr /\ MayFollow(sheet, f.of, m)
<1>1. f.kind \in {"get", "output", "term"} /\ f.of \in DOMAIN sheet.expr
  BY DEF Owner, Faithful
<1>2. f.expr \in Calculators(sheet, f.of)
  BY <1>1, TermExprIs DEF Faithful, Calculators
<1>3. \A k \in 0..(Len(f.vals) - 1) : \E q : ReadAt(f.expr, f.vals, k, q)
  BY <1>1 DEF Faithful, Follows
<1>4. f.vals \in Reading
  BY <1>1, <1>2, <1>3, Bounded
<1>5. ReadAt(f.expr, f.vals, Len(f.vals), m)
  BY WholePrefix DEF ReadAt, Read
<1>6. MayRead(f.expr, m)
  BY <1>4, <1>5 DEF MayRead
<1> QED BY <1>1, <1>2, <1>6 DEF MayFollow

LEMMA ComputedIs == Computed \cap Cell = {} /\ Declared \cap Computed = {} /\ Cell \subseteq Evaluable
BY DEF Declared, Evaluable

(* In a layered sheet the cell that reads the name on top of the get stack is that cell:
   otherwise it, and what was calculated since the name was pushed, would be a cycle of
   cells that push no name. *)
LEMMA TopIsOwn ==
  ASSUME TypeOK, Clauses, sheet \in Sheets, Layered(sheet),
         NEW fs, NEW gs, NEW where, Frames(fs), Chained(fs), fs # <<>>,
         Placed(where, fs, gs), Len(gs) \in Nat, Len(gs) >= 1,
         Step(fs[Len(fs)].expr, fs[Len(fs)].vals) = Read(gs[Len(gs)][1])
  PROVE  Owner(fs[Len(fs)]) = gs[Len(gs)][1]
<1>1. PICK A : fs \in Seq(FrameOver(A))
  BY DEF Frames
<1>2. PICK L : L = Len(fs)
  OBVIOUS
<1>3. PICK a : a = where[Len(gs)]
  OBVIOUS
<1>4. PICK n : n = gs[Len(gs)][1]
  OBVIOUS
<1>5. L \in Nat /\ L >= 1 /\ a \in 1..L /\ Named(fs[a]) /\ fs[a].of = n /\ n \in Cell
  BY <1>1, <1>2, <1>3, <1>4 DEF Placed, Named
<1>6. \A i \in (a + 1)..L : ~Named(fs[i])
  <2> SUFFICES ASSUME NEW i \in (a + 1)..L, Named(fs[i]) PROVE FALSE
    OBVIOUS
  <2>1. i \in 1..Len(fs) /\ a < i
    BY <1>2, <1>5
  <2>2. PICK j \in 1..Len(gs) : where[j] = i
    BY <2>1 DEF Placed
  <2>3. PICK l : l = Len(gs)
    OBVIOUS
  <2>4. j \in 1..l /\ l \in 1..l /\ (j < l => where[j] < where[l]) /\ where[l] = a
    BY <2>2, <2>3, <1>3 DEF Placed
  <2>5. j = l \/ j < l
    BY <2>4
  <2>6. i \in Int /\ a \in Int
    BY <2>1, <1>5
  <2> QED BY <2>1, <2>2, <2>4, <2>5, <2>6
<1>7. \A i \in (a + 1)..L : fs[i].kind \in {"get", "term"} /\ (fs[i].kind = "get" => fs[i].of \in Computed)
  <2> TAKE i \in (a + 1)..L
  <2>1. i \in 2..Len(fs) /\ i \in 1..Len(fs)
    BY <1>2, <1>5
  <2>2. fs[i].kind = "get" => fs[i].of \in Evaluable \ Cell
    BY <2>1, <1>6 DEF Frames, Named
  <2> QED BY <2>1, <2>2 DEF Frames, Evaluable
<1>8. \A i \in (a + 1)..L : fs[i].kind = "term" => i = a + 1 /\ fs[i].of = n
  <2> TAKE i \in (a + 1)..L
  <2> SUFFICES ASSUME fs[i].kind = "term" PROVE i = a + 1 /\ fs[i].of = n
    OBVIOUS
  <2>1. i - 1 \in 1..(Len(fs) - 1) /\ (i - 1) + 1 = i /\ i - 1 \in a..L
    BY <1>2, <1>5
  <2>2. Waits(fs[i - 1], fs[i])
    BY <2>1 DEF Chained
  <2>3. Named(fs[i - 1]) /\ fs[i].of = fs[i - 1].of
    BY <2>2 DEF Waits
  <2>4. i - 1 \notin (a + 1)..L
    BY <2>3, <1>6
  <2>5. i - 1 = a
    BY <2>1, <2>4, <1>5
  <2> QED BY <2>1, <2>3, <2>5, <1>5
<1>9. \A i \in a..L : Owner(fs[i]) = fs[i].of /\ Faithful(fs[i]) /\ fs[i].vals \in Seq(Value)
  <2> TAKE i \in a..L
  <2>1. i \in 1..Len(fs) /\ (i = a \/ i \in (a + 1)..L)
    BY <1>2, <1>5
  <2>2. fs[i].kind \in {"get", "output", "term"}
    BY <2>1, <1>5, <1>7 DEF Named
  <2> QED BY <2>1, <2>2 DEF Owner, Chained, Frames
<1>10. n \in DOMAIN sheet.expr
  <2>1. a \in a..L
    BY <1>5
  <2> QED BY <2>1, <1>5, <1>9 DEF Named, Faithful
<1>11. \A i \in a..L : fs[i].of \in DOMAIN sheet.expr
  <2> TAKE i \in a..L
  <2>1. i = a \/ i \in (a + 1)..L
    BY <1>5
  <2> QED BY <2>1, <1>5, <1>7, <1>8, <1>9, <1>10 DEF Faithful
<1>12. \A i \in a..L : fs[i].of # NoCell
  <2>1. NoCell \notin Evaluable
    BY DEF Evaluable, Declared
  <2> QED BY <1>11, <2>1
<1>13. ASSUME NEW i \in a..(L - 1) PROVE MayFollow(sheet, fs[i].of, fs[i + 1].of)
  <2>1. i \in a..L /\ i \in 1..(Len(fs) - 1)
    BY <1>2, <1>5
  <2>2. Step(fs[i].expr, fs[i].vals) = Read(fs[i + 1].of)
    BY <2>1 DEF Chained, Waits
  <2>3. Owner(fs[i]) # NoCell /\ (fs[i].kind = "term" => fs[i].of \in DOMAIN sheet.expr)
    BY <2>1, <1>9, <1>11, <1>12
  <2>4. PICK f, m : f = fs[i] /\ m = fs[i + 1].of
    OBVIOUS
  <2>5. MayFollow(sheet, f.of, m)
    BY <2>1, <2>2, <2>3, <2>4, <1>9, MayFollows
  <2> QED BY <2>4, <2>5
<1>14. MayFollow(sheet, fs[L].of, n)
  <2>1. L \in a..L
    BY <1>5
  <2>2. Step(fs[L].expr, fs[L].vals) = Read(n)
    BY <1>2, <1>4
  <2>3. Owner(fs[L]) # NoCell /\ (fs[L].kind = "term" => fs[L].of \in DOMAIN sheet.expr)
    BY <2>1, <1>9, <1>11, <1>12
  <2>4. PICK f : f = fs[L]
    OBVIOUS
  <2>5. MayFollow(sheet, f.of, n)
    BY <2>1, <2>2, <2>3, <2>4, <1>9, MayFollows
  <2> QED BY <2>4, <2>5
<1> SUFFICES ASSUME Owner(fs[L]) # n PROVE FALSE
  BY <1>2, <1>4
<1>15. L \in (a + 1)..L /\ fs[L].kind = "get" /\ fs[L].of \in Computed
  <2>1. L \in a..L
    BY <1>5
  <2>2. L # a
    BY <2>1, <1>5, <1>9
  <2>3. L \in (a + 1)..L
    BY <2>2, <1>5
  <2> QED BY <2>1, <2>3, <1>7, <1>8, <1>9
<1> DEFINE S == {fs[i].of : i \in a..L}
<1>16. PICK p \in S : \A m \in S : MayFollow(sheet, p, m) => p \in Cell /\ m \in Cell
  <2>1. S \subseteq DOMAIN sheet.expr
    BY <1>11
  <2>2. a \in a..L
    BY <1>5
  <2>3. S # {}
    <3>1. fs[a].of \in S
      BY <2>2
    <3> HIDE DEF S
    <3> QED BY <3>1
  <2> HIDE DEF S
  <2> QED BY <2>1, <2>3 DEF Layered
<1>17. Computed \cap Cell = {}
  BY ComputedIs
<1>18. n \in S
  <2>1. a \in a..L
    BY <1>5
  <2> QED BY <2>1, <1>5
<1>19. PICK i \in a..L : p = fs[i].of
  OBVIOUS
<1>20. CASE i = L
  <2>1. p \in Computed
    BY <1>15, <1>19, <1>20
  <2> QED BY <2>1, <1>14, <1>16, <1>17, <1>18, <1>19, <1>20
<1>21. CASE i # L
  <2>1. i \in a..(L - 1) /\ i + 1 \in a..L /\ i + 1 \in (a + 1)..L
    BY <1>5, <1>21
  <2>2. fs[i + 1].of \in S
    BY <2>1
  <2>3. MayFollow(sheet, p, fs[i + 1].of)
    BY <2>1, <1>13, <1>19
  <2>4. p \in Cell /\ fs[i + 1].of \in Cell
    <3> HIDE DEF S
    <3> QED BY <2>2, <2>3, <1>16
  <2>5. fs[i + 1].kind = "term" /\ i = a
    BY <2>1, <2>4, <1>5, <1>7, <1>8, <1>17
  <2>6. a + 1 # L /\ a + 1 \in a..(L - 1) /\ a + 1 + 1 \in (a + 1)..L /\ a + 1 + 1 \in a..L
    BY <2>1, <2>5, <1>15, <1>5
  <2>7. fs[a + 1].of = n /\ p = n
    BY <2>1, <2>5, <1>8, <1>5, <1>19
  <2>8. MayFollow(sheet, p, fs[a + 1 + 1].of)
    BY <2>6, <2>7, <1>13
  <2>9. fs[a + 1 + 1].of \in S
    BY <2>6
  <2>10. fs[a + 1 + 1].of \in Cell
    <3> HIDE DEF S
    <3> QED BY <2>8, <2>9, <1>16
  <2>11. fs[a + 1 + 1].kind = "get"
    <3>1. a + 1 + 1 # a + 1
      BY <1>5
    <3> QED BY <3>1, <2>6, <1>7, <1>8
  <2> QED BY <2>6, <2>10, <2>11, <1>7, <1>17
<1> QED BY <1>20, <1>21

-----------------------------------------------------------------------------
(* An expression reads one more variable. *)
LEMMA OneMore ==
  ASSUME NEW vals \in Seq(Value), NEW v \in Value
  PROVE  /\ Append(vals, v) \in Seq(Value) /\ Len(Append(vals, v)) = Len(vals) + 1 /\ Len(vals) \in Nat
         /\ Append(vals, v)[Len(vals) + 1] = v
         /\ \A i \in 1..Len(vals) : Append(vals, v)[i] = vals[i]
         /\ \A k \in 0..Len(vals) : SubSeq(Append(vals, v), 1, k) = SubSeq(vals, 1, k)
<1>1. /\ Append(vals, v) \in Seq(Value) /\ Len(Append(vals, v)) = Len(vals) + 1 /\ Len(vals) \in Nat
      /\ Append(vals, v)[Len(vals) + 1] = v
      /\ \A i \in 1..Len(vals) : Append(vals, v)[i] = vals[i]
  OBVIOUS
<1> DEFINE w == Append(vals, v)
<1>2. w \in Seq(Value) /\ Len(w) = Len(vals) + 1 /\ \A i \in 1..Len(vals) : w[i] = vals[i]
  BY <1>1
<1> HIDE DEF w
<1>3. ASSUME NEW k \in 0..Len(vals) PROVE SubSeq(vals, 1, k) = SubSeq(w, 1, k)
  <2>1. k <= Len(w) /\ \A i \in 1..k : i \in 1..Len(vals)
    BY <1>1, <1>2
  <2>2. \A i \in 1..k : vals[i] = w[i]
    BY <2>1, <1>2
  <2> QED BY <1>2, <2>1, <2>2, SamePrefix
<1> QED BY <1>1, <1>3 DEF w

LEMMA MoreRead ==
  ASSUME NEW e, NEW vals \in Seq(Value), NEW v \in Value
  PROVE  /\ \A n : \A k \in 0..Len(vals) :
              /\ ReadAt(e, Append(vals, v), k, n) <=> ReadAt(e, vals, k, n)
              /\ Unread(e, Append(vals, v), k, n) <=> Unread(e, vals, k, n)
         /\ \A m : ReadAt(e, vals, Len(vals), m) <=> Step(e, vals) = Read(m)
         /\ \A n, m : Step(e, vals) = Read(m) =>
              (Unread(e, Append(vals, v), Len(Append(vals, v)), n) <=> Unread(e, vals, Len(vals), n) /\ n # m)
<1> PICK w : w = Append(vals, v)
  OBVIOUS
<1>1. Len(w) = Len(vals) + 1 /\ Len(vals) \in Nat /\ \A k \in 0..Len(vals) : SubSeq(w, 1, k) = SubSeq(vals, 1, k)
  BY OneMore
<1>2. \A n : \A k \in 0..Len(vals) : ReadAt(e, w, k, n) <=> ReadAt(e, vals, k, n)
  BY <1>1 DEF ReadAt
<1>3. \A n : \A k \in 0..Len(vals) : Unread(e, w, k, n) <=> Unread(e, vals, k, n)
  <2> TAKE n
  <2> TAKE k \in 0..Len(vals)
  <2>1. \A j \in 0..(k - 1) : j \in 0..Len(vals)
    BY <1>1
  <2> QED BY <2>1, <1>2 DEF Unread
<1>4. \A m : ReadAt(e, vals, Len(vals), m) <=> Step(e, vals) = Read(m)
  BY WholePrefix DEF ReadAt, Read
<1>5. ASSUME NEW n, NEW m, Step(e, vals) = Read(m)
      PROVE  Unread(e, w, Len(w), n) <=> Unread(e, vals, Len(vals), n) /\ n # m
  <2>1. Len(vals) \in 0..Len(vals) /\ Len(vals) \in 0..(Len(w) - 1)
    BY <1>1
  <2>2. \A j \in 0..(Len(w) - 1) : j \in 0..(Len(vals) - 1) \/ j = Len(vals)
    BY <1>1
  <2>3. \A j \in 0..(Len(vals) - 1) : j \in 0..(Len(w) - 1)
    BY <1>1
  <2>4. Unread(e, w, Len(vals), n) <=> Unread(e, vals, Len(vals), n)
    BY <2>1, <1>3
  <2>5. ReadAt(e, w, Len(vals), n) <=> n = m
    <3>1. ReadAt(e, w, Len(vals), n) <=> Read(m) = Read(n)
      BY <2>1, <1>2, <1>4, <1>5
    <3> QED BY <3>1, ReadsIt
  <2>6. Unread(e, w, Len(w), n) <=> Unread(e, w, Len(vals), n) /\ ~ReadAt(e, w, Len(vals), n)
    BY <2>1, <2>2, <2>3 DEF Unread
  <2> QED BY <2>4, <2>5, <2>6
<1> QED BY <1>2, <1>3, <1>4, <1>5

(* The value that a frame is given is the one that it should have read of m. *)
Fits(f, m, v) ==
  IF m = Owner(f) /\ m \in Cell
  THEN IF f.kind # "term" /\ Unread(f.expr, f.vals, Len(f.vals), m) THEN v \in Own(m) ELSE v = start[m]
  ELSE m \in Known /\ v = Seen(m)

LEMMA FollowsMore ==
  ASSUME NEW e, NEW vals \in Seq(Value), NEW n, NEW own, Follows(e, vals, n, own)',
         NEW m \in Declared \cup Evaluable, Step(e, vals) = Read(m), NEW v \in Value,
         IF m = n /\ n \in Cell
         THEN IF Unread(e, vals, Len(vals), n) THEN v \in own ELSE v = start'[n]
         ELSE m \in Known' /\ v = Seen(m)'
  PROVE  Follows(e, Append(vals, v), n, own)'
<1> PICK w : w = Append(vals, v)
  OBVIOUS
<1>1. /\ Len(w) = Len(vals) + 1 /\ Len(vals) \in Nat /\ w[Len(vals) + 1] = v
      /\ \A i \in 1..Len(vals) : w[i] = vals[i]
  BY OneMore
<1>2. /\ \A q : \A k \in 0..Len(vals) : /\ ReadAt(e, w, k, q) <=> ReadAt(e, vals, k, q)
                                        /\ Unread(e, w, k, q) <=> Unread(e, vals, k, q)
      /\ \A q : ReadAt(e, vals, Len(vals), q) <=> Step(e, vals) = Read(q)
  BY MoreRead
<1> SUFFICES ASSUME NEW k \in 0..(Len(w) - 1)
             PROVE  \E q \in Declared \cup Evaluable :
                      /\ ReadAt(e, w, k, q)
                      /\ IF q = n /\ n \in Cell
                         THEN IF Unread(e, w, k, n) THEN w[k + 1] \in own ELSE w[k + 1] = start'[n]
                         ELSE q \in Known' /\ w[k + 1] = Seen(q)'
  BY DEF Follows
<1>3. CASE k = Len(vals)
  <2>1. k \in 0..Len(vals) /\ w[k + 1] = v
    BY <1>1, <1>3
  <2>2. ReadAt(e, w, k, m) /\ (Unread(e, w, k, n) <=> Unread(e, vals, Len(vals), n))
    BY <2>1, <1>2, <1>3
  <2> QED BY <2>1, <2>2
<1>4. CASE k # Len(vals)
  <2>1. k \in 0..Len(vals) /\ k \in 0..(Len(vals) - 1) /\ k + 1 \in 1..Len(vals)
    BY <1>1, <1>4
  <2>2. w[k + 1] = vals[k + 1] /\ (Unread(e, w, k, n) <=> Unread(e, vals, k, n))
    BY <2>1, <1>1, <1>2
  <2>3. \E q \in Declared \cup Evaluable :
          /\ ReadAt(e, vals, k, q)
          /\ IF q = n /\ n \in Cell
             THEN IF Unread(e, vals, k, n) THEN vals[k + 1] \in own ELSE vals[k + 1] = start'[n]
             ELSE q \in Known' /\ vals[k + 1] = Seen(q)'
    BY <2>1 DEF Follows
  <2> QED BY <2>1, <2>2, <2>3, <1>2
<1> QED BY <1>3, <1>4

LEMMA FaithfulMore ==
  ASSUME NEW f, NEW g, NEW v \in Value, f.vals \in Seq(Value),
         g.kind = f.kind, g.of = f.of, g.expr = f.expr, g.vals = Append(f.vals, v),
         Faithful(f)', NEW m \in Declared \cup Evaluable, Step(f.expr, f.vals) = Read(m), Fits(f, m, v)'
  PROVE  Faithful(g)'
<1>1. CASE f.kind \in {"get", "output"}
  <2>1. PICK own : own = Own(f.of)'
    OBVIOUS
  <2>2. PICK e, n, vals : e = f.expr /\ n = f.of /\ vals = f.vals
    OBVIOUS
  <2>3. Follows(e, vals, n, own)'
    BY <2>1, <2>2, <1>1 DEF Faithful, Follows
  <2>4. IF m = n /\ n \in Cell
        THEN IF Unread(e, vals, Len(vals), n) THEN v \in own ELSE v = start'[n]
        ELSE m \in Known' /\ v = Seen(m)'
    <3>1. Owner(f) = n /\ f.kind # "term"
      BY <2>2, <1>1 DEF Owner
    <3> QED BY <3>1, <2>1, <2>2 DEF Fits
  <2>5. Follows(e, Append(vals, v), n, own)'
    BY <2>2, <2>3, <2>4, FollowsMore
  <2>6. Follows(g.expr, g.vals, g.of, Own(g.of))'
    BY <2>1, <2>2, <2>5 DEF Follows
  <2> QED BY <2>6, <1>1 DEF Faithful
<1>2. CASE f.kind = "term"
  <2>1. PICK own : own = {start'[f.of]}
    OBVIOUS
  <2>2. PICK e, n, vals : e = f.expr /\ n = f.of /\ vals = f.vals
    OBVIOUS
  <2>3. Follows(e, vals, n, own)'
    BY <2>1, <2>2, <1>2 DEF Faithful, Follows
  <2>4. IF m = n /\ n \in Cell
        THEN IF Unread(e, vals, Len(vals), n) THEN v \in own ELSE v = start'[n]
        ELSE m \in Known' /\ v = Seen(m)'
    <3>1. Owner(f) = n /\ f.kind = "term"
      BY <2>2, <1>2 DEF Owner
    <3> QED BY <3>1, <2>1, <2>2 DEF Fits
  <2>5. Follows(e, Append(vals, v), n, own)'
    BY <2>2, <2>3, <2>4, FollowsMore
  <2>6. Follows(g.expr, g.vals, g.of, {start[g.of]})'
    BY <2>1, <2>2, <2>5 DEF Follows
  <2> QED BY <2>6, <1>2 DEF Faithful
<1>3. CASE f.kind \in {"client", "when"}
  <2>1. PICK e, vals : e = f.expr /\ vals = f.vals
    OBVIOUS
  <2>2. Follows(e, vals, NoCell, {})'
    BY <2>1, <1>3 DEF Faithful
  <2>3. NoCell \notin Cell /\ Owner(f) = NoCell
    BY <1>3, CellAssumption DEF Owner
  <2>4. m \in Known' /\ v = Seen(m)'
    BY <2>3 DEF Fits
  <2>5. Follows(e, Append(vals, v), NoCell, {})'
    BY <2>1, <2>2, <2>3, <2>4, FollowsMore
  <2> QED BY <2>1, <2>5, <1>3 DEF Faithful
<1> QED BY <1>1, <1>2, <1>3 DEF Faithful

-----------------------------------------------------------------------------
(* The chain of frames, as frames come and go. *)
LEMMA ChainedNone == Chained(<<>>)'
<1>1. 1..Len(<<>>) = {} /\ 1..(Len(<<>>) - 1) = {}
  OBVIOUS
<1> QED BY <1>1 DEF Chained

LEMMA ChainedRoot ==
  ASSUME NEW f, Faithful(f)'
  PROVE  Chained(<<f>>)'
<1>1. Len(<<f>>) = 1 /\ <<f>>[1] = f /\ 1..(1 - 1) = {} /\ \A i \in 1..1 : i = 1
  OBVIOUS
<1> QED BY <1>1 DEF Chained

LEMMA ChainedStays ==
  ASSUME Stable, NEW fs, Chained(fs), term' = term,
         \A i \in 1..Len(fs) : fs[i].kind \in {"get", "output"} => fs[i].of \notin evaluated'
  PROVE  Chained(fs)'
<1>1. ASSUME NEW i \in 1..Len(fs) PROVE Faithful(fs[i])'
  <2>1. PICK f : f = fs[i]
    OBVIOUS
  <2>2. Faithful(f) /\ term'[f.of] = term[f.of] /\ (f.kind \in {"get", "output"} => f.of \notin evaluated')
    BY <2>1 DEF Chained
  <2>3. Faithful(f)'
    BY <2>2, FaithfulStays
  <2> QED BY <2>1, <2>3
<1>2. \A i \in 1..(Len(fs) - 1) : Waits(fs[i], fs[i + 1])
  BY DEF Chained
<1> QED BY <1>1, <1>2 DEF Chained

LEMMA ChainedFront ==
  ASSUME NEW A, NEW fs \in Seq(FrameOver(A)), fs # <<>>, Chained(fs)
  PROVE  Chained(Front(fs))
<1> PICK gs : gs = Front(fs)
  OBVIOUS
<1>1. Len(fs) \in Nat /\ Len(gs) = Len(fs) - 1 /\ \A i \in 1..(Len(fs) - 1) : gs[i] = fs[i]
  BY FrontIs
<1>2. \A i \in 1..Len(gs) : i \in 1..Len(fs) /\ gs[i] = fs[i]
  BY <1>1
<1>3. \A i \in 1..(Len(gs) - 1) : /\ i \in 1..(Len(fs) - 1) /\ i \in 1..Len(gs)
                                  /\ i + 1 \in 1..Len(gs)
  BY <1>1
<1>4. \A i \in 1..Len(gs) : Faithful(gs[i])
  BY <1>2 DEF Chained
<1>5. \A i \in 1..(Len(gs) - 1) : Waits(gs[i], gs[i + 1])
  BY <1>2, <1>3 DEF Chained
<1> QED BY <1>4, <1>5 DEF Chained

LEMMA ChainedMore ==
  ASSUME NEW A, NEW fs \in Seq(FrameOver(A)), fs # <<>>, Chained(fs)', fs[Len(fs)].vals \in Seq(Value),
         NEW v \in Value, NEW m \in Declared \cup Evaluable,
         Step(fs[Len(fs)].expr, fs[Len(fs)].vals) = Read(m), Fits(fs[Len(fs)], m, v)'
  PROVE  Chained(Deliver(fs, v))'
<1> PICK gs : gs = Deliver(fs, v)
  OBVIOUS
<1> PICK n : n = Len(fs)
  OBVIOUS
<1>1. /\ Len(gs) = n /\ n \in 1..n
      /\ \A i \in 1..n : /\ gs[i].kind = fs[i].kind /\ gs[i].of = fs[i].of /\ gs[i].expr = fs[i].expr
                         /\ gs[i].vals = IF i = n THEN Append(fs[i].vals, v) ELSE fs[i].vals
  BY DeliverIs
<1>2. \A i \in 1..(n - 1) : gs[i] = fs[i]
  <2>1. gs = [fs EXCEPT ![n] = [Last(fs) EXCEPT !.vals = Append(@, v)]]
    BY DEF Deliver
  <2> QED BY <2>1, <1>1
<1>3. \A i \in 1..n : Faithful(fs[i])' 
  BY DEF Chained
<1>4. \A i \in 1..(n - 1) : Waits(fs[i], fs[i + 1])
  BY DEF Chained
<1>5. Faithful(gs[n])'
  <2>1. PICK f, g : f = fs[n] /\ g = gs[n]
    OBVIOUS
  <2>2. /\ f.vals \in Seq(Value) /\ Faithful(f)' /\ Step(f.expr, f.vals) = Read(m) /\ Fits(f, m, v)'
        /\ g.kind = f.kind /\ g.of = f.of /\ g.expr = f.expr /\ g.vals = Append(f.vals, v)
    BY <2>1, <1>1, <1>3
  <2>3. Faithful(g)'
    BY <2>2, FaithfulMore
  <2> QED BY <2>1, <2>3
<1>6. \A i \in 1..n : i \in 1..(n - 1) \/ i = n
  BY <1>1
<1>7. \A i \in 1..n : Faithful(gs[i])'
  BY <1>2, <1>3, <1>5, <1>6
<1>8. ASSUME NEW i \in 1..(n - 1) PROVE Waits(gs[i], gs[i + 1])
  <2>1. i + 1 \in 1..n
    BY <1>1
  <2>2. gs[i] = fs[i] /\ gs[i + 1].kind = fs[i + 1].kind /\ gs[i + 1].of = fs[i + 1].of
    BY <1>1, <1>2, <2>1
  <2> QED BY <2>2, <1>4 DEF Waits
<1>9. Chained(gs)'
  BY <1>1, <1>7, <1>8 DEF Chained
<1> QED BY <1>9

LEMMA ChainedPush ==
  ASSUME NEW A, NEW fs \in Seq(FrameOver(A)), fs # <<>>, Chained(fs)', NEW f, Faithful(f)',
         Waits(fs[Len(fs)], f)
  PROVE  Chained(Append(fs, f))'
<1> PICK gs : gs = Append(fs, f)
  OBVIOUS
<1> PICK n : n = Len(fs)
  OBVIOUS
<1>1. Len(gs) = n + 1 /\ n \in Nat /\ gs[n + 1] = f /\ \A i \in 1..n : gs[i] = fs[i]
  OBVIOUS
<1>2. n >= 1
  OBVIOUS
<1>3. (\A i \in 1..n : Faithful(fs[i])') /\ \A i \in 1..(n - 1) : Waits(fs[i], fs[i + 1])
  BY DEF Chained
<1>4. \A i \in 1..Len(gs) : i \in 1..n \/ i = n + 1
  BY <1>1
<1>5. \A i \in 1..(Len(gs) - 1) : i \in 1..n /\ (i = n \/ (i \in 1..(n - 1) /\ i + 1 \in 1..n))
  BY <1>1
<1>6. \A i \in 1..Len(gs) : Faithful(gs[i])'
  BY <1>1, <1>3, <1>4
<1>7. ASSUME NEW i \in 1..(Len(gs) - 1) PROVE Waits(gs[i], gs[i + 1])
  <2>1. CASE i = n
    BY <2>1, <1>1, <1>2
  <2>2. CASE i \in 1..(n - 1) /\ i + 1 \in 1..n
    BY <2>2, <1>1, <1>3
  <2> QED BY <2>1, <2>2, <1>5
<1> QED BY <1>6, <1>7 DEF Chained

(* The places of names, as frames come and go. *)
LEMMA PlacedNone ==
  /\ \E where : Placed(where, <<>>, <<>>)
  /\ \A where, fs, gs : Placed(where, fs, gs) /\ gs \in Seq(Cell \X BOOLEAN)
       /\ (\A i \in 1..Len(fs) : ~Named(fs[i])) => gs = <<>>
<1>1. Len(<<>>) = 0 /\ 1..0 = {}
  OBVIOUS
<1>2. \E where : where \in [1..0 -> 1..0]
  <2>1. [j \in 1..0 |-> j] \in [1..0 -> 1..0]
    OBVIOUS
  <2> QED BY <2>1
<1>3. \E where : Placed(where, <<>>, <<>>)
  BY <1>1, <1>2 DEF Placed
<1>4. ASSUME NEW where, NEW fs, NEW gs, Placed(where, fs, gs), gs \in Seq(Cell \X BOOLEAN),
             \A i \in 1..Len(fs) : ~Named(fs[i])
      PROVE  gs = <<>>
  <2>1. \A j \in 1..Len(gs) : where[j] \in 1..Len(fs) /\ Named(fs[where[j]])
    BY <1>4 DEF Placed
  <2>2. ~(1 \in 1..Len(gs))
    BY <2>1, <1>4
  <2> QED BY <2>2, <1>4
<1> QED BY <1>3, <1>4

LEMMA PlacedSame ==
  ASSUME NEW where, NEW fs, NEW gs, Placed(where, fs, gs), NEW fs2, NEW gs2,
         Len(fs2) = Len(fs), \A i \in 1..Len(fs) : fs2[i].kind = fs[i].kind /\ fs2[i].of = fs[i].of,
         Len(gs2) = Len(gs), \A j \in 1..Len(gs) : gs2[j][1] = gs[j][1]
  PROVE  Placed(where, fs2, gs2)
<1>1. \A i \in 1..Len(fs) : Named(fs2[i]) <=> Named(fs[i])
  BY DEF Named
<1>2. \A j \in 1..Len(gs) : where[j] \in 1..Len(fs)
  BY DEF Placed
<1> QED BY <1>1, <1>2 DEF Placed

LEMMA PlacedTop ==
  ASSUME NEW A, NEW fs \in Seq(FrameOver(A)), fs # <<>>, NEW gs \in Seq(Cell \X BOOLEAN), NEW where,
         Placed(where, fs, gs), NEW i \in 1..Len(fs), Named(fs[i]),
         \A k \in (i + 1)..Len(fs) : ~Named(fs[k])
  PROVE  Len(gs) \in Nat /\ Len(gs) >= 1 /\ where[Len(gs)] = i /\ gs[Len(gs)][1] = fs[i].of
<1>1. Len(gs) \in Nat /\ Len(fs) \in Nat
  OBVIOUS
<1>2. PICK j \in 1..Len(gs) : where[j] = i
  BY DEF Placed
<1>3. PICK l : l = Len(gs)
  OBVIOUS
<1>4. l \in Nat /\ l >= 1 /\ l \in 1..l /\ j \in 1..l
  BY <1>1, <1>2, <1>3
<1>5. where[l] \in 1..Len(fs) /\ Named(fs[where[l]]) /\ gs[l][1] = fs[where[l]].of
  BY <1>3, <1>4 DEF Placed
<1>6. j < l => where[j] < where[l]
  BY <1>3, <1>4 DEF Placed
<1>7. ~(where[l] \in (i + 1)..Len(fs))
  BY <1>5
<1>8. where[l] \in Int /\ i \in Int
  BY <1>5
<1>9. ~(j < l)
  BY <1>1, <1>2, <1>5, <1>6, <1>7, <1>8
<1>10. j = l
  BY <1>4, <1>9
<1> QED BY <1>2, <1>3, <1>4, <1>5, <1>10

LEMMA AppendIs ==
  ASSUME NEW T, NEW s \in Seq(T), NEW x
  PROVE  /\ Len(Append(s, x)) = Len(s) + 1 /\ Append(s, x)[Len(s) + 1] = x
         /\ \A j \in 1..Len(s) : Append(s, x)[j] = s[j]
OBVIOUS

LEMMA PlacedPush ==
  ASSUME NEW A, NEW fs \in Seq(FrameOver(A)), NEW gs \in Seq(Cell \X BOOLEAN), NEW where,
         Placed(where, fs, gs), NEW f, Named(f), NEW b
  PROVE  \E at2 : /\ Placed(at2, Append(fs, f), Append(gs, <<f.of, b>>))
                  /\ \A j \in 1..Len(gs) : at2[j] = where[j]
                  /\ at2[Len(gs) + 1] = Len(fs) + 1
<1> PICK n, l : n = Len(fs) /\ l = Len(gs)
  OBVIOUS
<1>1. n \in Nat /\ l \in Nat
  OBVIOUS
<1> PICK fs2, gs2 : fs2 = Append(fs, f) /\ gs2 = Append(gs, <<f.of, b>>)
  OBVIOUS
<1>2. /\ Len(fs2) = n + 1 /\ fs2[n + 1] = f /\ \A i \in 1..n : fs2[i] = fs[i]
      /\ Len(gs2) = l + 1 /\ gs2[l + 1] = <<f.of, b>> /\ \A j \in 1..l : gs2[j] = gs[j]
  OBVIOUS
<1>3. PICK at2 : at2 = [j \in 1..(l + 1) |-> IF j = l + 1 THEN n + 1 ELSE where[j]]
  OBVIOUS
<1>4. /\ where \in [1..l -> 1..n]
      /\ \A j \in 1..l : Named(fs[where[j]]) /\ gs[j][1] = fs[where[j]].of
      /\ \A j, k \in 1..l : j < k => where[j] < where[k]
      /\ \A i \in 1..n : Named(fs[i]) => \E j \in 1..l : where[j] = i
  BY DEF Placed
<1>0. \A j \in 1..l : where[j] \in 1..n
  BY <1>4
<1>5. /\ l + 1 \in 1..(l + 1) /\ \A j \in 1..l : j \in 1..(l + 1) /\ j # l + 1
      /\ \A j \in 1..(l + 1) : j = l + 1 \/ j \in 1..l
      /\ \A i \in 1..(n + 1) : i = n + 1 \/ i \in 1..n
      /\ \A i \in 1..n : i \in 1..(n + 1) /\ i < n + 1
      /\ n + 1 \in 1..(n + 1)
  BY <1>1
<1>6. at2[l + 1] = n + 1 /\ \A j \in 1..l : at2[j] = where[j]
  BY <1>3, <1>5, <1>0
<1>7. at2 \in [1..(l + 1) -> 1..(n + 1)]
  <2>1. \A j \in 1..(l + 1) : at2[j] \in 1..(n + 1)
    BY <1>0, <1>5, <1>6
  <2> QED BY <2>1, <1>3
<1>8. \A j \in 1..(l + 1) : Named(fs2[at2[j]]) /\ gs2[j][1] = fs2[at2[j]].of
  BY <1>0, <1>2, <1>4, <1>5, <1>6
<1>9. \A j, k \in 1..(l + 1) : j < k => at2[j] < at2[k]
  <2> SUFFICES ASSUME NEW j \in 1..(l + 1), NEW k \in 1..(l + 1), j < k PROVE at2[j] < at2[k]
    OBVIOUS
  <2>1. j \in 1..l /\ (k = l + 1 \/ k \in 1..l)
    <3>1. \A x, y, z \in Int : x < y /\ y <= z => x # z
      OBVIOUS
    <3>2. j # l + 1
      BY <1>1, <3>1
    <3> QED BY <3>2, <1>5
  <2>2. CASE k \in 1..l
    BY <2>1, <2>2, <1>4, <1>6
  <2>3. CASE k = l + 1
    <3>1. at2[k] = n + 1 /\ at2[j] \in 1..n
      BY <2>1, <2>3, <1>0, <1>6
    <3> QED BY <3>1, <1>1
  <2> QED BY <2>1, <2>2, <2>3
<1>10. \A i \in 1..(n + 1) : Named(fs2[i]) => \E j \in 1..(l + 1) : at2[j] = i
  <2> TAKE i \in 1..(n + 1)
  <2> HAVE Named(fs2[i])
  <2>1. CASE i = n + 1
    BY <2>1, <1>5, <1>6
  <2>2. CASE i \in 1..n
    <3>1. PICK j \in 1..l : where[j] = i
      BY <2>2, <1>2, <1>4
    <3> QED BY <3>1, <1>5, <1>6
  <2> QED BY <2>1, <2>2, <1>5
<1>11. Placed(at2, fs2, gs2)
  BY <1>2, <1>7, <1>8, <1>9, <1>10 DEF Placed
<1> QED BY <1>6, <1>11

(* A frame that pushes no name. *)
LEMMA PlacedMore ==
  ASSUME NEW A, NEW fs \in Seq(FrameOver(A)), NEW gs, NEW where, Placed(where, fs, gs),
         NEW f, ~Named(f), NEW gs2, Len(gs2) = Len(gs), \A j \in 1..Len(gs) : gs2[j][1] = gs[j][1]
  PROVE  Placed(where, Append(fs, f), gs2)
<1> PICK n : n = Len(fs)
  OBVIOUS
<1> PICK fs2 : fs2 = Append(fs, f)
  OBVIOUS
<1>1. n \in Nat /\ Len(fs2) = n + 1 /\ fs2[n + 1] = f /\ \A i \in 1..n : fs2[i] = fs[i]
  OBVIOUS
<1>2. /\ where \in [1..Len(gs) -> 1..n]
      /\ \A j \in 1..Len(gs) : Named(fs[where[j]]) /\ gs[j][1] = fs[where[j]].of
      /\ \A j, k \in 1..Len(gs) : j < k => where[j] < where[k]
      /\ \A i \in 1..n : Named(fs[i]) => \E j \in 1..Len(gs) : where[j] = i
  BY DEF Placed
<1>0. \A j \in 1..Len(gs) : where[j] \in 1..n
  BY <1>2
<1>3. /\ \A i \in 1..n : i \in 1..(n + 1)
      /\ \A i \in 1..(n + 1) : i = n + 1 \/ i \in 1..n
  BY <1>1
<1>4. where \in [1..Len(gs) -> 1..(n + 1)]
  BY <1>2, <1>3, <1>0
<1>5. \A j \in 1..Len(gs) : Named(fs2[where[j]]) /\ gs2[j][1] = fs2[where[j]].of
  BY <1>1, <1>2, <1>0
<1>6. \A i \in 1..(n + 1) : Named(fs2[i]) => \E j \in 1..Len(gs) : where[j] = i
  BY <1>1, <1>2, <1>3
<1>7. Placed(where, fs2, gs2)
  BY <1>1, <1>2, <1>4, <1>5, <1>6 DEF Placed
<1> QED BY <1>7

LEMMA PlacedPop ==
  ASSUME NEW A, NEW fs \in Seq(FrameOver(A)), fs # <<>>, NEW gs \in Seq(Cell \X BOOLEAN), NEW where,
         Placed(where, fs, gs), NEW gs2, gs2 = IF Named(fs[Len(fs)]) THEN Front(gs) ELSE gs
  PROVE  \E at2 : /\ Placed(at2, Front(fs), gs2)
                  /\ \A j \in 1..Len(gs2) : j \in 1..Len(gs) /\ at2[j] = where[j] /\ gs2[j] = gs[j]
<1> PICK n, l : n = Len(fs) /\ l = Len(gs)
  OBVIOUS
<1> PICK fs2 : fs2 = Front(fs)
  OBVIOUS
<1>1. n \in Nat /\ n >= 1 /\ l \in Nat /\ Len(fs2) = n - 1 /\ \A i \in 1..(n - 1) : fs2[i] = fs[i]
  BY FrontIs
<1>2. /\ where \in [1..l -> 1..n]
      /\ \A j \in 1..l : Named(fs[where[j]]) /\ gs[j][1] = fs[where[j]].of
      /\ \A j, k \in 1..l : j < k => where[j] < where[k]
      /\ \A i \in 1..n : Named(fs[i]) => \E j \in 1..l : where[j] = i
  BY DEF Placed
<1>3. \A j \in 1..l : where[j] \in 1..n
  BY <1>2
<1>4. \A i \in 1..n : i = n \/ i \in 1..(n - 1)
  BY <1>1
<1>5. \A i \in 1..(n - 1) : i \in 1..n /\ i # n
  BY <1>1
<1>6. n \in 1..n
  BY <1>1
<1>7. PICK l2 : l2 = Len(gs2)
  OBVIOUS
<1>8. /\ l2 \in Nat /\ \A j \in 1..l2 : j \in 1..l /\ gs2[j] = gs[j] /\ where[j] # n
      /\ \A j \in 1..l : j \in 1..l2 \/ where[j] = n
  <2>1. CASE Named(fs[n])
    <3>1. PICK j \in 1..l : where[j] = n
      BY <2>1, <1>2, <1>6
    <3>2. gs # <<>> /\ l >= 1 /\ l \in 1..l
      BY <3>1, <1>1
    <3>3. gs2 = Front(gs)
      BY <2>1
    <3>4. l2 = l - 1 /\ \A k \in 1..(l - 1) : gs2[k] = gs[k]
      BY <3>2, <3>3, <1>7, FrontIs
    <3>5. ~(j < l)
      <4> SUFFICES ASSUME j < l PROVE FALSE
        OBVIOUS
      <4>1. where[j] < where[l] /\ where[l] \in 1..n
        BY <3>2, <1>2, <1>3
      <4> QED BY <4>1, <3>1, <1>1
    <3>6. j = l
      BY <3>5, <1>1
    <3>7. \A k \in 1..(l - 1) : k \in 1..l /\ k < l
      BY <1>1
    <3>8. \A k \in 1..(l - 1) : where[k] < where[l] /\ where[k] \in 1..n
      BY <3>2, <3>7, <1>2, <1>3
    <3>9. where[l] = n
      BY <3>1, <3>6
    <3>10. \A k \in 1..(l - 1) : where[k] # n
      BY <3>8, <3>9, <1>1
    <3>11. \A k \in 1..l : k \in 1..(l - 1) \/ k = l
      BY <1>1
    <3>12. l2 \in Nat /\ 1..l2 = 1..(l - 1)
      BY <3>2, <3>4, <1>1
    <3> QED BY <3>4, <3>7, <3>9, <3>10, <3>11, <3>12
  <2>2. CASE ~Named(fs[n])
    BY <2>2, <1>1, <1>2, <1>7
  <2> QED BY <2>1, <2>2
<1>9. \A j \in 1..l2 : where[j] \in 1..(n - 1)
  BY <1>3, <1>4, <1>8
<1> PICK at2 : at2 = [j \in 1..l2 |-> where[j]]
  OBVIOUS
<1>10. at2 \in [1..l2 -> 1..(n - 1)] /\ \A j \in 1..l2 : at2[j] = where[j]
  BY <1>9
<1>11. \A j \in 1..l2 : Named(fs2[at2[j]]) /\ gs2[j][1] = fs2[at2[j]].of
  BY <1>1, <1>2, <1>8, <1>9, <1>10
<1>12. \A j, k \in 1..l2 : j < k => at2[j] < at2[k]
  BY <1>2, <1>8, <1>10
<1>13. ASSUME NEW i \in 1..(n - 1), Named(fs2[i]) PROVE \E j \in 1..l2 : at2[j] = i
  <2>1. PICK j \in 1..l : where[j] = i
    BY <1>1, <1>2, <1>5, <1>13
  <2>2. j \in 1..l2
    BY <2>1, <1>5, <1>8
  <2> QED BY <2>1, <2>2, <1>10
<1>14. Placed(at2, fs2, gs2)
  BY <1>1, <1>7, <1>10, <1>11, <1>12, <1>13 DEF Placed
<1> QED BY <1>7, <1>8, <1>10, <1>14

(* Whether a cell has read itself, as frames come and go. *)
LEMMA BegunMore ==
  ASSUME NEW A, NEW fs \in Seq(FrameOver(A)), fs # <<>>, fs[Len(fs)].vals \in Seq(Value),
         NEW v \in Value, NEW m, Step(fs[Len(fs)].expr, fs[Len(fs)].vals) = Read(m)
  PROVE  \A i \in 1..Len(fs) :
           OwnBegun(Deliver(fs, v), i) <=> OwnBegun(fs, i) \/ (i = Len(fs) /\ fs[i].of = m)
<1> PICK gs, n : gs = Deliver(fs, v) /\ n = Len(fs)
  OBVIOUS
<1>1. /\ Len(gs) = n /\ n \in 1..n
      /\ \A i \in 1..n : /\ gs[i].kind = fs[i].kind /\ gs[i].of = fs[i].of /\ gs[i].expr = fs[i].expr
                         /\ gs[i].vals = IF i = n THEN Append(fs[i].vals, v) ELSE fs[i].vals
  BY DeliverIs
<1>2. ASSUME NEW i \in 1..n, i # n PROVE OwnBegun(gs, i) <=> OwnBegun(fs, i)
  <2>1. i + 1 \in 1..n
    BY <1>1, <1>2
  <2> QED BY <2>1, <1>1, <1>2 DEF OwnBegun
<1>3. OwnBegun(gs, n) <=> OwnBegun(fs, n) \/ fs[n].of = m
  <2>1. PICK e, vals, q : e = fs[n].expr /\ vals = fs[n].vals /\ q = fs[n].of
    OBVIOUS
  <2>2. vals \in Seq(Value) /\ Step(e, vals) = Read(m)
    BY <2>1
  <2>3. Unread(e, Append(vals, v), Len(Append(vals, v)), q) <=> Unread(e, vals, Len(vals), q) /\ q # m
    BY <2>2, MoreRead
  <2>4. ~(n < n)
    BY <1>1
  <2>5. OwnBegun(gs, n) <=> ~Unread(e, Append(vals, v), Len(Append(vals, v)), q)
    BY <2>1, <2>4, <1>1 DEF OwnBegun
  <2>6. OwnBegun(fs, n) <=> ~Unread(e, vals, Len(vals), q)
    BY <2>1, <2>4 DEF OwnBegun
  <2> QED BY <2>1, <2>3, <2>5, <2>6
<1> QED BY <1>2, <1>3

LEMMA BegunPush ==
  ASSUME NEW A, NEW fs \in Seq(FrameOver(A)), NEW f
  PROVE  /\ \A i \in 1..Len(fs) :
              OwnBegun(Append(fs, f), i) <=> OwnBegun(fs, i) \/ (i = Len(fs) /\ f.kind = "term")
         /\ f.vals = <<>> => ~OwnBegun(Append(fs, f), Len(fs) + 1)
<1> PICK gs, n : gs = Append(fs, f) /\ n = Len(fs)
  OBVIOUS
<1>1. Len(gs) = n + 1 /\ n \in Nat /\ gs[n + 1] = f /\ \A i \in 1..n : gs[i] = fs[i]
  OBVIOUS
<1>2. ASSUME NEW i \in 1..n PROVE OwnBegun(gs, i) <=> OwnBegun(fs, i) \/ (i = n /\ f.kind = "term")
  <2>1. i < n + 1 /\ (i = n \/ (i < n /\ i + 1 \in 1..n))
    BY <1>1
  <2>2. CASE i = n
    BY <2>1, <2>2, <1>1 DEF OwnBegun
  <2>3. CASE i < n /\ i + 1 \in 1..n
    BY <2>1, <2>3, <1>1 DEF OwnBegun
  <2> QED BY <2>1, <2>2, <2>3
<1>3. ASSUME f.vals = <<>> PROVE ~OwnBegun(gs, n + 1)
  <2>1. ~(n + 1 < n + 1) /\ 0..(0 - 1) = {} /\ Len(<<>>) = 0
    BY <1>1
  <2>2. Unread(f.expr, f.vals, Len(f.vals), f.of)
    BY <2>1, <1>3 DEF Unread
  <2> QED BY <2>1, <2>2, <1>1 DEF OwnBegun
<1> QED BY <1>2, <1>3

LEMMA BegunFront ==
  ASSUME NEW A, NEW fs \in Seq(FrameOver(A)), fs # <<>>
  PROVE  \A i \in 1..(Len(fs) - 1) :
           OwnBegun(fs, i) <=> OwnBegun(Front(fs), i) \/ (i = Len(fs) - 1 /\ fs[Len(fs)].kind = "term")
<1> PICK gs, n : gs = Front(fs) /\ n = Len(fs)
  OBVIOUS
<1>1. n \in Nat /\ n >= 1 /\ Len(gs) = n - 1 /\ \A i \in 1..(n - 1) : gs[i] = fs[i]
  BY FrontIs
<1> SUFFICES ASSUME NEW i \in 1..(n - 1)
             PROVE  OwnBegun(fs, i) <=> OwnBegun(gs, i) \/ (i = n - 1 /\ fs[n].kind = "term")
  OBVIOUS
<1>2. i < n /\ ((i = n - 1 /\ i + 1 = n /\ ~(i < n - 1)) \/ (i < n - 1 /\ i # n - 1 /\ i + 1 \in 1..(n - 1)))
  BY <1>1
<1>3. CASE i = n - 1 /\ i + 1 = n /\ ~(i < n - 1)
  BY <1>1, <1>2, <1>3 DEF OwnBegun
<1>4. CASE i < n - 1 /\ i # n - 1 /\ i + 1 \in 1..(n - 1)
  BY <1>1, <1>2, <1>4 DEF OwnBegun
<1> QED BY <1>2, <1>3, <1>4

(* The cell that an expression in progress belongs to is on top of the get stack. *)
LEMMA OwnerOnTop ==
  ASSUME NEW A, NEW fs \in Seq(FrameOver(A)), fs # <<>>, NEW gs \in Seq(Cell \X BOOLEAN), NEW where,
         Frames(fs), Chained(fs), Placed(where, fs, gs), Owner(fs[Len(fs)]) \in Cell
  PROVE  /\ Len(gs) \in Nat /\ Len(gs) >= 1 /\ gs[Len(gs)][1] = Owner(fs[Len(fs)])
         /\ fs[Len(fs)].kind # "term" => Named(fs[Len(fs)]) /\ where[Len(gs)] = Len(fs)
         /\ fs[Len(fs)].kind = "term" =>
              /\ Len(fs) - 1 \in 1..(Len(fs) - 1) /\ Named(fs[Len(fs) - 1])
              /\ fs[Len(fs) - 1].of = fs[Len(fs)].of /\ where[Len(gs)] = Len(fs) - 1
<1> PICK n : n = Len(fs)
  OBVIOUS
<1>1. n \in Nat /\ n >= 1 /\ n \in 1..n
  OBVIOUS
<1>2. fs[n].kind \in {"get", "output", "term"} /\ Owner(fs[n]) = fs[n].of
  BY CellAssumption DEF Owner
<1>3. CASE fs[n].kind # "term"
  <2>1. Named(fs[n]) /\ \A k \in (n + 1)..n : ~Named(fs[k])
    BY <1>1, <1>2, <1>3 DEF Named
  <2> QED BY <2>1, <1>1, <1>2, <1>3, PlacedTop
<1>4. CASE fs[n].kind = "term"
  <2>1. n # 1
    BY <1>4 DEF Frames, Roots
  <2>2. n - 1 \in 1..(n - 1) /\ n - 1 \in 1..n /\ (n - 1) + 1 = n
    BY <2>1, <1>1
  <2>3. PICK f, g : f = fs[n - 1] /\ g = fs[n]
    OBVIOUS
  <2>4. Waits(f, g)
    BY <2>2, <2>3 DEF Chained
  <2>5. Named(f) /\ g.of = f.of
    BY <2>3, <2>4, <1>4 DEF Waits
  <2>6. \A k \in ((n - 1) + 1)..n : k = n
    BY <1>1
  <2>7. \A k \in ((n - 1) + 1)..n : ~Named(fs[k])
    BY <2>6, <1>4 DEF Named
  <2>8. Len(gs) \in Nat /\ Len(gs) >= 1 /\ where[Len(gs)] = n - 1 /\ gs[Len(gs)][1] = fs[n - 1].of
    BY <2>2, <2>3, <2>5, <2>7, PlacedTop
  <2> QED BY <2>2, <2>3, <2>5, <2>8, <1>2, <1>4
<1> QED BY <1>3, <1>4

-----------------------------------------------------------------------------
(* The invariant.  What every step needs: *)
Base ==
  /\ SheetInv /\ Steady /\ Layered(sheet) /\ Clauses
  /\ output_index \in Listings(Indexed)
  /\ changed \subseteq Cell \cup Input
  /\ mode = "build" => published = Nothing

(* Evaluations in progress are a chain, and what is on the get stack is theirs. *)
InProgress == ~failed => \E where :
  /\ Placed(where, frames, get_stack)
  /\ Clean => Flagged(where, frames, get_stack) /\ Chained(frames)

(* What has been evaluated is right until something it may have read is set. *)
AllCorrect == Clean /\ (phase # "idle" \/ changed = {}) =>
  \A n \in evaluated : n \in DOMAIN sheet.expr /\ Correct(n)

(* At rest every cell that update evaluates has the value it published. *)
AllSeen == ~failed /\ phase = "idle" /\ published # Nothing =>
  Indexed \subseteq evaluated /\ \A n \in Indexed : published.state[n] = state[n]

(* The loop of update has evaluated what it has passed. *)
Passing == ~failed /\ phase = "flowed" =>
  /\ at \in 1..(Len(output_index) + 1)
  /\ \A i \in 1..Len(output_index) : i < at => output_index[i] \in evaluated
  /\ frames # <<>> => at \in 1..Len(output_index) /\ frames[1].of = output_index[at]

(* An input half changes in update only when its cell has been evaluated. *)
InputsKept == ~failed /\ phase # "idle" => \A n \in Cell \ evaluated : input[n] = start[n]

(* A monitor that has not been told the value of its cell will be at the end of update. *)
Told == ~failed =>
  /\ \A n \in Indexed : told_value[n] \in {Unmonitored, state[n]} \/ (updated /\ phase # "idle" /\ n \in dirty)
  /\ dirty \subseteq evaluated
  /\ updated \/ \A n \in Indexed : told_value[n] = Unmonitored
  /\ phase # "idle" => updated
  /\ phase = "idle" /\ published = Nothing => ~updated \/ Indexed = {}

(* A cell that a conditional has evaluated is in no relate clause that can still derive it. *)
Gone(n) == n \in Cell => RelationIndex(n) \subseteq rel_resolved /\ term[n] = NoTerm
Released == ~failed =>
  /\ phase = "conditionals" =>
       /\ \A c \in Cell : relation_count[c] = Cardinality(RelationIndex(c) \ rel_resolved) /\ term[c] = NoTerm
       /\ \A i \in 1..Len(frames) : frames[i].kind = "get" => Gone(frames[i].of)
  /\ phase \in {"conditionals", "flow", "pop", "visit"} => \A n \in evaluated : Gone(n)

Sound == InProgress /\ AllCorrect /\ AllSeen /\ Passing /\ InputsKept /\ Told /\ Released
HInv == Base /\ Sound

LEMMA HistoryIsSheet == [SHNext]_shvars => [SNext]_svars
<1>1. CASE UNCHANGED shvars
  BY <1>1 DEF shvars
<1>2. CASE SHNext
  BY <1>2 DEF SHNext, HBuild, HEvaluate, HUpdating, HCalls, HReinit, SNext
<1> QED BY <1>1, <1>2

(* The clauses that derive cells are those of the sheet. *)
LEMMA ClausesKept ==
  ASSUME SheetInv, Clauses, [SNext]_svars
  PROVE  Clauses'
<1> USE DEF vars, sheetVars, flowVars
<1>1. sheet' = sheet /\ sheet \in Sheets /\ TypeOK
  BY SheetStays DEF SheetInv, Typed, CellsTyped
<1>2. ASSUME UNCHANGED relations, \A c \in Cell : term'[c] = term[c] \/ term'[c] = NoTerm \/ c \in term'[c][2]
      PROVE  Clauses'
  BY <1>1, <1>2 DEF Clauses, Relation
<1>3. ASSUME UNCHANGED <<relations, term>> PROVE Clauses'
  BY <1>2, <1>3
<1>4. CASE UNCHANGED svars
  BY <1>3, <1>4 DEF svars
<1>5. CASE Build
  <2>1. CASE DeclareRelation
    <3>1. PICK t, c : relations' = Append(relations, [terms |-> t, conditional |-> c])
                      /\ t = sheet.relations[Len(relations) + 1].terms
      BY <2>1 DEF DeclareRelation, AddRelation
    <3>2. relations \in Seq([terms : Shapes, conditional : BOOLEAN]) /\ term' = term
          /\ Len(relations) < Len(sheet.relations)
      BY <1>1, <2>1 DEF TypeOK, DeclareRelation, AddRelation
    <3>3. PICK n : n = Len(relations)
      OBVIOUS
    <3>4. n \in Nat /\ Relation = 1..n /\ Relation' = 1..(n + 1) /\ Len(relations') = n + 1
      BY <3>1, <3>2, <3>3 DEF Relation
    <3>5. relations'[n + 1].terms = t /\ \A r \in 1..n : relations'[r] = relations[r]
      BY <3>1, <3>2, <3>3
    <3>6. \A r \in 1..(n + 1) : r \in 1..n \/ r = n + 1
      BY <3>4
    <3>7. \A r \in Relation' : relations'[r].terms = sheet'.relations[r].terms
      BY <1>1, <3>1, <3>3, <3>4, <3>5, <3>6 DEF Clauses
    <3>8. Len(relations') <= Len(sheet'.relations)
      <4>1. PICK k : k = Len(sheet.relations)
        OBVIOUS
      <4>2. k \in Nat
        BY <1>1, <4>1
      <4>3. n < k
        BY <3>2, <3>3, <4>1
      <4>4. n + 1 <= k
        BY <3>4, <4>2, <4>3
      <4> QED BY <1>1, <3>4, <4>1, <4>4
    <3> QED BY <3>2, <3>7, <3>8 DEF Clauses
  <2>2. CASE ~DeclareRelation
    <3>1. UNCHANGED <<relations, term>>
      BY <1>5, <2>2 DEF Build, BeginDeclare, Declare, EndBuild, AddInterface
    <3> QED BY <1>3, <3>1
  <2> QED BY <2>1, <2>2
<1>6. CASE Reinit
  <2>1. UNCHANGED <<relations, term>>
    BY <1>6 DEF Reinit, BeginInitialize, SkipInitialize, EndInitialize, EndReinitialize, Reinitialize
  <2> QED BY <1>3, <2>1
<1>7. CASE Evaluate
  <2>1. UNCHANGED <<relations, term>>
    BY <1>7 DEF Evaluate, ReadInitializing, ReadTerm, ReadInput, ReadCached, ReadCalculates,
                ReturnGet, ReturnTerm, Throw, ConditionalThrows, EndUpdate
  <2> QED BY <1>3, <2>1
<1>8. CASE Updating
  <2>1. CASE FlowStep
    <3>1. UNCHANGED relations
      BY <2>1 DEF FlowStep, Flow, BeginFlow, SkipCell, PopCell, PassRelation, ApplyRelation, EndCell, EndFlow
    <3>2. \A c \in Cell : term'[c] = term[c] \/ c \in term'[c][2]
      <4>1. ASSUME NEW r \in Relation, ApplyRelation(r) PROVE \A c \in Cell : term'[c] = term[c] \/ c \in term'[c][2]
        <5>1. PICK t : term' = [c \in Cell |-> IF c \in t THEN <<r, t>> ELSE term[c]]
          BY <4>1 DEF ApplyRelation
        <5> QED BY <5>1
      <4>2. ASSUME BeginFlow \/ SkipCell \/ PopCell \/ EndCell \/ EndFlow \/ \E r \in Relation : PassRelation(r)
            PROVE  term' = term
        BY <4>2 DEF BeginFlow, SkipCell, PopCell, PassRelation, EndCell, EndFlow
      <4> QED BY <2>1, <4>1, <4>2 DEF FlowStep, Flow
    <3> QED BY <1>2, <3>1, <3>2
  <2>2. CASE ~FlowStep
    <3>1. UNCHANGED <<relations, term>>
      BY <1>8, <2>2 DEF Updating, BeginConditional, EndConditional, EndCalculate, ConditionalsSolved,
           BeginCalculate, CalculateAttached, ApplyEvaluated, Notify, ConditionalHolds, ConditionalFails,
           EndConditionals, EndUpdate
    <3> QED BY <1>3, <3>1
  <2> QED BY <2>1, <2>2
<1>9. CASE Calls \/ Answering
  <2>1. CASE StartUpdate
    <3>1. UNCHANGED relations /\ term' = [c \in Cell |-> NoTerm]
      BY <2>1 DEF StartUpdate, BeginUpdate
    <3> QED BY <1>2, <3>1
  <2>2. CASE ~StartUpdate
    <3>1. UNCHANGED <<relations, term>>
      BY <1>9, <2>2 DEF Calls, Answering, Answer, SetValue, TouchCells, BeginReinitialize, Query,
           MonitorValue, MonitorEnabled, Set, SetInput, Touch
    <3> QED BY <1>3, <3>1
  <2> QED BY <2>1, <2>2
<1> QED BY <1>4, <1>5, <1>6, <1>7, <1>8, <1>9 DEF SNext

LEMMA IndexStays ==
  ASSUME [SNext]_svars
  PROVE  output_index' = output_index
<1>1. CASE UNCHANGED svars
  BY <1>1 DEF svars, declVars
<1>2. CASE Build
  BY <1>2 DEF Build, BeginDeclare, Declare, DeclareRelation, EndBuild, declVars
<1>3. CASE Reinit
  BY <1>3 DEF Reinit, BeginInitialize, SkipInitialize, EndInitialize, EndReinitialize, declVars
<1>4. CASE Evaluate
  BY <1>4 DEF Evaluate, ReadInitializing, ReadTerm, ReadInput, ReadCached, ReadCalculates,
              ReturnGet, ReturnTerm, Throw, declVars
<1>5. CASE Updating
  BY <1>5 DEF Updating, BeginConditional, EndConditional, EndCalculate, ConditionalsSolved,
              FlowStep, BeginCalculate, CalculateAttached, ApplyEvaluated, Notify, declVars
<1>6. CASE Answering
  BY <1>6 DEF Answering, Answer, declVars
<1>7. CASE Calls
  BY <1>7 DEF Calls, SetValue, TouchCells, BeginReinitialize, StartUpdate, Query,
              MonitorValue, MonitorEnabled, declVars
<1> QED BY <1>1, <1>2, <1>3, <1>4, <1>5, <1>6, <1>7 DEF SNext

LEMMA BusyUpdating ==
  ASSUME SheetInv, Updating
  PROVE  phase # "idle"
<1>1. ASSUME NEW v \in Value, EndCalculate(v) PROVE phase # "idle"
  <2>1. StackInv /\ Framed(frames, accumulate) /\ InPhase /\ frames # <<>> /\ Now.kind = "output"
    BY <1>1 DEF SheetInv, Typed, EndCalculate, In, Running
  <2>2. Root = "output"
    BY <2>1, InnermostIs DEF Roots
  <2> QED BY <2>1, <2>2 DEF InPhase
<1>2. ASSUME NEW v \in Value, EndConditional(v) PROVE phase # "idle"
  BY <1>2 DEF EndConditional, ConditionalHolds, ConditionalFails, SolvesNext
<1> QED BY <1>1, <1>2 DEF Updating, BeginConditional, ConditionalsSolved, FlowStep, BeginCalculate,
            CalculateAttached, ApplyEvaluated, Notify, Visiting, SolvesNext, EndConditionals, Flow,
            BeginFlow, SkipCell, PopCell, PassRelation, ApplyRelation, VisitsNext, EndCell, EndFlow

LEMMA BaseStep ==
  ASSUME Base, [SHNext]_shvars
  PROVE  Base'
<1>1. [SNext]_svars /\ SheetInv /\ SheetInv'
  BY HistoryIsSheet, SheetInvStep DEF Base
<1>2. TypeOK /\ sheet \in Sheets /\ sheet' = sheet /\ output_index' = output_index
  BY <1>1, SheetStays, IndexStays DEF SheetInv, Typed, CellsTyped
<1>3. Steady'
  BY <1>1, <1>2, StepFlows, SteadyKept DEF Base
<1>4. Clauses'
  BY <1>1, ClausesKept DEF Base
<1>5. Layered(sheet') /\ output_index' \in Listings(Indexed)'
  BY <1>2 DEF Base, Indexed, Listings
<1>6. changed' \subseteq Cell \cup Input /\ (mode' = "build" => published' = Nothing)
  <2>1. changed \subseteq Cell \cup Input /\ (mode = "build" => published = Nothing)
    BY DEF Base
  <2>2. CASE UNCHANGED shvars
    BY <2>1, <2>2 DEF shvars, svars, ghostVars, declVars
  <2>3. CASE HBuild
    <3>1. mode' = "build" => mode = "build"
      BY <2>3 DEF HBuild, Answering, Answer, Build, BeginDeclare, Declare, DeclareRelation, EndBuild, declVars
    <3> QED BY <2>1, <2>3, <3>1 DEF HBuild, ghostVars
  <2>4. CASE HEvaluate
    <3>1. mode' = "build" => mode = "build"
      BY <2>4 DEF HEvaluate, Evaluate, ReadInitializing, ReadTerm, ReadInput, ReadCached, ReadCalculates,
           ReturnGet, ReturnTerm, Throw, declVars
    <3> QED BY <2>1, <2>4, <3>1 DEF HEvaluate
  <2>5. CASE HUpdating
    <3>1. phase # "idle"
      BY <1>1, <2>5, BusyUpdating DEF HUpdating
    <3>2. mode = "ready"
      BY <3>1, <1>1 DEF SheetInv, Typed, InPhase
    <3>3. mode' = mode
      BY <2>5 DEF HUpdating, Updating, BeginConditional, EndConditional, EndCalculate, ConditionalsSolved,
           FlowStep, BeginCalculate, CalculateAttached, ApplyEvaluated, Notify, declVars
    <3>4. changed' = changed \/ changed' = {}
      BY <2>5 DEF HUpdating
    <3> QED BY <2>1, <3>2, <3>3, <3>4
  <2>6. CASE HCalls
    <3>1. mode = "ready"
      BY <2>6 DEF HCalls, Calls, SetValue, TouchCells, BeginReinitialize, StartUpdate, Query,
              MonitorValue, MonitorEnabled, Resting
    <3>2. mode' # "build"
      BY <3>1, <2>6 DEF HCalls, Calls, SetValue, TouchCells, BeginReinitialize, StartUpdate, Query,
              MonitorValue, MonitorEnabled, declVars
    <3>3. changed' \subseteq Cell \cup Input
      BY <2>1, <2>6 DEF HCalls
    <3> QED BY <3>2, <3>3
  <2>7. CASE HReinit
    <3>1. mode = "reinit" /\ mode' # "build"
      BY <2>7 DEF HReinit, Reinit, BeginInitialize, SkipInitialize, EndInitialize, EndReinitialize, declVars
    <3> QED BY <3>1, <2>7 DEF HReinit
  <2> QED BY <2>2, <2>3, <2>4, <2>5, <2>6, <2>7 DEF SHNext
<1> QED BY <1>1, <1>3, <1>4, <1>5, <1>6 DEF Base

-----------------------------------------------------------------------------
(* What the steps of an evaluation share. *)
LEMMA Evaluations ==
  ASSUME Base
  PROVE  /\ TypeOK /\ sheet \in Sheets /\ Clauses /\ Layered(sheet) /\ StackInv /\ Framed(frames, accumulate)
         /\ InPhase /\ CellsTyped
         /\ Frames(frames) /\ \E A : frames \in Seq(FrameOver(A))
         /\ get_stack \in Seq(Cell \X BOOLEAN) /\ Len(get_stack) \in Nat /\ Len(frames) \in Nat
         /\ frames # <<>> =>
              /\ Len(frames) >= 1 /\ Len(frames) \in 1..Len(frames) /\ Now = frames[Len(frames)]
              /\ Now.vals \in Seq(Value)
<1>1. /\ TypeOK /\ sheet \in Sheets /\ Clauses /\ Layered(sheet) /\ StackInv /\ Framed(frames, accumulate)
      /\ InPhase /\ CellsTyped
  BY DEF Base, SheetInv, Typed, CellsTyped
<1>2. PICK A : frames \in Seq(FrameOver(A))
  BY <1>1 DEF Framed
<1>3. get_stack \in Seq(Cell \X BOOLEAN) /\ (frames # <<>> => frames[1].kind \in Roots)
  BY <1>1 DEF StackInv, Stacked
<1>4. Frames(frames)
  BY <1>1, <1>3 DEF Framed, Frames
<1>5. Len(get_stack) \in Nat /\ Len(frames) \in Nat
  BY <1>2, <1>3
<1>6. ASSUME frames # <<>>
      PROVE  /\ Len(frames) >= 1 /\ Len(frames) \in 1..Len(frames) /\ Now = frames[Len(frames)]
             /\ Now.vals \in Seq(Value)
  <2>1. Len(frames) \in Nat /\ Len(frames) >= 1 /\ Now = frames[Len(frames)] /\ Now.vals \in Seq(Value)
    BY <1>1, <1>6, InnermostIs
  <2>2. PICK n : n = Len(frames)
    OBVIOUS
  <2>3. n \in 1..n
    BY <2>1, <2>2
  <2> QED BY <2>1, <2>2, <2>3
<1> QED BY <1>1, <1>2, <1>3, <1>4, <1>5, <1>6

(* Steps that only evaluate leave what is known as it is. *)
LEMMA Carried ==
  ASSUME HInv, ~failed, UNCHANGED <<vars, sheet, output_index, input, state, evaluated, dirty, at, updated,
                                    told_value, start, published, changed>>,
         InProgress',
         phase = "flowed" /\ frames' # <<>> => at \in 1..Len(output_index) /\ frames'[1].of = output_index[at],
         phase = "conditionals" =>
           \A i \in 1..Len(frames') : frames'[i].kind = "get" => Gone(frames'[i].of)
  PROVE  Sound'
<1>1. /\ UNCHANGED <<phase, term, relation_count, rel_resolved, relations>>
      /\ UNCHANGED <<sheet, output_index, input, state, evaluated, dirty, at, updated, told_value, start,
                     published, changed>>
  BY DEF vars, flowVars, sheetVars
<1>2. Stable
  BY <1>1 DEF Stable, Known, Seen
<1>3. Clean' => Clean
  BY <1>1 DEF Clean
<1>4. (\A c : RelationIndex(c)' = RelationIndex(c)) /\ (\A n : Gone(n) => Gone(n)') /\ Indexed' = Indexed
  BY <1>1 DEF RelationIndex, Relation, Edges, Terms, Gone, Indexed
<1>5. AllCorrect'
  <2> SUFFICES ASSUME Clean', phase # "idle" \/ changed = {}, NEW n \in evaluated
               PROVE  n \in DOMAIN sheet'.expr /\ Correct(n)'
    BY <1>1 DEF AllCorrect
  <2>1. n \in DOMAIN sheet.expr /\ Correct(n)
    BY <1>3 DEF HInv, Sound, AllCorrect
  <2> QED BY <2>1, <1>1, <1>2, CorrectStays
<1>6. AllSeen'
  BY <1>1, <1>4 DEF HInv, Sound, AllSeen
<1>7. Passing'
  BY <1>1 DEF HInv, Sound, Passing
<1>8. InputsKept'
  BY <1>1 DEF HInv, Sound, InputsKept
<1>9. Told'
  BY <1>1, <1>4 DEF HInv, Sound, Told
<1>10. Released'
  <2>1. Released
    BY DEF HInv, Sound
  <2>2. phase = "conditionals" =>
          \A c \in Cell : relation_count'[c] = Cardinality(RelationIndex(c)' \ rel_resolved') /\ term'[c] = NoTerm
    BY <1>1, <1>4, <2>1 DEF Released
  <2>5. PICK fs : fs = frames'
    OBVIOUS
  <2>3. phase = "conditionals" =>
          \A i \in 1..Len(fs) : fs[i].kind = "get" => Gone(fs[i].of)'
    BY <1>4, <2>5
  <2>4. phase \in {"conditionals", "flow", "pop", "visit"} => \A n \in evaluated' : Gone(n)'
    BY <1>1, <1>4, <2>1 DEF Released
  <2> QED BY <1>1, <2>2, <2>3, <2>4, <2>5 DEF Released
<1> QED BY <1>5, <1>6, <1>7, <1>8, <1>9, <1>10 DEF Sound

(* What is in progress when the innermost of fs is given what it has read. *)
LEMMA ProgressMore ==
  ASSUME NEW A, NEW fs \in Seq(FrameOver(A)), fs # <<>>, NEW v \in Value, NEW m,
         NEW where, Placed(where, fs, get_stack'), frames' = Deliver(fs, v),
         Clean' =>
           /\ fs[Len(fs)].vals \in Seq(Value)
           /\ m \in Declared \cup Evaluable /\ Step(fs[Len(fs)].expr, fs[Len(fs)].vals) = Read(m)
           /\ Chained(fs)' /\ Fits(fs[Len(fs)], m, v)'
           /\ \A j \in 1..Len(get_stack') : term'[get_stack'[j][1]] # NoTerm =>
                (get_stack'[j][2] <=>
                   OwnBegun(fs, where[j]) \/ (where[j] = Len(fs) /\ fs[where[j]].of = m))
  PROVE  InProgress'
<1> PICK gs, at2 : gs = get_stack' /\ at2 = where
  OBVIOUS
<1>1. /\ Len(Deliver(fs, v)) = Len(fs)
      /\ \A i \in 1..Len(fs) : Deliver(fs, v)[i].kind = fs[i].kind /\ Deliver(fs, v)[i].of = fs[i].of
  BY DeliverIs
<1>2. Placed(at2, frames', gs)
  BY <1>1, PlacedSame
<1>3. ASSUME Clean' PROVE Flagged(at2, frames, get_stack)' /\ Chained(frames)'
  <2>1. \A i \in 1..Len(fs) : OwnBegun(Deliver(fs, v), i) <=> OwnBegun(fs, i) \/ (i = Len(fs) /\ fs[i].of = m)
    BY <1>3, BegunMore
  <2>2. \A j \in 1..Len(gs) : at2[j] \in 1..Len(fs)
    BY DEF Placed
  <2>3. \A j \in 1..Len(gs) : term'[gs[j][1]] # NoTerm => (gs[j][2] <=> OwnBegun(frames', at2[j]))
    BY <1>3, <2>1, <2>2
  <2>4. Flagged(at2, frames, get_stack)'
    BY <2>3 DEF Flagged, OwnBegun
  <2>5. Chained(Deliver(fs, v))'
    BY <1>3, ChainedMore
  <2>6. Chained(frames)'
    BY <2>5 DEF Chained
  <2> QED BY <2>4, <2>6
<1>4. Placed(at2, frames, get_stack)'
  BY <1>2 DEF Placed
<1> QED BY <1>3, <1>4 DEF InProgress

(* What is in progress when a call begins. *)
LEMMA ProgressPush ==
  ASSUME NEW A, NEW fs \in Seq(FrameOver(A)), fs = frames, get_stack \in Seq(Cell \X BOOLEAN),
         NEW where, Placed(where, frames, get_stack), term' = term,
         NEW f, frames' = Append(fs, f), f.vals = <<>>, f.kind # "term",
         get_stack' = IF Named(f) THEN Append(get_stack, <<f.of, FALSE>>) ELSE get_stack,
         Clean' => Flagged(where, frames, get_stack) /\ Chained(Append(fs, f))'
  PROVE  InProgress'
<1> PICK gs, n, l : gs = get_stack /\ n = Len(frames) /\ l = Len(get_stack)
  OBVIOUS
<1>1. n \in Nat /\ l \in Nat /\ Len(Append(fs, f)) = n + 1
  OBVIOUS
<1>2. /\ \A i \in 1..n : OwnBegun(Append(fs, f), i) <=> OwnBegun(fs, i)
      /\ ~OwnBegun(Append(fs, f), n + 1)
  BY BegunPush
<1>3. \A j \in 1..l : where[j] \in 1..n
  BY DEF Placed
<1>4. ASSUME Clean' PROVE Chained(frames)'
  BY <1>4 DEF Chained
<1>5. CASE Named(f)
  <2>1. PICK at2 : /\ Placed(at2, Append(fs, f), Append(gs, <<f.of, FALSE>>))
                   /\ \A j \in 1..l : at2[j] = where[j]
                   /\ at2[l + 1] = n + 1
    <3>1. gs \in Seq(Cell \X BOOLEAN) /\ Placed(where, fs, gs) /\ l = Len(gs) /\ n = Len(fs)
      BY Zenon
    <3>2. PICK b : b = FALSE
      OBVIOUS
    <3>3. \E at2 : /\ Placed(at2, Append(fs, f), Append(gs, <<f.of, b>>))
                   /\ \A j \in 1..Len(gs) : at2[j] = where[j]
                   /\ at2[Len(gs) + 1] = Len(fs) + 1
      BY <3>1, <1>5, PlacedPush
    <3> QED BY <3>1, <3>2, <3>3, Zenon
  <2>2. get_stack' = Append(gs, <<f.of, FALSE>>) /\ frames' = Append(fs, f)
    BY <1>5
  <2>3. Placed(at2, frames, get_stack)'
    BY <2>1, <2>2 DEF Placed
  <2>4. /\ Len(get_stack') = l + 1 /\ get_stack'[l + 1] = <<f.of, FALSE>>
        /\ \A j \in 1..l : get_stack'[j] = gs[j]
    <3>1. PICK T, x, g2 : T = Cell \X BOOLEAN /\ x = <<f.of, FALSE>> /\ g2 = get_stack'
      OBVIOUS
    <3>2. gs \in Seq(T) /\ g2 = Append(gs, x) /\ l = Len(gs)
      BY <2>2, <3>1, Zenon
    <3>3. Len(g2) = Len(gs) + 1 /\ g2[Len(gs) + 1] = x /\ \A j \in 1..Len(gs) : g2[j] = gs[j]
      <4>1. /\ Len(Append(gs, x)) = Len(gs) + 1 /\ Append(gs, x)[Len(gs) + 1] = x
            /\ \A j \in 1..Len(gs) : Append(gs, x)[j] = gs[j]
        BY <3>2, AppendIs
      <4> QED BY <4>1, <3>2, Zenon
    <3> QED BY <3>1, <3>2, <3>3, Zenon
  <2>5. \A j \in 1..(l + 1) : j = l + 1 \/ j \in 1..l
    BY <1>1
  <2>6. ASSUME Clean' PROVE Flagged(at2, frames, get_stack)'
    <3>1. \A j \in 1..l : term[gs[j][1]] # NoTerm => (gs[j][2] <=> OwnBegun(fs, where[j]))
      BY <2>6 DEF Flagged
    <3>2. ASSUME NEW j \in 1..(l + 1), term'[get_stack'[j][1]] # NoTerm
          PROVE  get_stack'[j][2] <=> OwnBegun(Append(fs, f), at2[j])
      <4>1. CASE j = l + 1
        BY <4>1, <2>1, <2>4, <1>2
      <4>2. CASE j \in 1..l
        BY <4>2, <3>1, <3>2, <2>1, <2>4, <1>2, <1>3
      <4> QED BY <4>1, <4>2, <2>5
    <3> QED BY <3>2, <2>2, <2>4 DEF Flagged, OwnBegun
  <2> QED BY <2>3, <2>6, <1>4 DEF InProgress
<1>6. CASE ~Named(f)
  <2>1. get_stack' = gs /\ frames' = Append(fs, f)
    BY <1>6
  <2>2. Placed(where, Append(fs, f), gs)
    BY <1>6, PlacedMore
  <2>3. Placed(where, frames, get_stack)'
    BY <2>1, <2>2 DEF Placed
  <2>4. ASSUME Clean' PROVE Flagged(where, frames, get_stack)'
    <3>1. \A j \in 1..l : term[gs[j][1]] # NoTerm => (gs[j][2] <=> OwnBegun(fs, where[j]))
      BY <2>4 DEF Flagged
    <3>2. \A j \in 1..l : term'[gs[j][1]] # NoTerm => (gs[j][2] <=> OwnBegun(Append(fs, f), where[j]))
      BY <3>1, <1>2, <1>3
    <3> QED BY <3>2, <2>1 DEF Flagged, OwnBegun
  <2> QED BY <2>3, <2>4, <1>4 DEF InProgress
<1> QED BY <1>5, <1>6

(* A single frame that pushes no name: an initializer, a query or a conditional. *)
LEMMA ProgressSingle ==
  ASSUME get_stack \in Seq(Cell \X BOOLEAN), InProgress, ~failed, get_stack' = get_stack,
         \A i \in 1..Len(frames) : ~Named(frames[i]),
         NEW f, frames' = <<f>>, ~Named(f), Faithful(f)'
  PROVE  InProgress'
<1>1. get_stack = <<>>
  BY PlacedNone DEF InProgress
<1>2. Chained(<<f>>)'
  BY ChainedRoot
<1>3. Chained(frames)'
  BY <1>2 DEF Chained
<1>4. PICK where : Placed(where, <<>>, <<>>)
  BY PlacedNone
<1>5. PICK fs0 : fs0 = <<>>
  OBVIOUS
<1>6. fs0 \in Seq(FrameOver({})) /\ Append(fs0, f) = <<f>> /\ Len(fs0) = 0 /\ 1..0 = {}
  BY <1>5
<1>7. Placed(where, Append(fs0, f), fs0)
  BY <1>4, <1>5, <1>6, PlacedMore
<1>8. Placed(where, frames, get_stack)' /\ Flagged(where, frames, get_stack)'
  BY <1>1, <1>5, <1>6, <1>7 DEF Placed, Flagged
<1> QED BY <1>3, <1>8 DEF InProgress

LEMMA ProgressRoot ==
  ASSUME get_stack \in Seq(Cell \X BOOLEAN), InProgress, ~failed, frames = <<>>, get_stack' = get_stack,
         NEW f, frames' = <<f>>, f.kind \in {"init", "client", "when"}, f.vals = <<>>
  PROVE  InProgress'
<1>1. Len(f.vals) = 0 /\ 0..(0 - 1) = {}
  OBVIOUS
<1>2. Follows(f.expr, f.vals, NoCell, {})'
  BY <1>1 DEF Follows
<1>3. Faithful(f)' /\ ~Named(f)
  BY <1>2 DEF Faithful, Named
<1>4. Len(frames) = 0 /\ 1..0 = {}
  OBVIOUS
<1> QED BY <1>3, <1>4, ProgressSingle

LEMMA ProgressNone ==
  ASSUME frames' = <<>>, get_stack' = <<>>
  PROVE  InProgress'
<1>1. Chained(<<>>)'
  BY ChainedNone
<1>2. PICK where : Placed(where, <<>>, <<>>)
  BY PlacedNone
<1>3. Len(<<>>) = 0 /\ 1..0 = {}
  OBVIOUS
<1>4. Placed(where, frames, get_stack)' /\ Flagged(where, frames, get_stack)'
  BY <1>2, <1>3 DEF Placed, Flagged
<1>5. Chained(frames)'
  BY <1>1 DEF Chained
<1> QED BY <1>4, <1>5 DEF InProgress

-----------------------------------------------------------------------------
(* The steps of an evaluation that calculate no cell. *)
LEMMA EvaluateQuietly ==
  ASSUME HEvaluate, ~failed'
  PROVE  ~failed /\ UNCHANGED <<start, published, changed>>
BY DEF HEvaluate

(* The innermost evaluation goes on, or a term comes or goes. *)
LEMMA CarriedOn ==
  ASSUME HInv, ~failed, UNCHANGED <<vars, sheet, output_index, input, state, evaluated, dirty, at, updated,
                                    told_value, start, published, changed>>,
         InProgress', frames # <<>>, frames'[1].of = frames[1].of,
         \A i \in 1..Len(frames') :
           \/ frames'[i].kind # "get"
           \/ i \in 1..Len(frames) /\ frames'[i].kind = frames[i].kind /\ frames'[i].of = frames[i].of
  PROVE  Sound'
<1>1. phase = "flowed" => at \in 1..Len(output_index) /\ frames'[1].of = output_index[at]
  BY DEF HInv, Sound, Passing
<1>2. phase = "conditionals" =>
        \A i \in 1..Len(frames') : frames'[i].kind = "get" => Gone(frames'[i].of)
  BY DEF HInv, Sound, Released
<1> QED BY <1>1, <1>2, Carried

LEMMA OnTopIs ==
  ASSUME get_stack \in Seq(Cell \X BOOLEAN), NEW n
  PROVE  /\ OnTop(n) <=> Len(get_stack) >= 1 /\ get_stack[Len(get_stack)][1] = n
         /\ OnTop(n) => n \in Cell /\ Last(get_stack) = get_stack[Len(get_stack)]
<1>1. get_stack # <<>> <=> Len(get_stack) >= 1
  OBVIOUS
<1>2. Len(get_stack) >= 1 => Len(get_stack) \in 1..Len(get_stack)
  OBVIOUS
<1>3. Len(get_stack) >= 1 => get_stack[Len(get_stack)] \in Cell \X BOOLEAN
  BY <1>2
<1> QED BY <1>1, <1>3 DEF OnTop, Last

LEMMA CleanKept ==
  ASSUME UNCHANGED <<vars, published>>, ~failed, ~failed'
  PROVE  Clean' <=> Clean
BY DEF Clean, vars

LEMMA Still ==
  ASSUME UNCHANGED <<vars, sheet, input, state, evaluated, start>>
  PROVE  Stable /\ term' = term
BY DEF Stable, Known, Seen, vars, flowVars

LEMMA FitsStays ==
  ASSUME Stable, term' = term, NEW f, NEW m, NEW v, Fits(f, m, v)
  PROVE  Fits(f, m, v)'
<1>1. start' = start /\ (m \in Known => m \in Known' /\ Seen(m)' = Seen(m))
  BY DEF Stable
<1>2. v \in Own(m) => v \in Own(m)'
  BY OwnStays
<1> QED BY <1>1, <1>2 DEF Fits

LEMMA ChainedUnevaluated ==
  ASSUME NEW fs, Chained(fs)
  PROVE  \A i \in 1..Len(fs) : fs[i].kind \in {"get", "output"} => fs[i].of \in DOMAIN sheet.expr \ evaluated
BY DEF Chained, Faithful

LEMMA ReadCachedSound ==
  ASSUME HInv, ~failed, ~failed', UNCHANGED <<start, published, changed>>,
         NEW n \in Declared \cup Computed, ReadCached(n)
  PROVE  Sound'
<1>1. /\ Evaluating /\ Reads(n) /\ ~OnTop(n) /\ n \in Names /\ (n \in Evaluable => n \in evaluated)
      /\ UNCHANGED <<vars, sheet, output_index, input, state, evaluated, dirty, at, updated, told_value, get_stack>>
  BY DEF ReadCached, declVars, monVars
<1>2. PICK v : v = Seen(n) /\ frames' = Deliver(frames, v)
  BY DEF ReadCached, Seen
<1>3. frames # <<>>
  BY <1>1 DEF Evaluating, Running
<1>4. Base
  BY DEF HInv
<1>5. PICK fs, A : fs = frames /\ fs \in Seq(FrameOver(A))
  BY <1>4, Evaluations
<1>6. PICK L : L = Len(fs)
  OBVIOUS
<1>7. /\ L \in Nat /\ L >= 1 /\ L \in 1..L /\ Now = fs[L] /\ fs[L].vals \in Seq(Value) /\ fs # <<>>
      /\ get_stack \in Seq(Cell \X BOOLEAN) /\ Frames(fs)
  BY <1>3, <1>4, <1>5, <1>6, Evaluations
<1>8. n \in Declared \cup Evaluable /\ v \in Value /\ n \in Known
  <2>1. CellsTyped /\ sheet \in Sheets
    BY <1>4, Evaluations
  <2>2. n \in Declared \cup Evaluable
    BY <1>1, <2>1, NamesAre
  <2> QED BY <1>1, <1>2, <2>1, <2>2 DEF CellsTyped, Known, Seen
<1>9. Step(fs[L].expr, fs[L].vals) = Read(n)
  BY <1>1, <1>7 DEF Reads, Does, Read
<1>10. PICK where : Placed(where, fs, get_stack) /\ (Clean => Flagged(where, fs, get_stack) /\ Chained(fs))
  BY <1>5 DEF HInv, Sound, InProgress
<1>11. Clean' <=> Clean
  BY <1>1, CleanKept
<1>12. Stable /\ term' = term
  BY <1>1, Still
<1>13. ASSUME Clean PROVE ~(Owner(fs[L]) = n /\ n \in Cell)
  <2> SUFFICES ASSUME Owner(fs[L]) = n, n \in Cell PROVE FALSE
    OBVIOUS
  <2>1. Len(get_stack) >= 1 /\ get_stack[Len(get_stack)][1] = n
    BY <1>5, <1>6, <1>7, <1>10, <1>13, OwnerOnTop
  <2> QED BY <2>1, <1>1, <1>7, OnTopIs
<1>14. ASSUME Clean PROVE Chained(fs)' /\ Fits(fs[L], n, v)'
  <2>1. Chained(fs)'
    BY <1>1, <1>10, <1>12, <1>14, ChainedStays, ChainedUnevaluated
  <2>2. Fits(fs[L], n, v)
    BY <1>2, <1>8, <1>13, <1>14 DEF Fits
  <2>3. PICK f : f = fs[L]
    OBVIOUS
  <2>4. Fits(f, n, v)'
    BY <2>2, <2>3, <1>12, FitsStays
  <2> QED BY <2>1, <2>3, <2>4
<1>15. ASSUME Clean, NEW j \in 1..Len(get_stack'), term'[get_stack'[j][1]] # NoTerm
       PROVE  get_stack'[j][2] <=> OwnBegun(fs, where[j]) \/ (where[j] = L /\ fs[where[j]].of = n)
  <2>1. j \in 1..Len(get_stack) /\ get_stack' = get_stack /\ term[get_stack[j][1]] # NoTerm
    BY <1>1, <1>12, <1>15
  <2>2. get_stack[j][2] <=> OwnBegun(fs, where[j])
    BY <2>1, <1>10, <1>15 DEF Flagged
  <2>3. Named(fs[where[j]])
    BY <2>1, <1>10 DEF Placed
  <2>4. ~(where[j] = L /\ fs[where[j]].of = n)
    BY <2>3, <1>13, <1>15 DEF Named, Owner
  <2> QED BY <2>1, <2>2, <2>4
<1>16. InProgress'
  <2>1. Placed(where, fs, get_stack') /\ frames' = Deliver(fs, v)
    BY <1>1, <1>2, <1>5, <1>10
  <2>2. fs \in Seq(FrameOver(A)) /\ fs # <<>>
    BY <1>5, <1>7
  <2>3. Clean' =>
           /\ fs[Len(fs)].vals \in Seq(Value)
           /\ n \in Declared \cup Evaluable /\ Step(fs[Len(fs)].expr, fs[Len(fs)].vals) = Read(n)
           /\ Chained(fs)' /\ Fits(fs[Len(fs)], n, v)'
           /\ \A j \in 1..Len(get_stack') : term'[get_stack'[j][1]] # NoTerm =>
                (get_stack'[j][2] <=>
                   OwnBegun(fs, where[j]) \/ (where[j] = Len(fs) /\ fs[where[j]].of = n))
    BY <1>6, <1>7, <1>8, <1>9, <1>11, <1>14, <1>15
  <2> QED BY <2>1, <2>2, <2>3, <1>8, ProgressMore
<1>17. \A i \in 1..Len(frames') :
         i \in 1..Len(frames) /\ frames'[i].kind = frames[i].kind /\ frames'[i].of = frames[i].of
  BY <1>2, <1>5, <1>7, DeliverIs
<1>18. frames'[1].of = frames[1].of
  <2>1. 1 \in 1..Len(frames)
    BY <1>5, <1>6, <1>7
  <2> QED BY <2>1, <1>2, <1>5, <1>7, DeliverIs
<1> QED BY <1>1, <1>3, <1>16, <1>17, <1>18, CarriedOn

(* Where an expression that reads n is. *)
LEMMA InnermostReads ==
  ASSUME HInv, ~failed, NEW n, Reads(n), NEW fs, fs = frames, NEW L, L = Len(fs)
  PROVE  /\ (\E A : fs \in Seq(FrameOver(A))) /\ fs # <<>> /\ Frames(fs)
         /\ L \in Nat /\ L >= 1 /\ L \in 1..L /\ Now = fs[L] /\ fs[L].vals \in Seq(Value)
         /\ get_stack \in Seq(Cell \X BOOLEAN) /\ Len(get_stack) \in Nat
         /\ Step(fs[L].expr, fs[L].vals) = Read(n)
         /\ \E where : Placed(where, fs, get_stack) /\ (Clean => Flagged(where, fs, get_stack) /\ Chained(fs))
<1>1. Base /\ frames # <<>>
  BY DEF HInv, Reads, Running
<1>2. /\ (\E A : fs \in Seq(FrameOver(A))) /\ fs # <<>> /\ Frames(fs)
      /\ L \in Nat /\ L >= 1 /\ L \in 1..L /\ Now = fs[L] /\ fs[L].vals \in Seq(Value)
      /\ get_stack \in Seq(Cell \X BOOLEAN) /\ Len(get_stack) \in Nat
  BY <1>1, Evaluations
<1>3. Step(fs[L].expr, fs[L].vals) = Read(n)
  BY <1>2 DEF Reads, Does, Read
<1>4. \E where : Placed(where, fs, get_stack) /\ (Clean => Flagged(where, fs, get_stack) /\ Chained(fs))
  BY DEF HInv, Sound, InProgress
<1> QED BY <1>2, <1>3, <1>4

(* The name on top is that of the innermost cell: it is being evaluated, and the flag
   says whether it has read itself. *)
LEMMA OwnRead ==
  ASSUME HInv, ~failed, Clean, NEW n, Reads(n), OnTop(n), NEW fs, fs = frames, NEW L, L = Len(fs),
         NEW where, Placed(where, fs, get_stack), Flagged(where, fs, get_stack), Chained(fs)
  PROVE  /\ n \in Cell /\ Owner(fs[L]) = n /\ n \in DOMAIN sheet.expr \ evaluated
         /\ input[n] = start[n]
         /\ where[Len(get_stack)] = IF fs[L].kind = "term" THEN L - 1 ELSE L
         /\ fs[L].kind = "term" => L - 1 \in 1..L /\ L - 1 < L
         /\ fs[L].kind # "term" => Named(fs[L])
         /\ Len(get_stack) >= 1 /\ get_stack[Len(get_stack)][1] = n
         /\ term[n] # NoTerm =>
              /\ fs[L].kind = "term" => Last(get_stack)[2]
              /\ fs[L].kind # "term" => (Last(get_stack)[2] <=> ~Unread(fs[L].expr, fs[L].vals, Len(fs[L].vals), n))
<1>1. PICK A : fs \in Seq(FrameOver(A))
  BY InnermostReads
<1>2. /\ fs # <<>> /\ Frames(fs) /\ L \in Nat /\ L >= 1 /\ L \in 1..L /\ fs[L].vals \in Seq(Value)
      /\ get_stack \in Seq(Cell \X BOOLEAN) /\ Len(get_stack) \in Nat
      /\ Step(fs[L].expr, fs[L].vals) = Read(n)
  BY InnermostReads
<1>3. n \in Cell /\ Len(get_stack) >= 1 /\ get_stack[Len(get_stack)][1] = n
      /\ Last(get_stack) = get_stack[Len(get_stack)]
  BY <1>2, OnTopIs
<1>4. Base /\ TypeOK /\ Clauses /\ sheet \in Sheets /\ Layered(sheet)
  BY Evaluations DEF HInv
<1>5. Owner(fs[L]) = n
  BY <1>2, <1>3, <1>4, TopIsOwn
<1>6. /\ fs[L].kind # "term" => Named(fs[L]) /\ where[Len(get_stack)] = L
      /\ fs[L].kind = "term" => /\ L - 1 \in 1..(L - 1) /\ Named(fs[L - 1])
                                /\ fs[L - 1].of = fs[L].of /\ where[Len(get_stack)] = L - 1
  BY <1>1, <1>2, <1>3, <1>5, OwnerOnTop
<1>7. fs[L].of = n
  BY <1>3, <1>5, CellAssumption DEF Owner
<1>8. fs[L].kind = "term" => L - 1 \in 1..L /\ L - 1 < L /\ (L - 1) + 1 = L
  BY <1>2, <1>6
<1>9. n \in DOMAIN sheet.expr \ evaluated
  <2>1. CASE fs[L].kind = "term"
    BY <2>1, <1>6, <1>7, <1>8, ChainedUnevaluated DEF Named
  <2>2. CASE fs[L].kind # "term"
    BY <2>2, <1>2, <1>6, <1>7, ChainedUnevaluated DEF Named
  <2> QED BY <2>1, <2>2
<1>10. input[n] = start[n]
  <2>1. n \in Indexed
    BY <1>3, <1>9, ComputedIs DEF Indexed, Computed
  <2>2. phase # "idle"
    BY <2>1, <1>9 DEF HInv, Sound, AllSeen, Clean
  <2> QED BY <2>2, <1>3, <1>9 DEF HInv, Sound, InputsKept
<1>11. ASSUME term[n] # NoTerm
       PROVE  /\ fs[L].kind = "term" => Last(get_stack)[2]
              /\ fs[L].kind # "term" => (Last(get_stack)[2] <=> ~Unread(fs[L].expr, fs[L].vals, Len(fs[L].vals), n))
  <2>1. PICK l : l = Len(get_stack)
    OBVIOUS
  <2>2. l \in 1..l
    BY <1>2, <1>3, <2>1
  <2>3. get_stack[l][2] <=> OwnBegun(fs, where[l])
    BY <2>1, <2>2, <1>3, <1>11 DEF Flagged
  <2>4. CASE fs[L].kind = "term"
    <3>1. OwnBegun(fs, L - 1)
      BY <1>8, <2>4 DEF OwnBegun
    <3> QED BY <3>1, <2>1, <2>3, <2>4, <1>3, <1>6
  <2>5. CASE fs[L].kind # "term"
    <3>1. ~(L < L)
      BY <1>2
    <3>2. OwnBegun(fs, L) <=> ~Unread(fs[L].expr, fs[L].vals, Len(fs[L].vals), n)
      BY <3>1, <1>7 DEF OwnBegun
    <3> QED BY <3>2, <2>1, <2>3, <2>5, <1>3, <1>6
  <2> QED BY <2>4, <2>5
<1> QED BY <1>3, <1>5, <1>6, <1>8, <1>9, <1>10, <1>11

LEMMA ReadInputSound ==
  ASSUME HInv, ~failed, ~failed', UNCHANGED <<start, published, changed>>,
         NEW n \in Declared \cup Computed, ReadInput(n)
  PROVE  Sound'
<1>1. /\ Reads(n) /\ OnTop(n) /\ (Last(get_stack)[2] \/ term[n] = NoTerm)
      /\ UNCHANGED <<vars, sheet, output_index, input, state, evaluated, dirty, at, updated, told_value, get_stack>>
  BY DEF ReadInput, declVars, monVars, cellVars
<1>2. PICK v : v = input[n] /\ frames' = Deliver(frames, v)
  BY DEF ReadInput
<1>3. PICK fs, L : fs = frames /\ L = Len(fs)
  OBVIOUS
<1>4. PICK A : fs \in Seq(FrameOver(A))
  BY <1>1, <1>3, InnermostReads
<1>5. /\ fs # <<>> /\ L \in Nat /\ L >= 1 /\ L \in 1..L /\ fs[L].vals \in Seq(Value)
      /\ get_stack \in Seq(Cell \X BOOLEAN) /\ Len(get_stack) \in Nat
      /\ Step(fs[L].expr, fs[L].vals) = Read(n)
  BY <1>1, <1>3, InnermostReads
<1>6. PICK where : Placed(where, fs, get_stack) /\ (Clean => Flagged(where, fs, get_stack) /\ Chained(fs))
  BY <1>1, <1>3, InnermostReads
<1>7. n \in Cell /\ n \in Declared \cup Evaluable /\ v \in Value
  <2>1. CellsTyped
    BY Evaluations DEF HInv
  <2>2. n \in Cell
    BY <1>1, <1>5, OnTopIs
  <2> QED BY <1>2, <2>1, <2>2 DEF CellsTyped, Declared
<1>8. Clean' <=> Clean
  BY <1>1, CleanKept
<1>9. Stable /\ term' = term
  BY <1>1, Still
<1>10. ASSUME Clean PROVE Chained(fs)' /\ Fits(fs[L], n, v)'
  <2>1. Chained(fs)'
    BY <1>1, <1>6, <1>9, <1>10, ChainedStays, ChainedUnevaluated
  <2>2. /\ Owner(fs[L]) = n /\ input[n] = start[n]
        /\ term[n] # NoTerm /\ fs[L].kind # "term" =>
             (Last(get_stack)[2] <=> ~Unread(fs[L].expr, fs[L].vals, Len(fs[L].vals), n))
    BY <1>1, <1>3, <1>6, <1>10, OwnRead
  <2>3. term[n] = NoTerm => v \in Own(n)
    BY <1>2, <2>2 DEF Own
  <2>4. Fits(fs[L], n, v)
    BY <1>1, <1>2, <1>7, <2>2, <2>3 DEF Fits
  <2>5. PICK f : f = fs[L]
    OBVIOUS
  <2>6. Fits(f, n, v)'
    BY <2>4, <2>5, <1>9, FitsStays
  <2> QED BY <2>1, <2>5, <2>6
<1>11. ASSUME Clean, NEW j \in 1..Len(get_stack'), term'[get_stack'[j][1]] # NoTerm
       PROVE  get_stack'[j][2] <=> OwnBegun(fs, where[j]) \/ (where[j] = L /\ fs[where[j]].of = n)
  <2>1. j \in 1..Len(get_stack) /\ get_stack' = get_stack /\ term[get_stack[j][1]] # NoTerm
    BY <1>1, <1>9, <1>11
  <2>2. get_stack[j][2] <=> OwnBegun(fs, where[j])
    BY <2>1, <1>6, <1>11 DEF Flagged
  <2>3. Named(fs[where[j]]) /\ get_stack[j][1] = fs[where[j]].of
    BY <2>1, <1>6 DEF Placed
  <2>4. ASSUME where[j] = L, fs[where[j]].of = n PROVE OwnBegun(fs, where[j])
    <3>1. fs[L].kind # "term" /\ term[n] # NoTerm
      BY <2>1, <2>3, <2>4 DEF Named
    <3>2. ~Unread(fs[L].expr, fs[L].vals, Len(fs[L].vals), n)
      BY <3>1, <1>1, <1>3, <1>6, <1>11, OwnRead
    <3> QED BY <3>2, <2>4 DEF OwnBegun
  <2> QED BY <2>1, <2>2, <2>4
<1>12. InProgress'
  <2>1. Placed(where, fs, get_stack') /\ frames' = Deliver(fs, v)
    BY <1>1, <1>2, <1>3, <1>6
  <2>2. Clean' =>
           /\ fs[Len(fs)].vals \in Seq(Value)
           /\ n \in Declared \cup Evaluable /\ Step(fs[Len(fs)].expr, fs[Len(fs)].vals) = Read(n)
           /\ Chained(fs)' /\ Fits(fs[Len(fs)], n, v)'
           /\ \A j \in 1..Len(get_stack') : term'[get_stack'[j][1]] # NoTerm =>
                (get_stack'[j][2] <=>
                   OwnBegun(fs, where[j]) \/ (where[j] = Len(fs) /\ fs[where[j]].of = n))
    BY <1>3, <1>5, <1>7, <1>8, <1>10, <1>11
  <2> QED BY <2>1, <2>2, <1>4, <1>5, <1>7, ProgressMore
<1>13. \A i \in 1..Len(frames') :
         i \in 1..Len(frames) /\ frames'[i].kind = frames[i].kind /\ frames'[i].of = frames[i].of
  BY <1>2, <1>3, <1>4, <1>5, DeliverIs
<1>14. frames'[1].of = frames[1].of /\ frames # <<>>
  <2>1. 1 \in 1..Len(frames)
    BY <1>3, <1>5
  <2> QED BY <2>1, <1>2, <1>3, <1>4, <1>5, DeliverIs
<1> QED BY <1>1, <1>12, <1>13, <1>14, CarriedOn

LEMMA ReadTermSound ==
  ASSUME HInv, ~failed, ~failed', UNCHANGED <<start, published, changed>>,
         NEW n \in Declared \cup Computed, ReadTerm(n)
  PROVE  Sound'
<1>1. /\ Reads(n) /\ OnTop(n) /\ ~Last(get_stack)[2] /\ term[n] # NoTerm
      /\ UNCHANGED <<vars, sheet, output_index, input, state, evaluated, dirty, at, updated, told_value>>
      /\ get_stack' = [get_stack EXCEPT ![Len(get_stack)] = <<n, TRUE>>]
  BY DEF ReadTerm, declVars, monVars, cellVars
<1>2. PICK f : f = Frame("term", n, TermExpr(n), {}) /\ frames' = Append(frames, f)
  BY DEF ReadTerm
<1>3. PICK fs, L : fs = frames /\ L = Len(fs)
  OBVIOUS
<1>4. PICK A : fs \in Seq(FrameOver(A))
  BY <1>1, <1>3, InnermostReads
<1>5. /\ fs # <<>> /\ L \in Nat /\ L >= 1 /\ L \in 1..L /\ fs[L].vals \in Seq(Value)
      /\ get_stack \in Seq(Cell \X BOOLEAN) /\ Len(get_stack) \in Nat
      /\ Step(fs[L].expr, fs[L].vals) = Read(n)
  BY <1>1, <1>3, InnermostReads
<1>6. PICK where : Placed(where, fs, get_stack) /\ (Clean => Flagged(where, fs, get_stack) /\ Chained(fs))
  BY <1>1, <1>3, InnermostReads
<1>7. n \in Cell /\ Len(get_stack) >= 1 /\ get_stack[Len(get_stack)][1] = n
  BY <1>1, <1>5, OnTopIs
<1>8. Clean' <=> Clean
  BY <1>1, CleanKept
<1>9. Stable /\ term' = term
  BY <1>1, Still
<1>10. PICK gs, l : gs = get_stack' /\ l = Len(get_stack)
  OBVIOUS
<1>11. /\ Len(gs) = l /\ l \in 1..l /\ gs[l] = <<n, TRUE>> /\ \A j \in 1..l : j # l => gs[j] = get_stack[j]
       /\ \A j \in 1..l : gs[j][1] = get_stack[j][1]
  <2>1. PICK g, x : g = get_stack /\ x = <<n, TRUE>>
    OBVIOUS
  <2>2. /\ g \in Seq(Cell \X BOOLEAN) /\ gs = [g EXCEPT ![l] = x]
        /\ l = Len(g) /\ l \in Nat /\ l >= 1 /\ l \in 1..l /\ g[l][1] = n
    BY <2>1, <1>1, <1>5, <1>7, <1>10
  <2>3. DOMAIN g = 1..l
    BY <2>2
  <2>4. gs[l] = x /\ DOMAIN gs = 1..l /\ \A j \in 1..l : j # l => gs[j] = g[j]
    BY <2>2, <2>3
  <2>5. gs \in Seq(Cell \X BOOLEAN) /\ Len(gs) = l
    <3>1. x \in Cell \X BOOLEAN
      BY <2>1, <1>7
    <3> QED BY <3>1, <2>2, <2>3
  <2>6. x[1] = n
    BY <2>1
  <2> QED BY <2>1, <2>2, <2>4, <2>5, <2>6
<1>12. f.kind = "term" /\ f.of = n /\ f.expr = TermExpr(n) /\ f.vals = <<>> /\ ~Named(f)
  BY <1>2 DEF Frame, Named
<1>13. Placed(where, Append(fs, f), gs)
  BY <1>4, <1>6, <1>10, <1>11, <1>12, PlacedMore
<1>14. ASSUME Clean PROVE Chained(Append(fs, f))' /\ Flagged(where, frames, get_stack)'
  <2>1. Chained(fs)'
    BY <1>1, <1>6, <1>9, <1>14, ChainedStays, ChainedUnevaluated
  <2>2. /\ Owner(fs[L]) = n /\ where[l] = IF fs[L].kind = "term" THEN L - 1 ELSE L
        /\ fs[L].kind # "term" => Named(fs[L])
        /\ fs[L].kind = "term" => Last(get_stack)[2]
        /\ fs[L].kind # "term" => (Last(get_stack)[2] <=> ~Unread(fs[L].expr, fs[L].vals, Len(fs[L].vals), n))
    BY <1>1, <1>3, <1>6, <1>10, <1>14, OwnRead
  <2>3. /\ fs[L].kind # "term" /\ Named(fs[L]) /\ fs[L].of = n /\ where[l] = L
        /\ Unread(fs[L].expr, fs[L].vals, Len(fs[L].vals), n)
    BY <2>2, <1>1 DEF Named, Owner
  <2>4. Waits(fs[L], f)
    BY <2>3, <1>5, <1>12 DEF Waits
  <2>5. Faithful(f)'
    <3>1. TermExpr(n)' = TermExpr(n)
      BY <1>1, <1>9 DEF TermExpr
    <3>2. Len(f.vals) = 0 /\ 0..(0 - 1) = {}
      BY <1>12
    <3>3. Follows(f.expr, f.vals, f.of, {start[f.of]})'
      BY <3>2 DEF Follows
    <3> QED BY <3>1, <3>3, <1>1, <1>7, <1>9, <1>12 DEF Faithful
  <2>6. Chained(Append(fs, f))'
    BY <2>1, <2>4, <2>5, <1>3, <1>4, <1>5, ChainedPush
  <2>7. \A i \in 1..L : OwnBegun(Append(fs, f), i) <=> OwnBegun(fs, i) \/ i = L
    BY <1>3, <1>4, <1>12, BegunPush
  <2>8. ASSUME NEW j \in 1..l, term[gs[j][1]] # NoTerm PROVE gs[j][2] <=> OwnBegun(Append(fs, f), where[j])
    <3>1. where[j] \in 1..L
      BY <1>3, <1>6, <1>10 DEF Placed
    <3>2. CASE j = l
      BY <3>1, <3>2, <2>3, <2>7, <1>11
    <3>3. CASE j # l
      <4>1. j < l
        BY <3>3, <1>5, <1>10
      <4>2. where[j] < where[l]
        BY <4>1, <1>6, <1>10, <1>11 DEF Placed
      <4>3. where[j] # L
        BY <4>2, <3>1, <2>3
      <4>4. gs[j] = get_stack[j]
        BY <3>3, <1>11
      <4>5. gs[j][2] <=> OwnBegun(fs, where[j])
        BY <4>4, <2>8, <1>6, <1>10, <1>14 DEF Flagged
      <4> QED BY <4>3, <4>5, <3>1, <2>7
    <3> QED BY <3>2, <3>3
  <2>9. Flagged(where, frames, get_stack)'
    BY <2>8, <1>2, <1>3, <1>9, <1>10, <1>11 DEF Flagged, OwnBegun
  <2> QED BY <2>6, <2>9
<1>15. InProgress'
  <2>1. Placed(where, frames, get_stack)'
    BY <1>2, <1>3, <1>10, <1>13 DEF Placed
  <2>2. Clean => Chained(frames)'
    BY <1>2, <1>3, <1>14 DEF Chained
  <2> QED BY <2>1, <2>2, <1>8, <1>14 DEF InProgress
<1>16. /\ Len(frames') = L + 1 /\ frames'[L + 1] = f /\ \A i \in 1..L : frames'[i] = frames[i]
  BY <1>2, <1>3, <1>4, <1>5
<1>17. (\A i \in 1..(L + 1) : i \in 1..L \/ i = L + 1) /\ 1 \in 1..L
  BY <1>5
<1>18. \A i \in 1..Len(frames') :
         \/ frames'[i].kind # "get"
         \/ i \in 1..Len(frames) /\ frames'[i].kind = frames[i].kind /\ frames'[i].of = frames[i].of
  BY <1>3, <1>12, <1>16, <1>17
<1> QED BY <1>1, <1>3, <1>5, <1>15, <1>16, <1>17, <1>18, CarriedOn

LEMMA ReadInitializingSound ==
  ASSUME HInv, ~failed, ~failed', UNCHANGED <<start, published, changed>>,
         NEW n \in Declared \cup Computed, ReadInitializing(n)
  PROVE  Sound'
<1>1. /\ In("init") /\ frames # <<>>
      /\ UNCHANGED <<vars, sheet, output_index, input, state, evaluated, dirty, at, updated, told_value, get_stack>>
  BY DEF ReadInitializing, declVars, monVars, cellVars, In, Running
<1>2. PICK v : frames' = Deliver(frames, v)
  BY DEF ReadInitializing
<1>3. PICK fs, A : fs = frames /\ fs \in Seq(FrameOver(A))
  BY Evaluations DEF HInv
<1>4. Base /\ StackInv /\ Framed(frames, accumulate) /\ get_stack \in Seq(Cell \X BOOLEAN)
  BY Evaluations DEF HInv
<1>5. Len(frames) = 1 /\ Now = frames[1] /\ Now.kind = "init"
  BY <1>1, <1>4, InnermostIs DEF In, Roots
<1>6. Len(Deliver(fs, v)) = 1 /\ Deliver(fs, v)[1].kind = "init" /\ Deliver(fs, v)[1].of = fs[1].of
  <2>1. 1 \in 1..Len(fs)
    BY <1>3, <1>5
  <2> QED BY <2>1, <1>1, <1>3, <1>5, DeliverIs
<1>7. PICK g : frames' = <<g>> /\ g.kind = "init" /\ g.of = frames[1].of
  <2>1. PICK B : Deliver(fs, v) \in Seq(FrameOver(B))
    BY <1>1, <1>3, DeliverIs
  <2>2. PICK gs : gs = Deliver(fs, v)
    OBVIOUS
  <2>3. gs \in Seq(FrameOver(B)) /\ Len(gs) = 1
    BY <2>1, <2>2, <1>6
  <2>4. gs = <<gs[1]>>
    BY <2>3
  <2> QED BY <2>2, <2>4, <1>2, <1>3, <1>6
<1>8. ~Named(g) /\ Faithful(g)'
  BY <1>7 DEF Named, Faithful
<1>9. \A i \in 1..Len(frames) : ~Named(frames[i])
  BY <1>5 DEF Named
<1>10. InProgress'
  BY <1>1, <1>4, <1>7, <1>8, <1>9, ProgressSingle DEF HInv, Sound
<1>11. Len(frames') = 1 /\ \A i \in 1..1 : i = 1
  BY <1>7
<1>12. \A i \in 1..Len(frames') :
         \/ frames'[i].kind # "get"
         \/ i \in 1..Len(frames) /\ frames'[i].kind = frames[i].kind /\ frames'[i].of = frames[i].of
  BY <1>7, <1>11
<1>13. frames'[1].of = frames[1].of
  BY <1>7
<1> QED BY <1>1, <1>10, <1>12, <1>13, CarriedOn

LEMMA ReturnTermSound ==
  ASSUME HInv, ~failed, ~failed', UNCHANGED <<start, published, changed>>,
         NEW v \in Value, ReturnTerm(v)
  PROVE  Sound'
<1>1. /\ In("term") /\ Returns(v) /\ frames' = Deliver(Front(frames), v)
      /\ UNCHANGED <<vars, sheet, output_index, input, state, evaluated, dirty, at, updated, told_value, get_stack>>
  BY DEF ReturnTerm, declVars, monVars, cellVars
<1>2. PICK all, fs, m, L : all = frames /\ fs = Front(all) /\ m = Len(all) /\ L = m - 1
  OBVIOUS
<1>3. Base /\ frames # <<>>
  BY <1>1 DEF HInv, In, Running
<1>4. PICK A : all \in Seq(FrameOver(A))
  BY <1>2, <1>3, Evaluations
<1>5. /\ Frames(all) /\ all # <<>> /\ m \in Nat /\ m >= 1 /\ m \in 1..m /\ Now = all[m] /\ all[m].vals \in Seq(Value)
      /\ get_stack \in Seq(Cell \X BOOLEAN) /\ Len(get_stack) \in Nat
  BY <1>2, <1>3, Evaluations
<1>6. all[m].kind = "term" /\ Step(all[m].expr, all[m].vals) = Give(v)
  BY <1>1, <1>5 DEF In, Returns, Does, Give
<1>7. m # 1
  BY <1>5, <1>6 DEF Frames, Roots
<1>8. /\ fs \in Seq(FrameOver(A)) /\ Len(fs) = L /\ L \in Nat /\ L >= 1 /\ L \in 1..L /\ L \in 1..m
      /\ L + 1 = m /\ fs # <<>>
      /\ \A i \in 1..L : fs[i] = all[i] /\ i \in 1..m
  <2>1. fs \in Seq(FrameOver(A)) /\ Len(fs) = m - 1 /\ \A i \in 1..(m - 1) : fs[i] = all[i]
    BY <1>2, <1>4, <1>5, FrontIs
  <2>2. L \in Nat /\ L >= 1 /\ L \in 1..L /\ L \in 1..m /\ L + 1 = m /\ 1..L = 1..(m - 1) /\ \A i \in 1..L : i \in 1..m
    BY <1>2, <1>5, <1>7
  <2>3. fs # <<>>
    BY <2>1, <2>2, <1>2
  <2> QED BY <2>1, <2>2, <2>3, <1>2
<1>9. PICK where : Placed(where, all, get_stack) /\ (Clean => Flagged(where, all, get_stack) /\ Chained(all))
  BY <1>2 DEF HInv, Sound, InProgress
<1>10. PICK at2 : Placed(at2, fs, get_stack) /\ \A j \in 1..Len(get_stack) : at2[j] = where[j]
  <2>1. ~Named(all[Len(all)])
    BY <1>2, <1>6 DEF Named
  <2>2. get_stack = IF Named(all[Len(all)]) THEN Front(get_stack) ELSE get_stack
    BY <2>1
  <2> QED BY <2>2, <1>2, <1>4, <1>5, <1>9, PlacedPop
<1>11. PICK n : n = all[m].of
  OBVIOUS
<1>12. Clean' <=> Clean
  BY <1>1, CleanKept
<1>13. Stable /\ term' = term
  BY <1>1, Still
<1>14. ASSUME Clean
       PROVE  /\ fs[L].vals \in Seq(Value) /\ n \in Declared \cup Evaluable /\ n \in Cell
              /\ Step(fs[L].expr, fs[L].vals) = Read(n) /\ Chained(fs)' /\ Fits(fs[L], n, v)'
              /\ Named(fs[L]) /\ fs[L].of = n
  <2>1. Waits(fs[L], all[m]) /\ Faithful(all[m]) /\ fs[L].vals \in Seq(Value)
    <3>1. L \in 1..(Len(all) - 1)
      BY <1>2, <1>8
    <3>2. Waits(all[L], all[L + 1])
      BY <3>1, <1>9, <1>14 DEF Chained
    <3> QED BY <3>2, <1>2, <1>5, <1>8, <1>9, <1>14 DEF Chained, Frames
  <2>2. /\ Step(fs[L].expr, fs[L].vals) = Read(n) /\ Named(fs[L]) /\ fs[L].of = n
        /\ Unread(fs[L].expr, fs[L].vals, Len(fs[L].vals), n)
    BY <2>1, <1>6, <1>11 DEF Waits
  <2>3. n \in Cell /\ term[n] # NoTerm /\ v \in Derivable(n)
    <3>1. n \in Cell /\ term[n] # NoTerm /\ all[m].expr = TermExpr(n)
      BY <2>1, <1>6, <1>11 DEF Faithful
    <3>2. Follows(all[m].expr, all[m].vals, n, {start[n]})
      BY <2>1, <1>6, <1>11 DEF Faithful
    <3>3. Comes(TermExpr(n), all[m].vals, n, {start[n]}, v)
      BY <3>1, <3>2, <1>6 DEF Comes
    <3> QED BY <3>1, <3>3, <1>5 DEF Derivable
  <2>4. n \in Declared \cup Evaluable
    BY <2>3 DEF Declared
  <2>5. Chained(fs)
    BY <1>2, <1>4, <1>5, <1>9, <1>14, ChainedFront
  <2>6. Chained(fs)'
    BY <2>5, <1>1, <1>13, ChainedStays, ChainedUnevaluated
  <2>7. Fits(fs[L], n, v)
    BY <2>2, <2>3 DEF Fits, Owner, Named, Own
  <2>8. PICK f : f = fs[L]
    OBVIOUS
  <2>9. Fits(f, n, v)'
    BY <2>7, <2>8, <1>13, FitsStays
  <2> QED BY <2>1, <2>2, <2>3, <2>4, <2>6, <2>8, <2>9
<1>15. ASSUME Clean, NEW j \in 1..Len(get_stack'), term'[get_stack'[j][1]] # NoTerm
       PROVE  get_stack'[j][2] <=> OwnBegun(fs, at2[j]) \/ (at2[j] = L /\ fs[at2[j]].of = n)
  <2>1. j \in 1..Len(get_stack) /\ get_stack' = get_stack /\ term[get_stack[j][1]] # NoTerm
    BY <1>1, <1>13, <1>15
  <2>2. get_stack[j][2] <=> OwnBegun(all, where[j])
    BY <2>1, <1>9, <1>15 DEF Flagged
  <2>3. at2[j] = where[j] /\ at2[j] \in 1..Len(fs)
    BY <2>1, <1>10 DEF Placed
  <2>4. 1..Len(fs) = 1..(Len(all) - 1) /\ Len(all) - 1 = L
    BY <1>2, <1>8
  <2>5. OwnBegun(all, at2[j]) <=> OwnBegun(fs, at2[j]) \/ at2[j] = L
    BY <2>3, <2>4, <1>2, <1>4, <1>5, <1>6, BegunFront
  <2> QED BY <2>1, <2>2, <2>3, <2>5, <1>14, <1>15
<1>16. InProgress'
  <2>1. Placed(at2, fs, get_stack') /\ frames' = Deliver(fs, v)
    BY <1>1, <1>2, <1>10
  <2>2. Clean' =>
           /\ fs[Len(fs)].vals \in Seq(Value)
           /\ n \in Declared \cup Evaluable /\ Step(fs[Len(fs)].expr, fs[Len(fs)].vals) = Read(n)
           /\ Chained(fs)' /\ Fits(fs[Len(fs)], n, v)'
           /\ \A j \in 1..Len(get_stack') : term'[get_stack'[j][1]] # NoTerm =>
                (get_stack'[j][2] <=>
                   OwnBegun(fs, at2[j]) \/ (at2[j] = Len(fs) /\ fs[at2[j]].of = n))
    BY <1>8, <1>12, <1>14, <1>15
  <2> QED BY <2>1, <2>2, <1>8, ProgressMore
<1>17. /\ Len(frames') = L
       /\ \A i \in 1..L : frames'[i].kind = fs[i].kind /\ frames'[i].of = fs[i].of
  BY <1>1, <1>2, <1>8, DeliverIs
<1>18. \A i \in 1..Len(frames') :
         i \in 1..Len(frames) /\ frames'[i].kind = frames[i].kind /\ frames'[i].of = frames[i].of
  BY <1>2, <1>8, <1>17
<1>19. frames'[1].of = frames[1].of
  <2>1. 1 \in 1..L
    BY <1>8
  <2> QED BY <2>1, <1>2, <1>8, <1>17
<1> QED BY <1>1, <1>3, <1>16, <1>18, <1>19, CarriedOn

LEMMA ReadCalculatesSound ==
  ASSUME HInv, ~failed, ~failed', UNCHANGED <<start, published, changed>>,
         NEW n \in Declared \cup Computed, ReadCalculates(n)
  PROVE  Sound'
<1>1. /\ Reads(n) /\ ~OnTop(n) /\ n \in (Evaluable \cap Names) \ evaluated /\ ~Attached(n)
      /\ UNCHANGED <<vars, sheet, output_index, input, state, evaluated, dirty, at, updated, told_value>>
      /\ get_stack' = Push(n)
  BY DEF ReadCalculates, declVars, monVars, cellVars
<1>2. PICK f : f = Frame("get", n, sheet.expr[n], accumulate) /\ frames' = Append(frames, f)
  BY DEF ReadCalculates
<1>3. PICK fs, L : fs = frames /\ L = Len(fs)
  OBVIOUS
<1>4. PICK A : fs \in Seq(FrameOver(A))
  BY <1>1, <1>3, InnermostReads
<1>5. /\ fs # <<>> /\ Frames(fs) /\ L \in Nat /\ L >= 1 /\ L \in 1..L /\ fs[L].vals \in Seq(Value)
      /\ get_stack \in Seq(Cell \X BOOLEAN) /\ Len(get_stack) \in Nat
      /\ Step(fs[L].expr, fs[L].vals) = Read(n)
  BY <1>1, <1>3, InnermostReads
<1>6. PICK where : Placed(where, fs, get_stack) /\ (Clean => Flagged(where, fs, get_stack) /\ Chained(fs))
  BY <1>1, <1>3, InnermostReads
<1>7. n \in DOMAIN sheet.expr
  <2>1. sheet \in Sheets
    BY Evaluations DEF HInv
  <2>2. ASSUME NEW i \in DOMAIN sheet.order, n = sheet.order[i] PROVE n \in DOMAIN sheet.expr
    <3>1. n \in Declared
      BY <2>1, <2>2, NamesAre
    <3>2. n \in Cell
      BY <3>1, <1>1, ComputedIs DEF Evaluable
    <3> QED BY <2>1, <2>2, <3>2
  <2> QED BY <2>2, <1>1 DEF Names
<1>8. Clean' <=> Clean
  BY <1>1, CleanKept
<1>9. Stable /\ term' = term
  BY <1>1, Still
<1>10. /\ f.kind = "get" /\ f.of = n /\ f.expr = sheet.expr[n] /\ f.vals = <<>>
       /\ Named(f) <=> n \in Cell
  BY <1>2 DEF Frame, Named
<1>11. ASSUME Clean PROVE Chained(Append(fs, f))'
  <2>1. Chained(fs)'
    BY <1>1, <1>6, <1>9, <1>11, ChainedStays, ChainedUnevaluated
  <2>2. Waits(fs[L], f)
    <3>1. ASSUME Owner(fs[L]) \in Cell, n = Owner(fs[L]) PROVE FALSE
      <4>1. Len(get_stack) >= 1 /\ get_stack[Len(get_stack)][1] = n
        BY <3>1, <1>3, <1>4, <1>5, <1>6, <1>11, OwnerOnTop
      <4> QED BY <4>1, <1>1, <1>5, OnTopIs
    <3> QED BY <3>1, <1>5, <1>10 DEF Waits
  <2>3. Faithful(f)'
    <3>1. Len(f.vals) = 0 /\ 0..(0 - 1) = {}
      BY <1>10
    <3>2. Follows(f.expr, f.vals, f.of, Own(f.of))'
      BY <3>1 DEF Follows
    <3> QED BY <3>2, <1>1, <1>7, <1>10 DEF Faithful
  <2> QED BY <2>1, <2>2, <2>3, <1>3, <1>4, <1>5, ChainedPush
<1>12. get_stack' = IF Named(f) THEN Append(get_stack, <<f.of, FALSE>>) ELSE get_stack
  BY <1>1, <1>10 DEF Push
<1>13. InProgress'
  <2>1. frames' = Append(fs, f)
    BY <1>2, <1>3
  <2>2. Clean' => Flagged(where, frames, get_stack) /\ Chained(Append(fs, f))'
    BY <1>3, <1>6, <1>8, <1>11
  <2> QED BY <2>1, <2>2, <1>3, <1>4, <1>5, <1>6, <1>9, <1>10, <1>12, ProgressPush
<1>14. /\ Len(frames') = L + 1 /\ frames'[L + 1] = f /\ \A i \in 1..L : frames'[i] = frames[i]
  BY <1>2, <1>3, <1>4, <1>5
<1>15. (\A i \in 1..(L + 1) : i \in 1..L \/ i = L + 1) /\ 1 \in 1..L
  BY <1>5
<1>16. ASSUME phase = "conditionals" PROVE Gone(n)
  <2> SUFFICES ASSUME n \in Cell PROVE RelationIndex(n) \subseteq rel_resolved /\ term[n] = NoTerm
    BY DEF Gone
  <2>1. relation_count[n] = Cardinality(RelationIndex(n) \ rel_resolved) /\ term[n] = NoTerm
    BY <1>16 DEF HInv, Sound, Released
  <2>2. relation_count[n] = 0
    BY <1>1 DEF Attached
  <2>3. IsFiniteSet(RelationIndex(n) \ rel_resolved)
    <3>1. TypeOK
      BY Evaluations DEF HInv
    <3>2. IsFiniteSet(Relation) /\ RelationIndex(n) \ rel_resolved \subseteq Relation
      BY <3>1, ClauseType DEF RelationIndex
    <3> QED BY <3>2, FS_Subset
  <2>4. RelationIndex(n) \ rel_resolved = {}
    BY <2>1, <2>2, <2>3, FS_EmptySet
  <2> QED BY <2>1, <2>4
<1>17. phase = "conditionals" => \A i \in 1..Len(frames') : frames'[i].kind = "get" => Gone(frames'[i].of)
  <2> SUFFICES ASSUME phase = "conditionals", NEW i \in 1..(L + 1), frames'[i].kind = "get"
               PROVE  Gone(frames'[i].of)
    BY <1>14
  <2>1. CASE i = L + 1
    BY <2>1, <1>10, <1>14, <1>16
  <2>2. CASE i \in 1..L
    BY <2>2, <1>3, <1>14 DEF HInv, Sound, Released
  <2> QED BY <2>1, <2>2, <1>15
<1>18. phase = "flowed" /\ frames' # <<>> => at \in 1..Len(output_index) /\ frames'[1].of = output_index[at]
  BY <1>3, <1>5, <1>14, <1>15 DEF HInv, Sound, Passing
<1> QED BY <1>1, <1>13, <1>17, <1>18, Carried

(* A cell that has been calculated is right: its expression followed the values of the
   cells it read. *)
LEMMA ReturnGetSound ==
  ASSUME HInv, ~failed, ~failed', UNCHANGED <<start, published, changed>>,
         NEW v \in Value, ReturnGet(v)
  PROVE  Sound'
<1>1. /\ In("get") /\ Returns(v) /\ frames' = Deliver(Front(frames), v) /\ Calculated(Now.of, v)
      /\ UNCHANGED <<vars, sheet, output_index, input, at, updated, told_value>>
  BY DEF ReturnGet, declVars, monVars
<1>2. PICK all, fs, m, L : all = frames /\ fs = Front(all) /\ m = Len(all) /\ L = m - 1
  OBVIOUS
<1>3. Base /\ frames # <<>>
  BY <1>1 DEF HInv, In, Running
<1>4. PICK A : all \in Seq(FrameOver(A))
  BY <1>2, <1>3, Evaluations
<1>5. /\ Frames(all) /\ all # <<>> /\ m \in Nat /\ m >= 1 /\ m \in 1..m /\ Now = all[m] /\ all[m].vals \in Seq(Value)
      /\ get_stack \in Seq(Cell \X BOOLEAN) /\ Len(get_stack) \in Nat /\ sheet \in Sheets /\ CellsTyped /\ InPhase
  BY <1>2, <1>3, Evaluations
<1>6. all[m].kind = "get" /\ Step(all[m].expr, all[m].vals) = Give(v)
  BY <1>1, <1>5 DEF In, Returns, Does, Give
<1>7. m # 1
  BY <1>5, <1>6 DEF Frames, Roots
<1>8. /\ fs \in Seq(FrameOver(A)) /\ Len(fs) = L /\ L \in Nat /\ L >= 1 /\ L \in 1..L /\ L \in 1..m
      /\ L + 1 = m /\ fs # <<>>
      /\ \A i \in 1..L : fs[i] = all[i] /\ i \in 1..m
  <2>1. fs \in Seq(FrameOver(A)) /\ Len(fs) = m - 1 /\ \A i \in 1..(m - 1) : fs[i] = all[i]
    BY <1>2, <1>4, <1>5, FrontIs
  <2>2. L \in Nat /\ L >= 1 /\ L \in 1..L /\ L \in 1..m /\ L + 1 = m /\ 1..L = 1..(m - 1) /\ \A i \in 1..L : i \in 1..m
    BY <1>2, <1>5, <1>7
  <2>3. fs # <<>>
    BY <2>1, <2>2, <1>2
  <2> QED BY <2>1, <2>2, <2>3, <1>2
<1>9. PICK n : n = all[m].of
  OBVIOUS
<1>10. /\ state' = [state EXCEPT ![n] = v] /\ evaluated' = evaluated \cup {n} /\ get_stack' = Pop(n)
       /\ dirty' = IF v # state[n] THEN dirty \cup {n} ELSE dirty \ {n}
       /\ n \in Evaluable
  <2>1. n \in Evaluable
    BY <1>2, <1>5, <1>6, <1>9 DEF Frames
  <2> QED BY <2>1, <1>1, <1>5, <1>9 DEF Calculated
<1>11. state \in [Evaluable -> Value] /\ state'[n] = v /\ \A x \in Evaluable : x # n => state'[x] = state[x]
  <2>1. state \in [Evaluable -> Value]
    BY <1>5 DEF CellsTyped
  <2> QED BY <2>1, <1>10
<1>12. /\ UNCHANGED <<phase, term, relation_count, rel_resolved, relations>>
       /\ (\A c : RelationIndex(c)' = RelationIndex(c)) /\ (\A x : Gone(x) <=> Gone(x)') /\ Indexed' = Indexed
       /\ Indexed \subseteq Evaluable
  <2>1. UNCHANGED <<phase, term, relation_count, rel_resolved, relations, sheet>>
    BY <1>1 DEF vars, flowVars, sheetVars
  <2>2. Indexed \subseteq Evaluable
    BY <1>5, NamesAre
  <2> QED BY <2>1, <2>2 DEF RelationIndex, Relation, Edges, Terms, Gone, Indexed
<1>13. Clean' <=> Clean
  BY <1>1, CleanKept
<1>14. PICK where : Placed(where, all, get_stack) /\ (Clean => Flagged(where, all, get_stack) /\ Chained(all))
  BY <1>2 DEF HInv, Sound, InProgress
<1>15. PICK gs2 : gs2 = get_stack'
  OBVIOUS
<1>16. PICK at2 : /\ Placed(at2, fs, gs2)
                  /\ \A j \in 1..Len(gs2) : j \in 1..Len(get_stack) /\ at2[j] = where[j] /\ gs2[j] = get_stack[j]
  <2>1. gs2 = IF Named(all[Len(all)]) THEN Front(get_stack) ELSE get_stack
    BY <1>2, <1>6, <1>9, <1>10, <1>15 DEF Pop, Named
  <2>2. fs = Front(all)
    BY <1>2
  <2> QED BY <2>1, <2>2, <1>4, <1>5, <1>14, PlacedPop
<1>17. ASSUME Clean
       PROVE  /\ n \in DOMAIN sheet.expr \ evaluated /\ all[m].expr = sheet.expr[n]
              /\ Follows(all[m].expr, all[m].vals, n, Own(n))
  <2>1. Faithful(all[m])
    BY <1>2, <1>5, <1>14, <1>17 DEF Chained
  <2> QED BY <2>1, <1>6, <1>9 DEF Faithful
<1>18. ASSUME Clean PROVE Stable
  <2>1. n \notin Known
    BY <1>10, <1>17, <1>18 DEF Known
  <2>2. ASSUME NEW x \in Known PROVE x \in Known' /\ Seen(x)' = Seen(x)
    <3>1. x \in Known'
      BY <2>2, <1>10 DEF Known
    <3>2. x # n
      BY <2>1, <2>2
    <3> QED BY <3>1, <3>2, <1>1, <1>11 DEF Seen
  <2> QED BY <2>2, <1>1 DEF Stable
<1>19. ASSUME Clean
       PROVE  /\ fs[L].vals \in Seq(Value) /\ Step(fs[L].expr, fs[L].vals) = Read(n)
              /\ Chained(fs)' /\ Fits(fs[L], n, v)' /\ ~(Owner(fs[L]) = n /\ n \in Cell)
  <2>1. Waits(fs[L], all[m]) /\ fs[L].vals \in Seq(Value)
    <3>1. L \in 1..(Len(all) - 1)
      BY <1>2, <1>8
    <3>2. Waits(all[L], all[L + 1])
      BY <3>1, <1>14, <1>19 DEF Chained
    <3> QED BY <3>2, <1>2, <1>5, <1>8 DEF Frames
  <2>2. Step(fs[L].expr, fs[L].vals) = Read(n) /\ ~(Owner(fs[L]) = n /\ n \in Cell)
    BY <2>1, <1>6, <1>9 DEF Waits
  <2>3. Chained(fs)
    BY <1>2, <1>4, <1>5, <1>14, <1>19, ChainedFront
  <2>4. \A i \in 1..Len(fs) : fs[i].kind \in {"get", "output"} => fs[i].of \notin evaluated'
    <3> SUFFICES ASSUME NEW i \in 1..L, fs[i].kind \in {"get", "output"} PROVE fs[i].of \notin evaluated'
      BY <1>8
    <3>1. i \in 1..(Len(all) - 1) /\ all[i] = fs[i]
      BY <1>2, <1>8
    <3>2. \A k \in 1..Len(all) : all[k].vals \in Seq(Value) /\ (all[k].kind = "get" => all[k].of \in Evaluable)
      BY <1>5 DEF Frames
    <3>3. \A k \in 2..Len(all) : all[k].kind \in {"get", "term"}
      BY <1>5 DEF Frames
    <3>4. all[i].of # all[Len(all)].of
      BY <3>1, <3>2, <3>3, <1>2, <1>4, <1>5, <1>6, <1>14, <1>19, NotTwice
    <3>5. fs[i].of \notin evaluated
      BY <2>3, <1>8, ChainedUnevaluated
    <3> QED BY <3>1, <3>4, <3>5, <1>2, <1>9, <1>10
  <2>5. Chained(fs)'
    BY <2>3, <2>4, <1>12, <1>18, <1>19, ChainedStays
  <2>6. n \in Known' /\ v = Seen(n)'
    BY <1>10, <1>11 DEF Known, Seen
  <2>7. PICK f : f = fs[L]
    OBVIOUS
  <2>8. Fits(f, n, v)'
    BY <2>2, <2>6, <2>7 DEF Fits
  <2> QED BY <2>1, <2>2, <2>5, <2>7, <2>8
<1>20. ASSUME Clean, NEW j \in 1..Len(gs2), term'[gs2[j][1]] # NoTerm
       PROVE  gs2[j][2] <=> OwnBegun(fs, at2[j]) \/ (at2[j] = L /\ fs[at2[j]].of = n)
  <2>1. j \in 1..Len(get_stack) /\ gs2[j] = get_stack[j] /\ at2[j] = where[j] /\ term[get_stack[j][1]] # NoTerm
    BY <1>12, <1>16, <1>20
  <2>2. get_stack[j][2] <=> OwnBegun(all, where[j])
    BY <2>1, <1>14, <1>20 DEF Flagged
  <2>3. at2[j] \in 1..Len(fs) /\ Named(fs[at2[j]])
    BY <1>16, <1>20 DEF Placed
  <2>4. 1..Len(fs) = 1..(Len(all) - 1) /\ Len(all) - 1 = L
    BY <1>2, <1>8
  <2>5. OwnBegun(all, at2[j]) <=> OwnBegun(fs, at2[j])
    BY <2>3, <2>4, <1>2, <1>4, <1>5, <1>6, BegunFront
  <2>6. ~(at2[j] = L /\ fs[at2[j]].of = n)
    BY <2>3, <1>19, <1>20 DEF Named, Owner
  <2> QED BY <2>1, <2>2, <2>5, <2>6
<1>21. InProgress'
  <2>1. Placed(at2, fs, get_stack') /\ frames' = Deliver(fs, v)
    BY <1>1, <1>2, <1>15, <1>16
  <2>2. Clean' =>
           /\ fs[Len(fs)].vals \in Seq(Value)
           /\ n \in Declared \cup Evaluable /\ Step(fs[Len(fs)].expr, fs[Len(fs)].vals) = Read(n)
           /\ Chained(fs)' /\ Fits(fs[Len(fs)], n, v)'
           /\ \A j \in 1..Len(get_stack') : term'[get_stack'[j][1]] # NoTerm =>
                (get_stack'[j][2] <=>
                   OwnBegun(fs, at2[j]) \/ (at2[j] = Len(fs) /\ fs[at2[j]].of = n))
    BY <1>8, <1>10, <1>13, <1>15, <1>19, <1>20
  <2> QED BY <2>1, <2>2, <1>8, ProgressMore
<1>22. /\ Len(frames') = L
       /\ \A i \in 1..L : frames'[i].kind = all[i].kind /\ frames'[i].of = all[i].of
  <2>1. PICK d : d = frames'
    OBVIOUS
  <2>2. d = Deliver(fs, v)
    BY <2>1, <1>1, <1>2
  <2>3. Len(d) = Len(fs) /\ \A i \in 1..Len(fs) : d[i].kind = fs[i].kind /\ d[i].of = fs[i].of
    BY <2>2, <1>8, DeliverIs
  <2> QED BY <2>1, <2>3, <1>8
<1>23. AllCorrect'
  <2> SUFFICES ASSUME Clean', phase' # "idle" \/ changed' = {}, NEW x \in evaluated'
               PROVE  x \in DOMAIN sheet'.expr /\ Correct(x)'
    BY DEF AllCorrect
  <2>1. Clean /\ (phase # "idle" \/ changed = {})
    BY <1>12, <1>13
  <2>2. CASE x = n
    <3>1. PICK e, w : e = all[m].expr /\ w = all[m].vals
      OBVIOUS
    <3>2. Follows(e, w, n, Own(n))'
      BY <2>1, <3>1, <1>12, <1>17, <1>18, OwnFollowsStays
    <3>3. Comes(sheet.expr[n], w, n, Own(n), state[n])'
      BY <2>1, <3>1, <3>2, <1>1, <1>6, <1>11, <1>17 DEF Comes, Follows
    <3>4. Correct(n)'
      BY <3>1, <3>3, <1>5 DEF Correct
    <3> QED BY <2>1, <2>2, <3>4, <1>1, <1>17
  <2>3. CASE x # n
    <3>1. x \in evaluated
      BY <2>3, <1>10
    <3>2. x \in DOMAIN sheet.expr /\ Correct(x) /\ x \in Evaluable
      BY <2>1, <3>1, <1>5 DEF HInv, Sound, AllCorrect, CellsTyped
    <3> QED BY <2>1, <2>3, <3>2, <1>1, <1>11, <1>12, <1>18, CorrectStays
  <2> QED BY <2>2, <2>3
<1>24. AllSeen'
  <2> SUFFICES ASSUME phase = "idle", published # Nothing
               PROVE  Indexed \subseteq evaluated' /\ \A x \in Indexed : published.state[x] = state'[x]
    BY <1>12 DEF AllSeen
  <2>1. Clean /\ Indexed \subseteq evaluated /\ \A x \in Indexed : published.state[x] = state[x]
    BY DEF HInv, Sound, AllSeen, Clean
  <2> QED BY <2>1, <1>10, <1>11, <1>12, <1>17
<1>25. Passing'
  <2>1. 1 \in 1..L
    BY <1>8
  <2>2. frames'[1].of = frames[1].of
    BY <2>1, <1>2, <1>22
  <2> QED BY <2>2, <1>1, <1>3, <1>10, <1>12 DEF HInv, Sound, Passing
<1>26. InputsKept'
  BY <1>1, <1>10, <1>12 DEF HInv, Sound, InputsKept
<1>27. Told'
  <2>1. /\ \A x \in Indexed : told_value[x] \in {Unmonitored, state[x]} \/ (updated /\ phase # "idle" /\ x \in dirty)
        /\ dirty \subseteq evaluated
        /\ updated \/ \A x \in Indexed : told_value[x] = Unmonitored
        /\ phase # "idle" => updated
        /\ phase = "idle" /\ published = Nothing => ~updated \/ Indexed = {}
    BY DEF HInv, Sound, Told
  <2>2. dirty' \subseteq evaluated'
    BY <2>1, <1>10
  <2>3. ASSUME NEW x \in Indexed
        PROVE  told_value[x] \in {Unmonitored, state'[x]} \/ (updated /\ phase # "idle" /\ x \in dirty')
    <3>1. CASE x # n
      BY <2>1, <3>1, <1>10, <1>11, <1>12
    <3>2. CASE x = n /\ phase # "idle"
      <4>1. n \notin dirty
        <5>1. Clean
          BY <3>2 DEF Clean
        <5> QED BY <5>1, <2>1, <1>17
      <4> QED BY <2>1, <3>2, <4>1, <1>10, <1>11
    <3>3. CASE x = n /\ phase = "idle" /\ published # Nothing
      <4>1. Clean
        BY <3>3 DEF Clean
      <4> QED BY <3>3, <4>1, <1>17 DEF HInv, Sound, AllSeen
    <3>4. CASE x = n /\ phase = "idle" /\ published = Nothing
      BY <2>1, <3>4
    <3> QED BY <3>1, <3>2, <3>3, <3>4
  <2> QED BY <2>1, <2>2, <2>3, <1>1, <1>12 DEF Told
<1>28. Released'
  <2>1. /\ phase = "conditionals" =>
             /\ \A c \in Cell : relation_count[c] = Cardinality(RelationIndex(c) \ rel_resolved) /\ term[c] = NoTerm
             /\ \A i \in 1..Len(frames) : frames[i].kind = "get" => Gone(frames[i].of)
        /\ phase \in {"conditionals", "flow", "pop", "visit"} => \A x \in evaluated : Gone(x)
    BY DEF HInv, Sound, Released
  <2>2. phase \in {"conditionals", "flow", "pop", "visit"} => phase = "conditionals"
    BY <1>3, <1>5 DEF InPhase
  <2>3. phase = "conditionals" => Gone(n)
    BY <2>1, <1>2, <1>5, <1>6, <1>9
  <2>4. phase = "conditionals" => \A i \in 1..L : frames'[i].kind = "get" => Gone(frames'[i].of)
    BY <2>1, <1>2, <1>8, <1>22
  <2>5. PICK gs : gs = frames'
    OBVIOUS
  <2>6. phase = "conditionals" => \A i \in 1..Len(gs) : gs[i].kind = "get" => Gone(gs[i].of)'
    BY <2>4, <2>5, <1>12, <1>22
  <2>7. phase \in {"conditionals", "flow", "pop", "visit"} => \A x \in evaluated' : Gone(x)'
    BY <2>1, <2>2, <2>3, <1>10, <1>12
  <2> QED BY <2>1, <2>5, <2>6, <2>7, <1>12 DEF Released
<1> QED BY <1>21, <1>23, <1>24, <1>25, <1>26, <1>27, <1>28 DEF Sound

(* An exception that is no update's takes off every name: nothing is left behind. *)
LEMMA ThrowSound ==
  ASSUME HInv, ~failed, ~failed', UNCHANGED <<start, published, changed>>,
         Throw, frames[1].kind \notin {"when", "output"}
  PROVE  Sound'
<1>1. /\ frames # <<>> /\ frames' = <<>> /\ get_stack' = SubSeq(get_stack, 1, Len(get_stack) - Unwound)
      /\ UNCHANGED <<vars, sheet, output_index, input, state, evaluated, dirty, at, updated, told_value>>
  BY DEF Throw, Throws, Running, declVars, monVars, cellVars
<1>2. PICK fs, gs, l : fs = frames /\ gs = get_stack /\ l = Len(get_stack)
  OBVIOUS
<1>3. /\ Frames(fs) /\ gs \in Seq(Cell \X BOOLEAN) /\ l \in Nat /\ Len(fs) \in Nat /\ Len(fs) >= 1
      /\ \E A : fs \in Seq(FrameOver(A))
  BY <1>1, <1>2, Evaluations DEF HInv
<1>4. PICK where : Placed(where, fs, gs)
  BY <1>2 DEF HInv, Sound, InProgress
<1>5. PICK S : S = {i \in DOMAIN frames : frames[i].kind = "get" /\ frames[i].of \in Cell}
  OBVIOUS
<1>6. DOMAIN fs = 1..Len(fs)
  BY <1>3
<1>7. \A i \in 1..Len(fs) : Named(fs[i]) <=> i \in S
  <2>1. \A i \in 1..Len(fs) : i = 1 \/ i \in 2..Len(fs)
    BY <1>3
  <2> QED BY <2>1, <1>1, <1>2, <1>3, <1>5, <1>6 DEF Frames, Named
<1>8. \A j \in 1..l : where[j] \in 1..Len(fs) /\ where[j] \in S
  BY <1>2, <1>4, <1>7 DEF Placed
<1>9. \A j, k \in 1..l : where[j] = where[k] => j = k
  <2> SUFFICES ASSUME NEW j \in 1..l, NEW k \in 1..l, where[j] = where[k], j # k PROVE FALSE
    OBVIOUS
  <2>1. j < k \/ k < j
    OBVIOUS
  <2>2. where[j] < where[k] \/ where[k] < where[j]
    BY <2>1, <1>2, <1>4 DEF Placed
  <2>3. where[j] \in Int
    BY <1>8
  <2> QED BY <2>2, <2>3
<1>10. \A i \in S : \E j \in 1..l : where[j] = i
  BY <1>2, <1>4, <1>5, <1>6, <1>7 DEF Placed
<1>11. where \in Bijection(1..l, S)
  <2>1. where \in [1..l -> S]
    BY <1>2, <1>4, <1>8 DEF Placed
  <2> QED BY <2>1, <1>9, <1>10 DEF Bijection, Injection, Surjection, IsInjective
<1>12. Cardinality(S) = l
  <2>1. IsFiniteSet(1..l) /\ Cardinality(1..l) = l
    <3>1. l \in Nat /\ 1 \in Int /\ l \in Int
      BY <1>3
    <3>2. 1..l = 1..(l + 1 - 1) /\ l = IF 1 > l THEN 0 ELSE l - 1 + 1
      BY <3>1
    <3>3. IsFiniteSet(1..l) /\ Cardinality(1..l) = IF 1 > l THEN 0 ELSE l - 1 + 1
      BY <3>1, FS_Interval, Zenon
    <3> QED BY <3>2, <3>3, Zenon
  <2>2. ExistsBijection(1..l, S)
    BY <1>11 DEF ExistsBijection
  <2> QED BY <2>1, <2>2, FS_Bijection
<1>13. get_stack' = <<>>
  <2>1. Unwound = l
    BY <1>5, <1>12 DEF Unwound
  <2>2. get_stack' = SubSeq(gs, 1, 0)
    BY <2>1, <1>1, <1>2, <1>3
  <2>3. 0 \in 0..Len(gs)
    BY <1>3
  <2>4. SubSeq(gs, 1, 0) = <<>>
    BY <1>3
  <2> QED BY <2>2, <2>4
<1>14. InProgress'
  BY <1>1, <1>13, ProgressNone
<1>15. 1..Len(frames') = {}
  BY <1>1
<1> QED BY <1>1, <1>14, <1>15, Carried

LEMMA EvaluateSound ==
  ASSUME HInv, ~failed', HEvaluate
  PROVE  Sound'
<1>1. ~failed /\ UNCHANGED <<start, published, changed>>
  BY EvaluateQuietly
<1>2. Throw => frames[1].kind \notin {"when", "output"}
  BY DEF HEvaluate, Throw
<1> QED BY <1>1, <1>2, ReadInitializingSound, ReadTermSound, ReadInputSound, ReadCachedSound,
           ReadCalculatesSound, ReturnGetSound, ReturnTermSound, ThrowSound DEF HEvaluate, Evaluate

-----------------------------------------------------------------------------
(* The steps of update. *)
LEMMA UpdatingQuietly ==
  ASSUME HUpdating, ~Notify, ~failed'
  PROVE  ~failed /\ UNCHANGED <<start, published, changed>> /\ ~(phase = "flowed" /\ phase' = "idle")
BY DEF HUpdating

(* output_index holds every cell that update calculates. *)
LEMMA IndexHits ==
  ASSUME sheet \in Sheets, output_index \in Listings(Indexed)
  PROVE  /\ Len(output_index) \in Nat /\ \A i \in 1..Len(output_index) : output_index[i] \in Indexed
         /\ \A n \in Indexed : \E i \in 1..Len(output_index) : output_index[i] = n
<1>1. IsFiniteSet(Indexed)
  <2>1. Indexed \subseteq Declared \cup Computed
    BY NamesAre DEF Evaluable, Declared
  <2> QED BY <2>1, FS_Subset
<1>2. PICK k : k = Cardinality(Indexed)
  OBVIOUS
<1>3. k \in Nat
  BY <1>1, <1>2, FS_CardinalityType
<1>4. output_index \in [1..k -> Indexed] /\ \A i, j \in DOMAIN output_index : output_index[i] = output_index[j] => i = j
  BY <1>2 DEF Listings
<1>5. IsFiniteSet(1..k) /\ Cardinality(1..k) = k
  BY <1>3, FS_Interval
<1>6. output_index \in Injection(1..k, Indexed)
  BY <1>4 DEF Injection, IsInjective
<1>7. output_index \in Surjection(1..k, Indexed)
  BY <1>1, <1>2, <1>5, <1>6, FS_Injection
<1>8. Len(output_index) = k
  BY <1>3, <1>4
<1> QED BY <1>3, <1>4, <1>7, <1>8 DEF Surjection

(* What is right of a cell that is only calculated does not depend on terms. *)
LEMMA ComputedCorrectStays ==
  ASSUME Stable, NEW n, n \notin Cell, state'[n] = state[n], Correct(n)
  PROVE  Correct(n)'
<1>1. PICK w \in Seq(Value) : Comes(sheet.expr[n], w, n, Own(n), state[n])
  BY DEF Correct
<1>2. PICK e, own : e = sheet.expr[n] /\ own = Own(n)
  OBVIOUS
<1>3. Follows(e, w, n, own) /\ Step(e, w) = Give(state[n])
  BY <1>1, <1>2 DEF Comes
<1>4. Follows(e, w, n, own)'
  BY <1>3, FollowsStays
<1>5. PICK own2 : own2 = Own(n)'
  OBVIOUS
<1>6. Follows(e, w, n, own2)'
  BY <1>4 DEF Follows
<1>7. sheet'.expr[n] = e
  BY <1>2 DEF Stable
<1>8. Comes(sheet.expr[n], w, n, Own(n), state[n])'
  BY <1>3, <1>5, <1>6, <1>7 DEF Comes, Follows
<1> QED BY <1>8 DEF Correct

(* Between evaluations update changes no value. *)
LEMMA Between ==
  ASSUME HInv, ~failed, phase # "idle", phase' # "idle",
         \A i \in 1..Len(frames) : ~Named(frames[i]), frames' = <<>>, get_stack' = get_stack,
         UNCHANGED <<sheet, state, evaluated, dirty, updated, told_value, start, input>>,
         \A n \in evaluated \cap Cell : term'[n] = term[n],
         Passing', Released'
  PROVE  Sound'
<1>1. get_stack = <<>>
  <2>1. get_stack \in Seq(Cell \X BOOLEAN)
    BY Evaluations DEF HInv
  <2> QED BY <2>1, PlacedNone DEF HInv, Sound, InProgress
<1>2. InProgress'
  BY <1>1, ProgressNone
<1>3. Stable /\ Clean
  BY DEF Stable, Known, Seen, Clean
<1>4. AllCorrect'
  <2> SUFFICES ASSUME NEW n \in evaluated PROVE n \in DOMAIN sheet'.expr /\ Correct(n)'
    BY DEF AllCorrect
  <2>1. n \in DOMAIN sheet.expr /\ Correct(n)
    BY <1>3 DEF HInv, Sound, AllCorrect
  <2> QED BY <2>1, <1>3, CorrectStays, ComputedCorrectStays
<1>5. AllSeen' /\ InputsKept' /\ Told'
  <2>1. Indexed' = Indexed
    BY DEF Indexed
  <2> QED BY <2>1 DEF HInv, Sound, AllSeen, InputsKept, Told
<1> QED BY <1>2, <1>4, <1>5 DEF Sound

LEMMA BeginConditionalSound ==
  ASSUME HInv, ~failed, ~failed', UNCHANGED <<start, published, changed>>,
         NEW r \in Relation, BeginConditional(r)
  PROVE  Sound'
<1>1. /\ phase = "conditionals" /\ frames = <<>>
      /\ UNCHANGED <<vars, sheet, output_index, input, state, evaluated, dirty, at, updated, told_value, get_stack>>
  BY DEF BeginConditional, SolvesNext, Running, declVars, monVars, cellVars
<1>2. PICK f : f = Frame("when", r, sheet.relations[r].when, {}) /\ frames' = <<f>>
  BY DEF BeginConditional
<1>3. f.kind = "when" /\ f.vals = <<>>
  BY <1>2 DEF Frame
<1>4. InProgress'
  BY <1>1, <1>2, <1>3, Evaluations, ProgressRoot DEF HInv, Sound
<1>5. Len(frames') = 1 /\ \A i \in 1..Len(frames') : frames'[i] = f
  BY <1>2
<1> QED BY <1>1, <1>3, <1>4, <1>5, Carried

LEMMA EndConditionalSound ==
  ASSUME HInv, ~failed, UNCHANGED start,
         NEW v \in Value, EndConditional(v)
  PROVE  Sound'
<1> USE DEF vars, sheetVars, prioVars, flowVars, loopVars
<1>1. /\ In("when") /\ frames' = <<>>
      /\ UNCHANGED <<sheet, output_index, input, state, evaluated, dirty, at, updated, told_value, get_stack>>
  BY DEF EndConditional, declVars, monVars, cellVars
<1>2. PICK r : r = Now.of
  OBVIOUS
<1>3. SolvesNext(r) /\ (ConditionalHolds(r) \/ ConditionalFails(r))
  BY <1>2 DEF EndConditional, ConditionalHolds, ConditionalFails
<1>4. r \in Relation /\ phase = "conditionals" /\ phase' = "conditionals" /\ UNCHANGED <<relations, term>>
  BY <1>3 DEF SolvesNext, Unsolved, ConditionalHolds, ConditionalFails
<1>5. \A i \in 1..Len(frames) : ~Named(frames[i])
  <2>1. StackInv /\ Framed(frames, accumulate) /\ frames # <<>> /\ Now.kind = "when"
    BY <1>1, Evaluations DEF HInv, In, Running
  <2>2. Len(frames) = 1 /\ Now = frames[1]
    BY <2>1, InnermostIs DEF Roots
  <2> QED BY <2>1, <2>2 DEF Named
<1>6. rel_resolved \subseteq rel_resolved'
  BY <1>3 DEF ConditionalHolds, ConditionalFails
<1>7. \A c : RelationIndex(c)' = RelationIndex(c)
  BY <1>4 DEF RelationIndex, Relation, Edges, Terms
<1>8. /\ \A c \in Cell : relation_count[c] = Cardinality(RelationIndex(c) \ rel_resolved) /\ term[c] = NoTerm
      /\ \A n \in evaluated : Gone(n)
  BY <1>4 DEF HInv, Sound, Released
<1>9. \A c \in Cell : relation_count'[c] = Cardinality(RelationIndex(c)' \ rel_resolved')
  <2>1. CASE ConditionalHolds(r)
    <3>1. UNCHANGED <<relation_count, rel_resolved>>
      BY <2>1 DEF ConditionalHolds
    <3> QED BY <3>1, <1>7, <1>8
  <2>2. CASE ConditionalFails(r)
    <3>1. Steady /\ cell = NoCell /\ resolved = {} /\ NoCell \notin Cell
      BY <1>4, CellAssumption DEF HInv, Base, Steady, CellRead, CountStart
    <3>2. Counted
      BY <3>1, <1>8 DEF Counted, Held
    <3>3. Counted'
      BY <3>1, <3>2, <1>4, <2>2, Failing
    <3>4. cell' = NoCell /\ resolved' = {}
      BY <3>1, <2>2 DEF ConditionalFails
    <3>5. \A c \in Cell : Held(c)' = Cardinality(RelationIndex(c)' \ rel_resolved')
      BY <3>1, <3>4 DEF Held
    <3> QED BY <3>3, <3>5 DEF Counted
  <2> QED BY <2>1, <2>2, <1>3
<1>10. Released'
  <2>1. \A n \in evaluated' : Gone(n)'
    BY <1>1, <1>4, <1>6, <1>7, <1>8 DEF Gone
  <2>2. 1..Len(frames') = {}
    BY <1>1
  <2>3. \A c \in Cell : term'[c] = NoTerm
    BY <1>4, <1>8
  <2> QED BY <2>1, <2>2, <2>3, <1>4, <1>9 DEF Released
<1>11. Passing'
  BY <1>4 DEF Passing
<1> QED BY <1>1, <1>4, <1>5, <1>10, <1>11, Between

LEMMA ConditionalsSolvedSound ==
  ASSUME HInv, ~failed, UNCHANGED start, ConditionalsSolved
  PROVE  Sound'
<1> USE DEF vars, sheetVars, prioVars, flowVars, loopVars
<1>1. /\ phase = "conditionals" /\ phase' = "flow" /\ UNCHANGED <<relations, term, rel_resolved>>
      /\ frames = <<>> /\ frames' = <<>>
      /\ UNCHANGED <<sheet, output_index, input, state, evaluated, dirty, at, updated, told_value, get_stack>>
  BY DEF ConditionalsSolved, EndConditionals, Running, declVars, monVars, cellVars
<1>2. \A c : RelationIndex(c)' = RelationIndex(c)
  BY <1>1 DEF RelationIndex, Relation, Edges, Terms
<1>3. \A n \in evaluated' : Gone(n)'
  BY <1>1, <1>2 DEF Gone, HInv, Sound, Released
<1>4. Released' /\ Passing'
  BY <1>1, <1>3 DEF Released, Passing
<1>5. 1..Len(frames) = {}
  BY <1>1
<1> QED BY <1>1, <1>4, <1>5, Between

LEMMA FlowStepSound ==
  ASSUME HInv, ~failed, UNCHANGED start, FlowStep
  PROVE  Sound'
<1> USE DEF vars, sheetVars, prioVars, flowVars, loopVars
<1>1. /\ Flow /\ at' = 1
      /\ UNCHANGED <<sheet, output_index, input, state, evaluated, dirty, updated, told_value, get_stack, frames>>
  BY DEF FlowStep, declVars, monVars, cellVars, evalVars
<1>2. phase \in {"flow", "pop", "visit"} /\ phase' \in {"pop", "visit", "flowed"} /\ UNCHANGED relations
      /\ rel_resolved \subseteq rel_resolved'
  BY <1>1 DEF Flow, BeginFlow, SkipCell, PopCell, PassRelation, ApplyRelation, VisitsNext, EndCell, EndFlow
<1>3. frames = <<>>
  BY <1>2, Evaluations DEF HInv, InPhase
<1>4. \A n \in evaluated : Gone(n)
  BY <1>2 DEF HInv, Sound, Released
<1>5. \A n \in evaluated \cap Cell : term'[n] = term[n]
  <2>1. ASSUME NEW r \in Relation, ApplyRelation(r), NEW n \in evaluated \cap Cell PROVE term'[n] = term[n]
    <3>1. PICK t \in OpenTerms(r) : term' = [c \in Cell |-> IF c \in t THEN <<r, t>> ELSE term[c]]
      BY <2>1 DEF ApplyRelation
    <3>2. r \notin rel_resolved /\ t \in Terms(r)
      BY <2>1, <3>1 DEF ApplyRelation, VisitsNext, ToVisit, OpenTerms
    <3>3. n \notin t
      <4>1. n \in t => r \in RelationIndex(n)
        BY <3>2 DEF RelationIndex, Edges
      <4> QED BY <4>1, <3>2, <1>4, <2>1 DEF Gone
    <3> QED BY <3>1, <3>3, <2>1
  <2>2. ASSUME BeginFlow \/ SkipCell \/ PopCell \/ EndCell \/ EndFlow \/ \E r \in Relation : PassRelation(r)
        PROVE  term' = term
    BY <2>2 DEF BeginFlow, SkipCell, PopCell, PassRelation, EndCell, EndFlow
  <2> QED BY <2>1, <2>2, <1>1 DEF Flow
<1>6. \A c : RelationIndex(c)' = RelationIndex(c)
  BY <1>2 DEF RelationIndex, Relation, Edges, Terms
<1>7. \A n \in evaluated' : Gone(n)'
  BY <1>1, <1>2, <1>4, <1>5, <1>6 DEF Gone
<1>8. Released'
  BY <1>2, <1>7 DEF Released
<1>9. Passing'
  <2>1. PICK k : k = Len(output_index)
    OBVIOUS
  <2>2. k \in Nat
    BY <2>1, IndexHits, Evaluations DEF HInv, Base
  <2>3. 1 \in 1..(k + 1) /\ \A i \in 1..k : ~(i < 1)
    BY <2>2
  <2> QED BY <2>1, <2>3, <1>1, <1>3 DEF Passing
<1>10. 1..Len(frames) = {}
  BY <1>3
<1>11. phase # "idle" /\ phase' # "idle" /\ frames' = <<>>
  BY <1>1, <1>2, <1>3
<1> QED BY <1>1, <1>5, <1>8, <1>9, <1>10, <1>11, Between

LEMMA BeginCalculateSound ==
  ASSUME HInv, ~failed, ~failed', UNCHANGED <<start, published, changed>>,
         NEW n \in Indexed, BeginCalculate(n)
  PROVE  Sound'
<1>1. /\ phase = "flowed" /\ frames = <<>> /\ at <= Len(output_index) /\ n = output_index[at] /\ n \notin evaluated
      /\ UNCHANGED <<vars, sheet, output_index, input, state, evaluated, dirty, at, updated, told_value>>
      /\ get_stack' = Push(n)
  BY DEF BeginCalculate, Visiting, Running, declVars, monVars, cellVars
<1>2. PICK f : f = Frame("output", n, sheet.expr[n], {}) /\ frames' = <<f>>
  BY DEF BeginCalculate
<1>3. f.kind = "output" /\ f.of = n /\ f.expr = sheet.expr[n] /\ f.vals = <<>> /\ (Named(f) <=> n \in Cell)
  BY <1>2 DEF Frame, Named
<1>4. PICK fs, A : fs = frames /\ fs \in Seq(FrameOver(A))
  BY Evaluations DEF HInv
<1>5. get_stack \in Seq(Cell \X BOOLEAN) /\ Append(fs, f) = <<f>>
  <2>1. fs = <<>>
    BY <1>1, <1>4
  <2> QED BY <2>1, Evaluations DEF HInv
<1>6. PICK where : Placed(where, frames, get_stack) /\ (Clean => Flagged(where, frames, get_stack))
  BY DEF HInv, Sound, InProgress
<1>7. Clean' <=> Clean
  BY <1>1, CleanKept
<1>8. Faithful(f)'
  <2>1. Len(f.vals) = 0 /\ 0..(0 - 1) = {}
    BY <1>3
  <2>2. Follows(f.expr, f.vals, f.of, Own(f.of))'
    BY <2>1 DEF Follows
  <2>3. n \in DOMAIN sheet.expr
    BY DEF Indexed
  <2> QED BY <2>2, <2>3, <1>1, <1>3 DEF Faithful
<1>9. Chained(Append(fs, f))'
  <2>1. PICK gs : gs = <<f>>
    OBVIOUS
  <2>2. Chained(gs)'
    BY <2>1, <1>8, ChainedRoot
  <2>3. Append(fs, f) = gs
    BY <2>1, <1>5
  <2> QED BY <2>2, <2>3
<1>10. InProgress'
  <2>1. get_stack' = IF Named(f) THEN Append(get_stack, <<f.of, FALSE>>) ELSE get_stack
    BY <1>1, <1>3 DEF Push
  <2>2. frames' = Append(fs, f) /\ term' = term /\ f.kind # "term"
    BY <1>1, <1>2, <1>3, <1>5 DEF vars, flowVars
  <2>3. Clean' => Flagged(where, frames, get_stack) /\ Chained(Append(fs, f))'
    BY <1>6, <1>7, <1>9
  <2> QED BY <2>1, <2>2, <2>3, <1>3, <1>4, <1>5, <1>6, ProgressPush
<1>11. Len(frames') = 1 /\ frames'[1] = f /\ \A i \in 1..Len(frames') : frames'[i] = f
  BY <1>2
<1>12. at \in 1..Len(output_index)
  <2>1. PICK k : k = Len(output_index)
    OBVIOUS
  <2>2. k \in Nat
    BY <2>1, IndexHits, Evaluations DEF HInv, Base
  <2>3. at \in 1..(k + 1) /\ at <= k
    BY <2>1, <1>1 DEF HInv, Sound, Passing
  <2>4. at \in 1..k
    BY <2>2, <2>3
  <2> QED BY <2>1, <2>4
<1> QED BY <1>1, <1>3, <1>10, <1>11, <1>12, Carried

LEMMA ApplyEvaluatedSound ==
  ASSUME HInv, ~failed, ~failed', UNCHANGED <<start, published, changed>>,
         NEW n \in Indexed, ApplyEvaluated(n)
  PROVE  Sound'
<1>1. /\ phase = "flowed" /\ frames = <<>> /\ at <= Len(output_index) /\ n = output_index[at] /\ n \in evaluated
      /\ at' = at + 1 /\ input' = AppliedBack(n, state[n])
      /\ UNCHANGED <<vars, sheet, output_index, state, evaluated, dirty, updated, told_value, get_stack, frames>>
  BY DEF ApplyEvaluated, Visiting, Running, declVars, monVars, evalVars
<1>2. UNCHANGED <<phase, term, linked>> /\ Clean /\ Base /\ CellsTyped /\ linked \subseteq Cell
      /\ get_stack \in Seq(Cell \X BOOLEAN)
  BY <1>1, Evaluations DEF vars, sheetVars, flowVars, Clean, HInv, TypeOK
<1>3. \A x : x # n \/ x \notin Cell => input'[x] = input[x]
  BY <1>1, <1>2 DEF AppliedBack, CellsTyped
<1>4. Stable
  BY <1>1, <1>3, ComputedIs DEF Stable, Known, Seen
<1>5. 1..Len(frames) = {}
  BY <1>1
<1>6. InProgress'
  BY <1>1, <1>2, <1>5, PlacedNone, ProgressNone DEF HInv, Sound, InProgress
<1>7. AllCorrect'
  <2> SUFFICES ASSUME NEW x \in evaluated PROVE x \in DOMAIN sheet'.expr /\ Correct(x)'
    BY <1>1 DEF AllCorrect
  <2>1. x \in DOMAIN sheet.expr /\ Correct(x)
    BY <1>1, <1>2 DEF HInv, Sound, AllCorrect
  <2> QED BY <2>1, <1>1, <1>2, <1>4, CorrectStays
<1>8. AllSeen' /\ Told' /\ Released'
  <2>1. Indexed' = Indexed /\ phase = "flowed" /\ phase' = "flowed"
    BY <1>1, <1>2 DEF Indexed
  <2> QED BY <2>1, <1>1 DEF HInv, Sound, AllSeen, Told, Released
<1>9. InputsKept'
  BY <1>1, <1>2, <1>3 DEF HInv, Sound, InputsKept
<1>10. Passing'
  <2>1. PICK k : k = Len(output_index)
    OBVIOUS
  <2>2. k \in Nat
    BY <2>1, <1>2, IndexHits, Evaluations DEF Base
  <2>3. at \in 1..(k + 1) /\ at <= k /\ \A i \in 1..k : i < at => output_index[i] \in evaluated
    BY <2>1, <1>1 DEF HInv, Sound, Passing
  <2>4. at + 1 \in 1..(k + 1) /\ \A i \in 1..k : i < at + 1 => i < at \/ i = at
    BY <2>2, <2>3
  <2> QED BY <2>1, <2>3, <2>4, <1>1 DEF Passing
<1> QED BY <1>6, <1>7, <1>8, <1>9, <1>10 DEF Sound

LEMMA EndCalculateSound ==
  ASSUME HInv, ~failed, ~failed', UNCHANGED <<start, published, changed>>,
         NEW v \in Value, EndCalculate(v)
  PROVE  Sound'
<1>1. /\ In("output") /\ Returns(v) /\ Calculated(Now.of, v) /\ input' = AppliedBack(Now.of, v)
      /\ frames' = <<>> /\ at' = at + 1
      /\ UNCHANGED <<vars, sheet, output_index, updated, told_value>>
  BY DEF EndCalculate, declVars, monVars
<1>2. /\ StackInv /\ Framed(frames, accumulate) /\ InPhase /\ CellsTyped /\ Base /\ frames # <<>>
      /\ get_stack \in Seq(Cell \X BOOLEAN) /\ linked \subseteq Cell
  BY <1>1, Evaluations DEF HInv, In, Running, TypeOK
<1>3. Len(frames) = 1 /\ Now = frames[1] /\ Now.kind = "output" /\ Root = "output" /\ Now.vals \in Seq(Value)
      /\ Now.of \in Evaluable
  BY <1>1, <1>2, InnermostIs DEF Roots, In
<1>4. PICK f, n : f = Now /\ n = f.of
  OBVIOUS
<1>5. phase = "flowed" /\ n \in Evaluable /\ n = output_index[at] /\ at \in 1..Len(output_index)
  <2>1. phase = "flowed"
    BY <1>2, <1>3 DEF InPhase
  <2> QED BY <2>1, <1>2, <1>3, <1>4 DEF HInv, Sound, Passing
<1>6. UNCHANGED <<phase, term, relation_count, rel_resolved, relations, linked>> /\ Clean
  BY <1>1, <1>5 DEF vars, sheetVars, flowVars, Clean
<1>7. /\ state' = [state EXCEPT ![n] = v] /\ evaluated' = evaluated \cup {n} /\ get_stack' = Pop(n)
      /\ dirty' = IF v # state[n] THEN dirty \cup {n} ELSE dirty \ {n}
      /\ input' = AppliedBack(n, v)
  BY <1>1, <1>4 DEF Calculated
<1>8. /\ state \in [Evaluable -> Value] /\ state'[n] = v /\ \A x \in Evaluable : x # n => state'[x] = state[x]
      /\ \A x : x # n \/ x \notin Cell => input'[x] = input[x]
  <2>1. state \in [Evaluable -> Value] /\ input \in [Declared -> Value]
    BY <1>2 DEF CellsTyped
  <2>2. state'[n] = v /\ \A x \in Evaluable : x # n => state'[x] = state[x]
    BY <2>1, <1>5, <1>7
  <2>3. \A x : x # n \/ x \notin Cell => input'[x] = input[x]
    BY <2>1, <1>2, <1>7 DEF AppliedBack
  <2> QED BY <2>1, <2>2, <2>3
<1>9. PICK all, A : all = frames /\ all \in Seq(FrameOver(A))
  BY Evaluations DEF HInv
<1>10. PICK where : Placed(where, all, get_stack) /\ (Clean => Flagged(where, all, get_stack) /\ Chained(all))
  BY <1>9 DEF HInv, Sound, InProgress
<1>11. /\ n \in DOMAIN sheet.expr \ evaluated /\ f.expr = sheet.expr[n] /\ Follows(f.expr, f.vals, n, Own(n))
       /\ Step(f.expr, f.vals) = Give(v) /\ f.vals \in Seq(Value)
  <2>1. Faithful(all[1])
    <3>1. Len(all) = 1
      BY <1>3, <1>9, Zenon
    <3>2. 1 \in 1..Len(all)
      BY <3>1
    <3> QED BY <3>2, <1>6, <1>10 DEF Chained
  <2>2. Faithful(f) /\ f.kind = "output"
    BY <2>1, <1>3, <1>4, <1>9
  <2>3. Step(f.expr, f.vals) = Give(v)
    BY <1>1, <1>4 DEF Returns, Does, Give
  <2> QED BY <2>2, <2>3, <1>3, <1>4 DEF Faithful
<1>12. get_stack' = <<>>
  <2>1. PICK gs2 : gs2 = get_stack'
    OBVIOUS
  <2>2. gs2 = IF Named(all[Len(all)]) THEN Front(get_stack) ELSE get_stack
    BY <2>1, <1>3, <1>4, <1>7, <1>9 DEF Pop, Named
  <2>3. PICK at2 : Placed(at2, Front(all), gs2)
    BY <2>2, <1>2, <1>9, <1>10, PlacedPop
  <2>4. Len(Front(all)) = 0
    <3>1. Len(Front(all)) = Len(all) - 1
      BY <1>2, <1>9, FrontIs
    <3>2. Len(all) = 1
      BY <1>3, <1>9, Zenon
    <3> QED BY <3>1, <3>2
  <2>5. gs2 \in Seq(Cell \X BOOLEAN)
    <3>1. StackInv'
      BY <1>2, StackUpdating DEF Updating
    <3> QED BY <3>1, <2>1 DEF StackInv, Stacked
  <2>6. \A i \in 1..Len(Front(all)) : ~Named(Front(all)[i])
    BY <2>4
  <2> QED BY <2>1, <2>3, <2>5, <2>6, PlacedNone
<1>13. InProgress'
  BY <1>1, <1>12, ProgressNone
<1>14. Stable
  <2> SUFFICES ASSUME NEW x \in Known PROVE x \in Known' /\ Seen(x)' = Seen(x)
    BY <1>1 DEF Stable
  <2>1. x # n /\ x \in Known'
    BY <1>5, <1>7, <1>11 DEF Known
  <2> QED BY <2>1, <1>8 DEF Seen
<1>15. AllCorrect'
  <2> SUFFICES ASSUME NEW x \in evaluated' PROVE x \in DOMAIN sheet'.expr /\ Correct(x)'
    BY DEF AllCorrect
  <2>1. CASE x = n
    <3>1. PICK e, w : e = f.expr /\ w = f.vals
      OBVIOUS
    <3>2. Follows(e, w, n, Own(n))'
      BY <3>1, <1>6, <1>11, <1>14, OwnFollowsStays
    <3>3. Comes(sheet.expr[n], w, n, Own(n), state[n])'
      BY <3>1, <3>2, <1>1, <1>8, <1>11 DEF Comes, Follows
    <3>4. Correct(n)'
      BY <3>1, <3>3, <1>11 DEF Correct
    <3> QED BY <2>1, <3>4, <1>1, <1>11
  <2>2. CASE x # n
    <3>1. x \in evaluated
      BY <2>2, <1>7
    <3>2. x \in DOMAIN sheet.expr /\ Correct(x) /\ x \in Evaluable
      BY <3>1, <1>2, <1>5, <1>6 DEF HInv, Sound, AllCorrect, CellsTyped
    <3> QED BY <2>2, <3>2, <1>1, <1>6, <1>8, <1>14, CorrectStays
  <2> QED BY <2>1, <2>2
<1>16. AllSeen' /\ Released'
  BY <1>5, <1>6 DEF AllSeen, Released
<1>17. InputsKept'
  <2> SUFFICES ASSUME NEW x \in Cell, x \notin evaluated' PROVE input'[x] = start'[x]
    BY DEF InputsKept
  <2> QED BY <1>5, <1>7, <1>8 DEF HInv, Sound, InputsKept
<1>18. Told'
  <2>1. /\ \A x \in Indexed : told_value[x] \in {Unmonitored, state[x]} \/ (updated /\ phase # "idle" /\ x \in dirty)
        /\ dirty \subseteq evaluated /\ updated
    BY <1>5 DEF HInv, Sound, Told
  <2>2. dirty' \subseteq evaluated' /\ n \notin dirty
    BY <2>1, <1>7, <1>11
  <2>3. Indexed' = Indexed /\ Indexed \subseteq Evaluable
    BY <1>1, <1>2, NamesAre DEF Indexed, CellsTyped
  <2>4. ASSUME NEW x \in Indexed
        PROVE  told_value[x] \in {Unmonitored, state'[x]} \/ x \in dirty'
    <3>1. CASE x # n
      BY <2>1, <2>3, <3>1, <1>7, <1>8
    <3>2. CASE x = n
      BY <2>1, <2>2, <3>2, <1>7, <1>8
    <3> QED BY <3>1, <3>2
  <2> QED BY <2>1, <2>2, <2>3, <2>4, <1>1, <1>5, <1>6 DEF Told
<1>19. Passing'
  <2>1. PICK k : k = Len(output_index)
    OBVIOUS
  <2>2. k \in Nat
    BY <2>1, <1>2, IndexHits, Evaluations DEF Base
  <2>3. at \in 1..k /\ \A i \in 1..k : i < at => output_index[i] \in evaluated
    BY <2>1, <1>5 DEF HInv, Sound, Passing
  <2>4. at + 1 \in 1..(k + 1) /\ \A i \in 1..k : i < at + 1 => i < at \/ i = at
    BY <2>2, <2>3
  <2>5. \A i \in 1..k : i < at + 1 => output_index[i] \in evaluated'
    BY <2>3, <2>4, <1>5, <1>7
  <2> QED BY <2>1, <2>4, <2>5, <1>1 DEF Passing
<1> QED BY <1>13, <1>15, <1>16, <1>17, <1>18, <1>19 DEF Sound

(* Nothing in progress leaves nothing on the get stack. *)
LEMMA NoneLeft ==
  ASSUME HInv, ~failed,
         frames # <<>> => Now.kind \in {"init", "client"}
  PROVE  get_stack = <<>>
<1>1. \A i \in 1..Len(frames) : ~Named(frames[i])
  <2>1. CASE frames = <<>>
    BY <2>1
  <2>2. CASE frames # <<>>
    <3>1. StackInv /\ Framed(frames, accumulate)
      BY Evaluations DEF HInv
    <3>2. Len(frames) = 1 /\ Now = frames[1]
      BY <2>2, <3>1, InnermostIs DEF Roots
    <3> QED BY <2>2, <3>2 DEF Named
  <2> QED BY <2>1, <2>2
<1>2. get_stack \in Seq(Cell \X BOOLEAN)
  BY Evaluations DEF HInv
<1> QED BY <1>1, <1>2, PlacedNone DEF HInv, Sound, InProgress

(* An update that ends has told every monitor and publishes what it has evaluated. *)
LEMMA NotifySound ==
  ASSUME HInv, ~failed', HUpdating, Notify
  PROVE  Sound'
<1>1. /\ phase = "flowed" /\ phase' = "idle" /\ frames = <<>> /\ at > Len(output_index) /\ ~failed
      /\ published' = [state |-> state, contributing |-> contributing] /\ changed' = {}
      /\ UNCHANGED <<sheet, output_index, input, state, evaluated, dirty, updated, start, get_stack, frames, term>>
      /\ told_value' = [n \in Indexed |->
            IF told_value[n] # Unmonitored /\ n \in dirty THEN state[n] ELSE told_value[n]]
  BY DEF HUpdating, Notify, EndUpdate, Running, declVars, cellVars, evalVars, flowVars
<1>2. Stable /\ Clean /\ Indexed' = Indexed
  BY <1>1 DEF Stable, Known, Seen, Clean, Indexed
<1>3. InProgress'
  BY <1>1, NoneLeft, ProgressNone
<1>4. AllCorrect'
  <2> SUFFICES ASSUME NEW x \in evaluated PROVE x \in DOMAIN sheet'.expr /\ Correct(x)'
    BY <1>1 DEF AllCorrect
  <2>1. x \in DOMAIN sheet.expr /\ Correct(x)
    BY <1>1, <1>2 DEF HInv, Sound, AllCorrect
  <2> QED BY <2>1, <1>1, <1>2, CorrectStays
<1>5. Indexed \subseteq evaluated
  <2>1. PICK k : k = Len(output_index)
    OBVIOUS
  <2>2. k \in Nat /\ \A n \in Indexed : \E i \in 1..k : output_index[i] = n
    BY <2>1, IndexHits, Evaluations DEF HInv, Base
  <2>3. at \in 1..(k + 1) /\ \A i \in 1..k : i < at => output_index[i] \in evaluated
    BY <2>1, <1>1 DEF HInv, Sound, Passing
  <2>4. \A i \in 1..k : i < at
    BY <2>1, <2>2, <2>3, <1>1
  <2> QED BY <2>2, <2>3, <2>4
<1>6. AllSeen'
  BY <1>1, <1>2, <1>5 DEF AllSeen
<1>7. Passing' /\ InputsKept' /\ Released'
  BY <1>1 DEF Passing, InputsKept, Released
<1>8. Told'
  <2>1. /\ \A n \in Indexed : told_value[n] \in {Unmonitored, state[n]} \/ n \in dirty
        /\ dirty \subseteq evaluated /\ updated
    BY <1>1 DEF HInv, Sound, Told
  <2>2. \A n \in Indexed : told_value'[n] \in {Unmonitored, state[n]}
    BY <2>1, <1>1
  <2>3. published' = Nothing => Indexed = {}
    <3> SUFFICES ASSUME published' = Nothing PROVE Indexed = {}
      OBVIOUS
    <3>1. published'.state = state /\ Nothing.state = <<>>
      BY <1>1 DEF Nothing
    <3>2. state = <<>>
      BY <3>1
    <3>3. DOMAIN state = Evaluable
      BY Evaluations DEF HInv, CellsTyped
    <3>4. Evaluable = {}
      BY <3>2, <3>3
    <3> QED BY <3>4, NamesAre, Evaluations DEF HInv
  <2> QED BY <2>1, <2>2, <2>3, <1>1, <1>2 DEF Told
<1> QED BY <1>3, <1>4, <1>6, <1>7, <1>8 DEF Sound

LEMMA UpdatingSound ==
  ASSUME HInv, ~failed', HUpdating
  PROVE  Sound'
<1>1. CASE Notify
  BY <1>1, NotifySound
<1>2. CASE ~Notify
  <2>1. ~failed /\ UNCHANGED <<start, published, changed>> /\ ~(phase = "flowed" /\ phase' = "idle")
    BY <1>2, UpdatingQuietly
  <2>2. \A n \in Indexed : ~CalculateAttached(n)
    BY <2>1 DEF CalculateAttached, EndUpdate
  <2> QED BY <1>2, <2>1, <2>2, BeginConditionalSound, EndConditionalSound, EndCalculateSound,
             ConditionalsSolvedSound, FlowStepSound, BeginCalculateSound, ApplyEvaluatedSound
          DEF HUpdating, Updating
<1> QED BY <1>1, <1>2

-----------------------------------------------------------------------------
(* The calls of a client between updates, reinitialize, and the building of a sheet. *)
LEMMA AtRestSound ==
  ASSUME HInv, ~failed, ~failed', phase = "idle", phase' = "idle", InProgress',
         UNCHANGED <<sheet, state, evaluated, dirty, updated, start, published>>,
         published # Nothing /\ changed' = {} => changed = {} /\ UNCHANGED <<input, term>>,
         \A n \in Indexed : told_value'[n] \in {Unmonitored, state[n]},
         updated \/ told_value' = told_value
  PROVE  Sound'
<1>1. Indexed' = Indexed
  BY DEF Indexed
<1>2. AllCorrect'
  <2> SUFFICES ASSUME Clean', changed' = {}, NEW x \in evaluated
               PROVE  x \in DOMAIN sheet'.expr /\ Correct(x)'
    BY DEF AllCorrect
  <2>1. Clean /\ changed = {} /\ UNCHANGED <<input, term>>
    BY DEF Clean
  <2>2. Stable
    BY <2>1 DEF Stable, Known, Seen
  <2>3. x \in DOMAIN sheet.expr /\ Correct(x)
    BY <2>1 DEF HInv, Sound, AllCorrect
  <2> QED BY <2>1, <2>2, <2>3, CorrectStays
<1>3. AllSeen' /\ Passing' /\ InputsKept' /\ Released'
  BY <1>1 DEF HInv, Sound, AllSeen, Passing, InputsKept, Released
<1>4. Told'
  BY <1>1 DEF HInv, Sound, Told
<1> QED BY <1>2, <1>3, <1>4 DEF Sound


LEMMA StartUpdateSound ==
  ASSUME HInv, ~failed, ~failed', HCalls, StartUpdate
  PROVE  Sound'
<1>1. /\ frames = <<>> /\ phase = "idle" /\ phase' = "conditionals" /\ start' = input
      /\ evaluated' = {} /\ dirty' = {} /\ updated' = TRUE /\ rel_resolved' = {}
      /\ relation_count' = [c \in Cell |-> Cardinality(RelationIndex(c))]
      /\ term' = [c \in Cell |-> NoTerm] /\ relations' = relations
      /\ UNCHANGED <<sheet, input, state, told_value, get_stack, frames, published>>
  BY DEF HCalls, StartUpdate, BeginUpdate, Resting, Running, declVars, monVars, sheetVars
<1>2. InProgress'
  BY <1>1, NoneLeft, ProgressNone
<1>3. \A c : RelationIndex(c)' = RelationIndex(c)
  BY <1>1 DEF RelationIndex, Relation, Edges, Terms
<1>4. AllCorrect' /\ AllSeen' /\ Passing' /\ InputsKept'
  BY <1>1 DEF AllCorrect, AllSeen, Passing, InputsKept
<1>5. Told'
  BY <1>1 DEF HInv, Sound, Told, Indexed
<1>6. Released'
  <2>1. \A c \in Cell : RelationIndex(c) \ {} = RelationIndex(c)
    OBVIOUS
  <2>2. 1..Len(frames') = {}
    BY <1>1
  <2>3. \A c \in Cell : relation_count'[c] = Cardinality(RelationIndex(c)' \ rel_resolved') /\ term'[c] = NoTerm
    BY <2>1, <1>1, <1>3
  <2> QED BY <2>2, <2>3, <1>1 DEF Released
<1> QED BY <1>2, <1>4, <1>5, <1>6 DEF Sound

LEMMA ToldAtRest ==
  ASSUME HInv, ~failed, phase = "idle"
  PROVE  \A n \in Indexed : told_value[n] \in {Unmonitored, state[n]}
BY DEF HInv, Sound, Told

(* What a call changes is noted. *)
LEMMA CallsNoted ==
  ASSUME HInv, HCalls, changed' = {}
  PROVE  changed = {} /\ input' = input
<1>1. changed \subseteq Cell \cup Input
  BY DEF HInv, Base
<1>2. changed = {}
  BY <1>1 DEF HCalls
<1>3. ASSUME NEW n \in Cell \cup Input, NEW v \in Value, SetValue(n, v) PROVE input' = input
  <2>1. priority_high' # priority_high
    <3>1. priority_high \in Nat /\ priority_high + 1 # priority_high
      BY Evaluations DEF HInv, TypeOK
    <3>2. Len(<<n>>) = 1
      OBVIOUS
    <3>3. n \in Cell => priority_high' = priority_high + Len(<<n>>)
      BY <1>3 DEF SetValue, Set, Raise
    <3>4. n \notin Cell => priority_high' = priority_high + 1
      BY <1>3 DEF SetValue, SetInput
    <3> QED BY <3>1, <3>2, <3>3, <3>4
  <2>2. changed' = IF input' = input THEN Cell \cup Input
                   ELSE changed \cup {m \in Cell \cup Input : input'[m] # input[m]}
    BY <2>1 DEF HCalls
  <2>3. input' = [input EXCEPT ![n] = v] /\ input \in [Declared -> Value]
    BY <1>3, Evaluations DEF SetValue, HInv, CellsTyped
  <2>4. input'[n] = input[n]
    BY <2>2
  <2> QED BY <2>3, <2>4
<1>4. (\A n \in Cell \cup Input, v \in Value : ~SetValue(n, v)) => input' = input
  BY DEF HCalls, Calls, TouchCells, BeginReinitialize, StartUpdate, Query, MonitorValue, MonitorEnabled, cellVars
<1> QED BY <1>2, <1>3, <1>4

LEMMA CallsSound ==
  ASSUME HInv, ~failed', HCalls
  PROVE  Sound'
<1>1. CASE StartUpdate
  BY <1>1, StartUpdateSound DEF HCalls
<1>2. CASE ~StartUpdate
  <2>1. /\ phase = "idle" /\ phase' = "idle" /\ frames = <<>> /\ ~failed
        /\ UNCHANGED <<sheet, state, evaluated, dirty, updated, start, published, term, get_stack>>
    BY <1>2 DEF HCalls, Calls, SetValue, TouchCells, BeginReinitialize, Query, MonitorValue, MonitorEnabled,
         Resting, Running, Set, SetInput, Touch, declVars, cellVars, evalVars, vars, flowVars
  <2>2. get_stack = <<>>
    BY <2>1, NoneLeft
  <2>3. InProgress'
    <3>1. CASE frames' = <<>>
      BY <2>1, <2>2, <3>1, ProgressNone
    <3>2. ASSUME NEW q \in sheet.queries, Query(q) PROVE InProgress'
      <4>1. PICK f : f = Frame("client", NoCell, q, {})
        OBVIOUS
      <4>2. frames' = <<f>> /\ f.kind = "client" /\ f.vals = <<>>
        BY <3>2, <4>1 DEF Query, Frame
      <4> QED BY <2>1, <4>2, Evaluations, ProgressRoot DEF HInv, Sound
    <3> QED BY <1>2, <2>1, <3>1, <3>2 DEF HCalls, Calls, SetValue, TouchCells, BeginReinitialize, MonitorValue,
              MonitorEnabled, evalVars
  <2>4. /\ \A n \in Indexed : told_value'[n] \in {Unmonitored, state[n]}
        /\ updated \/ told_value' = told_value
    <3>1. \A n \in Indexed : told_value[n] \in {Unmonitored, state[n]}
      BY <2>1, ToldAtRest
    <3>2. ASSUME NEW n, MonitorValue(n)
          PROVE  updated /\ \A m \in Indexed : told_value'[m] \in {Unmonitored, state[m]}
      <4>1. updated /\ told_value' = [told_value EXCEPT ![n] = state[n]]
        BY <3>2 DEF MonitorValue
      <4>2. ASSUME NEW m \in Indexed PROVE told_value'[m] = told_value[m] \/ told_value'[m] = state[m]
        BY <4>1
      <4> QED BY <3>1, <4>1, <4>2
    <3>3. (\A n : ~MonitorValue(n)) => told_value' = told_value
      BY <1>2 DEF HCalls, Calls, SetValue, TouchCells, BeginReinitialize, Query, MonitorEnabled, monVars
    <3> QED BY <3>1, <3>2, <3>3
  <2> QED BY <2>1, <2>3, <2>4, CallsNoted, AtRestSound
<1> QED BY <1>1, <1>2

LEMMA ReinitSound ==
  ASSUME HInv, ~failed', HReinit
  PROVE  Sound'
<1>1. /\ mode = "reinit" /\ ~failed /\ changed' = Cell \cup Input
      /\ UNCHANGED <<sheet, state, evaluated, dirty, updated, start, published, term, get_stack, told_value, phase>>
      /\ frames = <<>> \/ Now.kind = "init"
  BY DEF HReinit, Reinit, BeginInitialize, SkipInitialize, EndInitialize, EndReinitialize, Reinitialize,
         Running, In, declVars, cellVars, evalVars, monVars, vars, flowVars
<1>2. phase = "idle" /\ get_stack = <<>>
  BY <1>1, NoneLeft, Evaluations DEF HInv, InPhase
<1>3. InProgress'
  <2>1. CASE frames' = <<>>
    BY <2>1, <1>1, <1>2, ProgressNone
  <2>2. CASE BeginInitialize
    <3>1. PICK f : f = Frame("init", output_index[at], sheet.init[output_index[at]], {})
      OBVIOUS
    <3>2. frames = <<>> /\ frames' = <<f>> /\ f.kind = "init" /\ f.vals = <<>>
      BY <2>2, <3>1 DEF BeginInitialize, Running, Frame
    <3> QED BY <1>1, <3>2, Evaluations, ProgressRoot DEF HInv, Sound
  <2> QED BY <2>1, <2>2 DEF HReinit, Reinit, SkipInitialize, EndInitialize, EndReinitialize, Running, evalVars
<1>4. changed' = {} => changed = {} /\ input' = input
  <2> SUFFICES ASSUME changed' = {} PROVE changed = {} /\ input' = input
    OBVIOUS
  <2>1. Cell = {} /\ changed = {}
    BY <1>1 DEF HInv, Base
  <2>2. \A v \in Value : ~EndInitialize(v)
    <3> SUFFICES ASSUME NEW v \in Value, EndInitialize(v) PROVE FALSE
      OBVIOUS
    <3>1. {Now.of} \subseteq interface
      BY DEF EndInitialize, Reinitialize
    <3>2. interface \subseteq Cell
      BY Evaluations DEF HInv, TypeOK
    <3> QED BY <2>1, <3>1, <3>2
  <2> QED BY <2>1, <2>2 DEF HReinit, Reinit, BeginInitialize, SkipInitialize, EndReinitialize, cellVars
<1>5. \A n \in Indexed : told_value'[n] \in {Unmonitored, state[n]}
  BY <1>1, <1>2, ToldAtRest
<1> QED BY <1>1, <1>2, <1>3, <1>4, <1>5, AtRestSound

LEMMA BuildSound ==
  ASSUME HInv, ~failed', HBuild
  PROVE  Sound'
<1>1. ~failed /\ UNCHANGED <<start, published, changed, failed>>
  BY DEF HBuild, ghostVars
<1>2. CASE Answering
  <2>1. /\ Now.kind = "client" /\ frames # <<>> /\ frames' = <<>>
        /\ UNCHANGED <<sheet, state, evaluated, dirty, updated, term, get_stack, told_value, phase, input>>
    BY <1>2 DEF Answering, Answer, In, Running, declVars, cellVars, monVars, vars, flowVars
  <2>2. phase = "idle"
    <3>1. StackInv /\ Framed(frames, accumulate) /\ InPhase
      BY Evaluations DEF HInv
    <3>2. Root = "client"
      BY <2>1, <3>1, InnermostIs DEF Roots
    <3> QED BY <2>1, <3>1, <3>2 DEF InPhase
  <2>3. InProgress'
    BY <2>1, <1>1, NoneLeft, ProgressNone
  <2> QED BY <1>1, <2>1, <2>2, <2>3, ToldAtRest, AtRestSound
<1>3. CASE Build
  <2>1. /\ mode = "build"
        /\ UNCHANGED <<sheet, state, evaluated, dirty, updated, term, get_stack, told_value, phase>>
        /\ frames = <<>> \/ Now.kind = "init"
    BY <1>3 DEF Build, BeginDeclare, Declare, DeclareRelation, EndBuild, Declaring, Running, In, AddInterface,
         AddRelation, declVars, cellVars, monVars, evalVars, vars, flowVars
  <2>2. phase = "idle" /\ published = Nothing /\ get_stack = <<>>
    BY <1>1, <2>1, NoneLeft, Evaluations DEF HInv, InPhase, Base
  <2>3. InProgress'
    <3>1. CASE frames' = <<>>
      BY <3>1, <2>1, <2>2, ProgressNone
    <3>2. ASSUME NEW n \in Declared, BeginDeclare(n) PROVE InProgress'
      <4>1. PICK f : f = Frame("init", n, sheet.init[n], {})
        OBVIOUS
      <4>2. frames = <<>> /\ frames' = <<f>> /\ f.kind = "init" /\ f.vals = <<>>
        BY <3>2, <4>1 DEF BeginDeclare, Running, Frame
      <4> QED BY <1>1, <2>1, <4>2, Evaluations, ProgressRoot DEF HInv, Sound
    <3>3. (\A n \in Declared : ~BeginDeclare(n)) => frames' = <<>>
      BY <1>3 DEF Build, Declare, DeclareRelation, EndBuild, Running, evalVars
    <3> QED BY <3>1, <3>2, <3>3
  <2> QED BY <1>1, <2>1, <2>2, <2>3, ToldAtRest, AtRestSound
<1> QED BY <1>2, <1>3 DEF HBuild

LEMMA HInvStep ==
  ASSUME HInv, [SHNext]_shvars
  PROVE  HInv'
<1>1. Base'
  BY BaseStep DEF HInv
<1>2. CASE failed'
  BY <1>1, <1>2 DEF HInv, Sound, InProgress, AllCorrect, AllSeen, Passing, InputsKept, Told, Released, Clean
<1>3. CASE ~failed'
  <2>1. CASE SHNext
    BY <1>1, <1>3, <2>1, BuildSound, EvaluateSound, UpdatingSound, CallsSound, ReinitSound DEF SHNext, HInv
  <2>2. CASE UNCHANGED shvars
    <3>1. /\ UNCHANGED <<vars, sheet, output_index, input, state, evaluated, dirty, at, updated, told_value, start,
                         published, changed, failed, frames, get_stack>>
      BY <2>2 DEF shvars, svars, ghostVars, declVars, cellVars, evalVars, monVars
    <3>2. Stable /\ term' = term /\ (Clean' <=> Clean) /\ ~failed
      BY <1>3, <3>1, Still DEF Clean, vars
    <3>3. InProgress'
      <4>1. PICK where : /\ Placed(where, frames, get_stack)
                         /\ Clean => Flagged(where, frames, get_stack) /\ Chained(frames)
        BY <3>2 DEF HInv, Sound, InProgress
      <4>2. PICK fs : fs = frames
        OBVIOUS
      <4>3. Clean => Chained(fs)'
        BY <3>1, <3>2, <4>1, <4>2, ChainedStays, ChainedUnevaluated
      <4>4. Clean => Chained(frames)'
        BY <3>1, <4>2, <4>3 DEF Chained
      <4>5. Placed(where, frames, get_stack)' /\ (Clean => Flagged(where, frames, get_stack)')
        BY <3>1, <3>2, <4>1 DEF Placed, Flagged, OwnBegun
      <4> QED BY <3>2, <4>4, <4>5 DEF InProgress
    <3>4. phase = "flowed" /\ frames' # <<>> => at \in 1..Len(output_index) /\ frames'[1].of = output_index[at]
      BY <3>1, <3>2 DEF HInv, Sound, Passing
    <3>5. phase = "conditionals" =>
           \A i \in 1..Len(frames') : frames'[i].kind = "get" => Gone(frames'[i].of)
      BY <3>1, <3>2 DEF HInv, Sound, Released
    <3> QED BY <1>1, <3>1, <3>2, <3>3, <3>4, <3>5, Carried DEF HInv
  <2> QED BY <2>1, <2>2
<1> QED BY <1>2, <1>3

LEMMA HInvInit ==
  ASSUME SHInit, \A s \in Sheets : Layered(s)
  PROVE  HInv
<1>1. SheetInv
  BY SheetInvInit DEF SHInit
<1>2. Steady
  BY InitSteady DEF SHInit, SInit
<1>3. /\ sheet \in Sheets /\ output_index \in Listings(Indexed) /\ relations = <<>> /\ frames = <<>>
      /\ get_stack = <<>> /\ phase = "idle" /\ evaluated = {} /\ dirty = {} /\ updated = FALSE
      /\ published = Nothing /\ changed = {} /\ failed = FALSE
      /\ term = [c \in Cell |-> NoTerm] /\ told_value = [n \in Indexed |-> Unmonitored]
  BY DEF SHInit, SInit, Init
<1>4. Clauses
  <2>1. Len(relations) = 0 /\ Relation = {} /\ Len(sheet.relations) \in Nat
    <3>1. DOMAIN sheet.relations = 1..Len(sheet.relations)
      BY <1>3
    <3>2. Len(relations) = 0 /\ Relation = {}
      BY <1>3 DEF Relation
    <3> QED BY <3>2
  <2> QED BY <2>1, <1>3 DEF Clauses
<1>5. Base
  BY <1>1, <1>2, <1>3, <1>4 DEF Base
<1>6. InProgress
  <2>1. PICK where : Placed(where, <<>>, <<>>)
    BY PlacedNone
  <2>2. Len(<<>>) = 0 /\ 1..0 = {} /\ 1..(0 - 1) = {}
    OBVIOUS
  <2>3. Placed(where, frames, get_stack) /\ Flagged(where, frames, get_stack) /\ Chained(frames)
    BY <1>3, <2>1, <2>2 DEF Flagged, Chained
  <2> QED BY <2>3 DEF InProgress
<1>7. AllCorrect /\ AllSeen /\ Passing /\ InputsKept /\ Told /\ Released
  BY <1>3 DEF AllCorrect, AllSeen, Passing, InputsKept, Told, Released
<1> QED BY <1>5, <1>6, <1>7 DEF HInv, Sound

-----------------------------------------------------------------------------
(* Outcome computes what a run of an expression comes to: its recursive function holds
   the beginnings of the run. *)
LEMMA OutcomeIs ==
  ASSUME NEW e, NEW env, NEW w \in Seq(Value), MaxReads \in Nat, Len(w) <= MaxReads,
         \A k \in 0..(Len(w) - 1) : \E m : ReadAt(e, w, k, m) /\ w[k + 1] = env[m],
         NEW v, Step(e, w) = Give(v)
  PROVE  Outcome(e, env) = Give(v)
<1> DEFINE Next1(x) == IF Step(e, x).do = "read" THEN Append(x, env[Step(e, x).name]) ELSE x
           Rec(f) == [i \in 0..MaxReads |-> IF i = 0 THEN <<>> ELSE Next1(f[i - 1])]
           F == CHOOSE f : f = Rec(f)
           Up(i) == IF i < Len(w) THEN i ELSE Len(w)
           G == [i \in 0..MaxReads |-> SubSeq(w, 1, Up(i))]
<1>1. Outcome(e, env) = Step(e, F[MaxReads])
  BY DEF Outcome
<1>2. Len(w) \in Nat
  OBVIOUS
<1>3. ASSUME NEW i \in Nat, i < Len(w) PROVE Next1(SubSeq(w, 1, i)) = SubSeq(w, 1, i + 1)
  <2>1. i \in 0..(Len(w) - 1) /\ i \in 0..Len(w) /\ i + 1 \in 0..Len(w) /\ i + 1 \in 1..Len(w)
    BY <1>2, <1>3
  <2>2. PICK m : ReadAt(e, w, i, m) /\ w[i + 1] = env[m]
    BY <2>1
  <2>3. Step(e, SubSeq(w, 1, i)) = Read(m)
    BY <2>2 DEF ReadAt, Read
  <2>4. Read(m).do = "read" /\ Read(m).name = m
    BY DEF Read
  <2>5. Next1(SubSeq(w, 1, i)) = Append(SubSeq(w, 1, i), w[i + 1])
    BY <2>2, <2>3, <2>4
  <2>6. /\ SubSeq(w, 1, i) \in Seq(Value) /\ Len(SubSeq(w, 1, i)) = i
        /\ \A j \in 1..i : SubSeq(w, 1, i)[j] = w[j]
    BY <2>1, PrefixIs
  <2>7. /\ SubSeq(w, 1, i + 1) \in Seq(Value) /\ Len(SubSeq(w, 1, i + 1)) = i + 1
        /\ \A j \in 1..(i + 1) : SubSeq(w, 1, i + 1)[j] = w[j]
    BY <2>1, PrefixIs
  <2>8. w[i + 1] \in Value
    BY <2>1
  <2>9. PICK a, b, x : a = SubSeq(w, 1, i) /\ b = SubSeq(w, 1, i + 1) /\ x = w[i + 1]
    OBVIOUS
  <2>10. Append(a, x) \in Seq(Value) /\ Len(Append(a, x)) = i + 1 /\ Append(a, x)[i + 1] = x
         /\ \A j \in 1..i : Append(a, x)[j] = a[j]
    BY <2>6, <2>8, <2>9
  <2>11. \A j \in 1..(i + 1) : j \in 1..i \/ j = i + 1
    OBVIOUS
  <2>12. \A j \in 1..(i + 1) : Append(a, x)[j] = b[j]
    BY <2>1, <2>6, <2>7, <2>9, <2>10, <2>11
  <2>13. Append(a, x) = b
    <3>1. PICK c : c = Append(a, x)
      OBVIOUS
    <3>2. c \in Seq(Value) /\ b \in Seq(Value) /\ Len(c) = Len(b) /\ \A j \in 1..Len(b) : c[j] = b[j]
      BY <3>1, <2>7, <2>9, <2>10, <2>12
    <3>3. c = b
      BY <3>2
    <3> QED BY <3>1, <3>3
  <2> QED BY <2>5, <2>9, <2>13
<1>4. Next1(w) = w
  <2>1. Give(v).do = "return"
    BY DEF Give
  <2> QED BY <2>1
<1>5. SubSeq(w, 1, 0) = <<>> /\ SubSeq(w, 1, Len(w)) = w
  BY WholePrefix
<1>6. ASSUME NEW f, NEW i \in 0..MaxReads, i # 0, f[i - 1] = SubSeq(w, 1, Up(i - 1))
      PROVE  Next1(f[i - 1]) = SubSeq(w, 1, Up(i))
  <2>1. CASE i - 1 < Len(w)
    <3>1. Up(i - 1) = i - 1 /\ Up(i) = i /\ i - 1 \in Nat /\ i - 1 + 1 = i
      BY <2>1, <1>2, <1>6
    <3>2. Next1(SubSeq(w, 1, i - 1)) = SubSeq(w, 1, i)
      BY <3>1, <2>1, <1>3
    <3> QED BY <3>1, <3>2, <1>6
  <2>2. CASE ~(i - 1 < Len(w))
    <3>1. Up(i - 1) = Len(w) /\ Up(i) = Len(w)
      BY <2>2, <1>2, <1>6
    <3> QED BY <3>1, <1>4, <1>5, <1>6
  <2> QED BY <2>1, <2>2
<1> HIDE DEF Next1
<1>7. Up(0) = 0
  BY <1>2
<1>8. G = Rec(G)
  <2>1. ASSUME NEW i \in 0..MaxReads PROVE G[i] = IF i = 0 THEN <<>> ELSE Next1(G[i - 1])
    <3>1. CASE i = 0
      BY <3>1, <1>5, <1>7
    <3>2. CASE i # 0
      <4>1. i - 1 \in 0..MaxReads
        BY <3>2
      <4>2. G[i - 1] = SubSeq(w, 1, Up(i - 1)) /\ G[i] = SubSeq(w, 1, Up(i))
        BY <4>1
      <4> HIDE DEF G, Up
      <4> QED BY <4>2, <3>2, <1>6
    <3> QED BY <3>1, <3>2
  <2> HIDE DEF Up
  <2> QED BY <2>1
<1>9. F = Rec(F)
  <2> HIDE DEF G, Rec
  <2> QED BY <1>8
<1> HIDE DEF F, G
<1>10. \A i \in 0..MaxReads : F[i] = SubSeq(w, 1, Up(i))
  <2> DEFINE D == {i \in 0..MaxReads : F[i] # SubSeq(w, 1, Up(i))}
  <2> SUFFICES ASSUME D # {} PROVE FALSE
    OBVIOUS
  <2>1. D \in SUBSET Nat
    OBVIOUS
  <2>2. PICK i \in D : \A j \in D : ~ (j < i)
    <3> HIDE DEF D
    <3> QED BY <2>1, Least
  <2>3. i \in 0..MaxReads /\ F[i] # SubSeq(w, 1, Up(i))
    OBVIOUS
  <2>4. CASE i = 0
    <3>1. Rec(F)[0] = <<>>
      OBVIOUS
    <3> QED BY <2>3, <2>4, <3>1, <1>5, <1>7, <1>9
  <2>5. CASE i # 0
    <3>1. i - 1 \in 0..MaxReads /\ i - 1 < i
      BY <2>3, <2>5
    <3>2. F[i - 1] = SubSeq(w, 1, Up(i - 1))
      <4> HIDE DEF Up
      <4> QED BY <3>1, <2>2
    <3>3. Rec(F)[i] = Next1(F[i - 1])
      BY <2>3, <2>5
    <3>4. F[i] = Next1(F[i - 1])
      <4> HIDE DEF Rec
      <4> QED BY <3>3, <1>9
    <3> HIDE DEF Up, Rec
    <3> QED BY <2>3, <2>5, <3>2, <3>4, <1>6
  <2> QED BY <2>4, <2>5
<1>11. Up(MaxReads) = Len(w) /\ MaxReads \in 0..MaxReads
  BY <1>2
<1>12. F[MaxReads] = w
  BY <1>5, <1>10, <1>11
<1> QED BY <1>1, <1>12

(* What a cell reads of itself is what its relation derives, or its input. *)
LEMMA OwnIsUnfiltered ==
  ASSUME TypeOK, Clauses, sheet \in Sheets, NEW n \in Cell, n \in DOMAIN sheet.expr, NEW x \in Own(n)
  PROVE  x = Unfiltered(n)
<1>1. CASE term[n] = NoTerm
  BY <1>1 DEF Own, Unfiltered
<1>2. CASE term[n] # NoTerm
  <2>1. PICK w \in Seq(Value) : Comes(TermExpr(n), w, n, {start[n]}, x)
    BY <1>2 DEF Own, Derivable
  <2>2. PICK e, env : e = TermExpr(n) /\ env = SeenBut(n, start[n])
    OBVIOUS
  <2>3. e \in Calculators(sheet, n) /\ Follows(e, w, n, {start[n]}) /\ Step(e, w) = Give(x)
    BY <1>2, <2>1, <2>2, TermExprIs DEF Comes
  <2>4. \A k \in 0..(Len(w) - 1) : \E m : ReadAt(e, w, k, m) /\ w[k + 1] = env[m]
    <3> TAKE k \in 0..(Len(w) - 1)
    <3>1. PICK m \in Declared \cup Evaluable :
            /\ ReadAt(e, w, k, m)
            /\ IF m = n /\ n \in Cell
               THEN IF Unread(e, w, k, n) THEN w[k + 1] \in {start[n]} ELSE w[k + 1] = start[n]
               ELSE m \in Known /\ w[k + 1] = Seen(m)
      BY <2>3 DEF Follows
    <3>2. env[m] = IF m = n THEN start[n] ELSE Seen(m)
      BY <2>2 DEF SeenBut
    <3> QED BY <3>1, <3>2
  <2>5. Len(w) <= MaxReads /\ MaxReads \in Nat
    BY <2>3, <2>4, Bounded, ReadsAssumption
  <2>6. Outcome(e, env) = Give(x)
    BY <2>3, <2>4, <2>5, OutcomeIs
  <2>7. Unfiltered(n) = Outcome(e, env).value
    BY <1>2, <2>2 DEF Unfiltered
  <2> QED BY <2>6, <2>7 DEF Give
<1> QED BY <1>1, <1>2

(* A cell that is right holds the outcome of its expression. *)
LEMMA CorrectIs ==
  ASSUME TypeOK, Clauses, sheet \in Sheets, Layered(sheet), ReadsOnce(sheet),
         NEW n \in DOMAIN sheet.expr, Correct(n)
  PROVE  Outcome(sheet.expr[n], SeenBut(n, Unfiltered(n))) = Give(state[n])
<1>1. PICK e, env : e = sheet.expr[n] /\ env = SeenBut(n, Unfiltered(n))
  OBVIOUS
<1>2. PICK w \in Seq(Value) : Follows(e, w, n, Own(n)) /\ Step(e, w) = Give(state[n])
  BY <1>1 DEF Correct, Comes
<1>3. e \in Calculators(sheet, n)
  BY <1>1 DEF Calculators
<1>4. \A k \in 0..(Len(w) - 1) : \E m : ReadAt(e, w, k, m)
  BY <1>2 DEF Follows
<1>5. Len(w) <= MaxReads /\ w \in Reading /\ MaxReads \in Nat /\ Len(w) \in Nat
  <2>1. Len(w) <= MaxReads /\ w \in Reading
    BY <1>3, <1>4, Bounded
  <2>2. MaxReads \in Nat
    BY ReadsAssumption, Zenon
  <2>3. Len(w) \in Nat
    OBVIOUS
  <2> QED BY <2>1, <2>2, <2>3
<1>6. ASSUME NEW k \in 0..(Len(w) - 1) PROVE \E m : ReadAt(e, w, k, m) /\ w[k + 1] = env[m]
  <2>1. PICK m \in Declared \cup Evaluable :
          /\ ReadAt(e, w, k, m)
          /\ IF m = n /\ n \in Cell
             THEN IF Unread(e, w, k, n) THEN w[k + 1] \in Own(n) ELSE w[k + 1] = start[n]
             ELSE m \in Known /\ w[k + 1] = Seen(m)
    BY <1>2 DEF Follows
  <2>2. env[m] = IF m = n THEN Unfiltered(n) ELSE Seen(m)
    BY <1>1 DEF SeenBut
  <2>3. CASE m # n
    BY <2>1, <2>2, <2>3
  <2>4. CASE m = n /\ n \in Cell
    <3>1. Unread(e, w, k, n)
      <4> SUFFICES ASSUME NEW j \in 0..(k - 1), ReadAt(e, w, j, n) PROVE FALSE
        BY DEF Unread
      <4>1. j \in 0..Len(w) /\ k \in 0..Len(w) /\ j # k
        BY <1>5
      <4>2. n \in Cell \cap DOMAIN sheet.expr /\ ReadAt(e, w, k, n)
        BY <2>1, <2>4
      <4> QED BY <4>1, <4>2, <1>1, <1>5 DEF ReadsOnce
    <3> QED BY <2>1, <2>2, <2>4, <3>1, OwnIsUnfiltered
  <2>5. CASE m = n /\ n \notin Cell
    <3>1. k \in 0..Len(w) /\ \A j \in 0..(k - 1) : j \in 0..(Len(w) - 1)
      BY <1>5
    <3>2. SubSeq(w, 1, k) \in Seq(Value) /\ Len(SubSeq(w, 1, k)) = k
      BY <3>1, PrefixIs
    <3>3. PICK u : u = SubSeq(w, 1, k)
      OBVIOUS
    <3>4. u \in Seq(Value) /\ Len(u) = k /\ SubSeq(u, 1, k) = u
      BY <3>2, <3>3, WholePrefix
    <3>5. \A j \in 0..k : SubSeq(u, 1, j) = SubSeq(w, 1, j)
      <4> TAKE j \in 0..k
      <4>1. j \in 0..Len(u) /\ j <= Len(w) /\ \A i \in 1..j : u[i] = w[i]
        <5>1. \A i \in 1..k : u[i] = w[i]
          BY <3>1, <3>3, PrefixIs
        <5>2. \A i \in 1..j : i \in 1..k
          OBVIOUS
        <5> QED BY <5>1, <5>2, <3>1, <3>4, <1>5
      <4> QED BY <4>1, <3>4, SamePrefix
    <3>6. \A j \in 0..(Len(u) - 1) : \E q : ReadAt(e, u, j, q)
      <4> TAKE j \in 0..(Len(u) - 1)
      <4>1. j \in 0..k /\ j \in 0..(Len(w) - 1)
        BY <3>1, <3>4
      <4> QED BY <4>1, <3>5, <1>4 DEF ReadAt
    <3>7. u \in Reading
      BY <3>4, <3>6, <1>3, Bounded
    <3>8. ReadAt(e, u, Len(u), n)
      BY <2>1, <2>5, <3>3, <3>4 DEF ReadAt
    <3>9. MayFollow(sheet, n, n)
      BY <3>7, <3>8, <1>3 DEF MayFollow, MayRead
    <3>10. {n} \in SUBSET DOMAIN sheet.expr /\ {n} # {}
      OBVIOUS
    <3>11. \E a \in {n} : \A b \in {n} : MayFollow(sheet, a, b) => a \in Cell /\ b \in Cell
      BY <3>10 DEF Layered
    <3> QED BY <2>5, <3>9, <3>11
  <2> QED BY <2>3, <2>4, <2>5
<1>7. Outcome(e, env) = Give(state[n])
  BY <1>2, <1>5, <1>6, OutcomeIs
<1> QED BY <1>1, <1>7

(* What get(name) has read when it returns is the value that it returns. *)
LEMMA GetReturns ==
  ASSUME NEW n \in Evaluable, NEW w \in Seq(Value), Follows(Get(n), w, NoCell, {}),
         NEW v, Step(Get(n), w) = Give(v)
  PROVE  n \in Known /\ v = state[n]
<1>1. Step(Get(n), <<>>) = Read(n) /\ \A x \in Value : Step(Get(n), <<x>>) = Give(x)
  BY ReadsAssumption DEF Read, Give
<1>2. Len(w) \in Nat
  OBVIOUS
<1>3. Len(w) # 0
  <2> SUFFICES ASSUME Len(w) = 0 PROVE FALSE
    OBVIOUS
  <2>1. w = <<>>
    OBVIOUS
  <2> QED BY <2>1, <1>1, ReadsIt
<1>4. 0 \in 0..(Len(w) - 1) /\ 0 \in 0..Len(w) /\ 1 \in 0..Len(w) /\ 0 + 1 = 1 /\ 1 \in 1..Len(w)
  BY <1>2, <1>3
<1>5. PICK m \in Declared \cup Evaluable :
        /\ ReadAt(Get(n), w, 0, m)
        /\ IF m = NoCell /\ NoCell \in Cell
           THEN IF Unread(Get(n), w, 0, NoCell) THEN w[0 + 1] \in {} ELSE w[0 + 1] = start[NoCell]
           ELSE m \in Known /\ w[0 + 1] = Seen(m)
  BY <1>4 DEF Follows
<1>6. m = n
  <2>1. SubSeq(w, 1, 0) = <<>>
    OBVIOUS
  <2>2. Read(m) = Read(n)
    BY <2>1, <1>1, <1>5 DEF ReadAt, Read
  <2> QED BY <2>2, ReadsIt
<1>7. n # NoCell
  BY DEF Evaluable, Declared
<1>8. n \in Known /\ w[1] = state[n]
  BY <1>4, <1>5, <1>6, <1>7 DEF Seen
<1>9. w[1] \in Value
  BY <1>4
<1>10. SubSeq(w, 1, 1) = <<w[1]>>
  <2>1. PICK a, x : a = SubSeq(w, 1, 1) /\ x = w[1]
    OBVIOUS
  <2>2. a \in Seq(Value) /\ Len(a) = 1 /\ a[1] = x /\ x \in Value
    BY <2>1, <1>4, <1>9, PrefixIs
  <2>3. a = <<x>>
    BY <2>2
  <2> QED BY <2>1, <2>3
<1>11. Len(w) = 1
  <2> SUFFICES ASSUME Len(w) # 1 PROVE FALSE
    OBVIOUS
  <2>1. 1 \in 0..(Len(w) - 1)
    <3>1. PICK l : l = Len(w)
      OBVIOUS
    <3>2. l \in Nat /\ l # 0 /\ l # 1
      BY <3>1, <1>2, <1>3
    <3>3. 1 \in 0..(l - 1)
      BY <3>2
    <3> QED BY <3>1, <3>3
  <2>2. PICK q : ReadAt(Get(n), w, 1, q)
    BY <2>1 DEF Follows
  <2>3. Read(q) = Give(w[1])
    BY <2>2, <1>1, <1>9, <1>10 DEF ReadAt, Read
  <2> QED BY <2>3, ReadsIt
<1>12. Give(w[1]) = Give(v)
  <2>1. SubSeq(w, 1, 1) = w
    BY <1>11, WholePrefix
  <2> QED BY <2>1, <1>1, <1>9, <1>10
<1> QED BY <1>8, <1>12, ReadsIt

LEMMA ClientReads ==
  ASSUME HInv, NEW v \in Value, Answer(v), published # Nothing, ~failed,
         NEW n \in Indexed, Now.expr = Get(n)
  PROVE  v = published.state[n]
<1>1. /\ frames # <<>> /\ Now.kind = "client" /\ Step(Now.expr, Now.vals) = Give(v)
  BY DEF Answer, In, Running, Returns, Does, Give
<1>2. StackInv /\ Framed(frames, accumulate) /\ InPhase /\ sheet \in Sheets
  BY Evaluations DEF HInv
<1>3. Len(frames) = 1 /\ Now = frames[1] /\ Root = "client" /\ Now.vals \in Seq(Value)
  BY <1>1, <1>2, InnermostIs DEF Roots
<1>4. phase = "idle"
  BY <1>1, <1>2, <1>3 DEF InPhase
<1>5. Clean
  BY DEF Clean
<1>6. Chained(frames)
  BY <1>5 DEF HInv, Sound, InProgress
<1>7. Faithful(Now)
  BY <1>3, <1>6 DEF Chained
<1>8. Follows(Get(n), Now.vals, NoCell, {})
  BY <1>1, <1>7 DEF Faithful
<1>9. n \in Evaluable
  BY <1>2, NamesAre
<1>10. v = state[n]
  BY <1>1, <1>3, <1>8, <1>9, GetReturns
<1> QED BY <1>4, <1>10 DEF HInv, Sound, AllSeen

-----------------------------------------------------------------------------
(* In a sheet that is layered, as long as no update throws, every monitor of a value
   was last told the value its cell has when an update ends and from then on: update
   tells what it marked dirty, and it marks every cell whose value it has changed,
   once for each update. *)
THEOREM MonitorsTold ==
  ASSUME \A s \in Sheets : Layered(s)
  PROVE  HSheetSpec => []MonitorsInSyncUnlessFailed
<1>1. SHInit => HInv
  BY HInvInit
<1>2. HInv /\ [SHNext]_shvars => HInv'
  BY HInvStep
<1>3. HInv => MonitorsInSyncUnlessFailed
  BY DEF HInv, Sound, Told, MonitorsInSyncUnlessFailed, MonitorsInSync, Ended, Resting
<1> QED BY <1>1, <1>2, <1>3, PTL DEF HSheetSpec

(* In a sheet that is layered, as long as no update throws, get(name) between updates
   returns the value that the last update left in the cell, whatever has been set,
   touched or initialized again since: all it reads is evaluated, and what set
   changes are the inputs. *)
THEOREM ClientSeesPublished ==
  ASSUME \A s \in Sheets : Layered(s)
  PROVE  HSheetSpec => ClientSeesOutputUnlessFailed
<1>1. SHInit => HInv
  BY HInvInit
<1>2. HInv /\ [SHNext]_shvars => HInv'
  BY HInvStep
<1>3. HInv /\ [SHNext]_shvars =>
        [ \A v \in Value : (Answer(v) /\ published # Nothing /\ ~failed) =>
            \A n \in Indexed : Now.expr = Get(n) => v = published.state[n] ]_shvars
  BY ClientReads
<1> QED BY <1>1, <1>2, <1>3, PTL DEF HSheetSpec, ClientSeesOutputUnlessFailed

(* In a sheet that is layered and whose cells read themselves once, an update that
   came to its end leaves in every cell what its expression comes to when it reads the
   values the other cells hold, and of itself what a relate clause derives or its
   input: the order in which update and the reads inside it reach the cells, the
   terms, the get stack and the inputs written back during the loop make no
   difference. *)
THEOREM ValuesCorrect ==
  ASSUME \A s \in Sheets : Layered(s), \A s \in Sheets : ReadsOnce(s)
  PROVE  HSheetSpec => []ValuesRight
<1>1. SHInit => HInv
  BY HInvInit
<1>2. HInv /\ [SHNext]_shvars => HInv'
  BY HInvStep
<1>3. HInv => ValuesRight
  <2> SUFFICES ASSUME HInv, Ended, changed = {}, ~failed, NEW n \in evaluated
               PROVE  Outcome(sheet.expr[n], SeenBut(n, Unfiltered(n))) = [do |-> "return", value |-> state[n]]
    BY DEF ValuesRight
  <2>1. Clean /\ phase = "idle"
    BY DEF Clean, Ended, Resting
  <2>2. n \in DOMAIN sheet.expr /\ Correct(n)
    BY <2>1 DEF HInv, Sound, AllCorrect
  <2>3. TypeOK /\ Clauses /\ sheet \in Sheets /\ Layered(sheet) /\ ReadsOnce(sheet)
    BY Evaluations DEF HInv
  <2> QED BY <2>2, <2>3, CorrectIs DEF Give
<1> QED BY <1>1, <1>2, <1>3, PTL DEF HSheetSpec
=============================================================================

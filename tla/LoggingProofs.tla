---------------------------- MODULE LoggingProofs ----------------------------
(***************************************************************************)
(* What is logged and what errors tell, for every output and every history *)
(* of errors: the log writer accounts for all that a stream received, and  *)
(* an error's context is what was said along its own history.              *)
(* Both are inductions over data, over how far a buffer is scanned and     *)
(* along the links of an error: the least number where one would fail      *)
(* (LeastNumber) takes the place of an induction rule.                     *)
(***************************************************************************)
EXTENDS Logging, FiniteSetTheorems, WellFoundedInduction, TLAPS

(* A set of numbers has a least one, so what fails fails somewhere first.  *)
LEMMA LeastNumber ==
  ASSUME NEW T, T \subseteq Nat, T # {}
  PROVE  \E m \in T : \A k \in T : m <= k
<1>1. PICK m \in T : \A k \in T : ~(<<k, m>> \in OpToRel(<, Nat))
  BY WFMin, NatLessThanWellFounded
<1>2. \A k \in T : ~(k < m)
  BY <1>1 DEF OpToRel
<1> QED BY <1>2

Downward(ends, links, n) == \A j \in 1..n : j \notin ends => links[j] \in 0..(j - 1)
IsWay(w, ends, links, n) ==
  w = [j \in 0..n |-> IF j = 0 \/ j \in ends THEN j ELSE w[links[j]]]

(* Links that lead down make a walk from every number, down to 0 or an end. *)
LEMMA WayExists ==
  ASSUME NEW ends, NEW links, NEW n \in Nat, Downward(ends, links, n)
  PROVE  \E w \in [0..n -> 0..n] : IsWay(w, ends, links, n)
<1> DEFINE Down(m) == Downward(ends, links, m) => \E w \in [0..m -> 0..m] : IsWay(w, ends, links, m)
           T == {m \in Nat : ~Down(m)}
<1> SUFFICES ASSUME T # {} PROVE FALSE
  OBVIOUS
<1>1. PICK m \in T : \A k \in T : m <= k
  <2>1. T \subseteq Nat
    OBVIOUS
  <2> QED BY <2>1, LeastNumber
<1>2. CASE m = 0
  <2>1. IsWay([j \in 0..0 |-> 0], ends, links, 0) /\ [j \in 0..0 |-> 0] \in [0..0 -> 0..0]
    BY DEF IsWay
  <2> QED BY <1>1, <1>2, <2>1
<1>3. CASE m # 0
  <2>1. m - 1 \in Nat /\ m - 1 \notin T /\ Downward(ends, links, m)
    BY <1>1, <1>3
  <2>2. Downward(ends, links, m - 1)
    BY <2>1 DEF Downward
  <2>3. PICK v \in [0..(m - 1) -> 0..(m - 1)] : IsWay(v, ends, links, m - 1)
    BY <2>1, <2>2
  <2> DEFINE w == [j \in 0..m |-> IF j = m THEN IF m \in ends THEN m ELSE v[links[m]] ELSE v[j]]
  <2>4. m \notin ends => links[m] \in 0..(m - 1)
    BY <1>3, <2>1 DEF Downward
  <2>5. w \in [0..m -> 0..m]
    BY <2>1, <2>4
  <2>6. ASSUME NEW j \in 0..m PROVE w[j] = IF j = 0 \/ j \in ends THEN j ELSE w[links[j]]
    <3>1. CASE j = m
      BY <1>3, <2>1, <2>4, <3>1
    <3>2. CASE j # m
      <4>0. j \in 0..(m - 1) /\ (j # 0 => j \in 1..m)
        BY <2>1, <3>2
      <4>1. ASSUME j # 0, j \notin ends PROVE links[j] \in 0..(m - 1)
        <5>1. links[j] \in 0..(j - 1)
          BY <2>1, <4>0, <4>1 DEF Downward
        <5> QED BY <2>1, <4>0, <5>1
      <4>2. v[j] = IF j = 0 \/ j \in ends THEN j ELSE v[links[j]]
        BY <2>3, <4>0 DEF IsWay
      <4> QED BY <2>1, <3>2, <4>0, <4>1, <4>2
    <3> QED BY <3>1, <3>2
  <2>7. IsWay(w, ends, links, m)
    <3> HIDE DEF w
    <3>1. w = [j \in 0..m |-> w[j]]
      BY <2>5
    <3> QED BY <2>6, <3>1 DEF IsWay
  <2> QED BY <1>1, <2>5, <2>7
<1> QED BY <1>2, <1>3

(* Two walks over the same links are the same as far as both go.           *)
LEMMA WaysAgree ==
  ASSUME NEW ends, NEW links, NEW n \in Nat, Downward(ends, links, n),
         NEW more, NEW longer, NEW m \in Nat, n <= m,
         \A j \in 1..n : (j \in ends <=> j \in more) /\ links[j] = longer[j],
         NEW v, IsWay(v, ends, links, n), NEW w, IsWay(w, more, longer, m)
  PROVE  \A j \in 0..n : v[j] = w[j]
<1> DEFINE T == {j \in 0..n : v[j] # w[j]}
<1> SUFFICES ASSUME T # {} PROVE FALSE
  OBVIOUS
<1>1. PICK k \in T : \A j \in T : k <= j
  <2>1. T \subseteq Nat
    OBVIOUS
  <2> QED BY <2>1, LeastNumber
<1>2. /\ v[k] = IF k = 0 \/ k \in ends THEN k ELSE v[links[k]]
      /\ w[k] = IF k = 0 \/ k \in more THEN k ELSE w[longer[k]]
  BY DEF IsWay
<1>3. k \in 1..n /\ k \notin ends /\ k \notin more /\ links[k] = longer[k]
  BY <1>1, <1>2
<1>4. links[k] \in 0..(k - 1)
  BY <1>3 DEF Downward
<1>5. links[k] \in 0..n /\ links[k] \notin T
  BY <1>1, <1>3, <1>4
<1> QED BY <1>1, <1>2, <1>3, <1>5

(* FirstOf is where that walk ends.                                        *)
LEMMA FirstOfIs ==
  ASSUME NEW ends, NEW links, NEW n \in Nat, Downward(ends, links, n)
  PROVE  \E w \in [0..n -> 0..n] : IsWay(w, ends, links, n) /\ Errs!FirstOf(ends, links, n) = w[n]
<1> DEFINE Way == CHOOSE w : w = [j \in 0..n |-> IF j = 0 \/ j \in ends THEN j ELSE w[links[j]]]
<1>1. PICK w \in [0..n -> 0..n] : IsWay(w, ends, links, n)
  BY WayExists
<1>2. IsWay(Way, ends, links, n)
  BY <1>1 DEF IsWay
<1>3. \A j \in 0..n : w[j] = Way[j]
  <2> HIDE DEF Way
  <2> QED BY <1>1, <1>2, WaysAgree
<1>4. Errs!FirstOf(ends, links, n) = Way[n]
  BY DEF Errs!FirstOf
<1>5. Errs!FirstOf(ends, links, n) = w[n]
  <2> HIDE DEF Way
  <2> QED BY <1>3, <1>4
<1> QED BY <1>1, <1>5

(* The first on the way is the error itself, or the first from the next.   *)
LEMMA FirstOfUnfolds ==
  ASSUME NEW ends, NEW links, NEW n \in Nat, Downward(ends, links, n)
  PROVE  /\ Errs!FirstOf(ends, links, n) \in 0..n
         /\ n = 0 \/ n \in ends => Errs!FirstOf(ends, links, n) = n
         /\ n # 0 /\ n \notin ends =>
              Errs!FirstOf(ends, links, n) = Errs!FirstOf(ends, links, links[n])
<1>1. PICK w \in [0..n -> 0..n] : IsWay(w, ends, links, n) /\ Errs!FirstOf(ends, links, n) = w[n]
  BY FirstOfIs
<1>2. w[n] = IF n = 0 \/ n \in ends THEN n ELSE w[links[n]]
  BY <1>1 DEF IsWay
<1>3. ASSUME n # 0 /\ n \notin ends PROVE Errs!FirstOf(ends, links, links[n]) = w[links[n]]
  <2>0. links[n] \in 0..(n - 1)
    BY <1>3 DEF Downward
  <2>1. /\ links[n] \in Nat /\ links[n] <= n
        /\ Downward(ends, links, links[n])
    BY <2>0 DEF Downward
  <2>2. PICK v \in [0..links[n] -> 0..links[n]] : /\ IsWay(v, ends, links, links[n])
                                                  /\ Errs!FirstOf(ends, links, links[n]) = v[links[n]]
    BY <2>1, FirstOfIs
  <2>3. \A j \in 0..links[n] : v[j] = w[j]
    BY <1>1, <2>1, <2>2, WaysAgree
  <2> QED BY <2>1, <2>2, <2>3
<1> QED BY <1>1, <1>2, <1>3

(* What comes later does not change it.                                    *)
LEMMA FirstOfStays ==
  ASSUME NEW ends, NEW links, NEW n \in Nat, Downward(ends, links, n), NEW more, NEW longer,
         \A j \in 1..n : (j \in ends <=> j \in more) /\ links[j] = longer[j]
  PROVE  Errs!FirstOf(ends, links, n) = Errs!FirstOf(more, longer, n)
<1>1. Downward(more, longer, n)
  BY DEF Downward
<1>2. PICK v : IsWay(v, ends, links, n) /\ Errs!FirstOf(ends, links, n) = v[n]
  BY FirstOfIs
<1>3. PICK w : IsWay(w, more, longer, n) /\ Errs!FirstOf(more, longer, n) = w[n]
  BY <1>1, FirstOfIs
<1>4. \A j \in 0..n : v[j] = w[j]
  BY <1>2, <1>3, WaysAgree
<1> QED BY <1>2, <1>3, <1>4

(* One link more: from below, what was first stays first.                  *)
OneMore(ends, links, more, longer, n) ==
  /\ \A i \in 0..n : /\ Errs!FirstOf(more, longer, i) = Errs!FirstOf(ends, links, i)
                     /\ Errs!FirstOf(ends, links, i) \in 0..i
  /\ Errs!FirstOf(more, longer, n + 1) =
       IF n + 1 \in more THEN n + 1 ELSE Errs!FirstOf(ends, links, longer[n + 1])

(* OneMore is what one link more does.                                     *)
LEMMA FirstOfMore ==
  ASSUME NEW ends, NEW links, NEW n \in Nat, Downward(ends, links, n), NEW more, NEW longer,
         \A j \in 1..n : (j \in ends <=> j \in more) /\ links[j] = longer[j],
         longer[n + 1] \in 0..n
  PROVE  OneMore(ends, links, more, longer, n)
<1>1. ASSUME NEW i \in 0..n
      PROVE  /\ Errs!FirstOf(more, longer, i) = Errs!FirstOf(ends, links, i)
             /\ Errs!FirstOf(ends, links, i) \in 0..i
  <2>1. i \in Nat /\ 1..i \subseteq 1..n
    OBVIOUS
  <2>2. Downward(ends, links, i)
    BY <2>1 DEF Downward
  <2> QED BY <2>1, <2>2, FirstOfStays, FirstOfUnfolds
<1>2. Downward(more, longer, n + 1)
  <2> SUFFICES ASSUME NEW j \in 1..(n + 1), j \notin more PROVE longer[j] \in 0..(j - 1)
    BY DEF Downward
  <2> QED BY DEF Downward
<1>3. n + 1 \in Nat /\ n + 1 # 0
  OBVIOUS
<1> QED BY <1>1, <1>2, <1>3, FirstOfUnfolds DEF OneMore

(* It is one of the ends.                                                  *)
LEMMA FirstOfEnds ==
  ASSUME NEW ends, NEW links, NEW n \in Nat, Downward(ends, links, n)
  PROVE  Errs!FirstOf(ends, links, n) \in ends \cup {0}
<1> DEFINE T == {j \in 0..n : Errs!FirstOf(ends, links, j) \notin ends \cup {0}}
<1> SUFFICES ASSUME T # {} PROVE FALSE
  OBVIOUS
<1>1. PICK k \in T : \A j \in T : k <= j
  <2>1. T \subseteq Nat
    OBVIOUS
  <2> QED BY <2>1, LeastNumber
<1>2. k \in Nat /\ Downward(ends, links, k)
  BY DEF Downward
<1>3. k \in 1..n /\ k \notin ends
  BY <1>1, <1>2, FirstOfUnfolds
<1>4. links[k] \in 0..(k - 1) /\ Errs!FirstOf(ends, links, k) = Errs!FirstOf(ends, links, links[k])
  BY <1>2, <1>3, FirstOfUnfolds DEF Downward
<1>5. links[k] \in T
  BY <1>1, <1>3, <1>4
<1> QED BY <1>1, <1>3, <1>4, <1>5

(* If no way to one of others starts again from one of ends, what is first *)
(* of the others is first of them from the first of ends.                  *)
LEMMA FirstOfBoth ==
  ASSUME NEW ends, NEW links, NEW n \in Nat, Downward({}, links, n), NEW others,
         \A j \in 1..n : j \in others => Errs!FirstOf(ends, links, j) = 0,
         Errs!FirstOf(ends, links, n) # 0
  PROVE  Errs!FirstOf(others, links, n) = Errs!FirstOf(others, links, Errs!FirstOf(ends, links, n))
<1> DEFINE First(j) == Errs!FirstOf(ends, links, j)
           Other(j) == Errs!FirstOf(others, links, j)
           T == {j \in 0..n : First(j) # 0 /\ Other(j) # Other(First(j))}
<1> SUFFICES ASSUME T # {} PROVE FALSE
  BY DEF T
<1>1. PICK k \in T : \A j \in T : k <= j
  <2>1. T \subseteq Nat
    OBVIOUS
  <2> QED BY <2>1, LeastNumber
<1>2. k \in Nat /\ Downward(ends, links, k) /\ Downward(others, links, k)
  BY DEF Downward
<1>3. k # 0 /\ k \notin ends
  <2> HIDE DEF Other
  <2> QED BY <1>1, <1>2, FirstOfUnfolds
<1>4. k \in 1..n /\ k \notin others /\ links[k] \in 0..(k - 1)
  BY <1>1, <1>3 DEF Downward
<1>5. First(k) = First(links[k]) /\ Other(k) = Other(links[k])
  BY <1>2, <1>3, <1>4, FirstOfUnfolds
<1>6. links[k] \in T
  <2> HIDE DEF First, Other
  <2> QED BY <1>1, <1>4, <1>5
<1> QED BY <1>1, <1>4, <1>6

-----------------------------------------------------------------------------
(* Errors with context.                                                    *)

Hows ==
  {<<"plain">>, <<"fmt">>, <<"new">>, <<"wrap">>} \cup ({"code"} \X Codes)
    \cup ({"resource"} \X Resources) \cup ({"field"} \X Fields \X Values)

FieldMap == [Fields -> Values \cup {Errs!None}]

ErrorType ==
  [kind : {"plain", "fmt", "contextual"}, original : Nat,
   code : Codes \cup {Errs!Unknown, Errs!None}, resource : Resources \cup {Errs!None},
   fields : Nat, from : Nat, how : Hows]

(* The last thing said along the history of i in one of these ways.        *)
Said(i, ways, missing) ==
  LET j == Errs!Latest(i, ways) IN IF j = 0 THEN missing ELSE Tail(errs[j].how)

(* What ContextIsItsOwn asks of one error.                                 *)
Tells(i) ==
  /\ <<Errs!GetCode(i)>> = Said(i, {"code"} \X Codes, <<Errs!Unknown>>)
  /\ <<Errs!GetResource(i)>> = Said(i, {"resource"} \X Resources, <<Errs!None>>)
  /\ \A f \in Fields :
       <<f, Errs!GetFields(i)[f]>> = Said(i, {"field"} \X {f} \X Values, <<f, Errs!None>>)

Keeps(i) == errs[Errs!Root(i)].kind = "plain" => Errs!Finds(i, Errs!Root(i))

(* An error is made of earlier ones, with a map that is there.             *)
ErrorInv ==
  /\ errs \in Seq(ErrorType)
  /\ maps \in Seq(FieldMap)
  /\ \A i \in Errs!Made :
       /\ errs[i].original \in 0..(i - 1) /\ errs[i].from \in 0..(i - 1)
       /\ errs[i].kind = "contextual" => errs[i].fields \in DOMAIN maps
       /\ errs[i].kind = "plain" => errs[i].original = 0
       /\ Errs!Root(i) # 0 /\ Tells(i) /\ Keeps(i)

(* One error more, its map an old one or a new one.                        *)
Grows(x) ==
  /\ x \in ErrorType
  /\ x.original \in 0..Len(errs) /\ x.from \in 0..Len(errs)
  /\ x.kind = "contextual" => x.fields \in DOMAIN maps'
  /\ x.kind = "plain" => x.original = 0
  /\ errs' = Append(errs, x)
  /\ \/ maps' = maps
     \/ \E m \in FieldMap : maps' = Append(maps, m)

(* The links of the errors that there are stay.                            *)
LEMMA LinksStay ==
  ASSUME ErrorInv, NEW x, Grows(x)
  PROVE  /\ Len(errs) \in Nat /\ Len(errs') = Len(errs) + 1
         /\ Errs!Made = 1..Len(errs) /\ Errs!Made' = 1..(Len(errs) + 1)
         /\ errs' \in Seq(ErrorType) /\ maps' \in Seq(FieldMap)
         /\ \A i \in 1..Len(errs) : errs'[i] = errs[i]
         /\ errs'[Len(errs) + 1] = x
         /\ \A k \in DOMAIN maps : k \in DOMAIN maps' /\ maps'[k] = maps[k]
         /\ \A i \in 1..Len(errs) : /\ Errs!Originals[i] = errs[i].original
                                     /\ Errs!Originals'[i] = errs[i].original
                                     /\ Errs!History[i] = errs[i].from
                                     /\ Errs!History'[i] = errs[i].from
         /\ Errs!Originals'[Len(errs) + 1] = x.original
         /\ Errs!History'[Len(errs) + 1] = x.from
         /\ Downward({}, Errs!Originals, Len(errs)) /\ Downward({}, Errs!History, Len(errs))
<1>1. /\ Len(errs) \in Nat /\ Len(errs') = Len(errs) + 1 /\ errs' \in Seq(ErrorType)
      /\ Errs!Made = 1..Len(errs) /\ Errs!Made' = 1..(Len(errs) + 1)
      /\ \A i \in 1..Len(errs) : errs'[i] = errs[i]
      /\ errs'[Len(errs) + 1] = x
  BY DEF ErrorInv, Grows, Errs!Made
<1>2. maps' \in Seq(FieldMap) /\ \A k \in DOMAIN maps : k \in DOMAIN maps' /\ maps'[k] = maps[k]
  <2>1. CASE maps' = maps
    BY <2>1 DEF ErrorInv
  <2>2. ASSUME NEW m \in FieldMap, maps' = Append(maps, m)
        PROVE  maps' \in Seq(FieldMap) /\ \A k \in DOMAIN maps : k \in DOMAIN maps' /\ maps'[k] = maps[k]
    BY <2>2 DEF ErrorInv
  <2> QED BY <2>1, <2>2 DEF Grows
<1>3. \A i \in 1..Len(errs) : /\ Errs!Originals[i] = errs[i].original
                              /\ Errs!History[i] = errs[i].from
  BY <1>1 DEF Errs!Originals, Errs!History
<1>4. \A i \in 1..(Len(errs) + 1) : /\ Errs!Originals'[i] = errs'[i].original
                                    /\ Errs!History'[i] = errs'[i].from
  BY <1>1 DEF Errs!Originals, Errs!History
<1>5. Downward({}, Errs!Originals, Len(errs)) /\ Downward({}, Errs!History, Len(errs))
  BY <1>1, <1>3 DEF Downward, ErrorInv
<1> QED BY <1>1, <1>2, <1>3, <1>4, <1>5

(* Of the errors that there are, the walks stay what they were; from the   *)
(* new one they go on from what it was made of.                            *)
LEMMA WalksStay ==
  ASSUME ErrorInv, NEW x, Grows(x), NEW n, n = Len(errs)
  PROVE  /\ \A i \in 0..n :
              /\ Errs!As(i)' = Errs!As(i) /\ Errs!As(i) \in 0..i
              /\ Errs!Root(i)' = Errs!Root(i) /\ Errs!Root(i) \in 0..i
              /\ \A ways : Errs!Latest(i, ways)' = Errs!Latest(i, ways) /\ Errs!Latest(i, ways) \in 0..i
              /\ \A t : Errs!Finds(i, t)' = Errs!Finds(i, t)
         /\ Errs!As(n + 1)' = IF x.kind = "contextual" THEN n + 1 ELSE Errs!As(x.original)
         /\ Errs!Root(n + 1)' = IF x.from = 0 THEN n + 1 ELSE Errs!Root(x.from)
         /\ \A ways : Errs!Latest(n + 1, ways)' =
                         IF x.how \in ways THEN n + 1 ELSE Errs!Latest(x.from, ways)
         /\ \A t : t = n + 1 \/ Errs!Finds(x.original, t) => Errs!Finds(n + 1, t)'
<1>0. PICK original, original2, from, from2 :
        /\ original = Errs!Originals /\ original2 = Errs!Originals'
        /\ from = Errs!History /\ from2 = Errs!History'
  OBVIOUS
<1>1. /\ n \in Nat /\ Errs!Made = 1..n /\ Errs!Made' = 1..(n + 1)
      /\ \A i \in 1..n : errs'[i] = errs[i]
      /\ errs'[n + 1] = x
      /\ \A i \in 1..n : original[i] = original2[i] /\ from[i] = from2[i]
      /\ original2[n + 1] = x.original /\ from2[n + 1] = x.from
      /\ x.original \in 0..n /\ x.from \in 0..n
  BY <1>0, LinksStay DEF Grows
<1>2. \A ends : Downward(ends, original, n) /\ Downward(ends, from, n)
  BY <1>0, LinksStay DEF Downward
<1>3. ASSUME NEW ends, NEW more, \A j \in 1..n : j \in ends <=> j \in more
      PROVE  OneMore(ends, original, more, original2, n) /\ OneMore(ends, from, more, from2, n)
  <2>1. Downward(ends, original, n) /\ Downward(ends, from, n)
    BY <1>2
  <2>2. /\ \A j \in 1..n : (j \in ends <=> j \in more) /\ original[j] = original2[j]
        /\ \A j \in 1..n : (j \in ends <=> j \in more) /\ from[j] = from2[j]
    BY <1>1, <1>3
  <2>3. original2[n + 1] \in 0..n /\ from2[n + 1] \in 0..n
    BY <1>1
  <2>4. OneMore(ends, original, more, original2, n)
    BY <1>1, <2>1, <2>2, <2>3, FirstOfMore
  <2>5. OneMore(ends, from, more, from2, n)
    BY <1>1, <2>1, <2>2, <2>3, FirstOfMore
  <2> QED BY <2>4, <2>5
<1>4. /\ \A i \in 0..n : Errs!As(i)' = Errs!As(i) /\ Errs!As(i) \in 0..i
      /\ Errs!As(n + 1)' = IF x.kind = "contextual" THEN n + 1 ELSE Errs!As(x.original)
  <2>1. PICK ends, more : /\ ends = {i \in Errs!Made : errs[i].kind = "contextual"}
                          /\ more = {i \in Errs!Made : errs[i].kind = "contextual"}'
    OBVIOUS
  <2>2. \A i \in 1..n : i \in ends <=> i \in more
    BY <1>1, <2>1
  <2>3. n + 1 \in more <=> x.kind = "contextual"
    BY <1>1, <2>1
  <2>4. /\ \A i \in 0..n : Errs!As(i) = Errs!FirstOf(ends, original, i)
        /\ \A i \in 0..(n + 1) : Errs!As(i)' = Errs!FirstOf(more, original2, i)
    BY <1>0, <2>1 DEF Errs!As
  <2>5. n + 1 \in 0..(n + 1) /\ 0..n \subseteq 0..(n + 1)
    BY <1>1
  <2>6. OneMore(ends, original, more, original2, n)
    BY <1>3, <2>2
  <2> QED BY <1>1, <2>3, <2>4, <2>5, <2>6 DEF OneMore
<1>5. ASSUME NEW ways
      PROVE  /\ \A i \in 0..n : Errs!Latest(i, ways)' = Errs!Latest(i, ways) /\ Errs!Latest(i, ways) \in 0..i
             /\ Errs!Latest(n + 1, ways)' = IF x.how \in ways THEN n + 1 ELSE Errs!Latest(x.from, ways)
  <2>1. PICK ends, more : /\ ends = {i \in Errs!Made : errs[i].how \in ways}
                          /\ more = {i \in Errs!Made : errs[i].how \in ways}'
    OBVIOUS
  <2>2. \A i \in 1..n : i \in ends <=> i \in more
    BY <1>1, <2>1
  <2>3. n + 1 \in more <=> x.how \in ways
    BY <1>1, <2>1
  <2>4. /\ \A i \in 0..n : Errs!Latest(i, ways) = Errs!FirstOf(ends, from, i)
        /\ \A i \in 0..(n + 1) : Errs!Latest(i, ways)' = Errs!FirstOf(more, from2, i)
    BY <1>0, <2>1 DEF Errs!Latest
  <2>5. n + 1 \in 0..(n + 1) /\ 0..n \subseteq 0..(n + 1)
    BY <1>1
  <2>6. OneMore(ends, from, more, from2, n)
    BY <1>3, <2>2
  <2> QED BY <1>1, <2>3, <2>4, <2>5, <2>6 DEF OneMore
<1>6. /\ \A i \in 0..n : Errs!Root(i)' = Errs!Root(i) /\ Errs!Root(i) \in 0..i
      /\ Errs!Root(n + 1)' = IF x.from = 0 THEN n + 1 ELSE Errs!Root(x.from)
  <2>1. PICK ends, more : /\ ends = {i \in Errs!Made : errs[i].from = 0}
                          /\ more = {i \in Errs!Made : errs[i].from = 0}'
    OBVIOUS
  <2>2. \A i \in 1..n : i \in ends <=> i \in more
    BY <1>1, <2>1
  <2>3. n + 1 \in more <=> x.from = 0
    BY <1>1, <2>1
  <2>4. /\ \A i \in 0..n : Errs!Root(i) = Errs!FirstOf(ends, from, i)
        /\ \A i \in 0..(n + 1) : Errs!Root(i)' = Errs!FirstOf(more, from2, i)
    BY <1>0, <2>1 DEF Errs!Root
  <2>5. n + 1 \in 0..(n + 1) /\ 0..n \subseteq 0..(n + 1)
    BY <1>1
  <2>6. OneMore(ends, from, more, from2, n)
    BY <1>3, <2>2
  <2> QED BY <1>1, <2>3, <2>4, <2>5, <2>6 DEF OneMore
<1>7. ASSUME NEW t
      PROVE  /\ \A i \in 0..n : Errs!Finds(i, t)' = Errs!Finds(i, t)
             /\ t = n + 1 \/ Errs!Finds(x.original, t) => Errs!Finds(n + 1, t)'
  <2>1. /\ \A i \in 0..n : Errs!Finds(i, t) = (Errs!FirstOf({t}, original, i) # 0)
        /\ \A i \in 0..(n + 1) : Errs!Finds(i, t)' = (Errs!FirstOf({t}, original2, i) # 0)
    BY <1>0 DEF Errs!Finds
  <2>2. /\ \A i \in 0..n : Errs!FirstOf({t}, original2, i) = Errs!FirstOf({t}, original, i)
        /\ Errs!FirstOf({t}, original2, n + 1) =
             IF n + 1 \in {t} THEN n + 1 ELSE Errs!FirstOf({t}, original, x.original)
    <3>1. PICK ends : ends = {t}
      OBVIOUS
    <3>2. \A j \in 1..n : j \in ends <=> j \in ends
      OBVIOUS
    <3>3. OneMore(ends, original, ends, original2, n)
      BY <1>3, <3>2
    <3> QED BY <1>1, <3>1, <3>3 DEF OneMore
  <2>3. \A i \in 0..n : Errs!Finds(i, t)' = Errs!Finds(i, t)
    <3> TAKE i \in 0..n
    <3>1. Errs!FirstOf({t}, original2, i) = Errs!FirstOf({t}, original, i)
      BY <2>2
    <3> QED BY <1>0, <3>1 DEF Errs!Finds
  <2>4. ASSUME t = n + 1 \/ Errs!Finds(x.original, t) PROVE Errs!Finds(n + 1, t)'
    <3>1. Errs!FirstOf({t}, original2, n + 1) # 0
      BY <1>0, <1>1, <2>2, <2>4 DEF Errs!Finds
    <3> QED BY <1>0, <3>1 DEF Errs!Finds
  <2> QED BY <2>3, <2>4
<1> QED BY <1>4, <1>5, <1>6, <1>7

(* Links go down.                                                          *)
LEMMA LinksGoDown ==
  ASSUME ErrorInv
  PROVE  /\ Len(errs) \in Nat /\ Errs!Made = 1..Len(errs)
         /\ \A ends : Downward(ends, Errs!Originals, Len(errs)) /\ Downward(ends, Errs!History, Len(errs))
<1>1. Len(errs) \in Nat /\ Errs!Made = 1..Len(errs)
  BY DEF ErrorInv, Errs!Made
<1> QED BY <1>1 DEF ErrorInv, Downward, Errs!Originals, Errs!History

(* What As finds is a contextual error.                                    *)
LEMMA AsIsContextual ==
  ASSUME ErrorInv, NEW i \in 0..Len(errs)
  PROVE  /\ Errs!As(i) \in 0..i
         /\ Errs!As(i) # 0 => /\ Errs!As(i) \in Errs!Made
                              /\ errs[Errs!As(i)].kind = "contextual"
                              /\ errs[Errs!As(i)].fields \in DOMAIN maps
<1> DEFINE ends == {j \in Errs!Made : errs[j].kind = "contextual"}
<1>1. i \in Nat /\ Downward(ends, Errs!Originals, i)
  <2>1. Downward(ends, Errs!Originals, Len(errs)) /\ Len(errs) \in Nat
    BY LinksGoDown
  <2> QED BY <2>1 DEF Downward
<1>2. Errs!As(i) = Errs!FirstOf(ends, Errs!Originals, i)
  BY DEF Errs!As
<1>3. Errs!As(i) \in 0..i /\ Errs!As(i) \in ends \cup {0}
  <2> HIDE DEF ends
  <2> QED BY <1>1, <1>2, FirstOfUnfolds, FirstOfEnds
<1> QED BY <1>3 DEF ErrorInv

(* Below the contextual error that As finds, a plain one is still found.   *)
LEMMA FindsBelow ==
  ASSUME ErrorInv, NEW e \in Errs!Made, NEW r \in Errs!Made, errs[r].kind = "plain",
         Errs!Finds(e, r), Errs!As(e) # 0
  PROVE  Errs!Finds(errs[Errs!As(e)].original, r)
<1> DEFINE ends == {j \in Errs!Made : errs[j].kind = "contextual"}
<1>1. PICK c : c = Errs!As(e)
  OBVIOUS
<1>2. PICK n : n = Len(errs)
  OBVIOUS
<1>3. n \in Nat /\ Errs!Made = 1..n /\ \A others : Downward(others, Errs!Originals, n)
  BY <1>2, LinksGoDown
<1>4. c \in 1..e /\ e \in Nat /\ c \in Nat /\ c # 0 /\ errs[c].kind = "contextual" /\ c \in Errs!Made
  BY <1>1, <1>2, <1>3, AsIsContextual
<1>5. \A others : /\ Downward(others, Errs!Originals, e)
                  /\ Downward(others, Errs!Originals, c)
                  /\ Downward(others, Errs!Originals, r)
  BY <1>3, <1>4 DEF Downward
<1>6. Errs!FirstOf(ends, Errs!Originals, r) = 0
  <2>1. r \notin ends /\ Errs!Originals[r] = 0 /\ r \in Nat /\ r # 0
    BY <1>3 DEF ErrorInv, Errs!Originals
  <2>2. Errs!FirstOf(ends, Errs!Originals, r) = Errs!FirstOf(ends, Errs!Originals, 0)
    <3> HIDE DEF ends
    <3> QED BY <1>5, <2>1, FirstOfUnfolds
  <2>3. Downward(ends, Errs!Originals, 0)
    BY DEF Downward
  <2> HIDE DEF ends
  <2> QED BY <2>2, <2>3, FirstOfUnfolds
<1>7. Errs!FirstOf(ends, Errs!Originals, e) = c /\ Errs!FirstOf({r}, Errs!Originals, e) # 0
  BY <1>1 DEF Errs!As, Errs!Finds
<1>8. Errs!FirstOf({r}, Errs!Originals, e) = Errs!FirstOf({r}, Errs!Originals, c)
  <2>1. \A j \in 1..e : j \in {r} => Errs!FirstOf(ends, Errs!Originals, j) = 0
    BY <1>6
  <2> HIDE DEF ends
  <2>2. PICK others : others = {r}
    OBVIOUS
  <2>3. /\ Downward({}, Errs!Originals, e) /\ e \in Nat
        /\ \A j \in 1..e : j \in others => Errs!FirstOf(ends, Errs!Originals, j) = 0
        /\ Errs!FirstOf(ends, Errs!Originals, e) # 0
    BY <1>4, <1>5, <1>7, <2>1, <2>2
  <2>4. Errs!FirstOf(others, Errs!Originals, e)
          = Errs!FirstOf(others, Errs!Originals, Errs!FirstOf(ends, Errs!Originals, e))
    BY <2>3, FirstOfBoth
  <2> QED BY <1>7, <2>2, <2>4
<1>9. c \notin {r} /\ Errs!Originals[c] = errs[c].original
  BY <1>4 DEF Errs!Originals
<1>10. Errs!FirstOf({r}, Errs!Originals, c) = Errs!FirstOf({r}, Errs!Originals, Errs!Originals[c])
  BY <1>4, <1>5, <1>9, FirstOfUnfolds
<1> QED BY <1>1, <1>7, <1>8, <1>9, <1>10 DEF Errs!Finds

(* Nothing is said of no error.                                            *)
LEMMA NothingSaid ==
  /\ Tells(0)
  /\ Errs!As(0) = 0 /\ Errs!Root(0) = 0 /\ \A ways, missing : Said(0, ways, missing) = missing
<1>1. \A ends, links : Errs!FirstOf(ends, links, 0) = 0
  <2>1. \A ends, links : Downward(ends, links, 0)
    BY DEF Downward
  <2> QED BY <2>1, FirstOfUnfolds
<1>2. Errs!As(0) = 0 /\ Errs!Root(0) = 0 /\ \A ways : Errs!Latest(0, ways) = 0
  BY <1>1 DEF Errs!As, Errs!Root, Errs!Latest
<1>3. \A ways, missing : Said(0, ways, missing) = missing
  BY <1>2 DEF Said
<1>4. Tells(0)
  BY <1>2, <1>3 DEF Tells, Errs!GetCode, Errs!GetResource, Errs!GetFields, Errs!NoFields
<1> QED BY <1>2, <1>3, <1>4

(* What is said of the errors that there are stays; of the new one it is   *)
(* what it was made to say, or what is said of the one it was made of.     *)
LEMMA SayingsStay ==
  ASSUME ErrorInv, NEW x, Grows(x), NEW n, n = Len(errs)
  PROVE  /\ \A i \in 0..n : \A ways, missing : Said(i, ways, missing)' = Said(i, ways, missing)
         /\ \A ways, missing : Said(n + 1, ways, missing)' =
              IF x.how \in ways THEN Tail(x.how) ELSE Said(x.from, ways, missing)
         /\ \A i \in 0..n : /\ Errs!GetCode(i)' = Errs!GetCode(i)
                                     /\ Errs!GetResource(i)' = Errs!GetResource(i)
                                     /\ Errs!GetFields(i)' = Errs!GetFields(i)
         /\ \A i \in 0..n : Tells(i) /\ Tells(i)'
         /\ \A i \in 1..n : Keeps(i)'
<1>1. n \in Nat /\ x.from \in 0..n /\ Errs!Made = 1..n
  BY LinksStay DEF Grows
<1>2. \A i \in 1..n : errs'[i] = errs[i]
  BY LinksStay
<1>3. errs'[n + 1] = x
  BY LinksStay
<1>4. \A i \in 0..n : /\ Errs!As(i)' = Errs!As(i) /\ Errs!As(i) \in 0..n
                      /\ Errs!Root(i)' = Errs!Root(i) /\ Errs!Root(i) \in 0..i
                      /\ \A ways : Errs!Latest(i, ways)' = Errs!Latest(i, ways) /\ Errs!Latest(i, ways) \in 0..n
                      /\ \A t : Errs!Finds(i, t)' = Errs!Finds(i, t)
  BY <1>1, WalksStay
<1>5. \A ways : Errs!Latest(n + 1, ways)' = IF x.how \in ways THEN n + 1 ELSE Errs!Latest(x.from, ways)
  BY WalksStay
<1>6. ASSUME NEW i \in 0..n, NEW ways, NEW missing
      PROVE  Said(i, ways, missing)' = Said(i, ways, missing)
  <2> DEFINE j == Errs!Latest(i, ways)
  <2>1. j' = j /\ j \in 0..n
    BY <1>4
  <2>2. Said(i, ways, missing) = IF j = 0 THEN missing ELSE Tail(errs[j].how)
    BY DEF Said
  <2>3. Said(i, ways, missing)' = IF j' = 0 THEN missing ELSE Tail(errs'[j'].how)
    BY DEF Said
  <2>4. PICK k : k = j
    OBVIOUS
  <2>5. k = 0 \/ k \in 1..n
    BY <1>1, <2>1, <2>4
  <2>6. k # 0 => errs'[k] = errs[k]
    BY <1>2, <2>5
  <2> HIDE DEF j
  <2> QED BY <2>1, <2>2, <2>3, <2>4, <2>6
<1>7. ASSUME NEW ways, NEW missing
      PROVE  Said(n + 1, ways, missing)' = IF x.how \in ways THEN Tail(x.how) ELSE Said(x.from, ways, missing)
  <2>1. CASE x.how \in ways
    BY <1>1, <1>3, <1>5, <2>1 DEF Said
  <2>2. CASE x.how \notin ways
    <3>1. Errs!Latest(n + 1, ways)' = Errs!Latest(x.from, ways)'
      BY <1>1, <1>4, <1>5, <2>2
    <3>2. Said(n + 1, ways, missing)' = Said(x.from, ways, missing)'
      BY <3>1 DEF Said
    <3> QED BY <1>1, <1>6, <2>2, <3>2
  <2> QED BY <2>1, <2>2
<1>8. ASSUME NEW i \in 0..n
      PROVE  /\ Errs!GetCode(i)' = Errs!GetCode(i)
             /\ Errs!GetResource(i)' = Errs!GetResource(i)
             /\ Errs!GetFields(i)' = Errs!GetFields(i)
  <2>1. CASE Errs!As(i) = 0
    BY <1>4, <2>1 DEF Errs!GetCode, Errs!GetResource, Errs!GetFields, Errs!NoFields
  <2>2. CASE Errs!As(i) # 0
    <3>1. PICK c : c = Errs!As(i)
      OBVIOUS
    <3>2. c = Errs!As(i)' /\ c # 0
      BY <1>4, <2>2, <3>1
    <3>3. errs'[c] = errs[c] /\ errs[c].fields \in DOMAIN maps
      BY <1>1, <1>2, <2>2, <3>1, AsIsContextual
    <3>4. maps'[errs[c].fields] = maps[errs[c].fields]
      BY <3>3, LinksStay
    <3> QED BY <3>1, <3>2, <3>3, <3>4 DEF Errs!GetCode, Errs!GetResource, Errs!GetFields
  <2> QED BY <2>1, <2>2
<1>9. ASSUME NEW i \in 0..n PROVE Tells(i) /\ Tells(i)'
  <2>1. Tells(i)
    <3>1. CASE i = 0
      BY <3>1, NothingSaid
    <3>2. CASE i # 0
      BY <1>1, <3>2 DEF ErrorInv
    <3> QED BY <3>1, <3>2
  <2> QED BY <1>6, <1>8, <2>1 DEF Tells
<1>10. ASSUME NEW i \in 1..n PROVE Keeps(i)'
  <2>1. PICK r : r = Errs!Root(i)
    OBVIOUS
  <2>2. r = Errs!Root(i)' /\ r \in 0..n /\ i \in 0..n
    BY <1>1, <1>4, <2>1
  <2>3. Keeps(i)
    BY <1>1 DEF ErrorInv
  <2>4. Errs!Finds(i, r)' = Errs!Finds(i, r)
    BY <1>4, <2>2
  <2>5. r # 0
    BY <1>1, <2>1 DEF ErrorInv
  <2>6. errs'[r] = errs[r]
    BY <1>1, <1>2, <2>2, <2>5
  <2> QED BY <2>1, <2>2, <2>3, <2>4, <2>6 DEF Keeps
<1> QED BY <1>6, <1>7, <1>8, <1>9, <1>10

(* So the invariant stays if the new error tells what it should and finds  *)
(* the cause of the one it was made of.                                    *)
LEMMA NewError ==
  ASSUME ErrorInv, NEW x, Grows(x), NEW n, n = Len(errs),
         Tells(n + 1)',
         x.from # 0 => \/ x.original = x.from
                       \/ /\ Errs!As(x.from) # 0 /\ x.original = errs[Errs!As(x.from)].original
  PROVE  ErrorInv'
<1>1. /\ n \in Nat /\ x.from \in 0..n /\ x.original \in 0..n
      /\ Errs!Made = 1..n /\ Errs!Made' = 1..(n + 1)
      /\ errs' \in Seq(ErrorType) /\ maps' \in Seq(FieldMap)
      /\ \A i \in 1..n : errs'[i] = errs[i]
      /\ errs'[n + 1] = x
      /\ DOMAIN maps \subseteq DOMAIN maps'
  BY LinksStay DEF Grows
<1>2. ASSUME NEW i \in 1..n
      PROVE  /\ errs'[i].original \in 0..(i - 1) /\ errs'[i].from \in 0..(i - 1)
             /\ errs'[i].kind = "contextual" => errs'[i].fields \in DOMAIN maps'
             /\ errs'[i].kind = "plain" => errs'[i].original = 0
             /\ Errs!Root(i)' # 0 /\ Tells(i)' /\ Keeps(i)'
  <2>1. /\ errs[i].original \in 0..(i - 1) /\ errs[i].from \in 0..(i - 1)
        /\ errs[i].kind = "contextual" => errs[i].fields \in DOMAIN maps
        /\ errs[i].kind = "plain" => errs[i].original = 0
        /\ Errs!Root(i) # 0
    BY <1>1 DEF ErrorInv
  <2>2. i \in 0..n
    BY <1>1
  <2>3. Errs!Root(i)' # 0
    BY <2>1, <2>2, WalksStay
  <2>4. Tells(i)' /\ Keeps(i)'
    BY <2>2, SayingsStay
  <2> QED BY <1>1, <2>1, <2>3, <2>4
<1>3. Errs!Root(n + 1)' # 0 /\ Keeps(n + 1)'
  <2>1. CASE x.from = 0
    <3>1. Errs!Root(n + 1)' = n + 1 /\ Errs!Finds(n + 1, n + 1)'
      BY <2>1, WalksStay
    <3> QED BY <1>1, <3>1 DEF Keeps
  <2>2. CASE x.from # 0
    <3>1. PICK e : e = x.from
      OBVIOUS
    <3>2. e \in 1..n /\ e \in Errs!Made
      BY <1>1, <2>2, <3>1
    <3>3. PICK r : r = Errs!Root(e)
      OBVIOUS
    <3>4. r \in 1..n /\ Errs!Root(n + 1)' = r
      <4>1. Errs!Root(e) # 0 /\ Errs!Root(e) \in 0..e /\ Errs!Root(n + 1)' = Errs!Root(e)
        BY <1>1, <2>2, <3>1, <3>2, WalksStay DEF ErrorInv
      <4> QED BY <1>1, <3>2, <3>3, <4>1
    <3>5. errs[r].kind = "plain" => Errs!Finds(e, r)
      BY <3>2, <3>3 DEF ErrorInv, Keeps
    <3>6. ASSUME errs[r].kind = "plain" PROVE Errs!Finds(x.original, r)
      <4>1. CASE x.original = e
        BY <3>5, <3>6, <4>1
      <4>2. CASE Errs!As(e) # 0 /\ x.original = errs[Errs!As(e)].original
        BY <1>1, <3>2, <3>4, <3>5, <3>6, <4>2, FindsBelow
      <4> QED BY <2>2, <3>1, <4>1, <4>2
    <3>7. errs'[r].kind = "plain" => Errs!Finds(n + 1, r)'
      BY <1>1, <3>4, <3>6, WalksStay
    <3> QED BY <1>1, <3>4, <3>7 DEF Keeps
  <2> QED BY <2>1, <2>2
<1>4. ASSUME NEW i \in 1..(n + 1)
      PROVE  /\ errs'[i].original \in 0..(i - 1) /\ errs'[i].from \in 0..(i - 1)
             /\ errs'[i].kind = "contextual" => errs'[i].fields \in DOMAIN maps'
             /\ errs'[i].kind = "plain" => errs'[i].original = 0
             /\ Errs!Root(i)' # 0 /\ Tells(i)' /\ Keeps(i)'
  <2>1. CASE i \in 1..n
    BY <1>2, <2>1
  <2>2. CASE i = n + 1
    BY <1>1, <1>3, <2>2 DEF Grows
  <2> QED BY <1>1, <2>1, <2>2
<1> QED BY <1>1, <1>4 DEF ErrorInv

(* What a new contextual error tells, and what another one does.           *)
LEMMA NewTells ==
  ASSUME ErrorInv, NEW x, Grows(x), NEW n, n = Len(errs)
  PROVE  /\ x.kind = "contextual" => /\ Errs!GetCode(n + 1)' = x.code
                                     /\ Errs!GetResource(n + 1)' = x.resource
                                     /\ Errs!GetFields(n + 1)' = maps'[x.fields]
         /\ x.kind # "contextual" => /\ Errs!GetCode(n + 1)' = Errs!GetCode(x.original)
                                     /\ Errs!GetResource(n + 1)' = Errs!GetResource(x.original)
                                     /\ Errs!GetFields(n + 1)' = Errs!GetFields(x.original)
<1>1. n \in Nat /\ errs'[n + 1] = x /\ x.original \in 0..n
  BY LinksStay DEF Grows
<1>2. PICK c : c = Errs!As(n + 1)'
  OBVIOUS
<1>3. CASE x.kind = "contextual"
  <2>1. c = n + 1 /\ c # 0
    BY <1>1, <1>2, <1>3, WalksStay
  <2> QED BY <1>1, <1>2, <1>3, <2>1 DEF Errs!GetCode, Errs!GetResource, Errs!GetFields
<1>4. CASE x.kind # "contextual"
  <2>1. PICK o : o = x.original
    OBVIOUS
  <2>2. Errs!As(n + 1)' = Errs!As(o)'
    BY <1>1, <1>4, <2>1, WalksStay
  <2>3. /\ Errs!GetCode(n + 1)' = Errs!GetCode(o)'
        /\ Errs!GetResource(n + 1)' = Errs!GetResource(o)'
        /\ Errs!GetFields(n + 1)' = Errs!GetFields(o)'
    BY <2>2 DEF Errs!GetCode, Errs!GetResource, Errs!GetFields, Errs!NoFields
  <2> QED BY <1>1, <1>4, <2>1, <2>3, SayingsStay
<1> QED BY <1>3, <1>4

(* The ways of making an error differ in what they say.                    *)
LEMMA WaysDiffer ==
  /\ \A how \in {<<"plain">>, <<"fmt">>, <<"new">>, <<"wrap">>} :
       /\ how \in Hows /\ how \notin {"code"} \X Codes /\ how \notin {"resource"} \X Resources
       /\ \A f : how \notin {"field"} \X {f} \X Values
  /\ \A c \in Codes : /\ <<"code", c>> \in Hows /\ <<"code", c>> \in {"code"} \X Codes
                      /\ <<"code", c>> \notin {"resource"} \X Resources
                      /\ \A f : <<"code", c>> \notin {"field"} \X {f} \X Values
                      /\ Tail(<<"code", c>>) = <<c>>
  /\ \A r \in Resources : /\ <<"resource", r>> \in Hows /\ <<"resource", r>> \in {"resource"} \X Resources
                          /\ <<"resource", r>> \notin {"code"} \X Codes
                          /\ \A f : <<"resource", r>> \notin {"field"} \X {f} \X Values
                          /\ Tail(<<"resource", r>>) = <<r>>
  /\ \A f \in Fields, v \in Values :
       /\ <<"field", f, v>> \in Hows
       /\ <<"field", f, v>> \notin {"code"} \X Codes /\ <<"field", f, v>> \notin {"resource"} \X Resources
       /\ \A g : <<"field", f, v>> \in {"field"} \X {g} \X Values <=> g = f
       /\ Tail(<<"field", f, v>>) = <<f, v>>
<1>1. \A how \in {<<"plain">>, <<"fmt">>, <<"new">>, <<"wrap">>} :
       /\ how \in Hows /\ how \notin {"code"} \X Codes /\ how \notin {"resource"} \X Resources
       /\ \A f : how \notin {"field"} \X {f} \X Values
  BY DEF Hows
<1>2. \A c \in Codes : /\ <<"code", c>> \in Hows /\ <<"code", c>> \in {"code"} \X Codes
                      /\ <<"code", c>> \notin {"resource"} \X Resources
                      /\ \A f : <<"code", c>> \notin {"field"} \X {f} \X Values
  BY DEF Hows
<1>3. \A r \in Resources : /\ <<"resource", r>> \in Hows /\ <<"resource", r>> \in {"resource"} \X Resources
                          /\ <<"resource", r>> \notin {"code"} \X Codes
                          /\ \A f : <<"resource", r>> \notin {"field"} \X {f} \X Values
  BY DEF Hows
<1>4. \A f \in Fields, v \in Values :
       /\ <<"field", f, v>> \in Hows
       /\ <<"field", f, v>> \notin {"code"} \X Codes /\ <<"field", f, v>> \notin {"resource"} \X Resources
       /\ \A g : <<"field", f, v>> \in {"field"} \X {g} \X Values <=> g = f
  BY DEF Hows
<1>5. \A a : Tail(<<"code", a>>) = <<a>> /\ Tail(<<"resource", a>>) = <<a>>
  OBVIOUS
<1>6. \A a, b : Tail(<<"field", a, b>>) = <<a, b>>
  OBVIOUS
<1> QED BY <1>1, <1>2, <1>3, <1>4, <1>5, <1>6

(* The newest error either says a thing itself, or what was said before it *)
(* stands.                                                                 *)
LEMMA SaidOfNew ==
  ASSUME ErrorInv, NEW x, Grows(x), NEW n, n = Len(errs), NEW ways, NEW missing
  PROVE  Said(n + 1, ways, missing)' =
           IF x.how \in ways THEN Tail(x.how) ELSE Said(x.from, ways, missing)
BY SayingsStay

(* What an error made of e in this way should be given to tell.            *)
Given(how, e, code, resource, fields) ==
  /\ <<code>> = IF how \in {"code"} \X Codes THEN Tail(how) ELSE <<Errs!GetCode(e)>>
  /\ <<resource>> = IF how \in {"resource"} \X Resources THEN Tail(how) ELSE <<Errs!GetResource(e)>>
  /\ \A f \in Fields : <<f, fields[f]>> = IF how \in {"field"} \X {f} \X Values THEN Tail(how)
                                          ELSE <<f, Errs!GetFields(e)[f]>>

(* So a new error tells what it should if it was given what it says, and   *)
(* for the rest what the one it was made of tells.                         *)
LEMMA TellsNew ==
  ASSUME ErrorInv, NEW x, Grows(x), NEW n, n = Len(errs), NEW code, NEW resource, NEW fields,
         \/ /\ x.kind = "contextual"
            /\ code = x.code /\ resource = x.resource /\ fields = maps'[x.fields]
         \/ /\ x.kind # "contextual"
            /\ code = Errs!GetCode(x.original) /\ resource = Errs!GetResource(x.original)
            /\ fields = Errs!GetFields(x.original),
         Given(x.how, x.from, code, resource, fields)
  PROVE  Tells(n + 1)'
<1>1. n \in Nat /\ x.from \in 0..n
  BY LinksStay DEF Grows
<1>2. Tells(x.from)
  BY <1>1, SayingsStay
<1>3. ASSUME NEW ways, NEW missing
      PROVE  Said(n + 1, ways, missing)' =
               IF x.how \in ways THEN Tail(x.how) ELSE Said(x.from, ways, missing)
  BY SaidOfNew
<1>4. /\ Errs!GetCode(n + 1)' = code
      /\ Errs!GetResource(n + 1)' = resource
      /\ Errs!GetFields(n + 1)' = fields
  BY NewTells
<1>5. <<Errs!GetCode(n + 1)'>> = Said(n + 1, {"code"} \X Codes, <<Errs!Unknown>>)'
  BY <1>2, <1>3, <1>4 DEF Tells, Given
<1>6. <<Errs!GetResource(n + 1)'>> = Said(n + 1, {"resource"} \X Resources, <<Errs!None>>)'
  BY <1>2, <1>3, <1>4 DEF Tells, Given
<1>7. ASSUME NEW f \in Fields
      PROVE  <<f, Errs!GetFields(n + 1)'[f]>> = Said(n + 1, {"field"} \X {f} \X Values, <<f, Errs!None>>)'
  BY <1>2, <1>3, <1>4 DEF Tells, Given
<1> QED BY <1>5, <1>6, <1>7 DEF Tells, Errs!Unknown, Errs!None

(* Errors that are not contextual say nothing of their own.                *)
LEMMA PlainHolds ==
  ASSUME ErrorInv, Errs!Plain
  PROVE  ErrorInv'
<1> DEFINE x == Errs!Error("plain", 0, Errs!None, Errs!None, 0, 0, <<"plain">>)
<1>1. PICK n : n = Len(errs)
  OBVIOUS
<1>2. Grows(x) /\ x.kind = "plain" /\ x.original = 0 /\ x.from = 0 /\ x.how = <<"plain">>
  <2>1. x \in ErrorType
    BY WaysDiffer DEF ErrorType, Errs!Error
  <2> QED BY <2>1, LinksGoDown DEF Errs!Plain, Errs!Add, Grows, Errs!Error
<1>3. Tells(n + 1)'
  <2>1. PICK code, resource, fields :
          code = Errs!GetCode(0) /\ resource = Errs!GetResource(0) /\ fields = Errs!GetFields(0)
    OBVIOUS
  <2> HIDE DEF x
  <2>2. /\ x.how \notin {"code"} \X Codes /\ x.how \notin {"resource"} \X Resources
        /\ \A f : x.how \notin {"field"} \X {f} \X Values
    BY <1>2, WaysDiffer
  <2>3. x.kind # "contextual" /\ x.original = 0 /\ x.from = 0
    BY <1>2
  <2>4. Given(x.how, x.from, code, resource, fields)
    BY <2>1, <2>2, <2>3 DEF Given
  <2> QED BY <1>1, <1>2, <2>1, <2>3, <2>4, TellsNew
<1> HIDE DEF x
<1> QED BY <1>1, <1>2, <1>3, NewError

(* fmt.Errorf with %w keeps the error that it wraps, and says nothing.     *)
LEMMA ErrorfHolds ==
  ASSUME ErrorInv, NEW e \in Errs!Made, Errs!Errorf(e)
  PROVE  ErrorInv'
<1> DEFINE x == Errs!Error("fmt", e, Errs!None, Errs!None, 0, e, <<"fmt">>)
<1>1. PICK n : n = Len(errs)
  OBVIOUS
<1>2. Grows(x) /\ x.kind = "fmt" /\ x.original = e /\ x.from = e /\ x.how = <<"fmt">>
  <2>1. e \in Nat /\ e \in 0..Len(errs)
    BY LinksGoDown
  <2>2. x \in ErrorType
    BY <2>1, WaysDiffer DEF ErrorType, Errs!Error
  <2> QED BY <2>1, <2>2 DEF Errs!Errorf, Errs!Add, Grows, Errs!Error
<1>3. Tells(n + 1)'
  <2>1. PICK code, resource, fields :
          code = Errs!GetCode(e) /\ resource = Errs!GetResource(e) /\ fields = Errs!GetFields(e)
    OBVIOUS
  <2> HIDE DEF x
  <2>2. /\ x.how \notin {"code"} \X Codes /\ x.how \notin {"resource"} \X Resources
        /\ \A f : x.how \notin {"field"} \X {f} \X Values
    BY <1>2, WaysDiffer
  <2>3. x.kind # "contextual" /\ x.original = e /\ x.from = e
    BY <1>2
  <2>4. Given(x.how, x.from, code, resource, fields)
    BY <2>1, <2>2, <2>3 DEF Given
  <2> QED BY <1>1, <1>2, <2>1, <2>3, <2>4, TellsNew
<1> HIDE DEF x
<1> QED BY <1>1, <1>2, <1>3, NewError

(* New and NewWithCode start a history of their own.                       *)
LEMMA NewHolds ==
  ASSUME ErrorInv, NEW code, NEW how, Errs!New(code, how),
         \/ code = Errs!Unknown /\ how = <<"new">>
         \/ code \in Codes /\ how = <<"code", code>>
  PROVE  ErrorInv'
<1> DEFINE x == Errs!Error("contextual", 0, code, Errs!None, Len(maps) + 1, 0, how)
<1>0. /\ how \in Hows /\ code \in Codes \cup {Errs!Unknown, Errs!None}
      /\ how \notin {"resource"} \X Resources /\ \A f : how \notin {"field"} \X {f} \X Values
      /\ <<code>> = IF how \in {"code"} \X Codes THEN Tail(how) ELSE <<Errs!Unknown>>
  <2>1. CASE code = Errs!Unknown /\ how = <<"new">>
    <3>1. how \notin {"code"} \X Codes
      BY <2>1, WaysDiffer
    <3> QED BY <2>1, <3>1, WaysDiffer
  <2>2. CASE code \in Codes /\ how = <<"code", code>>
    <3>1. how \in {"code"} \X Codes /\ Tail(how) = <<code>>
      BY <2>2, WaysDiffer
    <3> QED BY <2>2, <3>1, WaysDiffer
  <2> QED BY <2>1, <2>2
<1>1. PICK n : n = Len(errs)
  OBVIOUS
<1>2. Errs!NoFields \in FieldMap
  BY DEF FieldMap, Errs!NoFields
<1>3. /\ Len(maps) \in Nat /\ Len(maps) + 1 \in DOMAIN maps'
      /\ maps' = Append(maps, Errs!NoFields) /\ maps'[Len(maps) + 1] = Errs!NoFields
  BY <1>2 DEF ErrorInv, Errs!New
<1>4. /\ Grows(x) /\ x.kind = "contextual" /\ x.original = 0 /\ x.from = 0 /\ x.how = how
      /\ x.code = code /\ x.resource = Errs!None /\ maps'[x.fields] = Errs!NoFields
  <2>1. x \in ErrorType
    BY <1>0, <1>3 DEF ErrorType, Errs!Error
  <2> QED BY <1>2, <1>3, <2>1, LinksGoDown DEF Errs!New, Errs!Add, Grows, Errs!Error
<1>5. /\ Errs!GetCode(0) = Errs!Unknown /\ Errs!GetResource(0) = Errs!None
      /\ Errs!GetFields(0) = Errs!NoFields
  BY NothingSaid DEF Errs!GetCode, Errs!GetResource, Errs!GetFields
<1>6. Tells(n + 1)'
  <2>1. PICK resource, fields : resource = Errs!None /\ fields = Errs!NoFields
    OBVIOUS
  <2>2. <<code>> = IF how \in {"code"} \X Codes THEN Tail(how) ELSE <<Errs!GetCode(0)>>
    BY <1>0, <1>5
  <2>3. how \notin {"resource"} \X Resources /\ \A f : how \notin {"field"} \X {f} \X Values
    BY <1>0
  <2> HIDE DEF x
  <2>4. Given(how, 0, code, resource, fields)
    BY <1>5, <2>1, <2>2, <2>3 DEF Given
  <2> QED BY <1>1, <1>4, <2>1, <2>4, TellsNew
<1> HIDE DEF x
<1> QED BY <1>1, <1>4, <1>6, NewError

(* The getters answer with what an error can have.                         *)
LEMMA GettersTyped ==
  ASSUME ErrorInv, NEW e \in Errs!Made
  PROVE  /\ Errs!GetCode(e) \in Codes \cup {Errs!Unknown, Errs!None}
         /\ Errs!GetResource(e) \in Resources \cup {Errs!None}
         /\ Errs!GetFields(e) \in FieldMap
<1>1. PICK c : c = Errs!As(e)
  OBVIOUS
<1>2. e \in 0..Len(errs)
  BY LinksGoDown
<1>3. CASE c = 0
  BY <1>1, <1>3 DEF Errs!GetCode, Errs!GetResource, Errs!GetFields, Errs!NoFields, FieldMap
<1>4. CASE c # 0
  <2>1. errs[c] \in ErrorType /\ maps[errs[c].fields] \in FieldMap
    <3>1. c \in Errs!Made /\ errs[c].fields \in DOMAIN maps
      BY <1>1, <1>2, <1>4, AsIsContextual
    <3> QED BY <3>1 DEF ErrorInv, Errs!Made
  <2> QED BY <1>1, <1>4, <2>1 DEF Errs!GetCode, Errs!GetResource, Errs!GetFields, ErrorType
<1> QED BY <1>3, <1>4

(* Wrap and its like: what is not said is taken from the error wrapped.    *)
LEMMA WrapWithHolds ==
  ASSUME ErrorInv, NEW e \in Errs!Made, NEW how \in Hows, NEW code, NEW resource,
         Errs!WrapWith(e, how, code, resource),
         code \in Codes \cup {Errs!Unknown, Errs!None}, resource \in Resources \cup {Errs!None},
         <<code>> = IF how \in {"code"} \X Codes THEN Tail(how) ELSE <<Errs!GetCode(e)>>,
         <<resource>> = IF how \in {"resource"} \X Resources THEN Tail(how)
                        ELSE <<Errs!GetResource(e)>>,
         \A f : how \notin {"field"} \X {f} \X Values
  PROVE  ErrorInv'
<1>1. PICK n : n = Len(errs)
  OBVIOUS
<1>2. PICK c : c = Errs!As(e)
  OBVIOUS
<1>3. PICK fields : fields = Errs!GetFields(e)
  OBVIOUS
<1>4. e \in 1..n /\ n \in Nat
  BY <1>1, LinksGoDown
<1>5. c # 0 => /\ c \in 1..n /\ errs[c].original \in 0..n /\ errs[c].fields \in DOMAIN maps
               /\ fields = maps[errs[c].fields]
  <2> SUFFICES ASSUME c # 0 PROVE /\ c \in 1..n /\ errs[c].original \in 0..n /\ errs[c].fields \in DOMAIN maps
                                  /\ fields = maps[errs[c].fields]
    OBVIOUS
  <2>1. c \in 1..n /\ errs[c].fields \in DOMAIN maps
    BY <1>1, <1>2, <1>4, AsIsContextual, LinksGoDown
  <2>2. errs[c].original \in 0..(c - 1)
    BY <1>1, <2>1, LinksGoDown DEF ErrorInv
  <2> QED BY <1>2, <1>3, <1>4, <2>1, <2>2 DEF Errs!GetFields
<1>6. PICK x : /\ Grows(x)
               /\ x.kind = "contextual" /\ x.from = e /\ x.how = how
               /\ x.code = code /\ x.resource = resource /\ maps'[x.fields] = fields
               /\ x.original = IF c # 0 THEN errs[c].original ELSE e
  <2>1. CASE c # 0
    <3> DEFINE x == Errs!Error("contextual", errs[c].original, code, resource, errs[c].fields, e, how)
    <3>1. errs' = Append(errs, x) /\ maps' = maps
      BY <1>2, <2>1 DEF Errs!WrapWith, Errs!Add
    <3>2. DOMAIN maps \subseteq Nat
      BY DEF ErrorInv
    <3>3. x \in ErrorType
      BY <1>4, <1>5, <2>1, <3>2 DEF ErrorType, Errs!Error
    <3>4. /\ x.kind = "contextual" /\ x.from = e /\ x.how = how
          /\ x.code = code /\ x.resource = resource
          /\ x.original = errs[c].original /\ x.fields = errs[c].fields
      BY DEF Errs!Error
    <3> HIDE DEF x
    <3> QED BY <1>1, <1>4, <1>5, <2>1, <3>1, <3>3, <3>4 DEF Grows
  <2>2. CASE c = 0
    <3> DEFINE x == Errs!Error("contextual", e, code, resource, Len(maps) + 1, e, how)
    <3>1. errs' = Append(errs, x) /\ maps' = Append(maps, Errs!NoFields)
      BY <1>2, <2>2 DEF Errs!WrapWith, Errs!Add
    <3>2. Errs!NoFields \in FieldMap /\ fields = Errs!NoFields
      BY <1>2, <1>3, <2>2 DEF FieldMap, Errs!NoFields, Errs!GetFields
    <3>3. /\ Len(maps) + 1 \in Nat /\ Len(maps) + 1 \in DOMAIN maps'
          /\ maps'[Len(maps) + 1] = Errs!NoFields
      BY <3>1, <3>2 DEF ErrorInv
    <3>4. x \in ErrorType
      BY <1>4, <3>3 DEF ErrorType, Errs!Error
    <3>5. /\ x.kind = "contextual" /\ x.from = e /\ x.how = how
          /\ x.code = code /\ x.resource = resource
          /\ x.original = e /\ x.fields = Len(maps) + 1
      BY DEF Errs!Error
    <3> HIDE DEF x
    <3> QED BY <1>1, <1>4, <2>2, <3>1, <3>2, <3>3, <3>4, <3>5 DEF Grows
  <2> QED BY <2>1, <2>2
<1>7. Tells(n + 1)'
  <2>1. Given(how, e, code, resource, fields)
    BY <1>3 DEF Given
  <2> QED BY <1>1, <1>6, <2>1, TellsNew
<1> QED BY <1>1, <1>2, <1>6, <1>7, NewError

(* Wrap says nothing, WrapWithCode the code and WrapWithResource the       *)
(* resource.                                                               *)
LEMMA WrapHolds ==
  ASSUME ErrorInv, NEW e \in Errs!Made,
         \/ Errs!Wrap(e)
         \/ \E c \in Codes : Errs!WrapWithCode(e, c)
         \/ \E r \in Resources : Errs!WrapWithResource(e, r)
  PROVE  ErrorInv'
<1>1. PICK code, resource : code = Errs!GetCode(e) /\ resource = Errs!GetResource(e)
  OBVIOUS
<1>2. code \in Codes \cup {Errs!Unknown, Errs!None} /\ resource \in Resources \cup {Errs!None}
  BY <1>1, GettersTyped
<1>3. CASE Errs!Wrap(e)
  <2>1. PICK how : how = <<"wrap">>
    OBVIOUS
  <2>2. Errs!WrapWith(e, how, code, resource)
    BY <1>1, <1>3, <2>1 DEF Errs!Wrap
  <2>3. /\ how \in Hows /\ how \notin {"code"} \X Codes /\ how \notin {"resource"} \X Resources
        /\ \A f : how \notin {"field"} \X {f} \X Values
    BY <2>1, WaysDiffer
  <2> QED BY <1>1, <1>2, <2>2, <2>3, WrapWithHolds
<1>4. ASSUME NEW c \in Codes, Errs!WrapWithCode(e, c)
      PROVE  ErrorInv'
  <2>1. PICK how : how = <<"code", c>>
    OBVIOUS
  <2>2. Errs!WrapWith(e, how, c, resource)
    BY <1>1, <1>4, <2>1 DEF Errs!WrapWithCode
  <2>3. /\ how \in Hows /\ how \in {"code"} \X Codes /\ how \notin {"resource"} \X Resources
        /\ Tail(how) = <<c>> /\ \A f : how \notin {"field"} \X {f} \X Values
    BY <2>1, WaysDiffer
  <2> QED BY <1>1, <1>2, <2>2, <2>3, WrapWithHolds
<1>5. ASSUME NEW r \in Resources, Errs!WrapWithResource(e, r)
      PROVE  ErrorInv'
  <2>1. PICK how : how = <<"resource", r>>
    OBVIOUS
  <2>2. Errs!WrapWith(e, how, code, r)
    BY <1>1, <1>5, <2>1 DEF Errs!WrapWithResource
  <2>3. /\ how \in Hows /\ how \notin {"code"} \X Codes /\ how \in {"resource"} \X Resources
        /\ Tail(how) = <<r>> /\ \A f : how \notin {"field"} \X {f} \X Values
    BY <2>1, WaysDiffer
  <2> QED BY <1>1, <1>2, <2>2, <2>3, WrapWithHolds
<1> QED BY <1>3, <1>4, <1>5

(* The new map is the old one but for the new field.                       *)
LEMMA WrapWithFieldHolds ==
  ASSUME ErrorInv, NEW e \in Errs!Made, NEW name \in Fields, NEW v \in Values,
         Errs!WrapWithField(e, name, v)
  PROVE  ErrorInv'
<1>1. PICK n : n = Len(errs)
  OBVIOUS
<1>2. PICK c : c = Errs!As(e)
  OBVIOUS
<1>3. PICK code, resource, old :
        code = Errs!GetCode(e) /\ resource = Errs!GetResource(e) /\ old = Errs!GetFields(e)
  OBVIOUS
<1>4. /\ code \in Codes \cup {Errs!Unknown, Errs!None} /\ resource \in Resources \cup {Errs!None}
      /\ old \in FieldMap
  BY <1>3, GettersTyped
<1>5. PICK how : how = <<"field", name, v>>
  OBVIOUS
<1>6. /\ how \in Hows /\ how \notin {"code"} \X Codes /\ how \notin {"resource"} \X Resources
      /\ Tail(how) = <<name, v>> /\ \A f : how \in {"field"} \X {f} \X Values <=> f = name
  BY <1>5, WaysDiffer
<1>7. PICK fields : fields = [old EXCEPT ![name] = v]
  OBVIOUS
<1>8. fields \in FieldMap /\ fields[name] = v /\ \A f \in Fields : f # name => fields[f] = old[f]
  BY <1>4, <1>7 DEF FieldMap
<1>9. e \in 1..n /\ n \in Nat
  BY <1>1, LinksGoDown
<1>10. c # 0 => c \in 1..n /\ errs[c].original \in 0..n
  <2> SUFFICES ASSUME c # 0 PROVE c \in 1..n /\ errs[c].original \in 0..n
    OBVIOUS
  <2>1. c \in 1..n
    BY <1>1, <1>2, <1>9, AsIsContextual, LinksGoDown
  <2>2. errs[c].original \in 0..(c - 1)
    BY <1>1, <2>1, LinksGoDown DEF ErrorInv
  <2> QED BY <1>9, <2>1, <2>2
<1>11. PICK original : original = IF c # 0 THEN errs[c].original ELSE e
  OBVIOUS
<1>12. original \in 0..n
  BY <1>9, <1>10, <1>11
<1> DEFINE x == Errs!Error("contextual", original, code, resource, Len(maps) + 1, e, how)
<1>13. maps' = Append(maps, fields) /\ errs' = Append(errs, x)
  <2>1. CASE c = 0
    BY <1>2, <1>3, <1>5, <1>7, <1>11, <2>1
       DEF Errs!WrapWithField, Errs!Add, Errs!GetCode, Errs!GetResource, Errs!GetFields
  <2>2. CASE c # 0
    BY <1>2, <1>3, <1>5, <1>7, <1>11, <2>2
       DEF Errs!WrapWithField, Errs!Add, Errs!GetCode, Errs!GetResource, Errs!GetFields
  <2> QED BY <2>1, <2>2
<1>14. /\ Len(maps) + 1 \in Nat /\ Len(maps) + 1 \in DOMAIN maps'
       /\ maps'[Len(maps) + 1] = fields
  BY <1>8, <1>13 DEF ErrorInv
<1>15. x \in ErrorType
  BY <1>4, <1>6, <1>9, <1>12, <1>14 DEF ErrorType, Errs!Error
<1>16. /\ x.kind = "contextual" /\ x.from = e /\ x.how = how
       /\ x.code = code /\ x.resource = resource
       /\ x.original = original /\ x.fields = Len(maps) + 1
  BY DEF Errs!Error
<1> HIDE DEF x
<1>17. Grows(x)
  BY <1>1, <1>8, <1>9, <1>12, <1>13, <1>14, <1>15, <1>16 DEF Grows
<1>18. Tells(n + 1)'
  <2>1. ASSUME NEW f \in Fields
        PROVE  <<f, fields[f]>> = IF how \in {"field"} \X {f} \X Values THEN Tail(how)
                                   ELSE <<f, Errs!GetFields(e)[f]>>
    BY <1>3, <1>6, <1>8
  <2>2. Given(how, e, code, resource, fields)
    BY <1>3, <1>6, <2>1 DEF Given
  <2> QED BY <1>1, <1>14, <1>16, <1>17, <2>2, TellsNew
<1>19. PICK y : y = x
  OBVIOUS
<1> QED BY <1>1, <1>2, <1>11, <1>16, <1>17, <1>18, <1>19, NewError

(* No error is made yet.                                                   *)
LEMMA NoErrorHolds == Errs!Init => ErrorInv
<1> SUFFICES ASSUME errs = <<>>, maps = <<>> PROVE ErrorInv
  BY DEF Errs!Init
<1>1. errs \in Seq(ErrorType) /\ maps \in Seq(FieldMap) /\ Errs!Made = {}
  BY DEF Errs!Made
<1> QED BY <1>1 DEF ErrorInv

(* Every way to make an error keeps the invariant.                         *)
LEMMA ErrorStepHolds == ErrorInv /\ [Errs!Next]_(Errs!vars) => ErrorInv'
<1> SUFFICES ASSUME ErrorInv, [Errs!Next]_(Errs!vars) PROVE ErrorInv'
  OBVIOUS
<1>1. CASE UNCHANGED Errs!vars
  <2>1. errs' = errs /\ maps' = maps
    BY <1>1 DEF Errs!vars
  <2>2. /\ Errs!Made' = Errs!Made /\ Errs!Originals' = Errs!Originals /\ Errs!History' = Errs!History
    BY <2>1 DEF Errs!Made, Errs!Originals, Errs!History
  <2>3. ASSUME NEW i
        PROVE  /\ Errs!As(i)' = Errs!As(i) /\ Errs!Root(i)' = Errs!Root(i)
               /\ \A ways : Errs!Latest(i, ways)' = Errs!Latest(i, ways)
               /\ \A t : Errs!Finds(i, t)' = Errs!Finds(i, t)
    BY <2>1, <2>2 DEF Errs!As, Errs!Root, Errs!Latest, Errs!Finds
  <2>4. ASSUME NEW i
        PROVE  /\ Errs!GetCode(i)' = Errs!GetCode(i) /\ Errs!GetResource(i)' = Errs!GetResource(i)
               /\ Errs!GetFields(i)' = Errs!GetFields(i)
    BY <2>1, <2>3 DEF Errs!GetCode, Errs!GetResource, Errs!GetFields, Errs!NoFields
  <2>5. ASSUME NEW i, NEW ways, NEW missing PROVE Said(i, ways, missing)' = Said(i, ways, missing)
    BY <2>1, <2>3 DEF Said
  <2>6. ASSUME NEW i PROVE Tells(i)' = Tells(i)
    BY <2>4, <2>5 DEF Tells
  <2>7. ASSUME NEW i PROVE Keeps(i)' = Keeps(i)
    BY <2>1, <2>3 DEF Keeps
  <2> QED BY <2>1, <2>2, <2>3, <2>6, <2>7 DEF ErrorInv
<1>2. CASE Errs!Plain
  BY <1>2, PlainHolds
<1>3. ASSUME NEW code, NEW how, Errs!New(code, how),
             \/ code = Errs!Unknown /\ how = <<"new">>
             \/ code \in Codes /\ how = <<"code", code>>
      PROVE  ErrorInv'
  BY <1>3, NewHolds
<1>4. CASE Errs!New(Errs!Unknown, <<"new">>)
  <2>1. PICK code, how : code = Errs!Unknown /\ how = <<"new">>
    OBVIOUS
  <2> QED BY <1>3, <1>4, <2>1
<1>5. ASSUME NEW c \in Codes, Errs!New(c, <<"code", c>>)
      PROVE  ErrorInv'
  <2>1. PICK how : how = <<"code", c>>
    OBVIOUS
  <2> QED BY <1>3, <1>5, <2>1
<1>6. ASSUME NEW e \in Errs!Made, Errs!Errorf(e)
      PROVE  ErrorInv'
  BY <1>6, ErrorfHolds
<1>7. ASSUME NEW e \in Errs!Made,
             \/ Errs!Wrap(e)
             \/ \E c \in Codes : Errs!WrapWithCode(e, c)
             \/ \E r \in Resources : Errs!WrapWithResource(e, r)
      PROVE  ErrorInv'
  BY <1>7, WrapHolds
<1>8. ASSUME NEW e \in Errs!Made, NEW f \in Fields, NEW v \in Values, Errs!WrapWithField(e, f, v)
      PROVE  ErrorInv'
  BY <1>8, WrapWithFieldHolds
<1> QED BY <1>1, <1>2, <1>4, <1>5, <1>6, <1>7, <1>8 DEF Errs!Next

(* The invariant says of every error what the property says.               *)
LEMMA ErrorInvTells == ErrorInv => ContextIsItsOwn
<1> SUFFICES ASSUME ErrorInv, NEW i \in Errs!Made, Tells(i), Keeps(i)
             PROVE  /\ <<Errs!GetCode(i)>> = Said(i, {"code"} \X Codes, <<Errs!Unknown>>)
                    /\ <<Errs!GetResource(i)>> = Said(i, {"resource"} \X Resources, <<Errs!None>>)
                    /\ \A f \in Fields :
                         <<f, Errs!GetFields(i)[f]>> = Said(i, {"field"} \X {f} \X Values, <<f, Errs!None>>)
                    /\ errs[Errs!Root(i)].kind = "plain" => Errs!Finds(i, Errs!Root(i))
  BY DEF ErrorInv, ContextIsItsOwn, Errs!ContextIsItsOwn, Said
<1> QED BY DEF Tells, Keeps

(* Whatever errors are made of each other in whatever order, each tells    *)
(* what was said along its own history, and finds the cause it began with. *)
THEOREM ContextStays == Errs!Spec => []ContextIsItsOwn
<1>1. Errs!Spec => []ErrorInv
  BY NoErrorHolds, ErrorStepHolds, PTL DEF Errs!Spec
<1> QED BY <1>1, ErrorInvTells, PTL

-----------------------------------------------------------------------------
(* The log writer.                                                         *)

LogEntry == [line : Seq(Symbols), level : {"info", "error"}]

Output(r, flushes) == r \in Seq(Symbols) /\ flushes \subseteq 1..Len(r)

(* A bounded set of numbers has a greatest one.                            *)
LEMMA GreatestNumber ==
  ASSUME NEW n \in Nat, NEW T, T \subseteq 0..n, T # {}
  PROVE  \E m \in T : \A k \in T : k <= m
<1> DEFINE U == {k \in Nat : n - k \in T}
<1>1. U \subseteq Nat /\ U # {}
  <2>1. PICK k \in T : TRUE
    OBVIOUS
  <2>2. n - k \in Nat /\ n - (n - k) = k
    BY <2>1
  <2> QED BY <2>1, <2>2
<1>2. PICK k \in U : \A j \in U : k <= j
  <2> HIDE DEF U
  <2> QED BY <1>1, LeastNumber
<1>3. ASSUME NEW j \in T PROVE j <= n - k
  <2>1. j \in 0..n /\ n - j \in Nat /\ n - (n - j) = j
    OBVIOUS
  <2>2. n - j \in U
    BY <2>1
  <2>3. k <= n - j
    BY <1>2, <2>2
  <2> QED BY <1>2, <2>1, <2>3
<1> QED BY <1>2, <1>3

(* What ends lines lies in the output; there is finitely much of it.       *)
LEMMA EndsInOutput ==
  ASSUME NEW r, NEW flushes, Output(r, flushes)
  PROVE  /\ Len(r) \in Nat /\ Ends(r, flushes) \subseteq 1..Len(r)
         /\ IsFiniteSet(Ends(r, flushes)) /\ IsFiniteSet(Shown(r, flushes))
         /\ Shown(r, flushes) \subseteq Ends(r, flushes)
<1>0. Len(r) \in Nat /\ DOMAIN r = 1..Len(r) /\ flushes \subseteq 1..Len(r)
  BY DEF Output
<1>1. Len(r) \in Nat /\ Ends(r, flushes) \subseteq 1..Len(r)
  BY <1>0 DEF Ends
<1>2. IsFiniteSet(1..Len(r))
  BY <1>1, FS_Interval
<1>3. Shown(r, flushes) \subseteq Ends(r, flushes)
  BY DEF Shown
<1> QED BY <1>1, <1>2, <1>3, FS_Subset

(* The end before a place is the one that its description says.            *)
IsEndBefore(m, r, flushes, i) ==
  /\ m = 0 \/ (m \in Ends(r, flushes) /\ m < i)
  /\ \A k \in Ends(r, flushes) : k < i => k <= m

(* EndBefore is the end before a place.                                    *)
LEMMA EndBeforeIs ==
  ASSUME NEW r, NEW flushes, Output(r, flushes), NEW i \in Nat
  PROVE  IsEndBefore(EndBefore(r, flushes, i), r, flushes, i)
<1> DEFINE before == {j \in Ends(r, flushes) : j < i}
<1>1. CASE before = {}
  <2>1. EndBefore(r, flushes, i) = 0
    BY <1>1 DEF EndBefore
  <2>2. \A k \in Ends(r, flushes) : ~(k < i)
    BY <1>1
  <2>3. IsEndBefore(0, r, flushes, i)
    BY <2>2 DEF IsEndBefore
  <2> QED BY <2>1, <2>3
<1>2. CASE before # {}
  <2>1. before \subseteq 0..Len(r) /\ Len(r) \in Nat
    BY EndsInOutput
  <2>2. \E m \in before : \A k \in before : k <= m
    <3> HIDE DEF before
    <3> QED BY <1>2, <2>1, GreatestNumber
  <2>3. EndBefore(r, flushes, i) = CHOOSE m \in before : \A k \in before : k <= m
    BY <1>2 DEF EndBefore
  <2>4. PICK m : m = EndBefore(r, flushes, i)
    OBVIOUS
  <2>5. m \in before /\ \A k \in before : k <= m
    <3> HIDE DEF before
    <3> QED BY <2>2, <2>3, <2>4
  <2> QED BY <2>4, <2>5 DEF IsEndBefore
<1> QED BY <1>1, <1>2

(* There is only one end before a place.                                   *)
LEMMA EndBeforeOnly ==
  ASSUME NEW r, NEW flushes, Output(r, flushes), NEW i \in Nat, NEW m,
         IsEndBefore(m, r, flushes, i)
  PROVE  EndBefore(r, flushes, i) = m
<1>1. IsEndBefore(EndBefore(r, flushes, i), r, flushes, i)
  BY EndBeforeIs
<1>2. PICK k : k = EndBefore(r, flushes, i)
  OBVIOUS
<1>3. \A j \in Ends(r, flushes) : j \in Nat /\ j > 0
  BY EndsInOutput
<1>4. \/ k = 0 /\ m = 0
      \/ k \in Ends(r, flushes) /\ m = 0 /\ k < i
      \/ k = 0 /\ m \in Ends(r, flushes) /\ m < i
      \/ k \in Ends(r, flushes) /\ k < i /\ m \in Ends(r, flushes) /\ m < i
  BY <1>1, <1>2 DEF IsEndBefore
<1>5. k <= m /\ m <= k
  BY <1>1, <1>2, <1>3, <1>4 DEF IsEndBefore
<1> QED BY <1>2, <1>3, <1>4, <1>5

(* Numbering what is shown: one more at the end leaves the numbers of the  *)
(* others.                                                                 *)
LEMMA Numbering ==
  ASSUME NEW e \in Nat \ {0}, NEW S, S \subseteq 1..(e - 1)
  PROVE  /\ IsFiniteSet(S)
         /\ Cardinality(S) \in Nat
         /\ Cardinality(S \cup {e}) = Cardinality(S) + 1
         /\ {j \in S \cup {e} : j <= e} = S \cup {e}
         /\ \A i \in S : /\ {j \in S \cup {e} : j <= i} = {j \in S : j <= i}
                         /\ Cardinality({j \in S : j <= i}) \in 1..Cardinality(S)
<1>0. \A j \in S : j \in Nat /\ j < e /\ j # e
  OBVIOUS
<1>1. IsFiniteSet(S)
  <2>1. IsFiniteSet(1..(e - 1))
    BY FS_Interval
  <2> QED BY <2>1, FS_Subset
<1>2. Cardinality(S) \in Nat /\ Cardinality(S \cup {e}) = Cardinality(S) + 1
  <2>1. e \notin S
    BY <1>0
  <2> QED BY <1>1, <2>1, FS_AddElement, FS_CardinalityType
<1>3. {j \in S \cup {e} : j <= e} = S \cup {e}
  <2>1. \A j \in S \cup {e} : j <= e
    BY <1>0
  <2> QED BY <2>1
<1>4. ASSUME NEW i \in S
      PROVE  /\ {j \in S \cup {e} : j <= i} = {j \in S : j <= i}
             /\ Cardinality({j \in S : j <= i}) \in 1..Cardinality(S)
  <2> DEFINE U == {j \in S : j <= i}
  <2>0. ~(e <= i)
    BY <1>0
  <2>1. {j \in S \cup {e} : j <= i} = U
    BY <2>0
  <2>2. U \subseteq S /\ i \in U
    <3>1. i \in Nat
      BY <1>0
    <3> QED BY <3>1
  <2> HIDE DEF U
  <2>3. IsFiniteSet(U) /\ Cardinality(U) <= Cardinality(S)
    BY <1>1, <2>2, FS_Subset
  <2>4. Cardinality(U) \in Nat /\ Cardinality(U) # 0
    BY <2>2, <2>3, FS_CardinalityType, FS_EmptySet
  <2>5. Cardinality(U) \in 1..Cardinality(S)
    BY <1>2, <2>3, <2>4
  <2> QED BY <2>1, <2>5 DEF U
<1> QED BY <1>1, <1>2, <1>3, <1>4

(* What the log has, of what is shown.                                     *)
Logs(r, flushes, log) ==
  /\ log \in Seq(LogEntry)
  /\ Len(log) = Cardinality(Shown(r, flushes))
  /\ \A i \in Shown(r, flushes) :
       log[Cardinality({j \in Shown(r, flushes) : j <= i})] = EntryAt(r, flushes, i)

(* Nothing new is shown.                                                   *)
LEMMA LogsStay ==
  ASSUME NEW r, NEW flushes, NEW log, Logs(r, flushes, log), NEW more, NEW later,
         Shown(more, later) = Shown(r, flushes),
         \A i \in Shown(r, flushes) : EntryAt(more, later, i) = EntryAt(r, flushes, i)
  PROVE  Logs(more, later, log)
BY DEF Logs

(* One line more is shown, behind the others.                              *)
LEMMA LogsGrow ==
  ASSUME NEW r, NEW flushes, Output(r, flushes), NEW log, Logs(r, flushes, log), NEW more, NEW later,
         NEW e \in Nat \ {0}, \A i \in Shown(r, flushes) : i < e,
         Shown(more, later) = Shown(r, flushes) \cup {e},
         \A i \in Shown(r, flushes) : EntryAt(more, later, i) = EntryAt(r, flushes, i),
         EntryAt(more, later, e) \in LogEntry
  PROVE  Logs(more, later, Append(log, EntryAt(more, later, e)))
<1>1. PICK S : S = Shown(r, flushes)
  OBVIOUS
<1>2. PICK x \in LogEntry : x = EntryAt(more, later, e)
  OBVIOUS
<1>3. S \subseteq 1..(e - 1) /\ e - 1 \in Nat /\ e - 1 < e
  BY <1>1, EndsInOutput
<1>4. /\ Cardinality(S) \in Nat /\ Cardinality(S \cup {e}) = Cardinality(S) + 1
      /\ {j \in S \cup {e} : j <= e} = S \cup {e}
      /\ \A i \in S : /\ {j \in S \cup {e} : j <= i} = {j \in S : j <= i}
                      /\ Cardinality({j \in S : j <= i}) \in 1..Cardinality(S)
  BY <1>3, Numbering
<1>5. /\ log \in Seq(LogEntry) /\ Len(log) = Cardinality(S)
      /\ \A i \in S : log[Cardinality({j \in S : j <= i})] = EntryAt(r, flushes, i)
  BY <1>1 DEF Logs
<1>6. PICK longer : longer = Append(log, x)
  OBVIOUS
<1>7. PICK n \in Nat : n = Cardinality(S)
  BY <1>4
<1>8. /\ longer \in Seq(LogEntry) /\ Len(longer) = n + 1
      /\ longer[n + 1] = x /\ \A k \in 1..n : longer[k] = log[k]
  BY <1>5, <1>6, <1>7
<1>9. ASSUME NEW i \in S \cup {e}
      PROVE  longer[Cardinality({j \in S \cup {e} : j <= i})] = EntryAt(more, later, i)
  <2>1. CASE i = e
    BY <1>2, <1>4, <1>7, <1>8, <2>1
  <2>2. CASE i \in S
    <3>1. PICK k : k = Cardinality({j \in S \cup {e} : j <= i})
      OBVIOUS
    <3>2. k = Cardinality({j \in S : j <= i}) /\ k \in 1..n
      BY <1>4, <1>7, <2>2, <3>1
    <3>3. longer[k] = log[k] /\ log[k] = EntryAt(r, flushes, i)
      BY <1>5, <1>8, <2>2, <3>2
    <3> QED BY <1>1, <2>2, <3>1, <3>3
  <2> QED BY <2>1, <2>2
<1> QED BY <1>1, <1>2, <1>4, <1>6, <1>7, <1>8, <1>9 DEF Logs

(* One symbol more: the ends before it and what they end stay.             *)
LEMMA OutputGrows ==
  ASSUME NEW r, NEW flushes, Output(r, flushes), NEW c \in Symbols
  PROVE  /\ Output(Append(r, c), flushes)
         /\ Len(Append(r, c)) = Len(r) + 1 /\ Append(r, c)[Len(r) + 1] = c
         /\ \A i \in 1..Len(r) : Append(r, c)[i] = r[i]
         /\ \A a, z \in Nat : a >= 1 /\ z <= Len(r) => SubSeq(Append(r, c), a, z) = SubSeq(r, a, z)
         /\ Ends(Append(r, c), flushes) =
              Ends(r, flushes) \cup IF c = "nl" THEN {Len(r) + 1} ELSE {}
<1>1. PICK n \in Nat : n = Len(r)
  BY DEF Output
<1>2. r \in Seq(Symbols) /\ flushes \subseteq 1..n
  BY <1>1 DEF Output
<1>3. PICK q : q = Append(r, c)
  OBVIOUS
<1>4. /\ q \in Seq(Symbols) /\ Len(q) = n + 1 /\ q[n + 1] = c
      /\ DOMAIN q = 1..(n + 1) /\ DOMAIN r = 1..n
      /\ \A i \in 1..n : q[i] = r[i]
  BY <1>1, <1>2, <1>3
<1>5. Output(q, flushes)
  BY <1>2, <1>4 DEF Output
<1>6. ASSUME NEW a \in Nat, NEW z \in Nat, a >= 1, z <= n PROVE SubSeq(q, a, z) = SubSeq(r, a, z)
  <2>1. /\ SubSeq(q, a, z) = [i \in 1..(z - a + 1) |-> q[i + a - 1]]
        /\ SubSeq(r, a, z) = [i \in 1..(z - a + 1) |-> r[i + a - 1]]
    BY <1>1, <1>2, <1>4, <1>6
  <2>2. \A i \in 1..(z - a + 1) : q[i + a - 1] = r[i + a - 1]
    <3> TAKE i \in 1..(z - a + 1)
    <3>1. i + a - 1 \in 1..n
      BY <1>6
    <3> QED BY <1>4, <3>1
  <2> QED BY <2>1, <2>2
<1>7. Ends(q, flushes) = Ends(r, flushes) \cup IF c = "nl" THEN {n + 1} ELSE {}
  <2>1. {i \in 1..(n + 1) : q[i] = "nl"} = {i \in 1..n : r[i] = "nl"} \cup IF c = "nl" THEN {n + 1} ELSE {}
    BY <1>4
  <2> QED BY <1>4, <2>1 DEF Ends
<1> QED BY <1>1, <1>3, <1>4, <1>5, <1>6, <1>7

(* What is left of an output, after its last end.                          *)
LEMMA RestIs ==
  ASSUME NEW r, NEW flushes, Output(r, flushes), NEW last, last = EndBefore(r, flushes, Len(r) + 1)
  PROVE  /\ last \in 0..Len(r)
         /\ \A k \in Ends(r, flushes) : k <= last
         /\ last = 0 \/ last \in Ends(r, flushes)
         /\ \A k \in 1..Len(r) : k > last => k \notin Ends(r, flushes) /\ r[k] # "nl"
<1>0. DOMAIN r = 1..Len(r)
  BY DEF Output
<1>1. Len(r) \in Nat /\ Ends(r, flushes) \subseteq 1..Len(r) /\ DOMAIN r = 1..Len(r)
  BY <1>0, EndsInOutput
<1>2. IsEndBefore(last, r, flushes, Len(r) + 1)
  BY <1>1, EndBeforeIs
<1>3. \A k \in Ends(r, flushes) : k <= last
  BY <1>1, <1>2 DEF IsEndBefore
<1>4. last = 0 \/ last \in Ends(r, flushes)
  BY <1>2 DEF IsEndBefore
<1>5. last \in 0..Len(r)
  BY <1>1, <1>4
<1>6. ASSUME NEW k \in 1..Len(r), k > last PROVE k \notin Ends(r, flushes) /\ r[k] # "nl"
  <2>1. k \notin Ends(r, flushes)
    BY <1>1, <1>3, <1>5, <1>6
  <2> QED BY <1>1, <2>1 DEF Ends
<1> QED BY <1>3, <1>4, <1>5, <1>6

(* Up to where an output was, the lines of a longer one, or one flushed    *)
(* later, are its own.                                                     *)
LEMMA EndBeforeStays ==
  ASSUME NEW r, NEW flushes, Output(r, flushes), NEW more, NEW later, Output(more, later),
         NEW i \in Nat,
         \A k \in Nat : k < i => (k \in Ends(more, later) <=> k \in Ends(r, flushes))
  PROVE  EndBefore(more, later, i) = EndBefore(r, flushes, i)
<1>1. PICK m : m = EndBefore(r, flushes, i)
  OBVIOUS
<1>2. IsEndBefore(m, r, flushes, i)
  BY <1>1, EndBeforeIs
<1>3. Ends(r, flushes) \subseteq Nat /\ Ends(more, later) \subseteq Nat
  BY EndsInOutput
<1>4. IsEndBefore(m, more, later, i)
  BY <1>2, <1>3 DEF IsEndBefore
<1> QED BY <1>1, <1>4, EndBeforeOnly

(* A line that was there is the line that it was.                          *)
LEMMA LinesStay ==
  ASSUME NEW r, NEW flushes, Output(r, flushes), NEW more, NEW later, Output(more, later),
         NEW i \in Ends(r, flushes), more[i] = r[i],
         \A k \in Nat : k < i => (k \in Ends(more, later) <=> k \in Ends(r, flushes)),
         \A a, z \in Nat : a >= 1 /\ z <= Len(r) => SubSeq(more, a, z) = SubSeq(r, a, z)
  PROVE  /\ Line(more, later, i) = Line(r, flushes, i)
         /\ EntryAt(more, later, i) = EntryAt(r, flushes, i)
<1>1. PICK m : m = EndBefore(r, flushes, i)
  OBVIOUS
<1>2. i \in 1..Len(r) /\ Len(r) \in Nat
  BY EndsInOutput
<1>3. EndBefore(more, later, i) = m
  BY <1>1, <1>2, EndBeforeStays
<1>4. m \in Nat
  <2>1. IsEndBefore(m, r, flushes, i)
    BY <1>1, <1>2, EndBeforeIs
  <2> QED BY <2>1, EndsInOutput DEF IsEndBefore
<1>5. /\ SubSeq(more, m + 1, i - 1) = SubSeq(r, m + 1, i - 1)
      /\ SubSeq(more, m + 1, i) = SubSeq(r, m + 1, i)
  <2>1. m + 1 \in Nat /\ m + 1 >= 1 /\ i - 1 \in Nat /\ i \in Nat /\ i - 1 <= Len(r) /\ i <= Len(r)
    BY <1>2, <1>4
  <2> QED BY <2>1
<1>6. Line(more, later, i) = Line(r, flushes, i)
  BY <1>1, <1>3, <1>5 DEF Line
<1> QED BY <1>6 DEF EntryAt

(* A stretch that goes one further has one symbol more.                    *)
LEMMA SubSeqGrows ==
  ASSUME NEW q \in Seq(Symbols), NEW n \in Nat, n + 1 <= Len(q), NEW m \in 0..n
  PROVE  SubSeq(q, m + 1, n + 1) = Append(SubSeq(q, m + 1, n), q[n + 1])
<1>1. PICK left : left = SubSeq(q, m + 1, n)
  OBVIOUS
<1>2. PICK k \in Nat : k = n - m
  <2>1. n - m \in Nat
    OBVIOUS
  <2> QED BY <2>1
<1>3. left \in Seq(Symbols) /\ Len(left) = k /\ \A i \in 1..k : left[i] = q[i + m]
  <2>1. left = [i \in 1..k |-> q[i + m]]
    BY <1>1, <1>2
  <2>2. \A i \in 1..k : q[i + m] \in Symbols
    BY <1>2
  <2> QED BY <2>1, <2>2, <1>2
<1>4. q[n + 1] \in Symbols
  OBVIOUS
<1>5. PICK l : l = Append(left, q[n + 1])
  OBVIOUS
<1>6. l \in Seq(Symbols) /\ Len(l) = k + 1
  BY <1>3, <1>4, <1>5
<1>7. SubSeq(q, m + 1, n + 1) = [i \in 1..(k + 1) |-> q[i + m]]
  BY <1>2
<1>8. ASSUME NEW i \in 1..(k + 1) PROVE l[i] = q[i + m]
  <2>1. CASE i = k + 1
    BY <1>2, <1>3, <1>5, <2>1
  <2>2. CASE i # k + 1
    <3>1. i \in 1..k
      BY <2>2
    <3> QED BY <1>3, <1>5, <3>1
  <2> QED BY <2>1, <2>2
<1>9. l = [i \in 1..(k + 1) |-> l[i]]
  <2>1. l \in [1..(k + 1) -> Symbols]
    BY <1>6
  <2> QED BY <2>1
<1> QED BY <1>1, <1>5, <1>7, <1>8, <1>9

(* A symbol that ends no line is left over.                                *)
LEMMA SymbolAccounts ==
  ASSUME NEW r, NEW flushes, Output(r, flushes), NEW rest, NEW log, log \in Seq(LogEntry),
         Accounts(r, flushes, rest, log), NEW c \in Symbols, c # "nl"
  PROVE  Accounts(Append(r, c), flushes, Append(rest, c), log)
<1>1. PICK n \in Nat : n = Len(r)
  BY EndsInOutput
<1>2. PICK q : q = Append(r, c)
  OBVIOUS
<1>3. /\ Output(q, flushes) /\ Len(q) = n + 1 /\ q[n + 1] = c
      /\ \A i \in 1..n : q[i] = r[i]
      /\ \A a, z \in Nat : a >= 1 /\ z <= n => SubSeq(q, a, z) = SubSeq(r, a, z)
      /\ Ends(q, flushes) = Ends(r, flushes) \cup IF c = "nl" THEN {Len(r) + 1} ELSE {}
  BY <1>1, <1>2, OutputGrows
<1>4. Ends(q, flushes) = Ends(r, flushes) /\ Ends(r, flushes) \subseteq 1..n
  BY <1>1, <1>3, EndsInOutput
<1>5. ASSUME NEW i \in Ends(r, flushes)
      PROVE  Line(q, flushes, i) = Line(r, flushes, i) /\ EntryAt(q, flushes, i) = EntryAt(r, flushes, i)
  BY <1>1, <1>3, <1>4, LinesStay
<1>6. Shown(q, flushes) = Shown(r, flushes)
  BY <1>4, <1>5 DEF Shown
<1>7. Logs(q, flushes, log)
  <2>1. Logs(r, flushes, log)
    BY DEF Logs, Accounts
  <2>2. \A i \in Shown(r, flushes) : EntryAt(q, flushes, i) = EntryAt(r, flushes, i)
    BY <1>5 DEF Shown
  <2> QED BY <1>6, <2>1, <2>2, LogsStay
<1>8. PICK last : last = EndBefore(r, flushes, n + 1)
  OBVIOUS
<1>9. last \in 0..n /\ (last = 0 \/ last \in Ends(r, flushes)) /\ \A k \in Ends(r, flushes) : k <= last
  BY <1>1, <1>8, RestIs
<1>10. EndBefore(q, flushes, n + 2) = last
  <2>1. IsEndBefore(last, q, flushes, n + 2)
    BY <1>1, <1>4, <1>9 DEF IsEndBefore
  <2> QED BY <1>1, <1>3, <2>1, EndBeforeOnly
<1>11. SubSeq(q, last + 1, n + 1) = Append(SubSeq(r, last + 1, n), c)
  <2>1. r \in Seq(Symbols) /\ q \in Seq(Symbols)
    BY <1>3 DEF Output
  <2>2. SubSeq(q, last + 1, n + 1) = Append(SubSeq(q, last + 1, n), q[n + 1])
    <3>1. last \in 0..n /\ n \in Nat
      BY <1>1, <1>9
    <3>2. n + 1 <= Len(q)
      BY <1>1, <1>3
    <3> QED BY <2>1, <3>1, <3>2, SubSeqGrows
  <2>3. SubSeq(q, last + 1, n) = SubSeq(r, last + 1, n)
    BY <1>3, <1>9
  <2> QED BY <1>3, <2>2, <2>3
<1>12. rest = SubSeq(r, last + 1, n)
  BY <1>1, <1>8 DEF Accounts
<1>13. Append(rest, c) = SubSeq(q, EndBefore(q, flushes, Len(q) + 1) + 1, Len(q))
  <2>1. Len(q) + 1 = n + 2
    BY <1>1, <1>3
  <2> QED BY <1>3, <1>10, <1>11, <1>12, <2>1
<1> QED BY <1>2, <1>7, <1>13 DEF Accounts, Logs

(* A line is of the output, and what is logged is an entry.                *)
LEMMA EntriesTyped ==
  /\ \A line \in Seq(Symbols) : Trimmed(line) \in Seq(Symbols) /\ LogLine(line) \in LogEntry
  /\ \A line \in Seq(Symbols) : [line |-> line, level |-> "info"] \in LogEntry
<1>1. ASSUME NEW line \in Seq(Symbols) PROVE Trimmed(line) \in Seq(Symbols)
  <2>1. CASE line # <<>>
    <3>1. Len(line) - 1 \in Nat /\ Len(line) - 1 <= Len(line)
      BY <2>1
    <3>2. SubSeq(line, 1, Len(line) - 1) \in Seq(Symbols)
      BY <3>1
    <3> QED BY <3>2 DEF Trimmed, Front
  <2>2. CASE line = <<>>
    BY <2>2 DEF Trimmed
  <2> QED BY <2>1, <2>2
<1>2. \A line \in Seq(Symbols) : LogLine(line) \in LogEntry
  BY DEF LogLine, LogEntry
<1>3. \A line \in Seq(Symbols) : [line |-> line, level |-> "info"] \in LogEntry
  BY DEF LogEntry
<1> QED BY <1>1, <1>2, <1>3

(* What is left of an output is of it.                                     *)
LEMMA RestTyped ==
  ASSUME NEW r, NEW flushes, Output(r, flushes), NEW rest, NEW log, Accounts(r, flushes, rest, log)
  PROVE  /\ rest \in Seq(Symbols)
         /\ Len(rest) = Len(r) - EndBefore(r, flushes, Len(r) + 1)
         /\ \A k \in 1..Len(rest) : rest[k] # "nl"
<1>1. PICK n \in Nat : n = Len(r)
  BY EndsInOutput
<1>2. PICK last : last = EndBefore(r, flushes, n + 1)
  OBVIOUS
<1>3. last \in 0..n /\ \A k \in 1..n : k > last => r[k] # "nl"
  BY <1>1, <1>2, RestIs
<1>4. r \in Seq(Symbols) /\ rest = SubSeq(r, last + 1, n)
  BY <1>1, <1>2 DEF Output, Accounts
<1>5. PICK k \in Nat : k = n - last
  <2>1. n - last \in Nat
    BY <1>3
  <2> QED BY <2>1
<1>6. rest = [i \in 1..k |-> r[i + last]]
  BY <1>1, <1>3, <1>4, <1>5
<1>7. \A i \in 1..k : i + last \in 1..n /\ i + last > last /\ r[i + last] \in Symbols
  BY <1>1, <1>3, <1>4, <1>5
<1>8. rest \in Seq(Symbols) /\ Len(rest) = k /\ \A i \in 1..k : rest[i] = r[i + last]
  BY <1>6, <1>7
<1> QED BY <1>1, <1>2, <1>3, <1>5, <1>7, <1>8

(* A new end, of everything that is left: at a newline, or by a flush.     *)
LEMMA EndAccounts ==
  ASSUME NEW r, NEW flushes, Output(r, flushes), NEW rest, NEW log, log \in Seq(LogEntry),
         Accounts(r, flushes, rest, log), NEW q, NEW later, Output(q, later),
         NEW e \in Nat, e = Len(q), Len(r) <= e, EndBefore(r, flushes, Len(r) + 1) < e,
         Ends(q, later) = Ends(r, flushes) \cup {e},
         \A i \in 1..Len(r) : q[i] = r[i],
         \A a, z \in Nat : a >= 1 /\ z <= Len(r) => SubSeq(q, a, z) = SubSeq(r, a, z),
         NEW entry \in LogEntry, Line(q, later, e) # <<>> => entry = EntryAt(q, later, e)
  PROVE  Accounts(q, later, <<>>, IF Line(q, later, e) = <<>> THEN log ELSE Append(log, entry))
<1>1. PICK n \in Nat : n = Len(r)
  BY EndsInOutput
<1>2. PICK last : last = EndBefore(r, flushes, n + 1)
  OBVIOUS
<1>3. last \in 0..n /\ last < e /\ \A k \in Ends(r, flushes) : k \in 1..n /\ k <= last
  BY <1>1, <1>2, RestIs, EndsInOutput
<1>4. \A k \in Ends(r, flushes) : k < e /\ k # e /\ k \in Nat
  BY <1>3
<1>5. ASSUME NEW i \in Ends(r, flushes)
      PROVE  Line(q, later, i) = Line(r, flushes, i) /\ EntryAt(q, later, i) = EntryAt(r, flushes, i)
  <2>1. q[i] = r[i]
    BY <1>1, <1>3
  <2>2. \A k \in Nat : k < i => (k \in Ends(q, later) <=> k \in Ends(r, flushes))
    BY <1>4
  <2> QED BY <2>1, <2>2, LinesStay
<1>6. Logs(r, flushes, log) /\ \A i \in Shown(r, flushes) : EntryAt(q, later, i) = EntryAt(r, flushes, i)
  BY <1>5 DEF Logs, Accounts, Shown
<1>7. Shown(q, later) = Shown(r, flushes) \cup IF Line(q, later, e) = <<>> THEN {} ELSE {e}
  BY <1>5 DEF Shown
<1>8. Logs(q, later, IF Line(q, later, e) = <<>> THEN log ELSE Append(log, entry))
  <2>1. CASE Line(q, later, e) = <<>>
    <3>1. Shown(q, later) = Shown(r, flushes)
      BY <1>7, <2>1
    <3> QED BY <1>6, <2>1, <3>1, LogsStay
  <2>2. CASE Line(q, later, e) # <<>>
    <3>1. Shown(q, later) = Shown(r, flushes) \cup {e}
      BY <1>7, <2>2
    <3>2. e \in Nat \ {0} /\ \A i \in Shown(r, flushes) : i < e
      BY <1>3, <1>4 DEF Shown
    <3>3. entry = EntryAt(q, later, e) /\ EntryAt(q, later, e) \in LogEntry
      BY <2>2
    <3>4. Logs(q, later, Append(log, EntryAt(q, later, e)))
      BY <1>6, <3>1, <3>2, <3>3, LogsGrow
    <3> QED BY <2>2, <3>3, <3>4
  <2> QED BY <2>1, <2>2
<1>9. EndBefore(q, later, e + 1) = e
  <2>1. IsEndBefore(e, q, later, e + 1)
    BY <1>4 DEF IsEndBefore
  <2> QED BY <2>1, EndBeforeOnly
<1>10. SubSeq(q, e + 1, e) = <<>>
  BY DEF Output
<1> QED BY <1>8, <1>9, <1>10 DEF Accounts, Logs

(* A newline ends the line: what was left over is logged, trimmed, unless  *)
(* it is blank.                                                            *)
LEMMA NewlineAccounts ==
  ASSUME NEW r, NEW flushes, Output(r, flushes), NEW rest, NEW log, log \in Seq(LogEntry),
         Accounts(r, flushes, rest, log)
  PROVE  /\ Accounts(Append(r, "nl"), flushes, <<>>, Log(log, Trimmed(rest)))
         /\ Log(log, Trimmed(rest)) \in Seq(LogEntry)
<1>1. PICK n \in Nat : n = Len(r)
  BY EndsInOutput
<1>2. PICK q : q = Append(r, "nl")
  OBVIOUS
<1>3. "nl" \in Symbols
  BY DEF Symbols
<1>4. /\ Output(q, flushes) /\ Len(q) = n + 1 /\ q[n + 1] = "nl"
      /\ \A i \in 1..n : q[i] = r[i]
      /\ \A a, z \in Nat : a >= 1 /\ z <= n => SubSeq(q, a, z) = SubSeq(r, a, z)
      /\ Ends(q, flushes) = Ends(r, flushes) \cup {n + 1}
  BY <1>1, <1>2, <1>3, OutputGrows
<1>5. PICK last : last = EndBefore(r, flushes, n + 1)
  OBVIOUS
<1>6. last \in 0..n
  BY <1>1, <1>5, RestIs
<1>7. EndBefore(q, flushes, n + 1) = last
  <2>1. \A k \in Nat : k < n + 1 => (k \in Ends(q, flushes) <=> k \in Ends(r, flushes))
    BY <1>4
  <2> QED BY <1>1, <1>4, <1>5, <2>1, EndBeforeStays
<1>8. rest = SubSeq(r, last + 1, n) /\ rest \in Seq(Symbols)
  BY <1>1, <1>5, RestTyped DEF Accounts
<1>9. Line(q, flushes, n + 1) = Trimmed(rest)
  <2>1. (n + 1) - 1 = n
    OBVIOUS
  <2>2. SubSeq(q, last + 1, n) = SubSeq(r, last + 1, n)
    BY <1>4, <1>6
  <2> QED BY <1>4, <1>7, <1>8, <2>1, <2>2 DEF Line
<1>10. PICK entry \in LogEntry : entry = LogLine(Trimmed(rest))
  BY <1>8, EntriesTyped
<1>11. EntryAt(q, flushes, n + 1) = entry
  BY <1>4, <1>9, <1>10 DEF EntryAt
<1>12. Accounts(q, flushes, <<>>, IF Trimmed(rest) = <<>> THEN log ELSE Append(log, entry))
  <2>1. PICK e \in Nat : e = n + 1
    BY <1>1
  <2>2. Len(r) <= e /\ EndBefore(r, flushes, Len(r) + 1) < e
    BY <1>1, <1>5, <1>6, <2>1
  <2> QED BY <1>1, <1>4, <1>9, <1>11, <2>1, <2>2, EndAccounts
<1> QED BY <1>2, <1>10, <1>12 DEF Log

(* Flush ends the line where the output stands.                            *)
LEMMA FlushAccounts ==
  ASSUME NEW r, NEW flushes, Output(r, flushes), NEW rest, NEW log, log \in Seq(LogEntry),
         Accounts(r, flushes, rest, log), rest # <<>>
  PROVE  /\ Output(r, flushes \cup {Len(r)})
         /\ Accounts(r, flushes \cup {Len(r)}, <<>>, Append(log, [line |-> rest, level |-> "info"]))
         /\ Append(log, [line |-> rest, level |-> "info"]) \in Seq(LogEntry)
<1>1. PICK n \in Nat : n = Len(r)
  BY EndsInOutput
<1>2. PICK last : last = EndBefore(r, flushes, n + 1)
  OBVIOUS
<1>3. /\ last \in 0..n /\ (last = 0 \/ last \in Ends(r, flushes))
      /\ \A k \in Ends(r, flushes) : k <= last
      /\ \A k \in 1..n : k > last => r[k] # "nl"
  BY <1>1, <1>2, RestIs
<1>4. rest = SubSeq(r, last + 1, n) /\ rest \in Seq(Symbols) /\ Len(rest) = n - last
  BY <1>1, <1>2, RestTyped DEF Accounts
<1>5. last < n
  BY <1>3, <1>4
<1>6. PICK later : later = flushes \cup {n}
  OBVIOUS
<1>7. /\ Output(r, later) /\ Ends(r, later) = Ends(r, flushes) \cup {n}
  <2>1. n \in 1..Len(r)
    BY <1>1, <1>3, <1>5
  <2>2. Output(r, later)
    BY <1>6, <2>1 DEF Output
  <2> QED BY <1>6, <2>2 DEF Ends
<1>8. EndBefore(r, later, n) = last
  <2>1. IsEndBefore(last, r, later, n)
    BY <1>3, <1>5, <1>7 DEF IsEndBefore
  <2> QED BY <1>7, <2>1, EndBeforeOnly
<1>9. r[n] # "nl"
  BY <1>3, <1>5
<1>10. Line(r, later, n) = rest
  BY <1>4, <1>8, <1>9 DEF Line
<1>11. PICK entry \in LogEntry : entry = [line |-> rest, level |-> "info"]
  BY <1>4, EntriesTyped
<1>12. EntryAt(r, later, n) = entry
  BY <1>9, <1>10, <1>11 DEF EntryAt
<1>13. Accounts(r, later, <<>>, IF rest = <<>> THEN log ELSE Append(log, entry))
  <2>1. Len(r) <= n /\ EndBefore(r, flushes, Len(r) + 1) < n
    BY <1>1, <1>2, <1>5
  <2> QED BY <1>1, <1>7, <1>10, <1>12, <2>1, EndAccounts
<1> QED BY <1>1, <1>6, <1>7, <1>11, <1>13

(* The scan of a buffer is what its definition says.                       *)
IsScan(f, b, n, none) ==
  f = [i \in 0..n |-> IF i = 0 THEN none ELSE CutAt(b, i, f[i - 1])]

(* Every buffer can be scanned.                                            *)
LEMMA ScanExists ==
  ASSUME NEW b, NEW none, NEW n \in Nat
  PROVE  \E f : IsScan(f, b, n, none)
<1> DEFINE T == {m \in Nat : ~ \E f : IsScan(f, b, m, none)}
<1> SUFFICES ASSUME T # {} PROVE FALSE
  OBVIOUS
<1>1. PICK m \in T : \A k \in T : m <= k
  <2>1. T \subseteq Nat
    OBVIOUS
  <2> HIDE DEF T
  <2> QED BY <2>1, LeastNumber
<1>2. CASE m = 0
  <2>1. IsScan([i \in 0..0 |-> none], b, 0, none)
    BY DEF IsScan
  <2> QED BY <1>1, <1>2, <2>1
<1>3. CASE m # 0
  <2>1. m \in Nat /\ m - 1 \in Nat
    BY <1>1, <1>3
  <2>2. m - 1 \notin T
    BY <1>1, <2>1
  <2>3. PICK f : IsScan(f, b, m - 1, none)
    BY <2>1, <2>2
  <2>4. PICK g : g = [i \in 0..m |-> IF i = m THEN CutAt(b, m, f[m - 1]) ELSE f[i]]
    OBVIOUS
  <2>5. \A i \in 0..(m - 1) : /\ f[i] = IF i = 0 THEN none ELSE CutAt(b, i, f[i - 1])
                              /\ g[i] = f[i]
    BY <2>1, <2>3, <2>4 DEF IsScan
  <2>6. ASSUME NEW i \in 0..m PROVE g[i] = IF i = 0 THEN none ELSE CutAt(b, i, g[i - 1])
    <3>1. CASE i = m
      <4>1. g[i] = CutAt(b, m, f[m - 1]) /\ m - 1 \in 0..(m - 1)
        BY <2>1, <2>4, <3>1
      <4> QED BY <1>3, <2>5, <3>1, <4>1
    <3>2. CASE i # m
      <4>1. i \in 0..(m - 1) /\ (i # 0 => i - 1 \in 0..(m - 1))
        BY <2>1, <3>2
      <4> QED BY <2>5, <4>1
    <3> QED BY <3>1, <3>2
  <2>7. g = [i \in 0..m |-> g[i]]
    BY <2>4
  <2>8. IsScan(g, b, m, none)
    BY <2>6, <2>7 DEF IsScan
  <2> QED BY <1>1, <2>8
<1> QED BY <1>2, <1>3

(* ProcessBuffer is where the scan of a buffer ends.                       *)
LEMMA ScanIs ==
  ASSUME NEW b, Len(b) \in Nat
  PROVE  \E f : /\ IsScan(f, b, Len(b), [start |-> 1, logged |-> logged])
                /\ ProcessBuffer(b) = f[Len(b)]
<1> DEFINE none == [start |-> 1, logged |-> logged]
           scan == CHOOSE f : f = [i \in 0..Len(b) |-> IF i = 0 THEN none ELSE CutAt(b, i, f[i - 1])]
<1>1. \E f : IsScan(f, b, Len(b), none)
  <2> HIDE DEF none
  <2> QED BY ScanExists
<1>2. IsScan(scan, b, Len(b), none)
  BY <1>1 DEF IsScan
<1>3. ProcessBuffer(b) = scan[Len(b)]
  BY DEF ProcessBuffer
<1> HIDE DEF scan
<1> QED BY <1>2, <1>3

(* One more at the end of the second of two is one more at the end.        *)
LEMMA AppendedLast ==
  ASSUME NEW a \in Seq(Symbols), NEW b \in Seq(Symbols), NEW c \in Symbols
  PROVE  a \o Append(b, c) = Append(a \o b, c)
<1>1. PICK l, q : l = a \o Append(b, c) /\ q = Append(a \o b, c)
  OBVIOUS
<1>2. PICK m \in Nat, n \in Nat : m = Len(a) /\ n = Len(b)
  OBVIOUS
<1>3. l \in Seq(Symbols) /\ q \in Seq(Symbols) /\ Len(l) = m + n + 1 /\ Len(q) = m + n + 1
  BY <1>1, <1>2
<1>4. ASSUME NEW i \in 1..(m + n + 1) PROVE l[i] = q[i]
  BY <1>1, <1>2
<1>5. l \in [1..(m + n + 1) -> Symbols] /\ q \in [1..(m + n + 1) -> Symbols]
  BY <1>3
<1> QED BY <1>1, <1>4, <1>5

(* The log accounts for what was received.                                 *)
WriterInv ==
  /\ Output(received, flushed)
  /\ logged \in Seq(LogEntry)
  /\ Accounts(received, flushed, buffer, logged)

(* What was read of a buffer: up to its own end it holds no newline, and   *)
(* from there each symbol is one more received.                            *)
LEMMA ScanAccounts ==
  ASSUME WriterInv, NEW p \in Seq(Symbols), NEW b, b = buffer \o p, NEW f,
         IsScan(f, b, Len(b), [start |-> 1, logged |-> logged])
  PROVE  \A k \in 0..Len(p) :
           LET i == Len(buffer) + k
           IN /\ f[i].start \in 1..(i + 1)
              /\ f[i].logged \in Seq(LogEntry)
              /\ Output(received \o SubSeq(p, 1, k), flushed)
              /\ Accounts(received \o SubSeq(p, 1, k), flushed, SubSeq(b, f[i].start, i), f[i].logged)
<1>1. PICK m \in Nat : m = Len(buffer)
  BY RestTyped DEF WriterInv
<1>2. /\ buffer \in Seq(Symbols) /\ \A k \in 1..m : buffer[k] # "nl"
      /\ received \in Seq(Symbols)
  BY <1>1, RestTyped DEF WriterInv, Output
<1>3. PICK n \in Nat : n = Len(p)
  OBVIOUS
<1>4. /\ b \in Seq(Symbols) /\ Len(b) = m + n
      /\ \A k \in 1..m : b[k] = buffer[k]
      /\ \A k \in 1..n : b[m + k] = p[k]
      /\ SubSeq(b, 1, m) = buffer
  <2>1. /\ b \in Seq(Symbols) /\ Len(b) = m + n
        /\ \A k \in 1..m : b[k] = buffer[k]
        /\ \A k \in 1..n : b[m + k] = p[k]
    BY <1>1, <1>2, <1>3
  <2>2. SubSeq(b, 1, m) = [k \in 1..m |-> b[k]] /\ buffer = [k \in 1..m |-> buffer[k]]
    BY <1>1, <1>2, <2>1
  <2> QED BY <2>1, <2>2
<1>5. PICK none : none = [start |-> 1, logged |-> logged]
  OBVIOUS
<1>6. \A i \in 0..(m + n) : f[i] = IF i = 0 THEN none ELSE CutAt(b, i, f[i - 1])
  BY <1>4, <1>5 DEF IsScan
<1>7. f[m] = none
  <2> DEFINE T == {i \in Nat : i <= m /\ f[i] # none}
  <2> SUFFICES ASSUME T # {} PROVE FALSE
    BY <1>1
  <2>1. PICK i \in T : \A j \in T : i <= j
    <3>1. T \subseteq Nat
      OBVIOUS
    <3> HIDE DEF T
    <3> QED BY <3>1, LeastNumber
  <2>2. i \in 0..(m + n) /\ i # 0
    BY <1>1, <1>3, <1>6, <2>1
  <2>3. i - 1 \notin T /\ i - 1 \in Nat /\ i - 1 <= m
    BY <2>1, <2>2
  <2>4. f[i - 1] = none
    BY <2>3
  <2>5. b[i] # "nl"
    BY <1>2, <1>4, <2>1, <2>2
  <2> QED BY <1>6, <2>1, <2>2, <2>4, <2>5 DEF CutAt
<1> DEFINE Fine(k) == /\ f[m + k].start \in 1..(m + k + 1)
                      /\ f[m + k].logged \in Seq(LogEntry)
                      /\ Output(received \o SubSeq(p, 1, k), flushed)
                      /\ Accounts(received \o SubSeq(p, 1, k), flushed,
                                  SubSeq(b, f[m + k].start, m + k), f[m + k].logged)
<1>8. Fine(0)
  <2>1. received \o SubSeq(p, 1, 0) = received
    BY <1>2
  <2>2. none.start = 1 /\ none.logged = logged
    BY <1>5
  <2>3. m + 0 = m /\ 1 \in 1..(m + 1)
    OBVIOUS
  <2>4. /\ logged \in Seq(LogEntry) /\ Output(received, flushed)
        /\ Accounts(received, flushed, buffer, logged)
    BY DEF WriterInv
  <2> QED BY <1>4, <1>7, <2>1, <2>2, <2>3, <2>4
<1>9. ASSUME NEW k \in 0..n, k + 1 <= n, Fine(k) PROVE Fine(k + 1)
  <2>1. PICK s : s = f[m + k]
    OBVIOUS
  <2>2. PICK r : r = received \o SubSeq(p, 1, k)
    OBVIOUS
  <2>3. PICK i \in Nat : i = m + k
    BY <1>1
  <2>4. PICK rest : rest = SubSeq(b, s.start, i)
    OBVIOUS
  <2>5. /\ s.start \in 1..(i + 1) /\ s.logged \in Seq(LogEntry)
        /\ Output(r, flushed) /\ Accounts(r, flushed, rest, s.logged)
    BY <1>9, <2>1, <2>2, <2>3, <2>4
  <2>6. PICK c \in Symbols : c = p[k + 1] /\ c = b[i + 1]
    <3>1. k + 1 \in 1..n /\ m + (k + 1) = i + 1
      BY <1>9, <2>3
    <3> QED BY <1>3, <1>4, <3>1
  <2>7. received \o SubSeq(p, 1, k + 1) = Append(r, c)
    <3>1. SubSeq(p, 1, k + 1) = Append(SubSeq(p, 1, k), c)
      <4>1. k \in Nat /\ k + 1 <= Len(p) /\ 0 \in 0..k
        BY <1>3, <1>9
      <4>2. SubSeq(p, 0 + 1, k + 1) = Append(SubSeq(p, 0 + 1, k), p[k + 1])
        BY <4>1, SubSeqGrows
      <4>3. 0 + 1 = 1
        OBVIOUS
      <4> QED BY <2>6, <4>2, <4>3
    <3>2. SubSeq(p, 1, k) \in Seq(Symbols)
      BY <1>3, <1>9
    <3> QED BY <1>2, <2>2, <3>1, <3>2, AppendedLast
  <2>8. PICK t : t = f[m + (k + 1)]
    OBVIOUS
  <2>9. t = CutAt(b, i + 1, s)
    <3>1. m + (k + 1) = i + 1 /\ i + 1 \in 0..(m + n) /\ i + 1 # 0 /\ (i + 1) - 1 = m + k
      BY <1>1, <1>9, <2>3
    <3> QED BY <1>6, <2>1, <2>8, <3>1
  <2>10. Output(Append(r, c), flushed)
    BY <2>5, OutputGrows
  <2>11. /\ t.start \in 1..(i + 2) /\ t.logged \in Seq(LogEntry)
         /\ Accounts(Append(r, c), flushed, SubSeq(b, t.start, i + 1), t.logged)
    <3>1. CASE c # "nl"
      <4>1. t = s
        BY <2>6, <2>9, <3>1 DEF CutAt
      <4>2. SubSeq(b, s.start, i + 1) = Append(rest, c)
        <5>1. PICK a \in 0..i : s.start = a + 1
          <6>1. s.start - 1 \in 0..i /\ s.start = (s.start - 1) + 1
            BY <2>5
          <6> QED BY <6>1
        <5>2. i + 1 <= Len(b)
          BY <1>4, <1>9, <2>3
        <5> QED BY <1>4, <2>4, <2>6, <5>1, <5>2, SubSeqGrows
      <4>3. Accounts(Append(r, c), flushed, Append(rest, c), s.logged)
        BY <2>5, <3>1, SymbolAccounts
      <4>4. t.start \in 1..(i + 2)
        BY <2>5, <4>1
      <4>5. Accounts(Append(r, c), flushed, SubSeq(b, t.start, i + 1), t.logged)
        BY <4>1, <4>2, <4>3
      <4> QED BY <2>5, <4>1, <4>4, <4>5
    <3>2. CASE c = "nl"
      <4>1. (i + 1) - 1 = i /\ (i + 1) + 1 = i + 2
        OBVIOUS
      <4>2. t.start = i + 2 /\ t.logged = Log(s.logged, Trimmed(rest))
        BY <2>4, <2>6, <2>9, <3>2, <4>1 DEF CutAt
      <4>3. SubSeq(b, i + 2, i + 1) = <<>>
        BY <1>4
      <4>4. /\ Accounts(Append(r, "nl"), flushed, <<>>, Log(s.logged, Trimmed(rest)))
            /\ Log(s.logged, Trimmed(rest)) \in Seq(LogEntry)
        BY <2>5, NewlineAccounts
      <4>5. t.start \in 1..(i + 2)
        BY <4>2
      <4>6. Accounts(Append(r, c), flushed, SubSeq(b, t.start, i + 1), t.logged)
        BY <3>2, <4>2, <4>3, <4>4
      <4> QED BY <4>2, <4>4, <4>5, <4>6
    <3> QED BY <3>1, <3>2
  <2>12. m + (k + 1) = i + 1 /\ m + (k + 1) + 1 = i + 2
    BY <2>3
  <2> QED BY <2>7, <2>8, <2>10, <2>11, <2>12
<1>10. \A k \in 0..n : Fine(k)
  <2> DEFINE T == {k \in Nat : k <= n /\ ~Fine(k)}
  <2> HIDE DEF Fine
  <2> SUFFICES ASSUME T # {} PROVE FALSE
    OBVIOUS
  <2>1. PICK k \in T : \A j \in T : k <= j
    <3>1. T \subseteq Nat
      OBVIOUS
    <3> HIDE DEF T
    <3> QED BY <3>1, LeastNumber
  <2>2. k # 0
    BY <1>8, <2>1
  <2>3. k - 1 \in 0..n /\ (k - 1) + 1 <= n /\ k - 1 \notin T
    BY <2>1, <2>2
  <2>4. Fine(k - 1)
    BY <2>3
  <2>5. Fine((k - 1) + 1)
    BY <1>9, <2>3, <2>4
  <2>6. (k - 1) + 1 = k
    BY <2>1
  <2> QED BY <2>1, <2>5, <2>6
<1> QED BY <1>1, <1>3, <1>10

(* A state says the same of an output whatever was logged since.           *)
LEMMA AccountsStay ==
  ASSUME stream' = stream, NEW r, NEW flushes, NEW rest, NEW log
  PROVE  Accounts(r, flushes, rest, log)' = Accounts(r, flushes, rest, log)
<1>1. \A line : LogLine(line)' = LogLine(line)
  BY DEF LogLine
<1>2. \A i : EntryAt(r, flushes, i)' = EntryAt(r, flushes, i)
  BY <1>1 DEF EntryAt
<1> QED BY <1>2 DEF Accounts

(* Write keeps the account, whatever it is given.                          *)
LEMMA WriteHolds ==
  ASSUME WriterInv, NEW p \in Seq(Symbols), Write(p)
  PROVE  WriterInv'
<1>1. PICK b : b = buffer \o p
  OBVIOUS
<1>2. PICK n \in Nat : n = Len(p)
  OBVIOUS
<1>3. PICK m \in Nat : m = Len(buffer)
  BY RestTyped DEF WriterInv
<1>4. buffer \in Seq(Symbols) /\ received \in Seq(Symbols)
  BY RestTyped DEF WriterInv, Output
<1>5. Len(b) = m + n
  BY <1>1, <1>2, <1>3, <1>4
<1>6. PICK f : /\ IsScan(f, b, Len(b), [start |-> 1, logged |-> logged])
               /\ ProcessBuffer(b) = f[Len(b)]
  <2>1. Len(b) \in Nat
    BY <1>5
  <2> QED BY <2>1, ScanIs
<1>7. PICK done : done = f[m + n]
  OBVIOUS
<1>8. SubSeq(p, 1, n) = p
  <2>1. SubSeq(p, 1, n) = [k \in 1..n |-> p[k]] /\ p = [k \in 1..n |-> p[k]]
    BY <1>2
  <2> QED BY <2>1
<1>9. PICK r : r = received \o p
  OBVIOUS
<1>10. /\ done.logged \in Seq(LogEntry) /\ Output(r, flushed)
       /\ Accounts(r, flushed, SubSeq(b, done.start, m + n), done.logged)
  <2>1. n \in 0..Len(p)
    BY <1>2
  <2> QED BY <1>1, <1>2, <1>3, <1>6, <1>7, <1>8, <1>9, <2>1, ScanAccounts
<1>11. /\ received' = r /\ stream' = stream /\ flushed' = flushed
       /\ buffer' = SubSeq(b, done.start, m + n) /\ logged' = done.logged
  BY <1>1, <1>5, <1>6, <1>7, <1>9 DEF Write, Received
<1>12. PICK flushes, rest, log : flushes = flushed /\ rest = buffer' /\ log = logged'
  OBVIOUS
<1>13. Accounts(r, flushes, rest, log)'
  BY <1>10, <1>11, <1>12, AccountsStay
<1>14. Accounts(received, flushed, buffer, logged)'
  BY <1>11, <1>12, <1>13
<1>15. Output(received, flushed)' /\ logged' \in Seq(LogEntry)
  BY <1>10, <1>11 DEF Output
<1> QED BY <1>14, <1>15 DEF WriterInv

(* Flush keeps it.                                                         *)
LEMMA FlushHolds ==
  ASSUME WriterInv, Flush
  PROVE  WriterInv'
<1>1. PICK r, flushes, rest, log :
        /\ r = received /\ flushes = flushed \cup {Len(received)} /\ rest = buffer
        /\ log = Append(logged, [line |-> buffer, level |-> "info"])
  OBVIOUS
<1>2. /\ received' = r /\ stream' = stream /\ flushed' = flushes
      /\ buffer' = <<>> /\ logged' = log /\ buffer # <<>>
  BY <1>1 DEF Flush
<1>3. Output(r, flushes) /\ Accounts(r, flushes, <<>>, log) /\ log \in Seq(LogEntry)
  BY <1>1, <1>2, FlushAccounts DEF WriterInv
<1>4. PICK none : none = <<>>
  OBVIOUS
<1>5. Accounts(r, flushes, none, log)'
  BY <1>2, <1>3, <1>4, AccountsStay
<1>6. Accounts(received, flushed, buffer, logged)'
  BY <1>2, <1>4, <1>5
<1>7. Output(received, flushed)'
  BY <1>2, <1>3 DEF Output
<1> QED BY <1>2, <1>3, <1>6, <1>7 DEF WriterInv

(* Nothing was received yet, and nothing logged.                           *)
LEMMA NothingReceived == LogInit => WriterInv
<1> SUFFICES ASSUME buffer = <<>>, logged = <<>>, received = <<>>, flushed = {} PROVE WriterInv
  BY DEF LogInit
<1>1. Output(received, flushed) /\ logged \in Seq(LogEntry)
  BY DEF Output
<1>2. Ends(received, flushed) = {} /\ Shown(received, flushed) = {}
  BY DEF Ends, Shown
<1>3. Len(logged) = Cardinality(Shown(received, flushed))
  BY <1>2, FS_EmptySet
<1>4. \A a : SubSeq(received, EndBefore(received, flushed, a) + 1, 0) = <<>>
  <2>1. \A a : EndBefore(received, flushed, a) = 0
    BY <1>2 DEF EndBefore
  <2> QED BY <2>1
<1>5. Len(received) = 0
  OBVIOUS
<1> QED BY <1>1, <1>2, <1>3, <1>4, <1>5 DEF WriterInv, Accounts

(* Every step of the writer keeps it.                                      *)
LEMMA WriterStepHolds == WriterInv /\ [LogNext]_logVars => WriterInv'
<1> SUFFICES ASSUME WriterInv, [LogNext]_logVars PROVE WriterInv'
  OBVIOUS
<1>1. CASE UNCHANGED logVars
  <2>1. PICK r, flushes, rest, log : r = received /\ flushes = flushed /\ rest = buffer /\ log = logged
    OBVIOUS
  <2>2. stream' = stream /\ received' = r /\ flushed' = flushes /\ buffer' = rest /\ logged' = log
    BY <1>1, <2>1 DEF logVars
  <2>3. Accounts(r, flushes, rest, log)'
    BY <2>1, <2>2, AccountsStay DEF WriterInv
  <2>4. Accounts(received, flushed, buffer, logged)'
    BY <2>2, <2>3
  <2> QED BY <2>1, <2>2, <2>4 DEF WriterInv, Output
<1>2. CASE Flush
  BY <1>2, FlushHolds
<1>3. ASSUME NEW p \in SeqOf(Symbols, MaxWrite), Write(p)
      PROVE  WriterInv'
  <2>1. p \in Seq(Symbols)
    BY DEF SeqOf
  <2> QED BY <1>3, <2>1, WriteHolds
<1> QED BY <1>1, <1>2, <1>3 DEF LogNext

(* However the output is cut into writes and whenever it is flushed, what  *)
(* was logged are its lines, and what was not is in the buffer.            *)
THEOREM LinesAreLogged == LogSpec => []LoggedIsReceived
<1>1. WriterInv => LoggedIsReceived
  BY DEF WriterInv, LoggedIsReceived
<1>2. LogSpec => []WriterInv
  BY NothingReceived, WriterStepHolds, PTL DEF LogSpec
<1> QED BY <1>1, <1>2, PTL
=============================================================================

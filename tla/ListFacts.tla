------------------------------ MODULE ListFacts ------------------------------
(***************************************************************************)
(* What putting a task into a list and taking it out does to the list.     *)
(***************************************************************************)
EXTENDS Lists, WellFoundedInduction, SequenceTheorems, TLAPS

\* A non-empty set of naturals has a least element, and Min returns it.
LEMMA MinOfNaturals ==
  ASSUME NEW S \in SUBSET Nat, S # {}
  PROVE  Min(S) \in S /\ \A y \in S : Min(S) <= y
<1>1. /\ IsWellFoundedOn(OpToRel(<, Nat), Nat)
      /\ \A x, y \in Nat : y < x => <<y, x>> \in OpToRel(<, Nat)
  <2>1. \A x, y \in Nat : y < x => <<y, x>> \in OpToRel(<, Nat)
    BY DEF OpToRel
  <2> QED BY <2>1, NatLessThanWellFounded, Zenon
<1>2. PICK R : IsWellFoundedOn(R, Nat) /\ \A x, y \in Nat : y < x => <<y, x>> \in R
  BY <1>1, Zenon
<1>3. PICK x \in S : \A y \in S : ~ (<<y, x>> \in R)
  BY <1>2, WFMin, Zenon
<1>4. \A y \in S : x <= y
  <2> TAKE y \in S
  <2>1. x \in Nat /\ y \in Nat /\ ~ (y < x)
    BY <1>2, <1>3, Zenon
  <2> QED BY <2>1, SMT
<1> QED BY <1>4 DEF Min

\* Removing an element from a sequence without duplicates leaves the others, once
\* each.
LEMMA RemoveFirstFacts ==
  ASSUME NEW S, NEW s \in Seq(S), NEW e, Contains(s, e), NoDuplicates(s)
  PROVE  /\ RemoveFirst(s, e) \in Seq(S)
         /\ NoDuplicates(RemoveFirst(s, e))
         /\ \A x : Contains(RemoveFirst(s, e), x) <=> (x # e /\ Contains(s, x))
<1> DEFINE I == {j \in 1..Len(s) : s[j] = e}
           i == Min(I)
           before == SubSeq(s, 1, i - 1)
           after == SubSeq(s, i + 1, Len(s))
           r == before \o after
<1>1. i \in 1..Len(s) /\ s[i] = e
  <2>1. I \in SUBSET Nat /\ I # {}
    BY DEF Contains
  <2> HIDE DEF I
  <2>2. i \in I
    BY <2>1, MinOfNaturals, Zenon
  <2> QED BY <2>2 DEF I
<1>2. RemoveFirst(s, e) = r
  BY <1>1 DEF RemoveFirst, RemoveAt, SelectInSeq
<1> HIDE DEF i
<1>3. /\ before \in Seq(S) /\ Len(before) = i - 1
      /\ \A j \in 1..(i - 1) : before[j] = s[j]
  <2>1. \A j \in 1..(i - 1) : s[j] \in S
    BY <1>1
  <2> QED BY <1>1, <2>1, SubSeqProperties
<1>4. /\ after \in Seq(S) /\ Len(after) = Len(s) - i
      /\ \A j \in 1..(Len(s) - i) : after[j] = s[i + j]
  <2>1. \A j \in (i + 1)..Len(s) : s[j] \in S
    BY <1>1
  <2> QED BY <1>1, <2>1, SubSeqProperties
<1> HIDE DEF before, after
<1>5. /\ r \in Seq(S) /\ Len(r) = Len(s) - 1
      /\ \A j \in 1..(Len(s) - 1) : r[j] = IF j < i THEN s[j] ELSE s[j + 1]
  <2>1. /\ r \in Seq(S) /\ Len(r) = Len(before) + Len(after)
        /\ \A j \in 1..(Len(before) + Len(after)) :
             r[j] = IF j <= Len(before) THEN before[j] ELSE after[j - Len(before)]
    BY <1>3, <1>4, ConcatProperties
  <2>2. Len(r) = Len(s) - 1
    BY <1>1, <1>3, <1>4, <2>1
  <2>3. ASSUME NEW j \in 1..(Len(s) - 1)
        PROVE  r[j] = IF j < i THEN s[j] ELSE s[j + 1]
    <3>1. CASE j < i
      <4>1. j \in 1..(i - 1) /\ r[j] = before[j]
        BY <3>1, <1>1, <1>3, <1>4, <2>1
      <4> QED BY <3>1, <4>1, <1>3
    <3>2. CASE ~ (j < i)
      <4>1. j - (i - 1) \in 1..(Len(s) - i) /\ r[j] = after[j - (i - 1)]
        BY <3>2, <1>1, <1>3, <1>4, <2>1
      <4>2. after[j - (i - 1)] = s[i + (j - (i - 1))] /\ i + (j - (i - 1)) = j + 1
        BY <4>1, <1>1, <1>4
      <4> QED BY <3>2, <4>1, <4>2
    <3> QED BY <3>1, <3>2
  <2> QED BY <2>1, <2>2, <2>3
<1> HIDE DEF r
<1>6. NoDuplicates(r)
  <2> SUFFICES ASSUME NEW j \in 1..Len(r), NEW m \in 1..Len(r), r[j] = r[m]
               PROVE  j = m
    BY DEF NoDuplicates
  <2> DEFINE at(n) == IF n < i THEN n ELSE n + 1
  <2>1. /\ at(j) \in 1..Len(s) /\ at(m) \in 1..Len(s)
        /\ r[j] = s[at(j)] /\ r[m] = s[at(m)]
    BY <1>1, <1>5
  <2>2. at(j) = at(m)
    BY <2>1 DEF NoDuplicates
  <2> QED BY <2>2, <1>1
<1>7. \A j \in 1..Len(r) : r[j] # e
  BY <1>1, <1>5 DEF NoDuplicates
<1>8. \A j \in 1..Len(r) : \E m \in 1..Len(s) : s[m] = r[j]
  BY <1>1, <1>5
<1>9. ASSUME NEW j \in 1..Len(s), s[j] # e
      PROVE  \E m \in 1..Len(r) : r[m] = s[j]
  <2>1. CASE j < i
    BY <2>1, <1>1, <1>5
  <2>2. CASE j > i
    <3>1. j - 1 \in 1..Len(r) /\ r[j - 1] = s[j]
      BY <2>2, <1>1, <1>5
    <3> QED BY <3>1
  <2> QED BY <2>1, <2>2, <1>1, <1>9
<1>10. \A x : (\E j \in 1..Len(r) : r[j] = x)
                <=> (x # e /\ \E j \in 1..Len(s) : s[j] = x)
  BY <1>7, <1>8, <1>9, Zenon
<1> QED BY <1>2, <1>5, <1>6, <1>10, Zenon DEF Contains

\* The same whether the element is there or not.
LEMMA RemoveFacts ==
  ASSUME NEW S, NEW s \in Seq(S), NEW e, NoDuplicates(s)
  PROVE  /\ RemoveFirst(s, e) \in Seq(S)
         /\ NoDuplicates(RemoveFirst(s, e))
         /\ \A x : Contains(RemoveFirst(s, e), x) <=> (x # e /\ Contains(s, x))
<1>1. CASE Contains(s, e)
  BY <1>1, RemoveFirstFacts
<1>2. CASE ~Contains(s, e)
  <2>1. RemoveFirst(s, e) = s
    BY <1>2 DEF RemoveFirst, Contains
  <2> QED BY <1>2, <2>1
<1> QED BY <1>1, <1>2

\* Appending a new element.
LEMMA AppendFacts ==
  ASSUME NEW S, NEW s \in Seq(S), NEW e \in S, ~Contains(s, e), NoDuplicates(s)
  PROVE  /\ Append(s, e) \in Seq(S) /\ Append(s, e) # << >>
         /\ NoDuplicates(Append(s, e))
         /\ \A x : Contains(Append(s, e), x) <=> (x = e \/ Contains(s, x))
<1> DEFINE r == Append(s, e)
<1>1. /\ r \in Seq(S) /\ Len(r) = Len(s) + 1 /\ r[Len(s) + 1] = e
      /\ \A j \in 1..Len(s) : r[j] = s[j]
  OBVIOUS
<1> HIDE DEF r
<1>2. NoDuplicates(r)
  BY <1>1 DEF NoDuplicates, Contains
<1>3. \A x : Contains(r, x) <=> (x = e \/ Contains(s, x))
  BY <1>1 DEF Contains
<1>4. r # << >>
  BY <1>1
<1> QED BY <1>1, <1>2, <1>3, <1>4 DEF r

\* Taking out the head.
LEMMA TailFacts ==
  ASSUME NEW S, NEW s \in Seq(S), s # << >>, NoDuplicates(s)
  PROVE  /\ Tail(s) \in Seq(S) /\ NoDuplicates(Tail(s))
         /\ Head(s) \in S /\ Contains(s, Head(s))
         /\ \A x : Contains(Tail(s), x) <=> (x # Head(s) /\ Contains(s, x))
<1>1. /\ Tail(s) \in Seq(S) /\ Len(Tail(s)) = Len(s) - 1
      /\ \A j \in 1..(Len(s) - 1) : Tail(s)[j] = s[j + 1]
      /\ Head(s) = s[1] /\ Head(s) \in S /\ Len(s) \in Nat \ {0}
  BY HeadTailProperties, EmptySeq
<1>2. NoDuplicates(Tail(s)) /\ ~Contains(Tail(s), Head(s))
  BY <1>1 DEF NoDuplicates, Contains
<1>3. ASSUME NEW x, NEW j \in 1..Len(s), s[j] = x, x # Head(s)
      PROVE  Contains(Tail(s), x)
  <2>1. j - 1 \in 1..Len(Tail(s)) /\ Tail(s)[j - 1] = x
    BY <1>3, <1>1
  <2> QED BY <2>1 DEF Contains
<1>4. \A x : Contains(Tail(s), x) => Contains(s, x)
  BY <1>1 DEF Contains
<1>5. Contains(s, Head(s))
  BY <1>1 DEF Contains
<1>6. \A x : Contains(Tail(s), x) <=> (x # Head(s) /\ Contains(s, x))
  BY <1>2, <1>3, <1>4 DEF Contains
<1> QED BY <1>1, <1>2, <1>5, <1>6

\* Moving the head of a sequence to its end keeps the elements.
LEMMA RotateFacts ==
  ASSUME NEW S, NEW s \in Seq(S), s # << >>, NoDuplicates(s)
  PROVE  /\ Append(Tail(s), Head(s)) \in Seq(S)
         /\ Append(Tail(s), Head(s)) # << >>
         /\ NoDuplicates(Append(Tail(s), Head(s)))
         /\ \A x : Contains(Append(Tail(s), Head(s)), x) <=> Contains(s, x)
<1>1. /\ Tail(s) \in Seq(S) /\ NoDuplicates(Tail(s))
      /\ Head(s) \in S /\ Contains(s, Head(s))
      /\ \A x : Contains(Tail(s), x) <=> (x # Head(s) /\ Contains(s, x))
  BY TailFacts
<1> QED BY <1>1, AppendFacts

\* Putting a new element in at a position.
LEMMA InsertFacts ==
  ASSUME NEW S, NEW s \in Seq(S), NEW e \in S, NEW i \in 1..(Len(s) + 1),
         ~Contains(s, e), NoDuplicates(s)
  PROVE  /\ InsertAt(s, i, e) \in Seq(S) /\ Len(InsertAt(s, i, e)) = Len(s) + 1
         /\ \A j \in 1..(Len(s) + 1) :
              InsertAt(s, i, e)[j] = IF j < i THEN s[j] ELSE IF j = i THEN e ELSE s[j - 1]
         /\ NoDuplicates(InsertAt(s, i, e))
         /\ \A x : Contains(InsertAt(s, i, e), x) <=> (x = e \/ Contains(s, x))
<1> DEFINE before == SubSeq(s, 1, i - 1)
           after == SubSeq(s, i, Len(s))
           m == before \o <<e>>
           r == m \o after
<1>1. /\ before \in Seq(S) /\ Len(before) = i - 1
      /\ \A j \in 1..(i - 1) : before[j] = s[j]
  <2>1. \A j \in 1..(i - 1) : s[j] \in S
    OBVIOUS
  <2> QED BY <2>1, SubSeqProperties
<1>2. /\ after \in Seq(S) /\ Len(after) = Len(s) - i + 1
      /\ \A j \in 1..(Len(s) - i + 1) : after[j] = s[i + j - 1]
  <2>1. \A j \in i..Len(s) : s[j] \in S
    OBVIOUS
  <2> QED BY <2>1, SubSeqProperties
<1> HIDE DEF before, after
<1>3. /\ m \in Seq(S) /\ Len(m) = i
      /\ \A j \in 1..i : m[j] = IF j < i THEN s[j] ELSE e
  <2>1. /\ <<e>> \in Seq(S) /\ Len(<<e>>) = 1 /\ <<e>>[1] = e
    OBVIOUS
  <2>2. /\ m \in Seq(S) /\ Len(m) = Len(before) + Len(<<e>>)
        /\ \A j \in 1..(Len(before) + Len(<<e>>)) :
             m[j] = IF j <= Len(before) THEN before[j] ELSE <<e>>[j - Len(before)]
    BY <1>1, <2>1, ConcatProperties
  <2>3. Len(m) = i
    BY <1>1, <2>1, <2>2
  <2>4. ASSUME NEW j \in 1..i PROVE m[j] = IF j < i THEN s[j] ELSE e
    <3>1. CASE j < i
      <4>1. j \in 1..(i - 1) /\ m[j] = before[j]
        BY <3>1, <1>1, <2>1, <2>2
      <4> QED BY <3>1, <4>1, <1>1
    <3>2. CASE j = i
      <4>1. j - Len(before) = 1 /\ m[j] = <<e>>[j - Len(before)]
        BY <3>2, <1>1, <2>1, <2>2
      <4> QED BY <3>2, <4>1, <2>1
    <3>3. j < i \/ j = i
      BY <1>1
    <3> HIDE DEF m
    <3> QED BY <3>1, <3>2, <3>3
  <2> QED BY <2>2, <2>3, <2>4
<1> HIDE DEF m
<1>4. /\ r \in Seq(S) /\ Len(r) = Len(s) + 1
      /\ \A j \in 1..(Len(s) + 1) : r[j] = IF j < i THEN s[j] ELSE IF j = i THEN e ELSE s[j - 1]
  <2>1. /\ r \in Seq(S) /\ Len(r) = Len(m) + Len(after)
        /\ \A j \in 1..(Len(m) + Len(after)) :
             r[j] = IF j <= Len(m) THEN m[j] ELSE after[j - Len(m)]
    BY <1>2, <1>3, ConcatProperties
  <2>2. Len(r) = Len(s) + 1
    BY <1>2, <1>3, <2>1
  <2>3. ASSUME NEW j \in 1..(Len(s) + 1)
        PROVE  r[j] = IF j < i THEN s[j] ELSE IF j = i THEN e ELSE s[j - 1]
    <3>1. CASE j <= i
      BY <3>1, <1>2, <1>3, <2>1
    <3>2. CASE ~ (j <= i)
      <4>1. j - i \in 1..(Len(s) - i + 1) /\ r[j] = after[j - i]
        BY <3>2, <1>2, <1>3, <2>1
      <4>2. after[j - i] = s[i + (j - i) - 1] /\ i + (j - i) - 1 = j - 1
        BY <4>1, <1>2
      <4> QED BY <3>2, <4>1, <4>2
    <3> QED BY <3>1, <3>2
  <2> QED BY <2>1, <2>2, <2>3
<1>5. InsertAt(s, i, e) = r
  BY DEF InsertAt, r, m, before, after
<1> HIDE DEF r
<1>6. NoDuplicates(r)
  <2> SUFFICES ASSUME NEW j \in 1..Len(r), NEW n \in 1..Len(r), r[j] = r[n]
               PROVE  j = n
    BY DEF NoDuplicates
  <2> DEFINE at(x) == IF x < i THEN x ELSE x - 1
  <2>1. ASSUME NEW x \in 1..Len(r), x # i
        PROVE  at(x) \in 1..Len(s) /\ r[x] = s[at(x)] /\ r[x] # e
    <3>1. at(x) \in 1..Len(s) /\ r[x] = s[at(x)]
      BY <2>1, <1>4
    <3>2. \A y \in 1..Len(s) : s[y] # e
      BY DEF Contains
    <3> QED BY <3>1, <3>2
  <2>2. r[i] = e
    BY <1>4
  <2>3. CASE j = i \/ n = i
    BY <2>1, <2>2, <2>3
  <2>4. CASE j # i /\ n # i
    <3>1. at(j) = at(n)
      <4>1. at(j) \in 1..Len(s) /\ at(n) \in 1..Len(s) /\ s[at(j)] = s[at(n)]
        BY <2>1, <2>4
      <4> HIDE DEF at
      <4> QED BY <4>1 DEF NoDuplicates
    <3> QED BY <3>1, <2>4, <1>4
  <2> QED BY <2>3, <2>4
<1>7. ASSUME NEW x PROVE Contains(r, x) <=> (x = e \/ Contains(s, x))
  <2>1. ASSUME NEW j \in 1..Len(r) PROVE r[j] = e \/ Contains(s, r[j])
    <3>1. CASE j = i
      BY <3>1, <1>4
    <3>2. CASE j < i
      BY <3>2, <1>4 DEF Contains
    <3>3. CASE j > i
      <4>1. j - 1 \in 1..Len(s) /\ r[j] = s[j - 1]
        BY <3>3, <1>4
      <4> QED BY <4>1 DEF Contains
    <3> QED BY <3>1, <3>2, <3>3, <1>4
  <2>2. Contains(r, e)
    BY <1>4 DEF Contains
  <2>3. ASSUME NEW j \in 1..Len(s) PROVE Contains(r, s[j])
    <3>1. CASE j < i
      BY <3>1, <1>4 DEF Contains
    <3>2. CASE ~ (j < i)
      <4>1. j + 1 \in 1..Len(r) /\ r[j + 1] = s[j]
        BY <3>2, <1>4
      <4> QED BY <4>1 DEF Contains
    <3> QED BY <3>1, <3>2
  <2> QED BY <2>1, <2>2, <2>3 DEF Contains
<1> QED BY <1>4, <1>5, <1>6, <1>7

\* The same element taken out: everything behind it moves up.
LEMMA RemoveShape ==
  ASSUME NEW S, NEW s \in Seq(S), NEW e, Contains(s, e)
  PROVE  /\ RemoveFirst(s, e) \in Seq(S) /\ Len(RemoveFirst(s, e)) = Len(s) - 1
         /\ \E i \in 1..Len(s) :
              /\ s[i] = e
              /\ \A j \in 1..(Len(s) - 1) :
                   RemoveFirst(s, e)[j] = IF j < i THEN s[j] ELSE s[j + 1]
<1> DEFINE I == {j \in 1..Len(s) : s[j] = e}
           i == Min(I)
           before == SubSeq(s, 1, i - 1)
           after == SubSeq(s, i + 1, Len(s))
           r == before \o after
<1>1. i \in 1..Len(s) /\ s[i] = e
  <2>1. I \in SUBSET Nat /\ I # {}
    BY DEF Contains
  <2> HIDE DEF I
  <2>2. i \in I
    BY <2>1, MinOfNaturals, Zenon
  <2> QED BY <2>2 DEF I
<1>2. RemoveFirst(s, e) = r
  BY <1>1 DEF RemoveFirst, RemoveAt, SelectInSeq
<1> HIDE DEF i
<1>3. /\ before \in Seq(S) /\ Len(before) = i - 1
      /\ \A j \in 1..(i - 1) : before[j] = s[j]
  <2>1. \A j \in 1..(i - 1) : s[j] \in S
    BY <1>1
  <2> QED BY <1>1, <2>1, SubSeqProperties
<1>4. /\ after \in Seq(S) /\ Len(after) = Len(s) - i
      /\ \A j \in 1..(Len(s) - i) : after[j] = s[i + j]
  <2>1. \A j \in (i + 1)..Len(s) : s[j] \in S
    BY <1>1
  <2> QED BY <1>1, <2>1, SubSeqProperties
<1> HIDE DEF before, after
<1>5. /\ r \in Seq(S) /\ Len(r) = Len(before) + Len(after)
      /\ \A j \in 1..(Len(before) + Len(after)) :
           r[j] = IF j <= Len(before) THEN before[j] ELSE after[j - Len(before)]
  BY <1>3, <1>4, ConcatProperties
<1>6. Len(r) = Len(s) - 1
  BY <1>1, <1>3, <1>4, <1>5
<1>7. ASSUME NEW j \in 1..(Len(s) - 1)
      PROVE  r[j] = IF j < i THEN s[j] ELSE s[j + 1]
  <2>1. CASE j < i
    <3>1. j \in 1..(i - 1) /\ r[j] = before[j]
      BY <2>1, <1>1, <1>3, <1>4, <1>5
    <3> QED BY <2>1, <3>1, <1>3
  <2>2. CASE ~ (j < i)
    <3>1. j - (i - 1) \in 1..(Len(s) - i) /\ r[j] = after[j - (i - 1)]
      BY <2>2, <1>1, <1>3, <1>4, <1>5
    <3>2. after[j - (i - 1)] = s[i + (j - (i - 1))] /\ i + (j - (i - 1)) = j + 1
      BY <3>1, <1>1, <1>4
    <3> QED BY <2>2, <3>1, <3>2
  <2> QED BY <2>1, <2>2
<1> QED BY <1>1, <1>2, <1>5, <1>6, <1>7

\* Two lists one after the other.
LEMMA ConcatFacts ==
  ASSUME NEW S, NEW a \in Seq(S), NEW b \in Seq(S)
  PROVE  /\ \A x : Contains(a \o b, x) <=> (Contains(a, x) \/ Contains(b, x))
         /\ NoDuplicates(a \o b) <=> /\ NoDuplicates(a) /\ NoDuplicates(b)
                                     /\ \A x : ~ (Contains(a, x) /\ Contains(b, x))
<1> DEFINE r == a \o b
<1>1. /\ r \in Seq(S) /\ Len(r) = Len(a) + Len(b)
      /\ \A j \in 1..(Len(a) + Len(b)) : r[j] = IF j <= Len(a) THEN a[j] ELSE b[j - Len(a)]
  BY ConcatProperties
<1> HIDE DEF r
<1>2. \A j \in 1..Len(a) : j \in 1..Len(r) /\ r[j] = a[j]
  BY <1>1
<1>3. \A j \in 1..Len(b) : j + Len(a) \in 1..Len(r) /\ r[j + Len(a)] = b[j]
  BY <1>1
<1>4. \A j \in 1..Len(r) : \/ j \in 1..Len(a)
                           \/ j - Len(a) \in 1..Len(b) /\ r[j] = b[j - Len(a)]
  BY <1>1
<1>5. \A x : Contains(r, x) <=> (Contains(a, x) \/ Contains(b, x))
  <2> TAKE x
  <2>1. Contains(r, x) => Contains(a, x) \/ Contains(b, x)
    BY <1>2, <1>4 DEF Contains
  <2>2. Contains(a, x) => Contains(r, x)
    BY <1>2 DEF Contains
  <2>3. Contains(b, x) => Contains(r, x)
    BY <1>3 DEF Contains
  <2> QED BY <2>1, <2>2, <2>3
<1>6. ASSUME NoDuplicates(r)
      PROVE  /\ NoDuplicates(a) /\ NoDuplicates(b)
             /\ \A x : ~ (Contains(a, x) /\ Contains(b, x))
  <2>1. NoDuplicates(a)
    BY <1>2, <1>6 DEF NoDuplicates
  <2>2. NoDuplicates(b)
    <3> SUFFICES ASSUME NEW j \in 1..Len(b), NEW n \in 1..Len(b), b[j] = b[n]
                 PROVE  j = n
      BY DEF NoDuplicates
    <3>1. j + Len(a) = n + Len(a)
      BY <1>3, <1>6 DEF NoDuplicates
    <3> QED BY <3>1
  <2>3. ASSUME NEW x, NEW j \in 1..Len(a), NEW n \in 1..Len(b), a[j] = x, b[n] = x
        PROVE  FALSE
    <3>1. j = n + Len(a)
      BY <1>2, <1>3, <1>6, <2>3 DEF NoDuplicates
    <3> QED BY <3>1
  <2> QED BY <2>1, <2>2, <2>3 DEF Contains
<1>7. ASSUME NoDuplicates(a), NoDuplicates(b), \A x : ~ (Contains(a, x) /\ Contains(b, x))
      PROVE  NoDuplicates(r)
  <2> SUFFICES ASSUME NEW j \in 1..Len(r), NEW n \in 1..Len(r), r[j] = r[n]
               PROVE  j = n
    BY DEF NoDuplicates
  <2>1. CASE j \in 1..Len(a) /\ n \in 1..Len(a)
    BY <2>1, <1>2, <1>7 DEF NoDuplicates
  <2>2. CASE j \notin 1..Len(a) /\ n \notin 1..Len(a)
    <3>1. j - Len(a) = n - Len(a)
      BY <2>2, <1>4, <1>7 DEF NoDuplicates
    <3> QED BY <3>1
  <2>3. ASSUME NEW y \in 1..Len(a), NEW z \in 1..Len(r), z \notin 1..Len(a), r[y] = r[z]
        PROVE  FALSE
    <3>1. Contains(a, r[y]) /\ Contains(b, r[z])
      BY <1>2, <1>4, <2>3 DEF Contains
    <3> QED BY <3>1, <2>3, <1>7
  <2> QED BY <2>1, <2>2, <2>3
<1> QED BY <1>5, <1>6, <1>7 DEF r

\* A list is empty exactly when it contains nothing.
LEMMA EmptyFacts ==
  ASSUME NEW S, NEW s \in Seq(S)
  PROVE  s # << >> <=> \E x : Contains(s, x)
<1>1. s # << >> => Contains(s, s[1])
  BY EmptySeq DEF Contains
<1>2. \A x : Contains(s, x) => s # << >>
  BY DEF Contains
<1> QED BY <1>1, <1>2

(***************************************************************************)
(* Lists that are sorted by a priority.                                    *)
(***************************************************************************)

SortedBy(l, f) == \A i, j \in 1..Len(l) : i < j => f[l[i]] <= f[l[j]]

LEMMA InsertSorted ==
  ASSUME NEW S, NEW l \in Seq(S), NEW f \in [S -> Nat], NEW e \in S, NEW i \in 1..(Len(l) + 1),
         ~Contains(l, e), NoDuplicates(l), SortedBy(l, f),
         \A j \in 1..Len(l) : j < i => f[l[j]] <= f[e],
         i <= Len(l) => f[l[i]] > f[e]
  PROVE  SortedBy(InsertAt(l, i, e), f)
<1> DEFINE r == InsertAt(l, i, e)
<1>1. /\ Len(r) = Len(l) + 1
      /\ \A j \in 1..(Len(l) + 1) : r[j] = IF j < i THEN l[j] ELSE IF j = i THEN e ELSE l[j - 1]
  BY InsertFacts
<1> HIDE DEF r
<1>2. \A j \in 1..Len(l) : l[j] \in S /\ f[l[j]] \in Nat
  OBVIOUS
<1>3. \A j \in 1..Len(l) : j >= i => f[l[j]] > f[e]
  <2> TAKE j \in 1..Len(l)
  <2> HAVE j >= i
  <2>1. i \in 1..Len(l) /\ f[l[i]] > f[e]
    OBVIOUS
  <2>2. f[l[i]] <= f[l[j]]
    BY <2>1, <1>2 DEF SortedBy
  <2> QED BY <2>1, <2>2, <1>2
<1>4. ASSUME NEW j \in 1..Len(r), NEW k \in 1..Len(r), j < k
      PROVE  f[r[j]] <= f[r[k]]
  <2>1. CASE k < i
    <3>1. j \in 1..Len(l) /\ k \in 1..Len(l) /\ r[j] = l[j] /\ r[k] = l[k]
      BY <2>1, <1>1, <1>4
    <3> QED BY <3>1, <1>4 DEF SortedBy
  <2>2. CASE k = i
    <3>1. j \in 1..Len(l) /\ r[j] = l[j] /\ r[k] = e
      BY <2>2, <1>1, <1>4
    <3> QED BY <3>1, <2>2, <1>4
  <2>3. CASE k > i /\ j < i
    <3>1. j \in 1..Len(l) /\ k - 1 \in 1..Len(l) /\ r[j] = l[j] /\ r[k] = l[k - 1] /\ j < k - 1 + 1
      BY <2>3, <1>1, <1>4
    <3>2. f[l[j]] <= f[e] /\ f[l[k - 1]] > f[e]
      BY <3>1, <2>3, <1>3
    <3> QED BY <3>1, <3>2, <1>2
  <2>4. CASE k > i /\ j = i
    <3>1. k - 1 \in 1..Len(l) /\ r[j] = e /\ r[k] = l[k - 1]
      BY <2>4, <1>1, <1>4
    <3>2. f[l[k - 1]] > f[e]
      BY <3>1, <2>4, <1>3
    <3> QED BY <3>1, <3>2, <1>2
  <2>5. CASE k > i /\ j > i
    <3>1. j - 1 \in 1..Len(l) /\ k - 1 \in 1..Len(l) /\ r[j] = l[j - 1] /\ r[k] = l[k - 1]
          /\ j - 1 < k - 1
      BY <2>5, <1>1, <1>4
    <3> QED BY <3>1 DEF SortedBy
  <2> QED BY <2>1, <2>2, <2>3, <2>4, <2>5, <1>4
<1> QED BY <1>4 DEF SortedBy, r

LEMMA RemoveSorted ==
  ASSUME NEW S, NEW l \in Seq(S), NEW f, NEW e, SortedBy(l, f)
  PROVE  SortedBy(RemoveFirst(l, e), f)
<1>1. CASE ~Contains(l, e)
  <2>1. RemoveFirst(l, e) = l
    BY <1>1 DEF RemoveFirst, Contains
  <2> QED BY <2>1
<1>2. CASE Contains(l, e)
  <2> DEFINE r == RemoveFirst(l, e)
  <2>1. r \in Seq(S) /\ Len(r) = Len(l) - 1
    BY <1>2, RemoveShape
  <2>2. \E i \in 1..Len(l) :
          /\ l[i] = e
          /\ \A j \in 1..(Len(l) - 1) :
               RemoveFirst(l, e)[j] = IF j < i THEN l[j] ELSE l[j + 1]
    BY <1>2, RemoveShape
  <2>3. PICK i \in 1..Len(l) :
             \A j \in 1..(Len(l) - 1) : r[j] = IF j < i THEN l[j] ELSE l[j + 1]
    BY <2>2
  <2> HIDE DEF r
  <2>4. ASSUME NEW j \in 1..Len(r), NEW k \in 1..Len(r), j < k
        PROVE  f[r[j]] <= f[r[k]]
    <3> DEFINE at(x) == IF x < i THEN x ELSE x + 1
    <3>1. /\ at(j) \in 1..Len(l) /\ at(k) \in 1..Len(l) /\ at(j) < at(k)
          /\ r[j] = l[at(j)] /\ r[k] = l[at(k)]
      BY <2>1, <2>3, <2>4
    <3> HIDE DEF at
    <3> QED BY <3>1 DEF SortedBy
  <2> QED BY <2>4 DEF SortedBy, r
<1> QED BY <1>1, <1>2

LEMMA TailSorted ==
  ASSUME NEW S, NEW l \in Seq(S), NEW f, l # << >>, SortedBy(l, f)
  PROVE  /\ SortedBy(Tail(l), f)
         /\ \A x : Contains(Tail(l), x) => f[Head(l)] <= f[x]
<1>1. /\ Tail(l) \in Seq(S) /\ Len(Tail(l)) = Len(l) - 1
      /\ \A j \in 1..(Len(l) - 1) : Tail(l)[j] = l[j + 1]
      /\ Head(l) = l[1] /\ Len(l) \in Nat \ {0}
  BY HeadTailProperties, EmptySeq
<1>2. ASSUME NEW j \in 1..Len(Tail(l)), NEW k \in 1..Len(Tail(l)), j < k
      PROVE  f[Tail(l)[j]] <= f[Tail(l)[k]]
  <2>1. /\ j + 1 \in 1..Len(l) /\ k + 1 \in 1..Len(l) /\ j + 1 < k + 1
        /\ Tail(l)[j] = l[j + 1] /\ Tail(l)[k] = l[k + 1]
    BY <1>1, <1>2
  <2> QED BY <2>1 DEF SortedBy
<1>3. ASSUME NEW j \in 1..Len(Tail(l))
      PROVE  f[Head(l)] <= f[Tail(l)[j]]
  <2>1. 1 \in 1..Len(l) /\ j + 1 \in 1..Len(l) /\ 1 < j + 1 /\ Tail(l)[j] = l[j + 1]
    BY <1>1, <1>3
  <2> QED BY <2>1, <1>1 DEF SortedBy
<1> QED BY <1>2, <1>3 DEF SortedBy, Contains

(***************************************************************************)
(* Sequences that grow at one end and shrink at the other.                 *)
(***************************************************************************)

LEMMA GrowFacts ==
  ASSUME NEW S, NEW s \in Seq(S), NEW e \in S
  PROVE  /\ Append(s, e) \in Seq(S) /\ Len(Append(s, e)) = Len(s) + 1
         /\ \A x : Contains(Append(s, e), x) <=> (x = e \/ Contains(s, x))
<1> DEFINE r == Append(s, e)
<1>1. /\ r \in Seq(S) /\ Len(r) = Len(s) + 1 /\ Len(s) \in Nat
      /\ \A j \in 1..Len(s) : r[j] = s[j]
      /\ r[Len(s) + 1] = e
  BY AppendProperties
<1> HIDE DEF r
<1>2. ASSUME NEW x
      PROVE  Contains(r, x) <=> (x = e \/ Contains(s, x))
  BY <1>1 DEF Contains
<1> QED BY <1>1, <1>2 DEF r

\* The head of q moves to the end of r.
LEMMA MoveFacts ==
  ASSUME NEW S, NEW r \in Seq(S), NEW q \in Seq(S)
  PROVE  /\ q # << >> => Append(r, Head(q)) \o Tail(q) = r \o q
         /\ Len(r \o q) = Len(r) + Len(q)
         /\ q # << >> => (r \o q)[Len(r) + 1] = Head(q)
<1>1. ASSUME q # << >> PROVE Append(r, Head(q)) \o Tail(q) = r \o q
  <2>1. /\ Head(q) \in S /\ Tail(q) \in Seq(S) /\ Len(Tail(q)) = Len(q) - 1
        /\ \A i \in 1..Len(Tail(q)) : Tail(q)[i] = q[i + 1]
        /\ Head(q) = q[1] /\ Len(q) \in Nat \ {0}
    BY <1>1, HeadTailProperties, EmptySeq
  <2>2. /\ <<Head(q)>> \in Seq(S) /\ Append(r, Head(q)) = r \o <<Head(q)>>
    BY <2>1, AppendIsConcat
  <2>3. Append(r, Head(q)) \o Tail(q) = r \o (<<Head(q)>> \o Tail(q))
    BY <2>1, <2>2, ConcatAssociative
  <2>4. <<Head(q)>> \o Tail(q) = q
    <3> DEFINE a == <<Head(q)>>
               b == Tail(q)
    <3>1. a \in Seq(S) /\ Len(a) = 1 /\ a[1] = Head(q) /\ b \in Seq(S)
      BY <2>1
    <3>2. /\ a \o b \in Seq(S) /\ Len(a \o b) = Len(a) + Len(b)
          /\ \A i \in 1..(Len(a) + Len(b)) : (a \o b)[i] = IF i <= Len(a) THEN a[i] ELSE b[i - Len(a)]
      BY <3>1, ConcatProperties, Zenon
    <3> HIDE DEF a
    <3>3. Len(a \o b) = Len(q) /\ \A i \in 1..Len(q) : (a \o b)[i] = q[i]
      BY <2>1, <3>1, <3>2
    <3> QED BY <3>2, <3>3, SeqEqual DEF a
  <2> QED BY <2>3, <2>4
<1>2. /\ Len(r \o q) = Len(r) + Len(q) /\ Len(r) \in Nat /\ Len(q) \in Nat
      /\ \A i \in 1..(Len(r) + Len(q)) : (r \o q)[i] = IF i <= Len(r) THEN r[i] ELSE q[i - Len(r)]
  BY ConcatProperties
<1>3. ASSUME q # << >> PROVE (r \o q)[Len(r) + 1] = Head(q)
  <2>1. Len(q) \in Nat \ {0} /\ Head(q) = q[1]
    BY <1>3, EmptySeq
  <2> QED BY <1>2, <2>1
<1> QED BY <1>1, <1>2, <1>3

\* What is appended, or taken out elsewhere, leaves the head.
LEMMA HeadKept ==
  ASSUME NEW S, NEW s \in Seq(S), s # << >>
  PROVE  /\ \A e \in S : Append(s, e) # << >> /\ Head(Append(s, e)) = Head(s)
         /\ \A e : e # Head(s) =>
              RemoveFirst(s, e) # << >> /\ Head(RemoveFirst(s, e)) = Head(s)
<1>1. Len(s) \in Nat \ {0} /\ Head(s) = s[1]
  BY EmptySeq
<1>2. ASSUME NEW e \in S
      PROVE  Append(s, e) # << >> /\ Head(Append(s, e)) = Head(s)
  <2> DEFINE r == Append(s, e)
  <2>1. r \in Seq(S) /\ Len(r) = Len(s) + 1 /\ \A j \in 1..Len(s) : r[j] = s[j]
    BY AppendProperties
  <2> HIDE DEF r
  <2>2. Len(r) # 0 /\ r[1] = s[1]
    BY <1>1, <2>1
  <2>3. r # << >> /\ Head(r) = r[1]
    BY <2>1, <2>2, EmptySeq
  <2> QED BY <1>1, <2>2, <2>3 DEF r
<1>3. ASSUME NEW e, e # Head(s)
      PROVE  RemoveFirst(s, e) # << >> /\ Head(RemoveFirst(s, e)) = Head(s)
  <2> DEFINE r == RemoveFirst(s, e)
  <2>1. CASE ~Contains(s, e)
    <3>1. r = s
      BY <2>1 DEF RemoveFirst, Contains
    <3> HIDE DEF r
    <3> QED BY <3>1 DEF r
  <2>2. CASE Contains(s, e)
    <3>1. r \in Seq(S) /\ Len(r) = Len(s) - 1
      BY <2>2, RemoveShape
    <3>2. PICK i \in 1..Len(s) :
            s[i] = e /\ \A j \in 1..(Len(s) - 1) : r[j] = IF j < i THEN s[j] ELSE s[j + 1]
      BY <2>2, RemoveShape
    <3> HIDE DEF r
    <3>3. i # 1
      BY <1>1, <1>3, <3>2
    <3>4. 1 \in 1..(Len(s) - 1) /\ 1 < i
      BY <1>1, <3>2, <3>3
    <3>5. r[1] = s[1] /\ Len(r) # 0
      BY <1>1, <3>1, <3>2, <3>4
    <3>6. r # << >> /\ Head(r) = r[1]
      BY <3>1, <3>5, EmptySeq
    <3> QED BY <1>1, <3>5, <3>6 DEF r
  <2> QED BY <2>1, <2>2
<1> QED BY <1>2, <1>3

(***************************************************************************)
(* Doing the same with the elements of a list, one after the other.        *)
(***************************************************************************)

\* Counting up from 0, one stays in S.
LEMMA UpTo ==
  ASSUME NEW n \in Nat, NEW S, 0 \in S, \A i \in 1..n : i - 1 \in S => i \in S
  PROVE  \A i \in 0..n : i \in S
<1> DEFINE B == {i \in 0..n : i \notin S}
<1> SUFFICES ASSUME B # {} PROVE FALSE
  OBVIOUS
<1>1. B \in SUBSET Nat
  OBVIOUS
<1> HIDE DEF B
<1>2. Min(B) \in B /\ \A y \in B : Min(B) <= y
  BY <1>1, MinOfNaturals
<1>3. PICK m \in B : \A y \in B : m <= y
  BY <1>2
<1>4. m \in 0..n /\ m \notin S
  BY <1>3 DEF B
<1>5. m \in 1..n
  BY <1>4
<1>6. m - 1 \notin S
  BY <1>4, <1>5
<1>7. m - 1 \in B
  BY <1>5, <1>6 DEF B
<1> QED BY <1>3, <1>5, <1>7

\* The results of a step f for the elements of s, from b on.
Iterates(g, f, b, s, n) ==
  g = [i \in 0..n |-> IF i = 0 THEN b ELSE f[<<g[i - 1], s[i]>>]]

LEMMA IterationExists ==
  ASSUME NEW K, NEW U, NEW f \in [K \X U -> K], NEW b \in K, NEW s \in Seq(U)
  PROVE  \E g \in [0..Len(s) -> K] : Iterates(g, f, b, s, Len(s))
<1> DEFINE S == {n \in 0..Len(s) : \E g \in [0..n -> K] : Iterates(g, f, b, s, n)}
<1>1. Len(s) \in Nat /\ \A i \in 1..Len(s) : s[i] \in U
  OBVIOUS
<1>2. 0 \in S
  <2> DEFINE g == [i \in 0..0 |-> b]
  <2>1. g \in [0..0 -> K]
    OBVIOUS
  <2>2. g = [i \in 0..0 |-> IF i = 0 THEN b ELSE f[<<g[i - 1], s[i]>>]]
    OBVIOUS
  <2> HIDE DEF g
  <2> QED BY <1>1, <2>1, <2>2 DEF Iterates
<1>3. ASSUME NEW n \in 1..Len(s), n - 1 \in S PROVE n \in S
  <2>1. PICK g \in [0..(n - 1) -> K] : Iterates(g, f, b, s, n - 1)
    BY <1>3
  <2>2. n \in Nat /\ n - 1 \in 0..(n - 1) /\ s[n] \in U /\ n \in 0..Len(s)
    BY <1>1
  <2> DEFINE v == f[<<g[n - 1], s[n]>>]
             h == [i \in 0..n |-> IF i = n THEN v ELSE g[i]]
  <2>3. v \in K
    BY <2>2
  <2> HIDE DEF v
  <2>4. h \in [0..n -> K]
    BY <2>2, <2>3
  <2>5. h[n] = v /\ \A i \in 0..(n - 1) : h[i] = g[i]
    BY <2>2
  <2>6. \A i \in 0..(n - 1) : g[i] = IF i = 0 THEN b ELSE f[<<g[i - 1], s[i]>>]
    BY <2>1 DEF Iterates
  <2>7. ASSUME NEW i \in 0..n
        PROVE  h[i] = IF i = 0 THEN b ELSE f[<<h[i - 1], s[i]>>]
    <3> HIDE DEF h
    <3>1. CASE i = n
      <4>1. i # 0 /\ h[i - 1] = g[n - 1]
        BY <3>1, <2>2, <2>5
      <4> QED BY <3>1, <4>1, <2>5 DEF v
    <3>2. CASE i = 0
      <4>1. 0 \in 0..(n - 1)
        BY <2>2
      <4>2. h[0] = g[0] /\ g[0] = b
        BY <4>1, <2>5, <2>6
      <4> QED BY <3>2, <4>2
    <3>3. CASE i # n /\ i # 0
      <4>1. i \in 0..(n - 1) /\ i - 1 \in 0..(n - 1)
        BY <3>3, <2>2
      <4> QED BY <3>3, <4>1, <2>5, <2>6
    <3> QED BY <3>1, <3>2, <3>3
  <2>8. Iterates(h, f, b, s, n)
    <3>1. DOMAIN h = 0..n
      OBVIOUS
    <3>2. h = [i \in 0..n |-> h[i]]
      OBVIOUS
    <3> HIDE DEF h
    <3> QED BY <2>7, <3>2 DEF Iterates
  <2> QED BY <2>2, <2>4, <2>8
<1> HIDE DEF S
<1>4. \A i \in 0..Len(s) : i \in S
  BY <1>1, <1>2, <1>3, UpTo
<1>5. Len(s) \in S
  BY <1>1, <1>4
<1> QED BY <1>5 DEF S
=============================================================================

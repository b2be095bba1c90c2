------------------------ MODULE IntrusiveListProofs ------------------------
(***************************************************************************)
(* What the operators on lists do, for any elements.                       *)
(***************************************************************************)
EXTENDS IntrusiveList, SequenceTheorems, WellFoundedInduction, TLAPS

-----------------------------------------------------------------------------
(* Unlinking *)

\* Unlinking leaves a list of what it held: m-i-list.h never changes an element.
LEMMA UnlinkType ==
    ASSUME NEW S, NEW list \in Seq(S), NEW x
    PROVE  /\ Unlink(list, x) \in Seq(S)
           /\ Len(Unlink(list, x)) <= Len(list)
<1>1. CASE ~Has(list, x)
    BY <1>1 DEF Unlink
<1>2. CASE Has(list, x)
    <2> DEFINE at == CHOOSE k \in 1..Len(list) : list[k] = x
               rest == [k \in 1..(Len(list) - 1) |->
                            IF k < at THEN list[k] ELSE list[k + 1]]
    <2>1. Unlink(list, x) = rest
        BY <1>2 DEF Unlink
    <2>2. Len(list) \in Nat \ {0}
        BY <1>2 DEF Has
    <2>3. \A k \in 1..(Len(list) - 1) : rest[k] \in S
        BY <2>2
    <2>4. rest \in Seq(S) /\ Len(rest) = Len(list) - 1
        BY <2>2, <2>3
    <2> QED
        BY <2>1, <2>2, <2>4
<1> QED
    BY <1>1, <1>2

\* A list that holds nothing twice, as m-i-list.h lists do, holds the unlinked element
\* no more, and still holds nothing else, nor anything twice.
LEMMA UnlinkElements ==
    ASSUME NEW S, NEW list \in Seq(S), NEW x, NoDuplicates(list)
    PROVE  /\ NoDuplicates(Unlink(list, x))
           /\ \A k \in 1..Len(Unlink(list, x)) :
                 /\ Unlink(list, x)[k] # x
                 /\ \E l \in 1..Len(list) : Unlink(list, x)[k] = list[l]
<1>1. CASE ~Has(list, x)
    BY <1>1 DEF Unlink, Has
<1>2. CASE Has(list, x)
    <2> DEFINE at == CHOOSE k \in 1..Len(list) : list[k] = x
               rest == [k \in 1..(Len(list) - 1) |->
                            IF k < at THEN list[k] ELSE list[k + 1]]
    <2>1. Unlink(list, x) = rest
        BY <1>2 DEF Unlink
    <2>2. Len(list) \in Nat \ {0} /\ at \in 1..Len(list) /\ list[at] = x
        BY <1>2 DEF Has
    <2> HIDE DEF at
    <2>3. Len(rest) = Len(list) - 1
        BY <2>2
    <2>4. \A k \in 1..Len(rest) :
             \E l \in 1..Len(list) : rest[k] = list[l] /\ l = (IF k < at THEN k ELSE k + 1)
        BY <2>2, <2>3
    <2>5. \A k \in 1..Len(rest) : rest[k] # x
        BY <2>2, <2>4 DEF NoDuplicates
    <2>6. NoDuplicates(rest)
        BY <2>2, <2>3, <2>4 DEF NoDuplicates
    <2> QED
        BY <2>1, <2>4, <2>5, <2>6
<1> QED
    BY <1>1, <1>2

\* It holds everything else.
LEMMA UnlinkHas ==
    ASSUME NEW S, NEW list \in Seq(S), NEW x, NoDuplicates(list), NEW y
    PROVE  Has(Unlink(list, x), y) <=> Has(list, y) /\ y # x
<1>a. \A k \in 1..Len(Unlink(list, x)) :
         Unlink(list, x)[k] # x /\ \E l \in 1..Len(list) : Unlink(list, x)[k] = list[l]
    BY UnlinkElements
<1>1. CASE ~Has(list, x)
    BY <1>1 DEF Unlink, Has
<1>2. CASE Has(list, x)
    <2> DEFINE at == CHOOSE k \in 1..Len(list) : list[k] = x
               rest == [k \in 1..(Len(list) - 1) |->
                            IF k < at THEN list[k] ELSE list[k + 1]]
    <2>1. Unlink(list, x) = rest
        BY <1>2 DEF Unlink
    <2>2. Len(list) \in Nat \ {0} /\ at \in 1..Len(list) /\ list[at] = x
        BY <1>2 DEF Has
    <2>3. Len(rest) = Len(list) - 1
        BY <2>2
    <2> HIDE DEF at
    <2>4. ASSUME NEW l \in 1..Len(list), l # at
          PROVE  Has(rest, list[l])
        <3>1. CASE l < at
            <4>1. l \in 1..Len(rest) /\ rest[l] = list[l]
                BY <2>2, <2>3, <3>1
            <4> QED
                BY <4>1 DEF Has
        <3>2. CASE l > at
            <4>1. l - 1 \in 1..Len(rest) /\ rest[l - 1] = list[l]
                BY <2>2, <2>3, <3>2
            <4> QED
                BY <4>1 DEF Has
        <3> QED
            BY <2>2, <2>4, <3>1, <3>2
    <2>5. ASSUME Has(list, y), y # x
          PROVE  Has(rest, y)
        <3>1. PICK l \in 1..Len(list) : list[l] = y
            BY <2>5 DEF Has
        <3> QED
            BY <2>2, <2>4, <2>5, <3>1
    <2>6. ASSUME Has(rest, y)
          PROVE  Has(list, y) /\ y # x
        <3>1. Has(Unlink(list, x), y)
            BY <2>1, <2>6, Zenon
        <3> QED
            BY <1>a, <3>1, Zenon DEF Has
    <2> QED
        BY <2>1, <2>5, <2>6
<1> QED
    BY <1>1, <1>2

\* The order of the others stays.
LEMMA UnlinkOrder ==
    ASSUME NEW S, NEW list \in Seq(S), NEW x,
           NEW k \in 1..Len(Unlink(list, x)), NEW l \in 1..Len(Unlink(list, x)), k < l
    PROVE  \E a, b \in 1..Len(list) :
               a < b /\ Unlink(list, x)[k] = list[a] /\ Unlink(list, x)[l] = list[b]
<1>1. CASE ~Has(list, x)
    BY <1>1 DEF Unlink
<1>2. CASE Has(list, x)
    <2> DEFINE at == CHOOSE i \in 1..Len(list) : list[i] = x
               rest == [i \in 1..(Len(list) - 1) |->
                            IF i < at THEN list[i] ELSE list[i + 1]]
    <2>1. Unlink(list, x) = rest
        BY <1>2 DEF Unlink
    <2>2. Len(list) \in Nat \ {0} /\ at \in 1..Len(list)
        BY <1>2 DEF Has
    <2>3. Len(rest) = Len(list) - 1
        BY <2>2
    <2> HIDE DEF at
    <2> DEFINE a == IF k < at THEN k ELSE k + 1
               b == IF l < at THEN l ELSE l + 1
    <2>4. k \in 1..(Len(list) - 1) /\ l \in 1..(Len(list) - 1)
        BY <2>1, <2>3
    <2>5. a \in 1..Len(list) /\ b \in 1..Len(list) /\ a < b
        BY <2>2, <2>4
    <2>6. rest[k] = list[a] /\ rest[l] = list[b]
        BY <2>2, <2>4
    <2> QED
        BY <2>1, <2>5, <2>6
<1> QED
    BY <1>1, <1>2

-----------------------------------------------------------------------------
(* Putting in and taking out *)

\* A list with x put in holds x besides what it held.
LEMMA InsertElements ==
    ASSUME NEW S, NEW list \in Seq(S), NEW n \in 0..Len(list), NEW x \in S
    PROVE  /\ InsertAfter(list, n, x) \in Seq(S)
           /\ Len(InsertAfter(list, n, x)) = Len(list) + 1
           /\ \A y : Has(InsertAfter(list, n, x), y) <=> Has(list, y) \/ y = x
           /\ NoDuplicates(list) /\ ~Has(list, x) => NoDuplicates(InsertAfter(list, n, x))
<1> DEFINE new == InsertAfter(list, n, x)
<1>1. Len(list) \in Nat /\ n \in Nat /\ n <= Len(list)
    OBVIOUS
<1>2. /\ new = [k \in 1..(Len(list) + 1) |->
                   IF k <= n THEN list[k] ELSE IF k = n + 1 THEN x ELSE list[k - 1]]
      /\ \A k \in 1..(Len(list) + 1) : new[k] \in S
    BY <1>1 DEF InsertAfter
<1>3. new \in Seq(S) /\ Len(new) = Len(list) + 1
    BY <1>1, <1>2
<1>4. /\ \A k \in 1..n : new[k] = list[k]
      /\ new[n + 1] = x
      /\ \A k \in (n + 2)..(Len(list) + 1) : new[k] = list[k - 1]
    BY <1>1, <1>2
<1> HIDE DEF new
<1>5. ASSUME NEW y, Has(list, y)
      PROVE  Has(new, y)
    <2>1. PICK k \in 1..Len(list) : list[k] = y
        BY <1>5 DEF Has
    <2>2. CASE k <= n
        <3>1. k \in 1..n /\ k \in 1..Len(new)
            BY <1>1, <1>3, <2>2
        <3> QED
            BY <1>4, <2>1, <3>1 DEF Has
    <2>3. CASE ~(k <= n)
        <3>1. k + 1 \in (n + 2)..(Len(list) + 1) /\ k + 1 \in 1..Len(new) /\ (k + 1) - 1 = k
            BY <1>1, <1>3, <2>3
        <3> QED
            BY <1>4, <2>1, <3>1 DEF Has
    <2> QED
        BY <2>2, <2>3
<1>6. Has(new, x)
    <2>1. n + 1 \in 1..Len(new)
        BY <1>1, <1>3
    <2> QED
        BY <1>4, <2>1 DEF Has
<1>7. \A k \in 1..Len(new) :
         \/ k \in 1..n /\ k \in 1..Len(list) /\ new[k] = list[k]
         \/ k = n + 1 /\ new[k] = x
         \/ k \in (n + 2)..(Len(list) + 1) /\ k - 1 \in 1..Len(list) /\ new[k] = list[k - 1]
    BY <1>1, <1>3, <1>4
<1>8. ASSUME NEW y, Has(new, y)
      PROVE  Has(list, y) \/ y = x
    BY <1>7, <1>8 DEF Has
<1>9. ASSUME NoDuplicates(list), ~Has(list, x)
      PROVE  NoDuplicates(new)
    <2> SUFFICES ASSUME NEW k \in 1..Len(new), NEW l \in 1..Len(new), new[k] = new[l]
                 PROVE  k = l
        BY DEF NoDuplicates
    <2>1. CASE k = n + 1 \/ l = n + 1
        BY <1>7, <1>9, <2>1 DEF Has
    <2>2. CASE k # n + 1 /\ l # n + 1
        BY <1>1, <1>7, <1>9, <2>2 DEF NoDuplicates
    <2> QED
        BY <2>1, <2>2
<1> QED
    BY <1>3, <1>5, <1>6, <1>8, <1>9 DEF new

\* So does one with x appended.
LEMMA AppendElements ==
    ASSUME NEW S, NEW list \in Seq(S), NEW x \in S
    PROVE  /\ Append(list, x) \in Seq(S) /\ Len(Append(list, x)) = Len(list) + 1
           /\ \A y : Has(Append(list, x), y) <=> Has(list, y) \/ y = x
           /\ NoDuplicates(list) /\ ~Has(list, x) => NoDuplicates(Append(list, x))
<1> DEFINE new == Append(list, x)
<1>1. /\ new \in Seq(S) /\ Len(new) = Len(list) + 1 /\ Len(list) \in Nat
      /\ \A k \in 1..Len(list) : new[k] = list[k]
      /\ new[Len(list) + 1] = x
    OBVIOUS
<1> HIDE DEF new
<1>2. \A k \in 1..Len(new) : \/ k \in 1..Len(list) /\ new[k] = list[k]
                             \/ k = Len(list) + 1 /\ new[k] = x
    BY <1>1
<1>3. \A k \in 1..Len(list) : k \in 1..Len(new)
    BY <1>1
<1>4. Len(list) + 1 \in 1..Len(new)
    BY <1>1
<1>5. \A y : Has(new, y) <=> Has(list, y) \/ y = x
    BY <1>1, <1>2, <1>3, <1>4 DEF Has
<1>6. ASSUME NoDuplicates(list), ~Has(list, x)
      PROVE  NoDuplicates(new)
    BY <1>2, <1>6 DEF NoDuplicates, Has
<1> QED
    BY <1>1, <1>5, <1>6 DEF new

\* The rest of a list holds what is not its head.
LEMMA TailElements ==
    ASSUME NEW S, NEW list \in Seq(S), list # <<>>, NoDuplicates(list)
    PROVE  /\ Head(list) \in S /\ Has(list, Head(list))
           /\ Tail(list) \in Seq(S)
           /\ \A y : Has(Tail(list), y) <=> Has(list, y) /\ y # Head(list)
           /\ NoDuplicates(Tail(list))
<1> DEFINE rest == Tail(list)
<1>1. /\ rest \in Seq(S) /\ Len(rest) = Len(list) - 1 /\ Len(list) \in Nat \ {0}
      /\ Head(list) = list[1] /\ Head(list) \in S
      /\ \A k \in 1..Len(rest) : rest[k] = list[k + 1]
    OBVIOUS
<1> HIDE DEF rest
<1>2. \A k \in 1..Len(rest) : k + 1 \in 2..Len(list) /\ rest[k] = list[k + 1]
    BY <1>1
<1>3. 1 \in 1..Len(list)
    BY <1>1
<1>4. \A y : Has(rest, y) => Has(list, y) /\ y # Head(list)
    BY <1>1, <1>2, <1>3 DEF Has, NoDuplicates
<1>5. ASSUME NEW y, Has(list, y), y # Head(list)
      PROVE  Has(rest, y)
    <2>1. PICK k \in 1..Len(list) : list[k] = y
        BY <1>5 DEF Has
    <2>2. k - 1 \in 1..Len(rest) /\ rest[k - 1] = y
        BY <1>1, <1>5, <2>1
    <2> QED
        BY <2>2 DEF Has
<1>6. NoDuplicates(rest)
    BY <1>2 DEF NoDuplicates
<1> QED
    BY <1>1, <1>3, <1>4, <1>5, <1>6 DEF rest, Has

-----------------------------------------------------------------------------
(* Positions *)

\* Some positions of a list have a last one.
LEMMA LastPosition ==
    ASSUME NEW n \in Nat, NEW P \in SUBSET (1..n), P # {}
    PROVE  \E last \in P : \A k \in P : k <= last
<1> DEFINE Q == {n - k : k \in P}
<1>1. \A k \in P : k \in 1..n
    OBVIOUS
<1>2. Q \subseteq Nat
    BY <1>1
<1>3. Q # {}
    <2>1. PICK k : k \in P
        OBVIOUS
    <2>2. n - k \in Q
        BY <2>1
    <2> QED
        BY <2>2
<1>4. PICK j \in Q : \A k \in Q : ~(<<k, j>> \in OpToRel(<, Nat))
    BY <1>2, <1>3, NatLessThanWellFounded, WFMin
<1>5. PICK last \in P : j = n - last
    OBVIOUS
<1>6. ASSUME NEW k \in P
      PROVE  k <= last
    <2>1. ~(n - k < n - last)
        BY <1>2, <1>4, <1>5 DEF OpToRel
    <2> QED
        BY <1>1, <2>1
<1> QED
    BY <1>6
=============================================================================

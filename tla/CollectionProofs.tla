-------------------------- MODULE CollectionProofs --------------------------
(***************************************************************************)
(* A lead's payment collection: the ledger's properties for every price    *)
(* list, every set of days and every collection of old slots; that         *)
(* PaymentLedger implements PaymentCollection; the gates of LeadPipeline,  *)
(* which knows the collection's shape only, for any number of overlapping  *)
(* requests; and, at the end, what LeadPopup's cards show and its requests *)
(* come to, for any number of those and of changes by others.              *)
(*                                                                         *)
(* The ledger is a list and what it adds up to is a recursive function, so *)
(* the first part is what such functions do to appended and concatenated   *)
(* lists, by induction over prefixes (the least prefix that is wrong).     *)
(* After it, a collection is its money and what is due (Holds), and every  *)
(* request is an operation on those two.                                   *)
(***************************************************************************)
EXTENDS PaymentLedger, LeadPipeline, LeadPopup, WellFoundedInduction, SequenceTheorems, FiniteSetTheorems, TLAPS

-----------------------------------------------------------------------------
(* Recursion on a sequence, by its prefixes. *)

LEMMA PrefixInduction ==
    ASSUME NEW n \in Nat, NEW P, 0 \in P, \A k \in 1..n : k - 1 \in P => k \in P
    PROVE  0..n \subseteq P
<1> DEFINE less == OpToRel(<, Nat)
           S == (0..n) \ P
<1>1. \A x, y \in Nat : y < x => <<y, x>> \in less
    BY DEF OpToRel
<1>2. IsWellFoundedOn(less, Nat)
    BY NatLessThanWellFounded
<1> HIDE DEF less
<1> SUFFICES ASSUME S # {} PROVE FALSE
    OBVIOUS
<1>3. S \in SUBSET Nat
    OBVIOUS
<1> HIDE DEF S
<1>4. PICK x \in S : \A y \in S : <<y, x>> \notin less
    BY <1>2, <1>3, WFMin
<1>5. x \in 1..n /\ x \notin P
    BY DEF S
<1>6. x - 1 \in P
    <2>1. x - 1 \in Nat /\ x \in Nat /\ x - 1 < x
        BY <1>5
    <2>2. x - 1 \notin S
        BY <1>1, <1>4, <2>1
    <2> QED BY <1>5, <2>2 DEF S
<1> QED BY <1>5, <1>6

(* A function on prefixes that the steps in g build up from base. *)
Builds(f, n, base, g) == f[0] = base /\ \A k \in 1..n : f[k] = g[<<f[k - 1], k>>]

LEMMA Built ==
    ASSUME NEW n \in Nat, NEW A, NEW base \in A, NEW g \in [A \X (1..n) -> A]
    PROVE  \E f \in [0..n -> A] : Builds(f, n, base, g)
<1> DEFINE Some(m) == \E f \in [0..m -> A] : Builds(f, m, base, g)
           P == {m \in 0..n : Some(m)}
<1>1. 0 \in P
    <2>1. [k \in 0..0 |-> base] \in [0..0 -> A] /\ Builds([k \in 0..0 |-> base], 0, base, g)
        BY DEF Builds
    <2> QED BY <2>1
<1>2. ASSUME NEW m \in 1..n, m - 1 \in P PROVE m \in P
    <2>1. PICK f \in [0..(m - 1) -> A] : Builds(f, m - 1, base, g)
        BY <1>2
    <2> DEFINE h == [k \in 0..m |-> IF k = m THEN g[<<f[m - 1], m>>] ELSE f[k]]
    <2>2. f[m - 1] \in A /\ g[<<f[m - 1], m>>] \in A
        BY <2>1
    <2>3. h \in [0..m -> A]
        BY <2>1, <2>2
    <2>4. \A k \in 0..(m - 1) : h[k] = f[k] /\ k # m
        OBVIOUS
    <2>5. h[m] = g[<<h[m - 1], m>>]
        <3>1. m - 1 \in 0..(m - 1) /\ m \in 0..m
            OBVIOUS
        <3>2. h[m] = g[<<f[m - 1], m>>]
            BY <3>1
        <3>3. h[m - 1] = f[m - 1]
            BY <2>4, <3>1
        <3> QED BY <3>2, <3>3
    <2>6. Builds(h, m, base, g)
        <3>1. h[0] = base
            BY <2>1, <2>4 DEF Builds
        <3>2. ASSUME NEW k \in 1..m PROVE h[k] = g[<<h[k - 1], k>>]
            <4>1. CASE k = m
                BY <2>5, <4>1
            <4>2. CASE k # m
                <5>1. k \in 1..(m - 1) /\ k - 1 \in 0..(m - 1) /\ k \in 0..(m - 1)
                    BY <4>2
                <5>2. f[k] = g[<<f[k - 1], k>>]
                    BY <2>1, <5>1 DEF Builds
                <5> QED BY <2>4, <5>1, <5>2
            <4> QED BY <4>1, <4>2
        <3> HIDE DEF h
        <3> QED BY <3>1, <3>2 DEF Builds
    <2> HIDE DEF h
    <2> QED BY <2>3, <2>6
<1> HIDE DEF P
<1>3. 0..n \subseteq P
    BY <1>1, <1>2, PrefixInduction
<1> QED BY <1>3 DEF P

(* A sum, by the prefixes of what it is a sum of. *)
Sums(f, amounts) == f[0] = 0 /\ \A k \in 1..Len(amounts) : f[k] = f[k - 1] + amounts[k]

LEMMA TotalBuilt ==
    ASSUME NEW amounts \in Seq(Nat)
    PROVE  \E f \in [0..Len(amounts) -> Nat] : Sums(f, amounts) /\ Total(amounts) = f[Len(amounts)]
<1> DEFINE n == Len(amounts)
           Step(f) == [k \in 0..n |-> IF k = 0 THEN 0 ELSE f[k - 1] + amounts[k]]
           g == [p \in Nat \X (1..n) |-> p[1] + amounts[p[2]]]
           Defined(f) == f = Step(f)
           upTo == CHOOSE f : Defined(f)
<1>1. n \in Nat /\ \A k \in 1..n : amounts[k] \in Nat
    OBVIOUS
<1>2. g \in [Nat \X (1..n) -> Nat]
    BY <1>1
<1>3. \A x \in Nat, k \in 1..n : g[<<x, k>>] = x + amounts[k]
    OBVIOUS
<1> HIDE DEF g
<1>4. PICK f \in [0..n -> Nat] : Builds(f, n, 0, g)
    BY <1>1, <1>2, Built
<1>5. Defined(f)
    <2>1. ASSUME NEW k \in 0..n PROVE f[k] = IF k = 0 THEN 0 ELSE f[k - 1] + amounts[k]
        <3>1. CASE k = 0
            BY <1>4, <3>1 DEF Builds
        <3>2. CASE k # 0
            <4>1. k \in 1..n /\ k - 1 \in 0..n
                BY <1>1, <3>2
            <4>2. f[k - 1] \in Nat
                BY <1>4, <4>1
            <4> QED BY <1>3, <1>4, <3>2, <4>1, <4>2 DEF Builds
        <3> QED BY <3>1, <3>2
    <2> QED BY <1>4, <2>1
<1>6. Defined(upTo)
    BY <1>5
<1>7. Total(amounts) = upTo[n]
    BY DEF Total
<1> HIDE DEF upTo
<1>8. /\ DOMAIN upTo = 0..n /\ upTo[0] = 0
      /\ \A k \in 1..n : upTo[k] = upTo[k - 1] + amounts[k]
    <2>1. DOMAIN upTo = 0..n /\ \A k \in 0..n : upTo[k] = IF k = 0 THEN 0 ELSE upTo[k - 1] + amounts[k]
        BY <1>6
    <2>2. 0 \in 0..n /\ \A k \in 1..n : k \in 0..n /\ k # 0
        BY <1>1
    <2> QED BY <2>1, <2>2
<1> DEFINE P == {k \in 0..n : upTo[k] \in Nat}
<1>9. 0 \in P /\ \A k \in 1..n : k - 1 \in P => k \in P
    BY <1>1, <1>8
<1> HIDE DEF P
<1>10. 0..n \subseteq P
    BY <1>1, <1>9, PrefixInduction
<1>11. upTo \in [0..n -> Nat]
    <2>1. upTo = [k \in 0..n |-> upTo[k]]
        BY <1>6
    <2> QED BY <1>10, <2>1 DEF P
<1> QED BY <1>7, <1>8, <1>11 DEF Sums

(* What is picked, by the prefixes of what it is picked from. *)
Picks(f, es, S) ==
    /\ f[0] = <<>>
    /\ \A k \in 1..Len(es) : f[k] = IF k \in S THEN Append(f[k - 1], es[k]) ELSE f[k - 1]

LEMMA AtBuilt ==
    ASSUME NEW B, NEW es \in Seq(B), NEW S
    PROVE  \E f \in [0..Len(es) -> Seq(B)] : Picks(f, es, S) /\ At(es, S) = f[Len(es)]
<1> DEFINE n == Len(es)
           Step(f) == [k \in 0..n |-> IF k = 0 THEN <<>> ELSE IF k \in S THEN Append(f[k - 1], es[k]) ELSE f[k - 1]]
           g == [p \in Seq(B) \X (1..n) |-> IF p[2] \in S THEN Append(p[1], es[p[2]]) ELSE p[1]]
           Defined(f) == f = Step(f)
           upTo == CHOOSE f : Defined(f)
<1>1. n \in Nat /\ <<>> \in Seq(B) /\ \A k \in 1..n : es[k] \in B
    OBVIOUS
<1>2. \A x \in Seq(B), k \in 1..n : Append(x, es[k]) \in Seq(B)
    BY <1>1
<1>3. g \in [Seq(B) \X (1..n) -> Seq(B)]
    BY <1>2
<1>4. \A x \in Seq(B), k \in 1..n : g[<<x, k>>] = IF k \in S THEN Append(x, es[k]) ELSE x
    OBVIOUS
<1> HIDE DEF g
<1>5. PICK f \in [0..n -> Seq(B)] : Builds(f, n, <<>>, g)
    BY <1>1, <1>3, Built
<1>6. Defined(f)
    <2>1. ASSUME NEW k \in 0..n
          PROVE  f[k] = IF k = 0 THEN <<>> ELSE IF k \in S THEN Append(f[k - 1], es[k]) ELSE f[k - 1]
        <3>1. CASE k = 0
            BY <1>5, <3>1 DEF Builds
        <3>2. CASE k # 0
            <4>1. k \in 1..n /\ k - 1 \in 0..n
                BY <1>1, <3>2
            <4>2. f[k - 1] \in Seq(B)
                BY <1>5, <4>1
            <4> QED BY <1>4, <1>5, <3>2, <4>1, <4>2 DEF Builds
        <3> QED BY <3>1, <3>2
    <2> QED BY <1>5, <2>1
<1>7. Defined(upTo)
    BY <1>6
<1>8. At(es, S) = upTo[n]
    BY DEF At
<1> HIDE DEF upTo
<1>9. /\ DOMAIN upTo = 0..n /\ upTo[0] = <<>>
      /\ \A k \in 1..n : upTo[k] = IF k \in S THEN Append(upTo[k - 1], es[k]) ELSE upTo[k - 1]
    <2>1. DOMAIN upTo = 0..n
          /\ \A k \in 0..n : upTo[k] = IF k = 0 THEN <<>> ELSE IF k \in S THEN Append(upTo[k - 1], es[k]) ELSE upTo[k - 1]
        BY <1>7
    <2>2. 0 \in 0..n /\ \A k \in 1..n : k \in 0..n /\ k # 0
        BY <1>1
    <2> QED BY <2>1, <2>2
<1> DEFINE P == {k \in 0..n : upTo[k] \in Seq(B)}
<1>10. 0 \in P /\ \A k \in 1..n : k - 1 \in P => k \in P
    <2>1. 0 \in 0..n /\ upTo[0] \in Seq(B)
        BY <1>1, <1>9
    <2>2. ASSUME NEW k \in 1..n, k - 1 \in P PROVE k \in P
        <3>1. upTo[k - 1] \in Seq(B) /\ k \in 0..n
            BY <1>1, <2>2
        <3>2. upTo[k] \in {Append(upTo[k - 1], es[k]), upTo[k - 1]}
            BY <1>9
        <3>3. Append(upTo[k - 1], es[k]) \in Seq(B)
            BY <1>2, <3>1
        <3> HIDE DEF upTo
        <3> QED BY <3>1, <3>2, <3>3
    <2> QED BY <2>1, <2>2
<1> HIDE DEF P
<1>11. 0..n \subseteq P
    BY <1>1, <1>10, PrefixInduction
<1>12. upTo \in [0..n -> Seq(B)]
    <2>1. upTo = [k \in 0..n |-> upTo[k]]
        BY <1>7
    <2> QED BY <1>11, <2>1 DEF P
<1> QED BY <1>8, <1>9, <1>12 DEF Picks

-----------------------------------------------------------------------------
(* Sums and picks by their last element, and sequences by theirs. *)

LEMMA TotalTypes ==
    ASSUME NEW amounts \in Seq(Nat)
    PROVE  Total(amounts) \in Nat
BY TotalBuilt

LEMMA TotalEmpty == Total(<<>>) = 0
<1>1. <<>> \in Seq(Nat) /\ Len(<<>>) = 0
    OBVIOUS
<1>2. PICK f \in [0..Len(<<>>) -> Nat] : Sums(f, <<>>) /\ Total(<<>>) = f[Len(<<>>)]
    BY <1>1, TotalBuilt
<1> QED BY <1>1, <1>2 DEF Sums

LEMMA TotalAppend ==
    ASSUME NEW amounts \in Seq(Nat), NEW amount \in Nat
    PROVE  Total(Append(amounts, amount)) = Total(amounts) + amount
<1> DEFINE n == Len(amounts)
           more == Append(amounts, amount)
<1>1. /\ n \in Nat /\ more \in Seq(Nat) /\ Len(more) = n + 1 /\ more[n + 1] = amount
      /\ \A k \in 1..n : more[k] = amounts[k]
    OBVIOUS
<1>2. PICK f \in [0..n -> Nat] : Sums(f, amounts) /\ Total(amounts) = f[n]
    BY TotalBuilt
<1>3. PICK g \in [0..(n + 1) -> Nat] : Sums(g, more) /\ Total(more) = g[n + 1]
    BY <1>1, TotalBuilt
<1> HIDE DEF more
<1> DEFINE P == {k \in 0..n : g[k] = f[k]}
<1>4. 0 \in P
    BY <1>1, <1>2, <1>3 DEF Sums
<1>5. ASSUME NEW k \in 1..n, k - 1 \in P PROVE k \in P
    <2>1. f[k] = f[k - 1] + amounts[k] /\ g[k - 1] = f[k - 1]
        BY <1>2, <1>5 DEF Sums
    <2>2. g[k] = g[k - 1] + more[k]
        BY <1>1, <1>3 DEF Sums
    <2>3. k \in 0..n
        BY <1>1
    <2> QED BY <1>1, <2>1, <2>2, <2>3
<1> HIDE DEF P
<1>6. n \in P
    <2>1. 0..n \subseteq P
        BY <1>1, <1>4, <1>5, PrefixInduction
    <2> QED BY <1>1, <2>1
<1>7. g[n + 1] = g[n] + amount
    BY <1>1, <1>3 DEF Sums
<1> QED BY <1>2, <1>3, <1>6, <1>7 DEF P

LEMMA AtTypes ==
    ASSUME NEW B, NEW es \in Seq(B), NEW S
    PROVE  At(es, S) \in Seq(B)
BY AtBuilt

LEMMA AtEmpty ==
    ASSUME NEW S
    PROVE  At(<<>>, S) = <<>>
<1>1. <<>> \in Seq(Nat) /\ Len(<<>>) = 0
    OBVIOUS
<1>2. PICK f \in [0..Len(<<>>) -> Seq(Nat)] : Picks(f, <<>>, S) /\ At(<<>>, S) = f[Len(<<>>)]
    BY <1>1, AtBuilt
<1> QED BY <1>1, <1>2 DEF Picks

LEMMA AtAppend ==
    ASSUME NEW B, NEW es \in Seq(B), NEW e \in B, NEW S
    PROVE  At(Append(es, e), S) = IF Len(es) + 1 \in S THEN Append(At(es, S), e) ELSE At(es, S)
<1> DEFINE n == Len(es)
           more == Append(es, e)
<1>1. /\ n \in Nat /\ more \in Seq(B) /\ Len(more) = n + 1 /\ more[n + 1] = e
      /\ \A k \in 1..n : more[k] = es[k]
    OBVIOUS
<1>2. PICK f \in [0..n -> Seq(B)] : Picks(f, es, S) /\ At(es, S) = f[n]
    BY AtBuilt
<1> HIDE DEF more
<1>3. PICK g \in [0..(n + 1) -> Seq(B)] : Picks(g, more, S) /\ At(more, S) = g[n + 1]
    <2>1. \E g \in [0..Len(more) -> Seq(B)] : Picks(g, more, S) /\ At(more, S) = g[Len(more)]
        BY <1>1, AtBuilt
    <2> QED BY <1>1, <2>1
<1> DEFINE P == {k \in 0..n : g[k] = f[k]}
<1>4. 0 \in P
    BY <1>1, <1>2, <1>3 DEF Picks
<1>5. ASSUME NEW k \in 1..n, k - 1 \in P PROVE k \in P
    <2>1. f[k] = (IF k \in S THEN Append(f[k - 1], es[k]) ELSE f[k - 1]) /\ g[k - 1] = f[k - 1]
        BY <1>2, <1>5 DEF Picks
    <2>2. g[k] = IF k \in S THEN Append(g[k - 1], more[k]) ELSE g[k - 1]
        BY <1>1, <1>3 DEF Picks
    <2>3. k \in 0..n
        BY <1>1
    <2>4. g[k] = f[k]
        BY <1>1, <2>1, <2>2
    <2> QED BY <2>3, <2>4
<1> HIDE DEF P
<1>6. n \in P
    <2>1. 0..n \subseteq P
        BY <1>1, <1>4, <1>5, PrefixInduction
    <2> QED BY <1>1, <2>1
<1>7. g[n + 1] = IF n + 1 \in S THEN Append(g[n], e) ELSE g[n]
    BY <1>1, <1>3 DEF Picks
<1>8. g[n] = f[n]
    BY <1>6 DEF P
<1>9. At(more, S) = IF n + 1 \in S THEN Append(At(es, S), e) ELSE At(es, S)
    BY <1>2, <1>3, <1>7, <1>8
<1> QED BY <1>9 DEF more

LEMMA AppendInduction ==
    ASSUME NEW B, NEW P, <<>> \in P, \A s \in P \cap Seq(B), e \in B : Append(s, e) \in P
    PROVE  Seq(B) \subseteq P
<1> SUFFICES ASSUME NEW s \in Seq(B) PROVE s \in P
    OBVIOUS
<1> DEFINE n == Len(s)
           Q == {k \in 0..n : SubSeq(s, 1, k) \in P}
<1>1. n \in Nat /\ SubSeq(s, 1, 0) = <<>> /\ SubSeq(s, 1, n) = s
    OBVIOUS
<1>2. 0 \in Q
    <2>1. SubSeq(s, 1, 0) \in P
        BY <1>1, Zenon
    <2> QED BY <1>1, <2>1
<1>3. ASSUME NEW k \in 1..n, k - 1 \in Q PROVE k \in Q
    <2>1. SubSeq(s, 1, k - 1) \in Seq(B) /\ s[k] \in B
        OBVIOUS
    <2>2. SubSeq(s, 1, k) = Append(SubSeq(s, 1, k - 1), s[k])
        OBVIOUS
    <2>3. SubSeq(s, 1, k - 1) \in P
        BY <1>3
    <2>4. k \in 0..n
        BY <1>1
    <2>5. SubSeq(s, 1, k) \in P
        BY <2>1, <2>2, <2>3
    <2> QED BY <2>4, <2>5
<1> HIDE DEF Q
<1>4. n \in Q
    <2>1. 0..n \subseteq Q
        BY <1>1, <1>2, <1>3, PrefixInduction
    <2> QED BY <1>1, <2>1
<1> QED BY <1>1, <1>4 DEF Q

-----------------------------------------------------------------------------
(* What follows for sums and picks. *)

LEMMA TotalConcat ==
    ASSUME NEW these \in Seq(Nat), NEW those \in Seq(Nat)
    PROVE  Total(these \o those) = Total(these) + Total(those)
<1> DEFINE P == {s \in Seq(Nat) : Total(these \o s) = Total(these) + Total(s)}
<1>1. <<>> \in P
    <2>1. these \o <<>> = these /\ <<>> \in Seq(Nat)
        BY ConcatEmptySeq
    <2>2. Total(these) \in Nat
        BY TotalTypes
    <2> QED BY <2>1, <2>2, TotalEmpty
<1>2. ASSUME NEW s \in P \cap Seq(Nat), NEW e \in Nat PROVE Append(s, e) \in P
    <2>1. these \o Append(s, e) = Append(these \o s, e) /\ these \o s \in Seq(Nat) /\ Append(s, e) \in Seq(Nat)
        OBVIOUS
    <2>2. Total(these \o Append(s, e)) = Total(these \o s) + e
        BY <2>1, TotalAppend
    <2>3. Total(Append(s, e)) = Total(s) + e
        BY TotalAppend
    <2>4. Total(these) \in Nat /\ Total(s) \in Nat /\ Total(these \o s) = Total(these) + Total(s)
        BY TotalTypes
    <2>5. Total(these \o Append(s, e)) = Total(these) + Total(Append(s, e))
        BY <2>2, <2>3, <2>4
    <2> QED BY <2>1, <2>5
<1> HIDE DEF P
<1>3. those \in P
    BY <1>1, <1>2, AppendInduction
<1> QED BY <1>3 DEF P

LEMMA TotalOne ==
    ASSUME NEW amount \in Nat
    PROVE  Total(<<amount>>) = amount
<1>1. <<amount>> = Append(<<>>, amount) /\ <<>> \in Seq(Nat)
    OBVIOUS
<1>2. Total(Append(<<>>, amount)) = Total(<<>>) + amount
    BY <1>1, TotalAppend
<1> QED BY <1>1, <1>2, TotalEmpty

LEMMA SubSeqOne ==
    ASSUME NEW B, NEW es \in Seq(B), NEW k \in 1..Len(es)
    PROVE  SubSeq(es, k, k) = <<es[k]>>
<1>1. SubSeq(es, k, k) = <<es[k]>> \o SubSeq(es, k + 1, k) /\ SubSeq(es, k + 1, k) = <<>>
    BY SubSeqRecursiveFirst, SubSeqEmpty
<1>2. <<es[k]>> \in Seq(B)
    OBVIOUS
<1> QED BY <1>1, <1>2, ConcatEmptySeq

(* A stretch of the list, picked. *)
LEMMA AtStretch ==
    ASSUME NEW es \in Seq(Entry), NEW S, NEW a \in Nat, NEW b \in Nat,
           1 <= a, a <= b + 1, b <= Len(es),
           \A i \in 1..Len(es) : i \in S <=> i \in a..b
    PROVE  At(es, S) = SubSeq(es, a, b)
<1> DEFINE n == Len(es)
           Stretch(k) == IF k < a THEN <<>> ELSE SubSeq(es, a, IF k <= b THEN k ELSE b)
<1>1. n \in Nat /\ a \in Nat /\ b \in Nat /\ 1 <= a /\ a <= n + 1 /\ a - 1 <= b /\ b <= n
    OBVIOUS
<1>2. PICK f \in [0..n -> Seq(Entry)] : Picks(f, es, S) /\ At(es, S) = f[n]
    BY AtBuilt
<1> DEFINE P == {k \in 0..n : f[k] = Stretch(k)}
<1>3. 0 \in P
    <2>1. f[0] = <<>> /\ 0 < a
        BY <1>1, <1>2 DEF Picks
    <2> QED BY <1>1, <2>1
<1>4. ASSUME NEW k \in 1..n, k - 1 \in P PROVE k \in P
    <2>1. f[k - 1] = Stretch(k - 1) /\ k \in 0..n
        BY <1>1, <1>4
    <2>2. f[k] = IF k \in a..b THEN Append(f[k - 1], es[k]) ELSE f[k - 1]
        BY <1>2 DEF Picks
    <2>3. f[k] = Stretch(k)
        <3>1. CASE k < a
            <4>1. k \notin a..b /\ k - 1 < a
                BY <1>1, <3>1
            <4> QED BY <2>1, <2>2, <3>1, <4>1
        <3>2. CASE k = a /\ k <= b
            <4>1. f[k - 1] = <<>> /\ k \in a..b
                BY <1>1, <2>1, <3>2
            <4>2. SubSeq(es, k, k) = <<es[k]>>
                BY SubSeqOne
            <4> QED BY <2>2, <3>2, <4>1, <4>2
        <3>3. CASE k > a /\ k <= b
            <4>1. k \in a..b /\ f[k - 1] = SubSeq(es, a, k - 1)
                BY <1>1, <2>1, <3>3
            <4>2. Append(SubSeq(es, a, k - 1), es[k]) = SubSeq(es, a, k)
                BY <1>1, <3>3
            <4>3. f[k] = Append(f[k - 1], es[k])
                BY <2>2, <4>1
            <4>4. Stretch(k) = SubSeq(es, a, k)
                BY <1>1, <3>3
            <4> HIDE DEF Stretch
            <4> QED BY <4>1, <4>2, <4>3, <4>4
        <3>4. CASE k >= a /\ k > b
            <4>1. k \notin a..b
                BY <1>1, <3>4
            <4>2. CASE k - 1 < a
                <5>1. SubSeq(es, a, b) = <<>>
                    BY <1>1, <3>4, <4>2
                <5>2. f[k] = <<>> /\ ~(k < a) /\ ~(k <= b)
                    BY <1>1, <2>1, <2>2, <3>4, <4>1, <4>2
                <5> QED BY <5>1, <5>2
            <4>3. CASE k - 1 >= a
                <5>1. (IF k - 1 <= b THEN k - 1 ELSE b) = b
                    BY <1>1, <3>4
                <5>2. f[k] = f[k - 1]
                    BY <2>2, <4>1
                <5>3. ~(k < a) /\ ~(k - 1 < a) /\ ~(k <= b)
                    BY <1>1, <3>4, <4>3
                <5>4. Stretch(k - 1) = SubSeq(es, a, b) /\ Stretch(k) = SubSeq(es, a, b)
                    BY <5>1, <5>3
                <5> HIDE DEF Stretch
                <5> QED BY <2>1, <5>2, <5>4
            <4> QED BY <1>1, <4>2, <4>3
        <3> QED BY <1>1, <3>1, <3>2, <3>3, <3>4
    <2> HIDE DEF Stretch
    <2> QED BY <2>1, <2>3
<1> HIDE DEF P
<1>5. n \in P
    <2>1. 0..n \subseteq P
        BY <1>1, <1>3, <1>4, PrefixInduction
    <2> QED BY <1>1, <2>1
<1>6. f[n] = Stretch(n)
    BY <1>5 DEF P
<1>7. Stretch(n) = SubSeq(es, a, b)
    <2>1. CASE n < a
        BY <1>1, <2>1
    <2>2. CASE n >= a
        BY <1>1, <2>2
    <2> QED BY <1>1, <2>1, <2>2
<1> QED BY <1>2, <1>6, <1>7

-----------------------------------------------------------------------------
(* A ledger: money, the token first if there is one, and then perhaps a    *)
(* balance.                                                                *)

MoneyEntries == {e \in Entry : e.kind \in ReceivedKinds /\ e.paid /\ e.received = e.amount /\ e.amount > 0}

BalanceEntries == {e \in Entry : e.kind = "balance" /\ ~e.paid /\ ~e.evidence}

TokenFirst(ms) == \A i \in DOMAIN ms : ms[i].kind = "token" => i = 1

Ledger(ms, rest) ==
    /\ ms \in Seq(MoneyEntries) /\ TokenFirst(ms)
    /\ rest \in Seq(BalanceEntries) /\ Len(rest) <= 1

(* What rebalancing keeps: the first token and the payments. *)
Kept(es) == (IF OfKind(es, "token") = <<>> THEN <<>> ELSE <<OfKind(es, "token")[1]>>) \o OfKind(es, "payment")

LEMMA CollectedOf ==
    /\ \A e \in MoneyEntries : Collected(e) = e.amount /\ e.amount \in Nat /\ e.amount > 0 /\ e \in Entry
    /\ \A e \in BalanceEntries : Collected(e) = 0 /\ e.amount \in Nat /\ e \in Entry
BY DEF MoneyEntries, BalanceEntries, Collected, Entry

LEMMA Places ==
    ASSUME NEW ms, NEW rest, Ledger(ms, rest)
    PROVE  /\ Len(ms) \in Nat /\ Len(rest) \in {0, 1} /\ ms \in Seq(Entry) /\ rest \in Seq(Entry)
           /\ ms \o rest \in Seq(Entry) /\ Len(ms \o rest) = Len(ms) + Len(rest)
           /\ \A i \in 1..Len(ms) : (ms \o rest)[i] = ms[i] /\ ms[i] \in MoneyEntries
           /\ \A i \in (Len(ms) + 1)..(Len(ms) + Len(rest)) :
                 i = Len(ms) + 1 /\ (ms \o rest)[i] = rest[1] /\ rest[1] \in BalanceEntries
           /\ SubSeq(ms \o rest, 1, Len(ms)) = ms
           /\ SubSeq(ms \o rest, Len(ms) + 1, Len(ms) + Len(rest)) = rest
<1>1. MoneyEntries \subseteq Entry /\ BalanceEntries \subseteq Entry
    BY DEF MoneyEntries, BalanceEntries
<1>2. ms \in Seq(MoneyEntries) /\ rest \in Seq(BalanceEntries) /\ Len(rest) <= 1
    BY DEF Ledger
<1>3. ms \in Seq(Entry) /\ rest \in Seq(Entry)
    BY <1>1, <1>2, SeqMonotonic
<1>4. Len(ms) \in Nat /\ Len(rest) \in {0, 1}
    <2> DEFINE r == Len(rest)
    <2>1. Len(ms) \in Nat /\ r \in Nat /\ r <= 1
        BY <1>2, LenProperties
    <2> HIDE DEF r
    <2>2. r \in {0, 1}
        BY <2>1
    <2> QED BY <2>1, <2>2 DEF r
<1>5. ms \o rest \in Seq(Entry) /\ Len(ms \o rest) = Len(ms) + Len(rest)
      /\ \A i \in 1 .. Len(ms) + Len(rest) : (ms \o rest)[i] = IF i <= Len(ms) THEN ms[i] ELSE rest[i - Len(ms)]
    BY <1>3, ConcatProperties
<1>6. \A i \in 1..Len(ms) : (ms \o rest)[i] = ms[i] /\ ms[i] \in MoneyEntries
    BY <1>2, <1>4, <1>5
<1>7. ASSUME NEW i \in (Len(ms) + 1)..(Len(ms) + Len(rest))
      PROVE  i = Len(ms) + 1 /\ (ms \o rest)[i] = rest[1] /\ rest[1] \in BalanceEntries
    <2>1. i = Len(ms) + 1 /\ Len(rest) = 1
        <3> DEFINE k == Len(ms)
                   r == Len(rest)
        <3>1. k \in Nat /\ r \in {0, 1} /\ i \in (k + 1)..(k + r)
            BY <1>4
        <3> HIDE DEF k, r
        <3>2. i = k + 1 /\ r = 1
            BY <3>1
        <3> QED BY <3>2 DEF k, r
    <2>2. (ms \o rest)[i] = rest[i - Len(ms)]
        BY <1>4, <1>5, <2>1
    <2> QED BY <1>2, <1>4, <2>1, <2>2
<1>8. SubSeq(ms \o rest, 1, Len(ms)) = ms
    <2>1. SubSeq(ms \o rest, 1, Len(ms)) \in Seq(Entry) /\ Len(SubSeq(ms \o rest, 1, Len(ms))) = Len(ms)
          /\ \A i \in 1..Len(ms) : SubSeq(ms \o rest, 1, Len(ms))[i] = (ms \o rest)[i]
        BY <1>4, <1>5
    <2> QED BY <1>3, <1>6, <2>1, SeqEqual
<1>9. SubSeq(ms \o rest, Len(ms) + 1, Len(ms) + Len(rest)) = rest
    <2> DEFINE tail == SubSeq(ms \o rest, Len(ms) + 1, Len(ms) + Len(rest))
    <2>1. tail \in Seq(Entry) /\ Len(tail) = Len(rest) /\ \A i \in 1..Len(rest) : tail[i] = (ms \o rest)[Len(ms) + i]
        BY <1>4, <1>5
    <2>2. \A i \in 1..Len(rest) : tail[i] = rest[i]
        BY <1>4, <1>5, <2>1
    <2> HIDE DEF tail
    <2> QED BY <1>3, <2>1, <2>2, SeqEqual
<1> QED BY <1>3, <1>4, <1>5, <1>6, <1>7, <1>8, <1>9

LEMMA Picked ==
    ASSUME NEW ms, NEW rest, Ledger(ms, rest)
    PROVE  LET es == ms \o rest
           IN  /\ Kept(es) = ms /\ ReceivedEntries(es) = ms /\ OfKind(es, "balance") = rest
               /\ OfKind(es, "token") = (IF Len(ms) > 0 /\ ms[1].kind = "token" THEN <<ms[1]>> ELSE <<>>)
               /\ At(es, {i \in DOMAIN es : es[i].kind # "balance" /\ Collected(es[i]) > 0}) = ms
<1> DEFINE es == ms \o rest
           k == Len(ms)
           n == Len(ms) + Len(rest)
<1>1. /\ k \in Nat /\ n \in {k, k + 1} /\ es \in Seq(Entry) /\ Len(es) = n /\ DOMAIN es = 1..n
      /\ ms \in Seq(Entry)
      /\ SubSeq(es, 1, k) = ms /\ SubSeq(es, k + 1, n) = rest
    BY Places
<1>2. \A i \in 1..k : es[i] = ms[i] /\ ms[i] \in MoneyEntries
    BY Places
<1>3. \A i \in (k + 1)..n : i = k + 1 /\ es[i] \in BalanceEntries
    BY Places
<1> HIDE DEF k, n, es
<1>4. \A i \in 1..n : i \in 1..k \/ i \in (k + 1)..n
    BY <1>1
<1>5. \A i \in 1..n : /\ es[i].kind = "balance" <=> i \in (k + 1)..n
                      /\ es[i].kind \in ReceivedKinds <=> i \in 1..k
                      /\ es[i].kind # "balance" /\ Collected(es[i]) > 0 <=> i \in 1..k
    BY <1>1, <1>2, <1>3, <1>4, CollectedOf DEF MoneyEntries, BalanceEntries, ReceivedKinds
<1>6. ReceivedEntries(es) = ms
    <2> DEFINE S == {i \in DOMAIN es : es[i].kind \in ReceivedKinds}
    <2>1. \A i \in 1..Len(es) : i \in S <=> i \in 1..k
        BY <1>1, <1>5
    <2> HIDE DEF S
    <2>2. At(es, S) = SubSeq(es, 1, k)
        <3>1. 1 \in Nat /\ k + 1 \in Nat /\ k \in Nat /\ n \in Nat /\ k <= Len(es) /\ n <= Len(es)
              /\ 1 <= 1 /\ 1 <= k + 1 /\ k + 1 <= n + 1
            BY <1>1
        <3> QED BY <1>1, <2>1, <3>1, AtStretch
    <2> QED BY <1>1, <2>2 DEF ReceivedEntries, S
<1>7. OfKind(es, "balance") = rest
    <2> DEFINE S == {i \in DOMAIN es : es[i].kind = "balance"}
    <2>1. \A i \in 1..Len(es) : i \in S <=> i \in (k + 1)..n
        BY <1>1, <1>5
    <2> HIDE DEF S
    <2>2. At(es, S) = SubSeq(es, k + 1, n)
        <3>1. 1 \in Nat /\ k + 1 \in Nat /\ k \in Nat /\ n \in Nat /\ k <= Len(es) /\ n <= Len(es)
              /\ 1 <= 1 /\ 1 <= k + 1 /\ k + 1 <= n + 1
            BY <1>1
        <3> QED BY <1>1, <2>1, <3>1, AtStretch
    <2> QED BY <1>1, <2>2 DEF OfKind, S
<1>8. At(es, {i \in DOMAIN es : es[i].kind # "balance" /\ Collected(es[i]) > 0}) = ms
    <2> DEFINE S == {i \in DOMAIN es : es[i].kind # "balance" /\ Collected(es[i]) > 0}
    <2>1. \A i \in 1..Len(es) : i \in S <=> i \in 1..k
        BY <1>1, <1>5
    <2> HIDE DEF S
    <2>2. At(es, S) = SubSeq(es, 1, k)
        <3>1. 1 \in Nat /\ k + 1 \in Nat /\ k \in Nat /\ n \in Nat /\ k <= Len(es) /\ n <= Len(es)
              /\ 1 <= 1 /\ 1 <= k + 1 /\ k + 1 <= n + 1
            BY <1>1
        <3> QED BY <1>1, <2>1, <3>1, AtStretch
    <2> QED BY <1>1, <2>2 DEF S
<1> DEFINE t == IF k > 0 /\ ms[1].kind = "token" THEN 1 ELSE 0
<1>9. /\ t \in {0, 1} /\ t <= k
      /\ \A i \in 1..n : es[i].kind = "token" <=> i \in 1..t
      /\ \A i \in 1..n : es[i].kind = "payment" <=> i \in (t + 1)..k
    <2>1. \A i \in 1..k : es[i].kind = "token" <=> i \in 1..t
        BY <1>1, <1>2 DEF Ledger, TokenFirst, k
    <2>2. \A i \in 1..k : es[i].kind \in {"token", "payment"}
        BY <1>2 DEF MoneyEntries, ReceivedKinds
    <2>3. \A i \in (k + 1)..n : es[i].kind = "balance"
        BY <1>3 DEF BalanceEntries
    <2> QED BY <1>1, <1>4, <2>1, <2>2, <2>3
<1> HIDE DEF t
<1>10. OfKind(es, "token") = SubSeq(es, 1, t)
    <2> DEFINE S == {i \in DOMAIN es : es[i].kind = "token"}
    <2>1. \A i \in 1..Len(es) : i \in S <=> i \in 1..t
        BY <1>1, <1>9
    <2> HIDE DEF S
    <2>2. At(es, S) = SubSeq(es, 1, t)
        <3>1. 1 \in Nat /\ t + 1 \in Nat /\ k \in Nat /\ t \in Nat /\ k <= Len(es) /\ t <= Len(es)
              /\ 1 <= 1 /\ 1 <= t + 1 /\ t + 1 <= k + 1
            BY <1>1, <1>9
        <3> QED BY <1>1, <2>1, <3>1, AtStretch
    <2> QED BY <2>2 DEF OfKind, S
<1>11. OfKind(es, "payment") = SubSeq(es, t + 1, k)
    <2> DEFINE S == {i \in DOMAIN es : es[i].kind = "payment"}
    <2>1. \A i \in 1..Len(es) : i \in S <=> i \in (t + 1)..k
        BY <1>1, <1>9
    <2> HIDE DEF S
    <2>2. At(es, S) = SubSeq(es, t + 1, k)
        <3>1. 1 \in Nat /\ t + 1 \in Nat /\ k \in Nat /\ t \in Nat /\ k <= Len(es) /\ t <= Len(es)
              /\ 1 <= 1 /\ 1 <= t + 1 /\ t + 1 <= k + 1
            BY <1>1, <1>9
        <3> QED BY <1>1, <2>1, <3>1, AtStretch
    <2> QED BY <2>2 DEF OfKind, S
<1>12. OfKind(es, "token") = (IF k > 0 /\ ms[1].kind = "token" THEN <<ms[1]>> ELSE <<>>)
    <2>1. CASE t = 1
        <3>1. 1 \in 1..Len(es) /\ es[1] = ms[1]
            BY <1>1, <1>2, <1>9, <2>1
        <3>2. SubSeq(es, 1, 1) = <<es[1]>>
            BY <1>1, <3>1, SubSeqOne
        <3>3. OfKind(es, "token") = <<ms[1]>>
            BY <1>10, <2>1, <3>1, <3>2
        <3>4. k > 0 /\ ms[1].kind = "token"
            BY <2>1 DEF t
        <3> QED BY <3>3, <3>4
    <2>2. CASE t = 0
        <3>1. SubSeq(es, 1, 0) = <<>>
            BY SubSeqEmpty
        <3> QED BY <1>10, <2>2, <3>1 DEF t
    <2> QED BY <1>9, <2>1, <2>2
<1>13. Kept(es) = ms
    <2>1. CASE t = 1
        <3>1. OfKind(es, "token") = <<ms[1]>> /\ ms[1] = es[1]
            BY <1>1, <1>2, <1>9, <1>12, <2>1 DEF t
        <3>2. SubSeq(es, 1, k) = <<es[1]>> \o SubSeq(es, 2, k)
            BY <1>1, <1>9, <2>1, SubSeqRecursiveFirst
        <3>3. OfKind(es, "payment") = SubSeq(es, 2, k)
            BY <1>11, <2>1
        <3>4. OfKind(es, "token") # <<>> /\ OfKind(es, "token")[1] = es[1]
            BY <3>1
        <3>5. Kept(es) = <<es[1]>> \o SubSeq(es, 2, k)
            BY <3>3, <3>4 DEF Kept
        <3> QED BY <1>1, <3>2, <3>5
    <2>2. CASE t = 0
        <3>1. OfKind(es, "token") = <<>> /\ OfKind(es, "payment") = ms
            BY <1>1, <1>11, <1>12, <2>2 DEF t
        <3> QED BY <1>1, <3>1, ConcatEmptySeq DEF Kept
    <2> QED BY <1>9, <2>1, <2>2
<1> QED BY <1>6, <1>7, <1>8, <1>12, <1>13 DEF es, k

-----------------------------------------------------------------------------
(* What the entries add up to. *)

AmountsOf(es) == [i \in DOMAIN es |-> es[i].amount]

LEMMA AmountsTyped ==
    ASSUME NEW es \in Seq(Entry)
    PROVE  AmountsOf(es) \in Seq(Nat) /\ Len(AmountsOf(es)) = Len(es) /\ \A i \in 1..Len(es) : AmountsOf(es)[i] = es[i].amount
<1>1. Len(es) \in Nat /\ DOMAIN es = 1..Len(es) /\ \A i \in 1..Len(es) : es[i].amount \in Nat
    <2>1. \A e \in Entry : e.amount \in Nat
        BY DEF Entry
    <2> QED BY <2>1, LenProperties, ElementOfSeq
<1>2. AmountsOf(es) = [i \in 1..Len(es) |-> es[i].amount]
    BY <1>1 DEF AmountsOf
<1>3. [i \in 1..Len(es) |-> es[i].amount] \in Seq(Nat) /\ Len([i \in 1..Len(es) |-> es[i].amount]) = Len(es)
    BY <1>1
<1> QED BY <1>2, <1>3

LEMMA FeeTyped ==
    ASSUME NEW es \in Seq(Entry)
    PROVE  FeeOf(es) \in Nat
BY AmountsTyped, TotalTypes DEF FeeOf, AmountsOf

LEMMA FeeConcat ==
    ASSUME NEW es \in Seq(Entry), NEW more \in Seq(Entry)
    PROVE  FeeOf(es \o more) = FeeOf(es) + FeeOf(more)
<1>1. es \o more \in Seq(Entry) /\ Len(es \o more) = Len(es) + Len(more) /\ Len(es) \in Nat /\ Len(more) \in Nat
      /\ \A i \in 1..(Len(es) + Len(more)) : (es \o more)[i] = IF i <= Len(es) THEN es[i] ELSE more[i - Len(es)]
    BY ConcatProperties, LenProperties
<1>2. AmountsOf(es) \in Seq(Nat) /\ AmountsOf(more) \in Seq(Nat) /\ AmountsOf(es \o more) \in Seq(Nat)
    BY <1>1, AmountsTyped
<1>3. AmountsOf(es \o more) = AmountsOf(es) \o AmountsOf(more)
    <2> DEFINE left == AmountsOf(es \o more)
               right == AmountsOf(es) \o AmountsOf(more)
               m == Len(es)
               n == Len(more)
    <2>1. right \in Seq(Nat) /\ Len(right) = m + n
          /\ \A i \in 1..(m + n) : right[i] = IF i <= m THEN AmountsOf(es)[i] ELSE AmountsOf(more)[i - m]
        <3>1. Len(AmountsOf(es)) = m /\ Len(AmountsOf(more)) = n
            BY AmountsTyped
        <3> HIDE DEF m, n
        <3>2. /\ right \in Seq(Nat) /\ Len(right) = Len(AmountsOf(es)) + Len(AmountsOf(more))
              /\ \A i \in 1..(Len(AmountsOf(es)) + Len(AmountsOf(more))) :
                    right[i] = IF i <= Len(AmountsOf(es)) THEN AmountsOf(es)[i] ELSE AmountsOf(more)[i - Len(AmountsOf(es))]
            BY <1>2, ConcatProperties
        <3> HIDE DEF right
        <3> QED BY <3>1, <3>2
    <2>2. left \in Seq(Nat) /\ Len(left) = m + n /\ \A i \in 1..(m + n) : left[i] = (es \o more)[i].amount
        BY <1>1, AmountsTyped
    <2>3. ASSUME NEW i \in 1..(m + n) PROVE left[i] = right[i]
        <3>1. CASE i <= m
            <4>1. i \in 1..m
                BY <1>1, <3>1
            <4> QED BY <1>1, <2>1, <2>2, <3>1, <4>1, AmountsTyped
        <3>2. CASE ~(i <= m)
            <4>1. i - m \in 1..n
                BY <1>1, <3>2
            <4> QED BY <1>1, <2>1, <2>2, <3>2, <4>1, AmountsTyped
        <3> QED BY <3>1, <3>2
    <2> HIDE DEF left, right, m, n
    <2>4. left = right
        BY <2>1, <2>2, <2>3, SeqEqual
    <2> QED BY <2>4 DEF left, right
<1>4. Total(AmountsOf(es) \o AmountsOf(more)) = Total(AmountsOf(es)) + Total(AmountsOf(more))
    BY <1>2, TotalConcat
<1> QED BY <1>3, <1>4 DEF FeeOf, AmountsOf

LEMMA FeeOne ==
    ASSUME NEW e \in Entry
    PROVE  FeeOf(<<e>>) = e.amount
<1>1. AmountsOf(<<e>>) = <<e.amount>> /\ e.amount \in Nat
    BY DEF AmountsOf, Entry
<1> QED BY <1>1, TotalOne DEF FeeOf, AmountsOf

LEMMA FeeNone == FeeOf(<<>>) = 0
<1>1. AmountsOf(<<>>) = <<>>
    BY DEF AmountsOf
<1> QED BY <1>1, TotalEmpty DEF FeeOf, AmountsOf

(* A list about one of its places. *)
Before(es, i) == SubSeq(es, 1, i - 1)
After(es, i) == SubSeq(es, i + 1, Len(es))
With(es, i, e) == [es EXCEPT ![i] = e]

LEMMA Around ==
    ASSUME NEW B, NEW es \in Seq(B), NEW i \in 1..Len(es)
    PROVE  /\ Before(es, i) \in Seq(B) /\ After(es, i) \in Seq(B)
           /\ Len(Before(es, i)) = i - 1 /\ \A k \in 1..(i - 1) : Before(es, i)[k] = es[k]
           /\ Len(After(es, i)) = Len(es) - i /\ \A k \in 1..(Len(es) - i) : After(es, i)[k] = es[i + k]
<1> DEFINE n == Len(es)
           left == SubSeq(es, 1, i - 1)
           right == SubSeq(es, i + 1, n)
<1>1. n \in Nat /\ i \in Nat /\ 1 <= i /\ i <= n /\ \A k \in 1..n : es[k] \in B
    BY LenProperties, ElementOfSeq
<1>2. left \in Seq(B) /\ Len(left) = i - 1 /\ \A k \in 1..(i - 1) : left[k] = es[k]
    <2>1. \A k \in 1..(i - 1) : k \in 1..n
        BY <1>1
    <2>2. SubSeq(es, 1, i - 1) \in Seq(B)
          /\ Len(SubSeq(es, 1, i - 1)) = (IF 1 <= i - 1 THEN (i - 1) - 1 + 1 ELSE 0)
          /\ \A k \in 1..((i - 1) - 1 + 1) : SubSeq(es, 1, i - 1)[k] = es[1 + k - 1]
        BY <1>1, <2>1, SubSeqProperties
    <2>3. \A k \in 1..(i - 1) : k \in 1..((i - 1) - 1 + 1) /\ 1 + k - 1 = k
        BY <1>1
    <2>4. (IF 1 <= i - 1 THEN (i - 1) - 1 + 1 ELSE 0) = i - 1
        BY <1>1
    <2> QED BY <2>2, <2>3, <2>4
<1>3. right \in Seq(B) /\ Len(right) = n - i /\ \A k \in 1..(n - i) : right[k] = es[i + k]
    <2>1. \A k \in (i + 1)..n : k \in 1..n
        BY <1>1
    <2>2. right \in Seq(B)
          /\ Len(right) = (IF i + 1 <= n THEN n - (i + 1) + 1 ELSE 0)
          /\ \A k \in 1..(n - (i + 1) + 1) : right[k] = es[i + 1 + k - 1]
        BY <1>1, <2>1, SubSeqProperties
    <2>3. \A k \in 1..(n - i) : k \in 1..(n - (i + 1) + 1) /\ i + 1 + k - 1 = i + k
        BY <1>1
    <2>4. (IF i + 1 <= n THEN n - (i + 1) + 1 ELSE 0) = n - i
        BY <1>1
    <2> QED BY <2>2, <2>3, <2>4
<1> HIDE DEF left, right, n
<1> QED BY <1>2, <1>3 DEF left, right, n, Before, After

LEMMA About ==
    ASSUME NEW B, NEW es \in Seq(B), NEW i \in 1..Len(es), NEW e \in B
    PROVE  /\ Before(es, i) \o (<<es[i]>> \o After(es, i)) = es
           /\ Before(es, i) \o (<<e>> \o After(es, i)) = With(es, i, e)
<1> DEFINE n == Len(es)
           left == Before(es, i)
           right == After(es, i)
<1>1. n \in Nat /\ i \in Nat /\ 1 <= i /\ i <= n /\ \A k \in 1..n : es[k] \in B
    BY LenProperties, ElementOfSeq
<1>2. left \in Seq(B) /\ Len(left) = i - 1 /\ \A k \in 1..(i - 1) : left[k] = es[k]
    BY Around
<1>3. right \in Seq(B) /\ Len(right) = n - i /\ \A k \in 1..(n - i) : right[k] = es[i + k]
    BY Around
<1> HIDE DEF left, right, n
<1>4. ASSUME NEW x \in B
      PROVE  /\ left \o (<<x>> \o right) \in Seq(B) /\ Len(left \o (<<x>> \o right)) = n
             /\ \A k \in 1..n : (left \o (<<x>> \o right))[k] = IF k = i THEN x ELSE es[k]
    <2> DEFINE rest == <<x>> \o right
               all == left \o rest
    <2>1. <<x>> \in Seq(B) /\ Len(<<x>>) = 1 /\ <<x>>[1] = x
        OBVIOUS
    <2>2. rest \in Seq(B) /\ Len(rest) = n - i + 1
          /\ \A k \in 1..(n - i + 1) : rest[k] = IF k = 1 THEN x ELSE right[k - 1]
        <3>1. rest \in Seq(B) /\ Len(rest) = 1 + (n - i)
              /\ \A k \in 1..(1 + (n - i)) : rest[k] = IF k <= 1 THEN <<x>>[k] ELSE right[k - 1]
            BY <1>3, <2>1, ConcatProperties
        <3> HIDE DEF rest
        <3> QED BY <1>1, <2>1, <3>1
    <2> HIDE DEF rest
    <2>3. all \in Seq(B) /\ Len(all) = (i - 1) + (n - i + 1)
          /\ \A k \in 1..((i - 1) + (n - i + 1)) : all[k] = IF k <= i - 1 THEN left[k] ELSE rest[k - (i - 1)]
        <3>1. /\ all \in Seq(B) /\ Len(all) = Len(left) + Len(rest)
              /\ \A k \in 1..(Len(left) + Len(rest)) : all[k] = IF k <= Len(left) THEN left[k] ELSE rest[k - Len(left)]
            BY <1>2, <2>2, ConcatProperties
        <3>2. Len(left) = i - 1 /\ Len(rest) = n - i + 1
            BY <1>2, <2>2
        <3> HIDE DEF all
        <3> QED BY <3>1, <3>2
    <2> HIDE DEF all
    <2>4. (i - 1) + (n - i + 1) = n
        BY <1>1
    <2>5. ASSUME NEW k \in 1..n PROVE all[k] = IF k = i THEN x ELSE es[k]
        <3>1. CASE k < i
            <4>1. k \in 1..(i - 1) /\ k <= i - 1 /\ k # i
                BY <1>1, <3>1
            <4> QED BY <1>2, <2>3, <2>4, <4>1
        <3>2. CASE k = i
            <4>1. ~(k <= i - 1) /\ k - (i - 1) = 1 /\ 1 \in 1..(n - i + 1)
                BY <1>1, <3>2
            <4> QED BY <2>2, <2>3, <2>4, <3>2, <4>1
        <3>3. CASE k > i
            <4>1. ~(k <= i - 1) /\ k - (i - 1) \in 1..(n - i + 1) /\ k - (i - 1) # 1 /\ k - (i - 1) - 1 \in 1..(n - i)
                  /\ i + (k - (i - 1) - 1) = k /\ k # i
                BY <1>1, <3>3
            <4>2. all[k] = rest[k - (i - 1)] /\ rest[k - (i - 1)] = right[k - (i - 1) - 1]
                BY <2>2, <2>3, <2>4, <4>1
            <4>3. right[k - (i - 1) - 1] = es[k]
                BY <1>3, <4>1
            <4> QED BY <4>1, <4>2, <4>3
        <3> QED BY <1>1, <3>1, <3>2, <3>3
    <2>6. all \in Seq(B) /\ Len(all) = n
        BY <2>3, <2>4
    <2> QED BY <2>5, <2>6 DEF all, rest
<1>5. es = left \o (<<es[i]>> \o right)
    <2> DEFINE all == left \o (<<es[i]>> \o right)
    <2>1. es[i] \in B
        OBVIOUS
    <2>2. all \in Seq(B) /\ Len(all) = n /\ \A k \in 1..n : all[k] = es[k]
        BY <1>4, <2>1
    <2> HIDE DEF all
    <2>3. es = all
        BY <2>2, SeqEqual DEF n
    <2> QED BY <2>3 DEF all
<1>6. [es EXCEPT ![i] = e] = left \o (<<e>> \o right)
    <2> DEFINE all == left \o (<<e>> \o right)
               other == [es EXCEPT ![i] = e]
    <2>1. all \in Seq(B) /\ Len(all) = n /\ \A k \in 1..n : all[k] = IF k = i THEN e ELSE es[k]
        BY <1>4
    <2>2. other \in Seq(B) /\ Len(other) = n /\ \A k \in 1..n : other[k] = IF k = i THEN e ELSE es[k]
        BY ExceptSeq DEF n
    <2> HIDE DEF all, other
    <2>3. other = all
        BY <2>1, <2>2, SeqEqual
    <2> QED BY <2>3 DEF all, other
<1> QED BY <1>5, <1>6 DEF left, right, With

LEMMA FeeAbout ==
    ASSUME NEW es \in Seq(Entry), NEW i \in 1..Len(es), NEW e \in Entry
    PROVE  /\ FeeOf(With(es, i, e)) + es[i].amount = FeeOf(es) + e.amount
           /\ FeeOf(RemoveAt(es, i)) + es[i].amount = FeeOf(es)
<1> DEFINE left == Before(es, i)
           right == After(es, i)
<1>0. es[i] \in Entry
    BY ElementOfSeq
<1>1. /\ left \in Seq(Entry) /\ right \in Seq(Entry)
      /\ left \o (<<es[i]>> \o right) = es /\ left \o (<<e>> \o right) = With(es, i, e)
    BY Around, About
<1>2. RemoveAt(es, i) = left \o right
    BY DEF RemoveAt, Before, After
<1> HIDE DEF left, right
<1>3. ASSUME NEW x \in Entry PROVE FeeOf(left \o (<<x>> \o right)) = FeeOf(left) + (x.amount + FeeOf(right))
    <2>1. <<x>> \in Seq(Entry) /\ <<x>> \o right \in Seq(Entry)
        BY <1>1
    <2>2. FeeOf(<<x>> \o right) = x.amount + FeeOf(right)
        BY <1>1, <2>1, FeeConcat, FeeOne
    <2> QED BY <1>1, <2>1, <2>2, FeeConcat
<1>4. FeeOf(es) = FeeOf(left) + (es[i].amount + FeeOf(right))
    BY <1>0, <1>1, <1>3
<1>5. FeeOf(With(es, i, e)) = FeeOf(left) + (e.amount + FeeOf(right))
    BY <1>1, <1>3
<1>6. FeeOf(RemoveAt(es, i)) = FeeOf(left) + FeeOf(right)
    BY <1>1, <1>2, FeeConcat
<1>7. FeeOf(left) \in Nat /\ FeeOf(right) \in Nat /\ es[i].amount \in Nat /\ e.amount \in Nat
    BY <1>0, <1>1, FeeTyped DEF Entry
<1> QED BY <1>4, <1>5, <1>6, <1>7

-----------------------------------------------------------------------------
(* Rebalancing: the money stays, and what it leaves of the fee is due.     *)

Due(fee, ms, date) == IF FeeOf(ms) < fee THEN <<BalanceDue(fee - FeeOf(ms), date)>> ELSE <<>>

Days == Dates \cup {NoDate}

LEMMA MoneyAlone ==
    ASSUME NEW ms, NEW rest, Ledger(ms, rest)
    PROVE  Ledger(ms, <<>>) /\ ms \o <<>> = ms
BY Places, ConcatEmptySeq DEF Ledger

LEMMA MoneyCollected ==
    ASSUME NEW ms, NEW rest, Ledger(ms, rest)
    PROVE  ReceivedOf(ms \o rest) = FeeOf(ms)
<1>1. ReceivedEntries(ms \o rest) = ms
    BY Picked
<1>2. \A i \in DOMAIN ms : Collected(ms[i]) = ms[i].amount
    <2>1. \A i \in DOMAIN ms : ms[i] \in MoneyEntries
        BY DEF Ledger
    <2> QED BY <2>1, CollectedOf
<1>3. [i \in DOMAIN ms |-> Collected(ms[i])] = [i \in DOMAIN ms |-> ms[i].amount]
    BY <1>2
<1> QED BY <1>1, <1>3 DEF ReceivedOf, CollectedFrom, FeeOf

LEMMA DateOfLedger ==
    ASSUME NEW ms, NEW rest, Ledger(ms, rest)
    PROVE  /\ BalanceDate(ms \o rest) = IF rest = <<>> THEN NoDate ELSE rest[1].date
           /\ BalanceDate(ms \o rest) \in Days
<1>1. OfKind(ms \o rest, "balance") = rest
    BY Picked
<1>2. rest # <<>> => rest[1].date \in Days
    <2>1. rest # <<>> => rest[1] \in BalanceEntries
        BY DEF Ledger
    <2> QED BY <2>1 DEF BalanceEntries, Entry, Days
<1> QED BY <1>1, <1>2 DEF BalanceDate, Days

LEMMA DueLedger ==
    ASSUME NEW ms, Ledger(ms, <<>>), NEW fee \in Nat, NEW date \in Days
    PROVE  /\ Ledger(ms, Due(fee, ms, date))
           /\ FeeOf(ms) \in Nat
           /\ FeeOf(ms \o Due(fee, ms, date)) = IF FeeOf(ms) < fee THEN fee ELSE FeeOf(ms)
           /\ Due(fee, ms, date) = <<>> <=> ~(FeeOf(ms) < fee)
           /\ Due(fee, ms, date) # <<>> => Due(fee, ms, date)[1].amount > 0 /\ Due(fee, ms, date)[1].date = date
<1>1. ms \in Seq(Entry) /\ FeeOf(ms) \in Nat /\ ms \o <<>> = ms
    BY Places, FeeTyped, MoneyAlone
<1>2. CASE FeeOf(ms) < fee
    <2> DEFINE b == BalanceDue(fee - FeeOf(ms), date)
    <2>1. fee - FeeOf(ms) \in Nat /\ fee - FeeOf(ms) > 0
        BY <1>1, <1>2
    <2>2. b \in BalanceEntries /\ b \in Entry /\ b.amount = fee - FeeOf(ms) /\ b.date = date
        BY <2>1 DEF BalanceDue, BalanceEntries, Entry, Days
    <2>3. Due(fee, ms, date) = <<b>>
        BY <1>2 DEF Due
    <2> HIDE DEF b
    <2>4. <<b>> \in Seq(Entry) /\ <<b>> \in Seq(BalanceEntries) /\ Len(<<b>>) = 1 /\ <<b>> # <<>> /\ <<b>>[1] = b
        BY <2>2
    <2>5. FeeOf(ms \o <<b>>) = FeeOf(ms) + (fee - FeeOf(ms))
        BY <1>1, <2>2, <2>4, FeeConcat, FeeOne
    <2>6. FeeOf(ms \o <<b>>) = fee
        BY <1>1, <2>5
    <2>7. Ledger(ms, <<b>>)
        BY <2>4 DEF Ledger
    <2> QED BY <1>1, <1>2, <2>1, <2>2, <2>3, <2>4, <2>6, <2>7
<1>3. CASE ~(FeeOf(ms) < fee)
    <2>1. Due(fee, ms, date) = <<>>
        BY <1>3 DEF Due
    <2> QED BY <1>1, <1>3, <2>1
<1> QED BY <1>2, <1>3

LEMMA Rebalanced ==
    ASSUME NEW ms, Ledger(ms, <<>>), NEW es, Kept(es) = ms, NEW fee \in Nat
    PROVE  Rebalance(es, fee) = ms \o Due(fee, ms, BalanceDate(es))
<1>1. ReceivedOf(ms) = FeeOf(ms) /\ ms \in Seq(Entry) /\ FeeOf(ms) \in Nat /\ ms \o <<>> = ms
    BY MoneyCollected, MoneyAlone, Places, FeeTyped
<1> DEFINE date == BalanceDate(es)
           owed == fee - FeeOf(ms)
<1>2. Rebalance(es, fee) = IF owed > 0 THEN Append(ms, BalanceDue(owed, date)) ELSE ms
    BY <1>1 DEF Rebalance, Kept
<1> HIDE DEF date
<1>3. owed > 0 <=> FeeOf(ms) < fee
    BY <1>1
<1>4. CASE FeeOf(ms) < fee
    <2> DEFINE b == BalanceDue(owed, date)
    <2>1. Due(fee, ms, date) = <<b>> /\ Rebalance(es, fee) = Append(ms, b)
        BY <1>2, <1>3, <1>4 DEF Due
    <2> HIDE DEF b
    <2>2. Append(ms, b) = ms \o <<b>>
        OBVIOUS
    <2> QED BY <2>1, <2>2 DEF date
<1>5. CASE ~(FeeOf(ms) < fee)
    <2>1. Due(fee, ms, date) = <<>> /\ Rebalance(es, fee) = ms
        BY <1>2, <1>3, <1>5 DEF Due
    <2> QED BY <1>1, <2>1 DEF date
<1> QED BY <1>4, <1>5

(* A ledger rebalanced, and an opening one. *)
LEMMA RebalancedLedger ==
    ASSUME NEW ms, NEW rest, Ledger(ms, rest), NEW fee \in Nat
    PROVE  Rebalance(ms \o rest, fee) = ms \o Due(fee, ms, BalanceDate(ms \o rest))
<1>1. Ledger(ms, <<>>)
    BY MoneyAlone
<1>2. Kept(ms \o rest) = ms
    BY Picked
<1> DEFINE es == ms \o rest
<1>3. Kept(es) = ms
    BY <1>2
<1> HIDE DEF es
<1>4. Rebalance(es, fee) = ms \o Due(fee, ms, BalanceDate(es))
    BY <1>1, <1>3, Rebalanced
<1> QED BY <1>4 DEF es

LEMMA NothingKept ==
    /\ Ledger(<<>>, <<>>) /\ <<>> \o <<>> = <<>> /\ FeeOf(<<>>) = 0
    /\ BalanceDate(<<>>) = NoDate
    /\ \A fee \in Nat : OpeningLedger(fee) = <<>> \o Due(fee, <<>>, NoDate)
<1>1. Ledger(<<>>, <<>>) /\ <<>> \o <<>> = <<>>
    BY DEF Ledger, TokenFirst
<1>2. BalanceDate(<<>>) = NoDate
    BY <1>1, DateOfLedger
<1>3. \A fee \in Nat : Rebalance(<<>>, fee) = <<>> \o Due(fee, <<>>, NoDate)
    <2> DEFINE none == <<>>
    <2>1. Ledger(none, none) /\ none \o none = none /\ BalanceDate(none) = NoDate
        BY <1>1, <1>2
    <2> HIDE DEF none
    <2>2. ASSUME NEW fee \in Nat PROVE Rebalance(none, fee) = none \o Due(fee, none, NoDate)
        <3>1. Rebalance(none \o none, fee) = none \o Due(fee, none, BalanceDate(none \o none))
            BY <2>1, RebalancedLedger
        <3> QED BY <2>1, <3>1
    <2> QED BY <2>2 DEF none
<1> QED BY <1>1, <1>2, <1>3, FeeNone DEF OpeningLedger

-----------------------------------------------------------------------------
(* Money taken, corrected and taken off again. *)

LEMMA AtSame ==
    ASSUME NEW B, NEW es \in Seq(B), NEW S, NEW T, \A i \in 1..Len(es) : i \in S <=> i \in T
    PROVE  At(es, S) = At(es, T)
<1> DEFINE n == Len(es)
<1>1. n \in Nat
    OBVIOUS
<1>2. PICK f \in [0..n -> Seq(B)] : Picks(f, es, S) /\ At(es, S) = f[n]
    BY AtBuilt
<1>3. PICK g \in [0..n -> Seq(B)] : Picks(g, es, T) /\ At(es, T) = g[n]
    BY AtBuilt
<1> DEFINE P == {k \in 0..n : f[k] = g[k]}
<1>4. 0 \in P
    BY <1>1, <1>2, <1>3 DEF Picks
<1>5. ASSUME NEW k \in 1..n, k - 1 \in P PROVE k \in P
    <2>1. f[k] = (IF k \in S THEN Append(f[k - 1], es[k]) ELSE f[k - 1]) /\ g[k - 1] = f[k - 1]
        BY <1>2, <1>5 DEF Picks
    <2>2. g[k] = IF k \in T THEN Append(g[k - 1], es[k]) ELSE g[k - 1]
        BY <1>3 DEF Picks
    <2>3. k \in 0..n /\ (k \in S <=> k \in T)
        BY <1>1
    <2>4. f[k] = g[k]
        BY <2>1, <2>2, <2>3
    <2> QED BY <2>3, <2>4
<1> HIDE DEF P
<1>6. n \in P
    <2>1. 0..n \subseteq P
        BY <1>1, <1>4, <1>5, PrefixInduction
    <2> QED BY <1>1, <2>1
<1> QED BY <1>2, <1>3, <1>6 DEF P

LEMMA OfKindAppend ==
    ASSUME NEW B, NEW es \in Seq(B), NEW e \in B, NEW kind
    PROVE  OfKind(Append(es, e), kind) = IF e.kind = kind THEN Append(OfKind(es, kind), e) ELSE OfKind(es, kind)
<1> DEFINE n == Len(es)
           more == Append(es, e)
           S == {i \in DOMAIN more : more[i].kind = kind}
           T == {i \in DOMAIN es : es[i].kind = kind}
<1>1. /\ n \in Nat /\ DOMAIN es = 1..n /\ DOMAIN more = 1..(n + 1) /\ more[n + 1] = e
      /\ \A i \in 1..n : more[i] = es[i]
    OBVIOUS
<1>2. (n + 1 \in S <=> e.kind = kind) /\ \A i \in 1..n : i \in S <=> i \in T
    BY <1>1
<1>3. OfKind(more, kind) = At(more, S) /\ OfKind(es, kind) = At(es, T)
    BY DEF OfKind
<1> HIDE DEF S, T
<1>4. At(es, S) = At(es, T)
    BY <1>2, AtSame
<1>5. At(more, S) = IF n + 1 \in S THEN Append(At(es, S), e) ELSE At(es, S)
    BY AtAppend
<1> QED BY <1>2, <1>3, <1>4, <1>5

Taking(ms, kind, amount) == IF kind = "token" THEN <<Money(kind, amount)>> \o ms ELSE ms \o <<Money(kind, amount)>>

LEMMA MoneyTyped ==
    ASSUME NEW kind \in ReceivedKinds, NEW amount \in Nat, amount > 0
    PROVE  /\ Money(kind, amount) \in MoneyEntries /\ Money(kind, amount) \in Entry
           /\ Money(kind, amount).kind = kind /\ Money(kind, amount).amount = amount
BY DEF Money, MoneyEntries, Entry, ReceivedKinds

LEMMA Taken ==
    ASSUME NEW ms, NEW rest, Ledger(ms, rest), NEW kind \in ReceivedKinds, NEW amount \in Nat, amount > 0,
           kind = "token" => OfKind(ms \o rest, "token") = <<>>
    PROVE  /\ Ledger(Taking(ms, kind, amount), <<>>)
           /\ Kept(Append(ms \o rest, Money(kind, amount))) = Taking(ms, kind, amount)
           /\ FeeOf(Taking(ms, kind, amount)) = FeeOf(ms) + amount
           /\ BalanceDate(Append(ms \o rest, Money(kind, amount))) = BalanceDate(ms \o rest)
<1> DEFINE m == Money(kind, amount)
           es == ms \o rest
           more == Append(es, m)
<1>1. m \in MoneyEntries /\ m \in Entry /\ m.kind = kind /\ m.amount = amount /\ kind \in {"token", "payment"}
    BY MoneyTyped DEF ReceivedKinds
<1> HIDE DEF m
<1>2. ms \in Seq(Entry) /\ es \in Seq(Entry) /\ ms \in Seq(MoneyEntries) /\ TokenFirst(ms) /\ Len(ms) \in Nat
    BY Places DEF Ledger
<1>3. /\ Kept(es) = ms
      /\ OfKind(es, "token") = IF Len(ms) > 0 /\ ms[1].kind = "token" THEN <<ms[1]>> ELSE <<>>
    BY Picked
<1>x. kind = "token" => OfKind(es, "token") = <<>>
    OBVIOUS
<1> HIDE DEF es
<1>4. \A k : OfKind(more, k) = IF m.kind = k THEN Append(OfKind(es, k), m) ELSE OfKind(es, k)
    BY <1>1, <1>2, OfKindAppend
<1>5. OfKind(more, "balance") = OfKind(es, "balance")
    BY <1>1, <1>4
<1>6. BalanceDate(more) = BalanceDate(es)
    BY <1>5 DEF BalanceDate
<1>7. \A k : OfKind(es, k) \in Seq(Entry)
    BY <1>2, AtTypes DEF OfKind
<1> HIDE DEF more
<1>8. <<m>> \in Seq(Entry) /\ <<m>> \in Seq(MoneyEntries) /\ Len(<<m>>) = 1 /\ <<m>>[1] = m /\ <<m>> # <<>>
    BY <1>1
<1>9. CASE kind = "token"
    <2>1. OfKind(es, "token") = <<>>
        BY <1>9, <1>x
    <2>2. ~(Len(ms) > 0 /\ ms[1].kind = "token")
        <3>1. <<ms[1]>> # <<>>
            OBVIOUS
        <3> QED BY <1>3, <2>1, <3>1
    <2>3. \A i \in 1..Len(ms) : ms[i].kind # "token"
        BY <1>2, <2>2 DEF TokenFirst
    <2>4. OfKind(es, "payment") = ms
        BY <1>3, <1>7, <2>1, ConcatEmptySeq DEF Kept
    <2>5. OfKind(more, "token") = <<m>> /\ OfKind(more, "payment") = ms
        <3>1. OfKind(more, "token") = Append(OfKind(es, "token"), m) /\ OfKind(more, "payment") = OfKind(es, "payment")
            BY <1>1, <1>4, <1>9
        <3>2. Append(<<>>, m) = <<m>>
            OBVIOUS
        <3> QED BY <2>1, <2>4, <3>1, <3>2
    <2>6. Kept(more) = <<m>> \o ms
        BY <1>8, <2>5 DEF Kept
    <2> DEFINE new == <<m>> \o ms
    <2>7. new \in Seq(MoneyEntries) /\ Len(new) = 1 + Len(ms)
          /\ \A i \in 1..(1 + Len(ms)) : new[i] = IF i <= 1 THEN <<m>>[i] ELSE ms[i - 1]
        BY <1>2, <1>8, ConcatProperties
    <2>8. FeeOf(new) = amount + FeeOf(ms)
        BY <1>1, <1>2, <1>8, FeeConcat, FeeOne
    <2>9. Taking(ms, kind, amount) = new
        BY <1>9 DEF Taking, m
    <2> HIDE DEF new
    <2>10. Ledger(new, <<>>)
        <3>1. ASSUME NEW i \in DOMAIN new, i # 1 PROVE new[i].kind # "token"
            <4>1. i - 1 \in 1..Len(ms) /\ new[i] = ms[i - 1]
                BY <1>2, <2>7, <3>1
            <4> QED BY <2>3, <4>1
        <3> QED BY <2>7, <3>1 DEF Ledger, TokenFirst
    <2>11. FeeOf(ms) \in Nat
        BY <1>2, FeeTyped
    <2>12. Kept(more) = new
        BY <2>6 DEF new
    <2> QED BY <1>6, <2>8, <2>9, <2>10, <2>11, <2>12 DEF es, more, m
<1>10. CASE kind = "payment"
    <2>1. OfKind(more, "token") = OfKind(es, "token") /\ OfKind(more, "payment") = Append(OfKind(es, "payment"), m)
        BY <1>1, <1>4, <1>10
    <2> DEFINE first == IF OfKind(es, "token") = <<>> THEN <<>> ELSE <<OfKind(es, "token")[1]>>
    <2>2. Kept(es) = first \o OfKind(es, "payment") /\ Kept(more) = first \o Append(OfKind(es, "payment"), m)
        BY <2>1 DEF Kept
    <2>3. first \in Seq(Entry)
        <3>1. OfKind(es, "token") # <<>> => OfKind(es, "token")[1] \in Entry
            BY <1>7
        <3> QED BY <3>1
    <2> HIDE DEF first
    <2>4. Kept(more) = Append(Kept(es), m)
        BY <1>1, <1>7, <2>2, <2>3
    <2> DEFINE new == ms \o <<m>>
    <2>5. new = Append(ms, m) /\ new \in Seq(MoneyEntries) /\ Len(new) = Len(ms) + 1
          /\ \A i \in 1..(Len(ms) + 1) : new[i] = IF i <= Len(ms) THEN ms[i] ELSE m
        BY <1>1, <1>2
    <2>6. FeeOf(new) = FeeOf(ms) + amount
        BY <1>1, <1>2, <1>8, FeeConcat, FeeOne
    <2>7. Taking(ms, kind, amount) = new
        BY <1>10 DEF Taking, m
    <2> HIDE DEF new
    <2>8. Ledger(new, <<>>)
        <3>1. ASSUME NEW i \in DOMAIN new, new[i].kind = "token" PROVE i = 1
            <4>1. i \in 1..Len(ms) /\ new[i] = ms[i]
                BY <1>1, <1>2, <1>10, <2>5, <3>1
            <4> QED BY <1>2, <3>1, <4>1 DEF TokenFirst
        <3> QED BY <2>5, <3>1 DEF Ledger, TokenFirst
    <2>9. Kept(more) = new
        BY <1>3, <2>4, <2>5
    <2> QED BY <1>6, <2>6, <2>7, <2>8, <2>9 DEF es, more, m
<1> QED BY <1>1, <1>9, <1>10

LEMMA CorrectedAt ==
    ASSUME NEW ms, NEW rest, Ledger(ms, rest), NEW i \in 1..Len(ms), NEW amount \in Nat, amount > 0
    PROVE  LET m == Money(ms[i].kind, amount)
           IN  /\ Ledger(With(ms, i, m), rest)
               /\ With(ms \o rest, i, m) = With(ms, i, m) \o rest
               /\ FeeOf(With(ms, i, m)) = FeeOf(ms) - ms[i].amount + amount
               /\ FeeOf(With(ms, i, m)) \in Nat
<1> DEFINE m == Money(ms[i].kind, amount)
           new == With(ms, i, m)
           es == ms \o rest
<1>1. ms[i] \in MoneyEntries
    BY Places
<1>2. m \in MoneyEntries /\ m \in Entry /\ m.kind = ms[i].kind /\ m.amount = amount
    BY <1>1, MoneyTyped DEF MoneyEntries
<1> HIDE DEF m
<1>3. /\ ms \in Seq(MoneyEntries) /\ TokenFirst(ms) /\ ms \in Seq(Entry) /\ rest \in Seq(Entry)
      /\ es \in Seq(Entry) /\ Len(es) = Len(ms) + Len(rest) /\ Len(ms) \in Nat /\ Len(rest) \in Nat
    BY Places DEF Ledger
<1>4. new \in Seq(MoneyEntries) /\ Len(new) = Len(ms) /\ \A k \in 1..Len(ms) : new[k] = IF k = i THEN m ELSE ms[k]
    BY <1>2, <1>3, ExceptSeq DEF With
<1>5. new \in Seq(Entry)
    BY <1>2, <1>3, ExceptSeq DEF With
<1>6. Ledger(new, rest)
    <2>1. ASSUME NEW k \in DOMAIN new, new[k].kind = "token" PROVE k = 1
        <3>1. k \in 1..Len(ms) /\ ms[k].kind = "token"
            BY <1>2, <1>3, <1>4, <2>1
        <3> QED BY <1>3, <3>1 DEF TokenFirst
    <2> HIDE DEF new
    <2> QED BY <1>4, <2>1 DEF Ledger, TokenFirst
<1>7. With(es, i, m) = new \o rest
    <2> DEFINE left == With(es, i, m)
               right == new \o rest
               n == Len(es)
    <2>0. i \in 1..n /\ \A k \in 1..n : es[k] = IF k <= Len(ms) THEN ms[k] ELSE rest[k - Len(ms)]
        BY <1>3, ConcatProperties
    <2>1. left \in Seq(Entry) /\ Len(left) = n /\ \A k \in 1..n : left[k] = IF k = i THEN m ELSE es[k]
        <3> HIDE DEF es
        <3> QED BY <1>2, <1>3, <2>0, ExceptSeq DEF With
    <2>2. right \in Seq(Entry) /\ Len(right) = Len(new) + Len(rest)
          /\ \A k \in 1..(Len(new) + Len(rest)) : right[k] = IF k <= Len(new) THEN new[k] ELSE rest[k - Len(new)]
        <3> HIDE DEF new
        <3> QED BY <1>3, <1>5, ConcatProperties
    <2> HIDE DEF left, right, new, es, n
    <2>3. n = Len(ms) + Len(rest) /\ Len(right) = n
        BY <1>3, <1>4, <2>2 DEF n
    <2>4. ASSUME NEW k \in 1..n PROVE left[k] = right[k]
        <3>1. CASE k <= Len(ms)
            <4>1. k \in 1..Len(ms)
                BY <1>3, <2>3, <3>1
            <4>2. right[k] = new[k] /\ es[k] = ms[k]
                BY <1>3, <1>4, <2>0, <2>2, <2>3, <3>1
            <4> QED BY <1>4, <2>1, <4>1, <4>2
        <3>2. CASE ~(k <= Len(ms))
            <4>1. k # i
                BY <1>3, <2>3, <3>2
            <4>2. right[k] = rest[k - Len(ms)] /\ es[k] = rest[k - Len(ms)]
                BY <1>3, <1>4, <2>0, <2>2, <2>3, <3>2
            <4> QED BY <2>1, <4>1, <4>2
        <3> QED BY <3>1, <3>2
    <2>5. left = right
        BY <2>1, <2>2, <2>3, <2>4, SeqEqual
    <2> QED BY <2>5 DEF left, right
<1>8. FeeOf(new) + ms[i].amount = FeeOf(ms) + amount
    BY <1>2, <1>3, FeeAbout
<1>9. FeeOf(new) \in Nat /\ FeeOf(ms) \in Nat /\ ms[i].amount \in Nat
    BY <1>1, <1>3, <1>5, FeeTyped, CollectedOf
<1> HIDE DEF new
<1>10. FeeOf(new) = FeeOf(ms) - ms[i].amount + amount
    BY <1>8, <1>9
<1> QED BY <1>6, <1>7, <1>9, <1>10 DEF m, new, es

LEMMA Removed ==
    ASSUME NEW ms, NEW rest, Ledger(ms, rest), NEW i \in 1..Len(ms)
    PROVE  /\ Ledger(RemoveAt(ms, i), rest)
           /\ RemoveAt(ms \o rest, i) = RemoveAt(ms, i) \o rest
           /\ FeeOf(RemoveAt(ms, i)) + ms[i].amount = FeeOf(ms)
           /\ Len(RemoveAt(ms, i)) = Len(ms) - 1
           /\ \A k \in 1..(Len(ms) - 1) : RemoveAt(ms, i)[k] = IF k < i THEN ms[k] ELSE ms[k + 1]
<1> DEFINE new == RemoveAt(ms, i)
           es == ms \o rest
           n == Len(ms)
<1>1. /\ ms \in Seq(MoneyEntries) /\ TokenFirst(ms) /\ ms \in Seq(Entry) /\ rest \in Seq(Entry)
      /\ es \in Seq(Entry) /\ Len(es) = n + Len(rest) /\ n \in Nat /\ Len(rest) \in Nat
      /\ i \in Nat /\ 1 <= i /\ i <= n
    BY Places DEF Ledger
<1>2. ms[i] \in MoneyEntries /\ ms[i] \in Entry
    BY Places, CollectedOf
<1>3. /\ Before(ms, i) \in Seq(MoneyEntries) /\ After(ms, i) \in Seq(MoneyEntries)
      /\ Len(Before(ms, i)) = i - 1 /\ \A k \in 1..(i - 1) : Before(ms, i)[k] = ms[k]
      /\ Len(After(ms, i)) = n - i /\ \A k \in 1..(n - i) : After(ms, i)[k] = ms[i + k]
    BY <1>1, Around
<1>4. new = Before(ms, i) \o After(ms, i)
    BY DEF RemoveAt, Before, After
<1>5. new \in Seq(MoneyEntries) /\ Len(new) = n - 1
      /\ \A k \in 1..(n - 1) : new[k] = IF k < i THEN ms[k] ELSE ms[k + 1]
    <2>1. new \in Seq(MoneyEntries) /\ Len(new) = Len(Before(ms, i)) + Len(After(ms, i))
          /\ \A k \in 1..(Len(Before(ms, i)) + Len(After(ms, i))) :
                new[k] = IF k <= Len(Before(ms, i)) THEN Before(ms, i)[k] ELSE After(ms, i)[k - Len(Before(ms, i))]
        <3> HIDE DEF new, n
        <3> DEFINE left == Before(ms, i)
                   right == After(ms, i)
        <3>1. left \in Seq(MoneyEntries) /\ right \in Seq(MoneyEntries) /\ new = left \o right
            BY <1>3, <1>4
        <3> HIDE DEF left, right
        <3>2. new \in Seq(MoneyEntries) /\ Len(new) = Len(left) + Len(right)
              /\ \A k \in 1..(Len(left) + Len(right)) : new[k] = IF k <= Len(left) THEN left[k] ELSE right[k - Len(left)]
            BY <3>1, ConcatProperties
        <3> QED BY <3>2 DEF left, right
    <2> HIDE DEF new, n
    <2>2. Len(Before(ms, i)) + Len(After(ms, i)) = n - 1
        BY <1>1, <1>3
    <2>3. ASSUME NEW k \in 1..(n - 1) PROVE new[k] = IF k < i THEN ms[k] ELSE ms[k + 1]
        <3>1. CASE k < i
            <4>1. k \in 1..(i - 1) /\ k <= i - 1
                BY <1>1, <3>1
            <4> QED BY <1>3, <2>1, <2>2, <3>1, <4>1
        <3>2. CASE ~(k < i)
            <4>1. ~(k <= i - 1) /\ k - (i - 1) \in 1..(n - i) /\ i + (k - (i - 1)) = k + 1
                BY <1>1, <3>2
            <4> QED BY <1>3, <2>1, <2>2, <3>2, <4>1
        <3> QED BY <3>1, <3>2
    <2> QED BY <2>1, <2>2, <2>3
<1>6. Ledger(new, rest)
    <2> HIDE DEF new
    <2>1. ASSUME NEW k \in DOMAIN new, new[k].kind = "token" PROVE k = 1
        <3>1. k \in 1..(n - 1)
            BY <1>1, <1>5
        <3>2. CASE k < i
            <4>1. k \in 1..n /\ ms[k].kind = "token"
                BY <1>1, <1>5, <2>1, <3>1, <3>2
            <4> QED BY <1>1, <4>1 DEF TokenFirst
        <3>3. CASE ~(k < i)
            <4>1. k + 1 \in 1..n /\ ms[k + 1].kind = "token" /\ k + 1 # 1
                BY <1>1, <1>5, <2>1, <3>1, <3>3
            <4> QED BY <1>1, <4>1 DEF TokenFirst
        <3> QED BY <3>2, <3>3
    <2> QED BY <1>5, <2>1 DEF Ledger, TokenFirst
<1>7. RemoveAt(es, i) = new \o rest
    <2>1. i \in 1..Len(es) /\ \A k \in 1..Len(es) : es[k] = IF k <= n THEN ms[k] ELSE rest[k - n]
        BY <1>1, ConcatProperties
    <2> HIDE DEF es
    <2>2. /\ Before(es, i) \in Seq(Entry) /\ After(es, i) \in Seq(Entry)
          /\ Len(Before(es, i)) = i - 1 /\ \A k \in 1..(i - 1) : Before(es, i)[k] = es[k]
          /\ Len(After(es, i)) = Len(es) - i /\ \A k \in 1..(Len(es) - i) : After(es, i)[k] = es[i + k]
        BY <1>1, <2>1, Around
    <2>3. RemoveAt(es, i) = Before(es, i) \o After(es, i)
        BY DEF RemoveAt, Before, After
    <2>4. Before(ms, i) \in Seq(Entry) /\ After(ms, i) \in Seq(Entry)
        BY <1>1, Around
    <2>5. Before(es, i) = Before(ms, i)
        <3>1. \A k \in 1..(i - 1) : Before(es, i)[k] = Before(ms, i)[k]
            <4>1. \A k \in 1..(i - 1) : k \in 1..Len(es) /\ k <= n
                BY <1>1
            <4> QED BY <1>3, <2>1, <2>2, <4>1
        <3> QED BY <1>3, <2>2, <2>4, <3>1, SeqEqual
    <2>6. After(es, i) = After(ms, i) \o rest
        <3> DEFINE right == After(ms, i) \o rest
        <3>1. right \in Seq(Entry) /\ Len(right) = Len(After(ms, i)) + Len(rest)
              /\ \A k \in 1..(Len(After(ms, i)) + Len(rest)) :
                    right[k] = IF k <= Len(After(ms, i)) THEN After(ms, i)[k] ELSE rest[k - Len(After(ms, i))]
            BY <1>1, <2>4, ConcatProperties
        <3> HIDE DEF right, n
        <3>2. Len(right) = Len(After(es, i))
            BY <1>1, <1>3, <2>2, <3>1
        <3>3. ASSUME NEW k \in 1..Len(After(es, i)) PROVE After(es, i)[k] = right[k]
            <4>1. /\ k \in 1..(Len(es) - i) /\ i + k \in 1..Len(es)
                  /\ k \in 1..(Len(After(ms, i)) + Len(rest)) /\ Len(After(ms, i)) = n - i
                BY <1>1, <1>3, <2>2, <3>1, <3>2
            <4>2. After(es, i)[k] = IF i + k <= n THEN ms[i + k] ELSE rest[(i + k) - n]
                <5> DEFINE j == i + k
                <5>1. After(es, i)[k] = es[j] /\ j \in 1..Len(es)
                    BY <2>2, <4>1
                <5> HIDE DEF j
                <5>2. es[j] = IF j <= n THEN ms[j] ELSE rest[j - n]
                    BY <2>1, <5>1
                <5> QED BY <5>1, <5>2 DEF j
            <4>3. CASE k <= n - i
                <5>1. i + k <= n /\ k \in 1..(n - i)
                    BY <1>1, <4>3
                <5> QED BY <1>3, <3>1, <4>1, <4>2, <4>3, <5>1
            <4>4. CASE ~(k <= n - i)
                <5>1. ~(i + k <= n) /\ (i + k) - n = k - (n - i)
                    BY <1>1, <4>4
                <5> QED BY <3>1, <4>1, <4>2, <4>4, <5>1
            <4> QED BY <4>3, <4>4
        <3>4. After(es, i) = right
            BY <2>2, <3>1, <3>2, <3>3, SeqEqual
        <3> QED BY <3>4 DEF right
    <2>7. Before(ms, i) \o (After(ms, i) \o rest) = (Before(ms, i) \o After(ms, i)) \o rest
        <3> DEFINE left == Before(ms, i)
                   right == After(ms, i)
        <3>1. left \in Seq(Entry) /\ right \in Seq(Entry) /\ rest \in Seq(Entry)
            BY <1>1, <2>4
        <3> HIDE DEF left, right
        <3>2. left \o (right \o rest) = (left \o right) \o rest
            BY <3>1, ConcatAssociative
        <3> QED BY <3>2 DEF left, right
    <2> QED BY <1>4, <2>3, <2>5, <2>6, <2>7
<1>8. FeeOf(new) + ms[i].amount = FeeOf(ms)
    BY <1>1, <1>2, FeeAbout
<1> QED BY <1>5, <1>6, <1>7, <1>8

-----------------------------------------------------------------------------
(* The slots of an old plan: what was collected on them becomes payments.  *)

SlotEntries == {e \in Entry : e.kind = "slot" /\ e.received <= e.amount}
WithMoney == {e \in Entry : Collected(e) > 0}

Held(es) == At(es, {i \in DOMAIN es : Collected(es[i]) > 0})
HeldAt(es) == {i \in DOMAIN es : Collected(es[i]) > 0}

LEMMA CollectedTyped ==
    ASSUME NEW e \in Entry
    PROVE  Collected(e) \in Nat /\ e.amount \in Nat
BY DEF Entry, Collected

LEMMA HeldAppend ==
    ASSUME NEW es \in Seq(Entry), NEW e \in Entry
    PROVE  /\ Held(Append(es, e)) = IF e \in WithMoney THEN Append(Held(es), e) ELSE Held(es)
           /\ HeldAt(Append(es, e)) = IF e \in WithMoney THEN HeldAt(es) \cup {Len(es) + 1} ELSE HeldAt(es)
<1> DEFINE n == Len(es)
           more == Append(es, e)
           S == HeldAt(more)
           T == HeldAt(es)
<1>1. /\ n \in Nat /\ DOMAIN es = 1..n /\ DOMAIN more = 1..(n + 1) /\ more[n + 1] = e
      /\ \A i \in 1..n : more[i] = es[i]
    OBVIOUS
<1> HIDE DEF more
<1>2. (n + 1 \in S <=> e \in WithMoney) /\ (\A i \in 1..n : i \in S <=> i \in T) /\ T \subseteq 1..n /\ S \subseteq 1..(n + 1)
    BY <1>1 DEF HeldAt, WithMoney
<1>3. Held(more) = At(more, S) /\ Held(es) = At(es, T)
    BY DEF Held, HeldAt
<1> HIDE DEF S, T
<1>4. At(es, S) = At(es, T)
    BY <1>2, AtSame
<1>5. At(more, S) = IF n + 1 \in S THEN Append(At(es, S), e) ELSE At(es, S)
    BY AtAppend DEF more
<1>6. S = IF n + 1 \in S THEN T \cup {n + 1} ELSE T
    <2>1. \A i \in 1..(n + 1) : i \in 1..n \/ i = n + 1
        BY <1>1
    <2>2. n + 1 \notin 1..n
        BY <1>1
    <2> HIDE DEF n
    <2>3. \A i : i \in S <=> i \in (IF n + 1 \in S THEN T \cup {n + 1} ELSE T)
        BY <1>2, <2>1, <2>2
    <2> QED BY <2>3
<1> QED BY <1>2, <1>3, <1>4, <1>5, <1>6 DEF S, T, more

LEMMA CollectedFromAppend ==
    ASSUME NEW es \in Seq(Entry), NEW e \in Entry
    PROVE  /\ CollectedFrom(Append(es, e)) = CollectedFrom(es) + Collected(e)
           /\ FeeOf(Append(es, e)) = FeeOf(es) + e.amount
           /\ CollectedFrom(es) \in Nat
<1> DEFINE sums == [i \in 1..Len(es) |-> Collected(es[i])]
           more == Append(es, e)
<1>1. Len(es) \in Nat /\ DOMAIN es = 1..Len(es) /\ DOMAIN more = 1..(Len(es) + 1) /\ more[Len(es) + 1] = e
      /\ more \in Seq(Entry) /\ Len(more) = Len(es) + 1
      /\ \A i \in 1..Len(es) : more[i] = es[i] /\ es[i] \in Entry
    OBVIOUS
<1> HIDE DEF more
<1>2. Collected(e) \in Nat /\ \A i \in 1..Len(es) : Collected(es[i]) \in Nat
    BY <1>1, CollectedTyped
<1>3. sums \in Seq(Nat) /\ Len(sums) = Len(es)
    BY <1>1, <1>2
<1>4. [i \in 1..(Len(es) + 1) |-> Collected(more[i])] = Append(sums, Collected(e))
    <2> DEFINE left == [i \in 1..(Len(es) + 1) |-> Collected(more[i])]
               right == Append(sums, Collected(e))
    <2>1. right \in Seq(Nat) /\ Len(right) = Len(es) + 1 /\ right[Len(es) + 1] = Collected(e)
          /\ \A i \in 1..Len(es) : right[i] = Collected(es[i])
        BY <1>1, <1>2, <1>3
    <2>2. \A i \in 1..(Len(es) + 1) : left[i] = right[i]
        <3>1. \A i \in 1..(Len(es) + 1) : i = Len(es) + 1 \/ i \in 1..Len(es)
            BY <1>1
        <3> HIDE DEF right
        <3> QED BY <1>1, <2>1, <3>1
    <2>3. left \in Seq(Nat) /\ Len(left) = Len(es) + 1
        <3>1. \A i \in 1..(Len(es) + 1) : Collected(more[i]) \in Nat
            <4>1. \A i \in 1..(Len(es) + 1) : i = Len(es) + 1 \/ i \in 1..Len(es)
                BY <1>1
            <4> QED BY <1>1, <1>2, <4>1
        <3> QED BY <1>1, <3>1
    <2> HIDE DEF left, right
    <2>4. left = right
        BY <2>1, <2>2, <2>3, SeqEqual
    <2> QED BY <2>4 DEF left, right
<1>5. CollectedFrom(more) = Total([i \in 1..(Len(es) + 1) |-> Collected(more[i])]) /\ CollectedFrom(es) = Total(sums)
    BY <1>1 DEF CollectedFrom
<1> HIDE DEF sums
<1>6. Total(Append(sums, Collected(e))) = Total(sums) + Collected(e) /\ Total(sums) \in Nat
    BY <1>2, <1>3, TotalAppend, TotalTypes
<1>7. FeeOf(more) = FeeOf(es) + e.amount
    <2>1. more = es \o <<e>> /\ <<e>> \in Seq(Entry)
        BY DEF more
    <2> QED BY <2>1, FeeConcat, FeeOne
<1> QED BY <1>4, <1>5, <1>6, <1>7 DEF more

LEMMA NothingHeld ==
    /\ Held(<<>>) = <<>> /\ HeldAt(<<>>) = {} /\ CollectedFrom(<<>>) = 0
<1>1. [i \in DOMAIN <<>> |-> Collected(<<>>[i])] = <<>>
    OBVIOUS
<1>2. CollectedFrom(<<>>) = 0
    BY <1>1, TotalEmpty DEF CollectedFrom
<1> QED BY <1>2, AtEmpty DEF Held, HeldAt

LEMMA HeldIsCollected ==
    ASSUME NEW es \in Seq(Entry)
    PROVE  /\ Held(es) \in Seq(WithMoney)
           /\ CollectedFrom(Held(es)) = CollectedFrom(es)
           /\ HeldAt(es) \subseteq 1..Len(es) /\ IsFiniteSet(HeldAt(es)) /\ Len(Held(es)) = Cardinality(HeldAt(es))
<1> DEFINE Fine(s) ==
             /\ Held(s) \in Seq(WithMoney)
             /\ CollectedFrom(Held(s)) = CollectedFrom(s)
             /\ HeldAt(s) \subseteq 1..Len(s) /\ IsFiniteSet(HeldAt(s)) /\ Len(Held(s)) = Cardinality(HeldAt(s))
           P == {s \in Seq(Entry) : Fine(s)}
<1>0. WithMoney \subseteq Entry
    BY DEF WithMoney
<1>1. <<>> \in P
    <2>1. <<>> \in Seq(Entry) /\ <<>> \in Seq(WithMoney) /\ Len(<<>>) = 0
        OBVIOUS
    <2>2. Cardinality({}) = 0 /\ IsFiniteSet({})
        BY FS_EmptySet
    <2>3. Fine(<<>>)
        BY <2>1, <2>2, NothingHeld
    <2> QED BY <2>1, <2>3
<1>2. ASSUME NEW s \in P \cap Seq(Entry), NEW e \in Entry PROVE Append(s, e) \in P
    <2> DEFINE more == Append(s, e)
    <2>1. Fine(s)
        OBVIOUS
    <2>2. more \in Seq(Entry) /\ Len(more) = Len(s) + 1 /\ Len(s) \in Nat
        OBVIOUS
    <2>3. CollectedFrom(more) = CollectedFrom(s) + Collected(e) /\ CollectedFrom(s) \in Nat /\ Collected(e) \in Nat
        BY CollectedFromAppend, CollectedTyped
    <2>4. /\ Held(more) = IF e \in WithMoney THEN Append(Held(s), e) ELSE Held(s)
          /\ HeldAt(more) = IF e \in WithMoney THEN HeldAt(s) \cup {Len(s) + 1} ELSE HeldAt(s)
        BY HeldAppend
    <2> HIDE DEF more
    <2>5. CASE e \in WithMoney
        <3>1. Held(more) = Append(Held(s), e) /\ HeldAt(more) = HeldAt(s) \cup {Len(s) + 1}
            BY <2>4, <2>5
        <3>2. Held(s) \in Seq(WithMoney) /\ Held(s) \in Seq(Entry)
            BY <1>0, <2>1, SeqMonotonic
        <3>3. CollectedFrom(Held(more)) = CollectedFrom(Held(s)) + Collected(e)
            BY <3>1, <3>2, CollectedFromAppend
        <3>4. Held(more) \in Seq(WithMoney) /\ Len(Held(more)) = Len(Held(s)) + 1
            BY <2>5, <3>1, <3>2
        <3>5. Len(s) + 1 \notin HeldAt(s) /\ HeldAt(more) \subseteq 1..(Len(s) + 1)
            BY <2>1, <2>2, <3>1
        <3>6. IsFiniteSet(HeldAt(more)) /\ Cardinality(HeldAt(more)) = Cardinality(HeldAt(s)) + 1
            <4> DEFINE x == Len(s) + 1
                       T == HeldAt(s)
            <4>1. x \notin T /\ IsFiniteSet(T) /\ HeldAt(more) = T \cup {x}
                BY <2>1, <3>1, <3>5
            <4> HIDE DEF x, T
            <4>2. IsFiniteSet(T \cup {x}) /\ Cardinality(T \cup {x}) = Cardinality(T) + 1
                BY <4>1, FS_AddElement
            <4> QED BY <4>1, <4>2 DEF T
        <3>7. Fine(more)
            BY <2>1, <2>2, <2>3, <3>3, <3>4, <3>5, <3>6
        <3> QED BY <2>2, <3>7 DEF more
    <2>6. CASE e \notin WithMoney
        <3>1. Held(more) = Held(s) /\ HeldAt(more) = HeldAt(s)
            BY <2>4, <2>6
        <3>2. Collected(e) = 0
            BY <2>3, <2>6 DEF WithMoney
        <3>3. HeldAt(more) \subseteq 1..Len(more)
            BY <2>1, <2>2, <3>1
        <3>4. CollectedFrom(more) = CollectedFrom(s)
            BY <2>3, <3>2
        <3>5. Fine(more)
            BY <2>1, <3>1, <3>3, <3>4
        <3> QED BY <2>2, <3>5 DEF more
    <2> QED BY <2>5, <2>6
<1> HIDE DEF P
<1>3. es \in P
    BY <1>1, <1>2, AppendInduction
<1> QED BY <1>3 DEF P

LEMMA SlotsHoldTheirFee ==
    ASSUME NEW es \in Seq(SlotEntries)
    PROVE  es \in Seq(Entry) /\ CollectedFrom(es) <= FeeOf(es) /\ CollectedFrom(es) \in Nat /\ FeeOf(es) \in Nat
<1> DEFINE Fine(s) == s \in Seq(Entry) /\ CollectedFrom(s) <= FeeOf(s) /\ CollectedFrom(s) \in Nat /\ FeeOf(s) \in Nat
           P == {s \in Seq(SlotEntries) : Fine(s)}
<1>1. <<>> \in P
    <2>1. <<>> \in Seq(Entry) /\ <<>> \in Seq(SlotEntries)
        OBVIOUS
    <2>2. Fine(<<>>)
        BY <2>1, NothingHeld, FeeNone
    <2> QED BY <2>1, <2>2
<1>2. ASSUME NEW s \in P \cap Seq(SlotEntries), NEW e \in SlotEntries PROVE Append(s, e) \in P
    <2> DEFINE more == Append(s, e)
    <2>1. Fine(s) /\ e \in Entry
        BY DEF SlotEntries
    <2>2. more \in Seq(Entry) /\ more \in Seq(SlotEntries)
        BY <2>1
    <2>3. Collected(e) <= e.amount /\ Collected(e) \in Nat /\ e.amount \in Nat
        BY <2>1 DEF SlotEntries, Collected, Entry
    <2>4. CollectedFrom(more) = CollectedFrom(s) + Collected(e) /\ FeeOf(more) = FeeOf(s) + e.amount
        BY <2>1, CollectedFromAppend
    <2> HIDE DEF more
    <2>5. Fine(more)
        BY <2>1, <2>2, <2>3, <2>4
    <2> QED BY <2>2, <2>5 DEF more
<1> HIDE DEF P
<1>3. es \in P
    BY <1>1, <1>2, AppendInduction
<1> QED BY <1>3 DEF P

-----------------------------------------------------------------------------
(* Every collection as a ledger. *)

ShapeOf(priced, es) ==
    [plan |-> priced,
     token |-> \E i \in DOMAIN es : es[i].kind = "token",
     payments |-> Cardinality({i \in DOMAIN es : \/ es[i].kind = "payment"
                                                 \/ es[i].kind = "slot" /\ Collected(es[i]) > 0}),
     due |-> \E i \in DOMAIN es : \/ es[i].kind = "balance"
                                  \/ es[i].kind = "slot" /\ CollectedFrom(es) < FeeOf(es)]

HasToken(ms) == Len(ms) > 0 /\ ms[1].kind = "token"

LEMMA ShapeOfLedger ==
    ASSUME NEW ms, NEW rest, Ledger(ms, rest), NEW priced
    PROVE  ShapeOf(priced, ms \o rest) =
               [plan |-> priced, token |-> HasToken(ms),
                payments |-> IF HasToken(ms) THEN Len(ms) - 1 ELSE Len(ms), due |-> rest # <<>>]
<1> DEFINE es == ms \o rest
           k == Len(ms)
           n == Len(ms) + Len(rest)
           t == IF HasToken(ms) THEN 1 ELSE 0
<1>1. /\ k \in Nat /\ n \in {k, k + 1} /\ es \in Seq(Entry) /\ DOMAIN es = 1..n /\ rest \in Seq(Entry)
      /\ n = k + 1 <=> rest # <<>>
    <2>1. Len(rest) = 0 <=> rest = <<>>
        BY Places
    <2> QED BY <2>1, Places
<1>2. \A i \in 1..k : es[i] = ms[i] /\ ms[i] \in MoneyEntries
    BY Places
<1>3. \A i \in (k + 1)..n : i = k + 1 /\ es[i] \in BalanceEntries
    BY Places
<1>4. TokenFirst(ms) /\ DOMAIN ms = 1..k
    BY DEF Ledger
<1> HIDE DEF es, n
<1>5. t \in {0, 1} /\ t <= k /\ (HasToken(ms) <=> t = 1)
    BY <1>1 DEF HasToken
<1>6. \A i \in 1..n : i \in 1..k \/ i \in (k + 1)..n
    BY <1>1
<1> HIDE DEF k
<1>7. \A i \in 1..k : (es[i].kind = "token" <=> i = 1 /\ t = 1) /\ es[i].kind \in {"token", "payment"}
    BY <1>1, <1>2, <1>4, <1>5 DEF HasToken, TokenFirst, MoneyEntries, ReceivedKinds, k
<1>8. \A i \in (k + 1)..n : es[i].kind = "balance"
    BY <1>3 DEF BalanceEntries
<1> HIDE DEF t
<1>9. (\E i \in DOMAIN es : es[i].kind = "token") <=> HasToken(ms)
    BY <1>1, <1>5, <1>6, <1>7, <1>8
<1>10. {i \in DOMAIN es : es[i].kind = "payment" \/ (es[i].kind = "slot" /\ Collected(es[i]) > 0)} = (t + 1)..k
    <2> DEFINE S == {i \in DOMAIN es : es[i].kind = "payment" \/ (es[i].kind = "slot" /\ Collected(es[i]) > 0)}
    <2>1. \A i \in 1..n : i \in S <=> es[i].kind = "payment"
        BY <1>1, <1>6, <1>7, <1>8
    <2>2. \A i \in 1..n : es[i].kind = "payment" <=> i \in (t + 1)..k
        BY <1>1, <1>5, <1>6, <1>7, <1>8
    <2>3. S \subseteq 1..n /\ (t + 1)..k \subseteq 1..n
        BY <1>1, <1>5
    <2> HIDE DEF S
    <2>4. S = (t + 1)..k
        BY <2>1, <2>2, <2>3
    <2> QED BY <2>4 DEF S
<1>11. Cardinality((t + 1)..k) = k - t
    <2>1. t + 1 \in Int /\ k \in Int
        BY <1>1, <1>5
    <2>2. Cardinality((t + 1)..k) = IF t + 1 > k THEN 0 ELSE k - (t + 1) + 1
        BY <2>1, FS_Interval
    <2> QED BY <1>1, <1>5, <2>2
<1>12. (\E i \in DOMAIN es : es[i].kind = "balance" \/ (es[i].kind = "slot" /\ CollectedFrom(es) < FeeOf(es))) <=> rest # <<>>
    <2>1. \A i \in 1..k : es[i].kind \notin {"balance", "slot"}
        BY <1>7
    <2>2. n = k + 1 => k + 1 \in (k + 1)..n /\ k + 1 \in 1..n
        BY <1>1
    <2>3. n = k => \A i \in 1..n : i \in 1..k
        BY <1>1
    <2>4. \A i \in 1..n : i \notin 1..k => n = k + 1
        BY <1>1
    <2> QED BY <1>1, <1>6, <1>8, <2>1, <2>2, <2>3, <2>4
<1>13. (IF HasToken(ms) THEN k - 1 ELSE k) = k - t
    BY <1>1, <1>5
<1>14. HasToken(ms) \in BOOLEAN
    BY DEF HasToken
<1> QED BY <1>9, <1>10, <1>11, <1>12, <1>13, <1>14 DEF ShapeOf, es, k

LEMMA PromiseIsADay ==
    ASSUME NEW es \in Seq(Entry)
    PROVE  EarliestPromise(es) \in Days
<1> DEFINE promised == {es[i].date : i \in {j \in DOMAIN es : ~es[j].paid /\ es[j].date # NoDate}}
<1>1. promised \subseteq Days
    <2>1. \A i \in DOMAIN es : es[i] \in Entry
        OBVIOUS
    <2> QED BY <2>1 DEF Entry, Days
<1>2. promised \subseteq Nat
    BY <1>1, DatesAssumption DEF Days, NoDate
<1>3. CASE promised = {}
    BY <1>3 DEF EarliestPromise, Days
<1>4. CASE promised # {}
    <2> DEFINE less == OpToRel(<, Nat)
    <2>1. \A x, y \in Nat : y < x => <<y, x>> \in less
        BY DEF OpToRel
    <2>2. IsWellFoundedOn(less, Nat)
        BY NatLessThanWellFounded
    <2>3. EarliestPromise(es) = CHOOSE d \in promised : \A other \in promised : d <= other
        BY <1>4 DEF EarliestPromise
    <2> HIDE DEF less, promised
    <2>4. PICK x \in promised : \A y \in promised : <<y, x>> \notin less
        BY <1>2, <1>4, <2>2, WFMin
    <2>5. \A y \in promised : x <= y
        <3> TAKE y \in promised
        <3>1. x \in Nat /\ y \in Nat /\ <<y, x>> \notin less
            BY <1>2, <2>4
        <3>2. ~(y < x)
            BY <2>1, <3>1
        <3> QED BY <3>1, <3>2
    <2>6. \E d \in promised : \A other \in promised : d <= other
        BY <2>5
    <2>7. EarliestPromise(es) \in promised
        BY <2>3, <2>6
    <2> QED BY <1>1, <2>7
<1> QED BY <1>3, <1>4

Positive(rest) == rest # <<>> => rest[1].amount > 0

(* es holds the money ms, and rest is due. *)
Holds(es, ms, rest) ==
    /\ Ledger(ms, rest) /\ Positive(rest)
    /\ ToLedger(es) = ms \o rest
    /\ FeeOf(ms \o rest) = FeeOf(es)
    /\ MoneyOnRecord(es) = AmountsOf(ms)
    /\ \A priced \in BOOLEAN : ShapeOf(priced, es) = ShapeOf(priced, ms \o rest)
    /\ HasCollected(es) <=> ms # <<>>
    /\ ms # <<>> => HasRecordedPayment(es)

Opened(es) == \E ms \in Seq(MoneyEntries), rest \in Seq(BalanceEntries) : Ledger(ms, rest) /\ Positive(rest) /\ es = ms \o rest

Slotted(es) == es \in Seq(SlotEntries) /\ es # <<>>

LEMMA LedgerHolds ==
    ASSUME NEW ms, NEW rest, Ledger(ms, rest), Positive(rest)
    PROVE  Holds(ms \o rest, ms, rest)
<1> DEFINE es == ms \o rest
           k == Len(ms)
           n == Len(ms) + Len(rest)
<1>1. /\ k \in Nat /\ Len(rest) \in Nat /\ DOMAIN es = 1..n /\ ms \in Seq(Entry)
      /\ \A i \in 1..k : es[i] = ms[i] /\ ms[i] \in MoneyEntries
      /\ \A i \in (k + 1)..n : i = k + 1 /\ es[i] \in BalanceEntries
    BY Places
<1>2. At(es, {i \in DOMAIN es : es[i].kind # "balance" /\ Collected(es[i]) > 0}) = ms
    BY Picked
<1>3. DOMAIN ms = 1..k /\ (ms # <<>> <=> k > 0)
    BY <1>1
<1> HIDE DEF es
<1>4. MoneyOnRecord(es) = AmountsOf(ms)
    <2>1. MoneyOnRecord(es) = [i \in DOMAIN ms |-> Collected(ms[i])]
        BY <1>2 DEF MoneyOnRecord
    <2>2. \A i \in DOMAIN ms : Collected(ms[i]) = ms[i].amount
        BY <1>1, <1>3, CollectedOf
    <2> QED BY <2>1, <2>2 DEF AmountsOf
<1> HIDE DEF k, n
<1>5. \A i \in 1..n : i \in 1..k \/ i \in (k + 1)..n
    BY <1>1 DEF n, k
<1>6. \A i \in 1..n : es[i].kind # "slot"
    BY <1>1, <1>5 DEF MoneyEntries, BalanceEntries, ReceivedKinds
<1>7. ToLedger(es) = es
    BY <1>1, <1>6 DEF ToLedger
<1>8. 1..k \subseteq 1..n
    BY <1>1 DEF n, k
<1>9. HasCollected(es) <=> ms # <<>>
    <2>1. ASSUME NEW i \in 1..n, Collected(es[i]) > 0 PROVE k > 0
        <3>1. i \in 1..k
            BY <1>1, <1>5, <2>1, CollectedOf
        <3> QED BY <1>1, <3>1
    <2>2. ASSUME k > 0 PROVE Collected(es[1]) > 0 /\ 1 \in 1..n
        <3>1. 1 \in 1..k
            BY <1>1, <2>2
        <3> QED BY <1>1, <1>8, <3>1, CollectedOf
    <2> QED BY <1>1, <1>3, <2>1, <2>2 DEF HasCollected
<1>10. ms # <<>> => HasRecordedPayment(es)
    <2>1. ASSUME k > 0 PROVE es[1].paid /\ 1 \in 1..n
        <3>1. 1 \in 1..k
            BY <1>1, <2>1
        <3> QED BY <1>1, <1>8, <3>1 DEF MoneyEntries
    <2> QED BY <1>1, <1>3, <2>1 DEF HasRecordedPayment
<1> QED BY <1>4, <1>7, <1>9, <1>10 DEF Holds, es

LEMMA SlotsHold ==
    ASSUME NEW es, Slotted(es)
    PROVE  \E ms \in Seq(MoneyEntries), rest \in Seq(BalanceEntries) : Holds(es, ms, rest)
<1> DEFINE held == Held(es)
           ms == [i \in DOMAIN held |-> Money("payment", Collected(held[i]))]
           day == EarliestPromise(es)
           fee == FeeOf(es)
           nothing == BalanceDue(0, day)
<1>1. es \in Seq(SlotEntries) /\ es # <<>> /\ es \in Seq(Entry) /\ CollectedFrom(es) <= fee /\ CollectedFrom(es) \in Nat /\ fee \in Nat
    BY SlotsHoldTheirFee DEF Slotted
<1>2. /\ held \in Seq(WithMoney) /\ CollectedFrom(held) = CollectedFrom(es)
      /\ Len(held) = Cardinality(HeldAt(es)) /\ IsFiniteSet(HeldAt(es)) /\ HeldAt(es) \subseteq 1..Len(es)
    BY <1>1, HeldIsCollected
<1>3. \A i \in DOMAIN es : es[i].kind = "slot" /\ es[i] \in Entry
    <2>1. \A i \in DOMAIN es : es[i] \in SlotEntries
        BY <1>1
    <2> QED BY <2>1 DEF SlotEntries
<1>4. DOMAIN es = 1..Len(es) /\ 1 \in DOMAIN es /\ Len(es) \in Nat
    BY <1>1
<1>5. day \in Days
    BY <1>1, PromiseIsADay
<1>6. nothing \in BalanceEntries
    BY <1>5 DEF BalanceDue, BalanceEntries, Entry, Days
<1>7. \A i \in DOMAIN held : Collected(held[i]) \in Nat /\ Collected(held[i]) > 0
    <2>1. \A i \in DOMAIN held : held[i] \in WithMoney
        BY <1>2
    <2> QED BY <2>1, CollectedTyped DEF WithMoney
<1>8. ToLedger(es) = Rebalance(Append(ms, nothing), fee)
    <2>1. ~(\A i \in DOMAIN es : es[i].kind # "slot")
        BY <1>3, <1>4
    <2> QED BY <2>1 DEF ToLedger, Held
<1>9. /\ ms \in Seq(MoneyEntries) /\ Len(ms) = Len(held) /\ DOMAIN ms = DOMAIN held /\ Len(held) \in Nat
      /\ \A i \in DOMAIN ms : ms[i].kind = "payment" /\ ms[i].amount = Collected(held[i])
    <2>1. \A i \in DOMAIN held : LET m == Money("payment", Collected(held[i])) IN
              m \in MoneyEntries /\ m.kind = "payment" /\ m.amount = Collected(held[i])
        BY <1>7, MoneyTyped DEF ReceivedKinds
    <2>2. DOMAIN held = 1..Len(held) /\ Len(held) \in Nat
        BY <1>2
    <2>3. ms = [i \in 1..Len(held) |-> Money("payment", Collected(held[i]))]
        BY <2>2
    <2>4. \A i \in 1..Len(held) : Money("payment", Collected(held[i])) \in MoneyEntries
        BY <2>1, <2>2
    <2> HIDE DEF held
    <2>5. ms \in Seq(MoneyEntries) /\ Len(ms) = Len(held)
        BY <2>2, <2>3, <2>4
    <2> QED BY <2>1, <2>2, <2>5
<1>10. FeeOf(ms) = CollectedFrom(es)
    <2>1. [i \in DOMAIN ms |-> ms[i].amount] = [i \in DOMAIN held |-> Collected(held[i])]
        <3> HIDE DEF ms, held
        <3> QED BY <1>9
    <2> QED BY <1>2, <2>1 DEF FeeOf, CollectedFrom
<1>11. MoneyOnRecord(es) = AmountsOf(ms)
    <2>1. {i \in DOMAIN es : es[i].kind # "balance" /\ Collected(es[i]) > 0} = {i \in DOMAIN es : Collected(es[i]) > 0}
        BY <1>3
    <2>2. MoneyOnRecord(es) = [i \in DOMAIN held |-> Collected(held[i])]
        BY <2>1 DEF MoneyOnRecord, Held
    <2>3. AmountsOf(ms) = [i \in DOMAIN held |-> Collected(held[i])]
        <3> HIDE DEF ms, held
        <3> QED BY <1>9 DEF AmountsOf
    <2> QED BY <2>2, <2>3
<1> HIDE DEF ms, held, nothing, day, fee
<1>12. Ledger(ms, <<nothing>>) /\ Ledger(ms, <<>>) /\ <<nothing>> # <<>> /\ <<nothing>>[1] = nothing
    <2>1. TokenFirst(ms)
        BY <1>9 DEF TokenFirst
    <2>2. <<nothing>> \in Seq(BalanceEntries) /\ Len(<<nothing>>) = 1 /\ <<>> \in Seq(BalanceEntries) /\ Len(<<>>) = 0
        BY <1>6
    <2> QED BY <1>9, <2>1, <2>2 DEF Ledger
<1> DEFINE rest == Due(fee, ms, day)
<1>13. ToLedger(es) = ms \o rest
    <2>1. Append(ms, nothing) = ms \o <<nothing>>
        BY <1>9
    <2>2. BalanceDate(ms \o <<nothing>>) = day
        <3>1. BalanceDate(ms \o <<nothing>>) = nothing.date
            BY <1>12, DateOfLedger
        <3> QED BY <3>1 DEF nothing, BalanceDue
    <2>3. Rebalance(ms \o <<nothing>>, fee) = ms \o Due(fee, ms, BalanceDate(ms \o <<nothing>>))
        BY <1>1, <1>12, RebalancedLedger
    <2> QED BY <1>8, <2>1, <2>2, <2>3
<1>14. /\ Ledger(ms, rest) /\ Positive(rest) /\ FeeOf(ms \o rest) = fee
       /\ rest = <<>> <=> ~(CollectedFrom(es) < fee)
    <2>1. fee \in Nat /\ day \in Days /\ Ledger(ms, <<>>)
        BY <1>1, <1>5, <1>12 DEF fee
    <2>2. /\ Ledger(ms, rest)
          /\ FeeOf(ms \o rest) = IF FeeOf(ms) < fee THEN fee ELSE FeeOf(ms)
          /\ rest = <<>> <=> ~(FeeOf(ms) < fee)
          /\ rest # <<>> => rest[1].amount > 0
        BY <2>1, DueLedger
    <2> HIDE DEF rest
    <2>3. CollectedFrom(es) <= fee /\ CollectedFrom(es) \in Nat
        BY <1>1 DEF fee
    <2> QED BY <1>10, <2>1, <2>2, <2>3 DEF Positive
<1> HIDE DEF rest
<1>15. HasCollected(es) <=> ms # <<>>
    <2>1. HasCollected(es) <=> HeldAt(es) # {}
        BY DEF HasCollected, HeldAt
    <2>2. HeldAt(es) = {} <=> Cardinality(HeldAt(es)) = 0
        BY <1>2, FS_EmptySet
    <2>3. ms = <<>> <=> Len(ms) = 0
        BY <1>9
    <2> QED BY <1>2, <1>9, <2>1, <2>2, <2>3 DEF held
<1>16. ms # <<>> => HasRecordedPayment(es)
    <2>1. HasCollected(es) => HasRecordedPayment(es)
        BY <1>3 DEF HasCollected, HasRecordedPayment, Collected
    <2> QED BY <1>15, <2>1
<1>17. ASSUME NEW priced \in BOOLEAN PROVE ShapeOf(priced, es) = ShapeOf(priced, ms \o rest)
    <2>1. ~HasToken(ms)
        BY <1>9 DEF HasToken
    <2>2. ShapeOf(priced, ms \o rest) = [plan |-> priced, token |-> FALSE, payments |-> Len(ms), due |-> rest # <<>>]
        BY <1>14, <2>1, ShapeOfLedger
    <2>3. (\E i \in DOMAIN es : es[i].kind = "token") = FALSE
        BY <1>3
    <2>4. {i \in DOMAIN es : es[i].kind = "payment" \/ (es[i].kind = "slot" /\ Collected(es[i]) > 0)} = HeldAt(es)
        BY <1>3 DEF HeldAt
    <2>5. (\E i \in DOMAIN es : es[i].kind = "balance" \/ (es[i].kind = "slot" /\ CollectedFrom(es) < FeeOf(es)))
          = (rest # <<>>)
        BY <1>3, <1>4, <1>14 DEF fee
    <2>6. Cardinality(HeldAt(es)) = Len(ms)
        BY <1>2, <1>9 DEF held
    <2> QED BY <2>2, <2>3, <2>4, <2>5, <2>6 DEF ShapeOf
<1>18. Holds(es, ms, rest)
    BY <1>11, <1>13, <1>14, <1>15, <1>16, <1>17 DEF Holds, fee
<1> QED BY <1>14, <1>18 DEF Ledger

LEMMA AsLedger ==
    ASSUME NEW es, Opened(es) \/ Slotted(es)
    PROVE  \E ms \in Seq(MoneyEntries), rest \in Seq(BalanceEntries) : Holds(es, ms, rest)
BY LedgerHolds, SlotsHold DEF Opened

-----------------------------------------------------------------------------
(* What a request leaves: the money it keeps, and what is due of a fee.    *)

LEMMA HoldsOpened ==
    ASSUME NEW es, NEW ms, NEW rest, Ledger(ms, rest), Positive(rest), es = ms \o rest
    PROVE  Opened(es) /\ Holds(es, ms, rest) /\ es \in Seq(Entry)
<1>1. ms \in Seq(MoneyEntries) /\ rest \in Seq(BalanceEntries)
    BY DEF Ledger
<1> QED BY <1>1, LedgerHolds, Places DEF Opened

LEMMA RebalancedHolds ==
    ASSUME NEW ms, Ledger(ms, <<>>), NEW es, Kept(es) = ms, BalanceDate(es) \in Days, NEW fee \in Nat
    PROVE  LET new == Rebalance(es, fee)
               rest == Due(fee, ms, BalanceDate(es))
           IN  /\ new = ms \o rest /\ Ledger(ms, rest) /\ Positive(rest)
               /\ rest = <<>> <=> ~(FeeOf(ms) < fee)
               /\ FeeOf(ms) \in Nat /\ FeeOf(new) = IF FeeOf(ms) < fee THEN fee ELSE FeeOf(ms)
               /\ OfKind(new, "balance") = rest
               /\ BalanceDate(new) = IF rest = <<>> THEN NoDate ELSE BalanceDate(es)
<1> DEFINE new == Rebalance(es, fee)
           date == BalanceDate(es)
           rest == Due(fee, ms, date)
<1>1. new = ms \o rest
    BY Rebalanced
<1>2. date \in Days
    OBVIOUS
<1> HIDE DEF new, date
<1>3. /\ Ledger(ms, rest) /\ FeeOf(ms) \in Nat
      /\ FeeOf(ms \o rest) = IF FeeOf(ms) < fee THEN fee ELSE FeeOf(ms)
      /\ rest = <<>> <=> ~(FeeOf(ms) < fee)
      /\ rest # <<>> => rest[1].amount > 0 /\ rest[1].date = date
    BY <1>2, DueLedger
<1> HIDE DEF rest
<1>4. OfKind(ms \o rest, "balance") = rest
    BY <1>3, Picked
<1>5. BalanceDate(ms \o rest) = IF rest = <<>> THEN NoDate ELSE rest[1].date
    BY <1>3, DateOfLedger
<1> QED BY <1>1, <1>3, <1>4, <1>5 DEF new, date, rest, Positive

(* The balance promised for another day. *)
DatedAs(es, day) == [es EXCEPT ![Len(es)].date = day]
Later(rest, day) == <<[rest[1] EXCEPT !.date = day]>>

LEMMA Dated ==
    ASSUME NEW ms, NEW rest, Ledger(ms, rest), Positive(rest), rest # <<>>, NEW day \in Days
    PROVE  /\ DatedAs(ms \o rest, day) = ms \o Later(rest, day)
           /\ Ledger(ms, Later(rest, day)) /\ Positive(Later(rest, day)) /\ Later(rest, day) # <<>>
           /\ FeeOf(DatedAs(ms \o rest, day)) = FeeOf(ms \o rest)
<1> DEFINE es == ms \o rest
           last == Len(es)
           b == [rest[1] EXCEPT !.date = day]
           later == <<b>>
           new == [es EXCEPT ![last].date = day]
<1>1. rest \in Seq(BalanceEntries) /\ Len(rest) = 1 /\ rest[1] \in BalanceEntries /\ rest[1].amount > 0
    <2>1. rest \in Seq(BalanceEntries) /\ Len(rest) \in {0, 1}
        BY Places DEF Ledger
    <2>2. Len(rest) = 1
        BY <2>1
    <2> QED BY <2>1, <2>2 DEF Positive
<1>2. b \in BalanceEntries /\ b \in Entry /\ b.amount = rest[1].amount
    BY <1>1 DEF BalanceEntries, Entry, Days
<1>3. /\ es \in Seq(Entry) /\ ms \in Seq(Entry) /\ rest \in Seq(Entry) /\ Len(ms) \in Nat /\ last = Len(ms) + 1
      /\ \A i \in 1..Len(ms) : es[i] = ms[i]
      /\ es[Len(ms) + 1] = rest[1]
    <2>1. Len(ms) + 1 \in (Len(ms) + 1)..(Len(ms) + Len(rest)) /\ Len(ms) \in Nat
        BY <1>1, Places
    <2> QED BY <1>1, <2>1, Places
<1>4. later \in Seq(BalanceEntries) /\ later \in Seq(Entry) /\ Len(later) = 1 /\ later[1] = b /\ later # <<>>
    <2> HIDE DEF b
    <2> QED BY <1>2
<1>5. Ledger(ms, later) /\ Positive(later)
    <2> HIDE DEF b
    <2> QED BY <1>1, <1>2, <1>4 DEF Ledger, Positive
<1>6. new = With(es, last, b)
    <2>1. es[last] = rest[1]
        BY <1>3
    <2> QED BY <2>1 DEF With
<1> HIDE DEF new, b, es
<1>7. With(es, last, b) = ms \o later
    <2> DEFINE left == With(es, last, b)
               right == ms \o later
    <2>1. left \in Seq(Entry) /\ Len(left) = last /\ \A i \in 1..last : left[i] = IF i = last THEN b ELSE es[i]
        <3>1. last \in 1..Len(es)
            BY <1>3
        <3> QED BY <1>2, <1>3, <3>1, ExceptSeq DEF With
    <2>2. right \in Seq(Entry) /\ Len(right) = Len(ms) + 1
          /\ \A i \in 1..(Len(ms) + 1) : right[i] = IF i <= Len(ms) THEN ms[i] ELSE later[i - Len(ms)]
        BY <1>3, <1>4, ConcatProperties
    <2> HIDE DEF left, right, last
    <2>3. ASSUME NEW i \in 1..last PROVE left[i] = right[i]
        <3>1. CASE i <= Len(ms)
            <4>1. i \in 1..Len(ms) /\ i # last
                BY <1>3, <3>1
            <4> QED BY <1>3, <2>1, <2>2, <3>1, <4>1
        <3>2. CASE ~(i <= Len(ms))
            <4>1. i = last /\ i - Len(ms) = 1
                BY <1>3, <3>2
            <4> QED BY <1>3, <1>4, <2>1, <2>2, <3>2, <4>1
        <3> QED BY <3>1, <3>2
    <2>4. left = right
        BY <1>3, <2>1, <2>2, <2>3, SeqEqual
    <2> QED BY <2>4 DEF left, right
<1>8. FeeOf(ms \o later) = FeeOf(ms \o rest)
    <2>1. rest = <<rest[1]>> /\ rest[1] \in Entry
        BY <1>1, CollectedOf
    <2>2. FeeOf(rest) = rest[1].amount /\ FeeOf(later) = b.amount
        BY <1>2, <2>1, FeeOne
    <2> HIDE DEF later
    <2>3. FeeOf(ms \o later) = FeeOf(ms) + FeeOf(later)
        BY <1>3, <1>4, FeeConcat
    <2>4. FeeOf(ms \o rest) = FeeOf(ms) + FeeOf(rest)
        BY <1>3, FeeConcat
    <2> QED BY <1>2, <2>2, <2>3, <2>4
<1>9. DatedAs(ms \o rest, day) = new /\ Later(rest, day) = later
    BY DEF DatedAs, Later, new, b, es
<1> QED BY <1>4, <1>5, <1>6, <1>7, <1>8, <1>9 DEF es

-----------------------------------------------------------------------------
(* A shape, and what a change makes of it. *)

Shaped(p, t, n, w) == [plan |-> p, token |-> t, payments |-> n, due |-> w]

WithDue(c, b) == [c EXCEPT !.due = b]

LEMMA DueChanged ==
    ASSUME NEW c, NEW b, NEW p, NEW t, NEW n, NEW w, c = Shaped(p, t, n, w)
    PROVE  WithDue(c, b) = Shaped(p, t, n, b)
BY DEF Shaped, WithDue

PlanAndDue(c, v, b) == [c EXCEPT !.plan = v, !.due = b]

LEMMA PlanAndDueChanged ==
    ASSUME NEW c, NEW v, NEW b, NEW p, NEW t, NEW n, NEW w, c = Shaped(p, t, n, w)
    PROVE  PlanAndDue(c, v, b) = Shaped(v, t, n, b)
<1>1. PICK mid : mid = [c EXCEPT !.plan = v]
    OBVIOUS
<1>2. PlanAndDue(c, v, b) = WithDue(mid, b)
    BY <1>1 DEF PlanAndDue, WithDue
<1>3. mid = Shaped(v, t, n, w)
    BY <1>1 DEF Shaped
<1> QED BY <1>2, <1>3, DueChanged

TokenAndDue(c, v, b) == [c EXCEPT !.token = v, !.due = b]

LEMMA TokenAndDueChanged ==
    ASSUME NEW c, NEW v, NEW b, NEW p, NEW t, NEW n, NEW w, c = Shaped(p, t, n, w)
    PROVE  TokenAndDue(c, v, b) = Shaped(p, v, n, b)
<1>1. PICK mid : mid = [c EXCEPT !.token = v]
    OBVIOUS
<1>2. TokenAndDue(c, v, b) = WithDue(mid, b)
    BY <1>1 DEF TokenAndDue, WithDue
<1>3. mid = Shaped(p, v, n, w)
    BY <1>1 DEF Shaped
<1> QED BY <1>2, <1>3, DueChanged

PaymentsAndDue(c, v, b) == [c EXCEPT !.payments = v, !.due = b]

LEMMA PaymentsAndDueChanged ==
    ASSUME NEW c, NEW v, NEW b, NEW p, NEW t, NEW n, NEW w, c = Shaped(p, t, n, w)
    PROVE  PaymentsAndDue(c, v, b) = Shaped(p, t, v, b)
<1>1. PICK mid : mid = [c EXCEPT !.payments = v]
    OBVIOUS
<1>2. PaymentsAndDue(c, v, b) = WithDue(mid, b)
    BY <1>1 DEF PaymentsAndDue, WithDue
<1>3. mid = Shaped(p, t, v, w)
    BY <1>1 DEF Shaped
<1> QED BY <1>2, <1>3, DueChanged

-----------------------------------------------------------------------------
(* What one request makes of a collection es, amounts and shape. *)

Payments(ms) == IF HasToken(ms) THEN Len(ms) - 1 ELSE Len(ms)

LEMMA ShapeHeld ==
    ASSUME NEW es, NEW ms, NEW rest, Holds(es, ms, rest), NEW priced \in BOOLEAN
    PROVE  LET c == ShapeOf(priced, es)
           IN  /\ c = [plan |-> priced, token |-> HasToken(ms),
                       payments |-> IF HasToken(ms) THEN Len(ms) - 1 ELSE Len(ms), due |-> rest # <<>>]
               /\ HasToken(ms) \in BOOLEAN /\ Len(ms) \in Nat /\ (HasToken(ms) => Len(ms) > 0)
               /\ Collection!HasMoney(c) <=> ms # <<>>
               /\ c = Shaped(priced, HasToken(ms), Payments(ms), rest # <<>>)
<1>1. Ledger(ms, rest) /\ ShapeOf(priced, es) = ShapeOf(priced, ms \o rest)
    BY DEF Holds
<1>2. ShapeOf(priced, ms \o rest) =
          [plan |-> priced, token |-> HasToken(ms),
           payments |-> IF HasToken(ms) THEN Len(ms) - 1 ELSE Len(ms), due |-> rest # <<>>]
    BY <1>1, ShapeOfLedger
<1>3. Len(ms) \in Nat /\ ms \in Seq(Entry)
    BY <1>1, Places
<1>4. HasToken(ms) \in BOOLEAN /\ (HasToken(ms) => Len(ms) > 0)
    BY DEF HasToken
<1>5. ms # <<>> <=> Len(ms) > 0
    BY <1>3
<1>6. HasToken(ms) \/ (IF HasToken(ms) THEN Len(ms) - 1 ELSE Len(ms)) > 0 <=> ms # <<>>
    BY <1>3, <1>4, <1>5
<1> QED BY <1>1, <1>2, <1>3, <1>4, <1>6 DEF Collection!HasMoney, Shaped, Payments

(* Priced anew, the collection keeps its money and its promise. *)
LEMMA PricedAnew ==
    ASSUME NEW es, Opened(es) \/ Slotted(es), NEW fee \in Nat, fee > 0, NEW priced \in BOOLEAN
    PROVE  LET new == Rebalance(ToLedger(es), fee)
           IN  /\ Opened(new) /\ FeeOf(new) >= fee
               /\ MoneyOnRecord(new) = MoneyOnRecord(es)
               /\ OfKind(new, "balance") = <<>> \/ BalanceDate(new) = BalanceDate(ToLedger(es))
               /\ ShapeOf(TRUE, new) \in Collection!Priced(ShapeOf(priced, es))
<1>1. PICK ms \in Seq(MoneyEntries), rest \in Seq(BalanceEntries) : Holds(es, ms, rest)
    BY AsLedger
<1> DEFINE ledger == ToLedger(es)
           new == Rebalance(ledger, fee)
           due == Due(fee, ms, BalanceDate(ledger))
<1>2. Ledger(ms, rest) /\ ledger = ms \o rest /\ MoneyOnRecord(es) = AmountsOf(ms)
    BY <1>1 DEF Holds
<1>3. Ledger(ms, <<>>) /\ Kept(ledger) = ms /\ BalanceDate(ledger) \in Days
    BY <1>2, MoneyAlone, Picked, DateOfLedger
<1> HIDE DEF ledger
<1>4. /\ new = ms \o due /\ Ledger(ms, due) /\ Positive(due)
      /\ due = <<>> <=> ~(FeeOf(ms) < fee)
      /\ FeeOf(ms) \in Nat /\ FeeOf(new) = (IF FeeOf(ms) < fee THEN fee ELSE FeeOf(ms))
      /\ OfKind(new, "balance") = due
      /\ BalanceDate(new) = IF due = <<>> THEN NoDate ELSE BalanceDate(ledger)
    BY <1>3, RebalancedHolds
<1> HIDE DEF new, due
<1>5. Opened(new) /\ Holds(new, ms, due)
    BY <1>4, HoldsOpened
<1>6. MoneyOnRecord(new) = MoneyOnRecord(es)
    BY <1>2, <1>5 DEF Holds
<1>7. ms = <<>> => due # <<>>
    BY <1>4, FeeNone
<1>8. ShapeOf(TRUE, new) \in Collection!Priced(ShapeOf(priced, es))
    <2> DEFINE c == ShapeOf(priced, es)
               d == ShapeOf(TRUE, new)
               is == due # <<>>
    <2>1. c = Shaped(priced, HasToken(ms), Payments(ms), rest # <<>>) /\ (Collection!HasMoney(c) <=> ms # <<>>)
        BY <1>1, ShapeHeld
    <2>2. d = Shaped(TRUE, HasToken(ms), Payments(ms), is) /\ d.due = is /\ is \in BOOLEAN
        <3>1. d = Shaped(TRUE, HasToken(ms), Payments(ms), is)
            BY <1>5, ShapeHeld
        <3> HIDE DEF d
        <3>2. d.due = is
            BY <3>1 DEF Shaped
        <3> QED BY <3>1, <3>2
    <2>3. Collection!HasMoney(c) \/ is
        BY <1>7, <2>1
    <2> HIDE DEF c, d, is
    <2>4. d = PlanAndDue(c, TRUE, is)
        <3> DEFINE token == HasToken(ms)
                   payments == Payments(ms)
                   was == rest # <<>>
        <3>1. c = Shaped(priced, token, payments, was)
            BY <2>1
        <3> HIDE DEF token, payments, was
        <3>2. \A v : PlanAndDue(c, v, is) = Shaped(v, token, payments, is)
            BY <3>1, PlanAndDueChanged
        <3>3. PlanAndDue(c, TRUE, is) = Shaped(TRUE, token, payments, is)
            BY <3>2
        <3> QED BY <2>2, <3>3 DEF token, payments
    <2>5. d \in Collection!Priced(c)
        BY <2>2, <2>3, <2>4 DEF Collection!Priced, PlanAndDue
    <2> QED BY <2>5 DEF c, d
<1>9. FeeOf(new) >= fee
    BY <1>4
<1> QED BY <1>4, <1>5, <1>6, <1>8, <1>9 DEF new, ledger

(* An opening collection is all due. *)
LEMMA OpensAllDue ==
    ASSUME NEW fee \in Nat, fee > 0
    PROVE  LET new == OpeningLedger(fee)
           IN  /\ Opened(new) /\ FeeOf(new) = fee /\ MoneyOnRecord(new) = <<>>
               /\ ShapeOf(TRUE, new) = [Collection!NoCollection EXCEPT !.plan = TRUE, !.due = TRUE]
<1> DEFINE due == Due(fee, <<>>, NoDate)
           new == OpeningLedger(fee)
<1>1. Ledger(<<>>, <<>>) /\ FeeOf(<<>>) = 0 /\ new = <<>> \o due /\ NoDate \in Days
    BY NothingKept DEF Days
<1>2. /\ Ledger(<<>>, due) /\ FeeOf(<<>> \o due) = fee /\ due # <<>> /\ due[1].amount > 0
    <2> DEFINE none == <<>>
               owed == Due(fee, none, NoDate)
    <2>1. Ledger(none, <<>>) /\ FeeOf(none) = 0 /\ NoDate \in Days
        BY <1>1
    <2> HIDE DEF none
    <2>2. /\ Ledger(none, owed)
          /\ FeeOf(none \o owed) = IF FeeOf(none) < fee THEN fee ELSE FeeOf(none)
          /\ owed = <<>> <=> ~(FeeOf(none) < fee)
          /\ owed # <<>> => owed[1].amount > 0
        BY <2>1, DueLedger
    <2> HIDE DEF owed
    <2>3. Ledger(none, owed) /\ FeeOf(none \o owed) = fee /\ owed # <<>> /\ owed[1].amount > 0
        BY <2>1, <2>2
    <2> QED BY <2>3 DEF none, owed
<1> HIDE DEF due, new
<1>3. Positive(due)
    BY <1>2 DEF Positive
<1>4. Opened(new) /\ Holds(new, <<>>, due)
    BY <1>1, <1>2, <1>3, HoldsOpened
<1>5. MoneyOnRecord(new) = <<>>
    <2>1. AmountsOf(<<>>) = <<>>
        BY DEF AmountsOf
    <2> QED BY <1>4, <2>1 DEF Holds
<1>6. HasToken(<<>>) = FALSE /\ Payments(<<>>) = 0
    BY DEF HasToken, Payments
<1>7. ShapeOf(TRUE, new) = Shaped(TRUE, FALSE, 0, TRUE)
    <2> DEFINE none == <<>>
    <2>1. Holds(new, none, due) /\ HasToken(none) = FALSE /\ Payments(none) = 0
        BY <1>4, <1>6
    <2> HIDE DEF none
    <2>2. ShapeOf(TRUE, new) = Shaped(TRUE, HasToken(none), Payments(none), due # <<>>)
        BY <2>1, ShapeHeld
    <2>3. (due # <<>>) = TRUE
        BY <1>2
    <2> QED BY <2>1, <2>2, <2>3
<1>8. FeeOf(new) = fee
    BY <1>1, <1>2
<1>9. ShapeOf(TRUE, new) = [Collection!NoCollection EXCEPT !.plan = TRUE, !.due = TRUE]
    <2>1. Collection!NoCollection = Shaped(FALSE, FALSE, 0, FALSE)
        BY DEF Collection!NoCollection, Shaped
    <2>2. PlanAndDue(Collection!NoCollection, TRUE, TRUE) = Shaped(TRUE, FALSE, 0, TRUE)
        <3> DEFINE no == FALSE
                   yes == TRUE
        <3>1. Collection!NoCollection = Shaped(no, no, 0, no)
            BY <2>1
        <3> HIDE DEF no, yes
        <3>2. \A v : PlanAndDue(Collection!NoCollection, v, yes) = Shaped(v, no, 0, yes)
            BY <3>1, PlanAndDueChanged
        <3>3. PlanAndDue(Collection!NoCollection, TRUE, yes) = Shaped(TRUE, no, 0, yes)
            BY <3>2
        <3> QED BY <3>3 DEF no, yes
    <2> QED BY <1>7, <2>2 DEF PlanAndDue
<1> QED BY <1>4, <1>5, <1>8, <1>9 DEF new

(* The tail of a recorded payment, as Settle has it. *)
SettledAs(new, ledger, fee, due) ==
    LET settled == Rebalance(ledger, fee)
        date == IF due # NoDate THEN due ELSE BalanceDate(settled)
    IN  IF OfKind(settled, "balance") = <<>>
        THEN new = settled
        ELSE date # NoDate /\ new = DatedAs(settled, date)

LEMMA SettlesUp ==
    ASSUME NEW ms, Ledger(ms, <<>>), NEW es, Kept(es) = ms, BalanceDate(es) \in Days,
           NEW fee \in Nat, FeeOf(ms) <= fee, NEW due \in Days, NEW new, SettledAs(new, es, fee, due)
    PROVE  \E rest : Holds(new, ms, rest) /\ Opened(new) /\ FeeOf(new) = fee
<1> DEFINE settled == Rebalance(es, fee)
           owed == Due(fee, ms, BalanceDate(es))
           date == IF due # NoDate THEN due ELSE BalanceDate(settled)
<1>1. /\ settled = ms \o owed /\ Ledger(ms, owed) /\ Positive(owed)
      /\ owed = <<>> <=> ~(FeeOf(ms) < fee)
      /\ FeeOf(ms) \in Nat /\ FeeOf(settled) = (IF FeeOf(ms) < fee THEN fee ELSE FeeOf(ms))
      /\ OfKind(settled, "balance") = owed
      /\ BalanceDate(settled) = IF owed = <<>> THEN NoDate ELSE BalanceDate(es)
    BY RebalancedHolds
<1>2. IF OfKind(settled, "balance") = <<>> THEN new = settled ELSE new = DatedAs(settled, date)
    BY DEF SettledAs
<1> HIDE DEF settled, owed
<1>3. FeeOf(settled) = fee
    BY <1>1
<1>4. date \in Days
    <2>1. BalanceDate(settled) \in Days
        BY <1>1 DEF Days
    <2> QED BY <2>1
<1> HIDE DEF date
<1>5. CASE owed = <<>>
    <2>1. new = ms \o owed
        BY <1>1, <1>2, <1>5
    <2>2. Opened(new) /\ Holds(new, ms, owed)
        BY <1>1, <2>1, HoldsOpened
    <2> QED BY <1>1, <1>3, <2>1, <2>2
<1>6. CASE owed # <<>>
    <2> DEFINE later == Later(owed, date)
               dated == DatedAs(ms \o owed, date)
    <2>1. /\ dated = ms \o later /\ Ledger(ms, later) /\ Positive(later)
          /\ FeeOf(dated) = FeeOf(ms \o owed)
        BY <1>1, <1>4, <1>6, Dated
    <2>2. new = dated
        BY <1>1, <1>2, <1>6
    <2> HIDE DEF later, dated
    <2>3. Opened(new) /\ Holds(new, ms, later)
        BY <2>1, <2>2, HoldsOpened
    <2> QED BY <1>1, <1>3, <2>1, <2>2, <2>3
<1> QED BY <1>5, <1>6

-----------------------------------------------------------------------------
(* Money taken. *)

LEMMA TakingShape ==
    ASSUME NEW ms, NEW rest, Ledger(ms, rest), NEW kind \in ReceivedKinds, NEW amount \in Nat, amount > 0,
           kind = "token" => OfKind(ms \o rest, "token") = <<>>
    PROVE  LET more == Taking(ms, kind, amount)
           IN  /\ kind = "token" => ~HasToken(ms) /\ HasToken(more) /\ Payments(more) = Payments(ms)
               /\ kind # "token" => (HasToken(more) <=> HasToken(ms)) /\ Payments(more) = Payments(ms) + 1
<1> DEFINE m == Money(kind, amount)
           more == Taking(ms, kind, amount)
           n == Len(ms)
<1>1. m \in Entry /\ m.kind = kind
    BY MoneyTyped
<1>2. ms \in Seq(Entry) /\ n \in Nat
    BY Places
<1> HIDE DEF m, n
<1>3. <<m>> \in Seq(Entry) /\ Len(<<m>>) = 1 /\ <<m>>[1] = m
    BY <1>1
<1>4. CASE kind = "token"
    <2>1. more = <<m>> \o ms
        BY <1>4 DEF Taking, m
    <2>2. Len(more) = n + 1 /\ more[1] = m
        <3>1. Len(<<m>> \o ms) = Len(<<m>>) + Len(ms)
              /\ \A i \in 1..(Len(<<m>>) + Len(ms)) : (<<m>> \o ms)[i] = IF i <= Len(<<m>>) THEN <<m>>[i] ELSE ms[i - Len(<<m>>)]
            BY <1>2, <1>3, ConcatProperties
        <3>2. 1 \in 1..(1 + n)
            BY <1>2
        <3> HIDE DEF more
        <3> QED BY <1>2, <1>3, <2>1, <3>1, <3>2 DEF n
    <2>3. ~HasToken(ms)
        <3>1. OfKind(ms \o rest, "token") = (IF Len(ms) > 0 /\ ms[1].kind = "token" THEN <<ms[1]>> ELSE <<>>)
            BY Picked
        <3>2. <<ms[1]>> # <<>> /\ OfKind(ms \o rest, "token") = <<>>
            BY <1>4
        <3> QED BY <3>1, <3>2 DEF HasToken
    <2> HIDE DEF more
    <2>4. HasToken(more)
        BY <1>1, <1>2, <1>4, <2>2 DEF HasToken
    <2>5. Payments(more) = Payments(ms)
        BY <1>2, <2>2, <2>3, <2>4 DEF Payments, n
    <2> QED BY <1>4, <2>3, <2>4, <2>5 DEF more
<1>5. CASE kind # "token"
    <2>1. more = ms \o <<m>>
        BY <1>5 DEF Taking, m
    <2>2. Len(more) = n + 1 /\ more[1] = IF n > 0 THEN ms[1] ELSE m
        <3>1. Len(ms \o <<m>>) = Len(ms) + Len(<<m>>)
              /\ \A i \in 1..(Len(ms) + Len(<<m>>)) : (ms \o <<m>>)[i] = IF i <= Len(ms) THEN ms[i] ELSE <<m>>[i - Len(ms)]
            BY <1>2, <1>3, ConcatProperties
        <3>2. 1 \in 1..(n + 1) /\ (1 <= n <=> n > 0) /\ (~(n > 0) => 1 - n = 1)
            BY <1>2
        <3> HIDE DEF more
        <3> QED BY <1>2, <1>3, <2>1, <3>1, <3>2 DEF n
    <2> HIDE DEF more
    <2>3. HasToken(more) <=> HasToken(ms)
        BY <1>1, <1>2, <1>5, <2>2 DEF HasToken, n
    <2>4. Payments(more) = Payments(ms) + 1
        BY <1>2, <2>2, <2>3 DEF Payments, n
    <2> QED BY <1>5, <2>3, <2>4 DEF more
<1> QED BY <1>4, <1>5

LEMMA MoneyTaken ==
    ASSUME NEW es, Opened(es) \/ Slotted(es), NEW kind \in ReceivedKinds, NEW amount \in Nat, amount > 0,
           NEW due \in Days, NEW new,
           kind = "token" => OfKind(ToLedger(es), "token") = <<>>,
           ReceivedOf(ToLedger(es)) + amount <= FeeOf(ToLedger(es)),
           SettledAs(new, Append(ToLedger(es), Money(kind, amount)), FeeOf(ToLedger(es)), due)
    PROVE  LET c == ShapeOf(TRUE, es)
           IN  /\ Opened(new) /\ FeeOf(new) = FeeOf(es)
               /\ ShapeOf(TRUE, new) \in Collection!TokenTaken(c) \cup Collection!PaymentTaken(c)
<1>1. PICK ms \in Seq(MoneyEntries), rest \in Seq(BalanceEntries) : Holds(es, ms, rest)
    BY AsLedger
<1> DEFINE ledger == ToLedger(es)
           fee == FeeOf(ledger)
           taken == Append(ledger, Money(kind, amount))
           more == Taking(ms, kind, amount)
<1>2. Ledger(ms, rest) /\ ledger = ms \o rest /\ fee = FeeOf(es)
    BY <1>1 DEF Holds
<1>3. /\ ReceivedOf(ms \o rest) = FeeOf(ms) /\ ms \in Seq(Entry) /\ rest \in Seq(Entry)
      /\ FeeOf(ms) \in Nat /\ FeeOf(rest) \in Nat
    BY <1>2, MoneyCollected, Places, FeeTyped
<1>4. FeeOf(ms \o rest) = FeeOf(ms) + FeeOf(rest)
    BY <1>3, FeeConcat
<1>5. /\ Ledger(more, <<>>) /\ Kept(taken) = more /\ FeeOf(more) = FeeOf(ms) + amount
      /\ BalanceDate(taken) \in Days
    BY <1>2, Taken, DateOfLedger
<1>6. fee \in Nat /\ FeeOf(more) <= fee /\ rest # <<>>
    BY <1>2, <1>3, <1>4, <1>5, FeeNone
<1>7. SettledAs(new, taken, fee, due)
    OBVIOUS
<1>8. /\ kind = "token" => ~HasToken(ms) /\ HasToken(more) /\ Payments(more) = Payments(ms)
      /\ kind # "token" => (HasToken(more) <=> HasToken(ms)) /\ Payments(more) = Payments(ms) + 1
    BY <1>2, TakingShape
<1> HIDE DEF ledger, fee, taken, more
<1>9. PICK owed : Holds(new, more, owed) /\ Opened(new) /\ FeeOf(new) = fee
    BY <1>5, <1>6, <1>7, SettlesUp
<1> DEFINE c == ShapeOf(TRUE, es)
           d == ShapeOf(TRUE, new)
           was == rest # <<>>
           is == owed # <<>>
           hadToken == HasToken(ms)
           hasToken == HasToken(more)
           yes == TRUE
<1>10. c = Shaped(TRUE, HasToken(ms), Payments(ms), rest # <<>>)
    BY <1>1, ShapeHeld
<1>11. d = Shaped(TRUE, HasToken(more), Payments(more), owed # <<>>)
    BY <1>9, ShapeHeld
<1>12. is \in BOOLEAN /\ was /\ hadToken \in BOOLEAN /\ hasToken \in BOOLEAN /\ yes
    BY <1>6 DEF HasToken
<1>13. c = Shaped(yes, hadToken, Payments(ms), was) /\ d = Shaped(yes, hasToken, Payments(more), is)
    BY <1>10, <1>11
<1> HIDE DEF c, d, was, is, hadToken, hasToken, yes
<1>14. c.plan /\ c.due /\ (c.token <=> hadToken) /\ c.payments = Payments(ms)
    BY <1>12, <1>13 DEF Shaped
<1>15. CASE kind = "token"
    <2>1. hasToken = TRUE /\ ~hadToken /\ Payments(more) = Payments(ms)
        BY <1>8, <1>15 DEF hasToken, hadToken
    <2>2. \A v : TokenAndDue(c, v, is) = Shaped(yes, v, Payments(ms), is)
        BY <1>13, TokenAndDueChanged
    <2>3. TokenAndDue(c, TRUE, is) = Shaped(yes, TRUE, Payments(ms), is)
        BY <2>2
    <2>4. d = TokenAndDue(c, TRUE, is)
        BY <1>13, <2>1, <2>3
    <2>5. d \in Collection!TokenTaken(c)
        BY <1>12, <1>14, <2>1, <2>4 DEF TokenAndDue, Collection!TokenTaken
    <2> QED BY <1>2, <1>9, <2>5 DEF c, d
<1>16. CASE kind # "token"
    <2>1. hasToken = hadToken /\ Payments(more) = c.payments + 1
        BY <1>8, <1>12, <1>14, <1>16 DEF hasToken, hadToken
    <2>2. \A v : PaymentsAndDue(c, v, is) = Shaped(yes, hadToken, v, is)
        BY <1>13, PaymentsAndDueChanged
    <2>3. d = PaymentsAndDue(c, c.payments + 1, is)
        BY <1>13, <2>1, <2>2
    <2>4. d \in Collection!PaymentTaken(c)
        BY <1>12, <1>14, <2>3 DEF PaymentsAndDue, Collection!PaymentTaken
    <2> QED BY <1>2, <1>9, <2>4 DEF c, d
<1> QED BY <1>15, <1>16 DEF c, d

-----------------------------------------------------------------------------
(* Money corrected, and taken off again. *)

(* The money of a ledger is at its first places. *)
LEMMA MoneyPlaces ==
    ASSUME NEW ms, NEW rest, Ledger(ms, rest), NEW i \in DOMAIN (ms \o rest), (ms \o rest)[i].kind \in ReceivedKinds
    PROVE  i \in 1..Len(ms) /\ (ms \o rest)[i] = ms[i] /\ ms[i] \in MoneyEntries
<1>1. /\ Len(ms) \in Nat /\ Len(rest) \in {0, 1} /\ i \in 1..(Len(ms) + Len(rest))
      /\ \A k \in 1..Len(ms) : (ms \o rest)[k] = ms[k] /\ ms[k] \in MoneyEntries
      /\ \A k \in (Len(ms) + 1)..(Len(ms) + Len(rest)) : (ms \o rest)[k] = rest[1] /\ rest[1] \in BalanceEntries
    BY Places
<1>2. CASE i \in (Len(ms) + 1)..(Len(ms) + Len(rest))
    <2>1. (ms \o rest)[i] \in BalanceEntries
        BY <1>1, <1>2
    <2> QED BY <2>1 DEF BalanceEntries, ReceivedKinds
<1>3. CASE ~(i \in (Len(ms) + 1)..(Len(ms) + Len(rest)))
    <2>1. i \in 1..Len(ms)
        BY <1>1, <1>3
    <2> QED BY <1>1, <2>1
<1> QED BY <1>2, <1>3

LEMMA MoneyCorrected ==
    ASSUME NEW es, Opened(es) \/ Slotted(es), NEW i \in DOMAIN ToLedger(es), ToLedger(es)[i].kind \in ReceivedKinds,
           NEW amount \in Nat, amount > 0, NEW due \in Days, NEW new,
           ReceivedOf(ToLedger(es)) - Collected(ToLedger(es)[i]) + amount <= FeeOf(ToLedger(es)),
           SettledAs(new, With(ToLedger(es), i, Money(ToLedger(es)[i].kind, amount)), FeeOf(ToLedger(es)), due)
    PROVE  /\ Opened(new) /\ FeeOf(new) = FeeOf(es)
           /\ ShapeOf(TRUE, new) \in Collection!Corrected(ShapeOf(TRUE, es))
<1>1. PICK ms \in Seq(MoneyEntries), rest \in Seq(BalanceEntries) : Holds(es, ms, rest)
    BY AsLedger
<1> DEFINE ledger == ToLedger(es)
           fee == FeeOf(ledger)
           m == Money(ms[i].kind, amount)
           more == With(ms, i, m)
           corrected == With(ledger, i, Money(ledger[i].kind, amount))
<1>2. Ledger(ms, rest) /\ ledger = ms \o rest /\ fee = FeeOf(es)
    BY <1>1 DEF Holds
<1>3. i \in 1..Len(ms) /\ ledger[i] = ms[i] /\ ms[i] \in MoneyEntries
    BY <1>2, MoneyPlaces
<1>4. /\ Ledger(more, rest) /\ With(ms \o rest, i, m) = more \o rest
      /\ FeeOf(more) = FeeOf(ms) - ms[i].amount + amount /\ FeeOf(more) \in Nat
    BY <1>2, <1>3, CorrectedAt
<1>5. corrected = more \o rest
    BY <1>2, <1>3, <1>4
<1>6. ReceivedOf(ms \o rest) = FeeOf(ms) /\ Collected(ms[i]) = ms[i].amount
    BY <1>2, <1>3, MoneyCollected, CollectedOf
<1>7. FeeOf(more) <= fee
    BY <1>2, <1>3, <1>4, <1>6
<1>8. fee \in Nat
    <2>1. ms \o rest \in Seq(Entry)
        BY <1>2, Places
    <2> QED BY <1>2, <2>1, FeeTyped
<1>9. SettledAs(new, corrected, fee, due)
    OBVIOUS
<1>10. Len(more) = Len(ms) /\ more[1].kind = ms[1].kind /\ Len(ms) \in Nat /\ Len(ms) > 0
    <2>1. ms \in Seq(MoneyEntries) /\ Len(ms) \in Nat /\ 1 \in 1..Len(ms)
        BY <1>2, <1>3, Places
    <2>2. ms[i].kind \in ReceivedKinds
        BY <1>3 DEF MoneyEntries
    <2>3. m \in MoneyEntries /\ m.kind = ms[i].kind
        BY <2>2, MoneyTyped
    <2> HIDE DEF m
    <2>4. Len(more) = Len(ms) /\ more[1] = IF 1 = i THEN m ELSE ms[1]
        BY <1>3, <2>1, <2>3, ExceptSeq DEF With
    <2> HIDE DEF more
    <2> QED BY <1>3, <2>1, <2>3, <2>4
<1> HIDE DEF ledger, fee, m, more, corrected
<1>11. Ledger(more, <<>>) /\ Kept(corrected) = more /\ BalanceDate(corrected) \in Days
    BY <1>4, <1>5, MoneyAlone, Picked, DateOfLedger
<1>12. PICK owed : Holds(new, more, owed) /\ Opened(new) /\ FeeOf(new) = fee
    BY <1>7, <1>8, <1>9, <1>11, SettlesUp
<1>13. (HasToken(more) <=> HasToken(ms)) /\ Payments(more) = Payments(ms) /\ ms # <<>>
    BY <1>10 DEF HasToken, Payments
<1> DEFINE c == ShapeOf(TRUE, es)
           d == ShapeOf(TRUE, new)
           was == rest # <<>>
           is == owed # <<>>
           token == HasToken(ms)
           yes == TRUE
<1>14. c = Shaped(TRUE, HasToken(ms), Payments(ms), rest # <<>>) /\ (Collection!HasMoney(c) <=> ms # <<>>)
    BY <1>1, ShapeHeld
<1>15. d = Shaped(TRUE, HasToken(more), Payments(more), owed # <<>>)
    BY <1>12, ShapeHeld
<1>16. is \in BOOLEAN /\ yes /\ HasToken(more) = HasToken(ms)
    BY <1>13 DEF HasToken
<1>17. c = Shaped(yes, token, Payments(ms), was) /\ d = Shaped(yes, token, Payments(ms), is)
    BY <1>13, <1>14, <1>15, <1>16
<1> HIDE DEF c, d, was, is, token, yes
<1>18. d = WithDue(c, is) /\ c.plan
    <2>1. WithDue(c, is) = Shaped(yes, token, Payments(ms), is)
        BY <1>17, DueChanged
    <2>2. c.plan
        BY <1>16, <1>17 DEF Shaped
    <2> QED BY <1>17, <2>1, <2>2
<1>19. d \in Collection!Corrected(c)
    BY <1>13, <1>14, <1>16, <1>18 DEF WithDue, Collection!Corrected
<1> QED BY <1>2, <1>12, <1>19 DEF c, d

LEMMA RemovingShape ==
    ASSUME NEW ms, NEW rest, Ledger(ms, rest), NEW i \in 1..Len(ms)
    PROVE  LET fewer == RemoveAt(ms, i)
           IN  /\ ms[i].kind = "token" => HasToken(ms) /\ ~HasToken(fewer) /\ Payments(fewer) = Payments(ms)
               /\ ms[i].kind # "token" => (HasToken(fewer) <=> HasToken(ms)) /\ Payments(fewer) = Payments(ms) - 1
                                          /\ Payments(ms) > 0
<1> DEFINE n == Len(ms)
           fewer == RemoveAt(ms, i)
<1>1. n \in Nat /\ i \in 1..n /\ DOMAIN ms = 1..n
    BY Places DEF Ledger
<1>2. \A k \in 1..n : ms[k].kind = "token" => k = 1
    BY <1>1 DEF Ledger, TokenFirst
<1>3. Len(fewer) = n - 1 /\ \A k \in 1..(n - 1) : fewer[k] = IF k < i THEN ms[k] ELSE ms[k + 1]
    BY Removed
<1> HIDE DEF n, fewer
<1>4. n > 1 => fewer[1] = IF 1 < i THEN ms[1] ELSE ms[2]
    <2>1. n > 1 => 1 \in 1..(n - 1)
        BY <1>1
    <2> QED BY <1>1, <1>3, <2>1
<1>5. HasToken(ms) <=> ms[1].kind = "token"
    BY <1>1 DEF HasToken, n
<1>6. HasToken(fewer) <=> n > 1 /\ 1 < i /\ ms[1].kind = "token"
    <2>1. n > 1 => 2 \in 1..n
        BY <1>1
    <2>2. n > 1 => ms[2].kind # "token"
        BY <1>2, <2>1
    <2>3. HasToken(fewer) <=> n > 1 /\ fewer[1].kind = "token"
        BY <1>1, <1>3 DEF HasToken
    <2> QED BY <1>1, <1>4, <2>2, <2>3
<1>7. Payments(ms) = (IF HasToken(ms) THEN n - 1 ELSE n) /\ Payments(fewer) = (IF HasToken(fewer) THEN n - 2 ELSE n - 1)
    BY <1>1, <1>3 DEF Payments, n
<1>8. CASE ms[i].kind = "token"
    <2>1. i = 1 /\ HasToken(ms)
        BY <1>1, <1>2, <1>5, <1>8
    <2> QED BY <1>1, <1>6, <1>7, <1>8, <2>1 DEF fewer
<1>9. CASE ms[i].kind # "token"
    <2>1. ms[1].kind = "token" => 1 < i /\ n > 1
        BY <1>1, <1>9
    <2>2. HasToken(fewer) <=> HasToken(ms)
        BY <1>5, <1>6, <2>1
    <2>3. Payments(fewer) = Payments(ms) - 1 /\ Payments(ms) > 0
        BY <1>1, <1>5, <1>7, <2>1, <2>2
    <2> QED BY <1>9, <2>2, <2>3 DEF fewer
<1> QED BY <1>8, <1>9

LEMMA MoneyRemoved ==
    ASSUME NEW es, Opened(es) \/ Slotted(es), NEW i \in DOMAIN ToLedger(es), ToLedger(es)[i].kind \in ReceivedKinds,
           NEW priced \in BOOLEAN
    PROVE  LET new == Rebalance(RemoveAt(ToLedger(es), i), FeeOf(ToLedger(es)))
               c == ShapeOf(priced, es)
           IN  /\ Opened(new) /\ FeeOf(new) = FeeOf(es)
               /\ BalanceDate(new) = BalanceDate(ToLedger(es)) \/ OfKind(new, "balance") = <<>>
               /\ ShapeOf(priced, new) \in Collection!TokenRemoved(c) \cup Collection!PaymentRemoved(c)
<1>1. PICK ms \in Seq(MoneyEntries), rest \in Seq(BalanceEntries) : Holds(es, ms, rest)
    BY AsLedger
<1> DEFINE ledger == ToLedger(es)
           fee == FeeOf(ledger)
           fewer == RemoveAt(ms, i)
           left == RemoveAt(ledger, i)
           new == Rebalance(left, fee)
           date == BalanceDate(left)
           owed == Due(fee, fewer, date)
<1>2. Ledger(ms, rest) /\ ledger = ms \o rest /\ fee = FeeOf(es)
    BY <1>1 DEF Holds
<1>3. i \in 1..Len(ms) /\ ledger[i] = ms[i] /\ ms[i] \in MoneyEntries
    BY <1>2, MoneyPlaces
<1>4. /\ Ledger(fewer, rest) /\ RemoveAt(ms \o rest, i) = fewer \o rest
      /\ FeeOf(fewer) + ms[i].amount = FeeOf(ms)
    BY <1>2, <1>3, Removed
<1>5. left = fewer \o rest
    BY <1>2, <1>4
<1>6. /\ ms[i].kind = "token" => HasToken(ms) /\ ~HasToken(fewer) /\ Payments(fewer) = Payments(ms)
      /\ ms[i].kind # "token" => (HasToken(fewer) <=> HasToken(ms)) /\ Payments(fewer) = Payments(ms) - 1
                                 /\ Payments(ms) > 0
    BY <1>2, <1>3, RemovingShape
<1> HIDE DEF ledger, fee, fewer, left
<1>7. Ledger(fewer, <<>>) /\ Kept(left) = fewer /\ date \in Days
    BY <1>4, <1>5, MoneyAlone, Picked, DateOfLedger
<1>8. date = BalanceDate(ledger)
    <2>1. BalanceDate(ms \o rest) = IF rest = <<>> THEN NoDate ELSE rest[1].date
        BY <1>2, DateOfLedger
    <2>2. BalanceDate(fewer \o rest) = IF rest = <<>> THEN NoDate ELSE rest[1].date
        BY <1>4, DateOfLedger
    <2> QED BY <1>2, <1>5, <2>1, <2>2
<1>9. fee \in Nat /\ FeeOf(fewer) < fee /\ FeeOf(fewer) \in Nat
    <2>1. ms \in Seq(Entry) /\ rest \in Seq(Entry) /\ ms \o rest \in Seq(Entry) /\ fewer \in Seq(Entry)
        BY <1>2, <1>4, Places
    <2>2. FeeOf(ms) \in Nat /\ FeeOf(rest) \in Nat /\ FeeOf(fewer) \in Nat /\ FeeOf(ms \o rest) \in Nat
        BY <2>1, FeeTyped
    <2>3. FeeOf(ms \o rest) = FeeOf(ms) + FeeOf(rest)
        BY <2>1, FeeConcat
    <2>4. ms[i].amount \in Nat /\ ms[i].amount > 0
        BY <1>3, CollectedOf
    <2>5. fee = FeeOf(ms \o rest)
        BY <1>2 DEF fee
    <2> QED BY <1>4, <2>2, <2>3, <2>4, <2>5
<1>10. /\ new = fewer \o owed /\ Ledger(fewer, owed) /\ Positive(owed)
       /\ owed = <<>> <=> ~(FeeOf(fewer) < fee)
       /\ FeeOf(new) = (IF FeeOf(fewer) < fee THEN fee ELSE FeeOf(fewer))
       /\ BalanceDate(new) = IF owed = <<>> THEN NoDate ELSE date
    BY <1>7, <1>9, RebalancedHolds
<1> HIDE DEF new, owed, date
<1>11. FeeOf(new) = fee /\ owed # <<>> /\ BalanceDate(new) = date
    BY <1>9, <1>10
<1>12. Opened(new) /\ Holds(new, fewer, owed)
    BY <1>10, HoldsOpened
<1> DEFINE c == ShapeOf(priced, es)
           d == ShapeOf(priced, new)
           was == rest # <<>>
           is == owed # <<>>
           hadToken == HasToken(ms)
           hasToken == HasToken(fewer)
<1>13. c = Shaped(priced, HasToken(ms), Payments(ms), rest # <<>>)
    BY <1>1, ShapeHeld
<1>14. d = Shaped(priced, HasToken(fewer), Payments(fewer), owed # <<>>)
    BY <1>12, ShapeHeld
<1>15. is = TRUE /\ hadToken \in BOOLEAN /\ hasToken \in BOOLEAN
    BY <1>11 DEF HasToken
<1>16. c = Shaped(priced, hadToken, Payments(ms), was) /\ d = Shaped(priced, hasToken, Payments(fewer), is)
    BY <1>13, <1>14
<1> HIDE DEF c, d, was, is, hadToken, hasToken
<1>17. (c.token <=> hadToken) /\ c.payments = Payments(ms)
    BY <1>15, <1>16 DEF Shaped
<1>18. ASSUME ms[i].kind = "token" PROVE d \in Collection!TokenRemoved(c)
    <2>1. hasToken = FALSE /\ hadToken /\ Payments(fewer) = Payments(ms)
        BY <1>6, <1>18 DEF hasToken, hadToken
    <2>2. \A v : TokenAndDue(c, v, is) = Shaped(priced, v, Payments(ms), is)
        BY <1>16, TokenAndDueChanged
    <2>3. TokenAndDue(c, FALSE, is) = Shaped(priced, FALSE, Payments(ms), is)
        BY <2>2
    <2>4. d = TokenAndDue(c, FALSE, is)
        BY <1>16, <2>1, <2>3
    <2>5. d \in Collection!TokenRemoved(c)
        BY <1>15, <1>17, <2>1, <2>4 DEF TokenAndDue, Collection!TokenRemoved
    <2> QED BY <2>5
<1>19. ASSUME ms[i].kind # "token" PROVE d \in Collection!PaymentRemoved(c)
    <2>1. hasToken = hadToken /\ Payments(fewer) = c.payments - 1 /\ c.payments > 0
        BY <1>6, <1>15, <1>17, <1>19 DEF hasToken, hadToken
    <2>2. \A v : PaymentsAndDue(c, v, is) = Shaped(priced, hadToken, v, is)
        BY <1>16, PaymentsAndDueChanged
    <2>3. d = PaymentsAndDue(c, c.payments - 1, is)
        BY <1>16, <2>1, <2>2
    <2>4. d \in Collection!PaymentRemoved(c)
        BY <1>15, <2>1, <2>3 DEF PaymentsAndDue, Collection!PaymentRemoved
    <2> QED BY <2>4
<1>20. d \in Collection!TokenRemoved(c) \cup Collection!PaymentRemoved(c)
    BY <1>18, <1>19
<1> QED BY <1>2, <1>8, <1>11, <1>12, <1>20 DEF new, c, d, left, fee, ledger, date

(* The balance promised for another day: nothing else of the collection    *)
(* changes.                                                                *)
LEMMA BalanceDated ==
    ASSUME NEW es, Opened(es) \/ Slotted(es), OfKind(ToLedger(es), "balance") # <<>>, NEW day \in Days,
           NEW priced \in BOOLEAN
    PROVE  LET new == DatedAs(ToLedger(es), day)
           IN  /\ Opened(new) /\ FeeOf(new) = FeeOf(es) /\ MoneyOnRecord(new) = MoneyOnRecord(es)
               /\ ShapeOf(priced, new) = ShapeOf(priced, es)
<1>1. PICK ms \in Seq(MoneyEntries), rest \in Seq(BalanceEntries) : Holds(es, ms, rest)
    BY AsLedger
<1> DEFINE ledger == ToLedger(es)
           new == DatedAs(ledger, day)
           later == Later(rest, day)
<1>2. Ledger(ms, rest) /\ Positive(rest) /\ ledger = ms \o rest /\ FeeOf(ms \o rest) = FeeOf(es)
      /\ MoneyOnRecord(es) = AmountsOf(ms)
    BY <1>1 DEF Holds
<1>3. rest # <<>>
    <2>1. OfKind(ms \o rest, "balance") = rest
        BY <1>2, Picked
    <2> QED BY <1>2, <2>1
<1>4. /\ DatedAs(ms \o rest, day) = ms \o later /\ Ledger(ms, later) /\ Positive(later) /\ later # <<>>
      /\ FeeOf(DatedAs(ms \o rest, day)) = FeeOf(ms \o rest)
    BY <1>2, <1>3, Dated
<1>5. new = ms \o later /\ FeeOf(new) = FeeOf(es)
    BY <1>2, <1>4
<1> HIDE DEF new, later, ledger
<1>6. Opened(new) /\ Holds(new, ms, later)
    BY <1>4, <1>5, HoldsOpened
<1>7. MoneyOnRecord(new) = MoneyOnRecord(es)
    BY <1>2, <1>6 DEF Holds
<1>8. ShapeOf(priced, new) = ShapeOf(priced, es)
    <2>1. ShapeOf(priced, es) = Shaped(priced, HasToken(ms), Payments(ms), rest # <<>>)
        BY <1>1, ShapeHeld
    <2>2. ShapeOf(priced, new) = Shaped(priced, HasToken(ms), Payments(ms), later # <<>>)
        BY <1>6, ShapeHeld
    <2>3. (rest # <<>>) = (later # <<>>)
        BY <1>3, <1>4
    <2> QED BY <2>1, <2>2, <2>3
<1> QED BY <1>5, <1>6, <1>7, <1>8 DEF new, ledger

-----------------------------------------------------------------------------
(* What is true of the collection between requests. *)

LedgerInv ==
    /\ program \in Programs \cup {NotSet}
    /\ plan \in Plans \cup {NotSet}
    /\ quoted \in Nat
    /\ plan = NotSet => entries = <<>>
    /\ Opened(entries) \/ Slotted(entries)
    /\ FeeOf(entries) >= quoted

LEMMA NothingOpened == Opened(<<>>) /\ FeeOf(<<>>) = 0 /\ ToLedger(<<>>) = <<>> /\ DOMAIN <<>> = {}
<1>1. Ledger(<<>>, <<>>) /\ <<>> \o <<>> = <<>> /\ FeeOf(<<>>) = 0
    BY NothingKept
<1>2. Positive(<<>>)
    BY DEF Positive
<1>3. <<>> \in Seq(MoneyEntries) /\ <<>> \in Seq(BalanceEntries)
    OBVIOUS
<1>4. Opened(<<>>)
    <2> DEFINE none == <<>>
    <2>1. none \in Seq(MoneyEntries) /\ none \in Seq(BalanceEntries) /\ Ledger(none, none) /\ Positive(none) /\ none = none \o none
        BY <1>1, <1>2, <1>3
    <2> HIDE DEF none
    <2>2. Opened(none)
        BY <2>1 DEF Opened
    <2> QED BY <2>2 DEF none
<1>5. DOMAIN <<>> = {}
    OBVIOUS
<1>6. ToLedger(<<>>) = <<>>
    BY <1>5 DEF ToLedger
<1> QED BY <1>1, <1>4, <1>5, <1>6

(* Every plan that is offered has its price. *)
LEMMA PriceTyped ==
    ASSUME NEW p \in Programs, NEW q \in Plans
    PROVE  Price[p][q] \in Nat /\ (Offered(p, q) <=> Price[p][q] > 0) /\ q # NotSet /\ p # NotSet
<1>1. Price[p] \in [Plans -> 0..DearestPlan] /\ DearestPlan \in Nat
    BY PriceAssumption
<1>2. Price[p][q] \in 0..DearestPlan
    BY <1>1
<1> QED BY <1>1, <1>2, NotSetAssumption DEF Offered

LEMMA InitLedger == LedgerInit => LedgerInv
<1> SUFFICES ASSUME LedgerInit PROVE LedgerInv
    OBVIOUS
<1>1. CASE program \in Programs \cup {NotSet} /\ plan = NotSet /\ entries = <<>> /\ quoted = 0
    BY <1>1, NothingOpened DEF LedgerInv
<1>2. CASE /\ program \in Programs
           /\ plan \in {q \in Plans : Offered(program, q)}
           /\ quoted = Price[program][plan]
           /\ entries = OpeningLedger(quoted)
    <2>1. quoted \in Nat /\ quoted > 0 /\ plan # NotSet /\ plan \in Plans
        BY <1>2, PriceTyped
    <2>2. Opened(entries) /\ FeeOf(entries) = quoted
        BY <1>2, <2>1, OpensAllDue
    <2> QED BY <1>2, <2>1, <2>2 DEF LedgerInv
<1>3. CASE /\ program \in Programs
           /\ plan \in {q \in Plans : Offered(program, q)}
           /\ quoted = Price[program][plan]
           /\ \E first, second \in LegacySlots :
                 /\ entries \in {<<first>>, <<first, second>>}
                 /\ FeeOf(entries) = quoted
    <2>1. quoted \in Nat /\ quoted > 0 /\ plan # NotSet /\ plan \in Plans
        BY <1>3, PriceTyped
    <2>2. PICK first \in LegacySlots, second \in LegacySlots :
             entries \in {<<first>>, <<first, second>>} /\ FeeOf(entries) = quoted
        BY <1>3
    <2>3. first \in SlotEntries /\ second \in SlotEntries
        BY SlotsAssumption DEF SlotEntries
    <2>4. Slotted(entries)
        <3>1. <<first>> \in Seq(SlotEntries) /\ <<first, second>> \in Seq(SlotEntries)
            BY <2>3
        <3>2. <<first>> # <<>> /\ <<first, second>> # <<>>
            OBVIOUS
        <3> QED BY <2>2, <3>1, <3>2 DEF Slotted
    <2> QED BY <1>3, <2>1, <2>2, <2>4 DEF LedgerInv
<1> QED BY <1>1, <1>2, <1>3 DEF LedgerInit

-----------------------------------------------------------------------------
(* The requests, one by one. *)

LEMMA ShapeNow == Shape = ShapeOf(plan # NotSet, entries)
BY DEF Shape, ShapeOf

LEMMA Succeeds ==
    ASSUME NEW c, NEW d,
           \/ d \in Collection!Priced(c) \/ d \in Collection!Unpriced(c) \/ d \in Collection!Rebuilt(c)
           \/ d \in Collection!TokenTaken(c) \/ d \in Collection!PaymentTaken(c) \/ d \in Collection!Corrected(c)
           \/ d \in Collection!TokenRemoved(c) \/ d \in Collection!PaymentRemoved(c)
    PROVE  d \in Collection!Successors(c)
BY DEF Collection!Successors

(* The promise, and the money, outlive the step. *)
PromiseHeld == OfKind(entries', "balance") = <<>> \/ BalanceDate(entries') = BalanceDate(ToLedger(entries))
MoneyHeld == MoneyOnRecord(entries') = MoneyOnRecord(entries)
ShapeAllowed == Shape' \in Collection!Successors(Shape) \/ Shape' = Shape

LEMMA Repriced ==
    ASSUME LedgerInv, NEW p \in Programs, NEW q \in Plans, Offered(p, q),
           program' = p, plan' = q, quoted' = Price[p][q], entries' = Rebalance(ToLedger(entries), Price[p][q])
    PROVE  LedgerInv' /\ PromiseHeld /\ MoneyHeld /\ ShapeAllowed
<1> DEFINE fee == Price[p][q]
           new == Rebalance(ToLedger(entries), fee)
           priced == plan # NotSet
<1>1. fee \in Nat /\ fee > 0 /\ q # NotSet /\ priced \in BOOLEAN
    BY PriceTyped
<1>2. Opened(entries) \/ Slotted(entries)
    BY DEF LedgerInv
<1> HIDE DEF fee, priced
<1>3. /\ Opened(new) /\ FeeOf(new) >= fee
      /\ MoneyOnRecord(new) = MoneyOnRecord(entries)
      /\ OfKind(new, "balance") = <<>> \/ BalanceDate(new) = BalanceDate(ToLedger(entries))
      /\ ShapeOf(TRUE, new) \in Collection!Priced(ShapeOf(priced, entries))
    BY <1>1, <1>2, PricedAnew
<1>4. entries' = new /\ quoted' = fee
    BY DEF fee
<1> HIDE DEF new
<1>5. LedgerInv'
    BY <1>1, <1>3, <1>4 DEF LedgerInv
<1>6. PromiseHeld /\ MoneyHeld
    BY <1>3, <1>4 DEF PromiseHeld, MoneyHeld
<1>7. ShapeAllowed
    <2>1. Shape = ShapeOf(priced, entries)
        BY ShapeNow DEF priced
    <2>2. Shape' = ShapeOf(plan' # NotSet, entries')
        BY DEF Shape, ShapeOf
    <2>3. (plan' # NotSet) = TRUE
        BY <1>1
    <2>4. Shape' = ShapeOf(TRUE, new)
        BY <1>4, <2>2, <2>3
    <2>5. Shape' \in Collection!Priced(Shape)
        BY <1>3, <2>1, <2>4
    <2> QED BY <2>5, Succeeds DEF ShapeAllowed
<1> QED BY <1>5, <1>6, <1>7

LEMMA LeftAlone ==
    ASSUME LedgerInv, program' \in Programs \cup {NotSet}, UNCHANGED <<plan, entries, quoted>>
    PROVE  LedgerInv' /\ MoneyHeld /\ ShapeAllowed /\ (plan = NotSet => PromiseHeld)
<1>1. plan' = plan /\ entries' = entries /\ quoted' = quoted
    OBVIOUS
<1>2. LedgerInv'
    BY <1>1 DEF LedgerInv
<1>3. MoneyHeld
    BY <1>1 DEF MoneyHeld
<1>4. ShapeAllowed
    BY <1>1 DEF ShapeAllowed, Shape
<1>5. ASSUME plan = NotSet PROVE PromiseHeld
    <2>1. entries' = <<>> /\ ToLedger(entries) = <<>> /\ entries = <<>>
        BY <1>1, <1>5, NothingOpened DEF LedgerInv
    <2>2. BalanceDate(entries') = BalanceDate(ToLedger(entries))
        BY <2>1
    <2> QED BY <2>2 DEF PromiseHeld
<1> QED BY <1>2, <1>3, <1>4, <1>5

LEMMA Unpricing ==
    ASSUME LedgerInv, program' \in Programs, plan # NotSet, ~HasCollected(entries),
           plan' = NotSet, entries' = <<>>, quoted' = 0
    PROVE  LedgerInv' /\ PromiseHeld /\ MoneyHeld /\ ShapeAllowed
<1>1. PICK ms \in Seq(MoneyEntries), rest \in Seq(BalanceEntries) : Holds(entries, ms, rest)
    BY AsLedger DEF LedgerInv
<1>2. ms = <<>> /\ MoneyOnRecord(entries) = AmountsOf(ms)
    BY <1>1 DEF Holds
<1>3. Holds(<<>>, <<>>, <<>>) /\ OfKind(<<>>, "balance") = <<>> /\ Opened(<<>>) /\ FeeOf(<<>>) = 0
    <2> DEFINE none == <<>>
    <2>1. Ledger(none, none) /\ none \o none = none /\ none = <<>>
        BY NothingKept
    <2>2. Positive(none)
        BY DEF Positive
    <2>3. Opened(none) /\ FeeOf(none) = 0
        BY NothingOpened
    <2> HIDE DEF none
    <2>4. Holds(none \o none, none, none)
        BY <2>1, <2>2, LedgerHolds
    <2>5. OfKind(none \o none, "balance") = none
        BY <2>1, Picked
    <2>6. Holds(none, none, none) /\ OfKind(none, "balance") = none
        BY <2>1, <2>4, <2>5
    <2> QED BY <2>3, <2>6 DEF none
<1>4. LedgerInv'
    BY <1>3 DEF LedgerInv
<1>5. PromiseHeld
    BY <1>3 DEF PromiseHeld
<1>6. MoneyHeld
    <2>1. MoneyOnRecord(<<>>) = AmountsOf(<<>>)
        BY <1>3 DEF Holds
    <2> QED BY <1>2, <2>1 DEF MoneyHeld
<1>7. ShapeAllowed
    <2> DEFINE c == ShapeOf(TRUE, entries)
               no == FALSE
               none == <<>>
    <2>1. /\ c = [plan |-> TRUE, token |-> HasToken(ms),
                  payments |-> IF HasToken(ms) THEN Len(ms) - 1 ELSE Len(ms), due |-> rest # <<>>]
          /\ Collection!HasMoney(c) <=> ms # <<>>
        BY <1>1, ShapeHeld
    <2>2. Shape = c
        <3>1. (plan # NotSet) = TRUE
            OBVIOUS
        <3> QED BY <3>1, ShapeNow
    <2>3. c.plan /\ ~Collection!HasMoney(c)
        <3> HIDE DEF c
        <3>1. c.plan
            BY <2>1
        <3>2. ~Collection!HasMoney(c)
            BY <1>2, <2>1
        <3> QED BY <3>1, <3>2
    <2>4. Shape' = ShapeOf(FALSE, <<>>)
        <3>1. Shape' = ShapeOf(plan' # NotSet, entries')
            BY DEF Shape, ShapeOf
        <3>2. (plan' # NotSet) = FALSE
            OBVIOUS
        <3> QED BY <3>1, <3>2
    <2>5. ShapeOf(FALSE, <<>>) = Collection!NoCollection
        <3>1. Holds(none, none, none) /\ no \in BOOLEAN /\ HasToken(none) = FALSE /\ Len(none) = 0 /\ (none # <<>>) = FALSE
            BY <1>3 DEF HasToken
        <3> HIDE DEF none, no
        <3>2. ShapeOf(no, none) = Shaped(no, HasToken(none), Payments(none), none # <<>>)
            BY <3>1, ShapeHeld
        <3>3. Payments(none) = 0
            BY <3>1 DEF Payments
        <3>4. ShapeOf(no, none) = Shaped(no, FALSE, 0, FALSE)
            BY <3>1, <3>2, <3>3
        <3> QED BY <3>4 DEF Shaped, Collection!NoCollection, no, none
    <2> HIDE DEF c
    <2>6. Shape' \in Collection!Unpriced(Shape)
        BY <2>2, <2>3, <2>4, <2>5 DEF Collection!Unpriced
    <2> QED BY <2>6, Succeeds DEF ShapeAllowed
<1> QED BY <1>4, <1>5, <1>6, <1>7

LEMMA AssignPlanStep ==
    ASSUME LedgerInv, NEW p \in Programs, NEW q \in Plans, AssignPlanTo(p, q)
    PROVE  LedgerInv' /\ PromiseHeld /\ MoneyHeld /\ ShapeAllowed
BY Repriced DEF AssignPlanTo

LEMMA FollowCourseStep ==
    ASSUME LedgerInv, NEW p \in Programs, FollowCourse(p)
    PROVE  LedgerInv' /\ PromiseHeld /\ MoneyHeld /\ ShapeAllowed
<1>1. CASE plan = NotSet /\ UNCHANGED <<plan, entries, quoted>>
    BY <1>1, LeftAlone DEF FollowCourse
<1>2. CASE /\ plan # NotSet /\ Offered(p, plan)
           /\ quoted' = Price[p][plan]
           /\ entries' = Rebalance(ToLedger(entries), Price[p][plan])
           /\ UNCHANGED plan
    <2> DEFINE q == plan
    <2>1. q \in Plans /\ plan' = q
        BY <1>2 DEF LedgerInv
    <2>2. Offered(p, q) /\ program' = p /\ quoted' = Price[p][q] /\ entries' = Rebalance(ToLedger(entries), Price[p][q])
        BY <1>2 DEF FollowCourse
    <2> HIDE DEF q
    <2> QED BY <2>1, <2>2, Repriced
<1>3. CASE /\ plan # NotSet /\ ~Offered(p, plan) /\ ~HasCollected(entries)
           /\ plan' = NotSet
           /\ entries' = <<>>
           /\ quoted' = 0
    BY <1>3, Unpricing DEF FollowCourse
<1> QED BY <1>1, <1>2, <1>3 DEF FollowCourse

LEMMA ResubmitStep ==
    ASSUME LedgerInv, NEW p \in Programs, NEW q \in Plans \cup {NotSet}, ResubmitFor(p, q)
    PROVE  LedgerInv' /\ MoneyHeld /\ ShapeAllowed
<1>1. CASE UNCHANGED <<plan, entries, quoted>>
    <2>1. program' \in Programs \cup {NotSet}
        BY DEF ResubmitFor
    <2> QED BY <1>1, <2>1, LeftAlone
<1>2. CASE /\ q # NotSet /\ ~HasRecordedPayment(entries)
           /\ plan' = q
           /\ quoted' = Price[p][q]
           /\ entries' = OpeningLedger(Price[p][q])
    <2> DEFINE fee == Price[p][q]
               new == OpeningLedger(fee)
               priced == plan # NotSet
               c == ShapeOf(priced, entries)
    <2>1. q \in Plans /\ Offered(p, q) /\ program' = p
        BY <1>2 DEF ResubmitFor
    <2>2. fee \in Nat /\ fee > 0 /\ q # NotSet /\ priced \in BOOLEAN
        BY <2>1, PriceTyped
    <2> HIDE DEF fee, priced
    <2>3. /\ Opened(new) /\ FeeOf(new) = fee /\ MoneyOnRecord(new) = <<>>
          /\ ShapeOf(TRUE, new) = [Collection!NoCollection EXCEPT !.plan = TRUE, !.due = TRUE]
        BY <2>2, OpensAllDue
    <2>4. PICK ms \in Seq(MoneyEntries), rest \in Seq(BalanceEntries) : Holds(entries, ms, rest)
        BY AsLedger DEF LedgerInv
    <2>5. ms = <<>> /\ MoneyOnRecord(entries) = AmountsOf(ms)
        BY <1>2, <2>4 DEF Holds
    <2>6. entries' = new /\ quoted' = fee
        BY <1>2 DEF fee
    <2> HIDE DEF new
    <2>7. LedgerInv'
        BY <1>2, <2>1, <2>2, <2>3, <2>6 DEF LedgerInv
    <2>8. MoneyHeld
        <3>1. AmountsOf(<<>>) = <<>>
            BY DEF AmountsOf
        <3> QED BY <2>3, <2>5, <2>6, <3>1 DEF MoneyHeld
    <2>9. Shape' \in Collection!Rebuilt(Shape)
        <3>1. Collection!HasMoney(c) <=> ms # <<>>
            BY <2>2, <2>4, ShapeHeld
        <3> HIDE DEF c
        <3>2. ~Collection!HasMoney(c)
            BY <2>5, <3>1
        <3>3. Shape = c
            BY ShapeNow DEF c, priced
        <3>4. Shape' = ShapeOf(plan' # NotSet, entries')
            BY DEF Shape, ShapeOf
        <3>5. (plan' # NotSet) = TRUE
            BY <1>2
        <3>6. Shape' = ShapeOf(TRUE, new)
            BY <2>6, <3>4, <3>5
        <3> QED BY <2>3, <3>2, <3>3, <3>6 DEF Collection!Rebuilt
    <2>10. ShapeAllowed
        BY <2>9, Succeeds DEF ShapeAllowed
    <2> QED BY <2>7, <2>8, <2>10
<1> QED BY <1>1, <1>2 DEF ResubmitFor

LEMMA DueTyped == Amounts \subseteq {a \in Nat : a > 0}
BY PriceAssumption DEF Amounts

LEMMA RecordMoneyStep ==
    ASSUME LedgerInv, NEW kind \in ReceivedKinds, NEW amount \in Amounts, NEW due \in Dates \cup {NoDate},
           RecordMoney(kind, amount, due)
    PROVE  LedgerInv' /\ ShapeAllowed /\ FeeOf(entries') = FeeOf(entries)
<1> DEFINE ledger == ToLedger(entries)
           fee == FeeOf(ledger)
           new == entries'
           c == ShapeOf(TRUE, entries)
<1>1. amount \in Nat /\ amount > 0 /\ due \in Days
    BY DueTyped DEF Days
<1>2. Opened(entries) \/ Slotted(entries)
    BY DEF LedgerInv
<1>3. /\ kind = "token" => OfKind(ledger, "token") = <<>>
      /\ ReceivedOf(ledger) + amount <= fee
      /\ plan # NotSet
    BY DEF RecordMoney
<1>4. SettledAs(new, Append(ledger, Money(kind, amount)), fee, due) /\ UNCHANGED <<program, plan, quoted>>
    BY DEF RecordMoney, Settle, SettledAs, DatedAs
<1>5. /\ Opened(new) /\ FeeOf(new) = FeeOf(entries)
      /\ ShapeOf(TRUE, new) \in Collection!TokenTaken(c) \cup Collection!PaymentTaken(c)
    BY <1>1, <1>2, <1>3, <1>4, MoneyTaken
<1>6. LedgerInv'
    BY <1>3, <1>4, <1>5 DEF LedgerInv
<1>7. ShapeAllowed
    <2>1. Shape = ShapeOf(plan # NotSet, entries) /\ (plan # NotSet) = TRUE
        BY <1>3, ShapeNow
    <2>2. Shape' = ShapeOf(plan' # NotSet, entries') /\ (plan' # NotSet) = TRUE
        <3>1. Shape' = ShapeOf(plan' # NotSet, entries')
            BY DEF Shape, ShapeOf
        <3> QED BY <1>3, <1>4, <3>1
    <2>3. Shape = c /\ Shape' = ShapeOf(TRUE, new)
        BY <2>1, <2>2
    <2> QED BY <1>5, <2>3, Succeeds DEF ShapeAllowed
<1> QED BY <1>5, <1>6, <1>7

LEMMA CorrectMoneyStep ==
    ASSUME LedgerInv, NEW i, NEW amount \in Amounts, NEW due \in Dates \cup {NoDate}, CorrectMoney(i, amount, due)
    PROVE  LedgerInv' /\ ShapeAllowed /\ FeeOf(entries') = FeeOf(entries)
<1> DEFINE ledger == ToLedger(entries)
           fee == FeeOf(ledger)
           new == entries'
           c == ShapeOf(TRUE, entries)
<1>1. amount \in Nat /\ amount > 0 /\ due \in Days
    BY DueTyped DEF Days
<1>2. Opened(entries) \/ Slotted(entries)
    BY DEF LedgerInv
<1>3. /\ i \in DOMAIN ledger /\ ledger[i].kind \in ReceivedKinds
      /\ ReceivedOf(ledger) - Collected(ledger[i]) + amount <= fee
      /\ plan # NotSet
    BY DEF CorrectMoney
<1>4. SettledAs(new, With(ledger, i, Money(ledger[i].kind, amount)), fee, due) /\ UNCHANGED <<program, plan, quoted>>
    BY <1>3 DEF CorrectMoney, Settle, SettledAs, DatedAs, With
<1>5. /\ Opened(new) /\ FeeOf(new) = FeeOf(entries)
      /\ ShapeOf(TRUE, new) \in Collection!Corrected(c)
    BY <1>1, <1>2, <1>3, <1>4, MoneyCorrected
<1>6. LedgerInv'
    BY <1>3, <1>4, <1>5 DEF LedgerInv
<1>7. ShapeAllowed
    <2>1. Shape = ShapeOf(plan # NotSet, entries) /\ (plan # NotSet) = TRUE
        BY <1>3, ShapeNow
    <2>2. Shape' = ShapeOf(plan' # NotSet, entries') /\ (plan' # NotSet) = TRUE
        <3>1. Shape' = ShapeOf(plan' # NotSet, entries')
            BY DEF Shape, ShapeOf
        <3> QED BY <1>3, <1>4, <3>1
    <2>3. Shape = c /\ Shape' = ShapeOf(TRUE, new)
        BY <2>1, <2>2
    <2> QED BY <1>5, <2>3, Succeeds DEF ShapeAllowed
<1> QED BY <1>5, <1>6, <1>7

LEMMA DeleteMoneyStep ==
    ASSUME LedgerInv, NEW i, DeleteMoney(i)
    PROVE  LedgerInv' /\ ShapeAllowed /\ PromiseHeld /\ FeeOf(entries') = FeeOf(entries)
<1> DEFINE ledger == ToLedger(entries)
           new == Rebalance(RemoveAt(ledger, i), FeeOf(ledger))
           priced == plan # NotSet
           c == ShapeOf(priced, entries)
<1>1. i \in DOMAIN ledger /\ ledger[i].kind \in ReceivedKinds /\ entries' = new /\ UNCHANGED <<program, plan, quoted>>
    BY DEF DeleteMoney
<1>2. (Opened(entries) \/ Slotted(entries)) /\ priced \in BOOLEAN
    BY DEF LedgerInv
<1>3. plan # NotSet
    <2>1. CASE plan = NotSet
        <3>1. ledger = <<>> /\ DOMAIN <<>> = {}
            BY <2>1, NothingOpened DEF LedgerInv
        <3> QED BY <1>1, <3>1
    <2> QED BY <2>1
<1>4. Shape = c /\ Shape' = ShapeOf(priced, entries')
    <2>1. Shape' = ShapeOf(plan' # NotSet, entries') /\ plan' = plan
        BY <1>1 DEF Shape, ShapeOf
    <2> QED BY <2>1, ShapeNow
<1> HIDE DEF priced
<1>5. /\ Opened(new) /\ FeeOf(new) = FeeOf(entries)
      /\ BalanceDate(new) = BalanceDate(ledger) \/ OfKind(new, "balance") = <<>>
      /\ ShapeOf(priced, new) \in Collection!TokenRemoved(c) \cup Collection!PaymentRemoved(c)
    BY <1>1, <1>2, MoneyRemoved
<1> HIDE DEF new
<1>6. LedgerInv'
    BY <1>1, <1>3, <1>5 DEF LedgerInv
<1>7. ShapeAllowed
    BY <1>1, <1>4, <1>5, Succeeds DEF ShapeAllowed
<1> QED BY <1>1, <1>5, <1>6, <1>7 DEF PromiseHeld

LEMMA DateBalanceStep ==
    ASSUME LedgerInv, NEW due \in Dates \cup {NoDate}, DateBalance(due)
    PROVE  LedgerInv' /\ ShapeAllowed /\ MoneyHeld /\ FeeOf(entries') = FeeOf(entries)
<1> DEFINE ledger == ToLedger(entries)
           new == DatedAs(ledger, due)
           priced == plan # NotSet
<1>1. OfKind(ledger, "balance") # <<>> /\ entries' = new /\ UNCHANGED <<program, plan, quoted>>
    BY DEF DateBalance, DatedAs
<1>2. (Opened(entries) \/ Slotted(entries)) /\ priced \in BOOLEAN /\ due \in Days
    BY DEF LedgerInv, Days
<1>3. plan # NotSet
    <2>1. CASE plan = NotSet
        <3>1. ledger = <<>>
            BY <2>1, NothingOpened DEF LedgerInv
        <3>2. OfKind(<<>>, "balance") = <<>>
            BY AtEmpty DEF OfKind
        <3> QED BY <1>1, <3>1, <3>2
    <2> QED BY <2>1
<1>4. Shape = ShapeOf(priced, entries) /\ Shape' = ShapeOf(priced, entries')
    <2>1. Shape' = ShapeOf(plan' # NotSet, entries') /\ plan' = plan
        BY <1>1 DEF Shape, ShapeOf
    <2> QED BY <2>1, ShapeNow
<1> HIDE DEF priced
<1>5. /\ Opened(new) /\ FeeOf(new) = FeeOf(entries) /\ MoneyOnRecord(new) = MoneyOnRecord(entries)
      /\ ShapeOf(priced, new) = ShapeOf(priced, entries)
    BY <1>1, <1>2, BalanceDated
<1> HIDE DEF new
<1>6. LedgerInv'
    BY <1>1, <1>3, <1>5 DEF LedgerInv
<1>7. ShapeAllowed /\ MoneyHeld
    BY <1>1, <1>4, <1>5 DEF ShapeAllowed, MoneyHeld
<1> QED BY <1>1, <1>5, <1>6, <1>7

-----------------------------------------------------------------------------
(* The properties. *)

LEMMA OpenedShape ==
    ASSUME NEW es, Opened(es) \/ Slotted(es)
    PROVE  /\ es \in Seq(Entry)
           /\ \A i \in DOMAIN es :
                 /\ es[i].kind = "token" => i = 1
                 /\ es[i].kind = "balance" => i = Len(es)
                 /\ es[i].kind # "slot" => es[i].amount > 0
                 /\ es[i].kind = "slot" <=> es[1].kind = "slot"
<1>1. CASE Opened(es)
    <2>1. PICK ms \in Seq(MoneyEntries), rest \in Seq(BalanceEntries) : Ledger(ms, rest) /\ Positive(rest) /\ es = ms \o rest
        BY <1>1 DEF Opened
    <2> DEFINE m == Len(ms)
               n == Len(es)
    <2>2. /\ m \in Nat /\ n \in {m, m + 1} /\ es \in Seq(Entry) /\ DOMAIN es = 1..n
          /\ \A i \in 1..m : es[i] = ms[i] /\ ms[i] \in MoneyEntries
          /\ \A i \in (m + 1)..n : i = m + 1 /\ es[i] = rest[1] /\ rest[1] \in BalanceEntries
        BY <2>1, Places
    <2>3. rest # <<>> => rest[1].amount > 0
        BY <2>1 DEF Positive
    <2>4. n = m + 1 => rest # <<>>
        <3>1. n = m + Len(rest) /\ Len(<<>>) = 0
            BY <2>1, Places
        <3> QED BY <2>2, <3>1
    <2>5. \A i \in 1..m : ms[i].kind = "token" => i = 1
        BY <2>1, <2>2 DEF Ledger, TokenFirst
    <2> HIDE DEF m, n
    <2>6. ASSUME NEW i \in 1..n
          PROVE  /\ es[i].kind = "token" => i = 1
                 /\ es[i].kind = "balance" => i = n
                 /\ es[i].amount > 0
                 /\ es[i].kind # "slot"
        <3>1. CASE i \in 1..m
            <4>1. es[i] = ms[i] /\ ms[i] \in MoneyEntries
                BY <2>2, <3>1
            <4>2. es[i].kind \in {"token", "payment"} /\ es[i].amount > 0
                BY <4>1 DEF MoneyEntries, ReceivedKinds
            <4> QED BY <2>5, <3>1, <4>1, <4>2
        <3>2. CASE ~(i \in 1..m)
            <4>1. i \in (m + 1)..n /\ i = n /\ n = m + 1
                BY <2>2, <3>2
            <4>2. es[i] = rest[1] /\ rest[1] \in BalanceEntries
                BY <2>2, <4>1
            <4>3. es[i].kind = "balance" /\ es[i].amount > 0
                BY <2>3, <2>4, <4>1, <4>2 DEF BalanceEntries
            <4> QED BY <4>1, <4>3
        <3> QED BY <3>1, <3>2
    <2>7. \A i \in 1..n : 1 \in 1..n
        BY <2>2
    <2> QED BY <2>2, <2>6, <2>7 DEF n
<1>2. CASE Slotted(es)
    <2>1. es \in Seq(SlotEntries) /\ es # <<>>
        BY <1>2 DEF Slotted
    <2>2. SlotEntries \subseteq Entry /\ \A e \in SlotEntries : e.kind = "slot"
        BY DEF SlotEntries
    <2>3. es \in Seq(Entry)
        BY <2>1, <2>2, SeqMonotonic
    <2>4. \A i \in DOMAIN es : es[i].kind = "slot"
        BY <2>1, <2>2
    <2>5. 1 \in DOMAIN es
        BY <2>1
    <2> QED BY <2>3, <2>4, <2>5
<1> QED BY <1>1, <1>2

LEMMA NextLedger == LedgerInv /\ [LedgerNext]_ledgerVars => LedgerInv'
<1> SUFFICES ASSUME LedgerInv, [LedgerNext]_ledgerVars PROVE LedgerInv'
    OBVIOUS
<1>1. CASE PlanStep
    BY <1>1, AssignPlanStep, FollowCourseStep DEF PlanStep
<1>2. CASE FormStep
    BY <1>2, ResubmitStep DEF FormStep
<1>3. CASE MoneyStep
    BY <1>3, RecordMoneyStep, CorrectMoneyStep, DeleteMoneyStep DEF MoneyStep
<1>4. CASE DateStep
    BY <1>4, DateBalanceStep DEF DateStep
<1>5. CASE UNCHANGED ledgerVars
    BY <1>5 DEF LedgerInv, ledgerVars
<1> QED BY <1>1, <1>2, <1>3, <1>4, <1>5 DEF LedgerNext

LEMMA LedgerInvHolds == LedgerSpec => []LedgerInv
BY InitLedger, NextLedger, PTL DEF LedgerSpec

(* The list is in the order every reader relies on, for every price list,  *)
(* every set of promise days and old slots that hold no more than they     *)
(* were for.                                                               *)
THEOREM ShapeOfTheLedger == LedgerSpec => []LedgerShape
<1>1. LedgerInv => LedgerShape
    BY OpenedShape DEF LedgerInv, LedgerShape
<1> QED BY <1>1, LedgerInvHolds, PTL

(* No sequence of requests makes the entries add up to less than the plan. *)
THEOREM Undercharging == LedgerSpec => []NeverUndercharged
<1>1. LedgerInv => NeverUndercharged
    BY DEF LedgerInv, NeverUndercharged
<1> QED BY <1>1, LedgerInvHolds, PTL

(* Only a plan, a course or a form changes what the entries add up to. *)
THEOREM FeeMoves == LedgerSpec => FeeMovesOnlyWithPlan
<1>1. LedgerInv /\ [LedgerNext]_ledgerVars => [MoneyStep \/ DateStep => FeeOf(entries') = FeeOf(entries)]_ledgerVars
    <2> SUFFICES ASSUME LedgerInv, MoneyStep \/ DateStep PROVE FeeOf(entries') = FeeOf(entries)
        OBVIOUS
    <2>1. CASE MoneyStep
        BY <2>1, RecordMoneyStep, CorrectMoneyStep, DeleteMoneyStep DEF MoneyStep
    <2>2. CASE DateStep
        BY <2>2, DateBalanceStep DEF DateStep
    <2> QED BY <2>1, <2>2
<1> QED BY <1>1, LedgerInvHolds, PTL DEF LedgerSpec, FeeMovesOnlyWithPlan

(* Everything but a request about money keeps every amount received. *)
THEOREM MoneyKept == LedgerSpec => PlanKeepsMoney
<1>1. LedgerInv /\ [LedgerNext]_ledgerVars => [PlanStep \/ FormStep \/ DateStep => MoneyOnRecord(entries') = MoneyOnRecord(entries)]_ledgerVars
    <2> SUFFICES ASSUME LedgerInv, PlanStep \/ FormStep \/ DateStep PROVE MoneyHeld
        BY DEF MoneyHeld
    <2>1. CASE PlanStep
        BY <2>1, AssignPlanStep, FollowCourseStep DEF PlanStep
    <2>2. CASE FormStep
        BY <2>2, ResubmitStep DEF FormStep
    <2>3. CASE DateStep
        BY <2>3, DateBalanceStep DEF DateStep
    <2> QED BY <2>1, <2>2, <2>3
<1> QED BY <1>1, LedgerInvHolds, PTL DEF LedgerSpec, PlanKeepsMoney

(* The promised day outlives plan switches, course moves and deletions. *)
THEOREM DayKept == LedgerSpec => PromiseKept
<1>1. LedgerInv /\ [LedgerNext]_ledgerVars
      => [PlanStep \/ (\E i \in Indexes : DeleteMoney(i))
          => \/ OfKind(entries', "balance") = <<>>
             \/ BalanceDate(entries') = BalanceDate(ToLedger(entries))]_ledgerVars
    <2> SUFFICES ASSUME LedgerInv, PlanStep \/ \E i \in Indexes : DeleteMoney(i) PROVE PromiseHeld
        BY DEF PromiseHeld
    <2>1. CASE PlanStep
        BY <2>1, AssignPlanStep, FollowCourseStep DEF PlanStep
    <2>2. CASE \E i \in Indexes : DeleteMoney(i)
        BY <2>2, DeleteMoneyStep
    <2> QED BY <2>1, <2>2
<1> QED BY <1>1, LedgerInvHolds, PTL DEF LedgerSpec, PromiseKept

LEMMA InitShape == LedgerInit => Collection!Init
<1> SUFFICES ASSUME LedgerInit PROVE Collection!Init
    OBVIOUS
<1> DEFINE yes == TRUE
<1>0. Shape = ShapeOf(plan # NotSet, entries)
    BY ShapeNow
<1>1. CASE program \in Programs \cup {NotSet} /\ plan = NotSet /\ entries = <<>> /\ quoted = 0
    <2>1. DOMAIN entries = {} /\ (plan # NotSet) = FALSE
        BY <1>1
    <2>2. Cardinality({}) = 0
        BY FS_EmptySet
    <2>3. Shape = Collection!NoCollection
        <3>1. {i \in DOMAIN entries : \/ entries[i].kind = "payment"
                                      \/ entries[i].kind = "slot" /\ Collected(entries[i]) > 0} = {}
            BY <2>1
        <3>2. (\E i \in DOMAIN entries : entries[i].kind = "token") = FALSE
              /\ (\E i \in DOMAIN entries : \/ entries[i].kind = "balance"
                                            \/ entries[i].kind = "slot" /\ CollectedFrom(entries) < FeeOf(entries)) = FALSE
            BY <2>1
        <3> QED BY <2>1, <2>2, <3>1, <3>2 DEF Shape, Collection!NoCollection
    <2> QED BY <2>3 DEF Collection!Init, Collection!NoCollection, Collection!Collections
<1>2. CASE /\ program \in Programs
           /\ plan \in {q \in Plans : Offered(program, q)}
           /\ quoted = Price[program][plan]
           /\ entries = OpeningLedger(quoted)
    <2>1. quoted \in Nat /\ quoted > 0 /\ (plan # NotSet) = TRUE
        BY <1>2, PriceTyped
    <2>2. ShapeOf(TRUE, OpeningLedger(quoted)) = [Collection!NoCollection EXCEPT !.plan = TRUE, !.due = TRUE]
        BY <2>1, OpensAllDue
    <2>3. Shape = [Collection!NoCollection EXCEPT !.plan = TRUE, !.due = TRUE]
        BY <1>0, <1>2, <2>1, <2>2
    <2> HIDE DEF Shape
    <2> QED BY <2>3 DEF Collection!Init, Collection!NoCollection, Collection!Collections
<1>3. CASE /\ program \in Programs
           /\ plan \in {q \in Plans : Offered(program, q)}
           /\ quoted = Price[program][plan]
           /\ \E first, second \in LegacySlots :
                 /\ entries \in {<<first>>, <<first, second>>}
                 /\ FeeOf(entries) = quoted
    <2>1. quoted \in Nat /\ quoted > 0 /\ (plan # NotSet) = TRUE /\ FeeOf(entries) = quoted
        BY <1>3, PriceTyped
    <2>2. PICK first \in LegacySlots, second \in LegacySlots : entries \in {<<first>>, <<first, second>>}
        BY <1>3
    <2>3. Slotted(entries) /\ \A i \in DOMAIN entries : entries[i].kind = "slot"
        <3>1. first \in SlotEntries /\ second \in SlotEntries
            BY SlotsAssumption DEF SlotEntries
        <3>2. <<first>> \in Seq(SlotEntries) /\ <<first, second>> \in Seq(SlotEntries)
            BY <3>1
        <3>3. <<first>> # <<>> /\ <<first, second>> # <<>>
            OBVIOUS
        <3>4. entries \in Seq(SlotEntries) /\ entries # <<>>
            BY <2>2, <3>2, <3>3
        <3>5. \A i \in DOMAIN entries : entries[i] \in SlotEntries
            BY <3>4
        <3> QED BY <3>4, <3>5 DEF Slotted, SlotEntries
    <2>4. PICK ms \in Seq(MoneyEntries), rest \in Seq(BalanceEntries) : Holds(entries, ms, rest)
        BY <2>3, AsLedger
    <2>5. ms # <<>> \/ rest # <<>>
        <3>1. FeeOf(ms \o rest) = quoted
            BY <2>1, <2>4 DEF Holds
        <3>2. CASE ms = <<>> /\ rest = <<>>
            <4>1. FeeOf(<<>> \o <<>>) = 0
                BY NothingKept
            <4> QED BY <2>1, <3>1, <3>2, <4>1
        <3> QED BY <3>2
    <2> DEFINE c == ShapeOf(TRUE, entries)
    <2>6. /\ c = Shaped(TRUE, HasToken(ms), Payments(ms), rest # <<>>)
          /\ HasToken(ms) \in BOOLEAN /\ Len(ms) \in Nat /\ (HasToken(ms) => Len(ms) > 0)
          /\ Collection!HasMoney(c) <=> ms # <<>>
        BY <2>4, ShapeHeld
    <2>7. Payments(ms) \in Nat
        BY <2>6 DEF Payments
    <2>8. Shape = c
        BY <1>0, <2>1
    <2>9. ~Shape.token
        BY <2>3 DEF Shape
    <2> HIDE DEF c
    <2>10. c \in Collection!Collections /\ c.plan /\ (c.due <=> rest # <<>>)
        BY <2>6, <2>7 DEF Shaped, Collection!Collections
    <2> QED BY <2>5, <2>6, <2>8, <2>9, <2>10 DEF Collection!Init
<1> QED BY <1>1, <1>2, <1>3 DEF LedgerInit

(* The ledger with its amounts does to the collection's shape only what    *)
(* PaymentCollection allows: whoever reads the shape alone is right.       *)
THEOREM CollectionImplemented == LedgerSpec => ImplementsCollection
<1>1. LedgerInit => Collection!Init
    BY InitShape
<1>2. LedgerInv /\ [LedgerNext]_ledgerVars => [Collection!Next]_Shape
    <2> SUFFICES ASSUME LedgerInv, [LedgerNext]_ledgerVars PROVE ShapeAllowed
        BY DEF ShapeAllowed, Collection!Next
    <2>1. CASE PlanStep
        BY <2>1, AssignPlanStep, FollowCourseStep DEF PlanStep
    <2>2. CASE FormStep
        BY <2>2, ResubmitStep DEF FormStep
    <2>3. CASE MoneyStep
        BY <2>3, RecordMoneyStep, CorrectMoneyStep, DeleteMoneyStep DEF MoneyStep
    <2>4. CASE DateStep
        BY <2>4, DateBalanceStep DEF DateStep
    <2>5. CASE UNCHANGED ledgerVars
        BY <2>5 DEF ShapeAllowed, Shape, ledgerVars
    <2> QED BY <2>1, <2>2, <2>3, <2>4, <2>5 DEF LedgerNext
<1> QED BY <1>1, <1>2, LedgerInvHolds, PTL DEF LedgerSpec, ImplementsCollection, Collection!Spec

-----------------------------------------------------------------------------
(* The pipeline.  A save is computed from a document that was stored at    *)
(* some time, so the argument is about documents, not about interleavings: *)
(* every request takes a sound document to sound documents (one lemma a    *)
(* request), hence the stored document and every copy in hand stay sound.  *)

SoundLeads == {d \in Leads : Sound(d)}

IInv ==
    /\ lead \in SoundLeads
    /\ loaded \in [Workers -> SoundLeads \cup {None}]

-----------------------------------------------------------------------------
(* Collections: what each change preserves. *)

PlannedCollections == {c \in Collections : Planned(c)}

LEMMA EmptyShape == NoCollection \in PlannedCollections
BY DEF NoCollection, PlannedCollections, Collections, Planned

(* Pricing keeps the money and the token. *)
LEMMA PricedShape ==
    ASSUME NEW c \in PlannedCollections, NEW e \in Priced(c)
    PROVE  /\ e \in PlannedCollections
           /\ e.token = c.token
           /\ HasMoney(e) <=> HasMoney(c)
<1>1. c \in Collections
    BY DEF PlannedCollections
<1>2. PICK b \in BOOLEAN : e = [c EXCEPT !.plan = TRUE, !.due = b]
    BY DEF Priced
<1>3. HasMoney(c) \/ e.due
    BY DEF Priced
<1>4. /\ e \in Collections
      /\ e.plan
      /\ e.token = c.token
      /\ e.payments = c.payments
    BY <1>1, <1>2 DEF Collections
<1> QED BY <1>1, <1>3, <1>4 DEF PlannedCollections, Planned, HasMoney

(* Only a collection with no money on it is dropped or rebuilt. *)
LEMMA EmptiedShape ==
    ASSUME NEW c \in PlannedCollections, NEW e \in Unpriced(c) \cup Rebuilt(c)
    PROVE  /\ e \in PlannedCollections
           /\ ~HasMoney(c)
<1>1. CASE e \in Unpriced(c)
    BY <1>1, EmptyShape DEF Unpriced
<1>2. CASE e \in Rebuilt(c)
    <2>1. e = [NoCollection EXCEPT !.plan = TRUE, !.due = TRUE] /\ ~HasMoney(c)
        BY <1>2 DEF Rebuilt
    <2>2. e \in Collections /\ e.plan /\ e.due
        BY <2>1 DEF NoCollection, Collections
    <2> QED BY <2>1, <2>2 DEF PlannedCollections, Planned
<1> QED BY <1>1, <1>2

(* Money recorded is money on record, and the token stays. *)
LEMMA TakenShape ==
    ASSUME NEW c \in PlannedCollections,
           NEW e \in UNION {TokenTaken(c), PaymentTaken(c), Corrected(c)}
    PROVE  /\ e \in PlannedCollections
           /\ c.token => e.token
           /\ HasMoney(e)
<1>1. c \in Collections
    BY DEF PlannedCollections
<1>2. SUFFICES e \in Collections /\ e.plan /\ (c.token => e.token) /\ HasMoney(e)
    BY DEF PlannedCollections, Planned
<1>3. CASE e \in TokenTaken(c)
    <2>1. PICK b \in BOOLEAN : e = [c EXCEPT !.token = TRUE, !.due = b] /\ c.plan
        BY <1>3 DEF TokenTaken
    <2> QED BY <1>1, <2>1 DEF Collections, HasMoney
<1>4. CASE e \in PaymentTaken(c)
    <2>1. PICK b \in BOOLEAN : e = [c EXCEPT !.payments = @ + 1, !.due = b] /\ c.plan
        BY <1>4 DEF PaymentTaken
    <2>2. c.payments + 1 \in Nat /\ c.payments + 1 > 0
        BY <1>1 DEF Collections
    <2>3. e \in Collections /\ e.plan /\ e.token = c.token /\ e.payments = c.payments + 1
        BY <1>1, <2>1, <2>2 DEF Collections
    <2> QED BY <2>2, <2>3 DEF HasMoney
<1>5. CASE e \in Corrected(c)
    <2>1. PICK b \in BOOLEAN : e = [c EXCEPT !.due = b] /\ c.plan /\ HasMoney(c)
        BY <1>5 DEF Corrected
    <2> QED BY <1>1, <2>1 DEF Collections, HasMoney
<1> QED BY <1>3, <1>4, <1>5

LEMMA TokenTakenShape ==
    ASSUME NEW c \in PlannedCollections, NEW e \in TokenTaken(c)
    PROVE  e.token
BY DEF PlannedCollections, Collections, TokenTaken

(* An entry taken off goes back onto the balance, under the same plan. *)
LEMMA RemovedShape ==
    ASSUME NEW c \in PlannedCollections, NEW e \in TokenRemoved(c) \cup PaymentRemoved(c)
    PROVE  e \in PlannedCollections
<1>1. c \in Collections /\ c.plan
    <2>1. HasMoney(c)
        BY DEF TokenRemoved, PaymentRemoved, HasMoney
    <2>2. ~HasMoney(NoCollection)
        BY DEF HasMoney, NoCollection
    <2> QED BY <2>1, <2>2 DEF PlannedCollections, Planned
<1>2. SUFFICES e \in Collections /\ e.plan /\ e.due
    BY DEF PlannedCollections, Planned
<1>3. CASE e \in TokenRemoved(c)
    <2>1. e = [c EXCEPT !.token = FALSE, !.due = TRUE]
        BY <1>3 DEF TokenRemoved
    <2> QED BY <1>1, <2>1 DEF Collections
<1>4. CASE e \in PaymentRemoved(c)
    <2>1. e = [c EXCEPT !.payments = @ - 1, !.due = TRUE] /\ c.payments > 0
        BY <1>4 DEF PaymentRemoved
    <2>2. c.payments - 1 \in Nat
        BY <1>1, <2>1 DEF Collections
    <2> QED BY <1>1, <2>1, <2>2 DEF Collections
<1> QED BY <1>3, <1>4

LEMMA SoundCollection ==
    ASSUME NEW d \in SoundLeads
    PROVE  d.col \in PlannedCollections
BY DEF SoundLeads, Sound, Leads, PlannedCollections

-----------------------------------------------------------------------------
(* Documents: each request takes a sound one to sound ones. *)

(* The stage a request may set stands on the money of the document it was  *)
(* checked against.                                                        *)
LEMMA GateOpens ==
    ASSUME NEW d \in SoundLeads, NEW stage \in Stages, MayEnter(d, stage)
    PROVE  /\ stage = "token_amount" => d.col.token
           /\ stage \in MoneyStages => HasMoney(d.col) \/ d.wasPaid
<1>1. CASE d.status = stage
    BY <1>1 DEF SoundLeads, Sound, TokenBacked, MoneyBacked
<1>2. CASE d.status # stage
    BY <1>2 DEF MayEnter, FirstPaymentRecorded, SoundLeads, Sound
<1> QED BY <1>1, <1>2

LEMMA UpdatedSound ==
    ASSUME NEW d \in SoundLeads, NEW e \in Updated(d)
    PROVE  e \in SoundLeads
<1>1. PICK stage \in {s \in Stages : MayEnter(d, s)}, paid \in BOOLEAN,
           col \in {d.col} \cup Priced(d.col) \cup Unpriced(d.col) :
        e = Edited(d, stage, paid, col)
    BY DEF Updated
<1>2. d \in Leads /\ Sound(d) /\ d.col \in PlannedCollections
    BY SoundCollection DEF SoundLeads
<1>3. /\ col \in PlannedCollections
      /\ d.col.token => col.token
      /\ HasMoney(d.col) => HasMoney(col)
    <2>1. CASE col = d.col
        BY <1>2, <2>1
    <2>2. CASE col \in Priced(d.col)
        BY <1>2, <2>2, PricedShape
    <2>3. CASE col \in Unpriced(d.col)
        BY <1>2, <2>3, EmptiedShape DEF HasMoney
    <2> QED BY <2>1, <2>2, <2>3
<1>4. /\ e \in Leads
      /\ e.status = stage
      /\ e.col = col
      /\ e.paid = paid
      /\ e.wasPaid = (d.wasPaid \/ paid)
    BY <1>1, <1>2, <1>3 DEF Edited, WithPaid, Leads, PlannedCollections
<1>5. /\ stage = "token_amount" => d.col.token
      /\ stage \in MoneyStages => HasMoney(d.col) \/ d.wasPaid
    BY GateOpens
<1> QED BY <1>3, <1>4, <1>5 DEF SoundLeads, Sound, TokenBacked, MoneyBacked, PlannedCollections
LEMMA ReviewedSound ==
    ASSUME NEW d \in SoundLeads, NEW e \in Reviewed(d)
    PROVE  e \in SoundLeads
<1>1. PICK stage \in {s \in Stages : MayEnter(d, s)}, paid \in BOOLEAN :
        e = [WithPaid(d, paid) EXCEPT !.status = stage]
    BY DEF Reviewed
<1>2. d \in Leads /\ Sound(d)
    BY DEF SoundLeads
<1>3. /\ e \in Leads
      /\ e.status = stage
      /\ e.col = d.col
      /\ e.paid = paid
      /\ e.wasPaid = (d.wasPaid \/ paid)
    BY <1>1, <1>2 DEF WithPaid, Leads
<1>4. /\ stage = "token_amount" => d.col.token
      /\ stage \in MoneyStages => HasMoney(d.col) \/ d.wasPaid
    BY GateOpens
<1> QED BY <1>2, <1>3, <1>4 DEF SoundLeads, Sound, TokenBacked, MoneyBacked

LEMMA PaymentInfoUpdatedSound ==
    ASSUME NEW d \in SoundLeads, NEW e \in PaymentInfoUpdated(d)
    PROVE  e \in SoundLeads
<1>1. PICK paid \in BOOLEAN : e = WithPaid(d, paid)
    BY DEF PaymentInfoUpdated
<1>2. d \in Leads /\ Sound(d)
    BY DEF SoundLeads
<1>3. /\ e \in Leads
      /\ e.status = d.status
      /\ e.col = d.col
      /\ e.paid = paid
      /\ e.wasPaid = (d.wasPaid \/ paid)
    BY <1>1, <1>2 DEF WithPaid, Leads
<1> QED BY <1>2, <1>3 DEF SoundLeads, Sound, TokenBacked, MoneyBacked

(* Requests that write the collection and leave the stage: enough that the *)
(* new collection is planned and still backs the stage.                    *)
LEMMA CollectionWritten ==
    ASSUME NEW d \in SoundLeads, NEW col \in PlannedCollections, NEW stage \in Stages,
           stage = "token_amount" => col.token,
           stage \in MoneyStages => HasMoney(col) \/ d.wasPaid
    PROVE  [d EXCEPT !.col = col, !.status = stage] \in SoundLeads
<1> DEFINE e == [d EXCEPT !.col = col, !.status = stage]
<1>1. d \in Leads /\ Sound(d)
    BY DEF SoundLeads
<1>2. /\ e \in Leads
      /\ e.status = stage
      /\ e.col = col
      /\ e.paid = d.paid
      /\ e.wasPaid = d.wasPaid
    BY <1>1 DEF Leads, PlannedCollections
<1>3. Sound(e)
    BY <1>1, <1>2 DEF Sound, TokenBacked, MoneyBacked, PlannedCollections
<1> QED BY <1>2, <1>3 DEF SoundLeads

LEMMA CollectionReplaced ==
    ASSUME NEW d \in SoundLeads, NEW col \in PlannedCollections,
           d.status = "token_amount" => col.token,
           d.status \in MoneyStages => HasMoney(col) \/ d.wasPaid
    PROVE  [d EXCEPT !.col = col] \in SoundLeads
<1>1. d \in Leads
    BY DEF SoundLeads
<1>2. [d EXCEPT !.col = col] = [d EXCEPT !.col = col, !.status = d.status] /\ d.status \in Stages
    BY <1>1 DEF Leads
<1> QED BY <1>2, CollectionWritten

(* What the stage of a sound document stands on. *)
LEMMA StageBacked ==
    ASSUME NEW d \in SoundLeads
    PROVE  /\ d.status \in Stages
           /\ d.status = "token_amount" => d.col.token
           /\ d.status \in MoneyStages => HasMoney(d.col) \/ d.wasPaid
BY DEF SoundLeads, Sound, Leads, TokenBacked, MoneyBacked

LEMMA PlanAssignedSound ==
    ASSUME NEW d \in SoundLeads, NEW e \in PlanAssigned(d)
    PROVE  e \in SoundLeads
<1>1. PICK col \in Priced(d.col) : e = [d EXCEPT !.col = col]
    BY DEF PlanAssigned
<1>2. col \in PlannedCollections /\ col.token = d.col.token /\ (HasMoney(col) <=> HasMoney(d.col))
    BY <1>1, SoundCollection, PricedShape
<1> QED BY <1>1, <1>2, StageBacked, CollectionReplaced

LEMMA ResubmittedSound ==
    ASSUME NEW d \in SoundLeads, NEW e \in Resubmitted(d)
    PROVE  e \in SoundLeads
<1>1. PICK col \in {d.col} \cup Rebuilt(d.col) : e = [d EXCEPT !.col = col]
    BY DEF Resubmitted
<1>2. CASE col = d.col
    BY <1>1, <1>2, SoundCollection, StageBacked, CollectionReplaced
<1>3. CASE col \in Rebuilt(d.col)
    <2>1. col \in PlannedCollections /\ ~HasMoney(d.col)
        BY <1>3, SoundCollection, EmptiedShape
    <2>2. ~d.col.token
        BY <2>1 DEF HasMoney
    <2> QED BY <1>1, <2>1, <2>2, StageBacked, CollectionReplaced
<1> QED BY <1>2, <1>3

LEMMA TokenRecordedSound ==
    ASSUME NEW d \in SoundLeads, NEW e \in TokenRecorded(d)
    PROVE  e \in SoundLeads
<1> DEFINE stage == IF d.status \in BeforeToken THEN "token_amount" ELSE d.status
<1>1. PICK col \in TokenTaken(d.col) :
        e = [d EXCEPT !.col = col, !.status = IF @ \in BeforeToken THEN "token_amount" ELSE @]
    BY DEF TokenRecorded
<1>2. d \in Leads
    BY DEF SoundLeads
<1>3. e = [d EXCEPT !.col = col, !.status = stage]
    BY <1>1, <1>2 DEF Leads
<1>4. col \in PlannedCollections /\ col.token /\ HasMoney(col)
    BY <1>1, SoundCollection, TakenShape, TokenTakenShape
<1>5. stage \in Stages
    BY StageBacked DEF Stages
<1> HIDE DEF stage
<1> QED BY <1>3, <1>4, <1>5, CollectionWritten

LEMMA PaymentRecordedSound ==
    ASSUME NEW d \in SoundLeads, NEW e \in PaymentRecorded(d)
    PROVE  e \in SoundLeads
<1>1. PICK col \in PaymentTaken(d.col) \cup Corrected(d.col) : e = [d EXCEPT !.col = col]
    BY DEF PaymentRecorded
<1>2. col \in PlannedCollections /\ (d.col.token => col.token) /\ HasMoney(col)
    BY <1>1, SoundCollection, TakenShape
<1> QED BY <1>1, <1>2, StageBacked, CollectionReplaced

LEMMA EntryDeletedSound ==
    ASSUME NEW d \in SoundLeads, NEW e \in EntryDeleted(d)
    PROVE  e \in SoundLeads
<1>1. PICK col \in TokenRemoved(d.col) \cup PaymentRemoved(d.col) :
        /\ e = [d EXCEPT !.col = col]
        /\ d.status = "token_amount" => col.token
        /\ d.status \in PaidStages => HasMoney(col)
    BY DEF EntryDeleted
<1>2. col \in PlannedCollections
    BY <1>1, SoundCollection, RemovedShape
<1> QED BY <1>1, <1>2, CollectionReplaced DEF MoneyStages

(* Requests that write the stage alone. *)
LEMMA StageWritten ==
    ASSUME NEW d \in SoundLeads, NEW stage \in Stages \ PaidStages
    PROVE  [d EXCEPT !.status = stage] \in SoundLeads
BY DEF SoundLeads, Sound, Leads, TokenBacked, MoneyBacked, PaidStages, MoneyStages

LEMMA StageRequestSound ==
    ASSUME NEW d \in SoundLeads, NEW e \in UNION {Quit(d), Rejoined(d), FollowedUp(d)}
    PROVE  e \in SoundLeads
<1>1. \E stage \in Stages \ PaidStages : e = [d EXCEPT !.status = stage]
    BY DEF Quit, Rejoined, FollowedUp, Stages, PaidStages
<1> QED BY <1>1, StageWritten

LEMMA PaymentApprovedSound ==
    ASSUME NEW d \in SoundLeads, NEW e \in PaymentApproved(d)
    PROVE  e \in SoundLeads
<1>1. /\ e = [d EXCEPT !.status = "batch_confirmation", !.approved = TRUE]
      /\ d.status = "financial_approval"
    BY DEF PaymentApproved
<1>2. d \in Leads /\ Sound(d)
    BY DEF SoundLeads
<1>3. /\ e \in Leads
      /\ e.status = "batch_confirmation"
      /\ e.col = d.col
      /\ e.paid = d.paid
      /\ e.wasPaid = d.wasPaid
    BY <1>1, <1>2 DEF Leads, Stages
<1> QED BY <1>1, <1>2, <1>3 DEF SoundLeads, Sound, TokenBacked, MoneyBacked, MoneyStages, PaidStages

LEMMA DeletedSound ==
    ASSUME NEW d \in SoundLeads
    PROVE  [d EXCEPT !.deleted = TRUE] \in SoundLeads
BY DEF SoundLeads, Sound, Leads, TokenBacked, MoneyBacked
-----------------------------------------------------------------------------
(* Steps. *)

LEMMA HeldSound ==
    ASSUME IInv, NEW w \in Requests, Holding(w)
    PROVE  InHand(w) \in SoundLeads
BY DEF IInv, Requests, Holding, InHand

(* A save of sound documents keeps everything in hand sound. *)
LEMMA SaveSound ==
    ASSUME IInv, NEW w \in Requests, NEW documents, Save(w, documents),
           documents \subseteq SoundLeads
    PROVE  IInv'
<1>1. lead' \in SoundLeads
    BY DEF Save
<1>2. loaded' \in [Workers -> SoundLeads \cup {None}]
    BY DEF Save, IInv, Requests
<1> QED BY <1>1, <1>2 DEF IInv

LEMMA MoneyRequestSound ==
    ASSUME IInv, NEW w \in Requests, MoneyRequest(w)
    PROVE  IInv'
<1> DEFINE d == InHand(w)
<1>1. CASE AssignPlan(w)
    <2>1. d \in SoundLeads /\ Save(w, PlanAssigned(d))
        BY <1>1, HeldSound DEF AssignPlan
    <2>2. PlanAssigned(d) \subseteq SoundLeads
        BY <2>1, PlanAssignedSound
    <2> QED BY <2>1, <2>2, SaveSound
<1>2. CASE UpdatePaymentInfo(w)
    <2>1. d \in SoundLeads /\ Save(w, PaymentInfoUpdated(d))
        BY <1>2, HeldSound DEF UpdatePaymentInfo
    <2>2. PaymentInfoUpdated(d) \subseteq SoundLeads
        BY <2>1, PaymentInfoUpdatedSound
    <2> QED BY <2>1, <2>2, SaveSound
<1>3. CASE Resubmit(w)
    <2>1. d \in SoundLeads /\ Save(w, Resubmitted(d))
        BY <1>3, HeldSound DEF Resubmit
    <2>2. Resubmitted(d) \subseteq SoundLeads
        BY <2>1, ResubmittedSound
    <2> QED BY <2>1, <2>2, SaveSound
<1>4. CASE RecordToken(w)
    <2>1. d \in SoundLeads /\ Save(w, TokenRecorded(d))
        BY <1>4, HeldSound DEF RecordToken
    <2>2. TokenRecorded(d) \subseteq SoundLeads
        BY <2>1, TokenRecordedSound
    <2> QED BY <2>1, <2>2, SaveSound
<1>5. CASE RecordPayment(w)
    <2>1. d \in SoundLeads /\ Save(w, PaymentRecorded(d))
        BY <1>5, HeldSound DEF RecordPayment
    <2>2. PaymentRecorded(d) \subseteq SoundLeads
        BY <2>1, PaymentRecordedSound
    <2> QED BY <2>1, <2>2, SaveSound
<1>6. CASE DeleteEntry(w)
    <2>1. d \in SoundLeads /\ Save(w, EntryDeleted(d))
        BY <1>6, HeldSound DEF DeleteEntry
    <2>2. EntryDeleted(d) \subseteq SoundLeads
        BY <2>1, EntryDeletedSound
    <2> QED BY <2>1, <2>2, SaveSound
<1> QED BY <1>1, <1>2, <1>3, <1>4, <1>5, <1>6 DEF MoneyRequest

LEMMA StageRequestStepSound ==
    ASSUME IInv, NEW w \in Requests, StageRequest(w)
    PROVE  IInv'
<1> DEFINE d == InHand(w)
<1>1. CASE Update(w)
    <2>1. d \in SoundLeads /\ Save(w, Updated(d))
        BY <1>1, HeldSound DEF Update
    <2>2. Updated(d) \subseteq SoundLeads
        BY <2>1, UpdatedSound
    <2> QED BY <2>1, <2>2, SaveSound
<1>2. CASE Review(w)
    <2>1. d \in SoundLeads /\ Save(w, Reviewed(d))
        BY <1>2, HeldSound DEF Review
    <2>2. Reviewed(d) \subseteq SoundLeads
        BY <2>1, ReviewedSound
    <2> QED BY <2>1, <2>2, SaveSound
<1>3. CASE ApprovePayment(w)
    <2>1. d \in SoundLeads /\ Save(w, PaymentApproved(d))
        BY <1>3, HeldSound DEF ApprovePayment
    <2>2. PaymentApproved(d) \subseteq SoundLeads
        BY <2>1, PaymentApprovedSound
    <2> QED BY <2>1, <2>2, SaveSound
<1>4. CASE MarkLost(w)
    <2>1. d \in SoundLeads /\ Save(w, Quit(d))
        BY <1>4, HeldSound DEF MarkLost
    <2>2. Quit(d) \subseteq SoundLeads
        BY <2>1, StageRequestSound
    <2> QED BY <2>1, <2>2, SaveSound
<1>5. CASE Rejoin(w)
    <2>1. d \in SoundLeads /\ Save(w, Rejoined(d))
        BY <1>5, HeldSound DEF Rejoin
    <2>2. Rejoined(d) \subseteq SoundLeads
        BY <2>1, StageRequestSound
    <2> QED BY <2>1, <2>2, SaveSound
<1>6. CASE MoveToFollowUp(w)
    <2>1. d \in SoundLeads /\ Save(w, FollowedUp(d))
        BY <1>6, HeldSound DEF MoveToFollowUp
    <2>2. FollowedUp(d) \subseteq SoundLeads
        BY <2>1, StageRequestSound
    <2> QED BY <2>1, <2>2, SaveSound
<1>7. CASE Touch(w)
    <2>1. d \in SoundLeads /\ Save(w, Touched(d))
        BY <1>7, HeldSound DEF Touch
    <2>2. Touched(d) \subseteq SoundLeads
        BY <2>1 DEF Touched
    <2> QED BY <2>1, <2>2, SaveSound
<1>8. CASE Delete(w)
    <2>1. d \in SoundLeads /\ Save(w, Deleted(d))
        BY <1>8, HeldSound DEF Delete
    <2>2. Deleted(d) \subseteq SoundLeads
        BY <2>1, DeletedSound DEF Deleted
    <2> QED BY <2>1, <2>2, SaveSound
<1> QED BY <1>1, <1>2, <1>3, <1>4, <1>5, <1>6, <1>7, <1>8 DEF StageRequest

LEMMA InitSound == Init => IInv
<1> SUFFICES ASSUME Init PROVE IInv
    OBVIOUS
<1>1. Opening \subseteq PlannedCollections
    BY EmptyShape, EmptiedShape DEF Opening
<1>2. /\ lead.status = "new_lead"
      /\ lead.col \in PlannedCollections
      /\ lead \in Leads
    BY <1>1 DEF Init, Leads, Stages, PlannedCollections
<1>3. lead.paid = FALSE
    BY DEF Init
<1>4. lead \in SoundLeads
    BY <1>2, <1>3 DEF SoundLeads, Sound, TokenBacked, MoneyBacked, MoneyStages, PaidStages, PlannedCollections
<1>5. loaded \in [Workers -> SoundLeads \cup {None}]
    BY DEF Init
<1> QED BY <1>4, <1>5 DEF IInv

LEMMA StepSound == IInv /\ [Next]_vars => IInv'
<1> SUFFICES ASSUME IInv, [Next]_vars PROVE IInv'
    OBVIOUS
<1>1. ASSUME NEW w \in Workers, Load(w) PROVE IInv'
    BY <1>1 DEF IInv, Load
<1>2. ASSUME NEW w \in Workers, Drop(w) PROVE IInv'
    BY <1>2 DEF IInv, Drop
<1>3. ASSUME NEW w \in Requests, MoneyRequest(w) PROVE IInv'
    BY <1>3, MoneyRequestSound
<1>4. ASSUME NEW w \in Requests, StageRequest(w) PROVE IInv'
    BY <1>4, StageRequestStepSound
<1>5. CASE Reset
    BY <1>5, DeletedSound DEF IInv, Reset
<1>6. CASE UNCHANGED vars
    BY <1>6 DEF IInv, vars
<1> QED BY <1>1, <1>2, <1>3, <1>4, <1>5, <1>6 DEF Next

(* Sound copies everywhere: the inductive invariant.                      *)
THEOREM Invariance == Spec => []IInv
BY InitSound, StepSound, PTL DEF Spec

-----------------------------------------------------------------------------
(* The stored lead and every copy of it a request holds are well typed,    *)
(* for any number of overlapping requests.                                 *)
THEOREM TypeCorrectness == Spec => []TypeOK
<1>1. IInv => TypeOK
    BY DEF IInv, TypeOK, SoundLeads
<1> QED BY <1>1, Invariance, PTL

(* No interleaving of requests leaves a lead at Token Amount without its   *)
(* token.                                                                  *)
THEOREM TokenGate == Spec => []TokenStageHasToken
<1>1. IInv => TokenStageHasToken
    BY DEF IInv, TokenStageHasToken, SoundLeads, Sound
<1> QED BY <1>1, Invariance, PTL

(* No interleaving of requests leaves a lead in Financial Approval or      *)
(* Batch Confirmation with nothing collected, the older single amount      *)
(* apart.                                                                  *)
THEOREM MoneyGate == Spec => []PaidStageHasMoney
<1>1. IInv => PaidStageHasMoney
    BY DEF IInv, PaidStageHasMoney, SoundLeads, Sound
<1> QED BY <1>1, Invariance, PTL

(* What an overtaken request puts back is sound, however old it is. *)
THEOREM CopiesStaySound == Spec => []EveryCopySound
<1>1. IInv => EveryCopySound
    BY DEF IInv, EveryCopySound, SoundLeads
<1> QED BY <1>1, Invariance, PTL
-----------------------------------------------------------------------------
(* The lead popup: lists of entries, what is of a kind in them and what is not. *)

LEMMA OfKindEmpty ==
    ASSUME NEW kind
    PROVE  OfKind(<<>>, kind) = <<>>
BY AtEmpty DEF OfKind

LEMMA OfKindTypes ==
    ASSUME NEW B, NEW es \in Seq(B), NEW kind
    PROVE  OfKind(es, kind) \in Seq(B)
BY AtTypes DEF OfKind

LEMMA AppendConcat ==
    ASSUME NEW B, NEW these \in Seq(B), NEW those \in Seq(B), NEW e \in B
    PROVE  these \o Append(those, e) = Append(these \o those, e) /\ these \o those \in Seq(B) /\ Append(those, e) \in Seq(B)
OBVIOUS

LEMMA OfKindConcat ==
    ASSUME NEW B, NEW es \in Seq(B), NEW more \in Seq(B), NEW kind
    PROVE  OfKind(es \o more, kind) = OfKind(es, kind) \o OfKind(more, kind)
<1> DEFINE P == {s \in Seq(B) : OfKind(es \o s, kind) = OfKind(es, kind) \o OfKind(s, kind)}
<1>1. OfKind(es, kind) \in Seq(B)
    BY OfKindTypes
<1>2. <<>> \in P
    <2>1. es \o <<>> = es /\ <<>> \in Seq(B) /\ OfKind(es, kind) \o <<>> = OfKind(es, kind)
        BY <1>1, ConcatEmptySeq
    <2> QED BY <2>1, OfKindEmpty
<1>3. ASSUME NEW s \in P \cap Seq(B), NEW e \in B PROVE Append(s, e) \in P
    <2>1. es \o Append(s, e) = Append(es \o s, e) /\ es \o s \in Seq(B) /\ Append(s, e) \in Seq(B)
        BY AppendConcat
    <2>2. OfKind(es \o s, kind) = OfKind(es, kind) \o OfKind(s, kind) /\ OfKind(s, kind) \in Seq(B)
        BY OfKindTypes
    <2>3. OfKind(Append(es \o s, e), kind) = IF e.kind = kind THEN Append(OfKind(es \o s, kind), e) ELSE OfKind(es \o s, kind)
        BY <2>1, OfKindAppend
    <2>4. OfKind(Append(s, e), kind) = IF e.kind = kind THEN Append(OfKind(s, kind), e) ELSE OfKind(s, kind)
        BY OfKindAppend
    <2>5. Append(OfKind(es, kind) \o OfKind(s, kind), e) = OfKind(es, kind) \o Append(OfKind(s, kind), e)
        <3> DEFINE these == OfKind(es, kind)
                   those == OfKind(s, kind)
        <3>1. these \in Seq(B) /\ those \in Seq(B)
            BY OfKindTypes
        <3> HIDE DEF these, those
        <3>2. these \o Append(those, e) = Append(these \o those, e)
            BY <3>1, AppendConcat
        <3> QED BY <3>2 DEF these, those
    <2> QED BY <2>1, <2>2, <2>3, <2>4, <2>5
<1> HIDE DEF P
<1>4. more \in P
    BY <1>2, <1>3, AppendInduction
<1> QED BY <1>4 DEF P

(* A list of one kind. *)
LEMMA AllOfKind ==
    ASSUME NEW B, NEW es \in Seq(B), NEW kind, \A e \in B : e.kind = kind
    PROVE  /\ OfKind(es, kind) = es
           /\ \A other : other # kind => OfKind(es, other) = <<>>
<1> DEFINE P == {s \in Seq(B) : OfKind(s, kind) = s /\ \A other : other # kind => OfKind(s, other) = <<>>}
<1>1. <<>> \in P
    BY OfKindEmpty
<1>2. ASSUME NEW s \in P \cap Seq(B), NEW e \in B PROVE Append(s, e) \in P
    <2>1. OfKind(Append(s, e), kind) = Append(OfKind(s, kind), e)
        BY OfKindAppend
    <2>2. ASSUME NEW other, other # kind PROVE OfKind(Append(s, e), other) = OfKind(s, other)
        BY <2>2, OfKindAppend
    <2>3. OfKind(Append(s, e), kind) = Append(s, e) /\ Append(s, e) \in Seq(B)
        BY <2>1
    <2> QED BY <2>2, <2>3
<1> HIDE DEF P
<1>3. es \in P
    BY <1>1, <1>2, AppendInduction
<1> QED BY <1>3 DEF P

LEMMA OnlyOfKind ==
    ASSUME NEW B, NEW es \in Seq(B), NEW kind
    PROVE  OfKind(es, kind) \in Seq({e \in B : e.kind = kind})
<1> DEFINE K == {e \in B : e.kind = kind}
           P == {s \in Seq(B) : OfKind(s, kind) \in Seq(K)}
<1>1. <<>> \in P
    <2>1. <<>> \in Seq(B) /\ <<>> \in Seq(K)
        OBVIOUS
    <2> QED BY <2>1, OfKindEmpty
<1>2. ASSUME NEW s \in P \cap Seq(B), NEW e \in B PROVE Append(s, e) \in P
    <2>1. OfKind(Append(s, e), kind) = IF e.kind = kind THEN Append(OfKind(s, kind), e) ELSE OfKind(s, kind)
        BY OfKindAppend
    <2>2. e.kind = kind => e \in K
        OBVIOUS
    <2> HIDE DEF K
    <2>3. e.kind = kind => Append(OfKind(s, kind), e) \in Seq(K)
        BY <2>2
    <2> QED BY <2>1, <2>3
<1> HIDE DEF P
<1>3. es \in P
    BY <1>1, <1>2, AppendInduction
<1> QED BY <1>3 DEF P

(* The token and the payments are all there is. *)
LEMMA KindsAdd ==
    ASSUME NEW es \in Seq(Installment)
    PROVE  Len(OfKind(es, "token")) + Len(OfKind(es, "payment")) = Len(es)
<1> DEFINE P == {s \in Seq(Installment) : Len(OfKind(s, "token")) + Len(OfKind(s, "payment")) = Len(s)}
<1>1. <<>> \in P
    BY OfKindEmpty
<1>2. ASSUME NEW s \in P \cap Seq(Installment), NEW e \in Installment PROVE Append(s, e) \in P
    <2>1. OfKind(s, "token") \in Seq(Installment) /\ OfKind(s, "payment") \in Seq(Installment)
        BY OfKindTypes
    <2>2. e.kind \in {"token", "payment"}
        BY DEF Installment
    <2>3. OfKind(Append(s, e), "token") = IF e.kind = "token" THEN Append(OfKind(s, "token"), e) ELSE OfKind(s, "token")
        BY OfKindAppend
    <2>4. OfKind(Append(s, e), "payment") = IF e.kind = "payment" THEN Append(OfKind(s, "payment"), e) ELSE OfKind(s, "payment")
        BY OfKindAppend
    <2> DEFINE tokens == OfKind(s, "token")
               payments == OfKind(s, "payment")
    <2>5. Len(tokens) \in Nat /\ Len(payments) \in Nat /\ Len(s) \in Nat /\ Len(tokens) + Len(payments) = Len(s)
        BY <2>1, LenProperties
    <2>6. Len(Append(tokens, e)) = Len(tokens) + 1 /\ Len(Append(payments, e)) = Len(payments) + 1 /\ Len(Append(s, e)) = Len(s) + 1
          /\ Append(s, e) \in Seq(Installment)
        BY <2>1
    <2>7. Len(OfKind(Append(s, e), "token")) = IF e.kind = "token" THEN Len(tokens) + 1 ELSE Len(tokens)
        BY <2>3, <2>6
    <2>8. Len(OfKind(Append(s, e), "payment")) = IF e.kind = "payment" THEN Len(payments) + 1 ELSE Len(payments)
        BY <2>4, <2>6
    <2> HIDE DEF tokens, payments
    <2>9. Len(OfKind(Append(s, e), "token")) + Len(OfKind(Append(s, e), "payment")) = Len(Append(s, e))
        BY <2>2, <2>5, <2>6, <2>7, <2>8
    <2> QED BY <2>6, <2>9
<1> HIDE DEF P
<1>3. es \in P
    BY <1>1, <1>2, AppendInduction
<1> QED BY <1>3 DEF P

(* Two lists with the same ids and kinds, place by place. *)
Alike(es, others) ==
    /\ Len(es) = Len(others)
    /\ \A i \in 1..Len(es) : es[i].id = others[i].id /\ es[i].kind = others[i].kind

LEMMA OfKindAlike ==
    ASSUME NEW es \in Seq(Installment), NEW others \in Seq(Installment), Alike(es, others), NEW kind
    PROVE  Alike(OfKind(es, kind), OfKind(others, kind))
<1> DEFINE P == {s \in Seq(Installment) :
                    \A t \in Seq(Installment) : Alike(s, t) => Alike(OfKind(s, kind), OfKind(t, kind))}
<1>1. <<>> \in P
    <2> SUFFICES ASSUME NEW t \in Seq(Installment), Alike(<<>>, t) PROVE Alike(OfKind(<<>>, kind), OfKind(t, kind))
        OBVIOUS
    <2>1. t = <<>>
        BY EmptySeq DEF Alike
    <2> QED BY <2>1, OfKindEmpty DEF Alike
<1>2. ASSUME NEW s \in P \cap Seq(Installment), NEW e \in Installment PROVE Append(s, e) \in P
    <2> SUFFICES ASSUME NEW t \in Seq(Installment), Alike(Append(s, e), t)
                 PROVE  Alike(OfKind(Append(s, e), kind), OfKind(t, kind))
        OBVIOUS
    <2> DEFINE n == Len(s)
               f == SubSeq(t, 1, n)
               last == t[n + 1]
    <2>1. n \in Nat /\ Len(t) = n + 1 /\ last \in Installment /\ f \in Seq(Installment) /\ Len(f) = n /\ \A i \in 1..n : f[i] = t[i]
        BY DEF Alike
    <2>2. t = Append(f, last)
        <3>1. Append(f, last) \in Seq(Installment) /\ Len(Append(f, last)) = n + 1
              /\ \A i \in 1..(n + 1) : Append(f, last)[i] = t[i]
            <4> HIDE DEF f, last, n
            <4>1. Append(f, last) \in Seq(Installment) /\ Len(Append(f, last)) = n + 1 /\ Append(f, last)[n + 1] = last
                  /\ \A i \in 1..n : Append(f, last)[i] = f[i]
                BY <2>1
            <4>2. \A i \in 1..(n + 1) : i \in 1..n \/ i = n + 1
                BY <2>1
            <4> QED BY <2>1, <4>1, <4>2 DEF last
        <3> QED BY <2>1, <3>1, SeqEqual
    <2>3. Alike(s, f) /\ e.id = last.id /\ e.kind = last.kind
        <3>1. \A i \in 1..(n + 1) : Append(s, e)[i].id = t[i].id /\ Append(s, e)[i].kind = t[i].kind
            BY DEF Alike
        <3>2. Append(s, e)[n + 1] = e /\ \A i \in 1..n : Append(s, e)[i] = s[i] /\ i \in 1..(n + 1)
            OBVIOUS
        <3>3. n + 1 \in 1..(n + 1)
            BY <2>1
        <3> QED BY <2>1, <3>1, <3>2, <3>3 DEF Alike
    <2> HIDE DEF f, last, n
    <2>4. Alike(OfKind(s, kind), OfKind(f, kind)) /\ OfKind(s, kind) \in Seq(Installment) /\ OfKind(f, kind) \in Seq(Installment)
        BY <2>1, <2>3, OfKindTypes
    <2>5. OfKind(Append(s, e), kind) = IF e.kind = kind THEN Append(OfKind(s, kind), e) ELSE OfKind(s, kind)
        BY OfKindAppend
    <2>6. OfKind(t, kind) = IF last.kind = kind THEN Append(OfKind(f, kind), last) ELSE OfKind(f, kind)
        BY <2>1, <2>2, OfKindAppend
    <2>7. ASSUME NEW u \in Seq(Installment), NEW w \in Seq(Installment), Alike(u, w) PROVE Alike(Append(u, e), Append(w, last))
        BY <2>1, <2>3, <2>7 DEF Alike
    <2> QED BY <2>3, <2>4, <2>5, <2>6, <2>7
<1> HIDE DEF P
<1>3. es \in P
    BY <1>1, <1>2, AppendInduction
<1> QED BY <1>3 DEF P

(* Taking an amount out of a sum. *)
LEMMA TotalWithout ==
    ASSUME NEW amounts \in Seq(Nat), NEW i \in 1..Len(amounts)
    PROVE  Total(RemoveAt(amounts, i)) <= Total(amounts)
<1> DEFINE left == Before(amounts, i)
           right == After(amounts, i)
<1>0. amounts[i] \in Nat
    BY ElementOfSeq
<1>1. left \in Seq(Nat) /\ right \in Seq(Nat) /\ left \o (<<amounts[i]>> \o right) = amounts
    BY <1>0, Around, About
<1>2. RemoveAt(amounts, i) = left \o right
    BY DEF RemoveAt, Before, After
<1> HIDE DEF left, right
<1>3. <<amounts[i]>> \in Seq(Nat) /\ <<amounts[i]>> \o right \in Seq(Nat)
    BY <1>0, <1>1
<1>4. Total(amounts) = Total(left) + (amounts[i] + Total(right))
    <2>1. Total(<<amounts[i]>> \o right) = Total(<<amounts[i]>>) + Total(right) /\ Total(<<amounts[i]>>) = amounts[i]
        BY <1>0, <1>1, <1>3, TotalConcat, TotalOne
    <2>2. Total(left \o (<<amounts[i]>> \o right)) = Total(left) + Total(<<amounts[i]>> \o right)
        BY <1>1, <1>3, TotalConcat
    <2> QED BY <1>1, <2>1, <2>2
<1>5. Total(left \o right) = Total(left) + Total(right) /\ Total(left) \in Nat /\ Total(right) \in Nat
    BY <1>1, TotalConcat, TotalTypes
<1> QED BY <1>0, <1>2, <1>4, <1>5

-----------------------------------------------------------------------------
(* A lead and its entries, and the requests a popup sends. *)

Ops == {"none", "record", "correct", "delete", "balance", "plan", "rejoin", "followup", "stage"}
PopupCalls ==
    [heard : BOOLEAN, op : Ops, phase : {"sent", "ok", "failed", "closes", "done"}, card : Keys, place : Nat,
     kind : {"token", "payment"}, amount : Nat, dated : BOOLEAN, to : AllStages \cup {"none"}, reason : BOOLEAN,
     takes : SUBSET Nat, base : Nat, answer : Lead]

(* What is sent names an operation, and a stage if it moves the lead.      *)
Worded(c) == c.op # "none" /\ (c.op = "stage" => c.to \in Targets)

LEMMA SumTyped ==
    ASSUME NEW es \in Seq(Installment)
    PROVE  /\ [i \in DOMAIN es |-> es[i].amount] \in Seq(Nat)
           /\ Len([i \in DOMAIN es |-> es[i].amount]) = Len(es)
           /\ Total([i \in DOMAIN es |-> es[i].amount]) \in Nat
<1>1. Len(es) \in Nat /\ DOMAIN es = 1..Len(es) /\ \A i \in 1..Len(es) : es[i].amount \in Nat
    <2>1. \A e \in Installment : e.amount \in Nat
        BY DEF Installment
    <2> QED BY <2>1, LenProperties, ElementOfSeq
<1>2. [i \in 1..Len(es) |-> es[i].amount] \in Seq(Nat) /\ Len([i \in 1..Len(es) |-> es[i].amount]) = Len(es)
    BY <1>1
<1> QED BY <1>1, <1>2, TotalTypes

LEMMA SumWithout ==
    ASSUME NEW es \in Seq(Installment), NEW i \in DOMAIN es
    PROVE  /\ RemoveAt(es, i) \in Seq(Installment)
           /\ Total([k \in DOMAIN RemoveAt(es, i) |-> RemoveAt(es, i)[k].amount]) <= Total([k \in DOMAIN es |-> es[k].amount])
<1> DEFINE n == Len(es)
           amounts == [k \in DOMAIN es |-> es[k].amount]
           rest == RemoveAt(es, i)
           others == [k \in DOMAIN rest |-> rest[k].amount]
<1>1. n \in Nat /\ DOMAIN es = 1..n /\ i \in 1..n /\ amounts \in Seq(Nat) /\ Len(amounts) = n
    BY SumTyped, LenProperties
<1>2. \A k \in 1..n : amounts[k] = es[k].amount
    BY <1>1
<1>3. /\ Before(es, i) \in Seq(Installment) /\ After(es, i) \in Seq(Installment)
      /\ Len(Before(es, i)) = i - 1 /\ \A k \in 1..(i - 1) : Before(es, i)[k] = es[k]
      /\ Len(After(es, i)) = n - i /\ \A k \in 1..(n - i) : After(es, i)[k] = es[i + k]
    BY <1>1, Around
<1>4. /\ Before(amounts, i) \in Seq(Nat) /\ After(amounts, i) \in Seq(Nat)
      /\ Len(Before(amounts, i)) = i - 1 /\ \A k \in 1..(i - 1) : Before(amounts, i)[k] = amounts[k]
      /\ Len(After(amounts, i)) = n - i /\ \A k \in 1..(n - i) : After(amounts, i)[k] = amounts[i + k]
    <2> HIDE DEF n, amounts
    <2>1. i \in 1..Len(amounts)
        BY <1>1
    <2> QED BY <1>1, <2>1, Around
<1>5. rest = Before(es, i) \o After(es, i) /\ RemoveAt(amounts, i) = Before(amounts, i) \o After(amounts, i)
    BY DEF RemoveAt, Before, After
<1>6. /\ rest \in Seq(Installment) /\ Len(rest) = n - 1
      /\ \A k \in 1..(n - 1) : rest[k] = IF k <= i - 1 THEN es[k] ELSE es[k + 1]
    <2> HIDE DEF rest, n, amounts
    <2>1. /\ rest \in Seq(Installment) /\ Len(rest) = (i - 1) + (n - i)
          /\ \A k \in 1..((i - 1) + (n - i)) : rest[k] = IF k <= i - 1 THEN Before(es, i)[k] ELSE After(es, i)[k - (i - 1)]
        <3> DEFINE left == Before(es, i)
                   right == After(es, i)
        <3>1. left \in Seq(Installment) /\ right \in Seq(Installment) /\ Len(left) = i - 1 /\ Len(right) = n - i /\ rest = left \o right
            BY <1>3, <1>5
        <3> HIDE DEF left, right
        <3>2. left \o right \in Seq(Installment) /\ Len(left \o right) = Len(left) + Len(right)
              /\ \A k \in 1..(Len(left) + Len(right)) : (left \o right)[k] = IF k <= Len(left) THEN left[k] ELSE right[k - Len(left)]
            BY <3>1, ConcatProperties
        <3>3. /\ rest \in Seq(Installment) /\ Len(rest) = (i - 1) + (n - i)
              /\ \A k \in 1..((i - 1) + (n - i)) : rest[k] = IF k <= i - 1 THEN left[k] ELSE right[k - (i - 1)]
            BY <3>1, <3>2
        <3> QED BY <3>3 DEF left, right
    <2>2. (i - 1) + (n - i) = n - 1
        BY <1>1
    <2>3. ASSUME NEW k \in 1..(n - 1) PROVE rest[k] = IF k <= i - 1 THEN es[k] ELSE es[k + 1]
        <3>1. CASE k <= i - 1
            <4>1. k \in 1..(i - 1)
                BY <1>1, <3>1
            <4> QED BY <1>3, <2>1, <2>2, <3>1, <4>1
        <3>2. CASE ~(k <= i - 1)
            <4>1. k - (i - 1) \in 1..(n - i) /\ i + (k - (i - 1)) = k + 1
                BY <1>1, <3>2
            <4> QED BY <1>3, <2>1, <2>2, <3>2, <4>1
        <3> QED BY <3>1, <3>2
    <2> QED BY <2>1, <2>2, <2>3
<1>7. /\ RemoveAt(amounts, i) \in Seq(Nat) /\ Len(RemoveAt(amounts, i)) = n - 1
      /\ \A k \in 1..(n - 1) : RemoveAt(amounts, i)[k] = IF k <= i - 1 THEN amounts[k] ELSE amounts[k + 1]
    <2> DEFINE less == RemoveAt(amounts, i)
    <2>0. less = Before(amounts, i) \o After(amounts, i)
        BY <1>5
    <2> HIDE DEF less, n, amounts
    <2>1. /\ less \in Seq(Nat) /\ Len(less) = (i - 1) + (n - i)
          /\ \A k \in 1..((i - 1) + (n - i)) : less[k] = IF k <= i - 1 THEN Before(amounts, i)[k] ELSE After(amounts, i)[k - (i - 1)]
        <3> DEFINE left == Before(amounts, i)
                   right == After(amounts, i)
        <3>1. left \in Seq(Nat) /\ right \in Seq(Nat) /\ Len(left) = i - 1 /\ Len(right) = n - i /\ less = left \o right
            BY <1>4, <2>0
        <3> HIDE DEF left, right
        <3>2. left \o right \in Seq(Nat) /\ Len(left \o right) = Len(left) + Len(right)
              /\ \A k \in 1..(Len(left) + Len(right)) : (left \o right)[k] = IF k <= Len(left) THEN left[k] ELSE right[k - Len(left)]
            BY <3>1, ConcatProperties
        <3>3. /\ less \in Seq(Nat) /\ Len(less) = (i - 1) + (n - i)
              /\ \A k \in 1..((i - 1) + (n - i)) : less[k] = IF k <= i - 1 THEN left[k] ELSE right[k - (i - 1)]
            BY <3>1, <3>2
        <3> QED BY <3>3 DEF left, right
    <2>2. (i - 1) + (n - i) = n - 1
        BY <1>1
    <2>3. ASSUME NEW k \in 1..(n - 1) PROVE less[k] = IF k <= i - 1 THEN amounts[k] ELSE amounts[k + 1]
        <3>1. CASE k <= i - 1
            <4>1. k \in 1..(i - 1)
                BY <1>1, <3>1
            <4> QED BY <1>4, <2>1, <2>2, <3>1, <4>1
        <3>2. CASE ~(k <= i - 1)
            <4>1. k - (i - 1) \in 1..(n - i) /\ i + (k - (i - 1)) = k + 1
                BY <1>1, <3>2
            <4> QED BY <1>4, <2>1, <2>2, <3>2, <4>1
        <3> QED BY <3>1, <3>2
    <2> QED BY <2>1, <2>2, <2>3 DEF less
<1>8. others \in Seq(Nat) /\ Len(others) = n - 1 /\ \A k \in 1..(n - 1) : others[k] = rest[k].amount
    <2>1. others \in Seq(Nat) /\ Len(others) = Len(rest)
        BY <1>6, SumTyped
    <2>2. DOMAIN rest = 1..(n - 1)
        BY <1>6, LenProperties
    <2> HIDE DEF rest, n
    <2> QED BY <1>6, <2>1, <2>2
<1> HIDE DEF rest, others, amounts, n
<1>9. ASSUME NEW k \in 1..(n - 1) PROVE others[k] = RemoveAt(amounts, i)[k]
    <2>1. k \in 1..n /\ k + 1 \in 1..n
        BY <1>1
    <2> QED BY <1>2, <1>6, <1>7, <1>8, <2>1
<1>10. others = RemoveAt(amounts, i)
    BY <1>7, <1>8, <1>9, SeqEqual
<1>11. Total(RemoveAt(amounts, i)) <= Total(amounts)
    BY <1>1, TotalWithout
<1> QED BY <1>6, <1>10, <1>11 DEF rest, others, amounts

(* A lead, and where its entries are.                                      *)
LEMMA LeadLists ==
    ASSUME NEW l \in Lead
    PROVE  /\ l.entries \in Seq(Installment) /\ Received(l) \in Nat /\ LeftToPay(l) \in Int
           /\ TokenEntries(l) \in Seq(Installment) /\ PaymentEntries(l) \in Seq(Installment)
           /\ Len(TokenEntries(l)) \in Nat /\ Len(PaymentEntries(l)) \in Nat
           /\ DOMAIN PaymentEntries(l) = 1..Len(PaymentEntries(l))
           /\ Len(TokenEntries(l)) + Len(PaymentEntries(l)) = Len(l.entries)
           /\ DOMAIN l.entries = 1..Len(l.entries)
<1>1. l.entries \in Seq(Installment)
    BY DEF Lead
<1>2. Received(l) \in Nat
    BY <1>1, SumTyped DEF Received
<1>3. LeftToPay(l) \in Int
    BY <1>2, FeeAssumption DEF LeftToPay
<1>4. TokenEntries(l) \in Seq(Installment) /\ PaymentEntries(l) \in Seq(Installment)
    BY <1>1, OfKindTypes DEF TokenEntries, PaymentEntries
<1>5. Len(TokenEntries(l)) + Len(PaymentEntries(l)) = Len(l.entries)
    BY <1>1, KindsAdd DEF TokenEntries, PaymentEntries
<1> QED BY <1>1, <1>2, <1>3, <1>4, <1>5, LenProperties

LEMMA CardPlaces ==
    ASSUME NEW l \in Lead
    PROVE  /\ TokenPaid(l) => 1 \in DOMAIN l.entries
           /\ \A n \in DOMAIN PaymentEntries(l) : n + Len(TokenEntries(l)) \in DOMAIN l.entries
<1> DEFINE t == Len(TokenEntries(l))
           p == Len(PaymentEntries(l))
<1>1. t \in Nat /\ p \in Nat /\ t + p = Len(l.entries) /\ DOMAIN l.entries = 1..(t + p) /\ DOMAIN PaymentEntries(l) = 1..p
    BY LeadLists
<1>2. TokenPaid(l) => t # 0
    BY LeadLists, EmptySeq DEF TokenPaid
<1> HIDE DEF t, p
<1>3. \A n \in 1..p : n + t \in 1..(t + p)
    BY <1>1
<1>4. TokenPaid(l) => 1 \in 1..(t + p)
    BY <1>1, <1>2
<1> QED BY <1>1, <1>3, <1>4 DEF t

-----------------------------------------------------------------------------
(* What a request that is accepted leaves behind. *)

(* A lead whose balance is dated owes something.                           *)
LeadSound(l) == l.dated => Owing(l)

SamePayments(before, after) ==
    /\ Len(PaymentEntries(before)) <= Len(PaymentEntries(after))
    /\ \A n \in 1..Len(PaymentEntries(before)) : PaymentEntries(before)[n].id = PaymentEntries(after)[n].id

SameToken(before, after) == TokenPaid(before) = TokenPaid(after) /\ TokenFormFor(before) = TokenFormFor(after)

(* What a request accepted leaves behind: a lead of the next revision, with *)
(* the payments it had unless one was deleted, and with the token it had   *)
(* unless that was recorded.                                               *)
Leaves(l, c, after) ==
    /\ after \in Lead /\ after.rev = l.rev + 1
    /\ LeadSound(l) => LeadSound(after)
    /\ c.op # "delete" => SamePayments(l, after)
    /\ ~MovesCards(c) => SameToken(l, after)

LEMMA Itself ==
    ASSUME NEW l \in Lead
    PROVE  SamePayments(l, l) /\ SameToken(l, l)
BY LeadLists DEF SamePayments, SameToken

(* Only the entries say which payments and which token there are.          *)
LEMMA SameEntries ==
    ASSUME NEW l \in Lead, NEW after \in Lead, after.entries = l.entries
    PROVE  SamePayments(l, after) /\ SameToken(l, after) /\ Received(after) = Received(l)
           /\ (after.plan = l.plan => LeftToPay(after) = LeftToPay(l))
<1>1. TokenEntries(after) = TokenEntries(l) /\ PaymentEntries(after) = PaymentEntries(l) /\ Received(after) = Received(l)
    BY DEF TokenEntries, PaymentEntries, Received
<1>2. SamePayments(l, l) /\ SameToken(l, l)
    BY Itself
<1> QED BY <1>1, <1>2 DEF SamePayments, SameToken, TokenPaid, TokenFormFor, LeftToPay

LEMMA SimpleRequest ==
    ASSUME NEW l \in Lead, NEW c \in PopupCalls, Accepts(l, c), Worded(c), c.op \notin {"record", "correct", "delete"}
    PROVE  Leaves(l, c, LeadAfter(l, c))
<1> DEFINE after == LeadAfter(l, c)
<1>1. c.op \in {"balance", "plan", "followup", "rejoin", "stage"}
    BY DEF Worded, PopupCalls, Ops
<1>2. l.rev \in Nat /\ l.rev + 1 \in Nat /\ c.dated \in BOOLEAN /\ "new_lead" \in AllStages
    BY DEF Lead, PopupCalls, AllStages, StageOrder, ToSet
<1>3. c.op = "stage" => c.to \in AllStages
    BY TargetsAssumption DEF Worded
<1>4. /\ after \in Lead /\ after.rev = l.rev + 1 /\ after.entries = l.entries
      /\ c.op # "plan" => after.plan = l.plan
      /\ c.op = "plan" => after.plan /\ after.dated = l.dated
      /\ c.op # "balance" => after.dated = l.dated
    <2>1. CASE c.op = "balance"
        BY <1>2, <2>1 DEF LeadAfter, Lead
    <2>2. CASE c.op = "plan"
        BY <1>2, <2>2 DEF LeadAfter, Lead
    <2>3. CASE c.op = "followup"
        BY <1>2, <2>3 DEF LeadAfter, Lead
    <2>4. CASE c.op = "rejoin"
        BY <1>2, <2>4 DEF LeadAfter, Lead
    <2>5. CASE c.op = "stage"
        BY <1>2, <1>3, <2>5 DEF LeadAfter, Lead
    <2> QED BY <1>1, <2>1, <2>2, <2>3, <2>4, <2>5
<1> HIDE DEF after
<1>5. SamePayments(l, after) /\ SameToken(l, after) /\ Received(after) = Received(l) /\ (after.plan = l.plan => LeftToPay(after) = LeftToPay(l))
    BY <1>4, SameEntries
<1>6. ASSUME LeadSound(l), after.dated PROVE Owing(after)
    <2>1. CASE c.op = "balance"
        <3>1. Owing(l)
            BY <2>1 DEF Accepts
        <3> QED BY <1>4, <1>5, <2>1, <3>1 DEF Owing
    <2>2. CASE c.op = "plan"
        <3>1. Owing(l)
            BY <1>4, <1>6, <2>2 DEF LeadSound
        <3>2. l.plan
            BY <3>1 DEF Owing, LeftToPay
        <3>3. after.plan
            BY <1>4, <2>2
        <3> QED BY <1>5, <3>1, <3>2, <3>3 DEF Owing, LeftToPay
    <2>3. CASE c.op \notin {"balance", "plan"}
        BY <1>4, <1>5, <1>6, <2>3 DEF LeadSound, Owing
    <2> QED BY <2>1, <2>2, <2>3
<1> QED BY <1>4, <1>5, <1>6 DEF Leaves, LeadSound, after

LEMMA DeleteRequest ==
    ASSUME NEW l \in Lead, NEW c \in PopupCalls, Accepts(l, c), c.op = "delete"
    PROVE  Leaves(l, c, LeadAfter(l, c))
<1> DEFINE after == LeadAfter(l, c)
<1>1. c.place \in DOMAIN l.entries
    BY DEF Accepts
<1>2. /\ RemoveAt(l.entries, c.place) \in Seq(Installment)
      /\ Total([k \in DOMAIN RemoveAt(l.entries, c.place) |-> RemoveAt(l.entries, c.place)[k].amount]) <= Received(l)
    BY <1>1, SumWithout, LeadLists DEF Received
<1>3. l.rev \in Nat /\ l.dated \in BOOLEAN /\ Owing(l) \in BOOLEAN
    BY DEF Lead, Owing
<1>4. /\ after \in Lead /\ after.rev = l.rev + 1 /\ after.entries = RemoveAt(l.entries, c.place) /\ after.plan = l.plan
      /\ after.dated = (l.dated /\ Owing(l))
    <2> DEFINE rest == RemoveAt(l.entries, c.place)
               dated == l.dated /\ Owing(l)
    <2>1. after = [[l EXCEPT !.entries = rest, !.dated = dated] EXCEPT !.rev = l.rev + 1]
        BY DEF LeadAfter
    <2>2. rest \in Seq(Installment) /\ dated \in BOOLEAN /\ l.rev + 1 \in Nat
        BY <1>2, <1>3
    <2> HIDE DEF after, rest, dated
    <2>3. /\ after \in Lead /\ after.rev = l.rev + 1 /\ after.entries = rest /\ after.plan = l.plan /\ after.dated = dated
        BY <2>1, <2>2 DEF Lead
    <2> QED BY <2>3 DEF rest, dated
<1> HIDE DEF after
<1>5. Received(after) <= Received(l) /\ Received(after) \in Nat /\ Received(l) \in Nat
    BY <1>2, <1>4, LeadLists DEF Received
<1>6. Owing(l) => Owing(after)
    BY <1>4, <1>5, FeeAssumption DEF Owing, LeftToPay
<1>7. MovesCards(c)
    BY DEF MovesCards
<1> QED BY <1>4, <1>6, <1>7 DEF Leaves, LeadSound, after

(* What recording and correcting have in common.                           *)
LEMMA RecordedLead ==
    ASSUME NEW l \in Lead, NEW c \in PopupCalls, c.op \in {"record", "correct"}, NEW ledger \in Seq(Installment),
           ledger = IF c.op = "record"
                    THEN OldestFirst(Append(l.entries, [id |-> l.rev + 3, kind |-> c.kind, amount |-> c.amount]))
                    ELSE [l.entries EXCEPT ![c.place].amount = c.amount]
    PROVE  /\ LeadAfter(l, c) \in Lead /\ LeadAfter(l, c).rev = l.rev + 1
           /\ LeadAfter(l, c).entries = ledger /\ LeadSound(LeadAfter(l, c))
<1> DEFINE after == [l EXCEPT !.entries = ledger]
           dated == Owing(after) /\ (c.dated \/ l.dated)
           toToken == c.op = "record" /\ c.kind = "token" /\ l.stage \in {"new_lead", "rnr", "pre_screening"}
           stage == IF toToken THEN "token_amount" ELSE l.stage
           done == [after EXCEPT !.dated = dated, !.stage = stage]
<1>1. after \in Lead /\ after.entries = ledger /\ after.plan = l.plan /\ after.stage = l.stage /\ after.dated = l.dated /\ after.rev = l.rev
    BY DEF Lead
<1>2. Recorded(l, c) = done
    BY <1>1 DEF Recorded
<1>3. "token_amount" \in AllStages /\ l.stage \in AllStages /\ l.rev \in Nat
    BY DEF AllStages, StageOrder, ToSet, Lead
<1>4. stage \in AllStages /\ dated \in BOOLEAN
    BY <1>3
<1> HIDE DEF stage, dated
<1>5. done \in Lead /\ done.entries = ledger /\ done.dated = dated /\ done.plan = l.plan /\ done.rev = l.rev
    <2> HIDE DEF after
    <2> QED BY <1>1, <1>4 DEF Lead
<1> HIDE DEF done
<1>6. LeadAfter(l, c) = [done EXCEPT !.rev = l.rev + 1]
    BY <1>2 DEF LeadAfter
<1>7. LeadAfter(l, c) \in Lead /\ LeadAfter(l, c).rev = l.rev + 1 /\ LeadAfter(l, c).entries = ledger
      /\ LeadAfter(l, c).dated = dated /\ LeadAfter(l, c).plan = l.plan
    BY <1>3, <1>5, <1>6 DEF Lead
<1>8. dated => Owing(LeadAfter(l, c))
    <2>1. Received(LeadAfter(l, c)) = Received(after)
        BY <1>1, <1>7 DEF Received
    <2> QED BY <1>1, <1>7, <2>1 DEF dated, Owing, LeftToPay
<1> QED BY <1>7, <1>8 DEF LeadSound

LEMMA CorrectRequest ==
    ASSUME NEW l \in Lead, NEW c \in PopupCalls, Accepts(l, c), c.op = "correct"
    PROVE  Leaves(l, c, LeadAfter(l, c))
<1> DEFINE es == l.entries
           ledger == [es EXCEPT ![c.place].amount = c.amount]
           after == LeadAfter(l, c)
<1>1. es \in Seq(Installment) /\ c.place \in DOMAIN es /\ c.amount \in Nat
    BY LeadLists DEF Accepts, PopupCalls
<1>2. ledger \in Seq(Installment) /\ Alike(es, ledger)
    <2> DEFINE e == [es[c.place] EXCEPT !.amount = c.amount]
    <2>1. es[c.place] \in Installment
        BY <1>1
    <2>2. e \in Installment /\ e.id = es[c.place].id /\ e.kind = es[c.place].kind
        BY <1>1, <2>1 DEF Installment
    <2>3. ledger = [es EXCEPT ![c.place] = e]
        OBVIOUS
    <2> HIDE DEF e, ledger, es
    <2>4. c.place \in 1..Len(es) /\ Len(es) \in Nat
        BY <1>1, LenProperties
    <2>5. ledger \in Seq(Installment) /\ Len(ledger) = Len(es)
          /\ \A i \in 1..Len(es) : ledger[i] = IF i = c.place THEN e ELSE es[i]
        BY <1>1, <2>2, <2>3, <2>4, ExceptSeq
    <2> QED BY <2>2, <2>5 DEF Alike
<1> HIDE DEF ledger
<1>3. after \in Lead /\ after.rev = l.rev + 1 /\ after.entries = ledger /\ LeadSound(after)
    <2>1. ledger = IF c.op = "record"
                   THEN OldestFirst(Append(l.entries, [id |-> l.rev + 3, kind |-> c.kind, amount |-> c.amount]))
                   ELSE [l.entries EXCEPT ![c.place].amount = c.amount]
        BY DEF ledger
    <2> HIDE DEF after
    <2>2. LeadAfter(l, c) \in Lead /\ LeadAfter(l, c).rev = l.rev + 1
          /\ LeadAfter(l, c).entries = ledger /\ LeadSound(LeadAfter(l, c))
        BY <1>2, <2>1, RecordedLead
    <2> QED BY <2>2 DEF after
<1>4. Alike(TokenEntries(l), TokenEntries(after)) /\ Alike(PaymentEntries(l), PaymentEntries(after))
    BY <1>1, <1>2, <1>3, OfKindAlike DEF TokenEntries, PaymentEntries
<1> HIDE DEF after, es
<1>5. SamePayments(l, after)
    BY <1>3, <1>4, LeadLists DEF SamePayments, Alike
<1>6. SameToken(l, after)
    <2>1. TokenPaid(l) <=> Len(TokenEntries(l)) # 0
        BY LeadLists, EmptySeq DEF TokenPaid
    <2>2. TokenPaid(after) <=> Len(TokenEntries(after)) # 0
        BY <1>3, LeadLists, EmptySeq DEF TokenPaid
    <2>3. Len(TokenEntries(l)) = Len(TokenEntries(after)) /\ Len(TokenEntries(l)) \in Nat
        BY <1>4, LeadLists DEF Alike
    <2>4. TokenPaid(l) = TokenPaid(after)
        BY <2>1, <2>2, <2>3 DEF TokenPaid
    <2>5. TokenPaid(l) => TokenEntries(l)[1].id = TokenEntries(after)[1].id
        BY <1>4, <2>1, <2>3 DEF Alike
    <2> QED BY <2>4, <2>5 DEF SameToken, TokenFormFor
<1> QED BY <1>3, <1>5, <1>6 DEF Leaves, after

LEMMA RecordRequest ==
    ASSUME NEW l \in Lead, NEW c \in PopupCalls, Accepts(l, c), c.op = "record"
    PROVE  Leaves(l, c, LeadAfter(l, c))
<1> DEFINE new == [id |-> l.rev + 3, kind |-> c.kind, amount |-> c.amount]
           tokens == TokenEntries(l)
           payments == PaymentEntries(l)
           more == Append(l.entries, new)
           ledger == OldestFirst(more)
           after == LeadAfter(l, c)
           TokenKind == {e \in Installment : e.kind = "token"}
           PaymentKind == {e \in Installment : e.kind = "payment"}
<1>1. l.rev \in Nat /\ c.kind \in {"token", "payment"} /\ c.amount \in Nat /\ l.entries \in Seq(Installment)
    BY DEF Lead, PopupCalls
<1>2. new \in Installment /\ new.kind = c.kind
    BY <1>1 DEF Installment
<1>3. tokens \in Seq(TokenKind) /\ payments \in Seq(PaymentKind) /\ tokens \in Seq(Installment) /\ payments \in Seq(Installment)
    BY <1>1, OnlyOfKind, OfKindTypes DEF TokenEntries, PaymentEntries
<1> HIDE DEF new
<1>4. \A kind : OfKind(Append(l.entries, new), kind) =
                    IF new.kind = kind THEN Append(OfKind(l.entries, kind), new) ELSE OfKind(l.entries, kind)
    <2> HIDE DEF more, ledger, after, tokens, payments
    <2> QED BY <1>1, <1>2, OfKindAppend
<1>5. OfKind(more, "token") = IF c.kind = "token" THEN Append(tokens, new) ELSE tokens
    BY <1>2, <1>4 DEF TokenEntries
<1>6. OfKind(more, "payment") = IF c.kind = "payment" THEN Append(payments, new) ELSE payments
    BY <1>2, <1>4 DEF PaymentEntries
<1>7. OfKind(more, "token") \in Seq(TokenKind) /\ OfKind(more, "payment") \in Seq(PaymentKind)
    <2>1. more \in Seq(Installment)
        BY <1>1, <1>2
    <2> QED BY <2>1, OnlyOfKind
<1> HIDE DEF tokens, payments, more
<1>8. /\ OfKind(more, "token") \in Seq(Installment) /\ OfKind(more, "payment") \in Seq(Installment)
      /\ ledger = OfKind(more, "token") \o OfKind(more, "payment")
    <2>1. more \in Seq(Installment)
        BY <1>1, <1>2 DEF more
    <2> QED BY <2>1, OfKindTypes DEF OldestFirst
<1> HIDE DEF ledger
<1>9. ledger \in Seq(Installment) /\ OfKind(ledger, "token") = OfKind(more, "token") /\ OfKind(ledger, "payment") = OfKind(more, "payment")
    <2> DEFINE ts == OfKind(more, "token")
               ps == OfKind(more, "payment")
    <2>1. ts \in Seq(TokenKind) /\ ps \in Seq(PaymentKind) /\ ts \in Seq(Installment) /\ ps \in Seq(Installment) /\ ledger = ts \o ps
        BY <1>7, <1>8
    <2> HIDE DEF ts, ps
    <2>2. OfKind(ts, "token") = ts /\ OfKind(ts, "payment") = <<>>
        <3>1. \A e \in TokenKind : e.kind = "token"
            OBVIOUS
        <3> HIDE DEF TokenKind
        <3>2. OfKind(ts, "token") = ts /\ \A other : other # "token" => OfKind(ts, other) = <<>>
            BY <2>1, <3>1, AllOfKind
        <3> QED BY <3>2
    <2>3. OfKind(ps, "payment") = ps /\ OfKind(ps, "token") = <<>>
        <3>1. \A e \in PaymentKind : e.kind = "payment"
            OBVIOUS
        <3> HIDE DEF PaymentKind
        <3>2. OfKind(ps, "payment") = ps /\ \A other : other # "payment" => OfKind(ps, other) = <<>>
            BY <2>1, <3>1, AllOfKind
        <3> QED BY <3>2
    <2>4. OfKind(ledger, "token") = ts \o <<>> /\ OfKind(ledger, "payment") = <<>> \o ps
        <3>1. OfKind(ts \o ps, "token") = OfKind(ts, "token") \o OfKind(ps, "token")
            BY <2>1, OfKindConcat
        <3>2. OfKind(ts \o ps, "payment") = OfKind(ts, "payment") \o OfKind(ps, "payment")
            BY <2>1, OfKindConcat
        <3> QED BY <2>1, <2>2, <2>3, <3>1, <3>2
    <2>5. ts \o <<>> = ts /\ <<>> \o ps = ps /\ ledger \in Seq(Installment)
        BY <2>1, ConcatEmptySeq, ConcatProperties
    <2> QED BY <2>4, <2>5 DEF ts, ps
<1>10. after \in Lead /\ after.rev = l.rev + 1 /\ after.entries = ledger /\ LeadSound(after)
    BY <1>9, RecordedLead DEF ledger, more, new
<1> HIDE DEF after
<1>11. TokenEntries(after) = (IF c.kind = "token" THEN Append(tokens, new) ELSE tokens)
       /\ PaymentEntries(after) = (IF c.kind = "payment" THEN Append(payments, new) ELSE payments)
    BY <1>5, <1>6, <1>9, <1>10 DEF TokenEntries, PaymentEntries
<1>12. SamePayments(l, after)
    <2>1. PaymentEntries(l) = payments /\ Len(payments) \in Nat
        BY <1>3 DEF payments
    <2>2. Len(Append(payments, new)) = Len(payments) + 1 /\ \A n \in 1..Len(payments) : Append(payments, new)[n] = payments[n]
        BY <1>3
    <2> QED BY <1>11, <2>1, <2>2 DEF SamePayments
<1>13. ~MovesCards(c) => SameToken(l, after)
    <2>1. ~MovesCards(c) => TokenEntries(after) = TokenEntries(l)
        BY <1>11 DEF MovesCards, tokens
    <2> QED BY <2>1 DEF SameToken, TokenPaid, TokenFormFor
<1> QED BY <1>10, <1>12, <1>13 DEF Leaves, after

LEMMA RequestTaken ==
    ASSUME NEW l \in Lead, NEW c \in PopupCalls, Accepts(l, c), Worded(c)
    PROVE  Leaves(l, c, LeadAfter(l, c))
BY SimpleRequest, DeleteRequest, CorrectRequest, RecordRequest

-----------------------------------------------------------------------------
(* What the popup shows: the forms of its cards. *)

Prompts == [to : AllStages \cup {"none"}, why : BOOLEAN, base : Nat]

Views ==
    [open : BOOLEAN, tab : {"overview", "other"}, live : Lead, drafts : SUBSET Nat, next : Nat, forms : Seq(Nat),
     tokenForm : Nat, saving : Keys, prompt : Prompts, disturbed : BOOLEAN]

(* FormsFollow, of any view.                                               *)
FormsOf(v) == v.forms = FormsFor(v.live) /\ (TokenPaid(v.live) => v.tokenForm = TokenFormFor(v.live))

(* What the popup shows and is up to, its cards aside.                     *)
SameBut(v, w) ==
    w.open = v.open /\ w.tab = v.tab /\ w.next = v.next /\ w.saving = v.saving /\ w.prompt = v.prompt /\ w.disturbed = v.disturbed

LEMMA FormsTyped ==
    ASSUME NEW l \in Lead
    PROVE  /\ FormsFor(l) \in Seq(Nat) /\ DOMAIN FormsFor(l) = 1..Len(PaymentEntries(l))
           /\ TokenFormFor(l) \in Nat /\ DraftsFor(l) \in SUBSET Nat
<1>1. Len(PaymentEntries(l)) \in Nat /\ DOMAIN PaymentEntries(l) = 1..Len(PaymentEntries(l))
      /\ \A n \in 1..Len(PaymentEntries(l)) : PaymentEntries(l)[n].id \in Nat
    <2>1. \A e \in Installment : e.id \in Nat
        BY DEF Installment
    <2> QED BY <2>1, LeadLists, ElementOfSeq
<1>2. FormsFor(l) \in Seq(Nat) /\ DOMAIN FormsFor(l) = 1..Len(PaymentEntries(l))
    BY <1>1 DEF FormsFor
<1>3. TokenFormFor(l) \in Nat
    <2>1. CASE TokenPaid(l)
        <3>1. Len(TokenEntries(l)) \in Nat /\ Len(TokenEntries(l)) # 0 /\ TokenEntries(l) \in Seq(Installment)
            BY <2>1, LeadLists, EmptySeq DEF TokenPaid
        <3>2. TokenEntries(l)[1] \in Installment
            BY <3>1
        <3> QED BY <2>1, <3>2 DEF TokenFormFor, Installment
    <2>2. CASE ~TokenPaid(l)
        BY <2>2 DEF TokenFormFor, NoForm
    <2> QED BY <2>1, <2>2
<1> QED BY <1>2, <1>3 DEF DraftsFor

LEMMA MountedView ==
    ASSUME NEW v \in Views
    PROVE  Mounted(v) \in Views /\ SameBut(v, Mounted(v)) /\ Mounted(v).live = v.live /\ FormsOf(Mounted(v))
<1> DEFINE drafts == DraftsFor(v.live)
           forms == FormsFor(v.live)
           token == TokenFormFor(v.live)
<1>1. v.live \in Lead
    BY DEF Views
<1>2. drafts \in SUBSET Nat /\ forms \in Seq(Nat) /\ token \in Nat
    BY <1>1, FormsTyped
<1>3. Mounted(v) = [v EXCEPT !.drafts = drafts, !.forms = forms, !.tokenForm = token]
    BY DEF Mounted
<1> HIDE DEF drafts, forms, token
<1>4. Mounted(v) \in Views /\ SameBut(v, Mounted(v)) /\ Mounted(v).live = v.live /\ Mounted(v).forms = forms /\ Mounted(v).tokenForm = token
    BY <1>2, <1>3 DEF Views, SameBut
<1> QED BY <1>4 DEF FormsOf, forms, token

LEMMA KeysTyped == NoKey \in Keys /\ TokenKey \in Keys /\ \A card \in Keys : card.n \in Nat
<1>1. 1..MaxCalls + MaxOthers + 3 \subseteq Nat /\ 0..MaxDrafts \subseteq Nat
    BY BoundsAssumption
<1>2. \A n \in Nat : PaymentKey(n).n \in Nat /\ DraftKey(n).n \in Nat
    BY DEF PaymentKey, DraftKey
<1> QED BY <1>1, <1>2 DEF Keys, NoKey, TokenKey

LEMMA NobodyTyped == NoLead \in Lead /\ NoPrompt \in Prompts
BY DEF NoLead, Lead, AllStages, NoPrompt, Prompts

LEMMA OpenView ==
    ASSUME NEW l \in Lead
    PROVE  /\ OpenOn(l) \in Views /\ FormsOf(OpenOn(l)) /\ OpenOn(l).live = l /\ OpenOn(l).open
           /\ OpenOn(l).saving = NoKey /\ OpenOn(l).prompt = NoPrompt
<1> DEFINE v == [open |-> TRUE, tab |-> "overview", live |-> l, drafts |-> {}, next |-> 1, forms |-> <<>>,
                 tokenForm |-> NoForm, saving |-> NoKey, prompt |-> NoPrompt, disturbed |-> FALSE]
<1>1. v \in Views /\ v.live = l /\ v.open /\ v.saving = NoKey /\ v.prompt = NoPrompt
    BY KeysTyped, NobodyTyped DEF Views, NoForm
<1>2. OpenOn(l) = Mounted(v)
    BY DEF OpenOn
<1> HIDE DEF v
<1> QED BY <1>1, <1>2, MountedView DEF SameBut

LEMMA ClosedView == Closed \in Views /\ ~Closed.open /\ Closed.saving = NoKey /\ Closed.prompt = NoPrompt
<1>1. OpenOn(NoLead) \in Views /\ OpenOn(NoLead).saving = NoKey /\ OpenOn(NoLead).prompt = NoPrompt
    BY OpenView, NobodyTyped
<1> QED BY <1>1 DEF Closed, Views

(* Setting the lead with the cards' keys as they were: the forms follow    *)
(* when the payments shown are still the lead's first, in their order.     *)
LEMMA SameKeysView ==
    ASSUME NEW v \in Views, NEW l \in Lead
    PROVE  /\ SameKeys(v, l) \in Views /\ SameBut(v, SameKeys(v, l)) /\ SameKeys(v, l).live = l
           /\ FormsOf(v) /\ SamePayments(v.live, l) => SameKeys(v, l).forms = FormsFor(l)
           /\ FormsOf(v) /\ SamePayments(v.live, l) /\ SameToken(v.live, l) => FormsOf(SameKeys(v, l))
<1> DEFINE p == PaymentEntries(l)
           kept == [n \in DOMAIN p |-> IF n \in DOMAIN v.forms THEN v.forms[n] ELSE p[n].id]
           token == IF TokenCardShown(v.live) /\ TokenCardShown(l) THEN v.tokenForm ELSE TokenFormFor(l)
           next == [v EXCEPT !.live = l, !.forms = kept, !.tokenForm = token]
<1>1. v.live \in Lead /\ v.forms \in Seq(Nat) /\ v.tokenForm \in Nat
    BY DEF Views
<1>2. p \in Seq(Installment) /\ Len(p) \in Nat /\ DOMAIN p = 1..Len(p) /\ \A n \in 1..Len(p) : p[n].id \in Nat
    <2>1. \A e \in Installment : e.id \in Nat
        BY DEF Installment
    <2> QED BY <2>1, LeadLists, ElementOfSeq
<1>3. SameKeys(v, l) = IF SectionShown(v.live, v.tab) = SectionShown(l, v.tab) THEN next ELSE Mounted(next)
    BY DEF SameKeys
<1> HIDE DEF p
<1>4. kept \in Seq(Nat) /\ token \in Nat
    <2>1. \A n \in DOMAIN v.forms : v.forms[n] \in Nat
        BY <1>1
    <2>2. kept = [n \in 1..Len(p) |-> IF n \in DOMAIN v.forms THEN v.forms[n] ELSE p[n].id]
        BY <1>2
    <2>3. \A n \in 1..Len(p) : (IF n \in DOMAIN v.forms THEN v.forms[n] ELSE p[n].id) \in Nat
        BY <1>2, <2>1
    <2>4. kept \in Seq(Nat)
        BY <1>2, <2>2, <2>3
    <2> QED BY <1>1, <2>4, FormsTyped
<1>5. ASSUME FormsOf(v), SamePayments(v.live, l) PROVE kept = FormsFor(l)
    <2>1. v.forms = FormsFor(v.live) /\ DOMAIN v.forms = 1..Len(PaymentEntries(v.live)) /\ Len(PaymentEntries(v.live)) \in Nat
          /\ DOMAIN PaymentEntries(v.live) = 1..Len(PaymentEntries(v.live))
        BY <1>1, <1>5, FormsTyped, LeadLists DEF FormsOf
    <2>2. \A n \in DOMAIN v.forms : v.forms[n] = p[n].id
        BY <1>5, <2>1 DEF FormsFor, SamePayments, p
    <2>3. kept = [n \in DOMAIN p |-> p[n].id]
        BY <2>2
    <2> QED BY <2>3 DEF FormsFor, p
<1>6. ASSUME FormsOf(v), SameToken(v.live, l), TokenPaid(l) PROVE token = TokenFormFor(l)
    <2>1. TokenPaid(v.live) /\ v.tokenForm = TokenFormFor(l)
        BY <1>6 DEF FormsOf, SameToken
    <2> QED BY <2>1
<1> HIDE DEF kept, token
<1>7. next \in Views /\ SameBut(v, next) /\ next.live = l /\ next.forms = kept /\ next.tokenForm = token
    BY <1>4 DEF Views, SameBut
<1> HIDE DEF next
<1>8. Mounted(next) \in Views /\ SameBut(v, Mounted(next)) /\ Mounted(next).live = l /\ FormsOf(Mounted(next))
    BY <1>7, MountedView DEF SameBut
<1> QED BY <1>3, <1>5, <1>6, <1>7, <1>8 DEF FormsOf

LEMMA NewKeysView ==
    ASSUME NEW v \in Views, NEW l \in Lead
    PROVE  NewKeys(v, l) \in Views /\ SameBut(v, NewKeys(v, l)) /\ NewKeys(v, l).live = l /\ FormsOf(NewKeys(v, l))
<1> DEFINE w == SameKeys(v, l)
           forms == FormsFor(l)
           token == TokenFormFor(l)
<1>1. w \in Views /\ SameBut(v, w) /\ w.live = l
    BY SameKeysView
<1>2. forms \in Seq(Nat) /\ token \in Nat
    BY FormsTyped
<1>3. NewKeys(v, l) = [w EXCEPT !.forms = forms, !.tokenForm = token]
    BY DEF NewKeys
<1> HIDE DEF w, forms, token
<1>4. /\ NewKeys(v, l) \in Views /\ SameBut(v, NewKeys(v, l)) /\ NewKeys(v, l).live = l
      /\ NewKeys(v, l).forms = forms /\ NewKeys(v, l).tokenForm = token
    BY <1>1, <1>2, <1>3 DEF Views, SameBut
<1> QED BY <1>4 DEF FormsOf, forms, token

-----------------------------------------------------------------------------
(* The popup's invariant, of the lead, what is shown and the calls. *)

(* A copy of the lead is the lead itself, or of a revision before it.      *)
CopyOf(copy, l) == copy.rev <= l.rev /\ (copy.rev = l.rev => copy = l)

(* A stage move the server would take.                                     *)
MoveTaken(l, to, reason) ==
    \/ l.stage = to
    \/ /\ to = "token_amount" => TokenPaid(l)
       /\ to \in Paid \ {"token_amount"} => HasFirstPayment(l)
       /\ to = "lost" \/ Reversal(l.stage, to) => reason

PromptSound(prompt, l) ==
    prompt # NoPrompt =>
        prompt.to \in Targets /\ prompt.base <= l.rev /\ (prompt.base = l.rev => MoveTaken(l, prompt.to, prompt.why))

(* A request on its way would be taken if the lead has not changed since;  *)
(* an answer is a copy; and only the token's card records a token.         *)
CallSound(c, l) ==
    /\ c.phase = "sent" => Worded(c) /\ c.base <= l.rev /\ (c.base = l.rev /\ c.op # "delete" => Accepts(l, c))
    /\ c.phase = "ok" => c.heard /\ CopyOf(c.answer, l)
    /\ c.heard /\ c.op = "record" /\ c.kind = "token" => c.card = TokenKey

(* The answers that wait, in the order of their revisions: from what the   *)
(* popup shows to the first, from each to the next, and from the last to   *)
(* the lead, the payments shown stay the first ones unless a deletion is   *)
(* among the answers, and the token the same unless that was recorded.     *)
Waits(cs, n) == n \in DOMAIN cs /\ cs[n].phase = "ok"

DeletedBetween(cs, from, to) ==
    \E n \in DOMAIN cs : Waits(cs, n) /\ cs[n].op = "delete" /\ from < cs[n].answer.rev /\ cs[n].answer.rev <= to

TokenBetween(cs, from, to) ==
    \E n \in DOMAIN cs :
        Waits(cs, n) /\ cs[n].op = "record" /\ cs[n].kind = "token" /\ from < cs[n].answer.rev /\ cs[n].answer.rev <= to

LeadsTo(cs, x, y) ==
    x.rev <= y.rev /\ ~DeletedBetween(cs, x.rev, y.rev) =>
        SamePayments(x, y) /\ (TokenBetween(cs, x.rev, y.rev) \/ SameToken(x, y))

Known(cs, live) == {live} \cup {cs[n].answer : n \in {m \in DOMAIN cs : Waits(cs, m)}}

InOrder(cs, live, l) ==
    /\ live.rev <= l.rev
    /\ \A n \in DOMAIN cs : Waits(cs, n) => live.rev < cs[n].answer.rev /\ cs[n].answer.rev <= l.rev
    /\ \A n, m \in DOMAIN cs : Waits(cs, n) /\ Waits(cs, m) /\ n # m => cs[n].answer.rev # cs[m].answer.rev
    /\ \A x \in Known(cs, live), y \in Known(cs, live) \cup {l} : LeadsTo(cs, x, y)

PopupSound(l, v, cs) ==
    /\ l \in Lead /\ v \in Views /\ cs \in Seq(PopupCalls)
    /\ LeadSound(l)
    /\ \A n \in DOMAIN cs : CallSound(cs[n], l)
    /\ v.open => CopyOf(v.live, l)
    /\ PromptSound(v.prompt, l)
    /\ ~v.open => v.saving = NoKey /\ \A n \in DOMAIN cs : ~cs[n].heard
    /\ v.saving # NoKey => \E n \in DOMAIN cs : SavesCard(cs[n], v.saving)
    /\ v.open /\ ~v.disturbed => FormsOf(v) /\ InOrder(cs, v.live, l)

-----------------------------------------------------------------------------
(* Transitivity. *)

LEMMA PaymentsOn ==
    ASSUME NEW x \in Lead, NEW y \in Lead, NEW z \in Lead, SamePayments(x, y), SamePayments(y, z)
    PROVE  SamePayments(x, z)
<1>1. Len(PaymentEntries(x)) \in Nat /\ Len(PaymentEntries(y)) \in Nat /\ Len(PaymentEntries(z)) \in Nat
    BY LeadLists
<1> QED BY <1>1 DEF SamePayments

LEMMA TokenOn ==
    ASSUME NEW x \in Lead, NEW y \in Lead, NEW z \in Lead, SameToken(x, y), SameToken(y, z)
    PROVE  SameToken(x, z)
BY DEF SameToken

LEMMA KnownLeads ==
    ASSUME NEW cs \in Seq(PopupCalls), NEW live \in Lead
    PROVE  /\ \A n \in DOMAIN cs : cs[n] \in PopupCalls /\ cs[n].answer \in Lead /\ cs[n].answer.rev \in Nat /\ cs[n].base \in Nat
           /\ \A x \in Known(cs, live) : x \in Lead /\ x.rev \in Nat
           /\ DOMAIN cs = 1..Len(cs) /\ Len(cs) \in Nat
<1>1. \A n \in DOMAIN cs : cs[n] \in PopupCalls
    OBVIOUS
<1>2. \A c \in PopupCalls : c.answer \in Lead /\ c.base \in Nat
    BY DEF PopupCalls
<1>3. \A l \in Lead : l.rev \in Nat
    BY DEF Lead
<1> QED BY <1>1, <1>2, <1>3, LenProperties DEF Known

-----------------------------------------------------------------------------
(* Calls altered: what is left of a request in each that is one, the same  *)
(* answer in each that has one, and the card unless it deletes.            *)
Kin(d, c) ==
    /\ d.phase = "sent" =>
          /\ c.phase = "sent" /\ d.op = c.op /\ d.place = c.place /\ d.kind = c.kind /\ d.amount = c.amount
          /\ d.dated = c.dated /\ d.to = c.to /\ d.reason = c.reason /\ d.base = c.base
    /\ d.phase = "ok" => c.phase = "ok" /\ d.answer = c.answer /\ d.heard = c.heard /\ d.op = c.op /\ d.kind = c.kind
    /\ d.heard => c.heard /\ d.op = c.op /\ d.kind = c.kind /\ (c.op # "delete" => d.card = c.card)

LEMMA AcceptsKin ==
    ASSUME NEW l, NEW c, NEW d, d.phase = "sent", Kin(d, c)
    PROVE  Accepts(l, d) = Accepts(l, c)
BY DEF Kin, Accepts, AcceptsMoney

LEMMA KinSound ==
    ASSUME NEW l, NEW c, NEW d, CallSound(c, l), Kin(d, c)
    PROVE  CallSound(d, l)
<1>1. ASSUME d.phase = "sent" PROVE Worded(d) /\ d.base <= l.rev /\ (d.base = l.rev /\ d.op # "delete" => Accepts(l, d))
    <2>1. Accepts(l, d) = Accepts(l, c)
        BY <1>1, AcceptsKin
    <2> QED BY <1>1, <2>1 DEF CallSound, Kin, Worded
<1>2. d.phase = "ok" => d.heard /\ CopyOf(d.answer, l)
    BY DEF CallSound, Kin
<1>3. d.heard /\ d.op = "record" /\ d.kind = "token" => d.card = TokenKey
    BY DEF CallSound, Kin
<1> QED BY <1>1, <1>2, <1>3 DEF CallSound

(* Answers that are dropped leave the rest in order, unless they moved the *)
(* cards.                                                                  *)
LEMMA OrderWithout ==
    ASSUME NEW cs, NEW ds, NEW live, NEW l, InOrder(cs, live, l),
           \A n \in DOMAIN ds : Waits(ds, n) =>
               Waits(cs, n) /\ ds[n].answer = cs[n].answer /\ ds[n].op = cs[n].op /\ ds[n].kind = cs[n].kind,
           \A n \in DOMAIN cs : Waits(cs, n) /\ MovesCards(cs[n]) =>
               Waits(ds, n) /\ ds[n].answer = cs[n].answer /\ ds[n].op = cs[n].op /\ ds[n].kind = cs[n].kind
    PROVE  InOrder(ds, live, l)
<1>1. Known(ds, live) \subseteq Known(cs, live)
    BY DEF Known, Waits
<1>2. \A a, b : DeletedBetween(cs, a, b) => DeletedBetween(ds, a, b)
    BY DEF DeletedBetween, MovesCards, Waits
<1>3. \A a, b : TokenBetween(cs, a, b) => TokenBetween(ds, a, b)
    BY DEF TokenBetween, MovesCards, Waits
<1>4. \A x \in Known(ds, live), y \in Known(ds, live) \cup {l} : LeadsTo(ds, x, y)
    <2> SUFFICES ASSUME NEW x \in Known(ds, live), NEW y \in Known(ds, live) \cup {l} PROVE LeadsTo(ds, x, y)
        OBVIOUS
    <2>1. LeadsTo(cs, x, y)
        BY <1>1 DEF InOrder
    <2> QED BY <1>2, <1>3, <2>1 DEF LeadsTo
<1> QED BY <1>4 DEF InOrder, Waits

LEMMA CallsAltered ==
    ASSUME NEW l, NEW v, NEW cs, NEW ds \in Seq(PopupCalls), PopupSound(l, v, cs), DOMAIN ds = DOMAIN cs,
           \A n \in DOMAIN cs : Kin(ds[n], cs[n]),
           v.open /\ ~v.disturbed => \A n \in DOMAIN cs : Waits(cs, n) /\ MovesCards(cs[n]) => Waits(ds, n),
           v.saving # NoKey => \E n \in DOMAIN ds : SavesCard(ds[n], v.saving)
    PROVE  PopupSound(l, v, ds)
<1>1. \A n \in DOMAIN ds : CallSound(ds[n], l)
    BY KinSound DEF PopupSound
<1>2. ~v.open => \A n \in DOMAIN ds : ~ds[n].heard
    <2>1. \A n \in DOMAIN ds : ds[n].heard => cs[n].heard
        BY DEF Kin
    <2> QED BY <2>1 DEF PopupSound
<1>3. ASSUME v.open, ~v.disturbed PROVE InOrder(ds, v.live, l)
    <2>1. \A n \in DOMAIN ds : Waits(ds, n) =>
              Waits(cs, n) /\ ds[n].answer = cs[n].answer /\ ds[n].op = cs[n].op /\ ds[n].kind = cs[n].kind
        BY DEF Waits, Kin
    <2>2. InOrder(cs, v.live, l)
        BY <1>3 DEF PopupSound
    <2> QED BY <1>3, <2>1, <2>2, OrderWithout
<1> QED BY <1>1, <1>2, <1>3 DEF PopupSound

(* The view looked at otherwise: the same lead, and the same save awaited. *)
LEMMA ViewAltered ==
    ASSUME NEW l, NEW v, NEW w \in Views, NEW cs, PopupSound(l, v, cs),
           w.open = v.open, w.live = v.live, w.saving \in {v.saving, NoKey}, v.disturbed => w.disturbed,
           PromptSound(w.prompt, l), FormsOf(v) => FormsOf(w)
    PROVE  PopupSound(l, w, cs)
BY DEF PopupSound

(* A request sent.                                                         *)
LEMMA CallSent ==
    ASSUME NEW l, NEW v, NEW cs, NEW c \in PopupCalls, PopupSound(l, v, cs), c.phase = "sent", CallSound(c, l), v.open
    PROVE  PopupSound(l, v, Append(cs, c))
<1> DEFINE ds == Append(cs, c)
<1>1. cs \in Seq(PopupCalls) /\ Len(cs) \in Nat /\ DOMAIN cs = 1..Len(cs)
    BY LenProperties DEF PopupSound
<1>2. ds \in Seq(PopupCalls) /\ DOMAIN ds = 1..(Len(cs) + 1) /\ ds[Len(cs) + 1] = c /\ \A n \in DOMAIN cs : n \in DOMAIN ds /\ ds[n] = cs[n]
    BY <1>1
<1>3. \A n \in DOMAIN ds : n \in DOMAIN cs \/ n = Len(cs) + 1
    BY <1>1, <1>2
<1> HIDE DEF ds
<1>4. \A n \in DOMAIN ds : CallSound(ds[n], l)
    BY <1>2, <1>3 DEF PopupSound
<1>5. v.saving # NoKey => \E n \in DOMAIN ds : SavesCard(ds[n], v.saving)
    BY <1>2 DEF PopupSound
<1>6. ASSUME v.open, ~v.disturbed PROVE InOrder(ds, v.live, l)
    <2>1. InOrder(cs, v.live, l)
        BY <1>6 DEF PopupSound
    <2>2. \A n \in DOMAIN ds : Waits(ds, n) => Waits(cs, n) /\ ds[n] = cs[n]
        BY <1>2, <1>3 DEF Waits
    <2>3. \A n \in DOMAIN cs : Waits(cs, n) => Waits(ds, n) /\ ds[n] = cs[n]
        BY <1>2 DEF Waits
    <2> QED BY <2>1, <2>2, <2>3, OrderWithout
<1> QED BY <1>2, <1>4, <1>5, <1>6 DEF PopupSound, ds

-----------------------------------------------------------------------------
(* The lead changes, and answers are taken. *)

(* A lead changed makes every request and every copy one of before.        *)
LEMMA CallsOutdated ==
    ASSUME NEW l \in Lead, NEW after \in Lead, after.rev = l.rev + 1, NEW c \in PopupCalls, CallSound(c, l)
    PROVE  CallSound(c, after)
<1>1. l.rev \in Nat /\ c.base \in Nat /\ c.answer.rev \in Nat
    BY DEF Lead, PopupCalls
<1>2. c.phase = "sent" => c.base <= after.rev /\ c.base # after.rev
    BY <1>1 DEF CallSound
<1>3. c.phase = "ok" => c.answer.rev <= after.rev /\ c.answer.rev # after.rev
    BY <1>1 DEF CallSound, CopyOf
<1> QED BY <1>2, <1>3 DEF CallSound, CopyOf

LEMMA LookOutdated ==
    ASSUME NEW l \in Lead, NEW after \in Lead, after.rev = l.rev + 1, NEW v \in Views,
           v.open => CopyOf(v.live, l), PromptSound(v.prompt, l)
    PROVE  (v.open => CopyOf(v.live, after)) /\ PromptSound(v.prompt, after)
<1>1. l.rev \in Nat /\ v.live.rev \in Nat /\ v.prompt.base \in Nat
    BY DEF Lead, Views, Prompts
<1> QED BY <1>1 DEF CopyOf, PromptSound

(* The order past a change of the lead that moves no cards.                *)
LEMMA OrderPast ==
    ASSUME NEW cs \in Seq(PopupCalls), NEW live \in Lead, NEW l \in Lead, NEW after \in Lead, after.rev = l.rev + 1,
           InOrder(cs, live, l), SamePayments(l, after), SameToken(l, after)
    PROVE  InOrder(cs, live, after)
<1>1. l.rev \in Nat /\ live.rev \in Nat /\ \A n \in DOMAIN cs : cs[n].answer.rev \in Nat
    BY KnownLeads DEF Lead
<1>2. ASSUME NEW x \in Known(cs, live) PROVE LeadsTo(cs, x, after)
    <2>1. x \in Lead /\ x.rev \in Nat /\ x.rev <= l.rev /\ LeadsTo(cs, x, l)
        <3>1. x \in Lead /\ x.rev \in Nat
            BY KnownLeads
        <3>2. x.rev <= l.rev
            BY DEF InOrder, Known
        <3> QED BY <3>1, <3>2 DEF InOrder
    <2>2. DeletedBetween(cs, x.rev, l.rev) => DeletedBetween(cs, x.rev, after.rev)
        BY <1>1 DEF DeletedBetween
    <2>3. TokenBetween(cs, x.rev, l.rev) => TokenBetween(cs, x.rev, after.rev)
        BY <1>1 DEF TokenBetween
    <2>4. SamePayments(x, l) => SamePayments(x, after)
        BY <2>1, PaymentsOn
    <2>5. SameToken(x, l) => SameToken(x, after)
        BY <2>1, TokenOn
    <2> QED BY <2>1, <2>2, <2>3, <2>4, <2>5 DEF LeadsTo
<1>3. \A n \in DOMAIN cs : Waits(cs, n) => live.rev < cs[n].answer.rev /\ cs[n].answer.rev <= after.rev
    BY <1>1 DEF InOrder
<1>4. live.rev <= after.rev
    BY <1>1 DEF InOrder
<1> QED BY <1>2, <1>3, <1>4 DEF InOrder

(* Somebody else's request, or one whose sender does not hear of it.       *)
LEMMA LeadChanged ==
    ASSUME NEW l, NEW v, NEW cs, NEW c, NEW after, PopupSound(l, v, cs), Leaves(l, c, after),
           v.open /\ ~v.disturbed => ~MovesCards(c)
    PROVE  PopupSound(after, v, cs)
<1>1. l \in Lead /\ v \in Views /\ cs \in Seq(PopupCalls) /\ after \in Lead /\ after.rev = l.rev + 1 /\ LeadSound(after)
    BY DEF PopupSound, Leaves
<1>2. \A n \in DOMAIN cs : CallSound(cs[n], after)
    <2>1. \A n \in DOMAIN cs : cs[n] \in PopupCalls /\ CallSound(cs[n], l)
        BY <1>1 DEF PopupSound
    <2> QED BY <1>1, <2>1, CallsOutdated
<1>3. (v.open => CopyOf(v.live, after)) /\ PromptSound(v.prompt, after)
    <2>1. (v.open => CopyOf(v.live, l)) /\ PromptSound(v.prompt, l)
        BY DEF PopupSound
    <2> QED BY <1>1, <2>1, LookOutdated
<1>4. ASSUME v.open, ~v.disturbed PROVE InOrder(cs, v.live, after)
    <2>1. SamePayments(l, after) /\ SameToken(l, after)
        BY <1>4 DEF Leaves, MovesCards
    <2>2. InOrder(cs, v.live, l) /\ v.live \in Lead
        BY <1>1, <1>4 DEF PopupSound, Views
    <2> QED BY <1>1, <2>1, <2>2, OrderPast
<1> QED BY <1>1, <1>2, <1>3, <1>4 DEF PopupSound

(* A request of the popup's own: its answer comes last.                    *)
LEMMA OrderServed ==
    ASSUME NEW cs \in Seq(PopupCalls), NEW ds \in Seq(PopupCalls), NEW live \in Lead, NEW l \in Lead, NEW after, NEW n \in DOMAIN cs,
           InOrder(cs, live, l), Leaves(l, cs[n], after), cs[n].phase = "sent", DOMAIN ds = DOMAIN cs,
           \A m \in DOMAIN cs : m # n => ds[m] = cs[m],
           ds[n].phase = "ok", ds[n].answer = after, ds[n].op = cs[n].op, ds[n].kind = cs[n].kind
    PROVE  InOrder(ds, live, after)
<1>1. after \in Lead /\ after.rev = l.rev + 1
    BY DEF Leaves
<1>2. l.rev \in Nat /\ live.rev \in Nat /\ \A m \in DOMAIN cs : cs[m].answer.rev \in Nat
    BY KnownLeads DEF Lead
<1>3. \A m \in DOMAIN ds : Waits(ds, m) => (m = n /\ ds[m].answer = after) \/ (m # n /\ Waits(cs, m) /\ ds[m] = cs[m])
    BY DEF Waits
<1>4. \A m \in DOMAIN cs : Waits(cs, m) => m # n /\ Waits(ds, m) /\ ds[m] = cs[m] /\ cs[m].answer.rev <= l.rev
    BY DEF Waits, InOrder
<1>5. Known(ds, live) = Known(cs, live) \cup {after}
    BY <1>3, <1>4 DEF Known, Waits
<1>6. \A x \in Known(cs, live) : x \in Lead /\ x.rev \in Nat /\ x.rev <= l.rev
    <2>1. \A x \in Known(cs, live) : x \in Lead /\ x.rev \in Nat
        BY KnownLeads
    <2> QED BY <2>1 DEF InOrder, Known
<1>7. ASSUME NEW x \in Known(cs, live), NEW y \in Known(cs, live) PROVE LeadsTo(ds, x, y)
    <2>1. LeadsTo(cs, x, y)
        BY DEF InOrder
    <2>2. DeletedBetween(cs, x.rev, y.rev) => DeletedBetween(ds, x.rev, y.rev)
        BY <1>4 DEF DeletedBetween
    <2>3. TokenBetween(cs, x.rev, y.rev) => TokenBetween(ds, x.rev, y.rev)
        BY <1>4 DEF TokenBetween
    <2> QED BY <2>1, <2>2, <2>3 DEF LeadsTo
<1>8. ASSUME NEW x \in Known(cs, live) PROVE LeadsTo(ds, x, after)
    <2>1. LeadsTo(cs, x, l) /\ x \in Lead /\ x.rev \in Nat /\ x.rev <= l.rev
        BY <1>6 DEF InOrder
    <2>2. DeletedBetween(cs, x.rev, l.rev) => DeletedBetween(ds, x.rev, after.rev)
        BY <1>1, <1>2, <1>4 DEF DeletedBetween
    <2>3. TokenBetween(cs, x.rev, l.rev) => TokenBetween(ds, x.rev, after.rev)
        BY <1>1, <1>2, <1>4 DEF TokenBetween
    <2>4. Waits(ds, n) /\ x.rev < ds[n].answer.rev /\ ds[n].answer.rev <= after.rev
        BY <1>1, <1>2, <2>1 DEF Waits
    <2>5. cs[n].op = "delete" => DeletedBetween(ds, x.rev, after.rev)
        BY <2>4 DEF DeletedBetween
    <2>6. MovesCards(cs[n]) /\ cs[n].op # "delete" => TokenBetween(ds, x.rev, after.rev)
        BY <2>4 DEF TokenBetween, MovesCards
    <2>7. SamePayments(x, l) /\ SamePayments(l, after) => SamePayments(x, after)
        BY <1>1, <2>1, PaymentsOn
    <2>8. SameToken(x, l) /\ SameToken(l, after) => SameToken(x, after)
        BY <1>1, <2>1, TokenOn
    <2> QED BY <2>1, <2>2, <2>3, <2>5, <2>6, <2>7, <2>8 DEF LeadsTo, Leaves
<1>9. ASSUME NEW y \in Known(cs, live) PROVE LeadsTo(ds, after, y)
    BY <1>1, <1>2, <1>6 DEF LeadsTo
<1>10. LeadsTo(ds, after, after)
    BY <1>1, Itself DEF LeadsTo
<1>11. \A x \in Known(ds, live), y \in Known(ds, live) \cup {after} : LeadsTo(ds, x, y)
    BY <1>5, <1>7, <1>8, <1>9, <1>10
<1>12. live.rev <= after.rev /\ \A m \in DOMAIN ds : Waits(ds, m) => live.rev < ds[m].answer.rev /\ ds[m].answer.rev <= after.rev
    BY <1>1, <1>2, <1>3, <1>4 DEF InOrder
<1>13. ASSUME NEW m \in DOMAIN ds, NEW k \in DOMAIN ds, Waits(ds, m), Waits(ds, k), m # k PROVE ds[m].answer.rev # ds[k].answer.rev
    BY <1>1, <1>2, <1>3, <1>4, <1>13 DEF InOrder
<1> QED BY <1>11, <1>12, <1>13 DEF InOrder

LEMMA CallServed ==
    ASSUME NEW l, NEW v, NEW cs, NEW ds \in Seq(PopupCalls), NEW after, NEW n \in DOMAIN cs,
           PopupSound(l, v, cs), Leaves(l, cs[n], after), cs[n].phase = "sent", cs[n].heard, DOMAIN ds = DOMAIN cs,
           \A m \in DOMAIN cs : m # n => ds[m] = cs[m],
           ds[n].phase = "ok", ds[n].answer = after, ds[n].op = cs[n].op, ds[n].kind = cs[n].kind,
           ds[n].card = cs[n].card, ds[n].heard
    PROVE  PopupSound(after, v, ds)
<1>1. l \in Lead /\ v \in Views /\ cs \in Seq(PopupCalls) /\ after \in Lead /\ after.rev = l.rev + 1 /\ LeadSound(after)
    BY DEF PopupSound, Leaves
<1>2. ASSUME NEW m \in DOMAIN ds PROVE CallSound(ds[m], after)
    <2>1. CASE m = n
        <3>1. CallSound(cs[n], l)
            BY DEF PopupSound
        <3> QED BY <1>1, <2>1, <3>1 DEF CallSound, CopyOf, Lead
    <2>2. CASE m # n
        <3>1. cs[m] \in PopupCalls /\ CallSound(cs[m], l) /\ ds[m] = cs[m]
            BY <1>1, <2>2 DEF PopupSound
        <3> QED BY <1>1, <3>1, CallsOutdated
    <2> QED BY <2>1, <2>2
<1>3. (v.open => CopyOf(v.live, after)) /\ PromptSound(v.prompt, after)
    <2>1. (v.open => CopyOf(v.live, l)) /\ PromptSound(v.prompt, l)
        BY DEF PopupSound
    <2> QED BY <1>1, <2>1, LookOutdated
<1>4. v.open
    BY DEF PopupSound
<1>5. v.saving # NoKey => \E m \in DOMAIN ds : SavesCard(ds[m], v.saving)
    <2>1. \A m \in DOMAIN cs : SavesCard(cs[m], v.saving) => SavesCard(ds[m], v.saving)
        BY DEF SavesCard
    <2> QED BY <2>1 DEF PopupSound
<1>6. ASSUME ~v.disturbed PROVE FormsOf(v) /\ InOrder(ds, v.live, after)
    <2>1. FormsOf(v) /\ InOrder(cs, v.live, l) /\ v.live \in Lead
        BY <1>1, <1>4, <1>6 DEF PopupSound, Views
    <2> QED BY <1>1, <2>1, OrderServed
<1> QED BY <1>1, <1>2, <1>3, <1>4, <1>5, <1>6 DEF PopupSound

(* The first answer taken: the rest stay in order after it.                *)
LEMMA OrderTaken ==
    ASSUME NEW cs \in Seq(PopupCalls), NEW ds \in Seq(PopupCalls), NEW live \in Lead, NEW l \in Lead, NEW n \in DOMAIN cs,
           InOrder(cs, live, l), Waits(cs, n), DOMAIN ds = DOMAIN cs,
           \A m \in DOMAIN cs : m # n /\ Waits(cs, m) => cs[n].answer.rev <= cs[m].answer.rev,
           ds[n].phase # "ok", \A m \in DOMAIN cs : m # n => ds[m] = cs[m]
    PROVE  InOrder(ds, cs[n].answer, l)
<1> DEFINE now == cs[n].answer
<1>1. now \in Lead /\ now.rev \in Nat /\ l.rev \in Nat /\ live.rev < now.rev /\ now.rev <= l.rev
    BY KnownLeads DEF Lead, InOrder
<1>2. \A m \in DOMAIN ds : Waits(ds, m) => m # n /\ Waits(cs, m) /\ ds[m] = cs[m]
    BY DEF Waits
<1>3. \A m \in DOMAIN cs : m # n /\ Waits(cs, m) => Waits(ds, m) /\ ds[m] = cs[m] /\ now.rev < cs[m].answer.rev /\ cs[m].answer.rev <= l.rev
    <2>1. \A m \in DOMAIN cs : cs[m].answer.rev \in Nat
        BY KnownLeads
    <2> QED BY <1>1, <2>1 DEF Waits, InOrder
<1>4. Known(ds, now) \subseteq Known(cs, live)
    BY <1>2 DEF Known, Waits
<1>5. \A x \in Known(ds, now) : x.rev \in Nat /\ now.rev <= x.rev
    <2>1. \A m \in DOMAIN cs : cs[m].answer.rev \in Nat
        BY KnownLeads
    <2> QED BY <1>1, <1>2, <1>3, <2>1 DEF Known
<1>6. ASSUME NEW x \in Known(ds, now), NEW y \in Known(ds, now) \cup {l} PROVE LeadsTo(ds, x, y)
    <2>1. LeadsTo(cs, x, y)
        BY <1>4 DEF InOrder
    <2>2. DeletedBetween(cs, x.rev, y.rev) => DeletedBetween(ds, x.rev, y.rev)
        BY <1>1, <1>3, <1>5 DEF DeletedBetween
    <2>3. TokenBetween(cs, x.rev, y.rev) => TokenBetween(ds, x.rev, y.rev)
        BY <1>1, <1>3, <1>5 DEF TokenBetween
    <2> QED BY <2>1, <2>2, <2>3 DEF LeadsTo
<1>7. \A m \in DOMAIN ds : Waits(ds, m) => now.rev < ds[m].answer.rev /\ ds[m].answer.rev <= l.rev
    BY <1>2, <1>3
<1>8. \A m, k \in DOMAIN ds : Waits(ds, m) /\ Waits(ds, k) /\ m # k => ds[m].answer.rev # ds[k].answer.rev
    BY <1>2 DEF InOrder
<1> QED BY <1>1, <1>6, <1>7, <1>8 DEF InOrder

LEMMA FirstAnswer ==
    ASSUME NEW cs \in Seq(PopupCalls), NEW live \in Lead, NEW l \in Lead, NEW n \in DOMAIN cs,
           InOrder(cs, live, l), Waits(cs, n),
           \A m \in DOMAIN cs : m # n /\ Waits(cs, m) => cs[n].answer.rev <= cs[m].answer.rev
    PROVE  /\ cs[n].op # "delete" => SamePayments(live, cs[n].answer)
           /\ ~MovesCards(cs[n]) => SameToken(live, cs[n].answer)
<1> DEFINE now == cs[n].answer
<1>1. now.rev \in Nat /\ live.rev < now.rev /\ \A m \in DOMAIN cs : cs[m].answer.rev \in Nat
    BY KnownLeads DEF InOrder
<1>2. \A m \in DOMAIN cs : Waits(cs, m) /\ cs[m].answer.rev <= now.rev => m = n
    BY <1>1 DEF InOrder
<1>3. cs[n].op # "delete" => ~DeletedBetween(cs, live.rev, now.rev)
    BY <1>2 DEF DeletedBetween
<1>4. ~MovesCards(cs[n]) => ~TokenBetween(cs, live.rev, now.rev)
    BY <1>2 DEF TokenBetween, MovesCards
<1>5. LeadsTo(cs, live, now) /\ live.rev <= now.rev
    <2>1. live \in Known(cs, live) /\ now \in Known(cs, live)
        BY DEF Known
    <2>2. live.rev \in Nat
        BY DEF Lead
    <2> QED BY <1>1, <2>1, <2>2 DEF InOrder
<1> QED BY <1>3, <1>4, <1>5 DEF LeadsTo, MovesCards

LEMMA AnswerTaken ==
    ASSUME NEW l, NEW v, NEW cs, NEW ds \in Seq(PopupCalls), NEW n \in DOMAIN cs, NEW w \in Views,
           PopupSound(l, v, cs), Waits(cs, n), cs[n].heard, DOMAIN ds = DOMAIN cs,
           ds[n] = Finished, \A m \in DOMAIN cs : m # n => ds[m] = cs[m],
           w.open = v.open, w.live = cs[n].answer, w.prompt = v.prompt,
           w.saving = NoKey \/ (w.saving = v.saving /\ cs[n].op \notin {"record", "correct"}),
           ~w.disturbed => ~v.disturbed /\ FormsOf(w) /\
              \A m \in DOMAIN cs : m # n /\ Waits(cs, m) => cs[n].answer.rev <= cs[m].answer.rev
    PROVE  PopupSound(l, w, ds)
<1>1. l \in Lead /\ v \in Views /\ cs \in Seq(PopupCalls) /\ v.open /\ v.live \in Lead
    BY DEF PopupSound, Views
<1>2. Finished.phase # "ok" /\ Finished.phase # "sent" /\ ~Finished.heard
    BY DEF Finished
<1>3. \A m \in DOMAIN ds : CallSound(ds[m], l)
    BY <1>2 DEF PopupSound, CallSound
<1>4. CopyOf(w.live, l)
    BY DEF PopupSound, CallSound, Waits
<1>5. w.saving # NoKey => \E m \in DOMAIN ds : SavesCard(ds[m], w.saving)
    <2>1. ASSUME w.saving # NoKey PROVE \E m \in DOMAIN ds : SavesCard(ds[m], w.saving)
        <3>1. w.saving = v.saving /\ cs[n].op \notin {"record", "correct"}
            BY <2>1
        <3>2. PICK m \in DOMAIN cs : SavesCard(cs[m], v.saving)
            BY <2>1, <3>1 DEF PopupSound
        <3>3. m # n
            BY <3>1, <3>2 DEF SavesCard
        <3> QED BY <3>1, <3>2, <3>3
    <2> QED BY <2>1
<1>6. ASSUME ~w.disturbed PROVE InOrder(ds, w.live, l)
    <2>1. InOrder(cs, v.live, l)
        BY <1>1, <1>6 DEF PopupSound
    <2> QED BY <1>1, <1>2, <1>6, <2>1, OrderTaken
<1> QED BY <1>1, <1>3, <1>4, <1>5, <1>6 DEF PopupSound

-----------------------------------------------------------------------------
(* The popup's actions. *)

PopupInv == PopupSound(stored, view, calls)

LEMMA StateTyped ==
    ASSUME PopupInv
    PROVE  /\ stored \in Lead /\ view \in Views /\ calls \in Seq(PopupCalls)
           /\ DOMAIN calls = 1..Len(calls) /\ Len(calls) \in Nat
           /\ \A n \in DOMAIN calls : calls[n] \in PopupCalls /\ CallSound(calls[n], stored)
           /\ view.live \in Lead /\ view.live.rev \in Nat /\ (view.open => CopyOf(view.live, stored))
BY LenProperties DEF PopupInv, PopupSound, Views, Lead

(* Calls rewritten one by one are calls again.                             *)
LEMMA CallsMapped ==
    ASSUME NEW cs \in Seq(PopupCalls), NEW ds, DOMAIN ds = DOMAIN cs, ds = [n \in DOMAIN cs |-> ds[n]],
           \A n \in DOMAIN cs : ds[n] \in PopupCalls
    PROVE  ds \in Seq(PopupCalls) /\ Len(ds) = Len(cs)
<1>1. DOMAIN cs = 1..Len(cs) /\ Len(cs) \in Nat
    BY LenProperties
<1>2. [n \in 1..Len(cs) |-> ds[n]] \in Seq(PopupCalls) /\ Len([n \in 1..Len(cs) |-> ds[n]]) = Len(cs)
    BY <1>1
<1> QED BY <1>1, <1>2

LEMMA FinishedTyped == Finished \in PopupCalls
BY NobodyTyped, KeysTyped DEF Finished, PopupCalls, Ops

LEMMA StillClosesTyped ==
    StillCloses \in PopupCalls /\ ~StillCloses.heard /\ StillCloses.phase = "closes"
<1>1. Finished \in PopupCalls /\ ~Finished.heard
    BY FinishedTyped DEF Finished
<1> QED BY <1>1 DEF StillCloses, PopupCalls

LEMMA TakingNothingKin ==
    ASSUME PopupInv
    PROVE  /\ TakingNothing \in Seq(PopupCalls) /\ DOMAIN TakingNothing = DOMAIN calls
           /\ \A n \in DOMAIN calls :
                /\ TakingNothing[n].phase = calls[n].phase /\ TakingNothing[n].heard = calls[n].heard
                /\ TakingNothing[n].op = calls[n].op /\ TakingNothing[n].card = calls[n].card
                /\ TakingNothing[n].kind = calls[n].kind /\ TakingNothing[n].answer = calls[n].answer
           /\ PopupSound(stored, view, TakingNothing)
<1> DEFINE ds == TakingNothing
<1>1. ds = [n \in DOMAIN calls |-> IF calls[n].heard THEN [calls[n] EXCEPT !.takes = {}] ELSE calls[n]]
    BY DEF TakingNothing
<1>2. \A n \in DOMAIN calls : calls[n] \in PopupCalls
    BY StateTyped
<1>3. ASSUME NEW n \in DOMAIN calls
      PROVE  /\ ds[n] \in PopupCalls /\ Kin(ds[n], calls[n]) /\ ds[n].phase = calls[n].phase /\ ds[n].answer = calls[n].answer
             /\ ds[n].op = calls[n].op /\ ds[n].kind = calls[n].kind /\ ds[n].heard = calls[n].heard /\ ds[n].card = calls[n].card
    <2>1. ds[n] = IF calls[n].heard THEN [calls[n] EXCEPT !.takes = {}] ELSE calls[n]
        BY <1>1
    <2> HIDE DEF ds
    <2> QED BY <1>2, <2>1 DEF PopupCalls, Kin
<1>4. DOMAIN ds = DOMAIN calls /\ ds = [n \in DOMAIN calls |-> ds[n]]
    BY <1>1
<1> HIDE DEF ds
<1>5. ds \in Seq(PopupCalls)
    BY <1>3, <1>4, CallsMapped, StateTyped
<1>6. PopupSound(stored, view, ds)
    <2>1. view.saving # NoKey => \E n \in DOMAIN ds : SavesCard(ds[n], view.saving)
        <3>1. view.saving # NoKey => \E n \in DOMAIN calls : SavesCard(calls[n], view.saving)
            BY DEF PopupInv, PopupSound
        <3> QED BY <1>3, <1>4, <3>1 DEF SavesCard
    <2>2. \A n \in DOMAIN calls : Waits(calls, n) => Waits(ds, n)
        BY <1>3, <1>4 DEF Waits
    <2> QED BY <1>3, <1>4, <1>5, <2>1, <2>2, CallsAltered DEF PopupInv
<1> QED BY <1>3, <1>4, <1>5, <1>6 DEF ds

-----------------------------------------------------------------------------
(* Looking. *)

LEMMA OpenSound ==
    ASSUME PopupInv, Open
    PROVE  PopupInv'
<1>1. /\ stored \in Lead /\ view \in Views /\ calls \in Seq(PopupCalls) /\ ~view.open
      /\ \A n \in DOMAIN calls : CallSound(calls[n], stored) /\ ~calls[n].heard
    BY StateTyped DEF Open, PopupInv, PopupSound
<1> DEFINE v == OpenOn(stored)
<1>2. v \in Views /\ FormsOf(v) /\ v.live = stored /\ v.open /\ v.saving = NoKey /\ v.prompt = NoPrompt
    BY <1>1, OpenView
<1> HIDE DEF v
<1>3. \A n \in DOMAIN calls : ~Waits(calls, n)
    BY <1>1 DEF Waits, CallSound
<1>4. InOrder(calls, stored, stored)
    <2>1. Known(calls, stored) = {stored}
        BY <1>3 DEF Known
    <2>2. LeadsTo(calls, stored, stored)
        BY <1>1, Itself DEF LeadsTo
    <2>3. stored.rev <= stored.rev
        BY <1>1 DEF Lead
    <2> QED BY <1>3, <2>1, <2>2, <2>3 DEF InOrder
<1>5. PopupSound(stored, v, calls)
    <2>1. CopyOf(stored, stored) /\ LeadSound(stored)
        BY <1>1 DEF CopyOf, Lead, PopupInv, PopupSound
    <2> QED BY <1>1, <1>2, <1>4, <2>1 DEF PopupSound, PromptSound
<1>6. stored' = stored /\ view' = v /\ calls' = calls
    BY DEF Open, v
<1> QED BY <1>5, <1>6 DEF PopupInv

(* Closing, with no call heard any more.                                   *)
LEMMA ClosedSound ==
    ASSUME PopupInv, NEW cs \in Seq(PopupCalls), DOMAIN cs = DOMAIN calls,
           \A n \in DOMAIN calls : ~cs[n].heard /\ Kin(cs[n], calls[n])
    PROVE  PopupSound(stored, Closed, cs)
<1>1. Closed \in Views /\ ~Closed.open /\ Closed.saving = NoKey /\ Closed.prompt = NoPrompt
    BY ClosedView
<1>2. \A n \in DOMAIN cs : CallSound(cs[n], stored)
    BY StateTyped, KinSound
<1>3. stored \in Lead /\ LeadSound(stored)
    BY DEF PopupInv, PopupSound
<1> HIDE DEF Closed
<1> QED BY <1>1, <1>2, <1>3 DEF PopupSound, PromptSound

LEMMA LeftKin ==
    ASSUME NEW c \in PopupCalls
    PROVE  Left(c) \in PopupCalls /\ ~Left(c).heard /\ Kin(Left(c), c)
<1> DEFINE d == Left(c)
<1>1. (d = [c EXCEPT !.heard = FALSE] /\ c.phase = "sent") \/ d = StillCloses \/ d = Finished
    BY DEF Left
<1> SUFFICES d \in PopupCalls /\ ~d.heard /\ Kin(d, c)
    OBVIOUS
<1> HIDE DEF d
<1>2. CASE d = [c EXCEPT !.heard = FALSE] /\ c.phase = "sent"
    BY <1>2 DEF PopupCalls, Kin
<1>3. CASE d = StillCloses
    BY <1>3, StillClosesTyped DEF Kin
<1>4. CASE d = Finished
    <2>1. Finished \in PopupCalls /\ ~Finished.heard /\ Finished.phase = "done"
        BY FinishedTyped DEF Finished
    <2> QED BY <1>4, <2>1 DEF Kin
<1> QED BY <1>1, <1>2, <1>3, <1>4

LEMMA OrphanedKin ==
    ASSUME PopupInv
    PROVE  /\ Orphaned \in Seq(PopupCalls) /\ DOMAIN Orphaned = DOMAIN calls
           /\ \A n \in DOMAIN calls : ~Orphaned[n].heard /\ Kin(Orphaned[n], calls[n])
<1> DEFINE ds == Orphaned
<1>1. ds = [n \in DOMAIN calls |-> IF calls[n].heard THEN Left(calls[n]) ELSE calls[n]]
    BY DEF Orphaned
<1>2. ASSUME NEW n \in DOMAIN calls PROVE ds[n] \in PopupCalls /\ ~ds[n].heard /\ Kin(ds[n], calls[n])
    <2>1. calls[n] \in PopupCalls /\ (calls[n].phase = "ok" => calls[n].heard)
        BY StateTyped DEF CallSound
    <2>2. ds[n] = IF calls[n].heard THEN Left(calls[n]) ELSE calls[n]
        BY <1>1
    <2> HIDE DEF ds
    <2>3. CASE ~calls[n].heard
        BY <2>1, <2>2, <2>3 DEF PopupCalls, Kin
    <2>4. CASE calls[n].heard
        BY <2>1, <2>2, <2>4, LeftKin
    <2> QED BY <2>3, <2>4
<1>3. DOMAIN ds = DOMAIN calls /\ ds = [n \in DOMAIN calls |-> ds[n]]
    BY <1>1
<1> HIDE DEF ds
<1>4. ds \in Seq(PopupCalls)
    BY <1>2, <1>3, CallsMapped, StateTyped
<1> QED BY <1>2, <1>3, <1>4 DEF ds

LEMMA CloseSound ==
    ASSUME PopupInv, Close
    PROVE  PopupInv'
<1>1. stored' = stored /\ view' = Closed /\ calls' = Orphaned
    BY DEF Close
<1>2. PopupSound(stored, Closed, Orphaned)
    BY OrphanedKin, ClosedSound
<1> QED BY <1>1, <1>2 DEF PopupInv

LEMMA SwitchTabSound ==
    ASSUME PopupInv, SwitchTab
    PROVE  PopupInv'
<1> DEFINE tab == IF view.tab = "overview" THEN "other" ELSE "overview"
           v == [view EXCEPT !.tab = tab]
<1>1. view \in Views
    BY StateTyped
<1>2. tab \in {"overview", "other"}
    OBVIOUS
<1>3. stored' = stored /\ view' = Mounted(v) /\ calls' = TakingNothing
    BY <1>1 DEF SwitchTab, Views
<1> HIDE DEF tab
<1>4. v \in Views /\ v.open = view.open /\ v.live = view.live /\ v.saving = view.saving /\ v.prompt = view.prompt
      /\ v.disturbed = view.disturbed
    BY <1>1, <1>2 DEF Views
<1> HIDE DEF v
<1> DEFINE w == Mounted(v)
<1>5. w \in Views /\ w.open = view.open /\ w.live = view.live /\ w.saving = view.saving /\ w.prompt = view.prompt
      /\ w.disturbed = view.disturbed /\ FormsOf(w)
    BY <1>4, MountedView DEF SameBut
<1> HIDE DEF w
<1>6. PopupSound(stored, view, TakingNothing) /\ PromptSound(view.prompt, stored)
    BY TakingNothingKin DEF PopupSound
<1>7. PopupSound(stored, w, TakingNothing)
    BY <1>5, <1>6, ViewAltered
<1> QED BY <1>3, <1>7 DEF PopupInv, w

(* The drafts, and what a prompt asks.                                     *)
LEMMA Looked ==
    ASSUME PopupInv, NEW drafts \in SUBSET Nat, NEW next \in Nat, NEW prompt \in Prompts, PromptSound(prompt, stored)
    PROVE  PopupSound(stored, [view EXCEPT !.drafts = drafts, !.next = next, !.prompt = prompt], calls)
<1> DEFINE w == [view EXCEPT !.drafts = drafts, !.next = next, !.prompt = prompt]
<1>1. view \in Views
    BY StateTyped
<1>2. w \in Views /\ w.open = view.open /\ w.live = view.live /\ w.saving = view.saving /\ w.disturbed = view.disturbed
      /\ w.prompt = prompt /\ w.forms = view.forms /\ w.tokenForm = view.tokenForm
    BY <1>1 DEF Views
<1> HIDE DEF w
<1>3. PopupSound(stored, w, calls)
    BY <1>2, ViewAltered DEF PopupInv, FormsOf
<1> QED BY <1>3 DEF w

LEMMA DraftsSound ==
    ASSUME PopupInv, AddDraft \/ (\E d \in 0..MaxDrafts : RemoveDraft(d)) \/ CancelStage
    PROVE  PopupInv'
<1>1. view \in Views /\ view.drafts \in SUBSET Nat /\ view.next \in Nat /\ view.prompt \in Prompts /\ PromptSound(view.prompt, stored)
    BY StateTyped DEF Views, PopupInv, PopupSound
<1>2. stored' = stored /\ calls' = calls
    BY DEF AddDraft, RemoveDraft, CancelStage
<1>3. CASE AddDraft
    <2> DEFINE drafts == view.drafts \cup {view.next}
               next == view.next + 1
    <2>1. view' = [view EXCEPT !.drafts = drafts, !.next = next, !.prompt = view.prompt]
        BY <1>1, <1>3 DEF AddDraft, Views
    <2>2. drafts \in SUBSET Nat /\ next \in Nat
        BY <1>1
    <2> HIDE DEF drafts, next
    <2> QED BY <1>1, <1>2, <2>1, <2>2, Looked DEF PopupInv
<1>4. ASSUME NEW d \in 0..MaxDrafts, RemoveDraft(d) PROVE PopupInv'
    <2> DEFINE drafts == view.drafts \ {d}
    <2>1. view' = [view EXCEPT !.drafts = drafts, !.next = view.next, !.prompt = view.prompt]
        BY <1>1, <1>4 DEF RemoveDraft, Views
    <2>2. drafts \in SUBSET Nat
        BY <1>1
    <2> HIDE DEF drafts
    <2> QED BY <1>1, <1>2, <2>1, <2>2, Looked DEF PopupInv
<1>5. CASE CancelStage
    <2>1. view' = [view EXCEPT !.drafts = view.drafts, !.next = view.next, !.prompt = NoPrompt]
        BY <1>1, <1>5 DEF CancelStage, Views
    <2>2. NoPrompt \in Prompts /\ PromptSound(NoPrompt, stored)
        BY NobodyTyped DEF PromptSound
    <2> QED BY <1>1, <1>2, <2>1, <2>2, Looked DEF PopupInv
<1> QED BY <1>3, <1>4, <1>5

-----------------------------------------------------------------------------
(* What the popup sends. *)

LEMMA RequestTyped ==
    ASSUME PopupInv, NEW op \in Ops
    PROVE  Request(op) \in PopupCalls
BY StateTyped, NobodyTyped, KeysTyped DEF Request, PopupCalls

LEMMA RequestMade ==
    ASSUME PopupInv, NEW op \in Ops
    PROVE  /\ Request(op) \in PopupCalls /\ Request(op).phase = "sent" /\ Request(op).base = view.live.rev
           /\ Request(op).op = op /\ Request(op).kind = "payment" /\ Request(op).heard
BY RequestTyped DEF Request

(* What a press sends: a request worked out from the lead the popup has.   *)
LEMMA PressSound ==
    ASSUME PopupInv, view.open, NEW c \in PopupCalls, c.phase = "sent", c.base = view.live.rev, Worded(c),
           c.op = "record" /\ c.kind = "token" => c.card = TokenKey,
           view.live = stored /\ c.op # "delete" => Accepts(stored, c)
    PROVE  CallSound(c, stored)
<1>1. CopyOf(view.live, stored)
    BY StateTyped
<1>2. c.base <= stored.rev /\ (c.base = stored.rev => view.live = stored)
    BY <1>1 DEF CopyOf
<1> QED BY <1>2 DEF CallSound

LEMMA SentOnly ==
    ASSUME PopupInv, view.open, NEW c \in PopupCalls, c.phase = "sent", CallSound(c, stored), Send(c), UNCHANGED view
    PROVE  PopupInv'
<1>1. PopupSound(stored, view, Append(calls, c))
    BY CallSent DEF PopupInv
<1>2. stored' = stored /\ view' = view /\ calls' = Append(calls, c)
    BY DEF Send, SendAfter
<1> QED BY <1>1, <1>2 DEF PopupInv

LEMMA SimplePressSound ==
    ASSUME PopupInv, PressSaveBalance \/ PressAssignPlan \/ PressRejoin \/ PressFollowUp
    PROVE  PopupInv'
<1>1. view.open /\ view' = view
    BY DEF PressSaveBalance, PressAssignPlan, PressRejoin, PressFollowUp, Shown
<1>2. CASE PressSaveBalance
    <2> DEFINE dated == ~view.live.dated
               c == [Request("balance") EXCEPT !.dated = dated]
    <2>1. c \in PopupCalls /\ c.phase = "sent" /\ c.base = view.live.rev /\ c.op = "balance" /\ c.kind = "payment"
        <3>1. dated \in BOOLEAN
            OBVIOUS
        <3> HIDE DEF dated
        <3> QED BY <3>1, RequestMade DEF Ops, PopupCalls
    <2>2. Send(c) /\ Owing(view.live)
        BY <1>2 DEF PressSaveBalance
    <2> HIDE DEF c
    <2>3. CallSound(c, stored)
        <3>1. view.live = stored => Accepts(stored, c)
            BY <2>1, <2>2 DEF Accepts
        <3> QED BY <1>1, <2>1, <3>1, PressSound DEF Worded
    <2> QED BY <1>1, <2>1, <2>2, <2>3, SentOnly
<1>3. CASE PressAssignPlan
    <2> DEFINE c == Request("plan")
    <2>1. c \in PopupCalls /\ c.phase = "sent" /\ c.base = view.live.rev /\ c.op = "plan" /\ c.kind = "payment"
        BY RequestTyped DEF Ops, Request
    <2>2. Send(c)
        BY <1>3 DEF PressAssignPlan
    <2> HIDE DEF c
    <2>3. CallSound(c, stored)
        <3>1. Accepts(stored, c)
            BY <2>1 DEF Accepts
        <3> QED BY <1>1, <2>1, <3>1, PressSound DEF Worded
    <2> QED BY <1>1, <2>1, <2>2, <2>3, SentOnly
<1>4. CASE PressRejoin
    <2> DEFINE c == Request("rejoin")
    <2>1. c \in PopupCalls /\ c.phase = "sent" /\ c.base = view.live.rev /\ c.op = "rejoin" /\ c.kind = "payment"
        BY RequestTyped DEF Ops, Request
    <2>2. Send(c) /\ view.live.stage = "lost"
        BY <1>4 DEF PressRejoin
    <2> HIDE DEF c
    <2>3. CallSound(c, stored)
        <3>1. view.live = stored => Accepts(stored, c)
            BY <2>1, <2>2 DEF Accepts
        <3> QED BY <1>1, <2>1, <3>1, PressSound DEF Worded
    <2> QED BY <1>1, <2>1, <2>2, <2>3, SentOnly
<1>5. CASE PressFollowUp
    <2> DEFINE c == Request("followup")
    <2>1. c \in PopupCalls /\ c.phase = "sent" /\ c.base = view.live.rev /\ c.op = "followup" /\ c.kind = "payment"
        BY RequestTyped DEF Ops, Request
    <2>2. Send(c)
        BY <1>5 DEF PressFollowUp
    <2> HIDE DEF c
    <2>3. CallSound(c, stored)
        <3>1. Accepts(stored, c)
            BY <2>1 DEF Accepts
        <3> QED BY <1>1, <2>1, <3>1, PressSound DEF Worded
    <2> QED BY <1>1, <2>1, <2>2, <2>3, SentOnly
<1> QED BY <1>2, <1>3, <1>4, <1>5

(* The money a save the popup lets through comes to: no more than the fee, *)
(* and less only with a date.                                              *)
LEMMA MoneyLetThrough ==
    ASSUME NEW l \in Lead, NEW c \in PopupCalls, LeadSound(l), l.plan, NEW held \in Nat,
           c.op \in {"record", "correct"},
           c.op = "correct" => held = l.entries[c.place].amount,
           c.op = "record" => held = 0,
           LeftToPay(l) + held - c.amount >= 0,
           LeftToPay(l) + held - c.amount > 0 /\ ~l.dated => c.dated
    PROVE  AcceptsMoney(l, c)
<1> DEFINE others == IF c.op = "correct" THEN Received(l) - l.entries[c.place].amount ELSE Received(l)
<1>1. Received(l) \in Nat /\ Fee \in Nat /\ c.amount \in Nat /\ LeftToPay(l) = Fee - Received(l)
    BY LeadLists, FeeAssumption DEF PopupCalls, LeftToPay
<1>2. others = Received(l) - held
    BY <1>1
<1> HIDE DEF others
<1>3. others + c.amount <= Fee
    BY <1>1, <1>2
<1>4. others + c.amount < Fee => c.dated \/ (l.dated /\ Owing(l))
    BY <1>1, <1>2 DEF LeadSound
<1> QED BY <1>3, <1>4 DEF AcceptsMoney, others

LEMMA CardSorts ==
    /\ \A card \in Keys : card.sort = "token" => card = TokenKey
    /\ \A n : PaymentKey(n).sort = "payment" /\ PaymentKey(n).n = n /\ DraftKey(n).sort = "draft"
    /\ TokenKey.sort = "token" /\ NoKey.sort = "none"
BY DEF Keys, NoKey, TokenKey, PaymentKey, DraftKey

LEMMA SaveLetThrough ==
    ASSUME PopupInv, NEW card \in Keys, NEW amount \in Figures, PressSave(card, amount), view.live = stored,
           NEW c \in PopupCalls, c.card = card, c.kind = Kind(card), c.amount = amount, c.dated = AsksDate(card, amount),
           c.op = (IF card \in NewCards(view) THEN "record" ELSE "correct"),
           c.place = (IF card \in NewCards(view) THEN 0 ELSE Place(view.live, card))
    PROVE  Accepts(stored, c)
<1> DEFINE held == HeldBy(view.live, card)
<1>1. /\ stored \in Lead /\ LeadSound(stored) /\ stored.plan /\ SaveChecked(card, amount)
      /\ card \in NewCards(view) \cup SavedCards(view)
    BY StateTyped DEF PressSave, PopupInv, PopupSound
<1>2. LeftToPay(stored) + held - c.amount >= 0 /\ (LeftToPay(stored) + held - c.amount > 0 /\ ~stored.dated => c.dated)
    BY <1>1 DEF SaveChecked, AsksDate, Remaining
<1>3. CASE card \in NewCards(view)
    <2>1. c.op = "record"
        BY <1>3
    <2>2. held = 0
        BY <1>3, CardSorts DEF NewCards, HeldBy
    <2>3. c.kind = "token" => ~TokenPaid(stored)
        BY <1>3, CardSorts DEF NewCards, Kind
    <2> HIDE DEF held
    <2>4. AcceptsMoney(stored, c)
        BY <1>1, <1>2, <2>1, <2>2, MoneyLetThrough
    <2> QED BY <1>1, <2>1, <2>3, <2>4 DEF Accepts
<1>4. CASE card \notin NewCards(view)
    <2>1. c.op = "correct" /\ c.place = Place(stored, card) /\ card \in SavedCards(view)
        BY <1>1, <1>4
    <2>2. c.place \in DOMAIN stored.entries
        BY <1>1, <2>1, CardPlaces, CardSorts DEF SavedCards, Place
    <2>3. held = stored.entries[c.place].amount
        <3>1. card.sort # "draft" /\ ~(card = TokenKey /\ ~TokenPaid(stored))
            BY <2>1, CardSorts DEF SavedCards
        <3> QED BY <2>1, <3>1 DEF HeldBy
    <2>4. held \in Nat
        <3>1. stored.entries \in Seq(Installment)
            BY <1>1, LeadLists
        <3>2. stored.entries[c.place] \in Installment
            BY <2>2, <3>1
        <3> QED BY <2>3, <3>2 DEF Installment
    <2> HIDE DEF held
    <2>5. AcceptsMoney(stored, c)
        BY <1>1, <1>2, <2>1, <2>3, <2>4, MoneyLetThrough
    <2> QED BY <1>1, <2>1, <2>2, <2>5 DEF Accepts
<1> QED BY <1>3, <1>4

LEMMA PressSaveSound ==
    ASSUME PopupInv, NEW card \in Keys, NEW amount \in Figures, PressSave(card, amount)
    PROVE  PopupInv'
<1> DEFINE isNew == card \in NewCards(view)
           op == IF isNew THEN "record" ELSE "correct"
           takes == IF card.sort = "draft" THEN {card.n} ELSE {}
           place == IF isNew THEN 0 ELSE Place(view.live, card)
           dated == AsksDate(card, amount)
           kind == Kind(card)
           c == [Request(op) EXCEPT !.card = card, !.kind = kind, !.amount = amount, !.takes = takes,
                                    !.place = place, !.dated = dated]
           w == [view EXCEPT !.saving = card]
           ds == Append(TakingNothing, c)
<1>1. view.open /\ stored' = stored /\ view' = w /\ calls' = ds
    BY DEF PressSave, Shown, SendAfter
<1>2. op \in Ops /\ takes \in SUBSET Nat /\ dated \in BOOLEAN /\ kind \in {"token", "payment"} /\ amount \in Nat
    BY KeysTyped, FeeAssumption DEF Ops, AsksDate, Kind
<1>3. place \in Nat
    <2>1. card.n \in Nat /\ Len(TokenEntries(view.live)) \in Nat
        BY KeysTyped, StateTyped, LeadLists
    <2> QED BY <2>1 DEF Place
<1>4. Request(op) \in PopupCalls /\ Request(op).phase = "sent" /\ Request(op).base = view.live.rev /\ Request(op).op = op /\ Request(op).heard
    BY <1>2, RequestTyped DEF Request
<1>5. /\ c \in PopupCalls /\ c.phase = "sent" /\ c.base = view.live.rev /\ c.op = op /\ c.heard
      /\ c.card = card /\ c.kind = kind /\ c.amount = amount /\ c.dated = dated /\ c.place = place
    <2> HIDE DEF op, takes, place, dated, kind
    <2> QED BY <1>2, <1>3, <1>4 DEF PopupCalls
<1>6. op \in {"record", "correct"}
    OBVIOUS
<1> HIDE DEF c
<1>7. view.live = stored => Accepts(stored, c)
    BY <1>5, SaveLetThrough
<1>8. c.kind = "token" => c.card = TokenKey
    BY <1>5, CardSorts DEF Kind
<1> HIDE DEF op
<1>9. CallSound(c, stored)
    BY <1>1, <1>5, <1>6, <1>7, <1>8, PressSound DEF Worded
<1>10. PopupSound(stored, view, ds)
    BY <1>1, <1>5, <1>9, TakingNothingKin, CallSent
<1>11. \E n \in DOMAIN ds : SavesCard(ds[n], card)
    <2>1. TakingNothing \in Seq(PopupCalls)
        BY TakingNothingKin
    <2>2. ds[Len(TakingNothing) + 1] = c /\ Len(TakingNothing) + 1 \in DOMAIN ds
        BY <1>5, <2>1
    <2> QED BY <1>5, <1>6, <2>2 DEF SavesCard
<1>12. /\ w \in Views /\ w.open = view.open /\ w.live = view.live /\ w.saving = card /\ w.prompt = view.prompt
       /\ w.disturbed = view.disturbed /\ w.forms = view.forms /\ w.tokenForm = view.tokenForm
    BY StateTyped DEF Views
<1> HIDE DEF w, ds
<1>13. PopupSound(stored, w, ds)
    BY <1>1, <1>10, <1>11, <1>12 DEF PopupSound, FormsOf
<1> QED BY <1>1, <1>13 DEF PopupInv

(* A deletion asked for forgets the card of the one before.                *)
LEMMA PressDeleteSound ==
    ASSUME PopupInv, NEW card \in Keys, PressDelete(card)
    PROVE  PopupInv'
<1> DEFINE ds == [n \in DOMAIN calls |-> IF calls[n].op = "delete" THEN [calls[n] EXCEPT !.card = NoKey] ELSE calls[n]]
           place == Place(view.live, card)
           c == [Request("delete") EXCEPT !.card = card, !.place = place]
<1>1. view.open /\ stored' = stored /\ view' = view /\ calls' = Append(ds, c)
    BY DEF PressDelete, Shown, SendAfter
<1>2. place \in Nat
    <2>1. card.n \in Nat /\ Len(TokenEntries(view.live)) \in Nat
        BY KeysTyped, StateTyped, LeadLists
    <2> QED BY <2>1 DEF Place
<1>3. Request("delete") \in PopupCalls /\ Request("delete").phase = "sent" /\ Request("delete").base = view.live.rev /\ Request("delete").op = "delete"
    BY RequestTyped DEF Request, Ops
<1>4. c \in PopupCalls /\ c.phase = "sent" /\ c.base = view.live.rev /\ c.op = "delete"
    <2> HIDE DEF place
    <2> QED BY <1>2, <1>3 DEF PopupCalls
<1> HIDE DEF c
<1>5. CallSound(c, stored)
    BY <1>1, <1>4, PressSound DEF Worded
<1>6. ASSUME NEW n \in DOMAIN calls
      PROVE  ds[n] \in PopupCalls /\ Kin(ds[n], calls[n]) /\ (Waits(calls, n) => Waits(ds, n))
             /\ (\A key : SavesCard(calls[n], key) => SavesCard(ds[n], key))
    <2>1. calls[n] \in PopupCalls
        BY StateTyped
    <2>2. ds[n] = IF calls[n].op = "delete" THEN [calls[n] EXCEPT !.card = NoKey] ELSE calls[n]
        OBVIOUS
    <2>3. DOMAIN ds = DOMAIN calls
        OBVIOUS
    <2> HIDE DEF ds
    <2> QED BY <2>1, <2>2, <2>3, KeysTyped DEF PopupCalls, Kin, Waits, SavesCard
<1>7. DOMAIN ds = DOMAIN calls /\ ds = [n \in DOMAIN calls |-> ds[n]]
    OBVIOUS
<1> HIDE DEF ds
<1>8. ds \in Seq(PopupCalls)
    BY <1>6, <1>7, CallsMapped, StateTyped
<1>9. PopupSound(stored, view, ds)
    <2>1. view.saving # NoKey => \E n \in DOMAIN ds : SavesCard(ds[n], view.saving)
        <3>1. view.saving # NoKey => \E n \in DOMAIN calls : SavesCard(calls[n], view.saving)
            BY DEF PopupInv, PopupSound
        <3> QED BY <1>6, <1>7, <3>1
    <2> QED BY <1>6, <1>7, <1>8, <2>1, CallsAltered DEF PopupInv
<1>10. PopupSound(stored, view, Append(ds, c))
    BY <1>1, <1>4, <1>5, <1>9, CallSent
<1> QED BY <1>1, <1>10 DEF PopupInv

(* A stage let through, at once or once the prompt is confirmed.           *)
LEMMA StageLetThrough ==
    ASSUME NEW l \in Lead, NEW to \in Targets, NEW why \in BOOLEAN, ~Blocked(l, to), StageAsksWhy(l, to) => why
    PROVE  MoveTaken(l, to, why)
BY DEF Blocked, StageAsksWhy, MoveTaken, Paid

LEMMA SelectStageSound ==
    ASSUME PopupInv, NEW to \in Targets, SelectStage(to)
    PROVE  PopupInv'
<1>1. view.open /\ ~Blocked(view.live, to) /\ CopyOf(view.live, stored) /\ view \in Views /\ stored \in Lead /\ to \in AllStages
    BY StateTyped, TargetsAssumption DEF SelectStage
<1>2. CASE StageAsksWhy(view.live, to) \/ StageAsksWhen(view.live, to)
    <2> DEFINE why == StageAsksWhy(view.live, to)
               prompt == [to |-> to, why |-> why, base |-> view.live.rev]
    <2>1. stored' = stored /\ calls' = calls /\ view' = [view EXCEPT !.drafts = view.drafts, !.next = view.next, !.prompt = prompt]
        BY <1>1, <1>2 DEF SelectStage, Views
    <2>2. why \in BOOLEAN /\ (StageAsksWhy(view.live, to) => why)
        BY DEF StageAsksWhy
    <2> HIDE DEF why
    <2>3. prompt \in Prompts /\ view.drafts \in SUBSET Nat /\ view.next \in Nat
        BY <1>1, <2>2, StateTyped DEF Prompts, Views
    <2>4. PromptSound(prompt, stored)
        <3>1. prompt.to = to /\ prompt.why = why /\ prompt.base = view.live.rev
            OBVIOUS
        <3> HIDE DEF prompt
        <3>2. view.live = stored => MoveTaken(stored, to, why)
            BY <1>1, <2>2, StageLetThrough
        <3> QED BY <1>1, <3>1, <3>2 DEF PromptSound, CopyOf
    <2> HIDE DEF prompt
    <2> QED BY <2>1, <2>3, <2>4, Looked DEF PopupInv
<1>3. CASE ~StageAsksWhy(view.live, to) /\ ~StageAsksWhen(view.live, to)
    <2> DEFINE c == [Request("stage") EXCEPT !.to = to]
    <2>1. c \in PopupCalls /\ c.phase = "sent" /\ c.base = view.live.rev /\ c.op = "stage" /\ c.to = to /\ c.kind = "payment"
        BY <1>1, RequestMade DEF Ops, PopupCalls
    <2>2. Send(c) /\ view' = view
        BY <1>3 DEF SelectStage
    <2> HIDE DEF c
    <2>3. CallSound(c, stored)
        <3>1. view.live = stored => MoveTaken(stored, to, FALSE)
            BY <1>1, <1>3, StageLetThrough
        <3>2. view.live = stored => Accepts(stored, c)
            BY <2>1, <3>1 DEF Accepts, MoveTaken
        <3> QED BY <1>1, <2>1, <3>2, PressSound DEF Worded
    <2> QED BY <1>1, <2>1, <2>2, <2>3, SentOnly
<1> QED BY <1>2, <1>3

LEMMA ConfirmStageSound ==
    ASSUME PopupInv, ConfirmStage
    PROVE  PopupInv'
<1> DEFINE p == view.prompt
           c == [Request("stage") EXCEPT !.to = p.to, !.reason = p.why, !.base = p.base]
<1>1. view.open /\ p # NoPrompt /\ Send(c) /\ view' = view
    BY DEF ConfirmStage
<1>2. p \in Prompts /\ PromptSound(p, stored) /\ p.to \in AllStages
    BY <1>1, StateTyped, TargetsAssumption DEF Views, PopupInv, PopupSound, PromptSound
<1> HIDE DEF p
<1>3. c \in PopupCalls /\ c.phase = "sent" /\ c.base = p.base /\ c.op = "stage" /\ c.to = p.to /\ c.reason = p.why
    <2> DEFINE r == Request("stage")
    <2>1. p.why \in BOOLEAN /\ p.base \in Nat /\ p.to \in AllStages
        BY <1>2 DEF Prompts
    <2>2. r \in PopupCalls /\ r.phase = "sent" /\ r.op = "stage"
        BY RequestMade DEF Ops
    <2>3. c = [r EXCEPT !.to = p.to, !.reason = p.why, !.base = p.base]
        OBVIOUS
    <2> HIDE DEF r, c
    <2> QED BY <2>1, <2>2, <2>3 DEF PopupCalls
<1> HIDE DEF c
<1>4. CallSound(c, stored)
    <2>1. p.base = stored.rev => Accepts(stored, c)
        BY <1>1, <1>2, <1>3 DEF PromptSound, Accepts, MoveTaken
    <2> QED BY <1>1, <1>2, <1>3, <2>1 DEF CallSound, Worded, PromptSound
<1> QED BY <1>1, <1>3, <1>4, SentOnly

-----------------------------------------------------------------------------
(* What becomes of a call. *)

(* One call altered, the rest as they were.                                *)
LEMMA OneCall ==
    ASSUME NEW cs \in Seq(PopupCalls), NEW n \in DOMAIN cs, NEW d \in PopupCalls, NEW ds, ds = [cs EXCEPT ![n] = d]
    PROVE  ds \in Seq(PopupCalls) /\ DOMAIN ds = DOMAIN cs /\ ds[n] = d /\ \A m \in DOMAIN cs : m # n => ds[m] = cs[m]
<1>1. n \in 1..Len(cs) /\ Len(cs) \in Nat /\ DOMAIN cs = 1..Len(cs)
    BY LenProperties
<1>2. ds \in Seq(PopupCalls) /\ Len(ds) = Len(cs) /\ \A m \in 1..Len(cs) : ds[m] = IF m = n THEN d ELSE cs[m]
    BY <1>1, ExceptSeq
<1>3. DOMAIN ds = 1..Len(ds)
    BY <1>2, LenProperties
<1> QED BY <1>1, <1>2, <1>3

(* A call that comes to nothing, or whose answer goes unheard: it awaits no *)
(* save any more, and it moves no cards unless the popup is disturbed.     *)
LEMMA CallDropped ==
    ASSUME NEW l, NEW v, NEW cs, NEW n \in DOMAIN cs, NEW d \in PopupCalls, NEW ds, ds = [cs EXCEPT ![n] = d],
           PopupSound(l, v, cs), d.phase \in {"failed", "closes", "done"},
           d.heard => cs[n].heard /\ d.op = cs[n].op /\ d.kind = cs[n].kind /\ d.card = cs[n].card,
           v.open /\ ~v.disturbed /\ cs[n].phase = "ok" => ~MovesCards(cs[n]),
           v.saving # NoKey /\ SavesCard(cs[n], v.saving) => d.heard
    PROVE  PopupSound(l, v, ds)
<1>1. ds \in Seq(PopupCalls) /\ DOMAIN ds = DOMAIN cs /\ ds[n] = d /\ \A m \in DOMAIN cs : m # n => ds[m] = cs[m]
    BY OneCall DEF PopupSound
<1>2. ASSUME NEW m \in DOMAIN cs PROVE Kin(ds[m], cs[m])
    <2>1. CASE m = n
        BY <1>1, <2>1 DEF Kin
    <2>2. CASE m # n
        BY <1>1, <2>2 DEF Kin
    <2> QED BY <2>1, <2>2
<1>3. v.open /\ ~v.disturbed => \A m \in DOMAIN cs : Waits(cs, m) /\ MovesCards(cs[m]) => Waits(ds, m)
    BY <1>1 DEF Waits
<1>4. v.saving # NoKey => \E m \in DOMAIN ds : SavesCard(ds[m], v.saving)
    <2>1. ASSUME v.saving # NoKey PROVE \E m \in DOMAIN ds : SavesCard(ds[m], v.saving)
        <3>1. PICK m \in DOMAIN cs : SavesCard(cs[m], v.saving)
            BY <2>1 DEF PopupSound
        <3>2. SavesCard(ds[m], v.saving)
            BY <1>1, <2>1, <3>1 DEF SavesCard
        <3> QED BY <1>1, <3>2
    <2> QED BY <2>1
<1> QED BY <1>1, <1>2, <1>3, <1>4, CallsAltered

LEMMA AnsweredOk ==
    ASSUME NEW c \in PopupCalls, NEW answer \in Lead, NEW d, d = Answered(c, "ok", answer)
    PROVE  /\ d \in PopupCalls
           /\ c.heard => d.heard /\ d.op = c.op /\ d.phase = "ok" /\ d.card = c.card /\ d.kind = c.kind /\ d.answer = answer
           /\ ~c.heard => ~d.heard /\ d.phase \in {"closes", "done"}
<1>1. CASE c.heard
    <2>1. c.op \in Ops /\ c.card \in Keys /\ c.kind \in {"token", "payment"} /\ c.takes \in SUBSET Nat /\ answer \in Lead
        BY NobodyTyped DEF PopupCalls
    <2>2. d = [Finished EXCEPT !.heard = TRUE, !.op = c.op, !.phase = "ok", !.card = c.card, !.kind = c.kind,
                               !.takes = c.takes, !.answer = answer]
        BY <1>1 DEF Answered
    <2> QED BY <1>1, <2>1, <2>2, FinishedTyped DEF PopupCalls
<1>2. CASE ~c.heard
    <2>1. d = Finished \/ d = StillCloses
        BY <1>2 DEF Answered
    <2>2. Finished.phase = "done" /\ ~Finished.heard
        BY DEF Finished
    <2> QED BY <1>2, <2>1, <2>2, FinishedTyped, StillClosesTyped
<1> QED BY <1>1, <1>2

LEMMA AnsweredFailed ==
    ASSUME NEW c \in PopupCalls, NEW d, d = Answered(c, "failed", NoLead)
    PROVE  /\ d \in PopupCalls
           /\ c.heard => d.heard /\ d.op = c.op /\ d.phase = "failed" /\ d.card = c.card /\ d.kind = c.kind /\ d.answer = NoLead
           /\ ~c.heard => ~d.heard /\ d.phase = "done"
<1>1. CASE c.heard
    <2>1. c.op \in Ops /\ c.card \in Keys /\ c.kind \in {"token", "payment"} /\ c.takes \in SUBSET Nat /\ NoLead \in Lead
        BY NobodyTyped DEF PopupCalls
    <2>2. d = [Finished EXCEPT !.heard = TRUE, !.op = c.op, !.phase = "failed", !.card = c.card, !.kind = c.kind,
                               !.takes = c.takes, !.answer = NoLead]
        BY <1>1 DEF Answered
    <2> QED BY <1>1, <2>1, <2>2, FinishedTyped DEF PopupCalls
<1>2. CASE ~c.heard
    <2>1. d = Finished
        BY <1>2 DEF Answered
    <2>2. Finished.phase = "done" /\ ~Finished.heard
        BY DEF Finished
    <2> QED BY <1>2, <2>1, <2>2, FinishedTyped
<1> QED BY <1>1, <1>2

(* A popup disturbed, or no more than it was.                              *)
LEMMA PopupDisturbed ==
    ASSUME NEW l, NEW v, NEW cs, PopupSound(l, v, cs), NEW flag \in BOOLEAN, v.disturbed => flag,
           NEW w, w = [v EXCEPT !.disturbed = flag]
    PROVE  PopupSound(l, w, cs) /\ w.open = v.open /\ w.saving = v.saving /\ w.disturbed = flag
<1>1. v \in Views /\ PromptSound(v.prompt, l)
    BY DEF PopupSound
<1>2. /\ w \in Views /\ w.open = v.open /\ w.live = v.live /\ w.saving = v.saving /\ w.prompt = v.prompt
      /\ w.forms = v.forms /\ w.tokenForm = v.tokenForm /\ w.disturbed = flag
    BY <1>1 DEF Views
<1>3. PopupSound(l, w, cs)
    BY <1>1, <1>2, ViewAltered DEF FormsOf
<1> QED BY <1>2, <1>3

-----------------------------------------------------------------------------
(* The server. *)

LEMMA ServeSound ==
    ASSUME PopupInv, NEW n \in 1..MaxCalls, Serve(n)
    PROVE  PopupInv'
<1> DEFINE c == calls[n]
           after == LeadAfter(stored, c)
<1>1. n \in DOMAIN calls /\ c \in PopupCalls /\ CallSound(c, stored) /\ c.phase = "sent" /\ stored \in Lead
    BY StateTyped DEF Serve
<1>2. CASE Accepts(stored, c) /\ stored' = after /\ calls' = [calls EXCEPT ![n] = Answered(@, "ok", after)] /\ view' = Disturbed(c)
    <2> DEFINE flag == view.disturbed \/ (view.open /\ ~c.heard /\ MovesCards(c))
               w == [view EXCEPT !.disturbed = flag]
               d == Answered(c, "ok", after)
               ds == [calls EXCEPT ![n] = d]
    <2>1. Leaves(stored, c, after) /\ after \in Lead
        <3>1. Leaves(stored, c, after)
            BY <1>1, <1>2, RequestTaken DEF CallSound
        <3> QED BY <3>1 DEF Leaves
    <2>2. view' = w /\ calls' = ds
        BY <1>1, <1>2, StateTyped DEF Disturbed
    <2>3. flag \in BOOLEAN /\ (view.disturbed => flag)
        BY StateTyped DEF Views
    <2>4. flag => view.disturbed \/ (view.open /\ ~c.heard /\ MovesCards(c))
        OBVIOUS
    <2>5. view.open /\ ~c.heard /\ MovesCards(c) => flag
        OBVIOUS
    <2> HIDE DEF after, flag, w
    <2>6. /\ d \in PopupCalls
          /\ c.heard => d.heard /\ d.op = c.op /\ d.phase = "ok" /\ d.card = c.card /\ d.kind = c.kind /\ d.answer = after
          /\ ~c.heard => ~d.heard /\ d.phase \in {"closes", "done"}
        <3>1. d = Answered(c, "ok", after)
            OBVIOUS
        <3> HIDE DEF d, c
        <3> QED BY <1>1, <2>1, <3>1, AnsweredOk
    <2> HIDE DEF d
    <2>7. CASE c.heard
        <3>1. d.heard /\ d.op = c.op /\ d.phase = "ok" /\ d.card = c.card /\ d.kind = c.kind /\ d.answer = after
            BY <2>6, <2>7
        <3> HIDE DEF ds
        <3>2. ds \in Seq(PopupCalls) /\ DOMAIN ds = DOMAIN calls /\ ds[n] = d /\ \A m \in DOMAIN calls : m # n => ds[m] = calls[m]
            BY <1>1, <2>6, StateTyped, OneCall DEF ds
        <3>3. PopupSound(stored, w, calls)
            BY <2>3, PopupDisturbed DEF PopupInv, w
        <3>4. PopupSound(after, w, ds)
            BY <1>1, <2>1, <2>7, <3>1, <3>2, <3>3, CallServed
        <3> QED BY <1>2, <2>2, <3>4 DEF PopupInv, after
    <2>8. CASE ~c.heard
        <3>2. d.phase \in {"closes", "done"} /\ ~d.heard
            BY <2>6, <2>8
        <3>3. PopupSound(stored, view, ds)
            BY <1>1, <2>6, <2>8, <3>2, CallDropped DEF PopupInv, SavesCard
        <3> HIDE DEF ds
        <3>4. PopupSound(stored, w, ds) /\ w.open = view.open /\ w.disturbed = flag
            BY <2>3, <3>3, PopupDisturbed DEF w
        <3>5. PopupSound(after, w, ds)
            BY <2>1, <2>5, <2>8, <3>4, LeadChanged
        <3> QED BY <1>2, <2>2, <3>5 DEF PopupInv, after
    <2> QED BY <2>7, <2>8
<1>3. CASE calls' = [calls EXCEPT ![n] = Answered(@, "failed", NoLead)] /\ UNCHANGED <<stored, view>>
    <2> DEFINE d == Answered(c, "failed", NoLead)
               ds == [calls EXCEPT ![n] = d]
    <2>1. calls' = ds
        BY <1>1, <1>3, StateTyped
    <2>2. d \in PopupCalls /\ d.phase \in {"failed", "done"} /\ (c.heard => d.heard)
          /\ (d.heard => c.heard /\ d.op = c.op /\ d.kind = c.kind /\ d.card = c.card)
        <3>1. d = Answered(c, "failed", NoLead)
            OBVIOUS
        <3> HIDE DEF d, c
        <3> QED BY <1>1, <3>1, AnsweredFailed
    <2> HIDE DEF d
    <2>3. PopupSound(stored, view, ds)
        BY <1>1, <2>2, CallDropped DEF PopupInv, SavesCard
    <2> QED BY <1>3, <2>1, <2>3 DEF PopupInv
<1> QED BY <1>2, <1>3 DEF Serve

LEMMA OthersTyped ==
    ASSUME NEW c \in OthersRequests
    PROVE  c \in PopupCalls /\ Worded(c) /\ ~c.heard
<1> DEFINE Records == {[Unheard("record") EXCEPT !.kind = p.kind, !.amount = p.amount, !.dated = p.dated] :
                            p \in [kind : {"token", "payment"}, amount : Figures, dated : BOOLEAN]}
           Corrections == {[Unheard("correct") EXCEPT !.place = p.place, !.amount = p.amount, !.dated = TRUE] :
                            p \in [place : 1..Fee, amount : Figures]}
           Deletions == {[Unheard("delete") EXCEPT !.place = i] : i \in 1..Fee}
           Balances == {[Unheard("balance") EXCEPT !.dated = d] : d \in BOOLEAN}
           Moves == {[Unheard("stage") EXCEPT !.to = to] : to \in Targets}
<1>1. ASSUME NEW op \in Ops
      PROVE  Unheard(op) \in PopupCalls /\ ~Unheard(op).heard /\ Unheard(op).op = op
    BY FinishedTyped DEF Unheard, PopupCalls, Finished
<1>2. c \in Records \/ c \in Corrections \/ c \in Deletions \/ c \in Balances \/ c \in Moves
      \/ c = Unheard("plan") \/ c = Unheard("rejoin")
    <2>1. OthersRequests = Records \cup Corrections \cup Deletions \cup Balances \cup Moves \cup {Unheard("plan"), Unheard("rejoin")}
        BY DEF OthersRequests
    <2> HIDE DEF Records, Corrections, Deletions, Balances, Moves
    <2> QED BY <2>1
<1>3. \A a \in Figures : a \in Nat
    BY FeeAssumption
<1>4. \A i \in 1..Fee : i \in Nat
    BY FeeAssumption
<1>5. CASE c \in Records
    <2>1. PICK p \in [kind : {"token", "payment"}, amount : Figures, dated : BOOLEAN] :
               c = [Unheard("record") EXCEPT !.kind = p.kind, !.amount = p.amount, !.dated = p.dated]
        BY <1>5
    <2> QED BY <1>1, <1>3, <2>1 DEF PopupCalls, Ops, Worded
<1>6. CASE c \in Corrections
    <2>1. PICK p \in [place : 1..Fee, amount : Figures] :
               c = [Unheard("correct") EXCEPT !.place = p.place, !.amount = p.amount, !.dated = TRUE]
        BY <1>6
    <2> QED BY <1>1, <1>3, <1>4, <2>1 DEF PopupCalls, Ops, Worded
<1>7. CASE c \in Deletions
    <2>1. PICK i \in 1..Fee : c = [Unheard("delete") EXCEPT !.place = i]
        BY <1>7
    <2> QED BY <1>1, <1>4, <2>1 DEF PopupCalls, Ops, Worded
<1>8. CASE c \in Balances
    <2>1. PICK d \in BOOLEAN : c = [Unheard("balance") EXCEPT !.dated = d]
        BY <1>8
    <2> QED BY <1>1, <2>1 DEF PopupCalls, Ops, Worded
<1>9. CASE c \in Moves
    <2>1. PICK to \in Targets : c = [Unheard("stage") EXCEPT !.to = to]
        BY <1>9
    <2>2. to \in AllStages
        BY TargetsAssumption
    <2> QED BY <1>1, <2>1, <2>2 DEF PopupCalls, Ops, Worded
<1>10. CASE c = Unheard("plan") \/ c = Unheard("rejoin")
    BY <1>1, <1>10 DEF Ops, Worded
<1> QED BY <1>2, <1>5, <1>6, <1>7, <1>8, <1>9, <1>10

LEMMA OtherStaffSound ==
    ASSUME PopupInv, OtherStaff
    PROVE  PopupInv'
<1>1. PICK c \in OthersRequests : Accepts(stored, c) /\ stored' = LeadAfter(stored, c) /\ view' = Disturbed(c)
    BY DEF OtherStaff
<1> DEFINE flag == view.disturbed \/ (view.open /\ ~c.heard /\ MovesCards(c))
           w == [view EXCEPT !.disturbed = flag]
           after == LeadAfter(stored, c)
<1>2. c \in PopupCalls /\ Worded(c) /\ ~c.heard
    BY OthersTyped
<1>3. Leaves(stored, c, after)
    BY <1>1, <1>2, StateTyped, RequestTaken
<1>4. view' = w
    BY <1>1, StateTyped DEF Disturbed
<1>5. flag \in BOOLEAN /\ (view.disturbed => flag) /\ (view.open /\ MovesCards(c) => flag)
    BY <1>2, StateTyped DEF Views
<1> HIDE DEF flag, after
<1>6. PopupSound(stored, w, calls) /\ w.open = view.open /\ w.disturbed = flag
    BY <1>5, PopupDisturbed DEF PopupInv
<1> HIDE DEF w
<1>7. PopupSound(after, w, calls)
    BY <1>3, <1>5, <1>6, LeadChanged
<1> QED BY <1>1, <1>4, <1>7 DEF PopupInv, OtherStaff, after

LEMMA FailSound ==
    ASSUME PopupInv, NEW n \in 1..MaxCalls, Fail(n)
    PROVE  PopupInv'
<1> DEFINE c == calls[n]
           flag == view.disturbed \/ (c.phase = "ok" /\ MovesCards(c))
           w == [view EXCEPT !.disturbed = flag]
           d == Answered(c, "failed", NoLead)
           ds == [calls EXCEPT ![n] = d]
<1>1. n \in DOMAIN calls /\ c \in PopupCalls /\ c.heard
    BY StateTyped DEF Fail
<1>2. stored' = stored /\ view' = w /\ calls' = ds
    BY <1>1, StateTyped DEF Fail
<1>3. flag \in BOOLEAN /\ (view.disturbed => flag) /\ (c.phase = "ok" /\ MovesCards(c) => flag)
    BY StateTyped DEF Views
<1>4. d \in PopupCalls /\ d.phase = "failed" /\ d.heard /\ d.op = c.op /\ d.kind = c.kind /\ d.card = c.card
    <2>1. d = Answered(c, "failed", NoLead)
        OBVIOUS
    <2> HIDE DEF d, c
    <2> QED BY <1>1, <2>1, AnsweredFailed
<1> HIDE DEF flag, d
<1>5. PopupSound(stored, w, calls) /\ w.disturbed = flag
    BY <1>3, PopupDisturbed DEF PopupInv
<1> HIDE DEF w
<1>6. PopupSound(stored, w, ds)
    BY <1>1, <1>3, <1>4, <1>5, CallDropped
<1> QED BY <1>2, <1>6 DEF PopupInv

-----------------------------------------------------------------------------
(* The answers, as the popup takes them. *)

(* The calls as the rerender after an answer leaves them: the same ones,   *)
(* though a save of theirs may have lost the draft it was to take away.    *)
LEMMA Rerendered ==
    ASSUME PopupInv, NEW n \in DOMAIN calls, NEW unmounted, NEW cs, cs = IF unmounted THEN TakingNothing ELSE calls
    PROVE  /\ cs \in Seq(PopupCalls) /\ DOMAIN cs = DOMAIN calls /\ PopupSound(stored, view, cs)
           /\ \A m \in DOMAIN calls :
                /\ cs[m].phase = calls[m].phase /\ cs[m].heard = calls[m].heard /\ cs[m].op = calls[m].op
                /\ cs[m].card = calls[m].card /\ cs[m].kind = calls[m].kind /\ cs[m].answer = calls[m].answer
<1>1. CASE unmounted
    <2>1. cs = TakingNothing
        BY <1>1
    <2> QED BY <2>1, TakingNothingKin
<1>2. CASE ~unmounted
    <2>1. cs = calls
        BY <1>2
    <2> QED BY <2>1, StateTyped DEF PopupInv
<1> QED BY <1>1, <1>2

LEMMA DeliverTaken ==
    ASSUME PopupInv, NEW n \in DOMAIN calls, Deliver(n), calls[n].phase = "ok"
    PROVE  PopupInv'
<1> DEFINE c == calls[n]
           unmounted == SectionShown(view.live, view.tab) # SectionShown(view'.live, view.tab)
           cs == IF unmounted THEN TakingNothing ELSE calls
           ds == [cs EXCEPT ![n] = Finished]
           disturbed == view.disturbed \/ Overtakes(n)
           w == view'
<1>1. stored' = stored /\ calls' = ds /\ c.heard
    BY DEF Deliver
<1>2. c \in PopupCalls /\ CallSound(c, stored) /\ view \in Views /\ view.open /\ c.answer \in Lead
    <2>1. c \in PopupCalls /\ CallSound(c, stored) /\ view \in Views
        BY StateTyped
    <2>2. view.open
        BY <1>1 DEF PopupInv, PopupSound
    <2> QED BY <2>1, <2>2 DEF PopupCalls
<1>3. /\ cs \in Seq(PopupCalls) /\ DOMAIN cs = DOMAIN calls /\ PopupSound(stored, view, cs)
      /\ \A m \in DOMAIN calls :
            /\ cs[m].phase = calls[m].phase /\ cs[m].heard = calls[m].heard /\ cs[m].op = calls[m].op
            /\ cs[m].card = calls[m].card /\ cs[m].kind = calls[m].kind /\ cs[m].answer = calls[m].answer
    <2> HIDE DEF unmounted
    <2> QED BY Rerendered
<1>4. disturbed \in BOOLEAN /\ (~disturbed => ~view.disturbed /\ ~Overtakes(n))
    BY <1>2 DEF Views
<1> HIDE DEF cs, disturbed
<1>5. ds \in Seq(PopupCalls) /\ DOMAIN ds = DOMAIN cs /\ ds[n] = Finished /\ \A m \in DOMAIN cs : m # n => ds[m] = cs[m]
    BY <1>3, FinishedTyped, OneCall
<1>6. ~disturbed => \A m \in DOMAIN cs : m # n /\ Waits(cs, m) => cs[n].answer.rev <= cs[m].answer.rev
    <2>1. \A m \in DOMAIN cs : cs[m].answer.rev \in Nat
        BY <1>2, <1>3, KnownLeads
    <2> QED BY <1>3, <1>4, <2>1 DEF Overtakes, Waits
<1>7. Waits(cs, n) /\ cs[n].heard /\ cs[n].answer = c.answer /\ cs[n].op = c.op
    BY <1>1, <1>3 DEF Waits
<1>8. ~disturbed => /\ FormsOf(view)
                    /\ c.op # "delete" => SamePayments(view.live, c.answer)
                    /\ ~MovesCards(c) => SameToken(view.live, c.answer)
    <2> SUFFICES ASSUME ~disturbed
                 PROVE  /\ FormsOf(view)
                        /\ c.op # "delete" => SamePayments(view.live, c.answer)
                        /\ ~MovesCards(c) => SameToken(view.live, c.answer)
        OBVIOUS
    <2>1. FormsOf(view) /\ InOrder(cs, view.live, stored)
        BY <1>2, <1>3, <1>4 DEF PopupSound
    <2>2. view.live \in Lead /\ stored \in Lead
        BY StateTyped
    <2>3. /\ cs[n].op # "delete" => SamePayments(view.live, cs[n].answer)
          /\ ~MovesCards(cs[n]) => SameToken(view.live, cs[n].answer)
        BY <1>3, <1>6, <1>7, <2>1, <2>2, FirstAnswer
    <2>4. MovesCards(cs[n]) = MovesCards(c)
        BY <1>3 DEF MovesCards
    <2> QED BY <1>7, <2>1, <2>3, <2>4
<1>9. /\ w \in Views /\ w.open = view.open /\ w.live = c.answer /\ w.prompt = view.prompt /\ w.disturbed = disturbed
      /\ w.saving = NoKey \/ (w.saving = view.saving /\ c.op \notin {"record", "correct"})
      /\ ~disturbed => FormsOf(w)
    <2>1. CASE DeliverSave(n)
        <3> DEFINE s == SameKeys(view, c.answer)
                   drafts == s.drafts \ c.takes
                   token == IF c.card = TokenKey THEN TokenFormFor(c.answer) ELSE s.tokenForm
        <3>1. w = [[s EXCEPT !.drafts = drafts, !.tokenForm = token, !.disturbed = s.disturbed \/ Overtakes(n)] EXCEPT !.saving = NoKey]
            BY <2>1 DEF DeliverSave
        <3>2. s.disturbed = view.disturbed /\ s \in Views
            BY <1>2, SameKeysView DEF SameBut
        <3> HIDE DEF s, drafts, token
        <3>3. w = [s EXCEPT !.drafts = drafts, !.tokenForm = token, !.disturbed = disturbed, !.saving = NoKey]
            BY <3>1, <3>2 DEF Views, disturbed
        <3>4. /\ s \in Views /\ SameBut(view, s) /\ s.live = c.answer
              /\ FormsOf(view) /\ SamePayments(view.live, c.answer) => s.forms = FormsFor(c.answer)
              /\ FormsOf(view) /\ SamePayments(view.live, c.answer) /\ SameToken(view.live, c.answer) => FormsOf(s)
            BY <1>2, SameKeysView DEF s
        <3>5. drafts \in SUBSET Nat /\ token \in Nat /\ NoKey \in Keys
            <4>1. s.drafts \in SUBSET Nat /\ s.tokenForm \in Nat
                BY <3>4 DEF Views
            <4> QED BY <1>2, <4>1, FormsTyped, KeysTyped DEF drafts, token
        <3> HIDE DEF w
        <3>6. /\ w \in Views /\ w.open = s.open /\ w.live = s.live /\ w.prompt = s.prompt /\ w.saving = NoKey
              /\ w.disturbed = disturbed /\ w.forms = s.forms /\ w.tokenForm = token
            BY <1>4, <3>3, <3>4, <3>5 DEF Views
        <3>7. /\ c.card # TokenKey /\ FormsOf(s) /\ TokenPaid(c.answer) => token = TokenFormFor(c.answer)
              /\ c.card = TokenKey => token = TokenFormFor(c.answer)
            BY <3>4 DEF FormsOf, token
        <3>8. c.op # "delete" /\ (c.card # TokenKey => ~MovesCards(c))
            BY <1>1, <1>2, <2>1 DEF DeliverSave, CallSound, MovesCards
        <3>9. ~disturbed => FormsOf(w)
            BY <1>8, <3>4, <3>6, <3>7, <3>8 DEF FormsOf
        <3> QED BY <3>4, <3>6, <3>9 DEF SameBut
    <2>2. CASE DeliverDelete(n)
        <3> DEFINE s == NewKeys(view, c.answer)
        <3>1. s \in Views /\ SameBut(view, s) /\ s.live = c.answer /\ FormsOf(s)
            BY <1>2, NewKeysView
        <3>2. w = [s EXCEPT !.disturbed = s.disturbed \/ Overtakes(n)] /\ c.op = "delete"
            BY <2>2 DEF DeliverDelete
        <3> HIDE DEF s
        <3>3. w = [s EXCEPT !.disturbed = disturbed]
            BY <3>1, <3>2 DEF SameBut, disturbed
        <3> HIDE DEF w
        <3>4. /\ w \in Views /\ w.open = s.open /\ w.live = s.live /\ w.prompt = s.prompt /\ w.disturbed = disturbed
              /\ w.saving = s.saving /\ w.forms = s.forms /\ w.tokenForm = s.tokenForm
            BY <1>4, <3>1, <3>3 DEF Views
        <3> QED BY <3>1, <3>2, <3>4 DEF SameBut, FormsOf
    <2>3. CASE DeliverLead(n)
        <3> DEFINE s == SameKeys(view, c.answer)
        <3>1. /\ s \in Views /\ SameBut(view, s) /\ s.live = c.answer
              /\ FormsOf(view) /\ SamePayments(view.live, c.answer) /\ SameToken(view.live, c.answer) => FormsOf(s)
            BY <1>2, SameKeysView
        <3>2. w = [s EXCEPT !.disturbed = s.disturbed \/ Overtakes(n)] /\ c.op \in {"balance", "plan", "rejoin"}
            BY <2>3 DEF DeliverLead
        <3> HIDE DEF s
        <3>3. w = [s EXCEPT !.disturbed = disturbed]
            BY <3>1, <3>2 DEF SameBut, disturbed
        <3>4. c.op # "delete" /\ ~MovesCards(c)
            BY <3>2 DEF MovesCards
        <3> HIDE DEF w
        <3>5. /\ w \in Views /\ w.open = s.open /\ w.live = s.live /\ w.prompt = s.prompt /\ w.disturbed = disturbed
              /\ w.saving = s.saving /\ w.forms = s.forms /\ w.tokenForm = s.tokenForm
            BY <1>4, <3>1, <3>3 DEF Views
        <3> QED BY <1>8, <3>1, <3>2, <3>4, <3>5 DEF SameBut, FormsOf
    <2> QED BY <2>1, <2>2, <2>3 DEF Deliver
<1> HIDE DEF w, ds, c
<1>10. PopupSound(stored, w, ds)
    BY <1>3, <1>4, <1>5, <1>6, <1>7, <1>9, AnswerTaken
<1> QED BY <1>1, <1>10 DEF PopupInv, w

LEMMA DeliverRefused ==
    ASSUME PopupInv, NEW n \in DOMAIN calls, Deliver(n), calls[n].phase = "failed"
    PROVE  PopupInv'
<1> DEFINE c == calls[n]
           unmounted == SectionShown(view.live, view.tab) # SectionShown(view'.live, view.tab)
           cs == IF unmounted THEN TakingNothing ELSE calls
           ds == [cs EXCEPT ![n] = Finished]
           w == view'
<1>1. stored' = stored /\ calls' = ds /\ view \in Views
    BY StateTyped DEF Deliver
<1>2. /\ cs \in Seq(PopupCalls) /\ DOMAIN cs = DOMAIN calls /\ PopupSound(stored, view, cs)
      /\ \A m \in DOMAIN calls : cs[m].phase = calls[m].phase /\ cs[m].op = calls[m].op
    <2> HIDE DEF unmounted
    <2> QED BY Rerendered
<1> HIDE DEF cs
<1>3. \/ w = [view EXCEPT !.saving = NoKey]
      \/ w = view /\ c.op \notin {"record", "correct"}
    BY DEF Deliver, DeliverSave, DeliverDelete, DeliverLead
<1> HIDE DEF w
<1>4. /\ w \in Views /\ w.open = view.open /\ w.live = view.live /\ w.prompt = view.prompt /\ w.disturbed = view.disturbed
      /\ w.forms = view.forms /\ w.tokenForm = view.tokenForm
      /\ w.saving = NoKey \/ (w.saving = view.saving /\ c.op \notin {"record", "correct"})
    BY <1>1, <1>3, KeysTyped DEF Views
<1>5. PopupSound(stored, w, cs)
    BY <1>2, <1>4, ViewAltered DEF PopupInv, PopupSound, FormsOf
<1>6. Finished.phase = "done" /\ ~Finished.heard /\ Finished \in PopupCalls
    BY FinishedTyped DEF Finished
<1>7. w.saving # NoKey => ~SavesCard(cs[n], w.saving)
    BY <1>2, <1>4 DEF SavesCard
<1>8. PopupSound(stored, w, ds)
    BY <1>2, <1>5, <1>6, <1>7, CallDropped
<1> QED BY <1>1, <1>8 DEF PopupInv, w

LEMMA DeliverSound ==
    ASSUME PopupInv, NEW n \in 1..MaxCalls, Deliver(n)
    PROVE  PopupInv'
<1>1. n \in DOMAIN calls /\ calls[n].phase \in {"ok", "failed"}
    BY DEF Deliver
<1> QED BY <1>1, DeliverTaken, DeliverRefused

LEMMA DeliverClosingSound ==
    ASSUME PopupInv, NEW n \in 1..MaxCalls, DeliverClosing(n)
    PROVE  PopupInv'
<1>1. n \in DOMAIN calls /\ stored' = stored
    BY DEF DeliverClosing
<1>2. Finished.phase = "done" /\ ~Finished.heard /\ Finished \in PopupCalls
    BY FinishedTyped DEF Finished
<1>3. CASE view' = Closed /\ calls' = [Orphaned EXCEPT ![n] = Finished]
    <2> DEFINE ds == [Orphaned EXCEPT ![n] = Finished]
    <2>1. ds \in Seq(PopupCalls) /\ DOMAIN ds = DOMAIN calls /\ ds[n] = Finished /\ \A m \in DOMAIN calls : m # n => ds[m] = Orphaned[m]
        BY <1>1, <1>2, OrphanedKin, OneCall
    <2> HIDE DEF ds
    <2>2. \A m \in DOMAIN calls : ~ds[m].heard /\ Kin(ds[m], calls[m])
        <3>1. Kin(Finished, calls[n])
            BY <1>2 DEF Kin
        <3> QED BY <1>2, <2>1, <3>1, OrphanedKin
    <2>3. PopupSound(stored, Closed, ds)
        BY <2>1, <2>2, ClosedSound
    <2> QED BY <1>1, <1>3, <2>3 DEF PopupInv, ds
<1>4. CASE Closing(calls[n]) /\ calls[n].phase = "failed" /\ calls' = [calls EXCEPT ![n] = Finished] /\ view' = view
    <2>1. view.saving # NoKey => ~SavesCard(calls[n], view.saving)
        BY <1>4 DEF SavesCard, Closing
    <2>2. PopupSound(stored, view, [calls EXCEPT ![n] = Finished])
        BY <1>1, <1>2, <1>4, <2>1, CallDropped DEF PopupInv
    <2> QED BY <1>1, <1>4, <2>2 DEF PopupInv
<1> QED BY <1>3, <1>4 DEF DeliverClosing

-----------------------------------------------------------------------------
(* The invariant. *)

LEMMA PopupInitSound == PopupInit => PopupInv
<1> SUFFICES ASSUME PopupInit PROVE PopupInv
    OBVIOUS
<1>1. InitialEntries \subseteq Seq(Installment)
    BY DEF InitialEntries, Installment
<1>2. stored \in Lead
    <2>1. {"rnr", "financial_approval", "lost"} \subseteq AllStages
        BY DEF AllStages, StageOrder, ToSet
    <2> QED BY <1>1, <2>1 DEF PopupInit, Lead
<1>3. LeadSound(stored)
    BY DEF PopupInit, LeadSound
<1>4. Closed \in Views /\ ~Closed.open /\ Closed.saving = NoKey /\ Closed.prompt = NoPrompt
    BY ClosedView
<1>5. view = Closed /\ calls = <<>> /\ calls \in Seq(PopupCalls) /\ DOMAIN calls = {}
    BY DEF PopupInit
<1> HIDE DEF Closed
<1> QED BY <1>2, <1>3, <1>4, <1>5 DEF PopupInv, PopupSound, PromptSound

LEMMA PopupNextSound == PopupInv /\ [PopupNext]_popupVars => PopupInv'
<1> SUFFICES ASSUME PopupInv, [PopupNext]_popupVars PROVE PopupInv'
    OBVIOUS
<1>1. CASE Press
    BY <1>1, PressSaveSound, PressDeleteSound, SimplePressSound, ConfirmStageSound DEF Press
<1>2. CASE Look
    BY <1>2, OpenSound, CloseSound, SwitchTabSound, DraftsSound, SelectStageSound DEF Look
<1>3. CASE OtherStaff
    BY <1>3, OtherStaffSound
<1>4. ASSUME NEW n \in 1..MaxCalls, Serve(n) \/ Fail(n) \/ Answer(n) PROVE PopupInv'
    BY <1>4, ServeSound, FailSound, DeliverSound, DeliverClosingSound DEF Answer
<1>5. CASE UNCHANGED popupVars
    BY <1>5 DEF popupVars, PopupInv
<1> QED BY <1>1, <1>2, <1>3, <1>4, <1>5 DEF PopupNext

(* Whatever the popup and other staff have done: the copies of the lead    *)
(* that the popup and its answers hold are the lead or older; a request on *)
(* its way would be taken if the lead has not changed since; and, unless   *)
(* the popup was disturbed, the answers to come keep the payments in place *)
(* but for the deletions among them.                                       *)
THEOREM PopupInvariance == PopupSpec => []PopupInv
BY PopupInitSound, PopupNextSound, PTL DEF PopupSpec

(* LeadService refuses a save, a plan, a date, a rejoin or a stage move of *)
(* the popup's only when the lead has changed since the copy it was worked *)
(* out from: the popup's own checks are never laxer than the server's.     *)
THEOREM PopupChecksAreNoLaxer == PopupSpec => []RefusedOnlyIfStale
<1>1. PopupInv => RefusedOnlyIfStale
    BY StateTyped DEF CallSound, RefusedOnlyIfStale
<1> QED BY <1>1, PopupInvariance, PTL

(* The card that shows "Saving..." is one whose save is still under way,   *)
(* however requests overlap, fail or are answered out of order.            *)
THEOREM SavingEnds == PopupSpec => []SavingIsUnderWay
<1>1. PopupInv => SavingIsUnderWay
    BY DEF PopupInv, PopupSound, SavingIsUnderWay
<1> QED BY <1>1, PopupInvariance, PTL

(* As long as nobody else moves the lead's payments and answers come in    *)
(* the order they were made, each saved payment's card holds the figures   *)
(* of the payment it stands for, deletions of the popup's own included.    *)
THEOREM CardsShowEntries == PopupSpec => []CardsShowTheirEntries
<1>1. PopupInv => CardsShowTheirEntries
    BY DEF PopupInv, PopupSound, CardsShowTheirEntries, FormsFollow, FormsOf
<1> QED BY <1>1, PopupInvariance, PTL
=============================================================================

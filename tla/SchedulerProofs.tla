--------------------------- MODULE SchedulerProofs --------------------------
(***************************************************************************)
(* The rules of module Peers, proved to follow from chschd.c as module     *)
(* Scheduler has it, for any number of threads and any quantum.            *)
(***************************************************************************)
EXTENDS Scheduler, SequenceTheorems, WellFoundedInduction, TLAPS

-----------------------------------------------------------------------------
(* Induction.  The theorems of the library take an operator; these take a  *)
(* set, and rest on each set of numbers having a least.                    *)

(* A set of natural numbers has a least one. *)
LEMMA Least ==
  ASSUME NEW T \in SUBSET Nat, T # {}
  PROVE  \E x \in T : \A y \in T : x <= y
<1> DEFINE R == {p \in Nat \X Nat : p[1] < p[2]}
<1>1. IsWellFoundedOn(R, Nat)
  <2>1. OpToRel(<, Nat) = R
    BY DEF OpToRel
  <2> QED
    BY <2>1, NatLessThanWellFounded
<1> HIDE DEF R
<1>2. \E x \in T : \A y \in T : ~(<<y, x>> \in R)
  BY <1>1, WFMin
<1>3. \A x, y \in Nat : ~(<<y, x>> \in R) => x <= y
  BY DEF R
<1> QED
  BY <1>2, <1>3

(* A set that has 0, and with each number the next, has them all. *)
LEMMA Induction ==
  ASSUME NEW T \in SUBSET Nat, 0 \in T, \A n \in T : n + 1 \in T
  PROVE  T = Nat
<1> SUFFICES ASSUME Nat \ T # {} PROVE FALSE
  OBVIOUS
<1>1. PICK x \in Nat \ T : \A y \in Nat \ T : x <= y
  BY Least
<1>2. x - 1 \in Nat /\ ~(x <= x - 1)
  OBVIOUS
<1>3. x - 1 \in T
  BY <1>1, <1>2
<1> QED
  BY <1>2, <1>3

(* The same of lists, that grow at their end. *)
LEMMA ListInduction ==
  ASSUME NEW T, NEW X \in SUBSET Seq(T), <<>> \in X,
         \A s \in X, e \in T : Append(s, e) \in X
  PROVE  X = Seq(T)
<1> DEFINE N == {n \in Nat : \A s \in Seq(T) : Len(s) = n => s \in X}
<1>1. 0 \in N
  BY EmptySeq
<1>2. ASSUME NEW n \in N PROVE n + 1 \in N
  <2> SUFFICES ASSUME NEW s \in Seq(T), Len(s) = n + 1 PROVE s \in X
    OBVIOUS
  <2>1. s # <<>> /\ n \in Nat
    BY EmptySeq
  <2>2. PICK r \in Seq(T), e \in T : s = Append(r, e)
    BY <2>1, SequenceEmptyOrAppend, Zenon
  <2>3. Len(s) = Len(r) + 1 /\ Len(r) \in Nat
    BY <2>2, AppendProperties, LenProperties
  <2>4. Len(r) = n
    BY <2>1, <2>3
  <2> QED
    BY <2>2, <2>4
<1>3. N = Nat
  <2> HIDE DEF N
  <2>1. N \in SUBSET Nat
    BY DEF N
  <2> QED
    BY <1>1, <1>2, <2>1, Induction
<1>4. \A s \in Seq(T) : Len(s) \in Nat
  BY LenProperties
<1> QED
  BY <1>3, <1>4

-----------------------------------------------------------------------------
(* What Only takes of a list.                                              *)

(* The recursive function in Only ... *)
Taken(f, s, S) ==
  f = [n \in 0 .. Len(s) |->
         IF n = 0 THEN <<>> ELSE IF s[n] \in S THEN Append(f[n - 1], s[n]) ELSE f[n - 1]]

(* ... place by place. *)
Unfolds(f, s, S) ==
  \A n \in 0 .. Len(s) :
    /\ n = 0 => f[n] = <<>>
    /\ n # 0 /\ s[n] \in S => f[n] = Append(f[n - 1], s[n])
    /\ n # 0 /\ s[n] \notin S => f[n] = f[n - 1]

(* The one is the other. *)
LEMMA TakenUnfolds ==
  ASSUME NEW f, NEW s, NEW S, Taken(f, s, S)
  PROVE  Unfolds(f, s, S)
<1> SUFFICES ASSUME NEW n \in 0 .. Len(s)
             PROVE  /\ n = 0 => f[n] = <<>>
                    /\ n # 0 /\ s[n] \in S => f[n] = Append(f[n - 1], s[n])
                    /\ n # 0 /\ s[n] \notin S => f[n] = f[n - 1]
  BY DEF Unfolds
<1>1. f[n] = IF n = 0 THEN <<>> ELSE IF s[n] \in S THEN Append(f[n - 1], s[n]) ELSE f[n - 1]
  BY Zenon DEF Taken
<1> QED
  BY <1>1, Zenon

(* If there is such a function, Only has one. *)
LEMMA OnlyUnfolds ==
  ASSUME NEW s, NEW S, \E f : Taken(f, s, S)
  PROVE  \E f : Unfolds(f, s, S) /\ Only(s, S) = f[Len(s)]
<1> DEFINE f == CHOOSE f : Taken(f, s, S)
<1>1. Taken(f, s, S)
  OBVIOUS
<1>2. Only(s, S) = f[Len(s)]
  BY Zenon DEF Only, Taken
<1> QED
  BY <1>1, <1>2, TakenUnfolds

(* There is one for every list. *)
LEMMA TakenExists ==
  ASSUME NEW T, NEW S, NEW s \in Seq(T)
  PROVE  \E f : Taken(f, s, S)
<1> DEFINE X == {r \in Seq(T) : \E f : Taken(f, r, S)}
<1>1. <<>> \in X
  <2> DEFINE f == [n \in 0 .. 0 |-> <<>>]
  <2>1. Len(<<>>) = 0 /\ 0 .. 0 = {0}
    OBVIOUS
  <2>2. Taken(f, <<>>, S)
    BY <2>1 DEF Taken
  <2> QED
    BY <2>2
<1>2. ASSUME NEW r \in X, NEW e \in T PROVE Append(r, e) \in X
  <2>1. PICK f : Taken(f, r, S)
    OBVIOUS
  <2>0. Unfolds(f, r, S)
    BY <2>1, TakenUnfolds
  <2>2. PICK k \in Nat : k = Len(r)
    BY LenProperties
  <2>3. /\ Append(r, e) \in Seq(T) /\ Len(Append(r, e)) = k + 1
        /\ Append(r, e)[k + 1] = e /\ \A n \in 1 .. k : Append(r, e)[n] = r[n]
    BY <2>2, AppendProperties
  <2> DEFINE last == IF e \in S THEN Append(f[k], e) ELSE f[k]
             g == [n \in 0 .. k + 1 |-> IF n = k + 1 THEN last ELSE f[n]]
             a == Append(r, e)
  <2>4. ASSUME NEW n \in 0 .. k + 1
        PROVE  g[n] = IF n = 0 THEN <<>>
                      ELSE IF a[n] \in S THEN Append(g[n - 1], a[n]) ELSE g[n - 1]
    <3>1. CASE n = 0
      <4>1. g[0] = f[0]
        BY <2>2
      <4>2. f[0] = <<>>
        BY <2>0, <2>2 DEF Unfolds
      <4> QED
        BY <3>1, <4>1, <4>2
    <3>2. CASE n = k + 1
      <4>1. g[n] = last /\ g[n - 1] = f[k] /\ a[n] = e /\ n # 0
        BY <2>2, <2>3, <3>2
      <4> HIDE DEF g, a
      <4> QED
        BY <4>1, Zenon
    <3>3. CASE n \in 1 .. k
      <4>1. g[n] = f[n] /\ g[n - 1] = f[n - 1] /\ a[n] = r[n] /\ n # 0 /\ n \in 0 .. Len(r)
        BY <2>2, <2>3, <3>3
      <4>2. /\ n # 0 /\ r[n] \in S => f[n] = Append(f[n - 1], r[n])
            /\ n # 0 /\ r[n] \notin S => f[n] = f[n - 1]
        BY <2>0, <4>1, Zenon DEF Unfolds
      <4> HIDE DEF g, a
      <4> QED
        BY <4>1, <4>2, Zenon
    <3>4. n = 0 \/ n = k + 1 \/ n \in 1 .. k
      OBVIOUS
    <3> HIDE DEF g, a
    <3> QED
      BY <3>1, <3>2, <3>3, <3>4, Zenon
  <2>5. Taken(g, a, S)
    <3>1. DOMAIN g = 0 .. Len(a) /\ g = [n \in DOMAIN g |-> g[n]]
      BY <2>3
    <3> HIDE DEF g, a
    <3> QED
      BY <2>3, <2>4, <3>1 DEF Taken, a
  <2> QED
    BY <2>3, <2>5
<1>3. X = Seq(T)
  <2> HIDE DEF X
  <2>1. X \in SUBSET Seq(T)
    BY DEF X
  <2> QED
    BY <1>1, <1>2, <2>1, ListInduction
<1> QED
  BY <1>3

(* A list that grows.                                                      *)
Adds(T, S) ==
  \A s \in Seq(T), e \in T :
    /\ e \in S => Only(Append(s, e), S) = Append(Only(s, S), e)
    /\ e \notin S => Only(Append(s, e), S) = Only(s, S)

(* What is taken of it grows with it. *)
LEMMA OnlyAdds ==
  ASSUME NEW T, NEW S
  PROVE  Adds(T, S)
<1> SUFFICES ASSUME NEW s \in Seq(T), NEW e \in T
             PROVE  /\ e \in S => Only(Append(s, e), S) = Append(Only(s, S), e)
                    /\ e \notin S => Only(Append(s, e), S) = Only(s, S)
  BY DEF Adds
<1> DEFINE a == Append(s, e)
<1>1. PICK f : Unfolds(f, s, S) /\ Only(s, S) = f[Len(s)]
  BY TakenExists, OnlyUnfolds
<1>2. a \in Seq(T)
  BY AppendProperties
<1>3. PICK g : Unfolds(g, a, S) /\ Only(a, S) = g[Len(a)]
  BY <1>2, TakenExists, OnlyUnfolds
<1>4. PICK k \in Nat : k = Len(s)
  BY LenProperties
<1>5. Len(a) = k + 1 /\ a[k + 1] = e /\ \A n \in 1 .. k : a[n] = s[n]
  BY <1>4, AppendProperties
<1> HIDE DEF a
<1> DEFINE N == {n \in Nat : n <= k => g[n] = f[n]}
<1>6. 0 \in N
  <2>1. 0 \in 0 .. Len(s) /\ 0 \in 0 .. Len(a)
    BY <1>4, <1>5
  <2>2. f[0] = <<>> /\ g[0] = <<>>
    BY <1>1, <1>3, <2>1, Zenon DEF Unfolds
  <2> QED
    BY <2>2
<1>7. ASSUME NEW n \in N PROVE n + 1 \in N
  <2> SUFFICES ASSUME n + 1 <= k PROVE g[n + 1] = f[n + 1]
    OBVIOUS
  <2> DEFINE m == n + 1
  <2>1. /\ m \in 0 .. Len(s) /\ m \in 0 .. Len(a) /\ m # 0 /\ m - 1 = n /\ a[m] = s[m]
        /\ g[n] = f[n]
    BY <1>4, <1>5
  <2> HIDE DEF m, N
  <2>2. /\ m # 0 /\ s[m] \in S => f[m] = Append(f[m - 1], s[m])
        /\ m # 0 /\ s[m] \notin S => f[m] = f[m - 1]
    BY <1>1, <2>1, Zenon DEF Unfolds
  <2>3. /\ m # 0 /\ a[m] \in S => g[m] = Append(g[m - 1], a[m])
        /\ m # 0 /\ a[m] \notin S => g[m] = g[m - 1]
    BY <1>3, <2>1, Zenon DEF Unfolds
  <2>4. g[m] = f[m]
    BY <2>1, <2>2, <2>3, Zenon
  <2> QED
    BY <2>4 DEF m
<1>8. g[k] = f[k]
  <2>1. N = Nat
    <3> HIDE DEF N
    <3>1. N \in SUBSET Nat
      BY DEF N
    <3> QED
      BY <1>6, <1>7, <3>1, Induction
  <2> QED
    BY <2>1
<1>9. (e \in S => g[k + 1] = Append(g[k], e)) /\ (e \notin S => g[k + 1] = g[k])
  <2> DEFINE m == k + 1
  <2>1. m \in 0 .. Len(a) /\ m # 0 /\ m - 1 = k /\ a[m] = e
    BY <1>5
  <2> HIDE DEF m
  <2>2. (a[m] \in S => g[m] = Append(g[m - 1], a[m])) /\ (a[m] \notin S => g[m] = g[m - 1])
    BY <1>3, <2>1, Zenon DEF Unfolds
  <2>3. (e \in S => g[m] = Append(g[k], e)) /\ (e \notin S => g[m] = g[k])
    BY <2>1, <2>2, Zenon
  <2> QED
    BY <2>3, Zenon DEF m
<1> QED
  BY <1>1, <1>3, <1>4, <1>5, <1>8, <1>9, Zenon DEF a

(* Nothing is taken of nothing. *)
LEMMA OnlyOfNone ==
  ASSUME NEW S
  PROVE  Only(<<>>, S) = <<>>
<1>1. <<>> \in Seq(S) /\ Len(<<>>) = 0
  OBVIOUS
<1>2. PICK f : Unfolds(f, <<>>, S) /\ Only(<<>>, S) = f[0]
  BY <1>1, TakenExists, OnlyUnfolds
<1>3. 0 \in 0 .. Len(<<>>)
  BY <1>1
<1> QED
  BY <1>2, <1>3, Zenon DEF Unfolds

(* What is taken of a list of T is one. *)
LEMMA OnlyTyped ==
  ASSUME NEW T, NEW S, NEW s \in Seq(T)
  PROVE  Only(s, S) \in Seq(T)
<1> DEFINE X == {r \in Seq(T) : Only(r, S) \in Seq(T)}
<1>1. <<>> \in X
  BY OnlyOfNone, EmptySeq
<1>2. ASSUME NEW r \in X, NEW e \in T PROVE Append(r, e) \in X
  <2>1. r \in Seq(T) /\ Append(r, e) \in Seq(T) /\ Append(Only(r, S), e) \in Seq(T)
    BY AppendProperties
  <2>2. Only(Append(r, e), S) \in Seq(T)
    BY <2>1, OnlyAdds, Zenon DEF Adds
  <2> QED
    BY <2>1, <2>2
<1> HIDE DEF X
<1>3. X \in SUBSET Seq(T)
  BY DEF X
<1>4. X = Seq(T)
  BY <1>1, <1>2, <1>3, ListInduction
<1> QED
  BY <1>4 DEF X

(* Of one thread. *)
LEMMA OnlyOfOne ==
  ASSUME NEW e, NEW S
  PROVE  /\ e \in S => Only(<<e>>, S) = <<e>>
         /\ e \notin S => Only(<<e>>, S) = <<>>
<1>1. <<>> \in Seq({e}) /\ e \in {e} /\ <<e>> = Append(<<>>, e)
  OBVIOUS
<1>2. /\ e \in S => Only(Append(<<>>, e), S) = Append(Only(<<>>, S), e)
      /\ e \notin S => Only(Append(<<>>, e), S) = Only(<<>>, S)
  <2>1. Adds({e}, S)
    BY OnlyAdds
  <2> QED
    BY <1>1, <2>1, Zenon DEF Adds
<1>3. Only(<<>>, S) = <<>>
  BY OnlyOfNone
<1> QED
  BY <1>1, <1>2, <1>3, Zenon

(* Of two lists, one behind the other. *)
LEMMA OnlyOfConcat ==
  ASSUME NEW T, NEW S, NEW s \in Seq(T), NEW u \in Seq(T)
  PROVE  Only(s \o u, S) = Only(s, S) \o Only(u, S)
<1> DEFINE X == {r \in Seq(T) : Only(s \o r, S) = Only(s, S) \o Only(r, S)}
<1>0. Only(s, S) \in Seq(T) /\ Adds(T, S)
  BY OnlyTyped, OnlyAdds
<1>1. <<>> \in X
  <2>1. s \o <<>> = s /\ Only(s, S) \o <<>> = Only(s, S)
    BY <1>0, ConcatEmptySeq
  <2> QED
    BY <2>1, OnlyOfNone, EmptySeq
<1>2. ASSUME NEW r \in X, NEW e \in T PROVE Append(r, e) \in X
  <2>1. /\ r \in Seq(T) /\ Append(r, e) \in Seq(T) /\ s \o r \in Seq(T)
        /\ Only(r, S) \in Seq(T)
    BY AppendProperties, ConcatProperties, OnlyTyped
  <2>2. s \o Append(r, e) = Append(s \o r, e)
    BY <2>1
  <2>3. Only(s, S) \o Append(Only(r, S), e) = Append(Only(s, S) \o Only(r, S), e)
    BY <1>0, <2>1
  <2>4. CASE e \in S
    <3>1. /\ Only(Append(r, e), S) = Append(Only(r, S), e)
          /\ Only(Append(s \o r, e), S) = Append(Only(s \o r, S), e)
      BY <1>0, <2>1, <2>4, Zenon DEF Adds
    <3> QED
      BY <2>1, <2>2, <2>3, <3>1, Zenon
  <2>5. CASE e \notin S
    <3>1. /\ Only(Append(r, e), S) = Only(r, S)
          /\ Only(Append(s \o r, e), S) = Only(s \o r, S)
      BY <1>0, <2>1, <2>5, Zenon DEF Adds
    <3> QED
      BY <2>1, <2>2, <3>1, Zenon
  <2> QED
    BY <2>4, <2>5
<1> HIDE DEF X
<1>3. X \in SUBSET Seq(T)
  BY DEF X
<1>4. X = Seq(T)
  BY <1>1, <1>2, <1>3, ListInduction
<1> QED
  BY <1>4 DEF X

(* Of what was taken. *)
LEMMA OnlyOfOnly ==
  ASSUME NEW T, NEW A, NEW B, NEW s \in Seq(T)
  PROVE  Only(Only(s, A), B) = Only(s, A \cap B)
<1> DEFINE X == {r \in Seq(T) : Only(Only(r, A), B) = Only(r, A \cap B)}
<1>0. Adds(T, A) /\ Adds(T, B) /\ Adds(T, A \cap B)
  BY OnlyAdds
<1>1. <<>> \in X
  BY OnlyOfNone, EmptySeq
<1>2. ASSUME NEW r \in X, NEW e \in T PROVE Append(r, e) \in X
  <2>1. r \in Seq(T) /\ Append(r, e) \in Seq(T) /\ Only(r, A) \in Seq(T)
    BY AppendProperties, OnlyTyped
  <2>2. CASE e \in A
    <3>1. Only(Append(r, e), A) = Append(Only(r, A), e)
      BY <1>0, <2>1, <2>2, Zenon DEF Adds
    <3>2. CASE e \in B
      <4>1. Only(Append(Only(r, A), e), B) = Append(Only(Only(r, A), B), e)
        BY <1>0, <2>1, <3>2, Zenon DEF Adds
      <4>2. Only(Append(r, e), A \cap B) = Append(Only(r, A \cap B), e)
        BY <1>0, <2>1, <2>2, <3>2, Zenon DEF Adds
      <4> QED
        BY <2>1, <3>1, <4>1, <4>2
    <3>3. CASE e \notin B
      <4>1. Only(Append(Only(r, A), e), B) = Only(Only(r, A), B)
        BY <1>0, <2>1, <3>3, Zenon DEF Adds
      <4>2. Only(Append(r, e), A \cap B) = Only(r, A \cap B)
        BY <1>0, <2>1, <3>3, Zenon DEF Adds
      <4> QED
        BY <2>1, <3>1, <4>1, <4>2
    <3> QED
      BY <3>2, <3>3
  <2>3. CASE e \notin A
    <3>1. Only(Append(r, e), A) = Only(r, A) /\ Only(Append(r, e), A \cap B) = Only(r, A \cap B)
      BY <1>0, <2>1, <2>3, Zenon DEF Adds
    <3> QED
      BY <2>1, <3>1
  <2> QED
    BY <2>2, <2>3
<1> HIDE DEF X
<1>3. X \in SUBSET Seq(T)
  BY DEF X
<1>4. X = Seq(T)
  BY <1>1, <1>2, <1>3, ListInduction
<1> QED
  BY <1>4 DEF X

(* A thread that is not in the list may as well not be taken.              *)
Spares(T, S, x) ==
  \A s \in Seq(T) : Only(s, {x}) = <<>> => Only(s, S \ {x}) = Only(s, S)

(* It is so for all lists, sets and threads. *)
LEMMA OnlySpares ==
  ASSUME NEW T, NEW S, NEW x
  PROVE  Spares(T, S, x)
<1> DEFINE X == {r \in Seq(T) : Only(r, {x}) = <<>> => Only(r, S \ {x}) = Only(r, S)}
<1>0. Adds(T, S) /\ Adds(T, {x}) /\ Adds(T, S \ {x})
  BY OnlyAdds
<1>1. <<>> \in X
  BY OnlyOfNone, EmptySeq
<1>2. ASSUME NEW r \in X, NEW e \in T PROVE Append(r, e) \in X
  <2>1. r \in Seq(T) /\ Append(r, e) \in Seq(T) /\ Only(r, {x}) \in Seq(T)
    BY AppendProperties, OnlyTyped
  <2>2. CASE e = x
    <3>1. Only(Append(r, e), {x}) = Append(Only(r, {x}), e)
      BY <1>0, <2>1, <2>2, Zenon DEF Adds
    <3>2. Append(Only(r, {x}), e) # <<>>
      BY <2>1, AppendProperties
    <3> QED
      BY <2>1, <3>1, <3>2
  <2>3. CASE e # x
    <3>1. Only(Append(r, e), {x}) = Only(r, {x})
      BY <1>0, <2>1, <2>3, Zenon DEF Adds
    <3>2. CASE e \in S
      <4>1. /\ Only(Append(r, e), S) = Append(Only(r, S), e)
            /\ Only(Append(r, e), S \ {x}) = Append(Only(r, S \ {x}), e)
        BY <1>0, <2>1, <2>3, <3>2, Zenon DEF Adds
      <4> QED
        BY <2>1, <3>1, <4>1
    <3>3. CASE e \notin S
      <4>1. /\ Only(Append(r, e), S) = Only(r, S)
            /\ Only(Append(r, e), S \ {x}) = Only(r, S \ {x})
        BY <1>0, <2>1, <3>3, Zenon DEF Adds
      <4> QED
        BY <2>1, <3>1, <4>1
    <3> QED
      BY <3>2, <3>3
  <2> QED
    BY <2>2, <2>3
<1> HIDE DEF X
<1>3. X \in SUBSET Seq(T)
  BY DEF X
<1>4. X = Seq(T)
  BY <1>1, <1>2, <1>3, ListInduction
<1> QED
  BY <1>4, Zenon DEF X, Spares

(* No thread is taken of a list. *)
LEMMA OnlyOfEmpty ==
  ASSUME NEW T, NEW s \in Seq(T)
  PROVE  Only(s, {}) = <<>>
<1> DEFINE X == {r \in Seq(T) : Only(r, {}) = <<>>}
<1>1. <<>> \in X
  BY OnlyOfNone, EmptySeq
<1>2. ASSUME NEW r \in X, NEW e \in T PROVE Append(r, e) \in X
  <2>1. r \in Seq(T) /\ Append(r, e) \in Seq(T) /\ e \notin {} /\ Adds(T, {})
    BY AppendProperties, OnlyAdds
  <2>2. Only(Append(r, e), {}) = Only(r, {})
    BY <2>1, Zenon DEF Adds
  <2> QED
    BY <2>1, <2>2
<1> HIDE DEF X
<1>3. X \in SUBSET Seq(T)
  BY DEF X
<1>4. X = Seq(T)
  BY <1>1, <1>2, <1>3, ListInduction
<1> QED
  BY <1>4 DEF X

(* A thread is in a list if it can be taken of it. *)
LEMMA OnlyOfMember ==
  ASSUME NEW T, NEW x \in T, NEW s \in Seq(T)
  PROVE  x \in ToSet(s) <=> Only(s, {x}) # <<>>
<1> DEFINE X == {r \in Seq(T) : x \in ToSet(r) <=> Only(r, {x}) # <<>>}
<1>0. Adds(T, {x})
  BY OnlyAdds
<1>1. <<>> \in X
  BY OnlyOfNone, EmptySeq DEF ToSet
<1>2. ASSUME NEW r \in X, NEW e \in T PROVE Append(r, e) \in X
  <2>1. r \in Seq(T) /\ Append(r, e) \in Seq(T) /\ Only(r, {x}) \in Seq(T)
    BY AppendProperties, OnlyTyped
  <2>2. /\ e = x => Only(Append(r, e), {x}) = Append(Only(r, {x}), e)
        /\ e # x => Only(Append(r, e), {x}) = Only(r, {x})
    BY <1>0, <2>1, Zenon DEF Adds
  <2>3. Append(Only(r, {x}), e) # <<>>
    BY <2>1, AppendProperties
  <2>4. ToSet(Append(r, e)) = ToSet(r) \cup {e}
    <3>1. PICK k \in Nat : k = Len(r) /\ DOMAIN r = 1 .. k
      BY LenProperties
    <3>2. /\ DOMAIN Append(r, e) = 1 .. (k + 1)
          /\ Append(r, e)[k + 1] = e /\ \A n \in 1 .. k : Append(r, e)[n] = r[n]
      BY <2>1, <3>1, AppendProperties, LenProperties
    <3> DEFINE a == Append(r, e)
    <3> HIDE DEF a
    <3>3. {a[i] : i \in 1 .. (k + 1)} = {a[i] : i \in 1 .. k} \cup {a[k + 1]}
      BY <3>1
    <3>4. {a[i] : i \in 1 .. k} = {r[i] : i \in 1 .. k}
      BY <3>2 DEF a
    <3> QED
      BY <3>1, <3>2, <3>3, <3>4, Zenon DEF ToSet, a
  <2> QED
    BY <2>1, <2>2, <2>3, <2>4
<1> HIDE DEF X
<1>3. X \in SUBSET Seq(T)
  BY DEF X
<1>4. X = Seq(T)
  BY <1>1, <1>2, <1>3, ListInduction
<1> QED
  BY <1>4 DEF X

-----------------------------------------------------------------------------
(* Threads that join the ready list.                                       *)

(* What thread t in list l leaves as it was.                               *)
Joined(l, t) ==
  /\ l \in Seq(Threads)
  /\ \A S \in SUBSET Peer : t \notin S => Only(l, S) = Only(r_queue, S)
  /\ \A u \in Threads : u # t => Only(l, {u}) = Only(r_queue, {u})
  /\ Only(r_queue, {t}) = <<>> => Only(l, {t}) = <<t>>

(* A thread between those of one set and those of another. *)
Put(A, t, B) == Only(r_queue, A) \o <<t>> \o Only(r_queue, B)

(* What it leaves of the list, and where it stands in it.                  *)
StandsIn(A, t, B, S) ==
  /\ Put(A, t, B) \in Seq(Threads)
  /\ t \notin S => Only(Put(A, t, B), S) = Only(r_queue, S)
  /\ t \in S /\ S \subseteq A => Only(Put(A, t, B), S) = Only(r_queue, S) \o <<t>>
  /\ t \in S /\ ~(S \subseteq A) => Only(Put(A, t, B), S) = <<t>> \o Only(r_queue, S)

(* It is so for every set that is on one side. *)
LEMMA PutIn ==
  ASSUME r_queue \in Seq(Threads), NEW t \in Threads, NEW A, NEW B, A \cap B = {},
         NEW S, S \subseteq A \/ S \subseteq B
  PROVE  StandsIn(A, t, B, S)
<1> DEFINE l == Put(A, t, B)
           a == Only(r_queue, A)
           b == Only(r_queue, B)
           q == Only(r_queue, S)
           o == Only(<<t>>, S)
<1>1. /\ a \in Seq(Threads) /\ b \in Seq(Threads) /\ q \in Seq(Threads)
      /\ <<t>> \in Seq(Threads) /\ a \o <<t>> \in Seq(Threads) /\ l \in Seq(Threads)
      /\ o \in Seq(Threads)
  <2>1. a \in Seq(Threads) /\ b \in Seq(Threads) /\ q \in Seq(Threads)
    BY OnlyTyped
  <2>2. <<t>> \in Seq(Threads)
    OBVIOUS
  <2>3. o \in Seq(Threads)
    BY <2>2, OnlyTyped
  <2> HIDE DEF a, b, q, o
  <2>4. a \o <<t>> \in Seq(Threads)
    BY <2>1, <2>2, ConcatProperties
  <2>5. l \in Seq(Threads)
    BY <2>1, <2>4, ConcatProperties DEF a, b, Put
  <2> QED
    BY <2>1, <2>2, <2>3, <2>4, <2>5
<1>2. Only(a, S) = Only(r_queue, A \cap S) /\ Only(b, S) = Only(r_queue, B \cap S)
  BY OnlyOfOnly
<1>3. Only(r_queue, {}) = <<>>
  BY OnlyOfEmpty
<1>4. (t \in S => o = <<t>>) /\ (t \notin S => o = <<>>)
  BY OnlyOfOne
<1> HIDE DEF a, b, o, q, l
<1>5. Only(l, S) = (Only(a, S) \o o) \o Only(b, S)
  <2>1. Only(a \o <<t>>, S) = Only(a, S) \o o
    <3> DEFINE c == <<t>>
    <3>1. a \in Seq(Threads) /\ c \in Seq(Threads)
      BY <1>1
    <3> HIDE DEF c
    <3>2. Only(a \o c, S) = Only(a, S) \o Only(c, S)
      BY <3>1, OnlyOfConcat
    <3> QED
      BY <3>2, Zenon DEF c, o
  <2>2. Only((a \o <<t>>) \o b, S) = Only(a \o <<t>>, S) \o Only(b, S)
    <3> DEFINE c == a \o <<t>>
    <3>1. c \in Seq(Threads) /\ b \in Seq(Threads)
      BY <1>1
    <3> HIDE DEF c
    <3>2. Only(c \o b, S) = Only(c, S) \o Only(b, S)
      BY <3>1, OnlyOfConcat
    <3> QED
      BY <3>2, Zenon DEF c
  <2> QED
    BY <2>1, <2>2, Zenon DEF a, b, Put, l
<1>6. q \o <<>> = q /\ <<>> \o q = q /\ o \o <<>> = o /\ <<>> \o o = o
  BY <1>1, ConcatEmptySeq
<1>7. (q \o o) \o <<>> = q \o o
  <2>1. q \o o \in Seq(Threads)
    BY <1>1, ConcatProperties
  <2> QED
    BY <2>1, ConcatEmptySeq
<1>8. CASE S \subseteq A
  <2>1. A \cap S = S /\ B \cap S = {}
    BY <1>8
  <2>2. Only(a, S) = q /\ Only(b, S) = <<>>
    BY <1>2, <1>3, <2>1 DEF q
  <2>3. Only(l, S) = q \o o
    BY <1>5, <1>7, <2>2, Zenon
  <2> QED
    BY <1>1, <1>4, <1>6, <1>8, <2>3, Zenon DEF StandsIn, q, l
<1>9. CASE ~(S \subseteq A)
  <2>1. A \cap S = {} /\ B \cap S = S
    BY <1>9
  <2>2. Only(a, S) = <<>> /\ Only(b, S) = q
    BY <1>2, <1>3, <2>1 DEF q
  <2>3. Only(l, S) = o \o q
    BY <1>5, <1>6, <2>2, Zenon
  <2> QED
    BY <1>1, <1>4, <1>6, <1>9, <2>3, Zenon DEF StandsIn, q, l
<1> QED
  BY <1>8, <1>9, Zenon

(* The priorities: all peers are on one side of any other thread. *)
LEMMA Priorities ==
  ASSUME NEW t \in Threads
  PROVE  /\ \A u \in Threads : prio[u] \in Nat
         /\ \A p \in Peer : t \in Peer => prio[p] = prio[t]
         /\ \A p \in Peer : t \in Higher => prio[p] < prio[t]
         /\ \A p \in Peer : t = idle => prio[p] > prio[t]
<1>1. \A u \in Threads : prio[u] \in Nat
  BY SchedulerAssumption
<1>2. /\ \A p \in Peer : t \in Peer => prio[p] = prio[t]
      /\ \A p \in Peer : t \in Higher => prio[p] < prio[t]
  BY SchedulerAssumption, Zenon
<1>3. \A p \in Peer : t = idle => prio[p] > prio[t]
  <2>1. idle \in Threads /\ \A p \in Peer : p \in Threads /\ prio[idle] < prio[p]
    BY SchedulerAssumption DEF Threads
  <2> QED
    BY <1>1, <2>1
<1> QED
  BY <1>1, <1>2, <1>3

(* Behind those with equal priority. *)
LEMMA JoinsBehind ==
  ASSUME r_queue \in Seq(Threads), NEW t \in Threads
  PROVE  /\ Joined(Behind(t), t)
         /\ \A S \in SUBSET Peer : t \in S => Only(Behind(t), S) = Only(r_queue, S) \o <<t>>
<1> DEFINE A == {u \in Threads : prio[u] >= prio[t]}
           B == {u \in Threads : prio[u] < prio[t]}
<1>1. A \cap B = {} /\ \A u \in Threads : {u} \subseteq A \/ {u} \subseteq B
  BY Priorities
<1>2. (t \in Peer => Peer \subseteq A) /\ (t \in Higher => Peer \subseteq B) /\ (t = idle => Peer \subseteq A)
  <2>1. Peer \subseteq Threads
    BY DEF Threads
  <2> QED
    BY <2>1, Priorities
<1>3. t \in Peer \/ t \in Higher \/ t = idle
  BY DEF Threads
<1>4. Behind(t) = Put(A, t, B)
  BY Zenon DEF Behind, Put
<1>5. <<>> \o <<t>> = <<t>> /\ <<t>> \o <<>> = <<t>>
  OBVIOUS
<1> HIDE DEF A, B
<1>6. \A S : S \subseteq A \/ S \subseteq B =>
        /\ Behind(t) \in Seq(Threads)
        /\ t \notin S => Only(Behind(t), S) = Only(r_queue, S)
        /\ t \in S /\ S \subseteq A => Only(Behind(t), S) = Only(r_queue, S) \o <<t>>
        /\ t \in S /\ ~(S \subseteq A) => Only(Behind(t), S) = <<t>> \o Only(r_queue, S)
  <2> SUFFICES ASSUME NEW S, S \subseteq A \/ S \subseteq B
               PROVE  /\ Behind(t) \in Seq(Threads)
                      /\ t \notin S => Only(Behind(t), S) = Only(r_queue, S)
                      /\ t \in S /\ S \subseteq A => Only(Behind(t), S) = Only(r_queue, S) \o <<t>>
                      /\ t \in S /\ ~(S \subseteq A) => Only(Behind(t), S) = <<t>> \o Only(r_queue, S)
    OBVIOUS
  <2>1. StandsIn(A, t, B, S)
    BY <1>1, PutIn
  <2> QED
    BY <1>4, <2>1, Zenon DEF StandsIn
<1>7. \A S \in SUBSET Peer : S \subseteq A \/ S \subseteq B
  BY <1>2, <1>3
<1>8. \A S \in SUBSET Peer : t \in S => S \subseteq A
  BY <1>2
<1>9. /\ Behind(t) \in Seq(Threads)
      /\ \A u \in Threads : u # t => Only(Behind(t), {u}) = Only(r_queue, {u})
      /\ Only(r_queue, {t}) = <<>> => Only(Behind(t), {t}) = <<t>>
  <2>1. \A u \in Threads : u # t => t \notin {u}
    OBVIOUS
  <2>2. t \in {t}
    OBVIOUS
  <2> QED
    BY <1>1, <1>5, <1>6, <2>1, <2>2, Zenon
<1>10. \A S \in SUBSET Peer : t \notin S => Only(Behind(t), S) = Only(r_queue, S)
  BY <1>6, <1>7, Zenon
<1>11. \A S \in SUBSET Peer : t \in S => Only(Behind(t), S) = Only(r_queue, S) \o <<t>>
  BY <1>6, <1>7, <1>8, Zenon
<1> QED
  BY <1>9, <1>10, <1>11, Zenon DEF Joined

(* Ahead of those with equal priority. *)
LEMMA JoinsAhead ==
  ASSUME r_queue \in Seq(Threads), NEW t \in Threads
  PROVE  /\ Joined(Ahead(t), t)
         /\ \A S \in SUBSET Peer : t \in S => Only(Ahead(t), S) = <<t>> \o Only(r_queue, S)
<1> DEFINE A == {u \in Threads : prio[u] > prio[t]}
           B == {u \in Threads : prio[u] <= prio[t]}
<1>1. A \cap B = {} /\ \A u \in Threads : {u} \subseteq A \/ {u} \subseteq B
  BY Priorities
<1>2. (t \in Peer => Peer \subseteq B) /\ (t \in Higher => Peer \subseteq B) /\ (t = idle => Peer \subseteq A)
  <2>1. Peer \subseteq Threads
    BY DEF Threads
  <2> QED
    BY <2>1, Priorities
<1>3. t \in Peer \/ t \in Higher \/ t = idle
  BY DEF Threads
<1>4. Ahead(t) = Put(A, t, B)
  BY Zenon DEF Ahead, Put
<1>5. <<>> \o <<t>> = <<t>> /\ <<t>> \o <<>> = <<t>>
  OBVIOUS
<1> HIDE DEF A, B
<1>6. \A S : S \subseteq A \/ S \subseteq B =>
        /\ Ahead(t) \in Seq(Threads)
        /\ t \notin S => Only(Ahead(t), S) = Only(r_queue, S)
        /\ t \in S /\ S \subseteq A => Only(Ahead(t), S) = Only(r_queue, S) \o <<t>>
        /\ t \in S /\ ~(S \subseteq A) => Only(Ahead(t), S) = <<t>> \o Only(r_queue, S)
  <2> SUFFICES ASSUME NEW S, S \subseteq A \/ S \subseteq B
               PROVE  /\ Ahead(t) \in Seq(Threads)
                      /\ t \notin S => Only(Ahead(t), S) = Only(r_queue, S)
                      /\ t \in S /\ S \subseteq A => Only(Ahead(t), S) = Only(r_queue, S) \o <<t>>
                      /\ t \in S /\ ~(S \subseteq A) => Only(Ahead(t), S) = <<t>> \o Only(r_queue, S)
    OBVIOUS
  <2>1. StandsIn(A, t, B, S)
    BY <1>1, PutIn
  <2> QED
    BY <1>4, <2>1, Zenon DEF StandsIn
<1>7. \A S \in SUBSET Peer : S \subseteq A \/ S \subseteq B
  BY <1>2, <1>3
<1>8. \A S \in SUBSET Peer : t \in S => ~(S \subseteq A)
  BY <1>1, <1>2
<1>9. /\ Ahead(t) \in Seq(Threads)
      /\ \A u \in Threads : u # t => Only(Ahead(t), {u}) = Only(r_queue, {u})
      /\ Only(r_queue, {t}) = <<>> => Only(Ahead(t), {t}) = <<t>>
  <2>1. \A u \in Threads : u # t => t \notin {u}
    OBVIOUS
  <2>2. t \in {t}
    OBVIOUS
  <2> QED
    BY <1>1, <1>5, <1>6, <2>1, <2>2, Zenon
<1>10. \A S \in SUBSET Peer : t \notin S => Only(Ahead(t), S) = Only(r_queue, S)
  BY <1>6, <1>7, Zenon
<1>11. \A S \in SUBSET Peer : t \in S => Only(Ahead(t), S) = <<t>> \o Only(r_queue, S)
  BY <1>6, <1>7, <1>8, Zenon
<1> QED
  BY <1>9, <1>10, <1>11, Zenon DEF Joined

-----------------------------------------------------------------------------
(* The inductive invariant.                                                *)

(* Every thread is at one place at most: it has the processor, is once in  *)
(* the ready list or in it not at all; idle is always ready.               *)
ListInv ==
  /\ r_queue \in Seq(Threads)
  /\ \A t \in Threads : Only(r_queue, {t}) = <<>> \/ Only(r_queue, {t}) = <<t>>
  /\ currp # None => currp \in Threads /\ Only(r_queue, {currp}) = <<>>
  /\ currp # idle => Only(r_queue, {idle}) = <<idle>>

(* The burst under way is that of the peer that runs, or it was cut and is *)
(* the first of the peers that are ready.                                  *)
BurstInv ==
  /\ burst = None \/ burst \in Peer
  /\ currp \in Peer => burst = currp
  /\ burst # None /\ burst # currp =>
       Only(r_queue, Peer) = <<burst>> \o Only(r_queue, Peer \ {burst})

(* A thread without a loop never uses up its quantum. *)
QuantumInv ==
  /\ p_preempt \in [Threads -> Nat]
  /\ \A t \in Threads : Bounded(t) => p_preempt[t] >= CH_CFG_TIME_QUANTUM - BURST

KernelInv ==
  /\ kernel \in {"thread", "exit", "switch"}
  /\ kernel = "switch" <=> currp = None

SchedulerInv == ListInv /\ BurstInv /\ QuantumInv /\ KernelInv

(* What module Peers allows, with the exceptions.                          *)
Turn ==
  \/ TakingTurns!Dispatch
  \/ \E t \in Peer : TakingTurns!GoesOnWaking(t)
  \/ TakingTurns!Blocks
  \/ burst \in Looping \cup Telling /\ TakingTurns!BlocksWaking(<<burst>>)
  \/ UNCHANGED <<burst, peersReady>>

(* What the step of a thread or of the kernel has to show.                 *)
Keeps == ListInv' /\ BurstInv' /\ Turn

(* None is none of the threads. *)
LEMMA NoThread ==
  /\ None \notin Threads /\ idle \in Threads /\ idle \notin Peer /\ idle \notin Higher
  /\ Peer \subseteq Threads /\ Higher \subseteq Threads /\ Peer \ {None} = Peer
  /\ \A h \in Higher : h \notin Peer
<1>1. /\ None \notin Threads /\ idle \in Threads /\ idle \notin Peer /\ idle \notin Higher
      /\ Peer \subseteq Threads /\ Higher \subseteq Threads
  BY SchedulerAssumption DEF Threads
<1>2. \A h \in Higher : h \notin Peer
  BY <1>1, Priorities
<1> QED
  BY <1>1, <1>2

(* A burst that is cut waits. *)
LEMMA CutWaits ==
  ASSUME ListInv, BurstInv, burst # None, burst # currp
  PROVE  Only(r_queue, {burst}) # <<>>
<1> DEFINE rest == Only(r_queue, Peer \ {burst})
<1>1. burst \in Peer /\ burst \in Threads /\ r_queue \in Seq(Threads)
  BY NoThread DEF BurstInv, ListInv
<1>2. rest \in Seq(Threads) /\ <<burst>> \in Seq(Threads)
  BY <1>1, OnlyTyped
<1>3. Only(r_queue, Peer) = <<burst>> \o rest
  BY DEF BurstInv
<1> HIDE DEF rest
<1>4. Only(Only(r_queue, Peer), {burst}) = Only(r_queue, {burst})
  <2>1. Peer \cap {burst} = {burst}
    BY <1>1
  <2>2. Only(Only(r_queue, Peer), {burst}) = Only(r_queue, Peer \cap {burst})
    BY <1>1, OnlyOfOnly
  <2> QED
    BY <2>1, <2>2
<1>5. Only(<<burst>> \o rest, {burst}) = Only(<<burst>>, {burst}) \o Only(rest, {burst})
  BY <1>2, OnlyOfConcat
<1>6. Only(<<burst>>, {burst}) = <<burst>>
  BY OnlyOfOne
<1>7. Only(rest, {burst}) \in Seq(Threads)
  BY <1>2, OnlyTyped
<1>8. <<burst>> \o Only(rest, {burst}) # <<>>
  BY <1>1, <1>7
<1> QED
  BY <1>3, <1>4, <1>5, <1>6, <1>8, Zenon

(* A thread that does not wait is not among the peers that do. *)
LEMMA NotAmong ==
  ASSUME ListInv, NEW t, Only(r_queue, {t}) = <<>>
  PROVE  Only(r_queue, Peer \ {t}) = Only(r_queue, Peer)
<1>1. r_queue \in Seq(Threads)
  BY DEF ListInv
<1>2. Spares(Threads, Peer, t)
  BY OnlySpares
<1> QED
  BY <1>1, <1>2, Zenon DEF Spares

(* A thread that sleeps is woken, and the one that runs goes on. *)
LEMMA WakeStep ==
  ASSUME SchedulerInv, currp # None, NEW t \in Peer \cup Higher, Asleep(t),
         r_queue' = Behind(t), UNCHANGED <<currp, burst>>
  PROVE  Keeps
<1> DEFINE q == Behind(t)
<1>1. /\ t \in Threads /\ r_queue \in Seq(Threads) /\ t # currp /\ currp \in Threads
      /\ t # idle
  BY NoThread DEF SchedulerInv, ListInv, Asleep
<1>2. Only(r_queue, {t}) = <<>>
  BY <1>1, OnlyOfMember DEF Asleep, Waiting
<1>3. Joined(q, t) /\ \A S \in SUBSET Peer : t \in S => Only(q, S) = Only(r_queue, S) \o <<t>>
  BY <1>1, JoinsBehind
<1> HIDE DEF q
<1>4. /\ q \in Seq(Threads) /\ Only(q, {t}) = <<t>>
      /\ \A S \in SUBSET Peer : t \notin S => Only(q, S) = Only(r_queue, S)
      /\ \A u \in Threads : u # t => Only(q, {u}) = Only(r_queue, {u})
  BY <1>2, <1>3, Zenon DEF Joined
<1>5. r_queue' = q /\ currp' = currp /\ burst' = burst
  BY DEF q
<1>6. ListInv'
  <2>1. Only(q, {currp}) = <<>> /\ (currp # idle => Only(q, {idle}) = <<idle>>)
    BY <1>1, <1>4, NoThread DEF SchedulerInv, ListInv
  <2>2. \A u \in Threads : Only(q, {u}) = <<>> \/ Only(q, {u}) = <<u>>
    BY <1>4 DEF SchedulerInv, ListInv
  <2> QED
    BY <1>1, <1>4, <1>5, <2>1, <2>2 DEF ListInv
<1>7. t # burst
  BY <1>1, <1>2, CutWaits, NoThread DEF SchedulerInv
<1>8. Peer \in SUBSET Peer /\ Peer \ {burst} \in SUBSET Peer
  OBVIOUS
<1>9. CASE t \in Peer
  <2>1. /\ Only(q, Peer) = Only(r_queue, Peer) \o <<t>>
        /\ Only(q, Peer \ {burst}) = Only(r_queue, Peer \ {burst}) \o <<t>>
    BY <1>3, <1>7, <1>8, <1>9
  <2>2. burst # None /\ burst # currp =>
          Only(q, Peer) = <<burst>> \o Only(q, Peer \ {burst})
    <3> SUFFICES ASSUME burst # None, burst # currp
                 PROVE  Only(q, Peer) = <<burst>> \o Only(q, Peer \ {burst})
      OBVIOUS
    <3> DEFINE rest == Only(r_queue, Peer \ {burst})
    <3>1. rest \in Seq(Threads) /\ <<burst>> \in Seq(Threads) /\ <<t>> \in Seq(Threads)
      BY <1>1, OnlyTyped, NoThread DEF SchedulerInv, BurstInv
    <3>2. Only(r_queue, Peer) = <<burst>> \o rest
      BY DEF SchedulerInv, BurstInv
    <3> HIDE DEF rest
    <3>3. (<<burst>> \o rest) \o <<t>> = <<burst>> \o (rest \o <<t>>)
      BY <3>1, ConcatAssociative
    <3> QED
      BY <2>1, <3>2, <3>3, Zenon DEF rest
  <2>3. BurstInv'
    <3>1. burst = None \/ burst \in Peer
      BY DEF SchedulerInv, BurstInv
    <3>2. currp \in Peer => burst = currp
      BY DEF SchedulerInv, BurstInv
    <3> QED
      BY <1>5, <2>2, <3>1, <3>2, Zenon DEF BurstInv
  <2>4. TakingTurns!GoesOnWaking(t)
    <3> DEFINE rest == Only(r_queue, Peer \ {burst})
    <3>1. rest \in Seq(Threads)
      BY <1>1, OnlyTyped
    <3> HIDE DEF rest
    <3>2. Append(rest, t) = rest \o <<t>>
      BY <1>1, <3>1, AppendIsConcat
    <3>3. peersReady' = Append(peersReady, t)
      BY <1>5, <2>1, <3>2, Zenon DEF peersReady, rest
    <3> QED
      BY <1>5, <3>3, Zenon DEF TakingTurns!GoesOnWaking
  <2> QED
    BY <1>6, <1>9, <2>3, <2>4, Zenon DEF Keeps, Turn
<1>10. CASE t \notin Peer
  <2>1. /\ Only(q, Peer) = Only(r_queue, Peer)
        /\ Only(q, Peer \ {burst}) = Only(r_queue, Peer \ {burst})
    BY <1>4, <1>8, <1>10
  <2>2. BurstInv'
    BY <1>5, <2>1, Zenon DEF SchedulerInv, BurstInv
  <2>3. UNCHANGED <<burst, peersReady>>
    BY <1>5, <2>1, Zenon DEF peersReady
  <2> QED
    BY <1>6, <2>2, <2>3, Zenon DEF Keeps, Turn
<1> QED
  BY <1>9, <1>10

(* The running thread t leaves the processor and is put into the ready     *)
(* list, behind its peers or ahead of them.                                *)
LEMMA LeaveStep ==
  ASSUME SchedulerInv, currp # None, NEW q, Joined(q, currp), r_queue' = q,
         currp' # currp,
         currp' = None \/ (currp # idle /\ currp' \in Higher /\ Only(r_queue, {currp'}) = <<>>)
  PROVE  ListInv'
<1>1. /\ currp \in Threads /\ Only(r_queue, {currp}) = <<>> /\ q \in Seq(Threads)
      /\ Only(q, {currp}) = <<currp>>
      /\ \A u \in Threads : u # currp => Only(q, {u}) = Only(r_queue, {u})
  BY Zenon DEF Joined, SchedulerInv, ListInv
<1>2. \A u \in Threads : Only(q, {u}) = <<>> \/ Only(q, {u}) = <<u>>
  BY <1>1, Zenon DEF SchedulerInv, ListInv
<1>3. Only(q, {idle}) = <<idle>>
  <2>1. CASE currp = idle
    BY <1>1, <2>1, Zenon
  <2>2. CASE currp # idle
    BY <1>1, <2>2, NoThread, Zenon DEF SchedulerInv, ListInv
  <2> QED
    BY <2>1, <2>2
<1>4. currp' # None => currp' \in Threads /\ Only(q, {currp'}) = <<>>
  BY <1>1, NoThread
<1> QED
  BY <1>1, <1>2, <1>3, <1>4, Zenon DEF ListInv

(* It goes behind its peers: its burst, if it is one, blocks and is ready  *)
(* again at once.                                                          *)
LEMMA BehindStep ==
  ASSUME SchedulerInv, currp # None, r_queue' = Behind(currp), BurstOver,
         currp \in Peer => burst \in Looping \cup Telling,
         currp' # currp,
         currp' = None \/ (currp # idle /\ currp' \in Higher /\ Only(r_queue, {currp'}) = <<>>)
  PROVE  Keeps
<1> DEFINE q == Behind(currp)
<1>1. r_queue \in Seq(Threads) /\ currp \in Threads /\ Only(r_queue, {currp}) = <<>>
  BY DEF SchedulerInv, ListInv
<1>2. /\ Joined(q, currp)
      /\ \A S \in SUBSET Peer : currp \in S => Only(q, S) = Only(r_queue, S) \o <<currp>>
  BY <1>1, JoinsBehind
<1> HIDE DEF q
<1>3. r_queue' = q
  BY DEF q
<1>4. ListInv'
  BY <1>2, <1>3, LeaveStep
<1>5. Peer \in SUBSET Peer /\ Peer \ {burst} \in SUBSET Peer
  OBVIOUS
<1>6. CASE currp \in Peer
  <2>1. burst = currp /\ burst' = None
    BY <1>6 DEF SchedulerInv, BurstInv, BurstOver
  <2>2. BurstInv'
    <3>1. currp' \notin Peer
      BY NoThread
    <3> QED
      BY <2>1, <3>1, Zenon DEF BurstInv
  <2>3. peersReady' = peersReady \o <<burst>>
    <3>1. peersReady = Only(r_queue, Peer)
      BY <1>1, <2>1, NotAmong DEF peersReady, SchedulerInv
    <3>2. peersReady' = Only(q, Peer \ {None})
      BY <1>3, <2>1, Zenon DEF peersReady
    <3>3. Only(q, Peer) = Only(r_queue, Peer) \o <<currp>>
      BY <1>2, <1>5, <1>6, Zenon
    <3> QED
      BY <2>1, <3>1, <3>2, <3>3, NoThread
  <2>4. TakingTurns!BlocksWaking(<<burst>>)
    <3>1. burst' = TakingTurns!Nobody
      BY <2>1 DEF TakingTurns!Nobody, None
    <3> QED
      BY <2>3, <3>1, Zenon DEF TakingTurns!BlocksWaking
  <2> QED
    BY <1>4, <1>6, <2>2, <2>4, Zenon DEF Keeps, Turn
<1>7. CASE currp \notin Peer
  <2>1. burst' = burst
    BY <1>7 DEF SchedulerInv, BurstInv, BurstOver
  <2>2. /\ Only(q, Peer) = Only(r_queue, Peer)
        /\ Only(q, Peer \ {burst}) = Only(r_queue, Peer \ {burst})
    BY <1>2, <1>5, <1>7, Zenon DEF Joined
  <2>3. BurstInv'
    <3>1. currp' \notin Peer /\ burst # currp
      BY <1>7, NoThread DEF SchedulerInv, BurstInv
    <3> QED
      BY <1>3, <2>1, <2>2, <3>1, Zenon DEF SchedulerInv, BurstInv
  <2>4. UNCHANGED <<burst, peersReady>>
    BY <1>3, <2>1, <2>2, Zenon DEF peersReady
  <2> QED
    BY <1>4, <2>3, <2>4, Zenon DEF Keeps, Turn
<1> QED
  BY <1>6, <1>7

(* It stays ahead of its peers: its burst goes on later, before any other. *)
LEMMA AheadStep ==
  ASSUME SchedulerInv, currp # None, r_queue' = Ahead(currp), UNCHANGED burst,
         currp' # currp,
         currp' = None \/ (currp # idle /\ currp' \in Higher /\ Only(r_queue, {currp'}) = <<>>)
  PROVE  Keeps
<1> DEFINE q == Ahead(currp)
<1>1. r_queue \in Seq(Threads) /\ currp \in Threads /\ Only(r_queue, {currp}) = <<>>
  BY DEF SchedulerInv, ListInv
<1>2. /\ Joined(q, currp)
      /\ \A S \in SUBSET Peer : currp \in S => Only(q, S) = <<currp>> \o Only(r_queue, S)
  BY <1>1, JoinsAhead
<1> HIDE DEF q
<1>3. r_queue' = q
  BY DEF q
<1>4. ListInv'
  BY <1>2, <1>3, LeaveStep
<1>5. Peer \in SUBSET Peer /\ Peer \ {burst} \in SUBSET Peer
  OBVIOUS
<1>6. currp' \notin Peer
  BY NoThread
<1>7. CASE currp \in Peer
  <2>1. burst = currp
    BY <1>7 DEF SchedulerInv, BurstInv
  <2>2. Only(q, Peer \ {burst}) = Only(r_queue, Peer \ {burst})
    BY <1>2, <1>5, <2>1 DEF Joined
  <2>3. Only(q, Peer) = <<burst>> \o Only(q, Peer \ {burst})
    <3>1. Only(q, Peer) = <<currp>> \o Only(r_queue, Peer)
      BY <1>2, <1>5, <1>7, Zenon
    <3>2. Only(r_queue, Peer \ {currp}) = Only(r_queue, Peer)
      BY <1>1, NotAmong DEF SchedulerInv
    <3> QED
      BY <2>1, <2>2, <3>1, <3>2, Zenon
  <2>4. BurstInv'
    BY <1>3, <1>6, <1>7, <2>1, <2>3, Zenon DEF BurstInv
  <2>5. UNCHANGED <<burst, peersReady>>
    BY <1>3, <2>2, Zenon DEF peersReady
  <2> QED
    BY <1>4, <2>4, <2>5, Zenon DEF Keeps, Turn
<1>8. CASE currp \notin Peer
  <2>1. /\ Only(q, Peer) = Only(r_queue, Peer)
        /\ Only(q, Peer \ {burst}) = Only(r_queue, Peer \ {burst})
    BY <1>2, <1>5, <1>8, Zenon DEF Joined
  <2>2. BurstInv'
    <3>1. burst # currp
      BY <1>8 DEF SchedulerInv, BurstInv
    <3> QED
      BY <1>3, <1>6, <2>1, <3>1, Zenon DEF SchedulerInv, BurstInv
  <2>3. UNCHANGED <<burst, peersReady>>
    BY <1>3, <2>1, Zenon DEF peersReady
  <2> QED
    BY <1>4, <2>2, <2>3, Zenon DEF Keeps, Turn
<1> QED
  BY <1>7, <1>8

(* It goes to sleep, and its burst is over. *)
LEMMA SleepStep ==
  ASSUME SchedulerInv, chSchGoSleepS
  PROVE  Keeps
<1>1. /\ currp # None /\ currp # idle /\ currp' = None /\ r_queue' = r_queue
      /\ burst' = IF burst = currp THEN None ELSE burst
  <2>1. currp # None
    BY DEF chSchGoSleepS, SchedulerInv, KernelInv
  <2> QED
    BY <2>1, Zenon DEF chSchGoSleepS, MakesRoom, BurstOver
<1>2. r_queue \in Seq(Threads) /\ currp \in Threads /\ Only(r_queue, {currp}) = <<>>
  BY <1>1 DEF SchedulerInv, ListInv
<1>3. ListInv'
  BY <1>1, <1>2, Zenon DEF SchedulerInv, ListInv
<1>4. None \notin Peer
  BY NoThread
<1>5. CASE burst = currp
  <2>1. burst' = None
    BY <1>1, <1>5
  <2>2. BurstInv'
    BY <1>1, <1>4, <2>1, Zenon DEF BurstInv
  <2>3. peersReady' = peersReady \o <<>>
    <3>1. peersReady = Only(r_queue, Peer)
      BY <1>2, <1>5, NotAmong DEF peersReady, SchedulerInv
    <3>2. peersReady' = Only(r_queue, Peer)
      BY <1>1, <2>1, NoThread DEF peersReady
    <3>3. Only(r_queue, Peer) \o <<>> = Only(r_queue, Peer)
      BY <1>2, OnlyTyped, ConcatEmptySeq
    <3> QED
      BY <3>1, <3>2, <3>3
  <2>4. TakingTurns!Blocks
    <3>1. burst' = TakingTurns!Nobody
      BY <2>1 DEF TakingTurns!Nobody, None
    <3> QED
      BY <2>3, <3>1, Zenon DEF TakingTurns!Blocks, TakingTurns!BlocksWaking
  <2> QED
    BY <1>3, <2>2, <2>4, Zenon DEF Keeps, Turn
<1>6. CASE burst # currp
  <2>1. burst' = burst
    BY <1>1, <1>6
  <2>2. BurstInv'
    BY <1>1, <1>4, <1>6, <2>1, Zenon DEF SchedulerInv, BurstInv
  <2>3. UNCHANGED <<burst, peersReady>>
    BY <1>1, <2>1, Zenon DEF peersReady
  <2> QED
    BY <1>3, <2>2, <2>3, Zenon DEF Keeps, Turn
<1> QED
  BY <1>5, <1>6

(* The first of a list is the first that is taken of it, if it is taken.   *)
Led(q, S) ==
  /\ Head(q) \in S => Only(q, S) = <<Head(q)>> \o Only(Tail(q), S)
  /\ Head(q) \notin S => Only(q, S) = Only(Tail(q), S)

(* It is so for all lists but the empty one. *)
LEMMA FirstTaken ==
  ASSUME NEW T, NEW q \in Seq(T), q # <<>>, NEW S
  PROVE  Led(q, S)
<1> DEFINE h == Head(q)
           r == Tail(q)
<1>1. h \in T /\ r \in Seq(T) /\ q = <<h>> \o r /\ <<h>> \in Seq(T)
  <2>1. h \in T /\ r \in Seq(T)
    BY HeadTailProperties
  <2>2. q = <<h>> \o r
    OBVIOUS
  <2> QED
    BY <2>1, <2>2
<1> HIDE DEF h, r
<1>2. Only(<<h>> \o r, S) = Only(<<h>>, S) \o Only(r, S)
  BY <1>1, OnlyOfConcat
<1>3. Only(r, S) \in Seq(T)
  BY <1>1, OnlyTyped
<1>4. <<>> \o Only(r, S) = Only(r, S)
  BY <1>3, ConcatEmptySeq
<1>5. (h \in S => Only(<<h>>, S) = <<h>>) /\ (h \notin S => Only(<<h>>, S) = <<>>)
  BY OnlyOfOne
<1> QED
  BY <1>1, <1>2, <1>4, <1>5, Zenon DEF Led, h, r

(* What stands before a list can be taken off two equal ones. *)
LEMMA FirstEqual ==
  ASSUME NEW a \in Threads, NEW b \in Threads, NEW s \in Seq(Threads), NEW u \in Seq(Threads),
         <<a>> \o s = <<b>> \o u
  PROVE  a = b /\ s = u
<1>1. Head(<<a>> \o s) = a /\ Head(<<b>> \o u) = b
  OBVIOUS
<1>2. Tail(<<a>> \o s) = s /\ Tail(<<b>> \o u) = u
  OBVIOUS
<1> QED
  BY <1>1, <1>2, Zenon

(* The first thread that is ready gets the processor: it is the next peer, *)
(* the one whose burst was cut, or a thread of another priority.           *)
LEMMA DispatchStep ==
  ASSUME SchedulerInv, setcurrp
  PROVE  Keeps
<1> DEFINE q == r_queue
           h == Head(r_queue)
           r == Tail(r_queue)
<1>1. /\ currp = None /\ currp' = h /\ r_queue' = r
      /\ burst' = IF h \in Peer THEN h ELSE burst
  <2>1. currp = None
    BY DEF setcurrp, SchedulerInv, KernelInv
  <2> QED
    BY <2>1, Zenon DEF setcurrp
<1>2. q \in Seq(Threads) /\ q # <<>>
  <2>1. Only(q, {idle}) = <<idle>>
    BY <1>1, NoThread DEF SchedulerInv, ListInv
  <2>2. Only(<<>>, {idle}) = <<>>
    BY OnlyOfNone
  <2>3. <<idle>> # <<>>
    OBVIOUS
  <2>4. q # <<>>
    BY <2>1, <2>2, <2>3
  <2> QED
    BY <2>4 DEF SchedulerInv, ListInv
<1>3. h \in Threads /\ r \in Seq(Threads)
  BY <1>2, HeadTailProperties
<1> HIDE DEF q, h, r
<1>4. \A S : /\ h \in S => Only(q, S) = <<h>> \o Only(r, S)
             /\ h \notin S => Only(q, S) = Only(r, S)
  <2> SUFFICES ASSUME NEW S
               PROVE  /\ h \in S => Only(q, S) = <<h>> \o Only(r, S)
                      /\ h \notin S => Only(q, S) = Only(r, S)
    OBVIOUS
  <2>1. Led(q, S)
    BY <1>2, FirstTaken
  <2> QED
    BY <2>1, Zenon DEF Led, q, h, r
<1>5. \A S : Only(r, S) \in Seq(Threads)
  BY <1>3, OnlyTyped
<1>6. Only(r, {h}) = <<>>
  <2> DEFINE x == Only(r, {h})
  <2>1. x \in Seq(Threads)
    BY <1>5
  <2>2. <<h>> \o x = <<>> \/ <<h>> \o x = <<h>>
    <3>1. h \in {h}
      OBVIOUS
    <3>2. Only(q, {h}) = <<h>> \o x
      BY <1>4, <3>1, Zenon
    <3>3. Only(q, {h}) = <<>> \/ Only(q, {h}) = <<h>>
      BY <1>3, Zenon DEF SchedulerInv, ListInv, q
    <3> QED
      BY <3>2, <3>3, Zenon
  <2> HIDE DEF x
  <2>3. <<h>> \o x # <<>>
    BY <1>3, <2>1
  <2>4. <<h>> \o x = <<h>> => x = <<>>
    <3>1. <<>> \in Seq(Threads) /\ <<h>> \o <<>> = <<h>>
      BY <1>3
    <3> QED
      BY <1>3, <2>1, <3>1, FirstEqual, Zenon
  <2> QED
    BY <2>2, <2>3, <2>4, Zenon DEF x
<1>7. \A u \in Threads : u # h => Only(r, {u}) = Only(q, {u})
  <2> SUFFICES ASSUME NEW u \in Threads, u # h PROVE Only(r, {u}) = Only(q, {u})
    OBVIOUS
  <2>1. h \notin {u}
    OBVIOUS
  <2> QED
    BY <1>4, <2>1, Zenon
<1>8. ListInv'
  <2>1. \A u \in Threads : Only(r, {u}) = <<>> \/ Only(r, {u}) = <<u>>
    BY <1>6, <1>7, Zenon DEF SchedulerInv, ListInv, q
  <2>2. h # idle => Only(r, {idle}) = <<idle>>
    <3>1. Only(q, {idle}) = <<idle>>
      BY <1>1, NoThread, Zenon DEF SchedulerInv, ListInv, q
    <3> QED
      BY <1>7, <3>1, NoThread
  <2> QED
    BY <1>1, <1>3, <1>6, <2>1, <2>2, Zenon DEF ListInv
<1>9. CASE h \in Peer /\ burst = None
  <2>1. burst' = h
    BY <1>1, <1>9
  <2>2. BurstInv'
    BY <1>1, <1>9, <2>1, Zenon DEF BurstInv
  <2>3. peersReady = <<h>> \o Only(r, Peer)
    <3>1. Only(q, Peer) = <<h>> \o Only(r, Peer)
      BY <1>4, <1>9, Zenon
    <3>2. peersReady = Only(q, Peer)
      BY <1>9, NoThread DEF peersReady, q
    <3> QED
      BY <3>1, <3>2
  <2>4. peersReady' = Only(r, Peer)
    <3>1. peersReady' = Only(r, Peer \ {h})
      BY <1>1, <2>1, Zenon DEF peersReady
    <3>2. Spares(Threads, Peer, h)
      BY OnlySpares
    <3>3. Only(r, Peer \ {h}) = Only(r, Peer)
      BY <1>3, <1>6, <3>2, Zenon DEF Spares
    <3> QED
      BY <3>1, <3>3, Zenon
  <2>5. TakingTurns!Dispatch
    <3> DEFINE x == Only(r, Peer)
    <3>1. x \in Seq(Threads)
      BY <1>5
    <3> HIDE DEF x
    <3>2. <<h>> \o x # <<>> /\ Head(<<h>> \o x) = h /\ Tail(<<h>> \o x) = x
      BY <1>3, <3>1
    <3>3. burst = TakingTurns!Nobody
      BY <1>9 DEF TakingTurns!Nobody, None
    <3> QED
      BY <2>1, <2>3, <2>4, <3>2, <3>3, Zenon DEF TakingTurns!Dispatch, x
  <2> QED
    BY <1>8, <2>2, <2>5, Zenon DEF Keeps, Turn
<1>10. CASE h \in Peer /\ burst # None
  <2>1. burst \in Peer /\ burst \in Threads
    BY <1>10, NoThread DEF SchedulerInv, BurstInv
  <2>2. burst = h
    <3> DEFINE x == Only(q, Peer \ {burst})
               y == Only(r, Peer)
    <3>1. x \in Seq(Threads) /\ y \in Seq(Threads)
      BY <1>2, <1>5, OnlyTyped
    <3>2. Only(q, Peer) = <<h>> \o y
      BY <1>4, <1>10, Zenon
    <3>3. Only(q, Peer) = <<burst>> \o x
      BY <1>1, <1>10, <2>1, NoThread DEF SchedulerInv, BurstInv, q
    <3> HIDE DEF x, y
    <3> QED
      BY <1>3, <2>1, <3>1, <3>2, <3>3, FirstEqual, Zenon
  <2>3. burst' = burst
    BY <1>1, <1>10, <2>2
  <2>4. BurstInv'
    BY <1>1, <2>1, <2>2, <2>3, Zenon DEF BurstInv
  <2>5. UNCHANGED <<burst, peersReady>>
    <3>1. h \notin Peer \ {burst}
      BY <2>2
    <3>2. Only(q, Peer \ {burst}) = Only(r, Peer \ {burst})
      BY <1>4, <3>1, Zenon
    <3> QED
      BY <1>1, <2>3, <3>2, Zenon DEF peersReady, q
  <2> QED
    BY <1>8, <2>4, <2>5, Zenon DEF Keeps, Turn
<1>11. CASE h \notin Peer
  <2>1. burst' = burst
    BY <1>1, <1>11
  <2>2. /\ Only(r, Peer) = Only(q, Peer)
        /\ Only(r, Peer \ {burst}) = Only(q, Peer \ {burst})
    <3>1. h \notin Peer \ {burst}
      BY <1>11
    <3> QED
      BY <1>4, <1>11, <3>1, Zenon
  <2>3. BurstInv'
    <3>1. burst # None => burst # currp
      BY <1>1
    <3> QED
      BY <1>1, <1>11, <2>1, <2>2, <3>1, Zenon DEF SchedulerInv, BurstInv, q
  <2>4. UNCHANGED <<burst, peersReady>>
    BY <1>1, <2>1, <2>2, Zenon DEF peersReady, q
  <2> QED
    BY <1>8, <2>3, <2>4, Zenon DEF Keeps, Turn
<1> QED
  BY <1>9, <1>10, <1>11, Zenon

(* A thread is ready when the kernel switches, and it is one. *)
LEMMA ReadyThread ==
  ASSUME SchedulerInv, setcurrp
  PROVE  Head(r_queue) \in Threads /\ Head(r_queue) # None
<1>1. currp = None /\ currp # idle
  BY NoThread DEF setcurrp, SchedulerInv, KernelInv
<1>2. r_queue # <<>>
  <2>1. Only(r_queue, {idle}) = <<idle>>
    BY <1>1 DEF SchedulerInv, ListInv
  <2>2. Only(<<>>, {idle}) = <<>> /\ <<idle>> # <<>>
    BY OnlyOfNone
  <2> QED
    BY <2>1, <2>2
<1>3. r_queue \in Seq(Threads)
  BY DEF SchedulerInv, ListInv
<1>4. Head(r_queue) \in Threads
  BY <1>2, <1>3, HeadTailProperties
<1> QED
  BY <1>4, NoThread

(* A thread of higher priority that a peer wakes. *)
LEMMA ToldIsHigher ==
  ASSUME SchedulerInv, currp \in Telling, NEW t \in Threads, Asleep(t), prio[t] > prio[currp]
  PROVE  t \in Higher /\ currp \in Peer /\ burst = currp /\ Only(r_queue, {t}) = <<>>
<1>1. currp \in Peer /\ currp \in Threads
  BY SchedulerAssumption, NoThread
<1>2. burst = currp
  BY <1>1 DEF SchedulerInv, BurstInv
<1>3. t \in Higher
  <2>1. t \in Peer => prio[currp] = prio[t]
    BY <1>1, Priorities
  <2>2. t = idle => prio[currp] > prio[t]
    BY <1>1, Priorities
  <2>3. prio[t] \in Nat /\ prio[currp] \in Nat
    BY <1>1, Priorities
  <2> QED
    BY <2>1, <2>2, <2>3 DEF Threads
<1>4. r_queue \in Seq(Threads)
  BY DEF SchedulerInv, ListInv
<1>5. Only(r_queue, {t}) = <<>>
  BY <1>4, OnlyOfMember DEF Asleep, Waiting
<1> QED
  BY <1>1, <1>2, <1>3, <1>5

(* A peer that has used up its quantum is in a loop. *)
LEMMA UsedUp ==
  ASSUME SchedulerInv, currp \in Peer, p_preempt[currp] = 0
  PROVE  burst \in Looping \cup Telling
<1>1. currp \in Threads /\ currp # idle
  BY NoThread
<1>2. Bounded(currp) => 0 >= CH_CFG_TIME_QUANTUM - BURST
  BY <1>1 DEF SchedulerInv, QuantumInv
<1>3. ~(0 >= CH_CFG_TIME_QUANTUM - BURST)
  BY SchedulerAssumption
<1>4. currp \in Looping
  BY <1>1, <1>2, <1>3 DEF Bounded
<1> QED
  BY <1>4 DEF SchedulerInv, BurstInv

(* Nothing that the peers see happens. *)
LEMMA IdleStep ==
  ASSUME SchedulerInv, UNCHANGED <<r_queue, currp, burst>>
  PROVE  Keeps
<1>1. ListInv' /\ BurstInv'
  BY Zenon DEF SchedulerInv, ListInv, BurstInv
<1>2. UNCHANGED <<burst, peersReady>>
  BY Zenon DEF peersReady
<1> QED
  BY <1>1, <1>2, Zenon DEF Keeps, Turn

(* The timer takes from a thread without a loop no more than its burst,    *)
(* which is less than a quantum; the kernel switches when none runs.       *)
LEMMA KernelStep ==
  ASSUME SchedulerInv, [SchedulerNext]_schedulerVars
  PROVE  QuantumInv' /\ KernelInv'
<1>1. /\ BURST \in Nat /\ CH_CFG_TIME_QUANTUM \in Nat
      /\ p_preempt \in [Threads -> Nat]
      /\ \A t \in Threads : Bounded(t) => p_preempt[t] >= CH_CFG_TIME_QUANTUM - BURST
  BY SchedulerAssumption DEF SchedulerInv, QuantumInv
<1>2. /\ currp # None => currp \in Threads
      /\ None \notin Threads
      /\ kernel \in {"thread", "exit", "switch"}
      /\ kernel = "switch" <=> currp = None
  BY NoThread DEF SchedulerInv, ListInv, KernelInv
<1>3. p_preempt' = [p_preempt EXCEPT ![currp] = CH_CFG_TIME_QUANTUM] => QuantumInv'
  <2> SUFFICES ASSUME p_preempt' = [p_preempt EXCEPT ![currp] = CH_CFG_TIME_QUANTUM]
               PROVE  QuantumInv'
    OBVIOUS
  <2>1. p_preempt' \in [Threads -> Nat]
    BY <1>1
  <2>2. \A t \in Threads : p_preempt'[t] = CH_CFG_TIME_QUANTUM \/ p_preempt'[t] = p_preempt[t]
    BY <1>1
  <2>3. CH_CFG_TIME_QUANTUM >= CH_CFG_TIME_QUANTUM - BURST
    BY <1>1
  <2>4. \A t \in Threads : Bounded(t) => p_preempt'[t] >= CH_CFG_TIME_QUANTUM - BURST
    BY <1>1, <2>2, <2>3, Zenon
  <2> QED
    BY <2>1, <2>4, Zenon DEF QuantumInv, Bounded
<1>4. UNCHANGED p_preempt => QuantumInv'
  BY <1>1, Zenon DEF QuantumInv, Bounded
<1>5. CASE chSchGoSleepS
  <2>1. kernel' = "switch" /\ currp' = None
    BY <1>5 DEF chSchGoSleepS, MakesRoom
  <2> QED
    BY <1>3, <1>5, <2>1 DEF chSchGoSleepS, KernelInv
<1>6. ASSUME NEW t \in Threads, chSchWakeupS(t) \/ chSchRescheduleS(t)
      PROVE  QuantumInv' /\ KernelInv'
  <2>1. UNCHANGED <<p_preempt, kernel>> /\ kernel = "thread" /\ (currp' = currp \/ currp' = t)
    BY <1>6, Zenon DEF chSchWakeupS, chSchRescheduleS
  <2>2. KernelInv'
    BY <1>2, <2>1 DEF KernelInv
  <2> QED
    BY <1>4, <2>1, <2>2
<1>7. CASE chSysTimerHandlerI
  <2>1. /\ kernel = "thread" /\ kernel' = "exit" /\ currp' = currp
        /\ Bounded(currp) => CH_CFG_TIME_QUANTUM - p_preempt[currp] < BURST
        /\ p_preempt' = [p_preempt EXCEPT ![currp] =
                           IF p_preempt[currp] > 0 THEN p_preempt[currp] - 1 ELSE 0]
    BY <1>7, Zenon DEF chSysTimerHandlerI
  <2>2. KernelInv'
    BY <1>2, <2>1 DEF KernelInv
  <2>3. currp \in Threads /\ p_preempt[currp] \in Nat
    BY <1>1, <1>2, <2>1
  <2> DEFINE left == IF p_preempt[currp] > 0 THEN p_preempt[currp] - 1 ELSE 0
  <2>4. left \in Nat
    BY <2>3
  <2>5. Bounded(currp) => left >= CH_CFG_TIME_QUANTUM - BURST
    BY <1>1, <2>1, <2>3
  <2>6. p_preempt' = [p_preempt EXCEPT ![currp] = left]
    BY <2>1
  <2> HIDE DEF left
  <2>7. p_preempt' \in [Threads -> Nat]
    BY <1>1, <2>4, <2>6
  <2>8. \A t \in Threads : /\ t = currp => p_preempt'[t] = left
                           /\ t # currp => p_preempt'[t] = p_preempt[t]
    BY <1>1, <2>6
  <2>9. \A t \in Threads : Bounded(t) => p_preempt'[t] >= CH_CFG_TIME_QUANTUM - BURST
    BY <1>1, <2>5, <2>8, Zenon
  <2>10. QuantumInv'
    BY <2>7, <2>9, Zenon DEF QuantumInv, Bounded
  <2> QED
    BY <2>2, <2>10
<1>8. CASE device_interrupt
  <2>1. kernel = "thread" /\ kernel' = "exit" /\ currp' = currp /\ UNCHANGED p_preempt
    BY <1>8, Zenon DEF device_interrupt
  <2>2. KernelInv'
    BY <1>2, <2>1 DEF KernelInv
  <2> QED
    BY <1>4, <2>1, <2>2
<1>9. CASE port_irq_epilogue
  <2>1. /\ kernel = "exit"
        /\ \/ kernel' = "thread" /\ UNCHANGED <<currp, p_preempt>>
           \/ kernel' = "switch" /\ currp' = None
        /\ \/ UNCHANGED p_preempt
           \/ p_preempt' = [p_preempt EXCEPT ![currp] = CH_CFG_TIME_QUANTUM]
    BY <1>9, Zenon DEF port_irq_epilogue, chSchDoRescheduleBehind, chSchDoRescheduleAhead,
                       MakesRoom
  <2>2. KernelInv'
    BY <1>2, <2>1 DEF KernelInv
  <2> QED
    BY <1>3, <1>4, <2>1, <2>2, Zenon
<1>10. CASE setcurrp
  <2>1. kernel' = "thread" /\ UNCHANGED p_preempt /\ ListInv' /\ currp' = Head(r_queue)
    BY <1>10, DispatchStep, Zenon DEF setcurrp, Keeps
  <2>2. currp' # None
    BY <1>10, <2>1, ReadyThread
  <2>3. KernelInv'
    BY <2>1, <2>2 DEF KernelInv
  <2> QED
    BY <1>4, <2>1, <2>3
<1>11. CASE UNCHANGED schedulerVars
  <2>1. UNCHANGED <<currp, kernel, p_preempt>>
    BY <1>11, Zenon DEF schedulerVars
  <2> QED
    BY <1>2, <1>4, <2>1 DEF KernelInv
<1> QED
  BY <1>5, <1>6, <1>7, <1>8, <1>9, <1>10, <1>11, Zenon DEF SchedulerNext

(* What every step keeps. *)
LEMMA SchedulerStep ==
  ASSUME SchedulerInv, [SchedulerNext]_schedulerVars
  PROVE  Keeps
<1>1. CASE chSchGoSleepS
  BY <1>1, SleepStep
<1>2. ASSUME NEW t \in Threads, chSchWakeupS(t) PROVE Keeps
  <2>1. /\ currp # None /\ Asleep(t) /\ t # idle /\ currp # idle /\ t # currp
        /\ \/ /\ r_queue' = Behind(t)
              /\ UNCHANGED <<currp, burst>>
           \/ /\ prio[t] > prio[currp] /\ currp \in Telling
              /\ r_queue' = Behind(currp)
              /\ currp' = t
              /\ BurstOver
    <3>1. currp # None
      BY <1>2 DEF chSchWakeupS, SchedulerInv, KernelInv
    <3> QED
      BY <1>2, <3>1, Zenon DEF chSchWakeupS, chSchReadyI, Asleep
  <2>2. t \in Peer \cup Higher
    BY <2>1 DEF Threads
  <2>3. CASE r_queue' = Behind(t) /\ UNCHANGED <<currp, burst>>
    BY <2>1, <2>2, <2>3, WakeStep
  <2>4. CASE /\ prio[t] > prio[currp] /\ currp \in Telling
             /\ r_queue' = Behind(currp)
             /\ currp' = t
             /\ BurstOver
    <3>1. t \in Higher /\ currp \in Peer /\ Only(r_queue, {t}) = <<>> /\ burst = currp
      BY <2>1, <2>2, <2>4, ToldIsHigher
    <3> QED
      BY <2>1, <2>4, <3>1, BehindStep
  <2> QED
    BY <2>1, <2>3, <2>4, Zenon
<1>3. ASSUME NEW t \in Threads, chSchRescheduleS(t) PROVE Keeps
  <2>1. /\ currp # None /\ Asleep(t) /\ currp \in Telling /\ prio[t] > prio[currp]
        /\ r_queue' = Ahead(currp) /\ currp' = t /\ burst' = burst /\ t # currp
    <3>1. currp # None
      BY <1>3 DEF chSchRescheduleS, SchedulerInv, KernelInv
    <3> QED
      BY <1>3, <3>1, Zenon DEF chSchRescheduleS, Asleep
  <2>2. t \in Higher /\ currp \in Peer /\ Only(r_queue, {t}) = <<>> /\ currp # idle
    BY <2>1, ToldIsHigher, NoThread
  <2> QED
    BY <2>1, <2>2, AheadStep
<1>4. CASE chSysTimerHandlerI \/ device_interrupt
  <2>1. /\ currp # None /\ UNCHANGED <<currp, burst>>
        /\ \/ UNCHANGED r_queue
           \/ \E t \in Peer \cup Higher : Asleep(t) /\ r_queue' = Behind(t)
    <3>1. currp # None
      BY <1>4 DEF chSysTimerHandlerI, device_interrupt, SchedulerInv, KernelInv
    <3>2. CASE chSysTimerHandlerI
      BY <3>1, <3>2, Zenon DEF chSysTimerHandlerI, WakesAtMostOne, chSchReadyI
    <3>3. CASE device_interrupt
      <4>1. \E t \in Peer : Asleep(t) /\ r_queue' = Behind(t)
        BY <3>3, Zenon DEF device_interrupt, chSchReadyI
      <4>2. UNCHANGED <<currp, burst>>
        BY <3>3, Zenon DEF device_interrupt
      <4> QED
        BY <3>1, <4>1, <4>2
    <3> QED
      BY <1>4, <3>2, <3>3
  <2>2. CASE UNCHANGED r_queue
    BY <2>1, <2>2, IdleStep
  <2>3. CASE \E t \in Peer \cup Higher : Asleep(t) /\ r_queue' = Behind(t)
    BY <2>1, <2>3, WakeStep
  <2> QED
    BY <2>1, <2>2, <2>3
<1>5. CASE port_irq_epilogue
  <2>1. currp # None
    BY <1>5 DEF port_irq_epilogue, SchedulerInv, KernelInv
  <2>2. CASE UNCHANGED <<r_queue, currp, burst>>
    BY <2>2, IdleStep
  <2>3. CASE chSchDoRescheduleBehind /\ MakesRoom
    <3>1. /\ r_queue' = Behind(currp) /\ BurstOver /\ currp' = None
          /\ p_preempt[currp] = 0
      BY <2>3, Zenon DEF chSchDoRescheduleBehind, chSchReadyI, MakesRoom
    <3>2. currp \in Peer => burst \in Looping \cup Telling
      BY <2>1, <3>1, UsedUp
    <3> QED
      BY <2>1, <3>1, <3>2, BehindStep
  <2>4. CASE chSchDoRescheduleAhead /\ MakesRoom
    <3>1. r_queue' = Ahead(currp) /\ burst' = burst /\ currp' = None
      BY <2>4, Zenon DEF chSchDoRescheduleAhead, MakesRoom
    <3> QED
      BY <2>1, <3>1, AheadStep
  <2> QED
    BY <1>5, <2>2, <2>3, <2>4, Zenon DEF port_irq_epilogue
<1>6. CASE setcurrp
  BY <1>6, DispatchStep
<1>7. CASE UNCHANGED schedulerVars
  <2>1. UNCHANGED <<r_queue, currp, burst>>
    BY <1>7, Zenon DEF schedulerVars
  <2> QED
    BY <2>1, IdleStep
<1> QED
  BY <1>1, <1>2, <1>3, <1>4, <1>5, <1>6, <1>7, Zenon DEF SchedulerNext

-----------------------------------------------------------------------------
(* The theorems.                                                           *)

(* The inductive invariant holds. *)
THEOREM SchedulerSound == SchedulerSpec => []SchedulerInv
<1>1. SchedulerInit => SchedulerInv
  <2> SUFFICES ASSUME SchedulerInit PROVE SchedulerInv
    OBVIOUS
  <2>1. /\ r_queue = <<>> /\ currp = idle /\ kernel = "thread" /\ burst = None
        /\ p_preempt = [t \in Threads |-> CH_CFG_TIME_QUANTUM]
    BY Zenon DEF SchedulerInit
  <2>2. \A S : Only(r_queue, S) = <<>>
    BY <2>1, OnlyOfNone
  <2>3. ListInv
    BY <2>1, <2>2, NoThread DEF ListInv
  <2>4. BurstInv
    BY <2>1, NoThread DEF BurstInv
  <2>5. QuantumInv
    BY <2>1, SchedulerAssumption DEF QuantumInv
  <2>6. KernelInv
    BY <2>1, NoThread DEF KernelInv
  <2> QED
    BY <2>3, <2>4, <2>5, <2>6 DEF SchedulerInv
<1>2. SchedulerInv /\ [SchedulerNext]_schedulerVars => SchedulerInv'
  BY SchedulerStep, KernelStep DEF SchedulerInv, Keeps
<1> QED
  BY <1>1, <1>2, PTL DEF SchedulerSpec

(* KeepsPeers: the peers take turns as module Peers has it, whatever the   *)
(* timer, the devices and the higher threads do in between.                *)
THEOREM TakesTurns == SchedulerSpec => KeepsPeers
<1>1. SchedulerInv /\ [SchedulerNext]_schedulerVars => Turn
  BY SchedulerStep DEF Keeps
<1>2. SchedulerInv /\ [SchedulerNext]_schedulerVars =>
        [ \/ TakingTurns!Dispatch
          \/ \E t \in Peer : TakingTurns!GoesOnWaking(t)
          \/ TakingTurns!Blocks
          \/ burst \in Looping \cup Telling /\ TakingTurns!BlocksWaking(<<burst>>)
        ]_<<burst, peersReady>>
  BY <1>1, Zenon DEF Turn
<1> QED
  BY <1>2, SchedulerSound, PTL DEF SchedulerSpec, KeepsPeers
=============================================================================

------------------------ MODULE MessageRecorder_proofs ------------------------
(***************************************************************************)
(* Proofs about the recorders: what the files hold, and what a host gets.  *)
(*                                                                         *)
(* The argument is about two sequences, what the files hold together and   *)
(* what of it no host has had yet (Unsent).  Recording a message adds it   *)
(* to the end of both or, when it is as big as the limit or its header is  *)
(* too long (not Kept), to neither; whether a new file was pushed makes no *)
(* difference.  Both are in the order of sending, so what a replay hands   *)
(* over is; nothing in the second was handed to a host that could take it; *)
(* and what was sent while no host was there is handed over or in the      *)
(* second.  A lost connection leaves the second empty, or makes it         *)
(* everything again (Rewinds).  What is Kept depends on the limit that the *)
(* code computes; that is the limit configured if it does not wrap         *)
(* (KeptAsConfigured), and what fits in a file then is what is Kept.       *)
(*                                                                         *)
(* The lemmas on FlattenSeq come first.  They need an induction, which is  *)
(* done over a set of numbers and the well-foundedness of Nat.             *)
(***************************************************************************)
EXTENDS MessageRecorder, SequenceTheorems, WellFoundedInduction, TLAPS

-----------------------------------------------------------------------------
(* Sequences.                                                              *)

(* Induction, with a set in place of a predicate.                          *)
LEMMA Induction ==
    ASSUME NEW S, 0 \in S, \A n \in Nat : n \in S => n + 1 \in S
    PROVE  Nat \subseteq S
<1> SUFFICES ASSUME Nat \ S # {} PROVE FALSE
    OBVIOUS
<1>1. PICK x \in Nat \ S : \A y \in Nat \ S : ~(<<y, x>> \in OpToRel(<, Nat))
    <2>1. Nat \ S \subseteq Nat
        OBVIOUS
    <2> QED BY <2>1, NatLessThanWellFounded, WFMin
<1>2. PICK y \in Nat : x = y + 1
    <2>1. x # 0 /\ x \in Nat
        OBVIOUS
    <2>2. x - 1 \in Nat /\ x = x - 1 + 1
        BY <2>1
    <2> QED BY <2>2
<1>3. <<y, x>> \in OpToRel(<, Nat)
    BY <1>2 DEF OpToRel
<1>4. y \in S
    BY <1>1, <1>3, Zenon
<1> QED BY <1>2, <1>4

(* The beginnings of a sequence of sequences, joined.                      *)
Joined(f, s, n) ==
    f = [i \in 1..n |-> IF i = 1 THEN s[i] ELSE f[i - 1] \o s[i]]

LEMMA JoinedExists ==
    ASSUME NEW s, NEW n \in Nat
    PROVE  \E f : Joined(f, s, n)
<1> DEFINE S == {k \in Nat : \E f : Joined(f, s, k)}
<1>1. 0 \in S
    <2>1. PICK f : f = [i \in 1..0 |-> s[i]]
        OBVIOUS
    <2>2. 1..0 = {}
        OBVIOUS
    <2>3. Joined(f, s, 0)
        BY <2>1, <2>2 DEF Joined
    <2> QED BY <2>3
<1>2. ASSUME NEW k \in Nat, k \in S
      PROVE  k + 1 \in S
    <2>1. PICK f : Joined(f, s, k)
        BY <1>2
    <2>2. PICK g : g = [i \in 1..(k + 1) |-> IF i = 1 THEN s[i] ELSE f[i - 1] \o s[i]]
        OBVIOUS
    <2>3. ASSUME NEW i \in 1..(k + 1), i # 1
          PROVE  g[i - 1] = f[i - 1]
        <3>1. i - 1 \in 1..k /\ i - 1 \in 1..(k + 1)
            BY <2>3
        <3>2. f[i - 1] = IF i - 1 = 1 THEN s[i - 1] ELSE f[i - 1 - 1] \o s[i - 1]
            BY <2>1, <3>1 DEF Joined
        <3>3. g[i - 1] = IF i - 1 = 1 THEN s[i - 1] ELSE f[i - 1 - 1] \o s[i - 1]
            BY <2>2, <3>1
        <3> QED BY <3>2, <3>3
    <2>4. Joined(g, s, k + 1)
        BY <2>2, <2>3 DEF Joined
    <2> QED BY <2>4
<1>3. Nat \subseteq S
    <2> HIDE DEF S
    <2> QED BY <1>1, <1>2, Induction
<1> QED BY <1>3

LEMMA FlattenIsJoined ==
    ASSUME NEW s, Len(s) \in Nat \ {0}
    PROVE  \E f : Joined(f, s, Len(s)) /\ FlattenSeq(s) = f[Len(s)]
<1> DEFINE flatten[i \in 1..Len(s)] ==
              IF i = 1 THEN s[i] ELSE flatten[i - 1] \o s[i]
<1>1. flatten = CHOOSE f : Joined(f, s, Len(s))
    BY DEF Joined
<1>2. Joined(flatten, s, Len(s))
    <2>1. \E f : Joined(f, s, Len(s))
        BY JoinedExists
    <2> HIDE DEF flatten
    <2> QED BY <1>1, <2>1, Zenon
<1>3. FlattenSeq(s) = flatten[Len(s)]
    BY DEF FlattenSeq
<1> HIDE DEF flatten
<1> QED BY <1>2, <1>3

LEMMA JoinedAt ==
    ASSUME NEW f, NEW s, NEW n, Joined(f, s, n), NEW i \in 1..n
    PROVE  f[i] = IF i = 1 THEN s[i] ELSE f[i - 1] \o s[i]
<1> DEFINE F(j) == IF j = 1 THEN s[j] ELSE f[j - 1] \o s[j]
<1>1. f = [j \in 1..n |-> F(j)]
    BY DEF Joined
<1> HIDE DEF F
<1>2. f[i] = F(i)
    BY <1>1
<1> QED BY <1>2 DEF F

LEMMA FlattenEmpty == FlattenSeq(<<>>) = <<>>
BY DEF FlattenSeq

(* One more sequence is joined after the others.                           *)
LEMMA FlattenAppend ==
    ASSUME NEW S, NEW s \in Seq(Seq(S)), NEW x \in Seq(S)
    PROVE  FlattenSeq(Append(s, x)) = FlattenSeq(s) \o x
<1> DEFINE t == Append(s, x)
           n == Len(s)
<1>1. /\ n \in Nat /\ Len(t) = n + 1 /\ Len(t) \in Nat \ {0}
      /\ t[n + 1] = x
      /\ \A i \in 1..n : t[i] = s[i]
    BY AppendProperties, LenProperties
<1> HIDE DEF t
<1>2. PICK g : Joined(g, t, n + 1) /\ FlattenSeq(t) = g[n + 1]
    BY <1>1, FlattenIsJoined
<1>3. g[n + 1] = IF n + 1 = 1 THEN t[n + 1] ELSE g[n + 1 - 1] \o t[n + 1]
    <2>1. n + 1 \in 1..(n + 1)
        BY <1>1
    <2> QED BY <1>2, <2>1, JoinedAt
<1>4. CASE n = 0
    <2>1. s = <<>>
        BY <1>4, EmptySeq
    <2>2. FlattenSeq(s) = <<>>
        BY <2>1, FlattenEmpty
    <2>3. FlattenSeq(t) = x
        BY <1>1, <1>2, <1>3, <1>4
    <2> QED BY <2>2, <2>3, ConcatEmptySeq DEF t
<1>5. CASE n # 0
    <2>1. PICK f : Joined(f, s, n) /\ FlattenSeq(s) = f[n]
        BY <1>1, <1>5, FlattenIsJoined
    (* There is only one way to join, whatever is joined after.            *)
    <2> DEFINE A == {k \in Nat : k \in 1..n => f[k] = g[k]}
    <2>2. Nat \subseteq A
        <3>1. 0 \in A
            OBVIOUS
        <3>2. ASSUME NEW k \in Nat, k \in A
              PROVE  k + 1 \in A
            <4>1. CASE k + 1 \notin 1..n
                BY <4>1
            <4>2. CASE k + 1 \in 1..n
                <5>1. /\ k + 1 \in 1..(n + 1) /\ k + 1 - 1 = k
                      /\ s[k + 1] = t[k + 1]
                    BY <1>1, <4>2
                <5>2. f[k + 1] = IF k + 1 = 1 THEN s[k + 1]
                                              ELSE f[k + 1 - 1] \o s[k + 1]
                    BY <2>1, <4>2, JoinedAt
                <5>3. g[k + 1] = IF k + 1 = 1 THEN t[k + 1]
                                              ELSE g[k + 1 - 1] \o t[k + 1]
                    <6>1. PICK m \in Nat : m = n + 1
                        BY <1>1
                    <6>2. PICK j \in 1..m : j = k + 1
                        BY <5>1, <6>1
                    <6>3. Joined(g, t, m)
                        BY <1>2, <6>1
                    <6>4. g[j] = IF j = 1 THEN t[j] ELSE g[j - 1] \o t[j]
                        BY <6>3, JoinedAt
                    <6> QED BY <6>2, <6>4
                <5>4. k + 1 = 1 \/ f[k] = g[k]
                    BY <1>1, <3>2, <4>2
                <5>5. f[k + 1] = g[k + 1]
                    BY <5>1, <5>2, <5>3, <5>4
                <5> QED BY <5>5
            <4> QED BY <4>1, <4>2
        <3> HIDE DEF A
        <3> QED BY <3>1, <3>2, Induction
    <2>3. f[n] = g[n]
        <3>1. n \in A /\ n \in 1..n
            BY <1>1, <1>5, <2>2
        <3> QED BY <3>1
    <2> QED BY <1>1, <1>2, <1>3, <1>5, <2>1, <2>3 DEF t
<1> QED BY <1>4, <1>5

LEMMA FlattenType ==
    ASSUME NEW S, NEW s \in Seq(Seq(S))
    PROVE  FlattenSeq(s) \in Seq(S)
<1> DEFINE T == {k \in Nat : \A t \in Seq(Seq(S)) : Len(t) = k => FlattenSeq(t) \in Seq(S)}
<1>1. 0 \in T
    <2> SUFFICES ASSUME NEW t \in Seq(Seq(S)), Len(t) = 0
                 PROVE  FlattenSeq(t) \in Seq(S)
        OBVIOUS
    <2>1. t = <<>>
        BY EmptySeq
    <2> QED BY <2>1, FlattenEmpty, EmptySeq
<1>2. ASSUME NEW k \in Nat, k \in T
      PROVE  k + 1 \in T
    <2> SUFFICES ASSUME NEW t \in Seq(Seq(S)), Len(t) = k + 1
                 PROVE  FlattenSeq(t) \in Seq(S)
        OBVIOUS
    <2>1. t # <<>>
        BY EmptySeq
    <2>2. PICK u \in Seq(Seq(S)), x \in Seq(S) : t = Append(u, x)
        BY <2>1, SequenceEmptyOrAppend
    <2>3. Len(u) = k
        BY <2>2, AppendProperties, LenProperties
    <2>4. FlattenSeq(u) \in Seq(S)
        BY <1>2, <2>3
    <2> QED BY <2>2, <2>4, FlattenAppend, ConcatProperties
<1>3. Nat \subseteq T
    <2> HIDE DEF T
    <2> QED BY <1>1, <1>2, Induction
<1> QED BY <1>3, LenProperties

(* An element added to the last sequence.                                  *)
AddedLast(s, m) == [s EXCEPT ![Len(s)] = Append(@, m)]

LEMMA AddLast ==
    ASSUME NEW S, NEW s \in Seq(Seq(S)), s # <<>>, NEW m \in S
    PROVE  /\ Front(s) \in Seq(Seq(S)) /\ Last(s) \in Seq(S)
           /\ s = Append(Front(s), Last(s))
           /\ AddedLast(s, m) = Append(Front(s), Append(Last(s), m))
<1> DEFINE t == AddedLast(s, m)
<1>1. PICK u \in Seq(Seq(S)), x \in Seq(S) : s = Append(u, x)
    BY SequenceEmptyOrAppend
<1>2. /\ Len(s) \in Nat /\ Len(u) \in Nat /\ Len(s) = Len(u) + 1
      /\ s[Len(s)] = x /\ Len(s) \in 1..Len(s)
      /\ \A i \in 1..Len(u) : s[i] = u[i]
    BY <1>1, AppendProperties, LenProperties
<1>3. Append(x, m) \in Seq(S)
    BY AppendProperties
<1>4. t = [s EXCEPT ![Len(s)] = Append(x, m)]
    BY <1>2 DEF AddedLast
<1> HIDE DEF t
<1>5. /\ t \in Seq(Seq(S)) /\ Len(t) = Len(s)
      /\ \A j \in 1..Len(s) : t[j] = IF j = Len(s) THEN Append(x, m) ELSE s[j]
    BY <1>2, <1>3, <1>4, ExceptSeq
<1>6. t = Append(u, Append(x, m))
    <2>1. /\ Append(u, Append(x, m)) \in Seq(Seq(S))
          /\ Len(Append(u, Append(x, m))) = Len(t)
          /\ \A i \in 1..Len(u) : Append(u, Append(x, m))[i] = u[i]
          /\ Append(u, Append(x, m))[Len(u) + 1] = Append(x, m)
        BY <1>2, <1>3, <1>5, AppendProperties
    <2>2. \A i \in 1..Len(t) : t[i] = Append(u, Append(x, m))[i]
        BY <1>2, <1>5, <2>1
    <2> QED BY <1>5, <2>1, <2>2, SeqEqual
<1>7. x = Last(s)
    BY <1>2 DEF Last
<1>8. u = Front(s)
    <2>1. SubSeq(s, 1, Len(s) - 1) \in Seq(Seq(S)) /\ Len(SubSeq(s, 1, Len(s) - 1)) = Len(u)
          /\ \A i \in 1..Len(u) : SubSeq(s, 1, Len(s) - 1)[i] = u[i]
        <3>1. \A i \in 1..(Len(s) - 1) : s[i] \in Seq(S)
            <4>1. \A i \in 1..Len(s) : s[i] \in Seq(S)
                BY ElementOfSeq
            <4> QED BY <1>2, <4>1
        <3>2. /\ SubSeq(s, 1, Len(s) - 1) \in Seq(Seq(S))
              /\ Len(SubSeq(s, 1, Len(s) - 1)) = IF 1 <= Len(s) - 1 THEN Len(s) - 1 - 1 + 1 ELSE 0
              /\ \A i \in 1..(Len(s) - 1 - 1 + 1) : SubSeq(s, 1, Len(s) - 1)[i] = s[1 + i - 1]
            BY <1>2, <3>1, SubSeqProperties
        <3> QED BY <1>2, <3>2
    <2>2. SubSeq(s, 1, Len(s) - 1) = u
        BY <2>1, SeqEqual
    <2> QED BY <2>2 DEF Front
<1> QED BY <1>1, <1>6, <1>7, <1>8 DEF t

LEMMA ConcatAppend ==
    ASSUME NEW S, NEW s \in Seq(S), NEW t \in Seq(S), NEW e \in S
    PROVE  s \o Append(t, e) = Append(s \o t, e)
<1>1. <<e>> \in Seq(S) /\ s \o t \in Seq(S)
    BY ConcatProperties
<1>2. s \o (t \o <<e>>) = (s \o t) \o <<e>>
    BY <1>1, ConcatAssociative
<1>3. t \o <<e>> = Append(t, e) /\ (s \o t) \o <<e>> = Append(s \o t, e)
    BY <1>1, AppendIsConcat
<1> QED BY <1>2, <1>3

(* It is the last of all.                                                  *)
LEMMA FlattenAddLast ==
    ASSUME NEW S, NEW s \in Seq(Seq(S)), s # <<>>, NEW m \in S
    PROVE  FlattenSeq(AddedLast(s, m)) = Append(FlattenSeq(s), m)
<1> DEFINE u == Front(s)
           x == Last(s)
<1>1. /\ u \in Seq(Seq(S)) /\ x \in Seq(S)
      /\ s = Append(u, x) /\ AddedLast(s, m) = Append(u, Append(x, m))
    BY AddLast
<1> HIDE DEF u, x
<1>2. Append(x, m) \in Seq(S) /\ FlattenSeq(u) \in Seq(S)
    BY <1>1, AppendProperties, FlattenType
<1>3. FlattenSeq(AddedLast(s, m)) = FlattenSeq(u) \o Append(x, m)
    BY <1>1, <1>2, FlattenAppend
<1>4. FlattenSeq(s) = FlattenSeq(u) \o x
    BY <1>1, FlattenAppend
<1> QED BY <1>1, <1>2, <1>3, <1>4, ConcatAppend

-----------------------------------------------------------------------------
(* The size of a file.                                                     *)

(* The sizes of the beginnings of a file.                                  *)
Sizes(f, file, n) ==
    f = [k \in 0..n |-> IF k = 0 THEN 0 ELSE f[k - 1] + Size[file[k]]]

LEMMA SizesAt ==
    ASSUME NEW f, NEW file, NEW n, Sizes(f, file, n), NEW k \in 0..n
    PROVE  f[k] = IF k = 0 THEN 0 ELSE f[k - 1] + Size[file[k]]
<1> DEFINE F(j) == IF j = 0 THEN 0 ELSE f[j - 1] + Size[file[j]]
<1>1. f = [j \in 0..n |-> F(j)]
    BY DEF Sizes
<1> HIDE DEF F
<1>2. f[k] = F(k)
    BY <1>1
<1> QED BY <1>2 DEF F

LEMMA SizesExist ==
    ASSUME NEW file, NEW n \in Nat
    PROVE  \E f : Sizes(f, file, n)
<1> DEFINE S == {k \in Nat : \E f : Sizes(f, file, k)}
<1>1. 0 \in S
    <2>1. PICK f : f = [i \in 0..0 |-> 0]
        OBVIOUS
    <2>2. f = [k \in 0..0 |-> IF k = 0 THEN 0 ELSE f[k - 1] + Size[file[k]]]
        BY <2>1
    <2> QED BY <2>2 DEF Sizes
<1>2. ASSUME NEW k \in Nat, k \in S
      PROVE  k + 1 \in S
    <2>1. PICK f : Sizes(f, file, k)
        BY <1>2
    <2>2. PICK g : g = [i \in 0..(k + 1) |-> IF i = 0 THEN 0 ELSE f[i - 1] + Size[file[i]]]
        OBVIOUS
    <2>3. ASSUME NEW i \in 0..(k + 1), i # 0
          PROVE  g[i - 1] = f[i - 1]
        <3>1. i - 1 \in 0..k /\ i - 1 \in 0..(k + 1)
            BY <2>3
        <3>2. f[i - 1] = IF i - 1 = 0 THEN 0 ELSE f[i - 1 - 1] + Size[file[i - 1]]
            BY <2>1, <3>1, SizesAt
        <3>3. g[i - 1] = IF i - 1 = 0 THEN 0 ELSE f[i - 1 - 1] + Size[file[i - 1]]
            BY <2>2, <3>1
        <3> QED BY <3>2, <3>3
    <2>4. Sizes(g, file, k + 1)
        BY <2>2, <2>3 DEF Sizes
    <2> QED BY <2>4
<1>3. Nat \subseteq S
    <2> HIDE DEF S
    <2> QED BY <1>1, <1>2, Induction
<1> QED BY <1>3

LEMMA SizesAgree ==
    ASSUME NEW file, NEW longer, NEW f, NEW g, NEW n \in Nat, NEW m \in Nat, n <= m,
           Sizes(f, file, n), Sizes(g, longer, m), \A i \in 1..n : file[i] = longer[i]
    PROVE  \A i \in 0..n : f[i] = g[i]
<1> DEFINE S == {k \in Nat : k \in 0..n => f[k] = g[k]}
<1>1. 0 \in S
    <2>1. 0 \in 0..n /\ 0 \in 0..m
        OBVIOUS
    <2> QED BY <2>1, SizesAt
<1>2. ASSUME NEW k \in Nat, k \in S
      PROVE  k + 1 \in S
    <2>1. CASE k + 1 \notin 0..n
        BY <2>1
    <2>2. CASE k + 1 \in 0..n
        <3>1. /\ k + 1 \in 0..m /\ k \in 0..n /\ k + 1 # 0 /\ k + 1 - 1 = k
              /\ k + 1 \in 1..n
            BY <2>2
        <3>2. f[k + 1] = IF k + 1 = 0 THEN 0 ELSE f[k + 1 - 1] + Size[file[k + 1]]
            BY <2>2, SizesAt
        <3>3. g[k + 1] = IF k + 1 = 0 THEN 0 ELSE g[k + 1 - 1] + Size[longer[k + 1]]
            BY <3>1, SizesAt
        <3>4. f[k] = g[k] /\ file[k + 1] = longer[k + 1]
            BY <1>2, <3>1
        <3> QED BY <3>1, <3>2, <3>3, <3>4
    <2> QED BY <2>1, <2>2
<1>3. Nat \subseteq S
    <2> HIDE DEF S
    <2> QED BY <1>1, <1>2, Induction
<1> QED BY <1>3

LEMMA SizeOfIsSum ==
    ASSUME NEW file, Len(file) \in Nat
    PROVE  \E f : Sizes(f, file, Len(file)) /\ SizeOf(file) = f[Len(file)]
<1> DEFINE size[k \in 0..Len(file)] ==
              IF k = 0 THEN 0 ELSE size[k - 1] + Size[file[k]]
<1>1. size = CHOOSE f : Sizes(f, file, Len(file))
    BY DEF Sizes
<1>2. Sizes(size, file, Len(file))
    <2>1. \E f : Sizes(f, file, Len(file))
        BY SizesExist
    <2> HIDE DEF size
    <2> QED BY <1>1, <2>1, Zenon
<1>3. SizeOf(file) = size[Len(file)]
    BY DEF SizeOf
<1> HIDE DEF size
<1> QED BY <1>2, <1>3

LEMMA SizeOfEmpty == SizeOf(<<>>) = 0
<1>1. Len(<<>>) = 0 /\ 0 \in 0..0
    OBVIOUS
<1>2. PICK f : Sizes(f, <<>>, 0) /\ SizeOf(<<>>) = f[0]
    BY <1>1, SizeOfIsSum
<1> QED BY <1>1, <1>2, SizesAt

(* One more message adds its size.                                         *)
LEMMA SizeOfAppend ==
    ASSUME NEW file \in Seq(Msgs), NEW m \in Msgs
    PROVE  SizeOf(Append(file, m)) = SizeOf(file) + Size[m]
<1> DEFINE longer == Append(file, m)
           n == Len(file)
<1>1. /\ n \in Nat /\ Len(longer) = n + 1 /\ longer[n + 1] = m
      /\ \A i \in 1..n : file[i] = longer[i]
    BY AppendProperties, LenProperties
<1>2. n + 1 \in Nat /\ n <= n + 1 /\ n + 1 # 0 /\ n + 1 - 1 = n
      /\ n \in 0..n /\ n + 1 \in 0..(n + 1)
    BY <1>1
<1> HIDE DEF longer
<1>3. PICK g : Sizes(g, longer, n + 1) /\ SizeOf(longer) = g[n + 1]
    BY <1>1, <1>2, SizeOfIsSum
<1>4. PICK f : Sizes(f, file, n) /\ SizeOf(file) = f[n]
    BY <1>1, SizeOfIsSum
<1>5. f[n] = g[n]
    <2> HIDE DEF n
    <2>1. \A i \in 0..n : f[i] = g[i]
        BY <1>1, <1>2, <1>3, <1>4, SizesAgree
    <2> QED BY <1>2, <2>1
<1>6. g[n + 1] = IF n + 1 = 0 THEN 0 ELSE g[n + 1 - 1] + Size[longer[n + 1]]
    BY <1>2, <1>3, SizesAt
<1> QED BY <1>1, <1>2, <1>3, <1>4, <1>5, <1>6 DEF longer

-----------------------------------------------------------------------------
(* The inductive invariant.                                                *)

Loops   == {"idle", "announcing", "losing"}
Entries == [msg : Msgs, phase : Loops, connected : BOOLEAN]
Gifts   == [msg : Msgs, connection : Nat, from : {"live", "losing", "replay", "rewind"}]

RecorderTypeOK ==
    /\ recorderOn \in BOOLEAN /\ fileLimit \in Limits
    /\ files \in Seq(Seq(Msgs))
    /\ present \in BOOLEAN /\ stale \in BOOLEAN
    /\ bytes \in Nat /\ offset \in Int /\ position \in Nat
    /\ connected \in BOOLEAN /\ loop \in Loops /\ connections \in Nat
    /\ told \in Seq(Entries) /\ handed \in Seq(Gifts)

(* The recorder, and not the host, has the next message.                   *)
Recording == status = "ok" /\ (recorderOn \/ ~connected \/ loop = "losing")

(* The host that comes next is not there yet.                              *)
Waiting == status = "ok" /\ (~connected \/ loop = "losing")

(* What the state of the stream says of the files.                         *)
StreamInv ==
    /\ loop # "idle" => connected
    /\ status = "stopped" => stream = "closed" /\ (recorderOn \/ ~connected \/ loop = "losing")
    /\ Recording => stream = "open" /\ present /\ files # <<>>
    /\ status = "ok" /\ ~Recording => files = <<>> /\ stream = "closed"
    /\ status = "ok" /\ ~recorderOn => offset = 0 /\ position = 1 /\ Len(files) <= 1
    /\ status = "ok" /\ recorderOn =>
          position \in 1..Len(files) /\ offset \in 0..Len(files[position])

(* A sequence of messages already sent, in the order of sending.           *)
Told(m, t)      == \E k \in DOMAIN t : t[k].msg = m
Before(l, m, t) == \E i, j \in DOMAIN t : i < j /\ t[i].msg = l /\ t[j].msg = m
InTurn(s, t)    == /\ \A i \in 1..Len(s) : Told(s[i], t)
                   /\ \A i, j \in 1..Len(s) : i < j => Before(s[i], s[j], t)

ToldOnce == \A i, j \in DOMAIN told : told[i].msg = told[j].msg => i = j

(* The message is written to a file, this one or a fresh one.              *)
Kept(m) == m \notin LongHeaders /\ ~LimitReached(Size[m])

KeptSent ==
    FlattenSeq([k \in DOMAIN told |->
                   IF Kept(told[k].msg) THEN <<told[k].msg>> ELSE <<>>])

FilesHoldKept == recorderOn /\ status = "ok" => FlattenSeq(files) = KeptSent

(* What the files hold.                                                    *)
FilesInv ==
    /\ FilesWithinLimit
    /\ FilesHoldKept
    /\ status = "ok" /\ recorderOn => /\ bytes = SizeOf(Last(files))
                                      /\ InTurn(FlattenSeq(files), told)

(* What a position stands for: the messages from there to the end.         *)
From(fs, o, p) == IF o = 0
                  THEN FlattenSeq(fs)
                  ELSE SubSeq(fs[p], o + 1, Len(fs[p]))
                         \o FlattenSeq(SubSeq(fs, p + 1, Len(fs)))

(* No host had what the next one will get, or had it when it was lost.     *)
UnsentInv ==
    Waiting =>
        /\ InTurn(Unsent, told)
        /\ ~Rewinds =>
              \A k \in 1..Len(Unsent), i \in DOMAIN handed :
                  handed[i].msg = Unsent[k] => handed[i].from = "losing"

(* What the hosts had.                                                     *)
HandedInv ==
    /\ \A i \in DOMAIN handed :
          Told(handed[i].msg, told) /\ handed[i].connection <= connections
    /\ \A i, j \in DOMAIN handed :
          i < j /\ handed[i].connection = handed[j].connection
              => Before(handed[i].msg, handed[j].msg, told)
    /\ NoneHandedTwice

(* What a plugin sent while no host was there to take it.                  *)
Owed(i) == /\ ~told[i].connected \/ (recorderOn /\ told[i].phase = "losing")
           /\ Kept(told[i].msg)

(* It was given to a host, or the next one will get it.                    *)
OwedInv ==
    status = "ok" =>
        \A i \in DOMAIN told :
            Owed(i) => \/ GivenToLiveHost(told[i].msg)
                       \/ Waiting /\ \E k \in 1..Len(Unsent) : Unsent[k] = told[i].msg

RecorderInv ==
    /\ RecorderTypeOK
    /\ StreamInv
    /\ ToldOnce
    /\ FilesInv
    /\ UnsentInv
    /\ HandedInv
    /\ OwedInv

-----------------------------------------------------------------------------
(* What a position stands for, when the files grow.                        *)

LEMMA FromType ==
    ASSUME NEW fs \in Seq(Seq(Msgs)), NEW o \in Nat, NEW p \in 1..Len(fs), o <= Len(fs[p])
    PROVE  From(fs, o, p) \in Seq(Msgs)
<1>1. FlattenSeq(fs) \in Seq(Msgs)
    BY FlattenType
<1>2. fs[p] \in Seq(Msgs) /\ Len(fs[p]) \in Nat /\ Len(fs) \in Nat
    BY ElementOfSeq, LenProperties
<1>3. \A i \in (o + 1)..Len(fs[p]) : fs[p][i] \in Msgs
    <2>1. \A i \in 1..Len(fs[p]) : fs[p][i] \in Msgs
        BY <1>2, ElementOfSeq
    <2> QED BY <1>2, <2>1
<1>4. SubSeq(fs[p], o + 1, Len(fs[p])) \in Seq(Msgs)
    BY <1>2, <1>3, SubSeqProperties
<1>5. \A i \in (p + 1)..Len(fs) : fs[i] \in Seq(Msgs)
    <2>1. \A i \in 1..Len(fs) : fs[i] \in Seq(Msgs)
        BY ElementOfSeq
    <2> QED BY <1>2, <2>1
<1>6. SubSeq(fs, p + 1, Len(fs)) \in Seq(Seq(Msgs))
    BY <1>2, <1>5, SubSeqProperties
<1>7. FlattenSeq(SubSeq(fs, p + 1, Len(fs))) \in Seq(Msgs)
    BY <1>6, FlattenType
<1> QED BY <1>1, <1>4, <1>7, ConcatProperties DEF From

LEMMA ConcatMsgs ==
    ASSUME NEW a \in Seq(Msgs), NEW b \in Seq(Msgs), NEW c \in Seq(Msgs)
    PROVE  a \o (b \o c) = (a \o b) \o c
BY ConcatAssociative

(* A subsequence up to the end, when the sequence grows.                   *)
LEMMA SubSeqAppend ==
    ASSUME NEW S, NEW s \in Seq(S), NEW e \in S, NEW a \in 1..(Len(s) + 1)
    PROVE  SubSeq(Append(s, e), a, Len(s) + 1) = Append(SubSeq(s, a, Len(s)), e)
<1>1. Len(s) \in Nat
    BY LenProperties
<1>2. /\ Append(s, e) \in Seq(S) /\ Len(Append(s, e)) = Len(s) + 1
      /\ \A i \in 1..Len(s) : Append(s, e)[i] = s[i]
      /\ Append(s, e)[Len(s) + 1] = e
    BY AppendProperties
<1>3. /\ \A i \in a..Len(s) : s[i] \in S
      /\ \A i \in a..(Len(s) + 1) : Append(s, e)[i] \in S
    <2>1. \A i \in 1..Len(s) : s[i] \in S
        BY ElementOfSeq
    <2> QED BY <1>1, <1>2, <2>1
<1> DEFINE old == SubSeq(s, a, Len(s))
           new == SubSeq(Append(s, e), a, Len(s) + 1)
<1>4. /\ old \in Seq(S) /\ Len(old) = Len(s) - a + 1
      /\ \A i \in 1..(Len(s) - a + 1) : old[i] = s[a + i - 1]
    BY <1>1, <1>3, SubSeqProperties
<1>5. /\ new \in Seq(S) /\ Len(new) = Len(s) + 1 - a + 1
      /\ \A i \in 1..(Len(s) + 1 - a + 1) : new[i] = Append(s, e)[a + i - 1]
    BY <1>1, <1>3, SubSeqProperties
<1> HIDE DEF old, new
<1>6. /\ Append(old, e) \in Seq(S) /\ Len(Append(old, e)) = Len(old) + 1
      /\ \A i \in 1..Len(old) : Append(old, e)[i] = old[i]
      /\ Append(old, e)[Len(old) + 1] = e
    BY <1>4, AppendProperties
<1>7. ASSUME NEW i \in 1..Len(new)
      PROVE  new[i] = Append(old, e)[i]
    <2>1. CASE i \in 1..Len(old)
        <3>1. a + i - 1 \in 1..Len(s)
            BY <1>1, <1>4, <2>1
        <3>2. /\ new[i] = Append(s, e)[a + i - 1]
              /\ old[i] = s[a + i - 1]
              /\ Append(old, e)[i] = old[i]
            BY <1>1, <1>4, <1>5, <1>6, <2>1
        <3>3. Append(s, e)[a + i - 1] = s[a + i - 1]
            BY <1>2, <3>1
        <3> QED BY <3>2, <3>3
    <2>2. CASE i = Len(old) + 1
        <3>1. a + i - 1 = Len(s) + 1
            BY <1>1, <1>4, <2>2
        <3>2. new[i] = Append(s, e)[a + i - 1]
            BY <1>5
        <3>3. Append(old, e)[i] = e
            BY <1>6, <2>2
        <3>4. Append(s, e)[a + i - 1] = e
            BY <1>2, <3>1, Zenon
        <3> QED BY <3>2, <3>3, <3>4, Zenon
    <2>3. i \in 1..Len(old) \/ i = Len(old) + 1
        <3>1. Len(old) \in Nat /\ Len(new) = Len(old) + 1
            BY <1>1, <1>4, <1>5
        <3> QED BY <3>1
    <2> QED BY <2>1, <2>2, <2>3
<1>8. new = Append(old, e)
    <2>1. Len(new) = Len(Append(old, e))
        BY <1>1, <1>4, <1>5, <1>6
    <2> QED BY <1>5, <1>6, <1>7, <2>1, SeqEqual
<1> QED BY <1>8 DEF old, new

(* A file pushed.                                                          *)
LEMMA FromPush ==
    ASSUME NEW fs \in Seq(Seq(Msgs)), NEW o \in Nat, NEW p \in 1..Len(fs), o <= Len(fs[p]),
           NEW x \in Seq(Msgs)
    PROVE  From(Append(fs, x), o, p) = From(fs, o, p) \o x
<1>1. CASE o = 0
    BY <1>1, FlattenAppend DEF From
<1>2. CASE o # 0
    <2>1. /\ Append(fs, x)[p] = fs[p] /\ Len(Append(fs, x)) = Len(fs) + 1
          /\ Len(fs) \in Nat /\ p + 1 \in 1..(Len(fs) + 1)
        BY AppendProperties, LenProperties
    <2> DEFINE rest == SubSeq(fs, p + 1, Len(fs))
               begun == SubSeq(fs[p], o + 1, Len(fs[p]))
    <2>2. SubSeq(Append(fs, x), p + 1, Len(fs) + 1) = Append(rest, x)
        BY <2>1, SubSeqAppend
    <2>3. rest \in Seq(Seq(Msgs))
        <3>1. \A i \in 1..Len(fs) : fs[i] \in Seq(Msgs)
            BY ElementOfSeq
        <3>2. \A i \in (p + 1)..Len(fs) : fs[i] \in Seq(Msgs)
            BY <2>1, <3>1
        <3> QED BY <2>1, <3>2, SubSeqProperties
    <2>4. FlattenSeq(Append(rest, x)) = FlattenSeq(rest) \o x
        BY <2>3, FlattenAppend
    <2>5. begun \in Seq(Msgs)
        <3>1. fs[p] \in Seq(Msgs) /\ Len(fs[p]) \in Nat
            BY ElementOfSeq, LenProperties
        <3>2. \A i \in 1..Len(fs[p]) : fs[p][i] \in Msgs
            BY <3>1, ElementOfSeq
        <3>3. \A i \in (o + 1)..Len(fs[p]) : fs[p][i] \in Msgs
            BY <3>1, <3>2
        <3> QED BY <3>1, <3>3, SubSeqProperties
    <2>6. FlattenSeq(rest) \in Seq(Msgs)
        BY <2>3, FlattenType
    <2>7. From(fs, o, p) = begun \o FlattenSeq(rest)
        BY <1>2 DEF From
    <2>8. From(Append(fs, x), o, p) = begun \o FlattenSeq(Append(rest, x))
        BY <1>2, <2>1, <2>2 DEF From
    <2> HIDE DEF rest, begun
    <2>9. begun \o (FlattenSeq(rest) \o x) = (begun \o FlattenSeq(rest)) \o x
        BY <2>5, <2>6, ConcatMsgs
    <2> QED BY <2>4, <2>7, <2>8, <2>9
<1> QED BY <1>1, <1>2

(* A message added to the last file.                                       *)
LEMMA FromAddLast ==
    ASSUME NEW fs \in Seq(Seq(Msgs)), NEW o \in Nat, NEW p \in 1..Len(fs), o <= Len(fs[p]),
           NEW m \in Msgs
    PROVE  From(AddedLast(fs, m), o, p) = Append(From(fs, o, p), m)
<1>1. fs # <<>>
    BY EmptySeq
<1>2. CASE o = 0
    BY <1>1, <1>2, FlattenAddLast DEF From
<1> DEFINE u == Front(fs)
           x == Last(fs)
<1>3. /\ u \in Seq(Seq(Msgs)) /\ x \in Seq(Msgs)
      /\ fs = Append(u, x) /\ AddedLast(fs, m) = Append(u, Append(x, m))
    BY <1>1, AddLast
<1> HIDE DEF u, x
<1>4. Append(x, m) \in Seq(Msgs)
    BY <1>3, AppendProperties
<1>5. /\ Len(u) \in Nat /\ Len(fs) = Len(u) + 1 /\ Len(AddedLast(fs, m)) = Len(u) + 1
      /\ \A i \in 1..Len(u) : fs[i] = u[i]
      /\ fs[Len(u) + 1] = x /\ AddedLast(fs, m)[Len(u) + 1] = Append(x, m)
    BY <1>3, <1>4, AppendProperties, LenProperties
<1>6. CASE o # 0 /\ p \in 1..Len(u)
    <2>1. o <= Len(u[p])
        BY <1>5, <1>6
    <2>2. /\ From(fs, o, p) = From(u, o, p) \o x
          /\ From(AddedLast(fs, m), o, p) = From(u, o, p) \o Append(x, m)
        <3>1. \A y \in Seq(Msgs) : From(Append(u, y), o, p) = From(u, o, p) \o y
            BY <1>3, <1>6, <2>1, FromPush
        <3> QED BY <1>3, <1>4, <3>1
    <2>3. PICK v \in Seq(Msgs) : v = From(u, o, p)
        BY <1>3, <1>6, <2>1, FromType
    <2>4. v \o Append(x, m) = Append(v \o x, m)
        BY <1>3, <2>3, ConcatAppend
    <2> QED BY <2>2, <2>3, <2>4
<1>7. CASE o # 0 /\ p = Len(u) + 1
    <2>1. /\ Len(x) \in Nat /\ Len(Append(x, m)) = Len(x) + 1
          /\ o + 1 \in 1..(Len(x) + 1)
        BY <1>3, <1>5, <1>7, AppendProperties, LenProperties
    <2>2. SubSeq(Append(x, m), o + 1, Len(x) + 1) = Append(SubSeq(x, o + 1, Len(x)), m)
        BY <1>3, <2>1, SubSeqAppend
    <2>3. /\ SubSeq(fs, p + 1, Len(fs)) = <<>>
          /\ SubSeq(AddedLast(fs, m), p + 1, Len(AddedLast(fs, m))) = <<>>
        BY <1>5, <1>7, SubSeqEmpty
    <2>4. SubSeq(x, o + 1, Len(x)) \in Seq(Msgs)
        <3>1. \A i \in 1..Len(x) : x[i] \in Msgs
            BY <1>3, ElementOfSeq
        <3>2. \A i \in (o + 1)..Len(x) : x[i] \in Msgs
            BY <2>1, <3>1
        <3> QED BY <2>1, <3>2, SubSeqProperties
    <2>5. Append(SubSeq(x, o + 1, Len(x)), m) \in Seq(Msgs)
        BY <1>3, <2>4, AppendProperties
    <2>6. /\ From(fs, o, p) = SubSeq(x, o + 1, Len(x)) \o <<>>
          /\ From(AddedLast(fs, m), o, p) = Append(SubSeq(x, o + 1, Len(x)), m) \o <<>>
        BY <1>5, <1>7, <2>1, <2>2, <2>3, FlattenEmpty DEF From
    <2> QED BY <2>4, <2>5, <2>6, ConcatEmptySeq
<1> QED BY <1>2, <1>5, <1>6, <1>7

-----------------------------------------------------------------------------
(* The order of sending, when one more message is sent.                    *)

LEMMA ToldGrows ==
    ASSUME NEW t \in Seq(Entries), NEW e \in Entries
    PROVE  /\ Told(e.msg, Append(t, e))
           /\ \A m : Told(m, t) => Told(m, Append(t, e)) /\ Before(m, e.msg, Append(t, e))
           /\ \A m : Told(m, Append(t, e)) => Told(m, t) \/ m = e.msg
           /\ \A l, m : Before(l, m, t) => Before(l, m, Append(t, e))
<1> DEFINE u == Append(t, e)
           n == Len(t)
<1>1. /\ n \in Nat /\ DOMAIN t = 1..n /\ DOMAIN u = 1..(n + 1)
      /\ \A i \in 1..n : u[i] = t[i]
      /\ u[n + 1] = e
    <2>1. u \in Seq(Entries) /\ Len(u) = n + 1
        BY AppendProperties
    <2>2. DOMAIN u = 1..Len(u) /\ DOMAIN t = 1..n /\ n \in Nat
        BY <2>1, LenProperties
    <2> QED BY <2>1, <2>2, AppendProperties
<1> HIDE DEF u, n
<1>2. n + 1 \in DOMAIN u /\ \A k \in DOMAIN t : k \in DOMAIN u /\ k < n + 1 /\ u[k] = t[k]
    BY <1>1
<1>3. Told(e.msg, u)
    BY <1>1, <1>2 DEF Told
<1>4. ASSUME NEW m, Told(m, t)
      PROVE  Told(m, u) /\ Before(m, e.msg, u)
    <2>1. PICK k \in DOMAIN t : t[k].msg = m
        BY <1>4 DEF Told
    <2> QED BY <1>1, <1>2, <2>1 DEF Told, Before
<1>5. ASSUME NEW m, Told(m, u)
      PROVE  Told(m, t) \/ m = e.msg
    <2>1. PICK k \in DOMAIN u : u[k].msg = m
        BY <1>5 DEF Told
    <2>2. k \in DOMAIN t \/ k = n + 1
        BY <1>1
    <2> QED BY <1>1, <1>2, <2>1, <2>2 DEF Told
<1>6. ASSUME NEW l, NEW m, Before(l, m, t)
      PROVE  Before(l, m, u)
    <2>1. PICK i, j \in DOMAIN t : i < j /\ t[i].msg = l /\ t[j].msg = m
        BY <1>6 DEF Before
    <2> QED BY <1>2, <2>1 DEF Before
<1> QED BY <1>3, <1>4, <1>5, <1>6 DEF u

LEMMA InTurnGrows ==
    ASSUME NEW t \in Seq(Entries), NEW e \in Entries, NEW s \in Seq(Msgs), InTurn(s, t)
    PROVE  /\ InTurn(s, Append(t, e))
           /\ InTurn(Append(s, e.msg), Append(t, e))
<1> DEFINE u == Append(t, e)
           r == Append(s, e.msg)
<1>1. e.msg \in Msgs
    BY DEF Entries
<1>2. /\ Len(s) \in Nat /\ Len(r) = Len(s) + 1
      /\ \A i \in 1..Len(s) : r[i] = s[i]
      /\ r[Len(s) + 1] = e.msg
    BY <1>1, AppendProperties, LenProperties
<1>3. /\ Told(e.msg, u)
      /\ \A m : Told(m, t) => Told(m, u) /\ Before(m, e.msg, u)
      /\ \A l, m : Before(l, m, t) => Before(l, m, u)
    BY ToldGrows
<1> HIDE DEF u, r
<1>4. InTurn(s, u)
    BY <1>3 DEF InTurn
<1>5. ASSUME NEW i \in 1..Len(r)
      PROVE  Told(r[i], u)
    <2>1. i \in 1..Len(s) \/ i = Len(s) + 1
        BY <1>2
    <2> QED BY <1>2, <1>3, <2>1 DEF InTurn
<1>6. ASSUME NEW i \in 1..Len(r), NEW j \in 1..Len(r), i < j
      PROVE  Before(r[i], r[j], u)
    <2>1. i \in 1..Len(s) /\ (j \in 1..Len(s) \/ j = Len(s) + 1)
        BY <1>2, <1>6
    <2>2. CASE j \in 1..Len(s)
        BY <1>2, <1>3, <1>6, <2>1, <2>2 DEF InTurn
    <2>3. CASE j = Len(s) + 1
        <3>1. Told(s[i], t)
            BY <2>1 DEF InTurn
        <3> QED BY <1>2, <1>3, <2>1, <2>3, <3>1
    <2> QED BY <2>1, <2>2, <2>3
<1>7. InTurn(r, u)
    BY <1>5, <1>6 DEF InTurn
<1> QED BY <1>4, <1>7 DEF u, r

(* What a file that is asked to hold m holds of it.                        *)
Added(m) == IF Kept(m) THEN <<m>> ELSE <<>>

LEMMA AddedType ==
    ASSUME NEW m \in Msgs
    PROVE  /\ Added(m) \in Seq(Msgs)
           /\ m \notin LongHeaders => FreshFile(m) = Added(m)
           /\ \A s \in Seq(Msgs) :
                 s \o Added(m) = IF Kept(m) THEN Append(s, m) ELSE s
<1>1. Added(m) \in Seq(Msgs)
    BY DEF Added
<1>2. m \notin LongHeaders => FreshFile(m) = Added(m)
    BY DEF FreshFile, Added, Kept
<1>3. \A s \in Seq(Msgs) : s \o Added(m) = IF Kept(m) THEN Append(s, m) ELSE s
    BY AppendIsConcat, ConcatEmptySeq DEF Added
<1> QED BY <1>1, <1>2, <1>3

(* What the plugins sent, when one more message is sent.                   *)
SentOf(t) ==
    FlattenSeq([k \in DOMAIN t |-> IF Kept(t[k].msg) THEN <<t[k].msg>> ELSE <<>>])

LEMMA SentGrows ==
    ASSUME NEW t \in Seq(Entries), NEW e \in Entries
    PROVE  SentOf(Append(t, e)) = SentOf(t) \o Added(e.msg)
<1> DEFINE u == Append(t, e)
           each(s) == [k \in DOMAIN s |-> IF Kept(s[k].msg) THEN <<s[k].msg>> ELSE <<>>]
<1>1. /\ u \in Seq(Entries) /\ Len(u) = Len(t) + 1 /\ Len(t) \in Nat
      /\ DOMAIN u = 1..(Len(t) + 1) /\ DOMAIN t = 1..Len(t)
      /\ \A i \in 1..Len(t) : u[i] = t[i]
      /\ u[Len(t) + 1] = e
    <2>1. u \in Seq(Entries) /\ Len(u) = Len(t) + 1
        BY AppendProperties
    <2>2. DOMAIN u = 1..Len(u) /\ DOMAIN t = 1..Len(t) /\ Len(t) \in Nat
        BY <2>1, LenProperties
    <2> QED BY <2>1, <2>2, AppendProperties
<1>2. ASSUME NEW s \in Seq(Entries)
      PROVE  /\ each(s) \in Seq(Seq(Msgs)) /\ Len(each(s)) = Len(s)
             /\ \A i \in 1..Len(s) : each(s)[i] = Added(s[i].msg)
    <2>1. DOMAIN s = 1..Len(s) /\ Len(s) \in Nat
        BY LenProperties
    <2>2. \A i \in 1..Len(s) : s[i].msg \in Msgs
        <3>1. \A i \in 1..Len(s) : s[i] \in Entries
            BY ElementOfSeq
        <3>2. \A x \in Entries : x.msg \in Msgs
            BY DEF Entries
        <3> QED BY <3>1, <3>2
    <2>3. \A i \in 1..Len(s) : each(s)[i] = Added(s[i].msg) /\ Added(s[i].msg) \in Seq(Msgs)
        BY <2>1, <2>2, AddedType DEF Added
    <2>4. each(s) \in [1..Len(s) -> Seq(Msgs)]
        BY <2>1, <2>3
    <2>5. each(s) \in Seq(Seq(Msgs)) /\ Len(each(s)) = Len(s)
        <3> HIDE DEF each
        <3> QED BY <2>1, <2>4
    <2> QED BY <2>3, <2>5
<1>3. e.msg \in Msgs /\ Added(e.msg) \in Seq(Msgs)
    BY AddedType DEF Entries
<1>4. each(u) = Append(each(t), Added(e.msg))
    <2> HIDE DEF each, u
    <2>1. /\ each(u) \in Seq(Seq(Msgs)) /\ Len(each(u)) = Len(t) + 1
          /\ \A i \in 1..(Len(t) + 1) : each(u)[i] = Added(u[i].msg)
          /\ each(t) \in Seq(Seq(Msgs)) /\ Len(each(t)) = Len(t)
          /\ \A i \in 1..Len(t) : each(t)[i] = Added(t[i].msg)
        BY <1>1, <1>2
    <2>2. /\ Append(each(t), Added(e.msg)) \in Seq(Seq(Msgs))
          /\ Len(Append(each(t), Added(e.msg))) = Len(t) + 1
          /\ \A i \in 1..Len(t) : Append(each(t), Added(e.msg))[i] = each(t)[i]
          /\ Append(each(t), Added(e.msg))[Len(t) + 1] = Added(e.msg)
        <3> HIDE DEF each
        <3> QED BY <1>3, <2>1, AppendProperties
    <2>3. \A i \in 1..(Len(t) + 1) : each(u)[i] = Append(each(t), Added(e.msg))[i]
        <3> TAKE i \in 1..(Len(t) + 1)
        <3>1. CASE i = Len(t) + 1
            BY <1>1, <2>1, <2>2, <3>1
        <3>2. CASE i # Len(t) + 1
            <4>1. i \in 1..Len(t)
                BY <1>1, <3>2
            <4>2. u[i].msg = t[i].msg
                BY <1>1, <4>1
            <4> QED BY <2>1, <2>2, <4>1, <4>2
        <3> QED BY <3>1, <3>2
    <2> QED BY <2>1, <2>2, <2>3, SeqEqual
<1>5. each(t) \in Seq(Seq(Msgs))
    BY <1>2
<1>6. SentOf(u) = FlattenSeq(each(u)) /\ SentOf(t) = FlattenSeq(each(t))
    BY DEF SentOf
<1> HIDE DEF each, u
<1>7. FlattenSeq(each(u)) = FlattenSeq(each(t)) \o Added(e.msg)
    BY <1>3, <1>4, <1>5, FlattenAppend
<1> QED BY <1>6, <1>7 DEF u

-----------------------------------------------------------------------------
(* What recording one message does.                                        *)

LEMMA SizesOfMessages ==
    ASSUME NEW m \in Msgs
    PROVE  Size[m] \in Nat \ {0}
BY RecorderAssumption

(* Every number under the limit has only numbers under the limit below it. *)
LEMMA LimitMonotonic ==
    ASSUME RecorderTypeOK, NEW n \in Nat, NEW k \in Nat, k <= n, ~LimitReached(n)
    PROVE  ~LimitReached(k)
<1>1. fileLimit % LimitWrap \in Nat
    <2>1. fileLimit \in Nat /\ LimitWrap \in Nat \ {0}
        BY RecorderAssumption DEF RecorderTypeOK
    <2> QED BY <2>1
<1>2. fileLimit % LimitWrap <= k => fileLimit % LimitWrap <= n
    BY <1>1
<1> QED BY <1>1, <1>2 DEF LimitReached

LEMMA SizeOfType ==
    ASSUME NEW file \in Seq(Msgs)
    PROVE  SizeOf(file) \in Nat
<1> DEFINE T == {k \in Nat : \A s \in Seq(Msgs) : Len(s) = k => SizeOf(s) \in Nat}
<1>1. 0 \in T
    <2> SUFFICES ASSUME NEW s \in Seq(Msgs), Len(s) = 0
                 PROVE  SizeOf(s) \in Nat
        OBVIOUS
    <2>1. s = <<>>
        BY EmptySeq
    <2> QED BY <2>1, SizeOfEmpty
<1>2. ASSUME NEW k \in Nat, k \in T
      PROVE  k + 1 \in T
    <2> SUFFICES ASSUME NEW s \in Seq(Msgs), Len(s) = k + 1
                 PROVE  SizeOf(s) \in Nat
        OBVIOUS
    <2>1. s # <<>>
        BY EmptySeq
    <2>2. PICK u \in Seq(Msgs), m \in Msgs : s = Append(u, m)
        BY <2>1, SequenceEmptyOrAppend
    <2>3. Len(u) = k
        BY <2>2, AppendProperties, LenProperties
    <2>4. SizeOf(u) \in Nat
        BY <1>2, <2>3
    <2> QED BY <2>2, <2>4, SizeOfAppend, SizesOfMessages
<1>3. Nat \subseteq T
    <2> HIDE DEF T
    <2> QED BY <1>1, <1>2, Induction
<1> QED BY <1>3, LenProperties

(* The files are where the position points.                                *)
LEMMA PositionInFiles ==
    ASSUME RecorderTypeOK, StreamInv, Recording
    PROVE  /\ position \in 1..Len(files) /\ offset \in Nat /\ offset <= Len(files[position])
           /\ Len(files) \in Nat \ {0} /\ Len(files) \in 1..Len(files)
           /\ Last(files) \in Seq(Msgs)
           /\ Unsent = From(files, offset, position)
<1>1. Len(files) \in Nat \ {0} /\ Len(files) \in 1..Len(files)
    <2>1. files # <<>> /\ files \in Seq(Seq(Msgs))
        BY DEF RecorderTypeOK, StreamInv
    <2>2. Len(files) \in Nat \ {0}
        BY <2>1, EmptySeq
    <2> QED BY <2>2
<1>2. Last(files) \in Seq(Msgs)
    BY <1>1, ElementOfSeq DEF Last, RecorderTypeOK
<1>3. /\ position \in 1..Len(files) /\ offset \in Nat /\ offset <= Len(files[position])
    <2>1. CASE recorderOn
        <3>1. position \in 1..Len(files) /\ offset \in 0..Len(files[position])
            BY <2>1 DEF StreamInv, Recording
        <3>2. files[position] \in Seq(Msgs)
            BY <3>1, ElementOfSeq DEF RecorderTypeOK
        <3>3. Len(files[position]) \in Nat
            BY <3>2, LenProperties
        <3> QED BY <3>1, <3>3
    <2>2. CASE ~recorderOn
        <3>1. offset = 0 /\ position = 1
            BY <2>2 DEF StreamInv, Recording
        <3>2. files[1] \in Seq(Msgs)
            BY <1>1, ElementOfSeq DEF RecorderTypeOK
        <3>3. Len(files[1]) \in Nat
            BY <3>2, LenProperties
        <3> QED BY <1>1, <3>1, <3>3
    <2> QED BY <2>1, <2>2
<1> QED BY <1>1, <1>2, <1>3 DEF Unsent, From

(* A message goes to the files, if it is one to be kept.                   *)
LEMMA SendRecords ==
    ASSUME RecorderTypeOK, StreamInv, FilesInv, status = "ok", DispatchToRecorder,
           NEW m \in Msgs, SendMessage(m)
    PROVE  /\ files' \in Seq(Seq(Msgs)) /\ Len(files') \in Nat
           /\ Len(files) <= Len(files')
           /\ \A i \in 1..Len(files) : Len(files[i]) <= Len(files'[i])
           /\ ~recorderOn => Len(files') = Len(files)
           /\ FlattenSeq(files') = FlattenSeq(files) \o Added(m)
           /\ From(files', offset, position) = From(files, offset, position) \o Added(m)
           /\ bytes' \in Nat
           /\ \A i \in 1..Len(files') :
                 SizeOf(files'[i]) = 0 \/ ~LimitReached(SizeOf(files'[i]))
           /\ recorderOn => bytes' = SizeOf(files'[Len(files')])
<1>0. Recording
    BY DEF DispatchToRecorder, Recording
<1>1. /\ position \in 1..Len(files) /\ offset \in Nat /\ offset <= Len(files[position])
      /\ Len(files) \in Nat \ {0} /\ Len(files) \in 1..Len(files)
      /\ Last(files) \in Seq(Msgs)
    BY <1>0, PositionInFiles
<1>2. /\ files \in Seq(Seq(Msgs)) /\ files # <<>>
      /\ DOMAIN files = 1..Len(files)
      /\ bytes \in Nat /\ Size[m] \in Nat \ {0}
    <2>1. files \in Seq(Seq(Msgs)) /\ files # <<>> /\ bytes \in Nat
        BY <1>0 DEF RecorderTypeOK, StreamInv
    <2>2. DOMAIN files = 1..Len(files)
        BY <2>1, LenProperties
    <2> QED BY <2>1, <2>2, SizesOfMessages
<1>3. /\ RecordMessage(m) /\ stream = "open" /\ present
      /\ \A i \in 1..Len(files) : SizeOf(files[i]) = 0 \/ ~LimitReached(SizeOf(files[i]))
      /\ recorderOn => bytes = SizeOf(Last(files))
    BY <1>0, <1>2 DEF SendMessage, StreamInv, FilesInv, FilesWithinLimit
<1>4. FlattenSeq(files) \in Seq(Msgs) /\ From(files, offset, position) \in Seq(Msgs)
    BY <1>1, <1>2, FlattenType, FromType
<1>5. CASE /\ m \notin LongHeaders /\ Fits(m)
           /\ files' = AddedLast(files, m)
           /\ bytes' = bytes + Size[m]
    <2>1. bytes' \in Nat /\ Size[m] <= bytes + Size[m] /\ bytes + Size[m] \in Nat
        BY <1>2, <1>5
    <2>2. ~LimitReached(bytes + Size[m])
        BY <1>5 DEF Fits
    <2>3. Kept(m)
        BY <1>2, <1>5, <2>1, <2>2, LimitMonotonic DEF Kept
    <2>4. /\ FlattenSeq(files') = Append(FlattenSeq(files), m)
          /\ From(files', offset, position) = Append(From(files, offset, position), m)
        BY <1>1, <1>2, <1>5, FlattenAddLast, FromAddLast
    <2>5. /\ FlattenSeq(files') = FlattenSeq(files) \o Added(m)
          /\ From(files', offset, position) = From(files, offset, position) \o Added(m)
        BY <1>4, <2>3, <2>4, AddedType
    <2>6. Append(Last(files), m) \in Seq(Msgs) /\ Len(Append(Last(files), m)) = Len(Last(files)) + 1
        BY <1>1, AppendProperties
    <2>7. files' = [files EXCEPT ![Len(files)] = Append(Last(files), m)]
        BY <1>5 DEF AddedLast, Last
    <2>8. /\ files' \in Seq(Seq(Msgs)) /\ Len(files') = Len(files)
          /\ \A i \in 1..Len(files) :
                files'[i] = IF i = Len(files) THEN Append(Last(files), m) ELSE files[i]
        BY <1>1, <1>2, <2>6, <2>7, ExceptSeq
    <2>9. \A i \in 1..Len(files) : Len(files[i]) <= Len(files'[i])
        <3>1. \A i \in 1..Len(files) : files[i] \in Seq(Msgs)
            BY <1>2, ElementOfSeq
        <3>2. \A i \in 1..Len(files) : Len(files[i]) \in Nat
            BY <3>1, LenProperties
        <3> SUFFICES ASSUME NEW i \in 1..Len(files)
                     PROVE  Len(files[i]) <= Len(files'[i])
            OBVIOUS
        <3>3. CASE i = Len(files)
            <4>1. Len(files'[i]) = Len(files[i]) + 1
                BY <2>6, <2>8, <3>3 DEF Last
            <4> QED BY <3>2, <4>1
        <3>4. CASE i # Len(files)
            <4>1. files'[i] = files[i]
                BY <2>8, <3>4
            <4> QED BY <3>2, <4>1
        <3> QED BY <3>3, <3>4
    <2>10. SizeOf(Append(Last(files), m)) = SizeOf(Last(files)) + Size[m]
        BY <1>1, SizeOfAppend
    <2>11. recorderOn => bytes' = SizeOf(files'[Len(files')])
        BY <1>1, <1>3, <1>5, <2>8, <2>10
    <2>12. ~LimitReached(SizeOf(Append(Last(files), m)))
        BY <1>3, <2>2, <2>10 DEF LimitReached
    <2>13. \A i \in 1..Len(files') : SizeOf(files'[i]) = 0 \/ ~LimitReached(SizeOf(files'[i]))
        BY <1>3, <2>8, <2>12
    <2> QED BY <1>1, <2>1, <2>5, <2>8, <2>9, <2>11, <2>13
<1>6. CASE /\ m \notin LongHeaders /\ ~Fits(m)
           /\ files' = Append(files, FreshFile(m))
           /\ bytes' = BytesOnFreshFile(m)
    <2>1. recorderOn
        BY <1>6 DEF Fits, LimitReached
    <2>2. files' = Append(files, Added(m)) /\ Added(m) \in Seq(Msgs)
        BY <1>6, AddedType
    <2>3. /\ FlattenSeq(files') = FlattenSeq(files) \o Added(m)
          /\ From(files', offset, position) = From(files, offset, position) \o Added(m)
        BY <1>1, <1>2, <2>2, FlattenAppend, FromPush
    <2>4. /\ files' \in Seq(Seq(Msgs)) /\ Len(files') = Len(files) + 1
          /\ \A i \in 1..Len(files) : files'[i] = files[i]
          /\ files'[Len(files) + 1] = Added(m)
        BY <1>2, <2>2, AppendProperties
    <2>5. \A i \in 1..Len(files) : Len(files[i]) <= Len(files'[i])
        <3>1. \A i \in 1..Len(files) : files[i] \in Seq(Msgs)
            BY <1>2, ElementOfSeq
        <3>2. \A i \in 1..Len(files) : Len(files[i]) \in Nat
            BY <3>1, LenProperties
        <3>3. \A i \in 1..Len(files) : Len(files[i]) <= Len(files[i])
            BY <3>2
        <3> QED BY <2>4, <3>3
    <2>6. /\ SizeOf(Added(m)) = IF Kept(m) THEN Size[m] ELSE 0
          /\ bytes' = SizeOf(Added(m))
          /\ SizeOf(Added(m)) = 0 \/ ~LimitReached(SizeOf(Added(m)))
        <3>1. SizeOf(<<m>>) = Size[m]
            <4>1. <<>> \in Seq(Msgs) /\ <<m>> = Append(<<>>, m)
                OBVIOUS
            <4>2. SizeOf(Append(<<>>, m)) = SizeOf(<<>>) + Size[m]
                BY <4>1, SizeOfAppend
            <4> QED BY <1>2, <4>1, <4>2, SizeOfEmpty
        <3>2. SizeOf(Added(m)) = IF Kept(m) THEN Size[m] ELSE 0
            BY <3>1, SizeOfEmpty DEF Added
        <3>3. bytes' = IF Kept(m) THEN Size[m] ELSE 0
            BY <1>6 DEF BytesOnFreshFile, Kept
        <3> QED BY <1>6, <3>2, <3>3 DEF Kept
    <2>7. \A i \in 1..Len(files') : SizeOf(files'[i]) = 0 \/ ~LimitReached(SizeOf(files'[i]))
        <3>1. \A i \in 1..Len(files') : i \in 1..Len(files) \/ i = Len(files) + 1
            BY <1>1, <2>4
        <3> QED BY <1>3, <2>4, <2>6, <3>1
    <2>8. bytes' \in Nat
        BY <1>2, <2>6
    <2>9. bytes' = SizeOf(files'[Len(files')])
        BY <2>4, <2>6
    <2> QED BY <1>1, <2>1, <2>3, <2>4, <2>5, <2>7, <2>8, <2>9
<1>8. CASE m \in LongHeaders /\ UNCHANGED <<files, bytes>>
    <2>1. Added(m) = <<>>
        BY <1>8 DEF Added, Kept
    <2>2. /\ FlattenSeq(files) \o <<>> = FlattenSeq(files)
          /\ From(files, offset, position) \o <<>> = From(files, offset, position)
        BY <1>4, ConcatEmptySeq
    <2>3. \A i \in 1..Len(files) : Len(files[i]) <= Len(files[i])
        <3>1. \A i \in 1..Len(files) : files[i] \in Seq(Msgs)
            BY <1>2, ElementOfSeq
        <3>2. \A i \in 1..Len(files) : Len(files[i]) \in Nat
            BY <3>1, LenProperties
        <3> QED BY <3>2
    <2>4. From(files', offset, position) = From(files, offset, position)
        BY <1>8
    <2> QED BY <1>1, <1>2, <1>3, <1>8, <2>1, <2>2, <2>3, <2>4 DEF Last
<1>7. \/ /\ m \notin LongHeaders /\ Fits(m)
         /\ files' = [files EXCEPT ![Len(files)] = Append(@, m)]
         /\ bytes' = bytes + Size[m]
      \/ /\ m \notin LongHeaders /\ ~Fits(m)
         /\ files' = Append(files, FreshFile(m))
         /\ bytes' = BytesOnFreshFile(m)
      \/ m \in LongHeaders /\ UNCHANGED <<files, bytes>>
    BY <1>3 DEF RecordMessage, PushFile, fileVars
<1> QED BY <1>5, <1>6, <1>7, <1>8 DEF AddedLast

(* Otherwise the files stay as they are.                                   *)
LEMMA SendRecordsNot ==
    ASSUME StreamInv, status \in {"ok", "stopped"},
           ~(status = "ok" /\ DispatchToRecorder),
           NEW m \in Msgs, SendMessage(m)
    PROVE  UNCHANGED <<files, bytes>>
BY DEF SendMessage, RecordMessage, StreamInv, fileVars

-----------------------------------------------------------------------------
(* SendMessage preserves the invariant.                                    *)

Entry(m) == [msg |-> m, phase |-> loop, connected |-> connected]

LEMMA SendTells ==
    ASSUME RecorderTypeOK, ToldOnce, NEW m \in Msgs, SendMessage(m)
    PROVE  /\ Entry(m) \in Entries /\ Entry(m).msg = m
           /\ told' = Append(told, Entry(m)) /\ told' \in Seq(Entries)
           /\ Len(told) \in Nat /\ DOMAIN told = 1..Len(told) /\ DOMAIN told' = 1..(Len(told) + 1)
           /\ \A i \in 1..Len(told) : told'[i] = told[i]
           /\ told'[Len(told) + 1] = Entry(m)
           /\ ~Told(m, told)
           /\ ToldOnce'
<1>1. Entry(m) \in Entries /\ Entry(m).msg = m
    BY DEF Entry, Entries, RecorderTypeOK
<1>2. told' = Append(told, Entry(m)) /\ told \in Seq(Entries)
    BY DEF SendMessage, Entry, RecorderTypeOK
<1>3. /\ told' \in Seq(Entries) /\ Len(told') = Len(told) + 1 /\ Len(told) \in Nat
      /\ \A i \in 1..Len(told) : told'[i] = told[i]
      /\ told'[Len(told) + 1] = Entry(m)
    BY <1>1, <1>2, AppendProperties, LenProperties
<1>4. DOMAIN told = 1..Len(told) /\ DOMAIN told' = 1..(Len(told) + 1)
    BY <1>2, <1>3, LenProperties
<1>5. ~Told(m, told)
    BY DEF SendMessage, Told
<1>6. \A i \in 1..(Len(told) + 1) : i \in 1..Len(told) \/ i = Len(told) + 1
    BY <1>3
<1>7. ToldOnce'
    BY <1>1, <1>3, <1>4, <1>5, <1>6 DEF ToldOnce, Told
<1> QED BY <1>1, <1>2, <1>3, <1>4, <1>5, <1>7

LEMMA SendKeepsType ==
    ASSUME RecorderInv, status \in {"ok", "stopped"}, NEW m \in Msgs, SendMessage(m)
    PROVE  RecorderTypeOK'
<1>1. files' \in Seq(Seq(Msgs)) /\ bytes' \in Nat
    <2>1. CASE status = "ok" /\ DispatchToRecorder
        BY <2>1, SendRecords DEF RecorderInv
    <2>2. CASE ~(status = "ok" /\ DispatchToRecorder)
        BY <2>2, SendRecordsNot DEF RecorderInv, RecorderTypeOK
    <2> QED BY <2>1, <2>2
<1>2. told' \in Seq(Entries)
    BY SendTells DEF RecorderInv
<1>3. handed' \in Seq(Gifts)
    <2>1. Live(m) \in Gifts
        BY DEF Live, Gifts, RecorderInv, RecorderTypeOK
    <2> QED BY <2>1, AppendProperties DEF SendMessage, RecorderInv, RecorderTypeOK
<1>4. stale' \in BOOLEAN
    BY DEF SendMessage, RecordMessage, PushFile, fileVars, RecorderInv, RecorderTypeOK
<1> QED BY <1>1, <1>2, <1>3, <1>4
      DEF RecorderInv, RecorderTypeOK, SendMessage, configVars, positionVars, proxyVars

LEMMA SendKeepsStream ==
    ASSUME RecorderInv, status \in {"ok", "stopped"}, NEW m \in Msgs, SendMessage(m),
           status' = status
    PROVE  StreamInv'
<1>1. UNCHANGED <<recorderOn, fileLimit, stream, present, offset, position, connected, loop,
                  connections, status>>
    BY DEF SendMessage, configVars, positionVars, proxyVars
<1>2. CASE status = "ok" /\ DispatchToRecorder
    <2>1. Recording
        BY <1>2 DEF Recording, DispatchToRecorder
    <2>2. /\ position \in 1..Len(files) /\ offset \in Nat /\ offset <= Len(files[position])
          /\ Len(files) \in Nat \ {0}
        BY <2>1, PositionInFiles DEF RecorderInv
    <2>3. /\ files' \in Seq(Seq(Msgs)) /\ Len(files') \in Nat /\ Len(files) <= Len(files')
          /\ Len(files[position]) <= Len(files'[position])
          /\ ~recorderOn => Len(files') = Len(files)
        BY <1>2, <2>2, SendRecords DEF RecorderInv
    <2>4. position \in 1..Len(files')
        BY <2>2, <2>3
    <2>5. Len(files'[position]) \in Nat /\ Len(files[position]) \in Nat
        <3>1. files'[position] \in Seq(Msgs) /\ files[position] \in Seq(Msgs)
            BY <2>2, <2>3, <2>4, ElementOfSeq DEF RecorderInv, RecorderTypeOK
        <3> QED BY <3>1, LenProperties
    <2>6. offset \in 0..Len(files'[position])
        BY <2>2, <2>3, <2>5
    <2>7. files' # <<>>
        BY <2>2, <2>3, EmptySeq
    <2> QED BY <1>1, <1>2, <2>1, <2>3, <2>4, <2>6, <2>7 DEF RecorderInv, StreamInv, Recording
<1>3. CASE ~(status = "ok" /\ DispatchToRecorder)
    <2>1. UNCHANGED files
        BY <1>3, SendRecordsNot DEF RecorderInv
    <2> QED BY <1>1, <2>1 DEF RecorderInv, StreamInv, Recording
<1> QED BY <1>2, <1>3

(* The messages that are told stay told, in their order.                   *)
LEMMA SendKeepsTurns ==
    ASSUME RecorderTypeOK, ToldOnce, NEW m \in Msgs, SendMessage(m),
           NEW s \in Seq(Msgs), InTurn(s, told)
    PROVE  InTurn(s, told') /\ InTurn(s \o Added(m), told')
<1>1. Entry(m) \in Entries /\ Entry(m).msg = m /\ told' = Append(told, Entry(m))
    BY SendTells
<1>2. InTurn(s, told') /\ InTurn(Append(s, m), told')
    <2>1. told \in Seq(Entries)
        BY DEF RecorderTypeOK
    <2>2. InTurn(s, Append(told, Entry(m))) /\ InTurn(Append(s, Entry(m).msg), Append(told, Entry(m)))
        BY <1>1, <2>1, InTurnGrows
    <2> QED BY <1>1, <2>2
<1>3. s \o Added(m) = IF Kept(m) THEN Append(s, m) ELSE s
    BY AddedType
<1> QED BY <1>2, <1>3

LEMMA SendKeepsFiles ==
    ASSUME RecorderInv, status \in {"ok", "stopped"}, NEW m \in Msgs, SendMessage(m),
           status' = status
    PROVE  FilesInv'
<1> USE DEF RecorderInv
<1>1. UNCHANGED <<recorderOn, fileLimit, status>>
    BY DEF SendMessage, configVars
<1>2. RecorderTypeOK'
    BY SendKeepsType
<1>3. DOMAIN files = 1..Len(files) /\ DOMAIN files' = 1..Len(files')
    BY <1>2, LenProperties DEF RecorderTypeOK
<1>4. CASE status = "ok" /\ DispatchToRecorder
    <2>1. /\ FlattenSeq(files') = FlattenSeq(files) \o Added(m)
          /\ \A i \in 1..Len(files') :
                SizeOf(files'[i]) = 0 \/ ~LimitReached(SizeOf(files'[i]))
          /\ recorderOn => bytes' = SizeOf(files'[Len(files')])
        BY <1>4, SendRecords
    <2>2. FilesWithinLimit'
        BY <1>1, <1>3, <2>1 DEF FilesWithinLimit, LimitReached
    <2>3. FilesHoldKept'
        <3>1. KeptSent' = SentOf(told')
            BY <1>1 DEF KeptSent, SentOf, Kept, LimitReached
        <3>2. SentOf(told') = SentOf(told) \o Added(m)
            <4>1. Entry(m) \in Entries /\ Entry(m).msg = m /\ told' = Append(told, Entry(m))
                BY SendTells
            <4> QED BY <4>1, SentGrows DEF RecorderTypeOK
        <3>3. recorderOn => FlattenSeq(files) = SentOf(told)
            BY <1>4 DEF FilesInv, FilesHoldKept, KeptSent, SentOf
        <3> QED BY <1>1, <2>1, <3>1, <3>2, <3>3 DEF FilesHoldKept
    <2>4. recorderOn => InTurn(FlattenSeq(files'), told')
        <3>1. FlattenSeq(files) \in Seq(Msgs)
            BY FlattenType DEF RecorderTypeOK
        <3>2. recorderOn => InTurn(FlattenSeq(files), told)
            BY <1>4 DEF FilesInv
        <3>3. recorderOn => InTurn(FlattenSeq(files) \o Added(m), told')
            BY <3>1, <3>2, SendKeepsTurns
        <3> QED BY <2>1, <3>3
    <2> QED BY <1>1, <2>1, <2>2, <2>3, <2>4 DEF FilesInv, Last
<1>5. CASE ~(status = "ok" /\ DispatchToRecorder)
    <2>1. UNCHANGED <<files, bytes>>
        BY <1>5, SendRecordsNot
    <2>2. ~(status = "ok" /\ recorderOn)
        BY <1>5 DEF DispatchToRecorder
    <2>3. FilesWithinLimit'
        BY <1>1, <2>1 DEF FilesInv, FilesWithinLimit, LimitReached
    <2> QED BY <1>1, <2>2, <2>3 DEF FilesInv, FilesHoldKept
<1> QED BY <1>4, <1>5

(* After a header has overrun its buffer little is claimed.                *)
LEMMA SendOverruns ==
    ASSUME RecorderInv, status \in {"ok", "stopped"}, NEW m \in Msgs, SendMessage(m),
           status' # status
    PROVE  StreamInv' /\ FilesInv' /\ UnsentInv' /\ OwedInv'
<1> USE DEF RecorderInv
<1>1. UNCHANGED <<recorderOn, fileLimit, connected, loop>>
    BY DEF SendMessage, configVars, proxyVars
<1>2. status' = "overrun" /\ UNCHANGED files
    BY DEF SendMessage, RecordMessage, fileVars
<1>3. StreamInv'
    BY <1>1, <1>2 DEF StreamInv, Recording
<1>4. FilesInv'
    BY <1>1, <1>2 DEF FilesInv, FilesWithinLimit, FilesHoldKept, LimitReached
<1>5. UnsentInv' /\ OwedInv'
    BY <1>2 DEF UnsentInv, OwedInv, Waiting
<1> QED BY <1>3, <1>4, <1>5

(* What is not sent yet, when one more message is sent.                    *)
LEMMA SendUnsent ==
    ASSUME RecorderInv, status = "ok", NEW m \in Msgs, SendMessage(m), Recording
    PROVE  /\ Unsent \in Seq(Msgs)
           /\ Unsent' = IF DispatchToRecorder THEN Unsent \o Added(m) ELSE Unsent
<1> USE DEF RecorderInv
<1>1. /\ position \in 1..Len(files) /\ offset \in Nat /\ offset <= Len(files[position])
      /\ Unsent = From(files, offset, position)
    BY PositionInFiles
<1>2. Unsent \in Seq(Msgs)
    <2>1. files \in Seq(Seq(Msgs))
        BY DEF RecorderTypeOK
    <2> QED BY <1>1, <2>1, FromType
<1>3. Unsent' = From(files', offset, position)
    <2>1. UNCHANGED <<offset, position>>
        BY DEF SendMessage, positionVars
    <2> QED BY <2>1 DEF Unsent, From
<1>4. CASE DispatchToRecorder
    BY <1>1, <1>2, <1>3, <1>4, SendRecords
<1>5. CASE ~DispatchToRecorder
    BY <1>1, <1>2, <1>3, <1>5, SendRecordsNot
<1> QED BY <1>2, <1>4, <1>5

(* Only the message sent is new among the messages handed.                 *)
LEMMA SendHands ==
    ASSUME RecorderTypeOK, NEW m \in Msgs, SendMessage(m)
    PROVE  /\ Len(handed) \in Nat /\ DOMAIN handed = 1..Len(handed)
           /\ \/ /\ handed' = handed /\ ~connected
                 /\ DOMAIN handed' = 1..Len(handed)
              \/ /\ connected
                 /\ DOMAIN handed' = 1..(Len(handed) + 1)
                 /\ handed'[Len(handed) + 1] = Live(m)
           /\ \A i \in 1..Len(handed) : handed'[i] = handed[i]
<1>1. handed \in Seq(Gifts)
    BY DEF RecorderTypeOK
<1>2. Len(handed) \in Nat /\ DOMAIN handed = 1..Len(handed)
    BY <1>1, LenProperties
<1>3. CASE ~connected
    BY <1>2, <1>3 DEF SendMessage
<1>4. CASE connected
    <2>1. Live(m) \in Gifts
        BY DEF Live, Gifts, RecorderTypeOK
    <2>2. handed' = Append(handed, Live(m))
        BY <1>4 DEF SendMessage
    <2>3. /\ handed' \in Seq(Gifts) /\ Len(handed') = Len(handed) + 1
          /\ \A i \in 1..Len(handed) : handed'[i] = handed[i]
          /\ handed'[Len(handed) + 1] = Live(m)
        BY <1>1, <2>1, <2>2, AppendProperties
    <2>4. DOMAIN handed' = 1..Len(handed')
        BY <2>3, LenProperties
    <2> QED BY <1>2, <1>4, <2>3, <2>4
<1> QED BY <1>3, <1>4

LEMMA SendKeepsUnsent ==
    ASSUME RecorderInv, status \in {"ok", "stopped"}, NEW m \in Msgs, SendMessage(m),
           status' = status
    PROVE  UnsentInv'
<1> USE DEF RecorderInv
<1>1. UNCHANGED <<recorderOn, offset, position, connected, loop, status>>
    BY DEF SendMessage, configVars, positionVars, proxyVars
<1>2. SUFFICES ASSUME Waiting
               PROVE  /\ InTurn(Unsent', told')
                      /\ ~Rewinds =>
                            \A k \in 1..Len(Unsent'), i \in DOMAIN handed' :
                                handed'[i].msg = Unsent'[k] => handed'[i].from = "losing"
    BY <1>1 DEF UnsentInv, Waiting, Rewinds
<1>3. Recording /\ status = "ok"
    BY <1>2 DEF Waiting, Recording
<1>4. /\ Unsent \in Seq(Msgs)
      /\ Unsent' = Unsent \/ Unsent' = Unsent \o Added(m)
    BY <1>3, SendUnsent
<1>5. InTurn(Unsent, told)
    BY <1>2 DEF UnsentInv
<1>6. InTurn(Unsent', told')
    BY <1>4, <1>5, SendKeepsTurns
<1>7. ASSUME ~Rewinds, NEW k \in 1..Len(Unsent'), NEW i \in DOMAIN handed',
             handed'[i].msg = Unsent'[k]
      PROVE  handed'[i].from = "losing"
    <2>1. \/ k \in 1..Len(Unsent) /\ Unsent'[k] = Unsent[k]
          \/ Unsent'[k] = m
        <3>1. /\ Len(Unsent) \in Nat
              /\ \A j \in 1..Len(Unsent) : Append(Unsent, m)[j] = Unsent[j]
              /\ Len(Append(Unsent, m)) = Len(Unsent) + 1
              /\ Append(Unsent, m)[Len(Unsent) + 1] = m
            BY <1>4, AppendProperties, LenProperties
        <3>2. Unsent' = Unsent \/ Unsent' = Append(Unsent, m)
            BY <1>4, AddedType
        <3> HIDE DEF Unsent
        <3>3. CASE Unsent' = Unsent
            BY <1>7, <3>3
        <3>4. CASE Unsent' = Append(Unsent, m)
            <4>1. k \in 1..(Len(Unsent) + 1)
                BY <1>7, <3>1, <3>4
            <4>2. k \in 1..Len(Unsent) \/ k = Len(Unsent) + 1
                BY <3>1, <4>1
            <4> QED BY <3>1, <3>4, <4>2
        <3> QED BY <3>2, <3>3, <3>4
    <2>2. CASE i \in 1..Len(handed)
        <3>1. handed'[i] = handed[i] /\ i \in DOMAIN handed
            BY <2>2, SendHands
        <3>2. Told(handed[i].msg, told) /\ ~Told(m, told)
            BY <3>1, SendTells DEF HandedInv
        <3>3. k \in 1..Len(Unsent) /\ handed[i].msg = Unsent[k]
            BY <1>7, <2>1, <3>1, <3>2
        <3> QED BY <1>2, <1>7, <3>1, <3>3 DEF UnsentInv
    <2>3. CASE i \notin 1..Len(handed)
        <3>1. connected /\ handed'[i] = Live(m)
            BY <1>7, <2>3, SendHands
        <3>2. loop = "losing"
            BY <1>2, <3>1 DEF Waiting
        <3> QED BY <3>1, <3>2 DEF Live
    <2> QED BY <2>2, <2>3
<1> QED BY <1>6, <1>7

LEMMA SendKeepsHanded ==
    ASSUME RecorderInv, status \in {"ok", "stopped"}, NEW m \in Msgs, SendMessage(m)
    PROVE  HandedInv'
<1> USE DEF RecorderInv
<1>1. UNCHANGED connections
    BY DEF SendMessage, proxyVars
<1>2. /\ Told(m, told') /\ ~Told(m, told)
      /\ \A l : Told(l, told) => Told(l, told') /\ Before(l, m, told')
      /\ \A k, l : Before(k, l, told) => Before(k, l, told')
    <2>1. Entry(m) \in Entries /\ Entry(m).msg = m /\ told' = Append(told, Entry(m))
        BY SendTells
    <2>2. told \in Seq(Entries) /\ ~Told(m, told)
        BY SendTells DEF RecorderTypeOK
    <2> QED BY <2>1, <2>2, ToldGrows
<1>3. /\ Len(handed) \in Nat /\ DOMAIN handed = 1..Len(handed)
      /\ \A i \in 1..Len(handed) : handed'[i] = handed[i]
      /\ DOMAIN handed' = 1..Len(handed)
         \/ /\ DOMAIN handed' = 1..(Len(handed) + 1)
            /\ handed'[Len(handed) + 1] = Live(m)
    BY SendHands
<1>4. Live(m).msg = m /\ Live(m).connection = connections
    BY DEF Live
<1>5. connections \in Nat /\ connections <= connections
    BY DEF RecorderTypeOK
<1>6. ASSUME NEW i \in DOMAIN handed'
      PROVE  \/ i \in DOMAIN handed /\ handed'[i] = handed[i]
             \/ i = Len(handed) + 1 /\ handed'[i] = Live(m)
    BY <1>3, <1>6
<1>7. ASSUME NEW i \in DOMAIN handed'
      PROVE  Told(handed'[i].msg, told') /\ handed'[i].connection <= connections'
    BY <1>1, <1>2, <1>4, <1>5, <1>6, <1>7 DEF HandedInv
<1>8. ASSUME NEW i \in DOMAIN handed', NEW j \in DOMAIN handed', i < j
      PROVE  /\ i \in DOMAIN handed /\ handed'[i] = handed[i]
             /\ \/ j \in DOMAIN handed /\ handed'[j] = handed[j]
                \/ handed'[j].msg = m
    BY <1>3, <1>4, <1>6, <1>8
<1>9. ASSUME NEW i \in DOMAIN handed', NEW j \in DOMAIN handed', i < j,
             handed'[i].connection = handed'[j].connection
      PROVE  Before(handed'[i].msg, handed'[j].msg, told')
    BY <1>2, <1>8, <1>9 DEF HandedInv
<1>10. ASSUME NEW i \in DOMAIN handed', NEW j \in DOMAIN handed', i < j,
              handed'[i].msg = handed'[j].msg
       PROVE  handed'[i].from = "losing" \/ handed'[j].from = "rewind"
    BY <1>2, <1>8, <1>10 DEF HandedInv, NoneHandedTwice
<1> QED BY <1>7, <1>9, <1>10 DEF HandedInv, NoneHandedTwice

LEMMA SendKeepsOwed ==
    ASSUME RecorderInv, status \in {"ok", "stopped"}, NEW m \in Msgs, SendMessage(m),
           status' = status
    PROVE  OwedInv'
<1> USE DEF RecorderInv
<1>1. UNCHANGED <<recorderOn, fileLimit, connected, loop, status>>
    BY DEF SendMessage, configVars, proxyVars
<1>2. SUFFICES ASSUME status = "ok", NEW i \in DOMAIN told', Owed(i)'
               PROVE  \/ \E j \in DOMAIN handed' :
                             handed'[j].msg = told'[i].msg /\ handed'[j].from # "losing"
                      \/ Waiting /\ \E k \in 1..Len(Unsent') : Unsent'[k] = told'[i].msg
    BY <1>1 DEF OwedInv, Waiting, GivenToLiveHost
<1>3. status = "ok" /\ i \in DOMAIN told' /\ Owed(i)'
    BY <1>2
<1>4. /\ Len(told) \in Nat /\ DOMAIN told = 1..Len(told) /\ DOMAIN told' = 1..(Len(told) + 1)
      /\ \A j \in 1..Len(told) : told'[j] = told[j]
      /\ told'[Len(told) + 1] = Entry(m)
    BY SendTells
<1>6. Owed(i)' <=> /\ ~told'[i].connected \/ (recorderOn /\ told'[i].phase = "losing")
                   /\ Kept(told'[i].msg)
    BY <1>1 DEF Owed, Kept, LimitReached
<1>7. CASE i \in 1..Len(told)
    <2>1. i \in DOMAIN told /\ told'[i] = told[i] /\ Owed(i)
        BY <1>3, <1>4, <1>6, <1>7 DEF Owed
    <2>2. CASE GivenToLiveHost(told[i].msg)
        <3>1. PICK j \in DOMAIN handed : handed[j].msg = told[i].msg /\ handed[j].from # "losing"
            BY <2>2 DEF GivenToLiveHost
        <3>2. j \in DOMAIN handed' /\ handed'[j] = handed[j]
            BY SendHands
        <3> QED BY <2>1, <3>1, <3>2
    <2>3. CASE Waiting /\ \E k \in 1..Len(Unsent) : Unsent[k] = told[i].msg
        <3>1. PICK k \in 1..Len(Unsent) : Unsent[k] = told[i].msg
            BY <2>3
        <3>2. Unsent \in Seq(Msgs) /\ (Unsent' = Unsent \/ Unsent' = Append(Unsent, m))
            <4>1. Recording
                BY <2>3 DEF Waiting, Recording
            <4> QED BY <1>3, <4>1, SendUnsent, AddedType
        <3> HIDE DEF Unsent
        <3>3. k \in 1..Len(Unsent') /\ Unsent'[k] = Unsent[k]
            <4>1. Len(Unsent) \in Nat
                BY <3>2, LenProperties
            <4>2. /\ Len(Append(Unsent, m)) = Len(Unsent) + 1
                  /\ Append(Unsent, m)[k] = Unsent[k]
                BY <3>1, <3>2, AppendProperties
            <4> QED BY <3>1, <3>2, <4>1, <4>2
        <3> QED BY <2>1, <2>3, <3>1, <3>3
    <2> QED BY <1>3, <2>1, <2>2, <2>3 DEF OwedInv
<1>8. CASE i = Len(told) + 1
    <2>1. /\ told'[i].msg = m /\ Kept(m)
          /\ ~connected \/ (recorderOn /\ loop = "losing")
        BY <1>3, <1>4, <1>6, <1>8 DEF Entry
    <2>2. Waiting /\ Recording /\ DispatchToRecorder
        BY <1>3, <2>1 DEF Waiting, Recording, DispatchToRecorder
    <2>3. Unsent \in Seq(Msgs) /\ Unsent' = Append(Unsent, m)
        BY <1>3, <2>1, <2>2, SendUnsent, AddedType
    <2> HIDE DEF Unsent
    <2>4. Len(Unsent) + 1 \in 1..Len(Unsent') /\ Unsent'[Len(Unsent) + 1] = m
        BY <2>3, AppendProperties, LenProperties
    <2> QED BY <2>1, <2>2, <2>4
<1>9. i \in 1..Len(told) \/ i = Len(told) + 1
    BY <1>3, <1>4
<1> QED BY <1>7, <1>8, <1>9

-----------------------------------------------------------------------------
(* OnHostConnectionEstablished preserves the invariant.                    *)

(* What the replay adds to the messages handed.                            *)
LEMMA ReplayHands ==
    ASSUME RecorderTypeOK, Unsent \in Seq(Msgs), Replay
    PROVE  /\ handed' \in Seq(Gifts)
           /\ Len(handed) \in Nat /\ DOMAIN handed = 1..Len(handed)
           /\ Len(Unsent) \in Nat
           /\ DOMAIN handed' = 1..(Len(handed) + Len(Unsent))
           /\ \A i \in 1..Len(handed) : handed'[i] = handed[i]
           /\ \A k \in 1..Len(Unsent) : handed'[Len(handed) + k] = Replayed(Unsent[k])
<1> DEFINE replay == [i \in DOMAIN Unsent |-> Replayed(Unsent[i])]
<1>1. handed \in Seq(Gifts) /\ Len(handed) \in Nat /\ DOMAIN handed = 1..Len(handed)
    BY LenProperties DEF RecorderTypeOK
<1>2. Len(Unsent) \in Nat /\ DOMAIN Unsent = 1..Len(Unsent)
    <2> HIDE DEF Unsent
    <2> QED BY LenProperties
<1>3. /\ replay \in Seq(Gifts) /\ Len(replay) = Len(Unsent)
      /\ \A k \in 1..Len(Unsent) : replay[k] = Replayed(Unsent[k])
    <2>1. \A m \in Msgs : Replayed(m) \in Gifts
        BY DEF Replayed, Gifts, RecorderTypeOK
    <2>2. \A k \in 1..Len(Unsent) : Unsent[k] \in Msgs
        <3> HIDE DEF Unsent
        <3> QED BY ElementOfSeq
    <2> HIDE DEF Unsent
    <2>3. replay \in [1..Len(Unsent) -> Gifts]
        BY <1>2, <2>1, <2>2
    <2>4. replay \in Seq(Gifts) /\ Len(replay) = Len(Unsent)
        <3> HIDE DEF replay
        <3> QED BY <1>2, <2>3
    <2> QED BY <1>2, <2>4
<1>4. handed' = handed \o replay
    BY DEF Replay
<1> HIDE DEF replay, Unsent
<1>5. /\ handed' \in Seq(Gifts) /\ Len(handed') = Len(handed) + Len(Unsent)
      /\ \A i \in 1..(Len(handed) + Len(Unsent)) :
            handed'[i] = IF i <= Len(handed) THEN handed[i] ELSE replay[i - Len(handed)]
    <2>1. /\ handed \o replay \in Seq(Gifts)
          /\ Len(handed \o replay) = Len(handed) + Len(replay)
          /\ \A i \in 1..(Len(handed) + Len(replay)) :
                (handed \o replay)[i] = IF i <= Len(handed) THEN handed[i]
                                        ELSE replay[i - Len(handed)]
        BY <1>1, <1>3, ConcatProperties
    <2> QED BY <1>3, <1>4, <2>1, Zenon
<1>6. DOMAIN handed' = 1..(Len(handed) + Len(Unsent))
    BY <1>5, LenProperties
<1>7. \A i \in 1..Len(handed) : handed'[i] = handed[i]
    <2>1. \A i \in 1..Len(handed) : i \in 1..(Len(handed) + Len(Unsent)) /\ i <= Len(handed)
        BY <1>1, <1>2
    <2> QED BY <1>5, <2>1
<1>8. ASSUME NEW k \in 1..Len(Unsent)
      PROVE  handed'[Len(handed) + k] = Replayed(Unsent[k])
    <2>1. /\ Len(handed) + k \in 1..(Len(handed) + Len(Unsent))
          /\ ~(Len(handed) + k <= Len(handed)) /\ Len(handed) + k - Len(handed) = k
        BY <1>1, <1>2
    <2>2. handed'[Len(handed) + k] = replay[Len(handed) + k - Len(handed)]
        BY <1>5, <2>1
    <2> QED BY <1>3, <2>1, <2>2
<1> QED BY <1>1, <1>2, <1>5, <1>6, <1>7, <1>8

(* A host is told nothing: the recorder failed.                            *)
LEMMA EstablishedFails ==
    ASSUME RecorderInv, OnHostConnectionEstablished, status' \in {"failed", "undefined"},
           UNCHANGED <<fileVars, streamVars, handed>>
    PROVE  RecorderInv'
<1> USE DEF RecorderInv
<1>1. /\ UNCHANGED <<recorderOn, fileLimit, files, stale, stream, present, bytes, offset,
                     position, told, handed>>
      /\ connected' = TRUE /\ connections' = connections + 1 /\ loop' = "announcing"
    BY DEF OnHostConnectionEstablished, configVars, positionVars, fileVars, streamVars
<1>2. RecorderTypeOK'
    BY <1>1 DEF RecorderTypeOK, Loops
<1>3. StreamInv'
    BY <1>1 DEF StreamInv, Recording
<1>4. ToldOnce' /\ UnsentInv' /\ OwedInv'
    BY <1>1 DEF ToldOnce, UnsentInv, OwedInv, Waiting
<1>5. FilesInv'
    BY <1>1 DEF FilesInv, FilesWithinLimit, FilesHoldKept, LimitReached
<1>6. HandedInv'
    <2>1. \A i \in DOMAIN handed : handed[i].connection <= connections + 1
        <3>1. \A i \in DOMAIN handed : handed[i].connection \in Nat
            <4>1. DOMAIN handed = 1..Len(handed)
                BY LenProperties DEF RecorderTypeOK
            <4>2. \A i \in DOMAIN handed : handed[i] \in Gifts
                BY <4>1, ElementOfSeq DEF RecorderTypeOK
            <4>3. \A g \in Gifts : g.connection \in Nat
                BY DEF Gifts
            <4> QED BY <4>2, <4>3
        <3> QED BY <3>1 DEF HandedInv, RecorderTypeOK
    <2> QED BY <1>1, <2>1 DEF HandedInv, NoneHandedTwice
<1> QED BY <1>2, <1>3, <1>4, <1>5, <1>6

(* A host gets what is not sent yet.                                       *)
LEMMA EstablishedReplays ==
    ASSUME RecorderInv, OnHostConnectionEstablished, status \in {"ok", "stopped"},
           stream = "open", Replay, UNCHANGED <<capacity, stale, status>>,
           IF recorderOn THEN UNCHANGED <<files, streamVars>>
           ELSE /\ files' = BufferErased
                /\ stream' = "closed"
                /\ present' = FALSE
                /\ bytes' = 0
    PROVE  RecorderInv'
<1> USE DEF RecorderInv
<1>1. /\ UNCHANGED <<recorderOn, fileLimit, stale, offset, position, told, status>>
      /\ ~connected /\ connected' = TRUE /\ connections' = connections + 1
      /\ loop' = "announcing"
    BY DEF OnHostConnectionEstablished, configVars, positionVars
<1>2. status = "ok" /\ Waiting /\ Recording
    BY <1>1 DEF StreamInv, Waiting, Recording
<1>3. /\ Unsent \in Seq(Msgs)
      /\ InTurn(Unsent, told)
      /\ ~Rewinds =>
            \A k \in 1..Len(Unsent), i \in DOMAIN handed :
                handed[i].msg = Unsent[k] => handed[i].from = "losing"
    <2>1. Unsent \in Seq(Msgs)
        <3>1. /\ position \in 1..Len(files) /\ offset \in Nat /\ offset <= Len(files[position])
              /\ Unsent = From(files, offset, position)
            BY <1>2, PositionInFiles
        <3>2. files \in Seq(Seq(Msgs))
            BY DEF RecorderTypeOK
        <3> QED BY <3>1, <3>2, FromType
    <2> QED BY <1>2, <2>1 DEF UnsentInv
<1>4. /\ handed' \in Seq(Gifts)
      /\ Len(handed) \in Nat /\ DOMAIN handed = 1..Len(handed)
      /\ Len(Unsent) \in Nat
      /\ DOMAIN handed' = 1..(Len(handed) + Len(Unsent))
      /\ \A i \in 1..Len(handed) : handed'[i] = handed[i]
      /\ \A k \in 1..Len(Unsent) : handed'[Len(handed) + k] = Replayed(Unsent[k])
    BY <1>3, ReplayHands
<1>5. /\ recorderOn => UNCHANGED <<files, stream, present, bytes>>
      /\ ~recorderOn => files' = <<>> /\ stream' = "closed" /\ present' = FALSE /\ bytes' = 0
    <2>1. ASSUME ~recorderOn
          PROVE  files' = <<>>
        <3>1. Len(files) = 1
            <4>1. Len(files) <= 1
                BY <1>2, <2>1 DEF StreamInv
            <4>2. Len(files) \in Nat \ {0}
                BY <1>2, PositionInFiles
            <4>3. \A n \in Nat \ {0} : n <= 1 => n = 1
                OBVIOUS
            <4> QED BY <4>1, <4>2, <4>3, Zenon
        <3>2. files' = SubSeq(files, 1, 0)
            BY <2>1, <3>1 DEF BufferErased, Front
        <3> QED BY <3>2, SubSeqEmpty
    <2> QED BY <2>1 DEF streamVars
<1> HIDE DEF Unsent
<1>6. RecorderTypeOK'
    <2>1. files' \in Seq(Seq(Msgs)) /\ present' \in BOOLEAN /\ bytes' \in Nat
        <3>1. <<>> \in Seq(Seq(Msgs)) /\ 0 \in Nat
            BY EmptySeq
        <3>2. files \in Seq(Seq(Msgs)) /\ present \in BOOLEAN /\ bytes \in Nat
            BY DEF RecorderTypeOK
        <3> QED BY <1>5, <3>1, <3>2
    <2> QED BY <1>1, <1>4, <2>1 DEF RecorderTypeOK, Loops
<1>7. StreamInv'
    <2>1. CASE recorderOn
        BY <1>1, <1>2, <1>5, <2>1 DEF StreamInv, Recording
    <2>2. CASE ~recorderOn
        <3>1. Len(files') <= 1
            BY <1>5, <2>2
        <3> QED BY <1>1, <1>2, <1>5, <2>2, <3>1 DEF StreamInv, Recording
    <2> QED BY <2>1, <2>2
<1>8. FilesInv'
    <2>1. CASE recorderOn
        <3>1. KeptSent' = KeptSent
            BY <1>1 DEF KeptSent, Kept, LimitReached
        <3> QED BY <1>1, <1>5, <2>1, <3>1 DEF FilesInv, FilesWithinLimit, FilesHoldKept, LimitReached
    <2>2. CASE ~recorderOn
        BY <1>1, <2>2 DEF FilesInv, FilesWithinLimit, FilesHoldKept, LimitReached
    <2> QED BY <2>1, <2>2
<1>9. ToldOnce' /\ UnsentInv'
    BY <1>1 DEF ToldOnce, UnsentInv, Waiting
<1>10. \A i \in DOMAIN handed' :
           \/ i \in DOMAIN handed /\ handed'[i] = handed[i]
           \/ \E k \in 1..Len(Unsent) : i = Len(handed) + k /\ handed'[i] = Replayed(Unsent[k])
    <2> SUFFICES ASSUME NEW i \in DOMAIN handed', i \notin DOMAIN handed
                 PROVE  \E k \in 1..Len(Unsent) :
                            i = Len(handed) + k /\ handed'[i] = Replayed(Unsent[k])
        BY <1>4
    <2>1. i - Len(handed) \in 1..Len(Unsent) /\ i = Len(handed) + (i - Len(handed))
        BY <1>4
    <2> QED BY <1>4, <2>1
<1>11. \A m : /\ Replayed(m).msg = m
              /\ Replayed(m).connection = connections + 1
              /\ Replayed(m).from = IF Rewinds THEN "rewind" ELSE "replay"
    BY DEF Replayed
<1>12. \A i \in DOMAIN handed : handed[i].connection \in Nat /\ handed[i].connection <= connections
    <2>1. \A i \in DOMAIN handed : handed[i] \in Gifts
        BY <1>4, ElementOfSeq DEF RecorderTypeOK
    <2>2. \A g \in Gifts : g.connection \in Nat
        BY DEF Gifts
    <2> QED BY <2>1, <2>2 DEF HandedInv
<1>13. connections \in Nat
    BY DEF RecorderTypeOK
<1>14. HandedInv'
    <2>1. ASSUME NEW i \in DOMAIN handed'
          PROVE  Told(handed'[i].msg, told) /\ handed'[i].connection <= connections + 1
        <3>1. CASE i \in DOMAIN handed /\ handed'[i] = handed[i]
            BY <1>12, <1>13, <3>1 DEF HandedInv
        <3>2. CASE \E k \in 1..Len(Unsent) : handed'[i] = Replayed(Unsent[k])
            BY <1>3, <1>11, <1>13, <3>2 DEF InTurn
        <3> QED BY <1>10, <3>1, <3>2
    <2>2. ASSUME NEW i \in DOMAIN handed', NEW j \in DOMAIN handed', i < j
          PROVE  /\ handed'[i].connection = handed'[j].connection
                       => Before(handed'[i].msg, handed'[j].msg, told)
                 /\ handed'[i].msg = handed'[j].msg
                       => handed'[i].from = "losing" \/ handed'[j].from = "rewind"
        <3>1. CASE j \in DOMAIN handed
            <4>1. i \in DOMAIN handed /\ handed'[i] = handed[i] /\ handed'[j] = handed[j]
                BY <1>4, <2>2, <3>1
            <4> QED BY <2>2, <3>1, <4>1 DEF HandedInv, NoneHandedTwice
        <3>2. CASE j \notin DOMAIN handed
            <4>1. PICK k \in 1..Len(Unsent) :
                           j = Len(handed) + k /\ handed'[j] = Replayed(Unsent[k])
                BY <1>10, <3>2
            <4>2. CASE i \in DOMAIN handed
                <5>1. handed'[i] = handed[i]
                    BY <1>4, <4>2
                <5>2. handed'[i].connection # handed'[j].connection
                    BY <1>11, <1>12, <1>13, <4>1, <4>2, <5>1
                <5>3. handed'[i].msg = handed'[j].msg
                         => handed'[i].from = "losing" \/ handed'[j].from = "rewind"
                    BY <1>3, <1>11, <4>1, <4>2, <5>1
                <5> QED BY <5>2, <5>3
            <4>3. CASE i \notin DOMAIN handed
                <5>1. PICK l \in 1..Len(Unsent) :
                               i = Len(handed) + l /\ handed'[i] = Replayed(Unsent[l])
                    BY <1>10, <4>3
                <5>2. l < k
                    BY <1>4, <2>2, <4>1, <5>1
                <5>3. Before(Unsent[l], Unsent[k], told)
                    BY <1>3, <5>2 DEF InTurn
                <5>4. Unsent[l] # Unsent[k]
                    <6>1. PICK a, b \in DOMAIN told :
                                   a < b /\ told[a].msg = Unsent[l] /\ told[b].msg = Unsent[k]
                        BY <5>3 DEF Before
                    <6>2. a \in Nat /\ b \in Nat
                        <7>1. DOMAIN told = 1..Len(told) /\ Len(told) \in Nat
                            BY LenProperties DEF RecorderTypeOK
                        <7> QED BY <6>1, <7>1
                    <6> QED BY <6>1, <6>2 DEF ToldOnce
                <5> QED BY <1>11, <4>1, <5>1, <5>3, <5>4
            <4> QED BY <4>2, <4>3
        <3> QED BY <3>1, <3>2
    <2> QED BY <1>1, <2>1, <2>2 DEF HandedInv, NoneHandedTwice
<1>15. OwedInv'
    <2> SUFFICES ASSUME NEW i \in DOMAIN told, Owed(i)
                 PROVE  \E j \in DOMAIN handed' :
                            handed'[j].msg = told[i].msg /\ handed'[j].from # "losing"
        BY <1>1 DEF OwedInv, GivenToLiveHost, Owed, Kept, LimitReached
    <2>1. CASE GivenToLiveHost(told[i].msg)
        <3>1. PICK j \in DOMAIN handed : handed[j].msg = told[i].msg /\ handed[j].from # "losing"
            BY <2>1 DEF GivenToLiveHost
        <3>2. j \in DOMAIN handed' /\ handed'[j] = handed[j]
            BY <1>4
        <3> QED BY <3>1, <3>2
    <2>2. CASE \E k \in 1..Len(Unsent) : Unsent[k] = told[i].msg
        <3>1. PICK k \in 1..Len(Unsent) : Unsent[k] = told[i].msg
            BY <2>2
        <3>2. Len(handed) + k \in DOMAIN handed'
            BY <1>4
        <3>3. handed'[Len(handed) + k] = Replayed(Unsent[k])
            BY <1>4
        <3> QED BY <1>11, <3>1, <3>2, <3>3
    <2> QED BY <1>2, <2>1, <2>2 DEF OwedInv
<1> QED BY <1>6, <1>7, <1>8, <1>9, <1>14, <1>15

LEMMA EstablishedKeeps ==
    ASSUME RecorderInv, status \in {"ok", "stopped"}, OnHostConnectionEstablished
    PROVE  RecorderInv'
<1>1. SendBufferedData
    BY DEF OnHostConnectionEstablished
<1>2. CASE status' \in {"failed", "undefined"} /\ UNCHANGED <<fileVars, streamVars, handed>>
    BY <1>2, EstablishedFails
<1>3. CASE /\ stream = "open" /\ Replay
           /\ IF recorderOn
              THEN UNCHANGED <<files, streamVars>>
              ELSE /\ files' = BufferErased
                   /\ stream' = "closed"
                   /\ present' = FALSE
                   /\ bytes' = 0
           /\ UNCHANGED <<capacity, stale, status>>
    BY <1>3, EstablishedReplays
<1> QED BY <1>1, <1>2, <1>3 DEF SendBufferedData

-----------------------------------------------------------------------------
(* OnHostConnectionLost preserves the invariant.                           *)

LEMMA OneEmptyFile ==
    ASSUME NEW fs \in Seq(Seq(Msgs)), Len(fs) = 1, Len(fs[1]) = 0
    PROVE  FlattenSeq(fs) = <<>>
<1>1. fs[1] = <<>>
    <2>1. fs[1] \in Seq(Msgs)
        BY ElementOfSeq
    <2> QED BY <2>1, EmptySeq
<1>2. fs = Append(<<>>, <<>>)
    <2>1. <<>> \in Seq(Seq(Msgs)) /\ <<>> \in Seq(Msgs) /\ Len(<<>>) = 0
        BY EmptySeq
    <2>2. /\ Append(<<>>, <<>>) \in Seq(Seq(Msgs)) /\ Len(Append(<<>>, <<>>)) = 1
          /\ Append(<<>>, <<>>)[1] = <<>>
        BY <2>1, AppendProperties
    <2>3. \A i \in 1..Len(fs) : fs[i] = Append(<<>>, <<>>)[i]
        BY <1>1, <2>2
    <2> QED BY <2>2, <2>3, SeqEqual
<1>3. FlattenSeq(Append(<<>>, <<>>)) = FlattenSeq(<<>>) \o <<>>
    <2>1. <<>> \in Seq(Seq(Msgs)) /\ <<>> \in Seq(Msgs)
        BY EmptySeq
    <2> QED BY <2>1, FlattenAppend
<1> QED BY <1>2, <1>3, FlattenEmpty, ConcatEmptySeq, EmptySeq

(* With the recorder on, the position is the end of the last file.         *)
LEMMA LostRecording ==
    ASSUME RecorderInv, status \in {"ok", "stopped"}, OnHostConnectionLost, recorderOn
    PROVE  RecorderInv'
<1> USE DEF RecorderInv
<1>1. /\ UNCHANGED <<recorderOn, fileLimit, files, stream, present, bytes, connected,
                     connections, status, told, handed>>
      /\ connected /\ loop = "idle" /\ loop' = "losing"
      /\ stale' = FALSE /\ offset' = CurrentPosition /\ position' = Len(files)
    BY DEF OnHostConnectionLost, ResumeBuffering, configVars, streamVars
<1>2. files \in Seq(Seq(Msgs)) /\ Len(files) \in Nat
    BY LenProperties DEF RecorderTypeOK
<1>3. status = "ok" => /\ Recording /\ stream = "open"
                       /\ Len(files) \in Nat \ {0} /\ Len(files) \in 1..Len(files)
                       /\ Last(files) \in Seq(Msgs) /\ Len(Last(files)) \in Nat
                       /\ offset' = Len(files[Len(files)])
    <2> SUFFICES ASSUME status = "ok" PROVE Recording /\ stream = "open"
                       /\ Len(files) \in Nat \ {0} /\ Len(files) \in 1..Len(files)
                       /\ Last(files) \in Seq(Msgs) /\ Len(Last(files)) \in Nat
                       /\ offset' = Len(files[Len(files)])
        OBVIOUS
    <2>1. Recording /\ stream = "open"
        BY DEF Recording, StreamInv
    <2>2. /\ Len(files) \in Nat \ {0} /\ Len(files) \in 1..Len(files)
          /\ Last(files) \in Seq(Msgs)
        BY <2>1, PositionInFiles
    <2>3. Len(Last(files)) \in Nat
        BY <2>2, LenProperties
    <2> QED BY <1>1, <2>1, <2>2, <2>3 DEF CurrentPosition, Last
<1>4. status = "stopped" => offset' = 0 - 1
    BY <1>1 DEF StreamInv, CurrentPosition
<1>5. RecorderTypeOK'
    <2>1. offset' \in Int
        BY <1>3, <1>4 DEF Last
    <2> QED BY <1>1, <1>2, <2>1 DEF RecorderTypeOK, Loops
<1>6. StreamInv'
    <2>1. status = "ok" => offset' \in 0..Len(files[Len(files)])
        BY <1>3 DEF Last
    <2> QED BY <1>1, <1>3, <2>1 DEF StreamInv, Recording
<1>7. FilesInv'
    <2>1. KeptSent' = KeptSent
        BY <1>1 DEF KeptSent, Kept, LimitReached
    <2> QED BY <1>1, <2>1 DEF FilesInv, FilesWithinLimit, FilesHoldKept, LimitReached
<1>8. UnsentInv'
    <2> SUFFICES ASSUME status = "ok"
                 PROVE  /\ InTurn(Unsent', told)
                        /\ ~Rewinds' => Unsent' = <<>>
        <3>1. Len(<<>>) = 0 /\ \A k \in 1..0 : FALSE
            OBVIOUS
        <3> QED BY <1>1, <3>1 DEF UnsentInv, Waiting
    <2>1. Unsent' = From(files, offset', position')
        BY <1>1 DEF Unsent, From
    <2>2. CASE offset' = 0
        <3>1. Unsent' = FlattenSeq(files)
            BY <2>1, <2>2 DEF From
        <3>2. InTurn(FlattenSeq(files), told)
            BY <1>1 DEF FilesInv
        <3>3. ASSUME ~Rewinds'
              PROVE  FlattenSeq(files) = <<>>
            <4>1. ~(Len(files) > 1)
                BY <1>1, <2>2, <3>3 DEF Rewinds
            <4>2. Len(files) = 1
                <5>1. \A n \in Nat \ {0} : ~(n > 1) => n = 1
                    OBVIOUS
                <5>2. Len(files) \in Nat \ {0}
                    BY <1>3
                <5> QED BY <4>1, <5>1, <5>2, Zenon
            <4>3. Len(files[1]) = 0
                BY <1>3, <2>2, <4>2
            <4> QED BY <1>2, <4>2, <4>3, OneEmptyFile
        <3> QED BY <3>1, <3>2, <3>3
    <2>3. CASE offset' # 0
        <3> DEFINE last == files[Len(files)]
        <3>1. Len(last) \in Nat /\ offset' = Len(last) /\ position' = Len(files)
            BY <1>1, <1>3 DEF Last
        <3>2. /\ SubSeq(last, Len(last) + 1, Len(last)) = <<>>
              /\ SubSeq(files, Len(files) + 1, Len(files)) = <<>>
            BY <1>2, <3>1, SubSeqEmpty
        <3>3. Unsent' = SubSeq(last, Len(last) + 1, Len(last))
                          \o FlattenSeq(SubSeq(files, Len(files) + 1, Len(files)))
            BY <2>1, <2>3, <3>1 DEF From
        <3>4. Unsent' = <<>> \o <<>>
            BY <3>2, <3>3, FlattenEmpty
        <3>5. Unsent' = <<>>
            BY <3>4, ConcatEmptySeq, EmptySeq
        <3>6. InTurn(<<>>, told)
            BY DEF InTurn
        <3> QED BY <3>5, <3>6
    <2> QED BY <2>2, <2>3
<1>9. ToldOnce' /\ HandedInv'
    BY <1>1 DEF ToldOnce, HandedInv, NoneHandedTwice
<1>10. OwedInv'
    BY <1>1 DEF OwedInv, Waiting, Owed, Kept, LimitReached, GivenToLiveHost
<1> QED BY <1>5, <1>6, <1>7, <1>8, <1>9, <1>10

(* With the recorder off, there is an empty file again.                    *)
LEMMA LostBuffering ==
    ASSUME RecorderInv, status \in {"ok", "stopped"}, OnHostConnectionLost, ~recorderOn
    PROVE  RecorderInv'
<1> USE DEF RecorderInv
<1>1. /\ UNCHANGED <<recorderOn, fileLimit, offset, position, bytes, connected,
                     connections, status, told, handed>>
      /\ connected /\ loop = "idle" /\ loop' = "losing"
      /\ files' = Append(files, <<>>) /\ stale' \in BOOLEAN
      /\ stream' = "open" /\ present' = TRUE
    BY DEF OnHostConnectionLost, ResumeBuffering, configVars, positionVars, PushFile,
           RecorderTypeOK
<1>2. status = "ok" /\ files = <<>> /\ offset = 0 /\ position = 1
    BY <1>1 DEF StreamInv, Recording
<1>3. /\ files' \in Seq(Seq(Msgs)) /\ Len(files') = 1 /\ files'[1] = <<>>
      /\ files' # <<>>
    <2>1. <<>> \in Seq(Seq(Msgs)) /\ <<>> \in Seq(Msgs) /\ Len(<<>>) = 0
        BY EmptySeq
    <2> QED BY <1>1, <1>2, <2>1, AppendProperties
<1>4. FlattenSeq(files') = <<>>
    <2>1. Len(files'[1]) = 0
        BY <1>3
    <2>2. \A fs \in Seq(Seq(Msgs)) : Len(fs) = 1 /\ Len(fs[1]) = 0 => FlattenSeq(fs) = <<>>
        BY OneEmptyFile
    <2> QED BY <1>3, <2>1, <2>2
<1>5. RecorderTypeOK'
    BY <1>1, <1>3 DEF RecorderTypeOK, Loops
<1>6. StreamInv'
    BY <1>1, <1>2, <1>3 DEF StreamInv, Recording
<1>7. FilesInv'
    BY <1>1 DEF FilesInv, FilesWithinLimit, FilesHoldKept, LimitReached
<1>8. UnsentInv'
    <2>1. Unsent' = <<>>
        BY <1>1, <1>2, <1>4 DEF Unsent
    <2>2. InTurn(<<>>, told') /\ Len(<<>>) = 0 /\ \A k \in 1..0 : FALSE
        BY DEF InTurn
    <2> QED BY <2>1, <2>2 DEF UnsentInv
<1>9. ToldOnce' /\ HandedInv'
    BY <1>1 DEF ToldOnce, HandedInv, NoneHandedTwice
<1>10. OwedInv'
    BY <1>1 DEF OwedInv, Waiting, Owed, Kept, LimitReached, GivenToLiveHost
<1> QED BY <1>5, <1>6, <1>7, <1>8, <1>9, <1>10

-----------------------------------------------------------------------------
(* The other steps.                                                        *)

LEMMA DoneKeeps ==
    ASSUME RecorderInv, status \in {"ok", "stopped"}, HandlerDone
    PROVE  RecorderInv'
<1> USE DEF RecorderInv
<1>1. /\ UNCHANGED <<recorderOn, fileLimit, files, stale, stream, present, bytes, offset,
                     position, connections, status, told, handed>>
      /\ loop \in {"announcing", "losing"} /\ connected
      /\ connected' = (loop = "announcing") /\ loop' = "idle"
    BY DEF HandlerDone, configVars, fileVars, streamVars, positionVars, StreamInv,
           RecorderTypeOK, Loops
<1>2. (Recording' <=> Recording) /\ (Waiting' <=> Waiting)
    BY <1>1 DEF Recording, Waiting
<1>3. RecorderTypeOK'
    BY <1>1 DEF RecorderTypeOK, Loops
<1>4. StreamInv'
    BY <1>1, <1>2 DEF StreamInv
<1>5. FilesInv'
    <2>1. KeptSent' = KeptSent
        BY <1>1 DEF KeptSent, Kept, LimitReached
    <2> QED BY <1>1, <2>1 DEF FilesInv, FilesWithinLimit, FilesHoldKept, LimitReached
<1>6. Unsent' = Unsent /\ (Rewinds' <=> Rewinds)
    BY <1>1 DEF Unsent, Rewinds
<1>7. UnsentInv'
    BY <1>1, <1>2, <1>6 DEF UnsentInv
<1>8. ToldOnce' /\ HandedInv'
    BY <1>1 DEF ToldOnce, HandedInv, NoneHandedTwice
<1>9. OwedInv'
    BY <1>1, <1>2, <1>6 DEF OwedInv, Owed, Kept, LimitReached, GivenToLiveHost
<1> QED BY <1>3, <1>4, <1>5, <1>7, <1>8, <1>9

LEMMA StopKeeps ==
    ASSUME RecorderInv, StopRecording
    PROVE  RecorderInv'
<1> USE DEF RecorderInv
<1>1. /\ UNCHANGED <<recorderOn, fileLimit, files, stale, offset, position, connected, loop,
                     connections, told, handed>>
      /\ status = "ok" /\ status' \in {"failed", "stopped"}
      /\ status' = "stopped" => stream # "closed" /\ stream' = "closed"
      /\ present' \in BOOLEAN /\ bytes' \in Nat
    BY DEF StopRecording, configVars, fileVars, positionVars, proxyVars, streamVars,
           RecorderTypeOK
<1>2. RecorderTypeOK'
    BY <1>1 DEF RecorderTypeOK
<1>3. StreamInv'
    BY <1>1 DEF StreamInv, Recording
<1>4. FilesInv'
    BY <1>1 DEF FilesInv, FilesWithinLimit, FilesHoldKept, LimitReached
<1>5. UnsentInv' /\ OwedInv'
    BY <1>1 DEF UnsentInv, OwedInv, Waiting
<1>6. ToldOnce' /\ HandedInv'
    BY <1>1 DEF ToldOnce, HandedInv, NoneHandedTwice
<1> QED BY <1>2, <1>3, <1>4, <1>5, <1>6

-----------------------------------------------------------------------------
(* The theorems.                                                           *)

LEMMA InitRecorder == Init => RecorderInv
<1> SUFFICES ASSUME Init PROVE RecorderInv
    OBVIOUS
<1>1. /\ files = << <<>> >> /\ files \in Seq(Seq(Msgs)) /\ Len(files) = 1 /\ files[1] = <<>>
      /\ files # <<>> /\ DOMAIN files = 1..1
    BY DEF Init
<1>2. FlattenSeq(files) = <<>>
    <2>1. Len(files[1]) = 0
        BY <1>1
    <2> QED BY <1>1, <2>1, OneEmptyFile
<1>3. /\ told = <<>> /\ DOMAIN told = {} /\ handed = <<>> /\ DOMAIN handed = {}
      /\ told \in Seq(Entries) /\ handed \in Seq(Gifts)
    BY EmptySeq DEF Init
<1>4. RecorderTypeOK
    <2>1. /\ recorderOn \in BOOLEAN /\ fileLimit \in Limits
          /\ present = TRUE /\ stale = TRUE /\ connected = FALSE
          /\ bytes = 0 /\ offset = 0 /\ position = 1 /\ loop = "idle" /\ connections = 0
        BY DEF Init
    <2>2. 0 \in Nat /\ 0 \in Int /\ 1 \in Nat /\ "idle" \in Loops
        BY DEF Loops
    <2> QED BY <1>1, <1>3, <2>1, <2>2 DEF RecorderTypeOK
<1>5. StreamInv
    <2>1. Len(files[1]) = 0 /\ 0 \in 0..0 /\ 1 \in 1..1
        BY <1>1
    <2> QED BY <1>1, <2>1 DEF Init, StreamInv, Recording
<1>6. \A i, j \in 1..0 : FALSE
    OBVIOUS
<1>7. InTurn(<<>>, told)
    BY DEF InTurn
<1>8. FilesInv
    <2>1. \A i \in DOMAIN files : SizeOf(files[i]) = 0
        BY <1>1, SizeOfEmpty
    <2>2. KeptSent = <<>>
        <3>1. [k \in DOMAIN told |->
                  IF Kept(told[k].msg) THEN <<told[k].msg>> ELSE <<>>] = <<>>
            BY <1>3
        <3> QED BY <3>1, FlattenEmpty DEF KeptSent
    <2>3. bytes = SizeOf(Last(files))
        BY <1>1, SizeOfEmpty DEF Init, Last
    <2> QED BY <1>2, <1>7, <2>1, <2>2, <2>3 DEF FilesInv, FilesWithinLimit, FilesHoldKept
<1>9. UnsentInv
    <2>1. Unsent = <<>>
        BY <1>2 DEF Init, Unsent
    <2> QED BY <1>3, <1>7, <2>1 DEF UnsentInv
<1>10. ToldOnce /\ HandedInv /\ OwedInv
    BY <1>3 DEF ToldOnce, HandedInv, NoneHandedTwice, OwedInv
<1> QED BY <1>4, <1>5, <1>8, <1>9, <1>10 DEF RecorderInv

LEMMA NextKeepsRecorder == RecorderInv /\ [Next]_vars => RecorderInv'
<1> SUFFICES ASSUME RecorderInv, [Next]_vars PROVE RecorderInv'
    OBVIOUS
<1>1. ASSUME status \in {"ok", "stopped"}, NEW m \in Msgs, SendMessage(m)
      PROVE  RecorderInv'
    BY <1>1, SendKeepsType, SendKeepsStream, SendTells, SendKeepsFiles, SendKeepsUnsent,
       SendKeepsHanded, SendKeepsOwed, SendOverruns DEF RecorderInv
<1>2. CASE status \in {"ok", "stopped"} /\ OnHostConnectionEstablished
    BY <1>2, EstablishedKeeps
<1>3. CASE status \in {"ok", "stopped"} /\ OnHostConnectionLost
    BY <1>3, LostRecording, LostBuffering
<1>4. CASE status \in {"ok", "stopped"} /\ HandlerDone
    BY <1>4, DoneKeeps
<1>5. CASE StopRecording
    BY <1>5, StopKeeps
<1>6. CASE UNCHANGED vars
    <2> USE DEF RecorderInv
    <2>1. UNCHANGED <<recorderOn, fileLimit, files, stream, present, bytes, offset, position,
                      stale, connected, loop, connections, status, told, handed>>
        BY <1>6 DEF vars
    <2>2. RecorderTypeOK' /\ ToldOnce'
        BY <2>1 DEF RecorderTypeOK, ToldOnce
    <2>3. StreamInv'
        BY <2>1 DEF StreamInv, Recording
    <2>4. FilesInv'
        <3>1. KeptSent' = KeptSent
            BY <2>1 DEF KeptSent, Kept, LimitReached
        <3> QED BY <2>1, <3>1 DEF FilesInv, FilesWithinLimit, FilesHoldKept, LimitReached
    <2>5. Unsent' = Unsent /\ (Rewinds' <=> Rewinds) /\ (Waiting' <=> Waiting)
        BY <2>1 DEF Unsent, Rewinds, Waiting
    <2>6. UnsentInv'
        BY <2>1, <2>5 DEF UnsentInv
    <2>7. HandedInv'
        BY <2>1 DEF HandedInv, NoneHandedTwice
    <2>8. OwedInv'
        BY <2>1, <2>5 DEF OwedInv, Owed, Kept, LimitReached, GivenToLiveHost
    <2> QED BY <2>2, <2>3, <2>4, <2>6, <2>7, <2>8
<1> QED BY <1>1, <1>2, <1>3, <1>4, <1>5, <1>6 DEF Next, Step

LEMMA RecorderAlwaysInv == Spec => []RecorderInv
<1>1. Init => RecorderInv
    BY InitRecorder
<1>2. RecorderInv /\ [Next]_vars => RecorderInv'
    BY NextKeepsRecorder
<1> QED BY <1>1, <1>2, PTL DEF Spec

(* A limit that does not wrap is the one that the code compares with.      *)
LEMMA KeptAsConfigured ==
    ASSUME RecorderTypeOK, LimitHonoured, NEW m \in Msgs
    PROVE  Recordable(m) <=> Kept(m)
<1>1. PICK l \in Nat, s \in Nat : l = fileLimit /\ s = Size[m]
    BY RecorderAssumption DEF RecorderTypeOK
<1>2. LimitWrap \in Nat \ {0}
    BY RecorderAssumption
<1>3. recorderOn => l % LimitWrap = l
    BY <1>1, <1>2 DEF LimitHonoured
<1>4. ~(s >= l) <=> s < l
    OBVIOUS
<1> QED BY <1>1, <1>3, <1>4 DEF Recordable, Kept, LimitReached

(* The files of the recorder hold what the plugins sent, all of it that    *)
(* fits in a file of the configured size and has a header that fits its    *)
(* length byte, once, in order: whatever rotates, whoever connects.        *)
THEOREM AlwaysRecordedInOrder == Spec => []RecordedInOrder
<1>1. RecorderInv => RecordedInOrder
    <2> SUFFICES ASSUME RecorderInv, recorderOn, LimitHonoured, status = "ok"
                 PROVE  FlattenSeq(files) = RecordableSent
        BY DEF RecordedInOrder
    <2>1. \A k \in DOMAIN told : told[k].msg \in Msgs
        <3>1. told \in Seq(Entries) /\ DOMAIN told = 1..Len(told)
            BY LenProperties DEF RecorderInv, RecorderTypeOK
        <3>2. \A k \in DOMAIN told : told[k] \in Entries
            BY <3>1, ElementOfSeq
        <3> QED BY <3>2 DEF Entries
    <2>2. \A k \in DOMAIN told : Recordable(told[k].msg) <=> Kept(told[k].msg)
        BY <2>1, KeptAsConfigured DEF RecorderInv
    <2>3. RecordableSent = KeptSent
        BY <2>2, Zenon DEF RecordableSent, KeptSent
    <2> QED BY <2>3 DEF RecorderInv, FilesInv, FilesHoldKept
<1> QED BY <1>1, RecorderAlwaysInv, PTL

(* No file reaches the size configured, for any sizes and any limit, the   *)
(* limits that wrap to a small number included.                            *)
THEOREM FilesAlwaysWithinLimit == Spec => []FilesWithinLimit
<1>1. RecorderInv => FilesWithinLimit
    BY DEF RecorderInv, FilesInv
<1> QED BY <1>1, RecorderAlwaysInv, PTL

(* What one host gets, it gets in the order the plugins sent it: what was  *)
(* recorded before what is live.                                           *)
THEOREM AlwaysHandedInOrder == Spec => []HandedInOrder
<1>1. RecorderInv => HandedInOrder
    <2> SUFFICES ASSUME RecorderInv, NEW i \in DOMAIN handed, NEW j \in DOMAIN handed, i < j,
                        handed[i].connection = handed[j].connection
                 PROVE  Turn(handed[i].msg) < Turn(handed[j].msg)
        BY DEF HandedInOrder
    <2>1. PICK k, l \in DOMAIN told :
                   k < l /\ told[k].msg = handed[i].msg /\ told[l].msg = handed[j].msg
        BY DEF RecorderInv, HandedInv, Before
    <2>2. \A m, k1 : k1 \in DOMAIN told /\ told[k1].msg = m => Turn(m) = k1
        <3> SUFFICES ASSUME NEW m, NEW k1 \in DOMAIN told, told[k1].msg = m
                     PROVE  Turn(m) = k1
            OBVIOUS
        <3>1. Turn(m) \in DOMAIN told /\ told[Turn(m)].msg = m
            BY DEF Turn
        <3> QED BY <3>1 DEF RecorderInv, ToldOnce
    <2>3. Turn(handed[i].msg) = k /\ Turn(handed[j].msg) = l
        BY <2>1, <2>2
    <2> QED BY <2>1, <2>3
<1> QED BY <1>1, RecorderAlwaysInv, PTL

(* No two hosts are given one message, but for those that a lost host may  *)
(* or may not have seen and those that a position of zero repeats.         *)
THEOREM NoneEverHandedTwice == Spec => []NoneHandedTwice
<1>1. RecorderInv => NoneHandedTwice
    BY DEF RecorderInv, HandedInv
<1> QED BY <1>1, RecorderAlwaysInv, PTL

(* A host that is connected has all that was sent while none was and could *)
(* be recorded.                                                            *)
THEOREM NothingEverLeftBehind == Spec => []NothingLeftBehind
<1>1. RecorderInv => NothingLeftBehind
    <2> SUFFICES ASSUME RecorderInv, LimitHonoured, status = "ok", connected, loop # "losing",
                        NEW i \in DOMAIN told,
                        ~told[i].connected \/ (recorderOn /\ told[i].phase = "losing"),
                        Recordable(told[i].msg)
                 PROVE  GivenToLiveHost(told[i].msg)
        BY DEF NothingLeftBehind
    <2>1. told[i].msg \in Msgs
        <3>1. told \in Seq(Entries) /\ DOMAIN told = 1..Len(told)
            BY LenProperties DEF RecorderInv, RecorderTypeOK
        <3>2. told[i] \in Entries
            BY <3>1, ElementOfSeq
        <3> QED BY <3>2 DEF Entries
    <2>2. Kept(told[i].msg)
        BY <2>1, KeptAsConfigured DEF RecorderInv
    <2> QED BY <2>2 DEF RecorderInv, OwedInv, Owed, Waiting
<1> QED BY <1>1, RecorderAlwaysInv, PTL
=============================================================================

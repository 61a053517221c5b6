--------------------------- MODULE JournalProofs ----------------------------
(***************************************************************************)
(* Proofs about Journal, for any codes, quota, capacities of the memory    *)
(* and the file, and number of occurrences: the hub never counts an        *)
(* occurrence in two events, the quota is kept, and an event leaves the    *)
(* journal for the hub or the file only; but for the occurrences that a    *)
(* write that failed, or a handler inside a report or a removal, marred.   *)
(*                                                                         *)
(* What was reported or is under way agrees with what the journal and the  *)
(* file have: an event that was reported is the same set of occurrences or *)
(* has none in common, or marred ones only.  Only the last event of a list *)
(* can still grow, and while it can none of its occurrences was reported.  *)
(* The faults need no case of their own from then on: whatever they bring  *)
(* back or leave behind has marred occurrences, which agree with anything. *)
(*                                                                         *)
(* The size in flight is a sum over a sequence: that a step changes it by  *)
(* the message it sends or confirms is shown at the least place where the  *)
(* sums would differ.                                                      *)
(***************************************************************************)
EXTENDS Journal, WellFoundedInduction, TLAPS

Entry == [code : AllCodes, flipped : BOOLEAN, synced : BOOLEAN,
          occurrences : SUBSET Nat]

(* The events that the hub has or may receive.                             *)
Sent == told \cup UNION {inflight[i].body.entries : i \in DOMAIN inflight}

Files == [count : Nat, contents : Seq(Entry)]

Typed ==
    /\ events \in Seq(Entry)
    /\ file \in Files
    /\ synced \in BOOLEAN
    /\ logged \in Nat
    /\ \E M : inflight \in Seq(M)

(* Nothing in common but occurrences that may be lost or repeated.         *)
Disjoint(one, other, spoilt) == one \cap other \subseteq spoilt

Agrees(occurrences, sent, spoilt) ==
    \A one \in sent : one = occurrences \/ Disjoint(one, occurrences, spoilt)

SentAgrees ==
    \A one \in Sent : one \subseteq 1 .. logged /\ Agrees(one, Sent, marred)

Past(list, n) == \A i \in DOMAIN list : list[i].occurrences \subseteq 1 .. n

(* A list of events up to occurrence n, after sent was reported.           *)
ListAgrees(list, sent, n, spoilt) ==
    /\ \A i \in DOMAIN list :
          /\ list[i].occurrences \subseteq 1 .. n
          /\ Agrees(list[i].occurrences, sent, spoilt)
          /\ \A j \in DOMAIN list :
                i # j => Disjoint(list[i].occurrences, list[j].occurrences, spoilt)
    /\ list # <<>> /\ ~list[Len(list)].flipped =>
          \A one \in sent : Disjoint(one, list[Len(list)].occurrences, spoilt)

(* What is in memory is not in the file.                                   *)
Apart(list, other, spoilt) ==
    \A i \in DOMAIN list, j \in DOMAIN other :
        Disjoint(list[i].occurrences, other[j].occurrences, spoilt)

Inv ==
    /\ Typed
    /\ SentAgrees
    /\ ListAgrees(events, Sent, logged, marred)
    /\ Past(file.contents, logged)
    /\ ListAgrees(Saved, Sent, logged, marred)
    /\ Apart(events, Saved, marred)

-----------------------------------------------------------------------------
(* Numbers and sequences.                                                  *)

Seqs(s) == \E M : s \in Seq(M)

NatLess == {pair \in Nat \X Nat : pair[1] < pair[2]}

(* NatLess is the relation of the library's theorem.                       *)
LEMMA NatLessWellFounded == IsWellFoundedOn(NatLess, Nat)
  BY NatLessThanWellFounded, Zenon DEF OpToRel, NatLess

(* A set of numbers has a least one: the first event that is later.        *)
LEMMA NatMin ==
  ASSUME NEW S \in SUBSET Nat, S # {}
  PROVE  \E m \in S : \A k \in S : m <= k
  <1>1. \E m \in S : \A k \in S : <<k, m>> \notin NatLess
    BY WFMin, NatLessWellFounded
  <1>2. \A k, m \in Nat : <<k, m>> \notin NatLess => m <= k
    BY DEF NatLess
  <1> QED BY <1>1, <1>2

-----------------------------------------------------------------------------
(* The size of the messages in flight.                                     *)

(* The sizes of the first messages, up to the n-th.                        *)
Totals(t, s, kinds, n) ==
    t = [k \in 0 .. n |->
            IF k = 0 THEN 0 ELSE t[k - 1] + Counted(s[k], kinds)]

(* Of any messages, the sizes are summed up.                               *)
LEMMA TotalsExist ==
  ASSUME NEW s, NEW kinds, NEW n \in Nat
  PROVE  \E t : Totals(t, s, kinds, n)
  <1> DEFINE Without == {m \in Nat : ~\E t : Totals(t, s, kinds, m)}
  <1>1. SUFFICES ASSUME Without # {} PROVE FALSE
    OBVIOUS
  <1>2. PICK m \in Without : \A k \in Without : m <= k
    BY <1>1, NatMin
  <1>3. CASE m = 0
    <2> DEFINE t == [k \in 0 .. 0 |-> 0]
    <2>1. Totals(t, s, kinds, 0)
      BY DEF Totals
    <2> QED BY <1>2, <1>3, <2>1
  <1>4. CASE m # 0
    <2>1. m - 1 \in Nat /\ ~(m <= m - 1)
      BY <1>2, <1>4
    <2>2. PICK t : Totals(t, s, kinds, m - 1)
      BY <1>2, <2>1
    <2> DEFINE u == [k \in 0 .. m |-> IF k = m
                                      THEN t[m - 1] + Counted(s[m], kinds)
                                      ELSE t[k]]
    <2>3. \A k \in 0 .. m - 1 :
              u[k] = IF k = 0 THEN 0 ELSE t[k - 1] + Counted(s[k], kinds)
      BY <1>2, <2>1, <2>2 DEF Totals
    <2>4. u[m] = u[m - 1] + Counted(s[m], kinds)
      BY <1>2, <1>4, <2>1
    <2>5. \A k \in 0 .. m - 1 : k # 0 => u[k - 1] = t[k - 1]
      BY <1>2, <2>1
    <2>6. \A k \in 0 .. m :
              u[k] = IF k = 0 THEN 0 ELSE u[k - 1] + Counted(s[k], kinds)
      <3>1. \A k \in 0 .. m : k \in 0 .. m - 1 \/ k = m
        BY <1>2
      <3> QED BY <1>4, <2>3, <2>4, <2>5, <3>1
    <2>7. u = [k \in 0 .. m |->
                  IF k = 0 THEN 0 ELSE u[k - 1] + Counted(s[k], kinds)]
      <3> DEFINE v == [k \in 0 .. m |->
                          IF k = 0 THEN 0 ELSE u[k - 1] + Counted(s[k], kinds)]
      <3>1. \A k \in 0 .. m : v[k] = u[k]
        BY <2>6
      <3>2. DOMAIN v = 0 .. m /\ DOMAIN u = 0 .. m
        OBVIOUS
      <3> QED BY <3>1, <3>2
    <2>8. Totals(u, s, kinds, m)
      BY <2>7 DEF Totals
    <2> QED BY <1>2, <2>8
  <1> QED BY <1>3, <1>4

(* Sums of the same sizes are the same, whatever follows.                  *)
LEMMA TotalsAgree ==
  ASSUME NEW s, NEW r, NEW kinds, NEW n \in Nat, NEW more \in Nat, n <= more,
         NEW t, Totals(t, s, kinds, n), NEW u, Totals(u, r, kinds, more),
         \A k \in 1 .. n : Counted(s[k], kinds) = Counted(r[k], kinds)
  PROVE  t[n] = u[n]
  <1> DEFINE Differ == {k \in 0 .. n : t[k] # u[k]}
  <1>1. SUFFICES ASSUME Differ # {} PROVE FALSE
    <2>1. n \in 0 .. n
      OBVIOUS
    <2> QED BY <2>1
  <1>2. PICK k \in Differ : \A j \in Differ : k <= j
    <2>1. Differ \in SUBSET Nat
      OBVIOUS
    <2> HIDE DEF Differ
    <2> QED BY <1>1, <2>1, NatMin
  <1>3. /\ t[k] = IF k = 0 THEN 0 ELSE t[k - 1] + Counted(s[k], kinds)
        /\ u[k] = IF k = 0 THEN 0 ELSE u[k - 1] + Counted(r[k], kinds)
    BY DEF Totals
  <1>4. k # 0
    BY <1>2, <1>3
  <1>5. k - 1 \in 0 .. n /\ ~(k <= k - 1) /\ k \in 1 .. n
    BY <1>2, <1>4
  <1>6. t[k - 1] = u[k - 1]
    BY <1>2, <1>5
  <1>7. t[k] = u[k]
    BY <1>3, <1>4, <1>5, <1>6
  <1> QED BY <1>2, <1>7

(* The size of messages is the sum of the sizes.                           *)
LEMMA SizeIsTotal ==
  ASSUME NEW s, Len(s) \in Nat, NEW kinds, NEW t, Totals(t, s, kinds, Len(s))
  PROVE  SizeOf(s, kinds) = t[Len(s)]
  <1> DEFINE u == CHOOSE u : u = [k \in 0 .. Len(s) |->
                     IF k = 0 THEN 0 ELSE u[k - 1] + Counted(s[k], kinds)]
  <1>1. \E v : Totals(v, s, kinds, Len(s))
    OBVIOUS
  <1>2. Totals(u, s, kinds, Len(s))
    BY <1>1 DEF Totals
  <1>3. SizeOf(s, kinds) = u[Len(s)]
    BY DEF SizeOf
  <1> HIDE DEF u
  <1>4. Len(s) \in 0 .. Len(s)
    OBVIOUS
  <1>5. t[Len(s)] = u[Len(s)]
    <2>1. Len(s) <= Len(s)
      OBVIOUS
    <2> QED BY <1>2, <1>4, <2>1, TotalsAgree
  <1> QED BY <1>3, <1>5

Sized(s) ==
    /\ Len(s) \in Nat
    /\ DOMAIN s = 1 .. Len(s)
    /\ \A k \in 1 .. Len(s) : s[k].kind \in Kinds /\ s[k].size \in Nat \ {0}

(* Sized messages have a size, and some of them have no more.              *)
LEMMA SizeIsNat ==
  ASSUME NEW s, Sized(s), NEW kinds
  PROVE  /\ SizeOf(s, kinds) \in Nat
         /\ SizeOf(s, kinds) <= SizeOf(s, Kinds)
  <1>1. PICK t : Totals(t, s, kinds, Len(s))
    BY TotalsExist DEF Sized
  <1>2. PICK u : Totals(u, s, Kinds, Len(s))
    BY TotalsExist DEF Sized
  <1>3. SizeOf(s, kinds) = t[Len(s)] /\ SizeOf(s, Kinds) = u[Len(s)]
    BY <1>1, <1>2, SizeIsTotal DEF Sized
  <1> DEFINE Wrong == {k \in 0 .. Len(s) :
                         ~(t[k] \in Nat /\ u[k] \in Nat /\ t[k] <= u[k])}
  <1>4. Wrong = {}
    <2>1. SUFFICES ASSUME Wrong # {} PROVE FALSE
      OBVIOUS
    <2>2. PICK k \in Wrong : \A j \in Wrong : k <= j
      <3>1. Wrong \in SUBSET Nat
        BY DEF Sized
      <3> HIDE DEF Wrong
      <3> QED BY <2>1, <3>1, NatMin
    <2>3. /\ t[k] = IF k = 0 THEN 0 ELSE t[k - 1] + Counted(s[k], kinds)
          /\ u[k] = IF k = 0 THEN 0 ELSE u[k - 1] + Counted(s[k], Kinds)
      BY <1>1, <1>2 DEF Totals
    <2>4. k # 0
      BY <2>2, <2>3
    <2>5. k - 1 \in 0 .. Len(s) /\ ~(k <= k - 1) /\ k \in 1 .. Len(s)
      BY <2>2, <2>4 DEF Sized
    <2>6. t[k - 1] \in Nat /\ u[k - 1] \in Nat /\ t[k - 1] <= u[k - 1]
      BY <2>2, <2>5
    <2>7. /\ Counted(s[k], kinds) \in Nat /\ Counted(s[k], Kinds) \in Nat
          /\ Counted(s[k], kinds) <= Counted(s[k], Kinds)
      BY <2>5 DEF Sized, Counted
    <2> HIDE DEF Wrong
    <2>8. t[k] \in Nat /\ u[k] \in Nat /\ t[k] <= u[k]
      BY <2>3, <2>4, <2>6, <2>7
    <2> QED BY <2>2, <2>8 DEF Wrong
  <1>5. Len(s) \in 0 .. Len(s)
    BY DEF Sized
  <1> QED BY <1>3, <1>4, <1>5

(* Nothing in flight has no size.                                          *)
LEMMA EmptySize ==
  ASSUME NEW kinds
  PROVE  Sized(<<>>) /\ SizeOf(<<>>, kinds) = 0
  <1>1. Len(<<>>) = 0 /\ DOMAIN <<>> = {} /\ Len(<<>>) \in Nat
    OBVIOUS
  <1>2. PICK t : Totals(t, <<>>, kinds, Len(<<>>))
    BY <1>1, TotalsExist
  <1>3. t[0] = 0
    BY <1>1, <1>2 DEF Totals
  <1> QED BY <1>1, <1>2, <1>3, SizeIsTotal DEF Sized

(* A message that is sent adds its size.                                   *)
LEMMA AppendSize ==
  ASSUME NEW s, Sized(s), NEW r,
         Len(r) = Len(s) + 1, DOMAIN r = 1 .. Len(s) + 1,
         \A k \in 1 .. Len(s) : r[k] = s[k],
         r[Len(s) + 1].kind \in Kinds, r[Len(s) + 1].size \in Nat \ {0}
  PROVE  /\ Sized(r)
         /\ SizeOf(r, Kinds) = SizeOf(s, Kinds) + r[Len(s) + 1].size
  <1>1. Len(s) \in Nat /\ \A k \in 1 .. Len(s) + 1 : k \in 1 .. Len(s) \/ k = Len(s) + 1
    BY DEF Sized
  <1>2. Sized(r)
    BY <1>1 DEF Sized
  <1>3. PICK t : Totals(t, s, Kinds, Len(s))
    BY TotalsExist DEF Sized
  <1>4. PICK u : Totals(u, r, Kinds, Len(r))
    BY <1>2, TotalsExist DEF Sized
  <1>5. SizeOf(s, Kinds) = t[Len(s)] /\ SizeOf(r, Kinds) = u[Len(s) + 1]
    BY <1>2, <1>3, <1>4, SizeIsTotal DEF Sized
  <1>6. u[Len(s) + 1] = u[Len(s)] + r[Len(s) + 1].size
    BY <1>1, <1>4 DEF Totals, Counted
  <1>7. t[Len(s)] = u[Len(s)]
    <2>1. \A k \in 1 .. Len(s) : Counted(s[k], Kinds) = Counted(r[k], Kinds)
      OBVIOUS
    <2>2. /\ Len(s) \in 0 .. Len(s) /\ Len(r) \in Nat /\ Len(s) <= Len(r)
          /\ Len(s) \in Nat
      BY <1>1
    <2>3. ASSUME NEW n, n = Len(s), NEW more, more = Len(r) PROVE t[n] = u[n]
      <3>1. n \in Nat /\ more \in Nat /\ n <= more
        BY <2>2, <2>3
      <3>2. Totals(t, s, Kinds, n) /\ Totals(u, r, Kinds, more)
        BY <1>3, <1>4, <2>3
      <3>3. \A k \in 1 .. n : Counted(s[k], Kinds) = Counted(r[k], Kinds)
        BY <2>1, <2>3
      <3> QED BY <3>1, <3>2, <3>3, TotalsAgree
    <2> QED BY <2>3
  <1> QED BY <1>2, <1>5, <1>6, <1>7

(* A message that is confirmed takes its size along.                       *)
LEMMA RemoveSize ==
  ASSUME NEW s, Sized(s), NEW i \in 1 .. Len(s), NEW r,
         Len(r) = Len(s) - 1, DOMAIN r = 1 .. Len(s) - 1,
         \A k \in 1 .. Len(s) - 1 : r[k] = IF k < i THEN s[k] ELSE s[k + 1]
  PROVE  Sized(r) /\ SizeOf(r, Kinds) = SizeOf(s, Kinds) - s[i].size
  <1> DEFINE n == Len(s)
  <1>1. n \in Nat /\ i \in 1 .. n /\ n - 1 \in Nat
    BY DEF Sized
  <1>2. \A k \in 1 .. n - 1 : k \in 1 .. n /\ k + 1 \in 1 .. n
    BY <1>1
  <1>3. Sized(r)
    BY <1>1, <1>2 DEF Sized
  <1>4. PICK t : Totals(t, s, Kinds, n)
    BY TotalsExist DEF Sized
  <1>5. PICK u : Totals(u, r, Kinds, n - 1)
    BY <1>1, TotalsExist
  <1>6. SizeOf(s, Kinds) = t[n] /\ SizeOf(r, Kinds) = u[n - 1]
    BY <1>1, <1>3, <1>4, <1>5, SizeIsTotal DEF Sized
  <1>7. \A k \in 1 .. n : /\ Counted(s[k], Kinds) = s[k].size
                          /\ s[k].size \in Nat
    BY DEF Sized, Counted
  <1>8. /\ t[0] = 0
        /\ \A k \in 1 .. n : t[k] = t[k - 1] + s[k].size
    BY <1>1, <1>4, <1>7 DEF Totals
  <1>9. /\ u[0] = 0
        /\ \A k \in 1 .. n - 1 :
              u[k] = u[k - 1] + (IF k < i THEN s[k].size ELSE s[k + 1].size)
    BY <1>1, <1>2, <1>5, <1>7 DEF Totals, Counted
  <1> HIDE DEF n
  <1> DEFINE Wrong == {k \in 0 .. n - 1 :
                         ~(/\ t[k] \in Nat /\ t[k + 1] \in Nat
                           /\ u[k] = IF k < i THEN t[k]
                                     ELSE t[k + 1] - s[i].size)}
  <1>10. Wrong = {}
    <2>1. SUFFICES ASSUME Wrong # {} PROVE FALSE
      OBVIOUS
    <2>2. PICK k \in Wrong : \A j \in Wrong : k <= j
      <3>1. Wrong \in SUBSET Nat
        BY <1>1
      <3> HIDE DEF Wrong
      <3> QED BY <2>1, <3>1, NatMin
    <2>3. k \in 0 .. n - 1 /\ k + 1 \in 1 .. n /\ k + 1 - 1 = k
      BY <1>1, <2>2
    <2>4. t[k + 1] = t[k] + s[k + 1].size /\ s[k + 1].size \in Nat
      BY <1>7, <1>8, <2>3
    <2>5. CASE k = 0
      BY <1>1, <1>8, <1>9, <2>2, <2>4, <2>5
    <2>6. CASE k # 0
      <3>1. k - 1 \in 0 .. n - 1 /\ ~(k <= k - 1) /\ k - 1 + 1 = k
            /\ k \in 1 .. n - 1 /\ k \in 1 .. n
        BY <1>1, <2>3, <2>6
      <3>2. /\ t[k - 1] \in Nat /\ t[k] \in Nat
            /\ u[k - 1] = IF k - 1 < i THEN t[k - 1] ELSE t[k] - s[i].size
        <4>1. k - 1 \notin Wrong
          BY <2>2, <3>1
        <4> QED BY <3>1, <4>1
      <3>3. t[k] = t[k - 1] + s[k].size /\ s[k].size \in Nat
        BY <1>7, <1>8, <3>1
      <3>4. u[k] = u[k - 1] + (IF k < i THEN s[k].size ELSE s[k + 1].size)
        BY <1>9, <3>1
      <3>5. t[k + 1] \in Nat
        BY <2>4, <3>2
      <3>6. CASE k < i
        <4>1. k - 1 < i
          BY <1>1, <3>1, <3>6
        <4> QED BY <2>2, <3>2, <3>3, <3>4, <3>5, <3>6, <4>1
      <3>7. CASE k = i
        <4>1. k - 1 < i /\ ~(k < i)
          BY <1>1, <3>1, <3>7
        <4>2. u[k] = t[k + 1] - s[i].size
          BY <2>4, <3>2, <3>3, <3>4, <3>7, <4>1
        <4> QED BY <2>2, <3>2, <3>5, <4>1, <4>2
      <3>8. CASE k > i
        <4>1. ~(k - 1 < i) /\ ~(k < i)
          BY <1>1, <3>1, <3>8
        <4>2. u[k] = t[k + 1] - s[i].size
          <5>1. s[i].size \in Nat
            BY <1>1, <1>7
          <5> QED BY <2>4, <3>2, <3>4, <4>1, <5>1
        <4> QED BY <2>2, <3>2, <3>5, <4>1, <4>2
      <3> QED BY <1>1, <3>1, <3>6, <3>7, <3>8
    <2> QED BY <2>5, <2>6
  <1>11. /\ t[n - 1] \in Nat /\ t[n] \in Nat
         /\ u[n - 1] = IF n - 1 < i THEN t[n - 1] ELSE t[n] - s[i].size
    <2>1. n - 1 \in 0 .. n - 1 /\ n - 1 + 1 = n
      BY <1>1
    <2>2. n - 1 \notin Wrong
      BY <1>10
    <2> HIDE <1>10
    <2> QED BY <2>1, <2>2
  <1>12. u[n - 1] = t[n] - s[i].size
    <2>1. CASE i = n
      <3>1. n - 1 < i /\ n \in 1 .. n
        BY <1>1, <2>1
      <3>2. t[n] = t[n - 1] + s[n].size /\ s[n].size \in Nat
        BY <1>7, <1>8, <3>1
      <3> QED BY <1>11, <2>1, <3>1, <3>2
    <2>2. CASE i # n
      <3>1. ~(n - 1 < i)
        BY <1>1, <2>2
      <3> QED BY <1>11, <3>1
    <2> QED BY <2>1, <2>2
  <1> QED BY <1>3, <1>6, <1>12

(* What the hub received has the size that it had.                         *)
LEMMA SameSize ==
  ASSUME NEW s, Sized(s), NEW r, Len(r) = Len(s), DOMAIN r = DOMAIN s,
         \A k \in 1 .. Len(s) : r[k].kind = s[k].kind /\ r[k].size = s[k].size,
         NEW kinds
  PROVE  Sized(r) /\ SizeOf(r, kinds) = SizeOf(s, kinds)
  <1>1. Sized(r)
    BY DEF Sized
  <1>2. PICK t : Totals(t, s, kinds, Len(s))
    BY TotalsExist DEF Sized
  <1>3. PICK u : Totals(u, r, kinds, Len(s))
    BY TotalsExist DEF Sized
  <1>4. SizeOf(s, kinds) = t[Len(s)] /\ SizeOf(r, kinds) = u[Len(s)]
    BY <1>1, <1>2, <1>3, SizeIsTotal DEF Sized
  <1>5. \A k \in 1 .. Len(s) : Counted(s[k], kinds) = Counted(r[k], kinds)
    BY DEF Counted
  <1>6. Len(s) \in Nat /\ Len(s) \in 0 .. Len(s) /\ Len(s) <= Len(s)
    BY DEF Sized
  <1>7. t[Len(s)] = u[Len(s)]
    <2>1. ASSUME NEW n, n = Len(s) PROVE t[n] = u[n]
      <3>1. n \in Nat /\ n <= n
        BY <1>6, <2>1
      <3>2. Totals(t, s, kinds, n) /\ Totals(u, r, kinds, n)
        BY <1>2, <1>3, <2>1
      <3>3. \A k \in 1 .. n : Counted(s[k], kinds) = Counted(r[k], kinds)
        BY <1>5, <2>1
      <3> QED BY <3>1, <3>2, <3>3, TotalsAgree
    <2> QED BY <2>1
  <1> QED BY <1>1, <1>4, <1>7

-----------------------------------------------------------------------------
(* The client.                                                             *)

ClientInv ==
    /\ client \in {"none", "connecting", "up", "down"}
    /\ client = "none" => inflight = <<>>
    /\ Seqs(inflight)
    /\ Sized(inflight)
    /\ used \in Nat
    /\ QuotaKept

(* What the journal and the device twin do with the client.                *)
ClientStep ==
    \/ \E message : /\ message.kind \in Kinds
                     /\ message.size \in Nat \ {0}
                     /\ Send(message)
    \/ \E i \in DOMAIN inflight : Receive(i) \/ Confirm(i)
    \/ SetupClient \/ SetupFails \/ Authenticated \/ Disconnected
    \/ DropClient \/ UNCHANGED clientVars

(* What is confirmed leaves, and the later ones move up                    *)
(* (send_message_callback).                                                *)
LEMMA ConfirmRemoves ==
  ASSUME Seqs(inflight), NEW i \in DOMAIN inflight, Confirm(i)
  PROVE  /\ Seqs(inflight') /\ Len(inflight') = Len(inflight) - 1
         /\ DOMAIN inflight' = 1 .. Len(inflight) - 1
         /\ \A k \in 1 .. Len(inflight) - 1 :
               inflight'[k] = IF k < i THEN inflight[k] ELSE inflight[k + 1]
  <1>1. PICK M : inflight \in Seq(M)
    BY DEF Seqs
  <1>2. inflight' = SubSeq(inflight, 1, i - 1)
                    \o SubSeq(inflight, i + 1, Len(inflight))
    BY DEF Confirm, RemoveAt
  <1>3. Len(inflight) \in Nat /\ i \in 1 .. Len(inflight)
    BY <1>1
  <1> DEFINE head == SubSeq(inflight, 1, i - 1)
             tail == SubSeq(inflight, i + 1, Len(inflight))
  <1>4. /\ head \in Seq(M) /\ Len(head) = i - 1
        /\ \A k \in 1 .. i - 1 : head[k] = inflight[k]
    BY <1>1, <1>3
  <1>5. /\ tail \in Seq(M) /\ Len(tail) = Len(inflight) - i
        /\ \A k \in 1 .. Len(inflight) - i : tail[k] = inflight[k + i]
    <2>1. \A k \in i + 1 .. Len(inflight) : inflight[k] \in M
      BY <1>1, <1>3
    <2>2. tail \in Seq(M)
      BY <1>1, <1>3, <2>1
    <2>3. Len(tail) = Len(inflight) - i
      BY <1>1, <1>3
    <2>4. \A k \in 1 .. Len(inflight) - i : tail[k] = inflight[k + i]
      BY <1>1, <1>3
    <2> QED BY <2>2, <2>3, <2>4
  <1> HIDE DEF head, tail
  <1>6. /\ inflight' \in Seq(M) /\ Len(inflight') = Len(inflight) - 1
        /\ DOMAIN inflight' = 1 .. Len(inflight) - 1
        /\ \A k \in 1 .. Len(inflight) - 1 :
              inflight'[k] = IF k <= i - 1 THEN head[k] ELSE tail[k - (i - 1)]
    <2>1. inflight' = head \o tail
      BY <1>2 DEF head, tail
    <2>2. /\ inflight' \in Seq(M)
          /\ DOMAIN inflight' = 1 .. Len(head) + Len(tail)
          /\ \A k \in 1 .. Len(head) + Len(tail) :
                inflight'[k] = IF k <= Len(head) THEN head[k]
                               ELSE tail[k - Len(head)]
      BY <1>4, <1>5, <2>1
    <2>3. Len(head) + Len(tail) = Len(inflight) - 1
      BY <1>3, <1>4, <1>5
    <2>4. Len(inflight') = Len(inflight) - 1
      <3>1. Len(inflight') \in Nat /\ DOMAIN inflight' = 1 .. Len(inflight')
        BY <2>2
      <3> QED BY <1>3, <2>2, <2>3, <3>1
    <2> QED BY <1>4, <2>2, <2>3, <2>4
  <1>7. ASSUME NEW k \in 1 .. Len(inflight) - 1
        PROVE  inflight'[k] = IF k < i THEN inflight[k] ELSE inflight[k + 1]
    <2>1. CASE k < i
      <3>1. k \in 1 .. i - 1 /\ k <= i - 1
        BY <1>3, <2>1
      <3> QED BY <1>4, <1>6, <2>1, <3>1
    <2>2. CASE ~(k < i)
      <3>1. /\ k - (i - 1) \in 1 .. Len(inflight) - i /\ ~(k <= i - 1)
            /\ k - (i - 1) + i = k + 1
        BY <1>3, <2>2
      <3>2. inflight'[k] = tail[k - (i - 1)]
        BY <1>6, <3>1
      <3> QED BY <1>5, <2>2, <3>1, <3>2
    <2> QED BY <2>1, <2>2
  <1> QED BY <1>6, <1>7 DEF Seqs

(* What is in flight stays, or the client is without any.                  *)
LEMMA NothingSent ==
  ASSUME ClientInv, client' \in {"none", "connecting", "up", "down"},
         inflight' = <<>>, used' \in Nat, client' # "none" => used' = 0
  PROVE  ClientInv'
  <1>1. <<>> \in Seq({})
    OBVIOUS
  <1>2. Seqs(inflight') /\ Sized(inflight') /\ SizeOf(inflight', Kinds) = 0
    <2>1. Seqs(<<>>)
      BY <1>1 DEF Seqs
    <2> QED BY <2>1, EmptySize
  <1>3. QuotaKept'
    BY <1>2, QuotaAssumption DEF QuotaKept
  <1> QED BY <1>2, <1>3 DEF ClientInv, Seqs, Sized

(* The count is the size of what is in flight, over every step             *)
(* (inflight_message_size).                                                *)
LEMMA ClientStepKeeps == ClientInv /\ ClientStep => ClientInv'
  <1> SUFFICES ASSUME ClientInv, ClientStep PROVE ClientInv'
    OBVIOUS
  <1>1. /\ Seqs(inflight) /\ Sized(inflight) /\ used \in Nat /\ QuotaKept
        /\ Len(inflight) \in Nat /\ DOMAIN inflight = 1 .. Len(inflight)
    BY DEF ClientInv, Sized
  <1>2. ASSUME NEW message, message.kind \in Kinds,
               message.size \in Nat \ {0}, Send(message)
        PROVE  ClientInv'
    <2>1. /\ client' = client /\ client = "up" /\ WithinQuota(message.size)
          /\ inflight' = Append(inflight, message)
          /\ used' = used + message.size
      BY <1>2 DEF Send, CanSend, IsConnected
    <2>2. PICK M : inflight \in Seq(M)
      BY <1>1 DEF Seqs
    <2>3. inflight \in Seq(M \cup {message})
      BY <2>2
    <2>4. /\ inflight' \in Seq(M \cup {message})
          /\ Len(inflight') = Len(inflight) + 1
          /\ DOMAIN inflight' = 1 .. Len(inflight) + 1
          /\ \A k \in 1 .. Len(inflight) : inflight'[k] = inflight[k]
          /\ inflight'[Len(inflight) + 1] = message
      BY <2>1, <2>3
    <2> HIDE <2>1
    <2>5. /\ Sized(inflight')
          /\ SizeOf(inflight', Kinds) = SizeOf(inflight, Kinds) + message.size
      BY <1>1, <1>2, <2>4, AppendSize
    <2>6. used = SizeOf(inflight, Kinds) /\ used' = used + message.size
          /\ used' \in Nat
      BY <1>1, <1>2, <2>1 DEF QuotaKept
    <2>7. Quota = 0 \/ used' <= Quota
      BY <2>1 DEF WithinQuota
    <2> QED BY <2>1, <2>4, <2>5, <2>6, <2>7 DEF ClientInv, QuotaKept, Seqs, Sized
  <1>3. ASSUME NEW i \in DOMAIN inflight, Receive(i)
        PROVE  ClientInv'
    <2>1. PICK M : inflight \in Seq(M)
      BY <1>1 DEF Seqs
    <2> DEFINE message == [inflight[i] EXCEPT !.received = TRUE]
    <2>2. inflight' = [inflight EXCEPT ![i] = message] /\ client = "up"
          /\ UNCHANGED <<client, used>>
      BY <1>3 DEF Receive, IsConnected
    <2>3. message.kind = inflight[i].kind /\ message.size = inflight[i].size
      OBVIOUS
    <2> HIDE DEF message
    <2>4. inflight \in Seq(M \cup {message})
      BY <2>1
    <2>5. /\ inflight' \in Seq(M \cup {message})
          /\ Len(inflight') = Len(inflight) /\ DOMAIN inflight' = DOMAIN inflight
          /\ \A k \in 1 .. Len(inflight) :
                 inflight'[k] = IF k = i THEN message ELSE inflight[k]
      BY <2>2, <2>4
    <2>6. Sized(inflight') /\ SizeOf(inflight', Kinds) = SizeOf(inflight, Kinds)
      <3>1. \A k \in 1 .. Len(inflight) :
               /\ inflight'[k].kind = inflight[k].kind
               /\ inflight'[k].size = inflight[k].size
        BY <2>3, <2>5
      <3> QED BY <1>1, <2>5, <3>1, SameSize
    <2> QED BY <1>1, <2>2, <2>5, <2>6 DEF ClientInv, QuotaKept, Seqs, Sized
  <1>4. ASSUME NEW i \in DOMAIN inflight, Confirm(i)
        PROVE  ClientInv'
    <2>1. used' = used - inflight[i].size /\ client' = client
      BY <1>4, Zenon DEF Confirm
    <2>2. /\ Seqs(inflight') /\ Len(inflight') = Len(inflight) - 1
          /\ DOMAIN inflight' = 1 .. Len(inflight) - 1
          /\ \A k \in 1 .. Len(inflight) - 1 :
                inflight'[k] = IF k < i THEN inflight[k] ELSE inflight[k + 1]
      BY <1>1, <1>4, ConfirmRemoves, Zenon
    <2>3. /\ Sized(inflight')
          /\ SizeOf(inflight', Kinds)
             = SizeOf(inflight, Kinds) - inflight[i].size
      BY <1>1, <2>2, RemoveSize
    <2>4. client # "none"
      BY <1>1 DEF ClientInv
    <2>5. used = SizeOf(inflight, Kinds) /\ (Quota = 0 \/ used <= Quota)
      BY <1>1, <2>4 DEF QuotaKept
    <2>6. used' = SizeOf(inflight', Kinds) /\ used' \in Nat /\ used' <= used
      <3>1. inflight[i].size \in Nat /\ SizeOf(inflight', Kinds) \in Nat
        BY <1>1, <2>3, SizeIsNat DEF Sized
      <3> QED BY <1>1, <2>1, <2>3, <2>5, <3>1
    <2>7. QuotaKept'
      BY <1>1, <2>5, <2>6, QuotaAssumption DEF QuotaKept
    <2> QED BY <2>1, <2>2, <2>3, <2>4, <2>6, <2>7 DEF ClientInv, Seqs, Sized
  <1>5. CASE SetupClient \/ DropClient
    BY <1>5, NothingSent DEF SetupClient, DropClient
  <1>6. CASE SetupFails
    <2>1. /\ client' = "none" /\ inflight' = <<>>
          /\ \E called : used' = used - SizeOf(inflight, called)
      BY <1>6 DEF SetupFails
    <2>2. SizeOf(inflight, Kinds) <= used
      <3>1. CASE client = "none"
        <4>1. inflight = <<>>
          BY <3>1 DEF ClientInv
        <4>2. SizeOf(inflight, Kinds) = 0
          BY <4>1, EmptySize
        <4> QED BY <1>1, <4>2
      <3>2. CASE client # "none"
        BY <1>1, <3>2 DEF QuotaKept
      <3> QED BY <3>1, <3>2
    <2>3. \A called : /\ SizeOf(inflight, called) \in Nat
                      /\ SizeOf(inflight, called) <= SizeOf(inflight, Kinds)
                      /\ SizeOf(inflight, Kinds) \in Nat
      BY <1>1, SizeIsNat
    <2>4. used' \in Nat
      BY <1>1, <2>1, <2>2, <2>3
    <2> QED BY <2>1, <2>4, NothingSent
  <1>7. CASE Authenticated \/ Disconnected
    <2>1. /\ client # "none" /\ client' \in {"up", "down"}
          /\ UNCHANGED <<inflight, used>>
      BY <1>7 DEF Authenticated, Disconnected
    <2> QED BY <2>1 DEF ClientInv, QuotaKept, Seqs, Sized
  <1>8. CASE UNCHANGED clientVars
    BY <1>8 DEF clientVars, ClientInv, QuotaKept, Seqs, Sized
  <1> QED BY <1>2, <1>3, <1>4, <1>5, <1>6, <1>7, <1>8 DEF ClientStep

-----------------------------------------------------------------------------
(* Lists of events.                                                        *)

(* A list that agrees with what was sent agrees with less, and with later  *)
(* occurrences.                                                            *)
LEMMA AgreesLater ==
  ASSUME NEW list, NEW sent, NEW less \in SUBSET sent,
         NEW n \in Nat, NEW later \in Nat, n <= later,
         NEW spoilt, NEW more, spoilt \subseteq more,
         ListAgrees(list, sent, n, spoilt)
  PROVE  ListAgrees(list, less, later, more)
  <1>1. 1 .. n \subseteq 1 .. later
    OBVIOUS
  <1> QED BY <1>1 DEF ListAgrees, Agrees, Disjoint

(* A list with no other occurrences agrees with anything.                  *)
LEMMA SpoiltAgrees ==
  ASSUME NEW list, NEW n \in Nat, Past(list, n), NEW spoilt,
         list # <<>> => Len(list) \in DOMAIN list,
         \A i \in DOMAIN list : list[i].occurrences \subseteq spoilt
  PROVE  /\ \A sent : ListAgrees(list, sent, n, spoilt)
         /\ \A other : Apart(other, list, spoilt) /\ Apart(list, other, spoilt)
  BY DEF ListAgrees, Agrees, Disjoint, Apart, Past

(* An empty memory, an empty file.                                         *)
LEMMA EmptyAgrees ==
  ASSUME NEW sent, NEW n, NEW spoilt
  PROVE  <<>> \in Seq(Entry) /\ ListAgrees(<<>>, sent, n, spoilt)
  BY DEF ListAgrees

(* One more occurrence of an event.                                        *)
LEMMA RepeatedEvent ==
  ASSUME NEW event \in Entry, NEW n \in Nat, synced' \in BOOLEAN
  PROVE  /\ Repeated(event, n) \in Entry
         /\ Repeated(event, n).occurrences = event.occurrences \cup {n}
         /\ Repeated(event, n).flipped = event.flipped
  <1>1. event.occurrences \cup {n} \in SUBSET Nat
    BY DEF Entry
  <1>2. Repeated(event, n) \in Entry
    BY <1>1 DEF Entry, Repeated
  <1>3. Repeated(event, n).occurrences = event.occurrences \cup {n}
    BY DEF Entry, Repeated
  <1>4. Repeated(event, n).flipped = event.flipped
    BY DEF Entry, Repeated
  <1> QED BY <1>2, <1>3, <1>4

(* What is left behind the first k events.                                 *)
LEMMA Suffix ==
  ASSUME NEW list \in Seq(Entry), NEW k \in 0 .. Len(list),
         NEW rest, rest = SubSeq(list, k + 1, Len(list))
  PROVE  /\ rest \in Seq(Entry) /\ Len(rest) = Len(list) - k
         /\ DOMAIN rest = 1 .. Len(list) - k
         /\ \A i \in 1 .. Len(list) - k : rest[i] = list[i + k]
  <1>1. Len(list) \in Nat /\ k \in Nat
    OBVIOUS
  <1>2. \A i \in k + 1 .. Len(list) : list[i] \in Entry
    BY <1>1
  <1>3. rest \in Seq(Entry)
    BY <1>1, <1>2
  <1>4. Len(rest) = Len(list) - k
    BY <1>1
  <1>5. \A i \in 1 .. Len(list) - k : rest[i] = list[i + k]
    BY <1>1
  <1> QED BY <1>3, <1>4, <1>5

(* An occurrence extends the last event, when none of it was reported, or  *)
(* begins an event, or is ignored (log_event_internal).                    *)
LEMMA LoggedAgrees ==
  ASSUME NEW list \in Seq(Entry), NEW code \in AllCodes, NEW n \in Nat,
         NEW sent, NEW spoilt, \A one \in sent : one \subseteq 1 .. n,
         ListAgrees(list, sent, n, spoilt), synced' \in BOOLEAN
  PROVE  /\ Logged(list, code, n + 1) \in Seq(Entry)
         /\ ListAgrees(Logged(list, code, n + 1), sent, n + 1, spoilt)
         /\ \A i \in DOMAIN Logged(list, code, n + 1) :
               \/ Logged(list, code, n + 1)[i].occurrences = {n + 1}
               \/ \E j \in DOMAIN list :
                     Logged(list, code, n + 1)[i].occurrences
                         \subseteq list[j].occurrences \cup {n + 1}
  <1> DEFINE L == Logged(list, code, n + 1)
             new == [code |-> code, flipped |-> FALSE, synced |-> synced',
                     occurrences |-> {n + 1}]
             last == list[Len(list)]
             more == Repeated(last, n + 1)
  <1>1. /\ Len(list) \in Nat /\ DOMAIN list = 1 .. Len(list)
        /\ \A i \in DOMAIN list : list[i] \in Entry
    OBVIOUS
  <1>2. new \in Entry /\ new.occurrences = {n + 1} /\ ~new.flipped
    BY DEF Entry
  <1>3. /\ n + 1 \in 1 .. n + 1 /\ n + 1 \notin 1 .. n
        /\ 1 .. n \subseteq 1 .. n + 1 /\ n <= n + 1
    OBVIOUS
  <1>4. CASE L = list
    <2>1. ListAgrees(list, sent, n + 1, spoilt)
      BY <1>3, AgreesLater
    <2> QED BY <1>4, <2>1
  <1>5. CASE L = Append(list, new)
    <2>1. /\ L \in Seq(Entry) /\ Len(L) = Len(list) + 1
          /\ DOMAIN L = 1 .. Len(list) + 1 /\ L[Len(list) + 1] = new
          /\ \A i \in DOMAIN list : L[i] = list[i]
      BY <1>1, <1>2, <1>5
    <2>2. \A i \in DOMAIN L : i \in DOMAIN list \/ i = Len(list) + 1
      BY <1>1, <2>1
    <2> HIDE DEF L, new
    <2>3. \A i \in DOMAIN L :
              \/ i \in DOMAIN list /\ L[i].occurrences = list[i].occurrences
              \/ i = Len(list) + 1 /\ L[i].occurrences = {n + 1}
      BY <1>2, <2>1, <2>2
    <2>4. /\ \A one \in sent : Disjoint(one, {n + 1}, spoilt)
          /\ \A i \in DOMAIN list : Disjoint(list[i].occurrences, {n + 1}, spoilt)
                                    /\ Disjoint({n + 1}, list[i].occurrences, spoilt)
      BY <1>3 DEF ListAgrees, Disjoint
    <2>5. L[Len(L)].occurrences = {n + 1}
      BY <1>2, <2>1
    <2>6. \A i \in DOMAIN L :
              /\ L[i].occurrences \subseteq 1 .. n + 1
              /\ Agrees(L[i].occurrences, sent, spoilt)
      BY <1>3, <2>3, <2>4 DEF ListAgrees, Agrees
    <2>7. \A i, j \in DOMAIN L :
              i # j => Disjoint(L[i].occurrences, L[j].occurrences, spoilt)
      BY <2>3, <2>4 DEF ListAgrees
    <2>8. ListAgrees(L, sent, n + 1, spoilt)
      BY <2>4, <2>5, <2>6, <2>7 DEF ListAgrees
    <2> QED BY <2>1, <2>3, <2>8 DEF L
  <1>6. CASE Repeats(list, code) /\ L = [list EXCEPT ![Len(list)] = more]
    <2>1. list # <<>> /\ ~last.flipped /\ Len(list) \in DOMAIN list
      BY <1>1, <1>6 DEF Repeats, Last
    <2>2. last \in Entry
      BY <1>1, <2>1
    <2>3. /\ more \in Entry /\ more.occurrences = last.occurrences \cup {n + 1}
          /\ more.flipped = last.flipped
      <3> HIDE DEF last
      <3>1. n + 1 \in Nat
        OBVIOUS
      <3> QED BY <2>2, <3>1, RepeatedEvent
    <2> HIDE DEF more, L
    <2>4. /\ L \in Seq(Entry) /\ Len(L) = Len(list) /\ DOMAIN L = DOMAIN list
          /\ \A i \in DOMAIN list :
                L[i] = IF i = Len(list) THEN more ELSE list[i]
      BY <1>1, <1>6, <2>1, <2>3
    <2> HIDE DEF new
    <2>5. \A i \in DOMAIN list :
              /\ i # Len(list) => L[i].occurrences = list[i].occurrences
              /\ i = Len(list) =>
                    L[i].occurrences = list[i].occurrences \cup {n + 1}
              /\ n + 1 \notin list[i].occurrences
      BY <1>3, <2>3, <2>4 DEF ListAgrees
    <2>6. \A one \in sent : Disjoint(one, last.occurrences \cup {n + 1}, spoilt)
      BY <1>3, <2>1 DEF ListAgrees, Disjoint
    <2>7. \A i \in DOMAIN L :
              /\ L[i].occurrences \subseteq 1 .. n + 1
              /\ Agrees(L[i].occurrences, sent, spoilt)
      BY <1>3, <2>4, <2>5, <2>6 DEF ListAgrees, Agrees
    <2>8. \A i, j \in DOMAIN L :
              i # j => Disjoint(L[i].occurrences, L[j].occurrences, spoilt)
      BY <2>4, <2>5 DEF ListAgrees, Disjoint
    <2>9. L[Len(L)].occurrences = last.occurrences \cup {n + 1}
      BY <2>1, <2>4, <2>5
    <2>10. ListAgrees(L, sent, n + 1, spoilt)
      BY <2>6, <2>7, <2>8, <2>9 DEF ListAgrees
    <2> QED BY <2>4, <2>5, <2>10 DEF L
  <1>7. \/ L = list
        \/ L = Append(list, new)
        \/ Repeats(list, code) /\ L = [list EXCEPT ![Len(list)] = more]
    BY DEF Logged, Last
  <1> QED BY <1>4, <1>5, <1>6, <1>7

(* The list that is left is the end of the list (remove_events_upto).      *)
LEMMA RemovedAgrees ==
  ASSUME NEW upto, NEW sent, NEW n, NEW spoilt, events \in Seq(Entry),
         ListAgrees(events, sent, n, spoilt), NEW L, L = RemoveUpto(upto)
  PROVE  /\ L \in Seq(Entry)
         /\ ListAgrees(L, sent, n, spoilt)
         /\ Len(L) <= Len(events)
         /\ \A i \in DOMAIN L :
               \E j \in DOMAIN events : L[i] = events[j]
         /\ \A j \in DOMAIN events :
               \/ ~(At(events[j]) > upto)
               \/ \E i \in DOMAIN L : L[i] = events[j]
  <1> DEFINE later == {i \in DOMAIN events : At(events[i]) > upto}
             End1(k) == /\ \A i \in 1 .. k : i \notin later
                        /\ k < Len(events) => k + 1 \in later
             first == CHOOSE k \in 0 .. Len(events) : End1(k)
  <1>1. Len(events) \in Nat /\ DOMAIN events = 1 .. Len(events)
    OBVIOUS
  <1>2. \E k \in 0 .. Len(events) : End1(k)
    <2>1. CASE later = {}
      BY <1>1, <2>1
    <2>2. CASE later # {}
      <3>1. later \in SUBSET Nat
        BY <1>1
      <3>2. PICK m \in later : \A k \in later : m <= k
        BY <2>2, <3>1, NatMin
      <3> HIDE DEF later
      <3>3. m \in 1 .. Len(events)
        BY <1>1 DEF later
      <3>4. m - 1 \in 0 .. Len(events) /\ m - 1 + 1 = m
        BY <1>1, <3>3
      <3>5. \A i \in 1 .. m - 1 : i \notin later
        BY <3>1, <3>2, <3>3
      <3> QED BY <3>2, <3>4, <3>5
    <2> QED BY <2>1, <2>2
  <1> HIDE DEF later
  <1>3. first \in 0 .. Len(events) /\ \A i \in 1 .. first : i \notin later
    BY <1>2
  <1>4. L = SubSeq(events, first + 1, Len(events))
    BY DEF RemoveUpto, later
  <1> HIDE DEF first
  <1>5. /\ L \in Seq(Entry) /\ Len(L) = Len(events) - first
        /\ DOMAIN L = 1 .. Len(events) - first
        /\ \A i \in 1 .. Len(events) - first : L[i] = events[i + first]
    BY <1>3, <1>4, Suffix
  <1>6. \A i \in DOMAIN L : /\ i + first \in DOMAIN events
                            /\ L[i] = events[i + first]
                            /\ \A j \in DOMAIN L : i # j => i + first # j + first
    BY <1>1, <1>3, <1>5
  <1>7. L # <<>> => events # <<>> /\ L[Len(L)] = events[Len(events)]
    <2> SUFFICES ASSUME L # <<>> PROVE events # <<>> /\ L[Len(L)] = events[Len(events)]
      OBVIOUS
    <2>1. Len(L) \in DOMAIN L /\ Len(L) + first = Len(events)
      BY <1>1, <1>3, <1>5
    <2> QED BY <1>1, <1>6, <2>1
  <1>8. ListAgrees(L, sent, n, spoilt)
    BY <1>6, <1>7 DEF ListAgrees
  <1>9. Len(L) <= Len(events)
    BY <1>1, <1>3, <1>5
  <1>10. ASSUME NEW j \in DOMAIN events
         PROVE  \/ ~(At(events[j]) > upto)
                \/ \E i \in DOMAIN L : L[i] = events[j]
    <2>1. CASE j \in 1 .. first
      BY <1>3, <2>1 DEF later
    <2>2. CASE j \notin 1 .. first
      <3>1. j - first \in 1 .. Len(events) - first /\ j - first + first = j
        BY <1>1, <1>3, <2>2
      <3> QED BY <1>5, <3>1
    <2> QED BY <2>1, <2>2
  <1> QED BY <1>5, <1>6, <1>8, <1>9, <1>10

-----------------------------------------------------------------------------
(* The file.                                                               *)

(* The events that the file has are the first behind the header.           *)
LEMMA SavedIs ==
  ASSUME NEW data \in Files, NEW S, S = IF data.count <= Len(data.contents)
                THEN SubSeq(data.contents, 1, data.count) ELSE <<>>
  PROVE  /\ S \in Seq(Entry)
         /\ \A i \in DOMAIN S : /\ i \in DOMAIN data.contents
                                 /\ S[i] = data.contents[i]
         /\ Len(S) \in Nat /\ DOMAIN S = 1 .. Len(S) /\ Len(S) <= data.count
  <1>1. data.count \in Nat /\ data.contents \in Seq(Entry)
    BY DEF Files
  <1>2. CASE data.count <= Len(data.contents)
    <2>1. S = SubSeq(data.contents, 1, data.count)
      BY <1>2
    <2>2. PICK s : s = data.contents
      OBVIOUS
    <2>3. PICK c : c = data.count
      OBVIOUS
    <2>4. ASSUME NEW P, P = SubSeq(s, 1, c)
          PROVE  /\ P \in Seq(Entry) /\ Len(P) = c /\ DOMAIN P = 1 .. c
                 /\ \A i \in 1 .. c : P[i] = s[i]
      <3>1. \A i \in 1 .. c : s[i] \in Entry
        BY <1>1, <1>2, <2>2, <2>3
      <3> QED BY <1>1, <1>2, <2>2, <2>3, <2>4, <3>1
    <2>5. /\ S \in Seq(Entry) /\ Len(S) = c /\ DOMAIN S = 1 .. c
          /\ \A i \in 1 .. c : S[i] = s[i]
      BY <2>1, <2>2, <2>3, <2>4
    <2>6. c <= data.count
      BY <1>1, <2>3
    <2> QED BY <1>1, <1>2, <2>2, <2>3, <2>5, <2>6
  <1>3. CASE ~(data.count <= Len(data.contents))
    <2>1. S = <<>>
      BY <1>3
    <2>2. /\ <<>> \in Seq(Entry) /\ DOMAIN <<>> = {} /\ Len(<<>>) = 0
          /\ 1 .. 0 = {} /\ 0 \in Nat /\ 0 <= data.count
      BY <1>1
    <2> QED BY <2>1, <2>2, Zenon
  <1> QED BY <1>2, <1>3

(* What is written are the first events of the list, with what was there   *)
(* behind them (save_events_to_file).                                      *)
LEMMA WrittenIs ==
  ASSUME file \in Files, NEW list \in Seq(Entry), NEW n \in 0 .. Len(list),
         NEW W, W = Written(list, n)
  PROVE  /\ W \in Seq(Entry) /\ n <= Len(W)
         /\ \A i \in 1 .. n : W[i] = list[i]
         /\ \A i \in DOMAIN W :
               \/ \E j \in DOMAIN list : W[i] = list[j]
               \/ \E j \in DOMAIN file.contents : W[i] = file.contents[j]
  <1> DEFINE front == SubSeq(list, 1, n)
             back == SubSeq(file.contents, n + 1, Len(file.contents))
  <1>1. /\ file.contents \in Seq(Entry) /\ Len(list) \in Nat /\ n \in Nat
        /\ Len(file.contents) \in Nat /\ DOMAIN list = 1 .. Len(list)
        /\ DOMAIN file.contents = 1 .. Len(file.contents)
    BY DEF Files
  <1>2. /\ front \in Seq(Entry) /\ Len(front) = n
        /\ \A i \in 1 .. n : i \in DOMAIN list /\ front[i] = list[i]
    <2>1. \A i \in 1 .. n : list[i] \in Entry
      BY <1>1
    <2> QED BY <1>1, <2>1
  <1>3. /\ back \in Seq(Entry) /\ Len(back) \in Nat
        /\ \A i \in 1 .. Len(back) :
              \E j \in DOMAIN file.contents : back[i] = file.contents[j]
    <2>1. PICK s : s = file.contents
      OBVIOUS
    <2>2. CASE n < Len(s)
      <3>1. \A i \in n + 1 .. Len(s) : s[i] \in Entry
        BY <1>1, <2>1
      <3>2. back \in Seq(Entry) /\ Len(back) = Len(s) - n
        BY <1>1, <2>1, <2>2, <3>1
      <3>3. ASSUME NEW i \in 1 .. Len(back)
            PROVE  \E j \in DOMAIN s : back[i] = s[j]
        <4>1. i + n \in DOMAIN s /\ back[i] = s[i + n]
          BY <1>1, <2>1, <2>2, <3>2
        <4> QED BY <4>1
      <3> QED BY <1>1, <2>1, <2>2, <3>2, <3>3
    <2>3. CASE ~(n < Len(s))
      <3>1. back = <<>>
        BY <1>1, <2>1, <2>3
      <3> HIDE DEF back
      <3> QED BY <3>1
    <2> QED BY <2>2, <2>3
  <1>4. W = front \o back
    BY DEF Written
  <1> HIDE DEF front, back
  <1>5. /\ W \in Seq(Entry) /\ Len(W) = n + Len(back)
        /\ DOMAIN W = 1 .. n + Len(back)
        /\ \A i \in 1 .. n + Len(back) :
              W[i] = IF i <= n THEN front[i] ELSE back[i - n]
    BY <1>1, <1>2, <1>3, <1>4
  <1>6. n <= Len(W) /\ \A i \in 1 .. n : i \in 1 .. n + Len(back) /\ i <= n
    BY <1>1, <1>3, <1>5
  <1>7. ASSUME NEW i \in DOMAIN W
        PROVE  \/ \E j \in DOMAIN list : W[i] = list[j]
               \/ \E j \in DOMAIN file.contents : W[i] = file.contents[j]
    <2>1. CASE i <= n
      BY <1>1, <1>2, <1>5, <2>1
    <2>2. CASE ~(i <= n)
      <3>1. i - n \in 1 .. Len(back) /\ W[i] = back[i - n]
        BY <1>1, <1>3, <1>5, <2>2
      <3> QED BY <1>3, <3>1
    <2> QED BY <2>1, <2>2
  <1> QED BY <1>2, <1>5, <1>6, <1>7

(* A save that went well: the file has the list.                           *)
LEMMA SavesIs ==
  ASSUME file \in Files, NEW list \in Seq(Entry), NEW n, Past(list, n),
         Past(file.contents, n), Saves(list)
  PROVE  /\ file' \in Files /\ Saved' = list /\ Past(file'.contents, n)
         /\ \A i \in DOMAIN file'.contents :
               \/ \E j \in DOMAIN list : file'.contents[i] = list[j]
               \/ \E j \in DOMAIN file.contents :
                     file'.contents[i] = file.contents[j]
  <1>1. PICK W : W = Written(list, Len(list))
    OBVIOUS
  <1>2. Len(list) \in Nat /\ Len(list) \in 0 .. Len(list)
    OBVIOUS
  <1>3. /\ W \in Seq(Entry) /\ Len(list) <= Len(W)
        /\ \A i \in 1 .. Len(list) : W[i] = list[i]
        /\ \A i \in DOMAIN W :
              \/ \E j \in DOMAIN list : W[i] = list[j]
              \/ \E j \in DOMAIN file.contents : W[i] = file.contents[j]
    BY <1>1, <1>2, WrittenIs
  <1>4. file' = [count |-> Len(list), contents |-> W]
    BY <1>1 DEF Saves
  <1>5. file' \in Files /\ file'.contents = W /\ file'.count = Len(list)
    BY <1>2, <1>3, <1>4 DEF Files
  <1>6. SubSeq(W, 1, Len(list)) = list
    <2>1. PICK k : k = Len(list)
      OBVIOUS
    <2>2. PICK S : S = SubSeq(W, 1, k)
      OBVIOUS
    <2>3. \A i \in 1 .. k : W[i] \in Entry
      BY <1>2, <1>3, <2>1
    <2>4. S \in Seq(Entry) /\ Len(S) = k /\ \A i \in 1 .. k : S[i] = list[i]
      BY <1>2, <1>3, <2>1, <2>2, <2>3
    <2>5. S = list
      BY <1>2, <2>1, <2>4
    <2> QED BY <2>1, <2>2, <2>5
  <1>7. Saved' = list
    BY <1>3, <1>5, <1>6 DEF Saved
  <1> QED BY <1>3, <1>5, <1>7 DEF Past

(* A save that did not: the file has what was there or was to be written,  *)
(* and all of this is marred.                                              *)
LEMMA SavesInPartIs ==
  ASSUME file \in Files, NEW list \in Seq(Entry), NEW n \in Nat, Past(list, n),
         Past(file.contents, n), NEW ends \in BOOLEAN, SavesInPart(list, ends)
  PROVE  /\ file' \in Files /\ Past(file'.contents, n)
         /\ \A i \in DOMAIN file'.contents :
               \/ \E j \in DOMAIN list : file'.contents[i] = list[j]
               \/ \E j \in DOMAIN file.contents :
                     file'.contents[i] = file.contents[j]
         /\ marred \subseteq marred' /\ Occurrences(list) \subseteq marred'
         /\ \A sent : ListAgrees(Saved', sent, n, marred')
         /\ \A other : Apart(other, Saved', marred')
  <1>1. /\ marred \subseteq marred' /\ Occurrences(list) \subseteq marred'
        /\ Occurrences(file.contents) \subseteq marred'
    BY DEF SavesInPart
  <1>2. Len(list) \in Nat /\ file.count \in Nat /\ file.contents \in Seq(Entry)
    BY DEF Files
  <1>3. /\ file' \in Files
        /\ \A i \in DOMAIN file'.contents :
              \/ \E j \in DOMAIN list : file'.contents[i] = list[j]
              \/ \E j \in DOMAIN file.contents :
                    file'.contents[i] = file.contents[j]
    <2>1. ASSUME NEW k \in 0 .. Len(list), NEW W, W = Written(list, k)
          PROVE  /\ W \in Seq(Entry)
                 /\ \A i \in DOMAIN W :
                       \/ \E j \in DOMAIN list : W[i] = list[j]
                       \/ \E j \in DOMAIN file.contents : W[i] = file.contents[j]
      <3>1. /\ W \in Seq(Entry) /\ k <= Len(W)
            /\ \A i \in 1 .. k : W[i] = list[i]
            /\ \A i \in DOMAIN W :
                  \/ \E j \in DOMAIN list : W[i] = list[j]
                  \/ \E j \in DOMAIN file.contents : W[i] = file.contents[j]
        BY <2>1, WrittenIs
      <3> QED BY <3>1
    <2>2. CASE file' = [count |-> 0, contents |-> <<>>]
      BY <2>2 DEF Files
    <2>3. \/ \E k \in 0 .. Len(list) :
                \/ file' = [count |-> Len(list), contents |-> Written(list, k)]
                \/ file' = [file EXCEPT !.contents = Written(list, k)]
          \/ file' = [count |-> 0, contents |-> <<>>]
      <3>1. /\ 0 .. Len(list) - 1 \subseteq 0 .. Len(list)
            /\ 0 .. (IF ends THEN Len(list) ELSE 0) \subseteq 0 .. Len(list)
        BY <1>2
      <3> QED BY <3>1 DEF SavesInPart
    <2>4. ASSUME NEW k \in 0 .. Len(list),
                 \/ file' = [count |-> Len(list), contents |-> Written(list, k)]
                 \/ file' = [file EXCEPT !.contents = Written(list, k)]
          PROVE  <1>3!1 /\ <1>3!2
      <3>1. PICK W : W = Written(list, k)
        OBVIOUS
      <3>2. /\ W \in Seq(Entry)
            /\ \A i \in DOMAIN W :
                  \/ \E j \in DOMAIN list : W[i] = list[j]
                  \/ \E j \in DOMAIN file.contents : W[i] = file.contents[j]
        BY <2>1, <3>1
      <3>3. file' \in Files /\ file'.contents = W
        BY <1>2, <2>4, <3>1, <3>2 DEF Files
      <3> QED BY <3>2, <3>3
    <2> QED BY <2>2, <2>3, <2>4
  <1>4. Past(file'.contents, n)
    BY <1>3 DEF Past
  <1>5. \A i \in DOMAIN file'.contents :
            file'.contents[i].occurrences \subseteq marred'
    BY <1>1, <1>3 DEF Occurrences
  <1>6. /\ Saved' \in Seq(Entry) /\ Len(Saved') \in Nat
        /\ DOMAIN Saved' = 1 .. Len(Saved') /\ Len(Saved') <= file'.count
        /\ \A i \in DOMAIN Saved' : /\ i \in DOMAIN file'.contents
                                   /\ Saved'[i] = file'.contents[i]
    BY <1>3, SavedIs DEF Saved
  <1>7. /\ Past(Saved', n) /\ (Saved' # <<>> => Len(Saved') \in DOMAIN Saved')
        /\ \A i \in DOMAIN Saved' : Saved'[i].occurrences \subseteq marred'
    BY <1>4, <1>5, <1>6 DEF Past
  <1>8. PICK S : S = Saved'
    OBVIOUS
  <1>9. /\ \A sent : ListAgrees(S, sent, n, marred')
        /\ \A other : Apart(other, S, marred') /\ Apart(S, other, marred')
    BY <1>7, <1>8, SpoiltAgrees
  <1> QED BY <1>1, <1>3, <1>4, <1>8, <1>9

-----------------------------------------------------------------------------
(* The messages in flight.                                                 *)

(* What the client sends is added to what was sent                         *)
(* (azure_iot_send_message_async).                                         *)
LEMMA SendAdds ==
  ASSUME Seqs(inflight), NEW message, Send(message)
  PROVE  /\ Seqs(inflight')
         /\ UNION {inflight'[i].body.entries : i \in DOMAIN inflight'}
            \subseteq message.body.entries
               \cup UNION {inflight[i].body.entries : i \in DOMAIN inflight}
  <1>1. PICK M : inflight \in Seq(M)
    BY DEF Seqs
  <1>2. inflight' = Append(inflight, message)
    BY DEF Send
  <1>3. inflight \in Seq(M \cup {message})
    BY <1>1
  <1>4. /\ inflight' \in Seq(M \cup {message})
        /\ \A i \in DOMAIN inflight' :
              \/ i \in DOMAIN inflight /\ inflight'[i] = inflight[i]
              \/ inflight'[i] = message
    BY <1>2, <1>3
  <1>5. Seqs(inflight')
    BY <1>4 DEF Seqs
  <1> DEFINE before == UNION {inflight[i].body.entries : i \in DOMAIN inflight}
  <1>6. \A i \in DOMAIN inflight : inflight[i].body.entries \subseteq before
    OBVIOUS
  <1> HIDE DEF before
  <1>7. \A i \in DOMAIN inflight' :
            inflight'[i].body.entries \subseteq message.body.entries \cup before
    BY <1>4, <1>6
  <1>8. UNION {inflight'[i].body.entries : i \in DOMAIN inflight'}
        \subseteq message.body.entries \cup before
    BY <1>7
  <1> QED BY <1>5, <1>8 DEF before

(* What is confirmed was sent (send_message_callback).                     *)
LEMMA ConfirmTakes ==
  ASSUME Seqs(inflight), NEW i \in DOMAIN inflight, Confirm(i)
  PROVE  /\ Seqs(inflight')
         /\ \A k \in DOMAIN inflight' :
                \E l \in DOMAIN inflight : inflight'[k] = inflight[l]
         /\ UNION {inflight'[k].body.entries : k \in DOMAIN inflight'}
            \subseteq UNION {inflight[k].body.entries : k \in DOMAIN inflight}
  <1>1. /\ Seqs(inflight') /\ DOMAIN inflight' = 1 .. Len(inflight) - 1
        /\ \A k \in 1 .. Len(inflight) - 1 :
              inflight'[k] = IF k < i THEN inflight[k] ELSE inflight[k + 1]
    BY ConfirmRemoves
  <1>2. DOMAIN inflight = 1 .. Len(inflight) /\ Len(inflight) \in Nat
    <2>1. PICK M : inflight \in Seq(M)
      BY DEF Seqs
    <2> QED BY <2>1
  <1>3. \A k \in DOMAIN inflight' :
            \E l \in DOMAIN inflight : inflight'[k] = inflight[l]
    <2> SUFFICES ASSUME NEW k \in DOMAIN inflight'
                 PROVE  \E l \in DOMAIN inflight : inflight'[k] = inflight[l]
      OBVIOUS
    <2>1. k \in DOMAIN inflight /\ k + 1 \in DOMAIN inflight
      BY <1>1, <1>2
    <2> QED BY <1>1, <2>1
  <1> QED BY <1>1, <1>3

(* The hub receives what was sent (external).                              *)
LEMMA ReceiveKeeps ==
  ASSUME Seqs(inflight), NEW i \in DOMAIN inflight, Receive(i)
  PROVE  /\ Seqs(inflight') /\ DOMAIN inflight' = DOMAIN inflight
         /\ \A k \in DOMAIN inflight : inflight'[k].body = inflight[k].body
  <1>1. PICK M : inflight \in Seq(M)
    BY DEF Seqs
  <1> DEFINE message == [inflight[i] EXCEPT !.received = TRUE]
  <1>2. inflight' = [inflight EXCEPT ![i] = message]
    BY DEF Receive
  <1>3. message.body = inflight[i].body
    OBVIOUS
  <1> HIDE DEF message
  <1>4. inflight \in Seq(M \cup {message})
    BY <1>1
  <1>5. /\ inflight' \in Seq(M \cup {message})
        /\ DOMAIN inflight' = DOMAIN inflight
        /\ \A k \in DOMAIN inflight :
              inflight'[k] = IF k = i THEN message ELSE inflight[k]
    BY <1>2, <1>4
  <1>6. Seqs(inflight')
    BY <1>5 DEF Seqs
  <1> QED BY <1>3, <1>5, <1>6

-----------------------------------------------------------------------------
(* What is logged.                                                         *)

(* An occurrence makes the list one longer at most, and never longer than  *)
(* the memory; it is in the last event, of its own or of before            *)
(* (log_event_internal).                                                   *)
LEMMA LoggedIs ==
  ASSUME NEW list \in Seq(Entry), NEW code \in AllCodes, NEW n \in Nat,
         synced' \in BOOLEAN, NEW L, L = Logged(list, code, n)
  PROVE  /\ Len(list) <= MaxEvents => Len(L) <= MaxEvents
         /\ Len(L) \in Nat /\ DOMAIN L = 1 .. Len(L)
         /\ Len(L) = Len(list) \/ Len(L) = Len(list) + 1
         /\ \A i \in DOMAIN list : /\ i \in DOMAIN L
                                  /\ list[i].occurrences \subseteq L[i].occurrences
         /\ \A i \in DOMAIN L :
               \/ i \in DOMAIN list /\ L[i] = list[i]
               \/ /\ i = Len(L) /\ L[i].synced = synced'
                  /\ \/ (L[i].occurrences = {n} /\ i \notin DOMAIN list)
                     \/ /\ i \in DOMAIN list
                        /\ L[i].occurrences = list[i].occurrences \cup {n}
  <1> DEFINE new == [code |-> code, flipped |-> FALSE, synced |-> synced',
                     occurrences |-> {n}]
             last == list[Len(list)]
             more == Repeated(last, n)
  <1>1. /\ Len(list) \in Nat /\ DOMAIN list = 1 .. Len(list)
        /\ \A i \in DOMAIN list : list[i] \in Entry
    OBVIOUS
  <1>2. CASE L = list
    BY <1>1, <1>2
  <1>3. CASE Len(list) < MaxEvents /\ L = Append(list, new)
    <2>1. new \in Entry /\ new.synced = synced' /\ new.occurrences = {n}
      BY DEF Entry
    <2> HIDE DEF new
    <2>2. /\ Len(L) = Len(list) + 1 /\ DOMAIN L = 1 .. Len(list) + 1
          /\ L[Len(list) + 1] = new
          /\ \A i \in DOMAIN list : L[i] = list[i]
      BY <1>1, <1>3, <2>1
    <2>3. Len(L) <= MaxEvents /\ Len(L) \in Nat
      BY <1>1, <1>3, <2>2, JournalAssumption
    <2>4. \A i \in DOMAIN L :
              i \in DOMAIN list \/ (i = Len(list) + 1 /\ i \notin DOMAIN list)
      BY <1>1, <2>2
    <2>5. \A i \in DOMAIN list : i \in DOMAIN L
      BY <1>1, <2>2
    <2> QED BY <2>1, <2>2, <2>3, <2>4, <2>5
  <1>4. CASE list # <<>> /\ L = [list EXCEPT ![Len(list)] = more]
    <2>1. Len(list) \in DOMAIN list
      BY <1>1, <1>4
    <2>2. /\ more \in Entry /\ more.occurrences = last.occurrences \cup {n}
          /\ more.synced = synced'
      <3>1. last \in Entry
        BY <1>1, <2>1
      <3> HIDE DEF last
      <3>2. more.synced = synced'
        BY <3>1 DEF Repeated, Entry
      <3> QED BY <3>1, <3>2, RepeatedEvent
    <2> HIDE DEF more
    <2>3. /\ Len(L) = Len(list) /\ DOMAIN L = DOMAIN list
          /\ \A i \in DOMAIN list :
                L[i] = IF i = Len(list) THEN more ELSE list[i]
      BY <1>1, <1>4, <2>1, <2>2
    <2> QED BY <1>1, <2>1, <2>2, <2>3
  <1>5. \/ L = list
        \/ Len(list) < MaxEvents /\ L = Append(list, new)
        \/ list # <<>> /\ L = [list EXCEPT ![Len(list)] = more]
    BY DEF Logged, Repeats
  <1> QED BY <1>2, <1>3, <1>4, <1>5

(* What was apart from something of before stays so.                       *)
LEMMA LoggedApart ==
  ASSUME NEW list, NEW L, NEW other, NEW n \in Nat, NEW spoilt,
         \A i \in DOMAIN L :
            \/ L[i].occurrences = {n + 1}
            \/ \E j \in DOMAIN list :
                  L[i].occurrences \subseteq list[j].occurrences \cup {n + 1},
         Apart(list, other, spoilt), Past(other, n)
  PROVE  Apart(L, other, spoilt)
  <1>1. \A j \in DOMAIN other : n + 1 \notin other[j].occurrences
    BY DEF Past
  <1> QED BY <1>1 DEF Apart, Disjoint

(* An event of which was reported does not grow (diag_report_events).      *)
LEMMA FlippedIs ==
  ASSUME NEW list \in Seq(Entry), list # <<>>, NEW F, F = LastFlipped(list)
  PROVE  /\ F \in Seq(Entry) /\ Len(F) = Len(list) /\ DOMAIN F = DOMAIN list
         /\ Len(F) \in DOMAIN F /\ F[Len(F)].flipped
         /\ \A i \in DOMAIN list : /\ F[i].occurrences = list[i].occurrences
                                  /\ F[i].synced = list[i].synced
         /\ \A sent, n, spoilt : ListAgrees(list, sent, n, spoilt) =>
                                     ListAgrees(F, sent, n, spoilt)
         /\ \A other, spoilt : Apart(list, other, spoilt) =>
                                   Apart(F, other, spoilt)
  <1> DEFINE flip == [list[Len(list)] EXCEPT !.flipped = TRUE]
  <1>1. /\ DOMAIN list = 1 .. Len(list) /\ Len(list) \in DOMAIN list
        /\ \A i \in DOMAIN list : list[i] \in Entry
    OBVIOUS
  <1>2. /\ flip \in Entry /\ flip.flipped
        /\ flip.occurrences = list[Len(list)].occurrences
        /\ flip.synced = list[Len(list)].synced
    BY <1>1 DEF Entry
  <1>3. F = [list EXCEPT ![Len(list)] = flip]
    BY DEF LastFlipped
  <1> HIDE DEF flip
  <1>4. /\ F \in Seq(Entry) /\ DOMAIN F = DOMAIN list
        /\ Len(F) = Len(list) /\ F[Len(list)] = flip
        /\ \A i \in DOMAIN list : F[i] = IF i = Len(list) THEN flip ELSE list[i]
    BY <1>1, <1>2, <1>3
  <1>5. \A i \in DOMAIN list : /\ F[i].occurrences = list[i].occurrences
                              /\ F[i].synced = list[i].synced
    BY <1>2, <1>4
  <1>6. Len(F) \in DOMAIN F /\ F[Len(F)].flipped
    BY <1>1, <1>2, <1>4
  <1>7. ASSUME NEW sent, NEW n, NEW spoilt, ListAgrees(list, sent, n, spoilt)
        PROVE  ListAgrees(F, sent, n, spoilt)
    BY <1>4, <1>5, <1>6, <1>7 DEF ListAgrees
  <1>8. \A other, spoilt : Apart(list, other, spoilt) => Apart(F, other, spoilt)
    BY <1>4, <1>5 DEF Apart
  <1> QED BY <1>4, <1>5, <1>6, <1>7, <1>8

NoneEmpty(list) == \A i \in DOMAIN list : list[i].occurrences # {}

(* The list of a start: what was loaded, and one or two occurrences of its *)
(* own (diag_init).                                                        *)
Begun(list, loaded, n, last) ==
    \/ last = n + 1 /\ list = Logged(loaded, "RESTART", n + 1)
    \/ /\ last = n + 2
       /\ list = Logged(Logged(loaded, "SYSTEM_REBOOT", n + 1), "RESTART", n + 2)

LEMMA BegunIs ==
  ASSUME NEW loaded \in Seq(Entry), NEW n \in Nat, NEW sent, NEW spoilt,
         \A one \in sent : one \subseteq 1 .. n, synced' \in BOOLEAN,
         ListAgrees(loaded, sent, n, spoilt),
         NEW last, NEW list, Begun(list, loaded, n, last)
  PROVE  /\ list \in Seq(Entry) /\ ListAgrees(list, sent, last, spoilt)
         /\ \A other : Past(other, n) /\ Apart(loaded, other, spoilt) =>
                           Apart(list, other, spoilt)
         /\ Len(loaded) <= MaxEvents => Len(list) <= MaxEvents
         /\ NoneEmpty(loaded) => NoneEmpty(list)
  <1> DEFINE Grown(L, from, m) ==
               /\ L \in Seq(Entry) /\ ListAgrees(L, sent, m + 1, spoilt)
               /\ \A i \in DOMAIN L :
                     \/ L[i].occurrences = {m + 1}
                     \/ \E j \in DOMAIN from :
                           L[i].occurrences
                               \subseteq from[j].occurrences \cup {m + 1}
               /\ Len(from) <= MaxEvents => Len(L) <= MaxEvents
               /\ NoneEmpty(from) => NoneEmpty(L)
  <1>1. ASSUME NEW from \in Seq(Entry), NEW m \in Nat, NEW code \in AllCodes,
               ListAgrees(from, sent, m, spoilt),
               \A one \in sent : one \subseteq 1 .. m
        PROVE  Grown(Logged(from, code, m + 1), from, m)
    <2>1. PICK L : L = Logged(from, code, m + 1)
      OBVIOUS
    <2>2. /\ L \in Seq(Entry) /\ ListAgrees(L, sent, m + 1, spoilt)
          /\ \A i \in DOMAIN L :
                \/ L[i].occurrences = {m + 1}
                \/ \E j \in DOMAIN from :
                      L[i].occurrences \subseteq from[j].occurrences \cup {m + 1}
      BY <1>1, <2>1, LoggedAgrees
    <2>3. /\ Len(from) <= MaxEvents => Len(L) <= MaxEvents
          /\ \A i \in DOMAIN L :
               \/ i \in DOMAIN from /\ L[i] = from[i]
               \/ /\ i = Len(L) /\ L[i].synced = synced'
                  /\ \/ (L[i].occurrences = {m + 1} /\ i \notin DOMAIN from)
                     \/ /\ i \in DOMAIN from
                        /\ L[i].occurrences = from[i].occurrences \cup {m + 1}
      <3>1. m + 1 \in Nat
        BY <1>1
      <3> QED BY <1>1, <2>1, <3>1, LoggedIs
    <2>4. NoneEmpty(from) => NoneEmpty(L)
      BY <2>3 DEF NoneEmpty
    <2>5. Grown(L, from, m)
      BY <2>2, <2>3, <2>4
    <2> QED BY <2>1, <2>5
  <1>2. "RESTART" \in AllCodes /\ "SYSTEM_REBOOT" \in AllCodes
    BY DEF AllCodes
  <1>3. CASE last = n + 1 /\ list = Logged(loaded, "RESTART", n + 1)
    <2>1. Grown(list, loaded, n)
      BY <1>1, <1>2, <1>3
    <2>2. ASSUME NEW other, Past(other, n), Apart(loaded, other, spoilt)
          PROVE  Apart(list, other, spoilt)
      BY <2>1, <2>2, LoggedApart
    <2> QED BY <1>3, <2>1, <2>2
  <1>4. CASE /\ last = n + 2
             /\ list = Logged(Logged(loaded, "SYSTEM_REBOOT", n + 1), "RESTART", n + 2)
    <2>1. PICK first : first = Logged(loaded, "SYSTEM_REBOOT", n + 1)
      OBVIOUS
    <2>2. Grown(first, loaded, n)
      BY <1>1, <1>2, <2>1
    <2>3. PICK m \in Nat : m = n + 1 /\ m + 1 = n + 2 /\ 1 .. n \subseteq 1 .. m
      <3>1. n + 1 \in Nat /\ n + 1 + 1 = n + 2 /\ 1 .. n \subseteq 1 .. n + 1
        OBVIOUS
      <3> QED BY <3>1
    <2>4. Grown(list, first, m)
      <3>1. /\ first \in Seq(Entry) /\ ListAgrees(first, sent, m, spoilt)
            /\ list = Logged(first, "RESTART", m + 1)
            /\ \A one \in sent : one \subseteq 1 .. m
        BY <1>4, <2>1, <2>2, <2>3
      <3> HIDE DEF Grown
      <3>2. Grown(Logged(first, "RESTART", m + 1), first, m)
        BY <1>1, <1>2, <3>1
      <3> QED BY <3>1, <3>2
    <2>5. ASSUME NEW other, Past(other, n), Apart(loaded, other, spoilt)
          PROVE  Apart(list, other, spoilt)
      <3>1. Apart(first, other, spoilt)
        BY <2>2, <2>5, LoggedApart
      <3>2. Past(other, m)
        BY <2>3, <2>5 DEF Past
      <3> QED BY <2>4, <3>1, <3>2, LoggedApart
    <2> QED BY <1>4, <2>2, <2>3, <2>4, <2>5
  <1> QED BY <1>3, <1>4 DEF Begun

-----------------------------------------------------------------------------
(* The steps.                                                              *)

(* What a step starts from.                                                *)
LEMMA Facts ==
  ASSUME Inv
  PROVE  /\ events \in Seq(Entry) /\ file \in Files /\ synced \in BOOLEAN
         /\ logged \in Nat /\ logged + 1 \in Nat /\ Seqs(inflight)
         /\ logged <= logged + 1 /\ 1 .. logged \subseteq 1 .. logged + 1
         /\ Saved \in Seq(Entry) /\ Past(events, logged) /\ Past(Saved, logged)
         /\ Past(file.contents, logged) /\ Past(file.contents, logged + 1)
         /\ ListAgrees(events, Sent, logged, marred)
         /\ ListAgrees(Saved, Sent, logged, marred) /\ Apart(events, Saved, marred)
         /\ \A one \in Sent : one \subseteq 1 .. logged
  <1>1. /\ events \in Seq(Entry) /\ file \in Files /\ synced \in BOOLEAN
        /\ logged \in Nat /\ Seqs(inflight)
    BY DEF Inv, Typed, Seqs
  <1>2. logged + 1 \in Nat /\ logged <= logged + 1 /\ 1 .. logged \subseteq 1 .. logged + 1
    BY <1>1
  <1>3. Saved \in Seq(Entry)
    BY <1>1, SavedIs DEF Saved
  <1>4. /\ Past(events, logged) /\ Past(Saved, logged)
        /\ Past(file.contents, logged) /\ Past(file.contents, logged + 1)
    BY <1>2 DEF Inv, ListAgrees, Past
  <1> QED BY <1>1, <1>2, <1>3, <1>4 DEF Inv, SentAgrees

(* A list with an occurrence more.                                         *)
LEMMA MoreLogged ==
  ASSUME Inv, NEW code \in AllCodes, synced' = synced,
         NEW L, L = Logged(events, code, logged + 1)
  PROVE  /\ L \in Seq(Entry) /\ Past(L, logged + 1)
         /\ ListAgrees(L, Sent, logged + 1, marred)
         /\ Apart(L, Saved, marred)
  <1>1. /\ L \in Seq(Entry) /\ ListAgrees(L, Sent, logged + 1, marred)
        /\ \A i \in DOMAIN L :
              \/ L[i].occurrences = {logged + 1}
              \/ \E j \in DOMAIN events :
                    L[i].occurrences \subseteq events[j].occurrences
                                               \cup {logged + 1}
    BY Facts, LoggedAgrees
  <1>2. Apart(L, Saved, marred)
    BY <1>1, Facts, LoggedApart
  <1> QED BY <1>1, <1>2 DEF ListAgrees, Past

(* A step that replaces memory and file by lists that agree.               *)
LEMMA NewLists ==
  ASSUME Inv, Typed', Sent' \subseteq Sent, logged <= logged',
         marred \subseteq marred', Past(file'.contents, logged'),
         ListAgrees(events', Sent, logged', marred'),
         ListAgrees(Saved', Sent, logged', marred'),
         Apart(events', Saved', marred')
  PROVE  Inv'
  <1>1. /\ logged \in Nat /\ logged' \in Nat /\ logged' <= logged'
        /\ 1 .. logged \subseteq 1 .. logged'
    BY DEF Inv, Typed
  <1>2. SentAgrees'
    BY <1>1 DEF Inv, SentAgrees, Agrees, Disjoint
  <1>3. /\ ListAgrees(events', Sent', logged', marred')
        /\ ListAgrees(Saved', Sent', logged', marred')
    BY <1>1, AgreesLater
  <1>4. ListAgrees(events, Sent, logged, marred)'
    BY <1>3 DEF ListAgrees, Agrees
  <1>5. ListAgrees(Saved, Sent, logged, marred)'
    BY <1>3 DEF ListAgrees, Agrees
  <1>6. Apart(events, Saved, marred)' /\ Past(file.contents, logged)'
    BY DEF Apart, Past
  <1> QED BY <1>2, <1>4, <1>5, <1>6 DEF Inv

(* A step that replaces the memory only.                                   *)
LEMMA NewMemory ==
  ASSUME Inv, Seqs(inflight'), Sent' \subseteq Sent, synced' \in BOOLEAN,
         logged' \in Nat, logged <= logged', marred \subseteq marred',
         UNCHANGED file, events' \in Seq(Entry),
         ListAgrees(events', Sent, logged', marred'),
         Apart(events', Saved, marred')
  PROVE  Inv'
  <1>1. Typed'
    BY Facts DEF Typed, Seqs
  <1>2. Saved' = Saved
    BY DEF Saved
  <1>3. /\ Past(file'.contents, logged')
        /\ ListAgrees(Saved, Sent, logged', marred')
    <2>1. logged \in Nat /\ 1 .. logged \subseteq 1 .. logged'
      BY Facts
    <2>2. Past(file'.contents, logged')
      BY <2>1, Facts DEF Past
    <2>3. ListAgrees(Saved, Sent, logged', marred')
      BY <2>1, Facts, AgreesLater
    <2> QED BY <2>2, <2>3
  <1> QED BY <1>1, <1>2, <1>3, NewLists

(* A step that logs an occurrence, in memory only (log_event_internal).    *)
LEMMA StepLog ==
  ASSUME Inv, NEW code \in AllCodes, Seqs(inflight'), Sent' \subseteq Sent,
         Log(code), UNCHANGED <<file, marred>>
  PROVE  Inv'
  <1>1. /\ logged' = logged + 1 /\ events' = Logged(events, code, logged + 1)
        /\ synced' = synced
    BY DEF Log
  <1>2. /\ events' \in Seq(Entry) /\ ListAgrees(events', Sent, logged + 1, marred)
        /\ Past(events', logged + 1) /\ Apart(events', Saved, marred)
    BY <1>1, MoreLogged
  <1> QED BY <1>1, <1>2, Facts, NewMemory

(* A save that went well, of a list that agrees.                           *)
LEMMA StepSaves ==
  ASSUME Inv, Seqs(inflight'), Sent' \subseteq Sent, synced' = synced,
         logged' = logged + 1, marred \subseteq marred', events' = <<>>,
         NEW list \in Seq(Entry), Saves(list),
         ListAgrees(list, Sent, logged + 1, marred')
  PROVE  Inv'
  <1>1. Past(list, logged + 1)
    BY DEF ListAgrees, Past
  <1>2. file' \in Files /\ Saved' = list /\ Past(file'.contents, logged + 1)
    BY <1>1, Facts, SavesIs
  <1>3. /\ <<>> \in Seq(Entry) /\ ListAgrees(<<>>, Sent, logged + 1, marred')
        /\ Apart(<<>>, Saved', marred')
    BY EmptyAgrees DEF Apart
  <1>4. Typed'
    BY <1>2, <1>3, Facts DEF Typed, Seqs
  <1> QED BY <1>2, <1>3, <1>4, Facts, NewLists

(* A save that did not.                                                    *)
LEMMA StepSavesInPart ==
  ASSUME Inv, Seqs(inflight'), Sent' \subseteq Sent, synced' = synced,
         logged' = logged + 1, events' = <<>>,
         NEW list \in Seq(Entry), Past(list, logged + 1),
         NEW ends \in BOOLEAN, SavesInPart(list, ends)
  PROVE  Inv'
  <1>1. /\ file' \in Files /\ Past(file'.contents, logged + 1)
        /\ marred \subseteq marred'
        /\ \A sent : ListAgrees(Saved', sent, logged + 1, marred')
    BY Facts, SavesInPartIs
  <1>2. /\ <<>> \in Seq(Entry) /\ ListAgrees(<<>>, Sent, logged + 1, marred')
        /\ Apart(<<>>, Saved', marred')
    BY EmptyAgrees DEF Apart
  <1>3. Typed'
    BY <1>1, <1>2, Facts DEF Typed, Seqs
  <1> QED BY <1>1, <1>2, <1>3, Facts, NewLists

(* diag_log_event_to_file.                                                 *)
LEMMA StepLogToFile ==
  ASSUME Inv, NEW code \in AllCodes, NEW ends \in BOOLEAN,
         Seqs(inflight'), Sent' \subseteq Sent, LogToFile(code, events, ends)
  PROVE  Inv'
  <1>1. PICK L : L = Logged(events, code, logged + 1)
    OBVIOUS
  <1>2. /\ logged' = logged + 1 /\ synced' = synced
        /\ \/ Saves(L) /\ UNCHANGED marred /\ events' = <<>>
           \/ SavesInPart(L, ends) /\ events' = <<>>
           \/ events' \in {<<>>, L} /\ UNCHANGED <<file, marred>>
    BY <1>1 DEF LogToFile
  <1>3. /\ L \in Seq(Entry) /\ ListAgrees(L, Sent, logged + 1, marred)
        /\ Past(L, logged + 1) /\ Apart(L, Saved, marred)
    BY <1>1, <1>2, MoreLogged
  <1>4. CASE Saves(L) /\ UNCHANGED marred /\ events' = <<>>
    BY <1>2, <1>3, <1>4, StepSaves
  <1>5. CASE SavesInPart(L, ends) /\ events' = <<>>
    BY <1>2, <1>3, <1>5, StepSavesInPart
  <1>6. CASE events' \in {<<>>, L} /\ UNCHANGED <<file, marred>>
    <2>1. /\ events' \in Seq(Entry) /\ ListAgrees(events', Sent, logged + 1, marred)
          /\ Apart(events', Saved, marred)
      <3>1. /\ <<>> \in Seq(Entry) /\ ListAgrees(<<>>, Sent, logged + 1, marred)
            /\ Apart(<<>>, Saved, marred)
        BY EmptyAgrees DEF Apart
      <3> QED BY <1>3, <1>6, <3>1
    <2> QED BY <1>2, <1>6, <2>1, Facts, NewMemory
  <1> QED BY <1>2, <1>4, <1>5, <1>6

(* A report: what is sent are events of the memory, and whatever else the  *)
(* memory has now, the last event no longer grows.                         *)
LEMMA StepReported ==
  ASSUME Inv, NEW message, Send(message), UNCHANGED <<file, synced, told>>,
         \A one \in message.body.entries :
            \E i \in DOMAIN events : one = events[i].occurrences,
         logged' \in Nat, logged <= logged', marred \subseteq marred',
         events' \in Seq(Entry), ListAgrees(events', Sent, logged', marred'),
         Apart(events', Saved, marred'), events'[Len(events')].flipped,
         \A one \in message.body.entries, i \in DOMAIN events' :
            \/ one = events'[i].occurrences
            \/ Disjoint(one, events'[i].occurrences, marred')
  PROVE  Inv'
  <1> DEFINE entries == message.body.entries
  <1>1. Seqs(inflight') /\ Sent' \subseteq Sent \cup entries
    <2>1. /\ Seqs(inflight')
          /\ UNION {inflight'[i].body.entries : i \in DOMAIN inflight'}
             \subseteq entries
                \cup UNION {inflight[i].body.entries : i \in DOMAIN inflight}
      BY Facts, SendAdds
    <2> HIDE DEF entries
    <2> QED BY <2>1 DEF Sent
  <1>2. Typed'
    BY <1>1, Facts DEF Typed, Seqs
  <1>3. Saved' = Saved /\ logged \in Nat /\ 1 .. logged \subseteq 1 .. logged'
        /\ logged' <= logged'
    BY Facts DEF Saved
  <1>4. \A one \in entries : /\ one \subseteq 1 .. logged'
                            /\ Agrees(one, Sent, marred')
    BY <1>3 DEF Inv, ListAgrees, Agrees, Disjoint
  <1>5. \A one, other \in entries : one = other \/ Disjoint(one, other, marred')
    BY DEF Inv, ListAgrees, Disjoint
  <1>6. \A one \in entries, j \in DOMAIN Saved :
            Disjoint(one, Saved[j].occurrences, marred')
    BY DEF Inv, Apart, Disjoint
  <1>7. \A one \in entries, i \in DOMAIN events' :
            \/ one = events'[i].occurrences
            \/ Disjoint(one, events'[i].occurrences, marred')
    OBVIOUS
  <1> HIDE DEF entries
  <1>8. SentAgrees'
    <2>1. \A one \in Sent \cup entries :
              one \subseteq 1 .. logged' /\ Agrees(one, Sent \cup entries, marred')
      BY <1>3, <1>4, <1>5 DEF Inv, SentAgrees, Agrees, Disjoint
    <2> QED BY <1>1, <2>1 DEF SentAgrees, Agrees
  <1>9. ListAgrees(events, Sent, logged, marred)'
    <2>1. \A i \in DOMAIN events' :
              Agrees(events'[i].occurrences, Sent \cup entries, marred')
      BY <1>7 DEF ListAgrees, Agrees
    <2>2. \A i \in DOMAIN events' : Agrees(events'[i].occurrences, Sent', marred')
      BY <1>1, <2>1 DEF Agrees
    <2> QED BY <2>2 DEF ListAgrees, Agrees
  <1>10. ListAgrees(Saved, Sent, logged, marred)'
    <2>1. ListAgrees(Saved, Sent, logged', marred')
      BY <1>3, Facts, AgreesLater
    <2>2. Saved # <<>> => Len(Saved) \in DOMAIN Saved
      BY Facts
    <2>3. ListAgrees(Saved, Sent \cup entries, logged', marred')
      BY <1>6, <2>1, <2>2 DEF ListAgrees, Agrees
    <2>4. marred' \subseteq marred'
      OBVIOUS
    <2>5. ListAgrees(Saved, Sent', logged', marred')
      BY <1>1, <1>3, <2>3, <2>4, AgreesLater
    <2> QED BY <1>3, <2>5 DEF ListAgrees, Agrees
  <1>11. Apart(events, Saved, marred)' /\ Past(file.contents, logged)'
    BY <1>3, Facts DEF Apart, Past
  <1> QED BY <1>2, <1>8, <1>9, <1>10, <1>11 DEF Inv

(* The entries of a report are the events of the memory                    *)
(* (construct_event_message).                                              *)
LEMMA ReportIs ==
  ASSUME NEW last
  PROVE  /\ \A one \in Report(last).entries :
               \E i \in DOMAIN events : one = events[i].occurrences
         /\ \A i \in DOMAIN events : events[i].synced =>
               events[i].occurrences \in Report(last).entries
         /\ Report(last).upto = At(last)
         /\ \A kind, size : /\ Message(kind, size, Report(last)).body = Report(last)
                           /\ ~Message(kind, size, Report(last)).received
  BY DEF Report, Message

(* diag_report_events, alone.                                              *)
LEMMA StepReportEvents == Inv /\ ReportEvents => Inv'
  <1> SUFFICES ASSUME Inv, ReportEvents PROVE Inv'
    OBVIOUS
  <1>1. /\ events # <<>> /\ UNCHANGED <<file, synced, logged, told, marred>>
        /\ Send(Message("events", Len(events), Report(Last(events))))
        /\ events' = LastFlipped(events)
    BY DEF ReportEvents, histories
  <1>2. PICK message : message = Message("events", Len(events), Report(Last(events)))
    OBVIOUS
  <1>3. \A one \in message.body.entries :
            \E i \in DOMAIN events : one = events[i].occurrences
    BY <1>2, ReportIs
  <1>4. /\ events' \in Seq(Entry) /\ events'[Len(events')].flipped
        /\ DOMAIN events' = DOMAIN events
        /\ \A i \in DOMAIN events :
              events'[i].occurrences = events[i].occurrences
        /\ ListAgrees(events', Sent, logged, marred)
        /\ Apart(events', Saved, marred)
    BY <1>1, Facts, FlippedIs
  <1>5. \A one \in message.body.entries, i \in DOMAIN events' :
            \/ one = events'[i].occurrences
            \/ Disjoint(one, events'[i].occurrences, marred)
    BY <1>3, <1>4 DEF Inv, ListAgrees
  <1>6. /\ logged' = logged /\ logged \in Nat /\ logged <= logged
        /\ marred' = marred /\ Send(message)
        /\ UNCHANGED <<file, synced, told>>
    BY <1>1, <1>2, Facts
  <1> QED BY <1>3, <1>4, <1>5, <1>6, StepReported

(* diag_report_events, with the handler inside: what the warning changed   *)
(* of the events that were reported is marred.                             *)
LEMMA StepReportInterrupted == Inv /\ ReportInterrupted => Inv'
  <1> SUFFICES ASSUME Inv, ReportInterrupted PROVE Inv'
    OBVIOUS
  <1>1. PICK L : L = Logged(events, "WATCHDOG_WARNING", logged + 1)
    OBVIOUS
  <1>2. /\ events # <<>> /\ logged' = logged + 1 /\ synced' = synced
        /\ events' = LastFlipped(L) /\ UNCHANGED <<file, told>>
        /\ marred \subseteq marred'
        /\ Len(L) > Len(events) \/ Last(L).occurrences \subseteq marred'
        /\ \E last : Send(Message("events", Len(events), Report(last)))
    BY <1>1 DEF ReportInterrupted
  <1>3. PICK last : Send(Message("events", Len(events), Report(last)))
    BY <1>2
  <1>4. PICK message : message = Message("events", Len(events), Report(last))
    OBVIOUS
  <1>5. \A one \in message.body.entries :
            \E i \in DOMAIN events : one = events[i].occurrences
    BY <1>4, ReportIs
  <1>6. "WATCHDOG_WARNING" \in AllCodes
    BY DEF AllCodes
  <1>7. /\ L \in Seq(Entry) /\ ListAgrees(L, Sent, logged + 1, marred)
        /\ Apart(L, Saved, marred)
    BY <1>1, <1>2, <1>6, MoreLogged
  <1>8. /\ Len(L) \in Nat /\ DOMAIN L = 1 .. Len(L)
        /\ \A i \in DOMAIN events : i \in DOMAIN L
        /\ \A i \in DOMAIN L :
               \/ i \in DOMAIN events /\ L[i] = events[i]
               \/ /\ i = Len(L) /\ L[i].synced = synced'
                  /\ \/ (L[i].occurrences = {logged + 1} /\ i \notin DOMAIN events)
                     \/ /\ i \in DOMAIN events
                        /\ L[i].occurrences = events[i].occurrences \cup {logged + 1}
    <2>1. synced' \in BOOLEAN /\ logged + 1 \in Nat /\ events \in Seq(Entry)
      BY <1>2, Facts
    <2> QED BY <1>1, <1>6, <2>1, LoggedIs
  <1>9. DOMAIN events = 1 .. Len(events) /\ Len(events) \in Nat
    BY Facts
  <1>10. L # <<>>
    <2>1. 1 \in DOMAIN events
      BY <1>2, Facts
    <2>2. 1 \in DOMAIN L
      BY <1>8, <2>1
    <2> QED BY <2>2
  <1>11. \A i \in DOMAIN L :
            \/ i \in DOMAIN events /\ L[i].occurrences = events[i].occurrences
            \/ L[i].occurrences = {logged + 1}
            \/ L[i].occurrences \subseteq marred'
    BY <1>2, <1>8, <1>9 DEF Last
  <1>12. \A one \in message.body.entries, i \in DOMAIN L :
            \/ one = L[i].occurrences
            \/ Disjoint(one, L[i].occurrences, marred')
    <2>1. \A one \in message.body.entries : logged + 1 \notin one
      <3>1. logged + 1 \notin 1 .. logged
        BY Facts
      <3> QED BY <1>5, <3>1, Facts DEF Past
    <2>2. ASSUME NEW one \in message.body.entries, NEW i \in DOMAIN events
          PROVE  \/ one = events[i].occurrences
                 \/ Disjoint(one, events[i].occurrences, marred')
      BY <1>2, <1>5 DEF Inv, ListAgrees, Disjoint
    <2> QED BY <1>11, <2>1, <2>2 DEF Disjoint
  <1>13. ListAgrees(L, Sent, logged + 1, marred') /\ Apart(L, Saved, marred')
    BY <1>2, <1>7 DEF ListAgrees, Agrees, Apart, Disjoint
  <1>14. /\ events' \in Seq(Entry) /\ events'[Len(events')].flipped
         /\ DOMAIN events' = DOMAIN L
         /\ \A i \in DOMAIN L : events'[i].occurrences = L[i].occurrences
         /\ ListAgrees(events', Sent, logged + 1, marred')
         /\ Apart(events', Saved, marred')
    BY <1>2, <1>7, <1>10, <1>13, FlippedIs
  <1>15. \A one \in message.body.entries, i \in DOMAIN events' :
            \/ one = events'[i].occurrences
            \/ Disjoint(one, events'[i].occurrences, marred')
    BY <1>12, <1>14
  <1>16. /\ logged' = logged + 1 /\ logged + 1 \in Nat /\ logged <= logged + 1
         /\ Send(message) /\ UNCHANGED <<file, synced, told>>
    BY <1>2, <1>3, <1>4, Facts
  <1> QED BY <1>2, <1>5, <1>14, <1>15, <1>16, StepReported

(* event_message_delivered, remove_events_upto.                            *)
LEMMA StepDelivered == Inv /\ Delivered => Inv'
  <1> SUFFICES ASSUME Inv, NEW i \in DOMAIN inflight, Confirm(i),
                      events' = RemoveUpto(inflight[i].body.upto),
                      UNCHANGED <<file, synced, logged, histories>>
               PROVE  Inv'
    BY DEF Delivered
  <1>1. /\ Seqs(inflight')
        /\ UNION {inflight'[k].body.entries : k \in DOMAIN inflight'}
           \subseteq UNION {inflight[k].body.entries : k \in DOMAIN inflight}
    BY ConfirmTakes DEF Inv, Typed, Seqs
  <1>2. Sent' \subseteq Sent /\ marred' = marred
    BY <1>1 DEF Sent, histories
  <1>3. /\ events' \in Seq(Entry) /\ ListAgrees(events', Sent, logged, marred)
        /\ \A k \in DOMAIN events' :
              \E j \in DOMAIN events : events'[k] = events[j]
    BY Facts, RemovedAgrees
  <1>4. Apart(events', Saved, marred)
    BY <1>3 DEF Inv, Apart
  <1>5. /\ logged <= logged' /\ logged' = logged /\ UNCHANGED file
        /\ synced' \in BOOLEAN /\ logged' \in Nat
    BY Facts
  <1> QED BY <1>1, <1>2, <1>3, <1>4, <1>5, NewMemory

(* What the handler left behind in a removal agrees, as all of it is       *)
(* marred.                                                                 *)
LEMMA LeftBehind ==
  ASSUME NEW list \in Seq(Entry), NEW behind \in Entry, NEW sent, NEW other,
         NEW n \in Nat, NEW spoilt, ListAgrees(list, sent, n, spoilt),
         behind.occurrences \subseteq 1 .. n,
         behind.occurrences \subseteq spoilt, Apart(list, other, spoilt),
         NEW R, R[Len(R)] = behind,
         \A i \in DOMAIN R : (i \in DOMAIN list /\ R[i] = list[i]) \/ i = Len(R)
  PROVE  ListAgrees(R, sent, n, spoilt) /\ Apart(R, other, spoilt)
  <1>1. \A i \in DOMAIN R :
            /\ R[i].occurrences \subseteq 1 .. n
            /\ Agrees(R[i].occurrences, sent, spoilt)
            /\ \A j \in DOMAIN R :
                  i # j => Disjoint(R[i].occurrences, R[j].occurrences, spoilt)
    BY DEF ListAgrees, Agrees, Disjoint
  <1>2. \A one \in sent : Disjoint(one, R[Len(R)].occurrences, spoilt)
    BY DEF Disjoint
  <1>3. Apart(R, other, spoilt)
    BY DEF Apart, Disjoint
  <1> QED BY <1>1, <1>2, <1>3 DEF ListAgrees

(* event_message_delivered, with the handler inside.                       *)
LEMMA StepRemovalInterrupted == Inv /\ RemovalInterrupted => Inv'
  <1> SUFFICES ASSUME Inv, RemovalInterrupted PROVE Inv'
    OBVIOUS
  <1>1. /\ logged' = logged + 1 /\ synced' = synced /\ UNCHANGED <<file, told>>
    BY DEF RemovalInterrupted
  <1>2. PICK i, kept, behind :
            /\ i \in DOMAIN inflight
            /\ kept = RemoveUpto(inflight[i].body.upto)
            /\ behind = events[Len(kept) + 1]
            /\ Confirm(i) /\ Len(kept) < Len(events)
            /\ \/ /\ events' = kept
                  /\ marred' = marred \cup {logged'}
               \/ /\ events' = Append(kept, behind)
                  /\ marred' = marred \cup {logged'} \cup behind.occurrences
    BY DEF RemovalInterrupted
  <1>3. Seqs(inflight') /\ Sent' \subseteq Sent
    <2>1. /\ Seqs(inflight')
          /\ UNION {inflight'[k].body.entries : k \in DOMAIN inflight'}
             \subseteq UNION {inflight[k].body.entries : k \in DOMAIN inflight}
      BY <1>2, Facts, ConfirmTakes
    <2> QED BY <1>1, <2>1 DEF Sent
  <1>4. /\ kept \in Seq(Entry) /\ ListAgrees(kept, Sent, logged, marred)
        /\ \A k \in DOMAIN kept : \E j \in DOMAIN events : kept[k] = events[j]
    BY <1>2, Facts, RemovedAgrees
  <1>5. marred \subseteq marred' /\ logged' \in Nat /\ logged <= logged'
    BY <1>1, <1>2, Facts
  <1>6. Apart(kept, Saved, marred')
    BY <1>4, <1>5 DEF Inv, Apart, Disjoint
  <1>7. Sent \subseteq Sent
    OBVIOUS
  <1>8. ListAgrees(kept, Sent, logged', marred')
    BY <1>4, <1>5, <1>7, Facts, AgreesLater
  <1>9. events' \in Seq(Entry) /\ ListAgrees(events', Sent, logged', marred')
        /\ Apart(events', Saved, marred')
    <2>1. CASE events' = kept
      BY <1>4, <1>6, <1>8, <2>1
    <2>2. CASE /\ events' = Append(kept, behind)
               /\ marred' = marred \cup {logged'} \cup behind.occurrences
      <3>1. Len(kept) + 1 \in DOMAIN events
        BY <1>2, <1>4, Facts
      <3>2. /\ behind \in Entry /\ behind.occurrences \subseteq 1 .. logged'
            /\ behind.occurrences \subseteq marred'
        BY <1>1, <1>2, <2>2, <3>1, Facts DEF Past
      <3>3. PICK spoilt, n, R : spoilt = marred' /\ n = logged' /\ R = events'
        OBVIOUS
      <3>4. /\ ListAgrees(kept, Sent, n, spoilt) /\ Apart(kept, Saved, spoilt)
            /\ behind.occurrences \subseteq 1 .. n
            /\ behind.occurrences \subseteq spoilt
            /\ behind \in Entry /\ kept \in Seq(Entry) /\ n \in Nat
        BY <1>4, <1>5, <1>6, <1>8, <2>2, <3>2, <3>3
      <3>5. /\ R \in Seq(Entry) /\ R[Len(R)] = behind
            /\ \A k \in DOMAIN R :
                   (k \in DOMAIN kept /\ R[k] = kept[k]) \/ k = Len(R)
        BY <2>2, <3>3, <3>4
      <3>6. ListAgrees(R, Sent, n, spoilt) /\ Apart(R, Saved, spoilt)
        BY <3>4, <3>5, LeftBehind
      <3> QED BY <3>3, <3>5, <3>6
    <2> QED BY <1>2, <2>1, <2>2
  <1>10. synced' \in BOOLEAN
    BY <1>1, Facts
  <1> QED BY <1>1, <1>3, <1>5, <1>9, <1>10, NewMemory

(* What a start loads, and what it leaves in the file (diag_init).         *)
LEMMA LoadedIs ==
  ASSUME Inv, Start
  PROVE  \E loaded :
             /\ loaded \in {Saved, <<>>} /\ Begun(events', loaded, logged, logged')
             /\ \/ UNCHANGED <<file, marred>> /\ loaded = <<>>
                \/ /\ file' = [file EXCEPT !.count = 0] /\ UNCHANGED marred
                \/ /\ UNCHANGED file
                   /\ marred' = marred \cup Occurrences(Saved)
  <1>1. PICK booted \in BOOLEAN, loaded \in {Loadable, <<>>} :
            /\ logged' = logged + (IF booted THEN 2 ELSE 1)
            /\ events' = Logged(IF booted
                                THEN Logged(loaded, "SYSTEM_REBOOT", logged + 1)
                                ELSE loaded, "RESTART",
                                logged + (IF booted THEN 2 ELSE 1))
            /\ IF loaded = <<>> THEN UNCHANGED <<file, marred>> ELSE Cleared
    BY DEF Start
  <1>2. loaded = <<>> \/ (loaded = Saved /\ Loadable = Saved)
    BY <1>1 DEF Loadable
  <1>3. Begun(events', loaded, logged, logged')
    <2>1. CASE booted
      BY <1>1, <2>1 DEF Begun
    <2>2. CASE ~booted
      BY <1>1, <2>2 DEF Begun
    <2> QED BY <2>1, <2>2
  <1>4. CASE loaded = <<>>
    BY <1>1, <1>3, <1>4
  <1>5. CASE loaded # <<>>
    <2>1. Cleared /\ loaded = Saved /\ Loadable = Saved
      BY <1>1, <1>2, <1>5
    <2>2. \/ file' = [file EXCEPT !.count = 0] /\ UNCHANGED marred
          \/ UNCHANGED file /\ marred' = marred \cup Occurrences(Saved)
      BY <2>1 DEF Cleared
    <2> QED BY <1>3, <2>1, <2>2
  <1> QED BY <1>4, <1>5

(* diag_init: the events of the file, and one or two of the start.         *)
LEMMA StepStart == Inv /\ Start => Inv'
  <1> SUFFICES ASSUME Inv, Start PROVE Inv'
    OBVIOUS
  <1>1. UNCHANGED <<told, inflight>> /\ synced' \in BOOLEAN
    BY DEF Start, clientVars
  <1>2. Sent' = Sent /\ Seqs(inflight')
    BY <1>1, Facts DEF Sent, Seqs
  <1>3. PICK loaded :
             /\ loaded \in {Saved, <<>>} /\ Begun(events', loaded, logged, logged')
             /\ \/ UNCHANGED <<file, marred>> /\ loaded = <<>>
                \/ /\ file' = [file EXCEPT !.count = 0] /\ UNCHANGED marred
                \/ /\ UNCHANGED file
                   /\ marred' = marred \cup Occurrences(Saved)
    BY LoadedIs
  <1>4. logged' \in Nat /\ logged <= logged'
    <2>1. logged' = logged + 1 \/ logged' = logged + 2
      BY <1>3 DEF Begun
    <2> QED BY <2>1, Facts
  <1>5. /\ loaded \in Seq(Entry) /\ ListAgrees(loaded, Sent, logged, marred)
    BY <1>3, Facts, EmptyAgrees
  <1>6. /\ events' \in Seq(Entry) /\ ListAgrees(events', Sent, logged', marred)
        /\ \A other : Past(other, logged) /\ Apart(loaded, other, marred) =>
                          Apart(events', other, marred)
    BY <1>1, <1>3, <1>5, Facts, BegunIs
  <1>7. CASE UNCHANGED <<file, marred>> /\ loaded = <<>>
    <2>1. Apart(events', Saved, marred)
      <3>1. Apart(loaded, Saved, marred)
        BY <1>7 DEF Apart
      <3> QED BY <1>6, <3>1, Facts
    <2>2. marred' = marred /\ UNCHANGED file
      BY <1>7
    <2> QED BY <1>1, <1>2, <1>4, <1>6, <2>1, <2>2, NewMemory
  <1>8. CASE file' = [file EXCEPT !.count = 0] /\ UNCHANGED marred
    <2>1. /\ file' \in Files /\ file'.count = 0 /\ file'.contents = file.contents
      BY <1>8, Facts DEF Files
    <2>2. Saved' = <<>>
      <3>1. SubSeq(file'.contents, 1, 0) = <<>>
        <4>1. PICK M : file'.contents \in Seq(M)
          BY <2>1 DEF Files
        <4> QED BY <4>1
      <3> QED BY <2>1, <3>1 DEF Saved
    <2>3. /\ ListAgrees(Saved', Sent, logged', marred') /\ Apart(events', Saved', marred')
      BY <2>2, EmptyAgrees DEF Apart
    <2>4. Past(file'.contents, logged')
      <3>1. 1 .. logged \subseteq 1 .. logged'
        BY <1>4, Facts
      <3> QED BY <2>1, <3>1, Facts DEF Past
    <2>5. Typed'
      BY <1>1, <1>2, <1>4, <1>6, <2>1 DEF Typed, Seqs
    <2> QED BY <1>2, <1>4, <1>6, <1>8, <2>3, <2>4, <2>5, NewLists
  <1>9. CASE UNCHANGED file /\ marred' = marred \cup Occurrences(Saved)
    <2>1. marred \subseteq marred' /\ Sent \subseteq Sent /\ logged' <= logged'
      BY <1>4, <1>9
    <2>2. ListAgrees(events', Sent, logged', marred')
      BY <1>4, <1>6, <2>1, AgreesLater
    <2>3. Apart(events', Saved, marred')
      <3>1. \A j \in DOMAIN Saved : Saved[j].occurrences \subseteq marred'
        BY <1>9 DEF Occurrences
      <3> QED BY <3>1 DEF Apart, Disjoint
    <2> QED BY <1>1, <1>2, <1>4, <1>6, <1>9, <2>1, <2>2, <2>3, NewMemory
  <1> QED BY <1>3, <1>7, <1>8, <1>9

(* The events in the middle of a removal.                                  *)
Halved(half, list) ==
    /\ half \in Seq(Entry)
    /\ \A j \in DOMAIN half : \E k \in DOMAIN list : half[j] = list[k]

LEMMA HalfIs ==
  ASSUME Inv, WatchdogInRemoval
  PROVE  \E half : /\ Halved(half, events) /\ Len(half) = Len(events)
                   /\ LET all == Logged(half, "WATCHDOG", logged + 1)
                      IN  \/ Saves(all) /\ marred' = marred \cup Occurrences(half)
                          \/ SavesInPart(all, TRUE)
  <1>1. PICK i, moved, kept, n, half :
            /\ i \in DOMAIN inflight
            /\ kept = RemoveUpto(inflight[i].body.upto)
            /\ n = Len(events) - Len(kept)
            /\ moved \in 1 .. Len(events) - n /\ n > 0
            /\ half = [j \in DOMAIN events |->
                          events[IF j <= moved THEN j + n ELSE j]]
            /\ LET all == Logged(half, "WATCHDOG", logged + 1)
               IN  \/ Saves(all) /\ marred' = marred \cup Occurrences(half)
                   \/ SavesInPart(all, TRUE)
    BY DEF WatchdogInRemoval
  <1>2. /\ kept \in Seq(Entry) /\ Len(kept) <= Len(events)
        /\ ListAgrees(kept, Sent, logged, marred)
        /\ \A k \in DOMAIN kept : \E j \in DOMAIN events : kept[k] = events[j]
        /\ \A j \in DOMAIN events :
               \/ ~(At(events[j]) > inflight[i].body.upto)
               \/ \E k \in DOMAIN kept : kept[k] = events[j]
    BY <1>1, Facts, RemovedAgrees
  <1>3. /\ DOMAIN events = 1 .. Len(events) /\ Len(events) \in Nat
        /\ Len(kept) \in Nat /\ n \in Nat /\ \A j \in DOMAIN events : events[j] \in Entry
    BY <1>1, <1>2, Facts
  <1>4. \A j \in DOMAIN events :
            (IF j <= moved THEN j + n ELSE j) \in DOMAIN events
    BY <1>1, <1>3
  <1>5. /\ DOMAIN half = DOMAIN events
        /\ \A j \in DOMAIN half : \E k \in DOMAIN events : half[j] = events[k]
    BY <1>1, <1>4
  <1>6. half \in Seq(Entry) /\ Len(half) = Len(events)
    <2>1. \A j \in 1 .. Len(events) : half[j] \in Entry
      BY <1>3, <1>5
    <2>2. half = [j \in 1 .. Len(events) |-> half[j]]
      BY <1>1, <1>3, <1>5
    <2> QED BY <1>3, <2>1, <2>2
  <1> QED BY <1>1, <1>5, <1>6 DEF Halved

(* watchdog_handler, inside a removal.                                     *)
LEMMA StepWatchdogInRemoval ==
  ASSUME Inv, WatchdogInRemoval, Seqs(inflight'), Sent' \subseteq Sent
  PROVE  Inv'
  <1>1. logged' = logged + 1 /\ synced' = synced /\ events' = <<>>
    BY DEF WatchdogInRemoval
  <1>2. PICK half, all :
            /\ Halved(half, events) /\ all = Logged(half, "WATCHDOG", logged + 1)
            /\ \/ Saves(all) /\ marred' = marred \cup Occurrences(half)
               \/ SavesInPart(all, TRUE)
    BY HalfIs
  <1>3. half \in Seq(Entry) /\ Past(half, logged)
    BY <1>2, Facts DEF Halved, Past
  <1>4. half # <<>> => Len(half) \in DOMAIN half
    BY <1>3
  <1>5. PICK spoilt : spoilt = marred \cup Occurrences(half)
    OBVIOUS
  <1>6. ListAgrees(half, Sent, logged, spoilt)
    <2>1. \A j \in DOMAIN half : half[j].occurrences \subseteq spoilt
      BY <1>5 DEF Occurrences
    <2> QED BY <1>3, <1>4, <2>1, Facts, SpoiltAgrees
  <1>7. /\ all \in Seq(Entry) /\ ListAgrees(all, Sent, logged + 1, spoilt)
        /\ \A j \in DOMAIN all :
              \/ all[j].occurrences = {logged + 1}
              \/ \E k \in DOMAIN half :
                    all[j].occurrences \subseteq half[k].occurrences \cup {logged + 1}
    <2>1. "WATCHDOG" \in AllCodes
      BY DEF AllCodes, SaveCodes
    <2>2. /\ logged \in Nat /\ synced' \in BOOLEAN
          /\ \A one \in Sent : one \subseteq 1 .. logged
      BY <1>1, Facts
    <2>3. all = Logged(half, "WATCHDOG", logged + 1)
      BY <1>2
    <2>4. /\ Logged(half, "WATCHDOG", logged + 1) \in Seq(Entry)
          /\ ListAgrees(Logged(half, "WATCHDOG", logged + 1), Sent, logged + 1,
                        spoilt)
          /\ \A j \in DOMAIN Logged(half, "WATCHDOG", logged + 1) :
                \/ Logged(half, "WATCHDOG", logged + 1)[j].occurrences = {logged + 1}
                \/ \E k \in DOMAIN half :
                      Logged(half, "WATCHDOG", logged + 1)[j].occurrences
                          \subseteq half[k].occurrences \cup {logged + 1}
      BY <1>3, <1>6, <2>1, <2>2, LoggedAgrees, ZenonT(60)
    <2> QED BY <2>3, <2>4, Zenon
  <1>8. CASE Saves(all) /\ marred' = marred \cup Occurrences(half)
    BY <1>1, <1>5, <1>7, <1>8, StepSaves
  <1>9. CASE SavesInPart(all, TRUE)
    <2>1. Past(all, logged + 1)
      BY <1>7 DEF ListAgrees, Past
    <2> QED BY <1>1, <1>7, <1>9, <2>1, StepSavesInPart
  <1> QED BY <1>2, <1>8, <1>9

(* The power fails inside the write of a file.                             *)
LEMMA StepPowerFailsInSave ==
  ASSUME Inv, PowerFailsInSave, Seqs(inflight'), Sent' \subseteq Sent
  PROVE  Inv'
  <1>1. logged' = logged + 1 /\ synced' = synced /\ events' = <<>>
    BY DEF PowerFailsInSave
  <1>2. PICK code, all :
            /\ code \in SaveCodes /\ all = Logged(events, code, logged + 1)
            /\ SavesInPart(all, TRUE)
    BY DEF PowerFailsInSave
  <1>3. code \in AllCodes
    BY <1>2 DEF AllCodes
  <1>4. all \in Seq(Entry) /\ Past(all, logged + 1)
    BY <1>1, <1>2, <1>3, MoreLogged
  <1> QED BY <1>1, <1>2, <1>4, StepSavesInPart

(* What is in flight stays, or goes with the client.                       *)
LEMMA InflightKept ==
  ASSUME Inv, inflight' \in {inflight, <<>>}, told' = told
  PROVE  Seqs(inflight') /\ Sent' \subseteq Sent
  <1>1. <<>> \in Seq({}) /\ DOMAIN <<>> = {}
    OBVIOUS
  <1>2. CASE inflight' = inflight
    BY <1>2 DEF Inv, Typed, Seqs, Sent
  <1>3. CASE inflight' = <<>>
    <2>1. Seqs(inflight')
      BY <1>1, <1>3 DEF Seqs
    <2>2. UNION {inflight'[i].body.entries : i \in DOMAIN inflight'} = {}
      BY <1>1, <1>3
    <2> QED BY <2>1, <2>2 DEF Sent
  <1> QED BY <1>2, <1>3

(* The memory and the file are as they were, and nothing new is sent.      *)
LEMMA QuietSteps ==
  ASSUME Inv, UNCHANGED <<events, file, logged, marred>>, synced' \in BOOLEAN,
         Seqs(inflight'), Sent' \subseteq Sent
  PROVE  Inv'
  <1>1. logged <= logged /\ marred \subseteq marred
    BY Facts
  <1> QED BY <1>1, Facts, NewMemory

(* What the hub receives was sent before (external).                       *)
LEMMA StepHubReceives == Inv /\ HubReceives => Inv'
  <1> SUFFICES ASSUME Inv, NEW i \in DOMAIN inflight, Receive(i),
                      told' = told \cup inflight[i].body.entries,
                      UNCHANGED <<events, file, synced, logged, marred>>
               PROVE  Inv'
    BY DEF HubReceives
  <1>1. /\ Seqs(inflight') /\ DOMAIN inflight' = DOMAIN inflight
        /\ \A k \in DOMAIN inflight : inflight'[k].body = inflight[k].body
    BY ReceiveKeeps DEF Inv, Typed, Seqs
  <1>2. UNION {inflight'[k].body.entries : k \in DOMAIN inflight'}
        \subseteq UNION {inflight[k].body.entries : k \in DOMAIN inflight}
    BY <1>1
  <1>3. Sent' \subseteq Sent
    BY <1>2 DEF Sent
  <1>4. synced' \in BOOLEAN
    BY DEF Inv, Typed
  <1> QED BY <1>1, <1>3, <1>4, QuietSteps

(* Every step keeps the invariant.                                         *)
LEMMA Step == Inv /\ [JournalNext]_journalVars => Inv'
  <1> SUFFICES ASSUME Inv, [JournalNext]_journalVars PROVE Inv'
    OBVIOUS
  <1>0. synced \in BOOLEAN
    BY DEF Inv, Typed
  <1>1. CASE LogEvent
    <2>1. /\ \E code \in AllCodes : Log(code)
          /\ inflight' = inflight /\ told' = told /\ UNCHANGED <<file, marred>>
      BY <1>1 DEF LogEvent, AllCodes, clientVars, histories
    <2> QED BY <2>1, InflightKept, StepLog
  <1>2. CASE ClockSync
    <2>1. /\ UNCHANGED <<events, file, logged, told, inflight, marred>>
          /\ synced' \in BOOLEAN
      BY <1>2 DEF ClockSync, clientVars, histories
    <2> QED BY <2>1, InflightKept, QuietSteps
  <1>3. CASE NotDelivered
    <2>1. PICK i \in DOMAIN inflight : Confirm(i)
      BY <1>3 DEF NotDelivered
    <2>2. UNCHANGED <<events, file, synced, logged, told, marred>>
      BY <1>3 DEF NotDelivered, histories
    <2>3. /\ Seqs(inflight')
          /\ UNION {inflight'[k].body.entries : k \in DOMAIN inflight'}
             \subseteq UNION {inflight[k].body.entries : k \in DOMAIN inflight}
      BY <2>1, ConfirmTakes DEF Inv, Typed, Seqs
    <2>4. Sent' \subseteq Sent
      BY <2>2, <2>3 DEF Sent
    <2> QED BY <1>0, <2>2, <2>3, <2>4, QuietSteps
  <1>4. CASE Connect \/ Disconnect
    <2>1. /\ \E code \in AllCodes : Log(code)
          /\ inflight' = inflight /\ told' = told /\ UNCHANGED <<file, marred>>
      BY <1>4 DEF Connect, Disconnect, Authenticated, Disconnected, AllCodes,
                  histories
    <2> QED BY <2>1, InflightKept, StepLog
  <1>5. CASE Setup
    <2>1. inflight' = <<>> /\ told' = told /\ UNCHANGED <<file, marred>>
      BY <1>5 DEF Setup, SetupClient, SetupFails, histories
    <2>2. CASE UNCHANGED <<events, synced, logged>>
      BY <1>0, <2>1, <2>2, InflightKept, QuietSteps
    <2>3. CASE Log("SETUP_FAILED")
      <3>1. \E code \in AllCodes : Log(code)
        BY <2>3 DEF AllCodes
      <3> QED BY <2>1, <3>1, InflightKept, StepLog
    <2> QED BY <1>5, <2>2, <2>3 DEF Setup
  <1>6. CASE Reboot \/ Terminate \/ Watchdog
    <2>1. /\ \E code \in AllCodes, ends \in BOOLEAN : LogToFile(code, events, ends)
          /\ inflight' \in {inflight, <<>>} /\ told' = told
      BY <1>6 DEF Reboot, Terminate, Watchdog, AllCodes, SaveCodes, clientVars,
                  DropClient
    <2> QED BY <2>1, InflightKept, StepLogToFile
  <1>7. CASE End
    <2>1. /\ events' = <<>> /\ inflight' = <<>>
          /\ UNCHANGED <<file, synced, logged, told, marred>>
      BY <1>7 DEF End, DropClient, histories
    <2>2. Seqs(inflight') /\ Sent' \subseteq Sent
      BY <2>1, InflightKept
    <2>3. /\ events' \in Seq(Entry) /\ ListAgrees(events', Sent, logged, marred)
          /\ Apart(events', Saved, marred)
      BY <2>1, EmptyAgrees DEF Apart
    <2>4. logged <= logged /\ logged \in Nat /\ marred \subseteq marred
      BY Facts
    <2> QED BY <1>0, <2>1, <2>2, <2>3, <2>4, NewMemory
  <1>8. CASE UNCHANGED journalVars
    BY <1>0, <1>8, InflightKept, QuietSteps DEF journalVars, clientVars, histories
  <1>9. CASE WatchdogInRemoval \/ PowerFailsInSave
    <2>1. inflight' = <<>> /\ told' = told
      BY <1>9 DEF WatchdogInRemoval, PowerFailsInSave, DropClient
    <2> QED BY <1>9, <2>1, InflightKept, StepWatchdogInRemoval,
               StepPowerFailsInSave
  <1> QED BY <1>1, <1>2, <1>3, <1>4, <1>5, <1>6, <1>7, <1>8, <1>9,
             StepHubReceives, StepReportEvents, StepReportInterrupted,
             StepDelivered, StepRemovalInterrupted, StepStart DEF JournalNext

(* A process that never started has nothing.                               *)
LEMMA First == JournalInit => Inv
  <1> SUFFICES ASSUME JournalInit PROVE Inv
    OBVIOUS
  <1>1. /\ events = <<>> /\ file = [count |-> 0, contents |-> <<>>]
        /\ synced = FALSE /\ logged = 0 /\ told = {} /\ inflight = <<>>
    BY DEF JournalInit, NoClient
  <1>2. <<>> \in Seq({}) /\ DOMAIN <<>> = {} /\ <<>> \in Seq(Entry) /\ 0 \in Nat
    OBVIOUS
  <1>3. synced \in BOOLEAN
    BY <1>1, Zenon
  <1>4. file \in Files /\ file.contents = <<>> /\ file.count = 0
    BY <1>1, <1>2 DEF Files
  <1>5. Saved = <<>>
    <2>1. SubSeq(<<>>, 1, 0) = <<>>
      OBVIOUS
    <2> QED BY <1>4, <2>1 DEF Saved
  <1>6. /\ ListAgrees(events, Sent, logged, marred)
        /\ ListAgrees(Saved, Sent, logged, marred)
    BY <1>1, <1>5, EmptyAgrees
  <1>7. Typed
    BY <1>1, <1>2, <1>3, <1>4 DEF Typed
  <1>8. Sent = {}
    BY <1>1, <1>2 DEF Sent
  <1>9. /\ SentAgrees /\ Apart(events, Saved, marred) /\ Past(file.contents, logged)
    BY <1>1, <1>2, <1>4, <1>8 DEF SentAgrees, Apart, Past
  <1> QED BY <1>6, <1>7, <1>9 DEF Inv

-----------------------------------------------------------------------------
(* The hub counts an occurrence in two events only where a failed write or *)
(* the handler marred it: neither lost answers, later repetitions, reports *)
(* in flight and saves nor restarts make it do so (log_event_internal,     *)
(* diag_report_events, save_events_to_file, diag_init).                    *)
THEOREM CountedOnce == JournalSpec => []ReportsAgree
  <1>1. Inv => ReportsAgree
    BY DEF Inv, SentAgrees, Sent, Agrees, Disjoint, ReportsAgree
  <1> QED BY <1>1, First, Step, PTL DEF JournalSpec

-----------------------------------------------------------------------------
(* The types, and the quota.                                               *)

(* The memory is bounded, what the header counts, and the occurrences.     *)
Bounded ==
    /\ phase \in {"off", "up", "leaving"}
    /\ Len(events) <= MaxEvents
    /\ file.count <= MaxEvents
    /\ logged <= MaxLogs
    /\ persisted \subseteq 1 .. logged
    /\ marred \subseteq 1 .. logged

TypeInv == Inv /\ ClientInv /\ Bounded

(* What the journal does with its client.                                  *)
LEMMA JournalUsesClient ==
  Inv /\ [JournalNext]_journalVars => ClientStep
  <1> SUFFICES ASSUME Inv, [JournalNext]_journalVars PROVE ClientStep
    OBVIOUS
  <1>1. CASE ReportEvents \/ ReportInterrupted
    <2>1. PICK last, message :
              /\ message = Message("events", Len(events), Report(last))
              /\ events # <<>> /\ Send(message)
      BY <1>1 DEF ReportEvents, ReportInterrupted
    <2>2. Len(events) \in Nat \ {0}
      BY <2>1 DEF Inv, Typed
    <2>3. message.kind \in Kinds /\ message.size \in Nat \ {0}
      BY <2>1, <2>2 DEF Message, Kinds
    <2> QED BY <2>1, <2>3 DEF ClientStep
  <1>2. CASE HubReceives \/ Delivered \/ RemovalInterrupted \/ NotDelivered
    BY <1>2 DEF HubReceives, Delivered, RemovalInterrupted, NotDelivered, ClientStep
  <1>3. CASE Connect \/ Disconnect
    BY <1>3 DEF Connect, Disconnect, ClientStep
  <1>4. CASE Setup
    BY <1>4 DEF Setup, ClientStep
  <1>5. CASE Watchdog \/ WatchdogInRemoval \/ PowerFailsInSave \/ End
    BY <1>5 DEF Watchdog, WatchdogInRemoval, PowerFailsInSave, End, ClientStep
  <1>6. CASE LogEvent \/ ClockSync \/ Start \/ Reboot \/ Terminate
    BY <1>6 DEF LogEvent, ClockSync, Start, Reboot, Terminate, ClientStep
  <1>7. CASE UNCHANGED journalVars
    BY <1>7 DEF journalVars, ClientStep
  <1> QED BY <1>1, <1>2, <1>3, <1>4, <1>5, <1>6, <1>7 DEF JournalNext

(* An event more fits, and has an occurrence of its own.                   *)
LEMMA BoundedList ==
  ASSUME TypeInv, NEW code \in AllCodes, synced' = synced,
         NEW list \in Seq(Entry), Len(list) <= MaxEvents, Past(list, logged),
         NEW L, L = Logged(list, code, logged + 1)
  PROVE  /\ Len(L) <= MaxEvents /\ Occurrences(L) \subseteq 1 .. logged + 1
         /\ Len(L) \in Nat
  <1>1. Inv /\ synced' \in BOOLEAN /\ logged + 1 \in Nat
    BY Facts DEF TypeInv
  <1>2. /\ Len(list) <= MaxEvents => Len(L) <= MaxEvents
        /\ Len(L) \in Nat /\ DOMAIN L = 1 .. Len(L)
        /\ Len(L) = Len(list) \/ Len(L) = Len(list) + 1
        /\ \A i \in DOMAIN list :
               i \in DOMAIN L /\ list[i].occurrences \subseteq L[i].occurrences
        /\ \A i \in DOMAIN L :
               \/ i \in DOMAIN list /\ L[i] = list[i]
               \/ /\ i = Len(L) /\ L[i].synced = synced'
                  /\ \/ (L[i].occurrences = {logged + 1} /\ i \notin DOMAIN list)
                     \/ /\ i \in DOMAIN list
                        /\ L[i].occurrences = list[i].occurrences \cup {logged + 1}
    BY <1>1, LoggedIs
  <1>3. 1 .. logged \subseteq 1 .. logged + 1 /\ logged + 1 \in 1 .. logged + 1
    BY <1>1, Facts
  <1>4. \A i \in DOMAIN L : L[i].occurrences \subseteq 1 .. logged + 1
    BY <1>2, <1>3 DEF Past
  <1>5. Occurrences(L) \subseteq 1 .. logged + 1
    BY <1>4 DEF Occurrences
  <1> QED BY <1>2, <1>5

(* A step that logs an occurrence.                                         *)
LEMMA BoundedMore ==
  ASSUME TypeInv, phase' \in {"off", "up", "leaving"}, logged < MaxLogs,
         logged' = logged + 1, Len(events') <= MaxEvents,
         file'.count <= MaxEvents,
         persisted' \subseteq persisted \cup 1 .. logged + 1,
         marred' \subseteq marred \cup 1 .. logged + 1
  PROVE  Bounded'
  <1>1. Inv
    BY DEF TypeInv
  <1>2. logged + 1 <= MaxLogs /\ 1 .. logged \subseteq 1 .. logged + 1
    BY <1>1, Facts, JournalAssumption
  <1> QED BY <1>2 DEF TypeInv, Bounded

(* What a save may mar are occurrences.                                    *)
LEMMA BoundedSave ==
  ASSUME TypeInv, NEW list, Occurrences(list) \subseteq 1 .. logged + 1,
         Len(list) <= MaxEvents, NEW ends,
         \/ Saves(list) /\ marred' \subseteq marred \cup 1 .. logged + 1
         \/ SavesInPart(list, ends)
  PROVE  /\ persisted' \subseteq persisted \cup 1 .. logged + 1
         /\ marred' \subseteq marred \cup 1 .. logged + 1
         /\ file'.count <= MaxEvents
  <1>1. Inv /\ file \in [count : Nat, contents : Seq(Entry)]
    BY Facts DEF TypeInv, Files
  <1>2. Occurrences(file.contents) \subseteq 1 .. logged + 1
    BY <1>1, Facts DEF Past, Occurrences
  <1>3. CASE Saves(list) /\ marred' \subseteq marred \cup 1 .. logged + 1
    BY <1>3 DEF Saves
  <1>4. CASE SavesInPart(list, ends)
    <2>1. /\ marred' = marred \cup Occurrences(list) \cup Occurrences(file.contents)
          /\ persisted' = persisted
      BY <1>4 DEF SavesInPart
    <2>2. file'.count \in {Len(list), file.count, 0}
      <3>1. \A contents : [file EXCEPT !.contents = contents].count = file.count
        BY <1>1
      <3>2. \/ \E contents : file' = [count |-> Len(list), contents |-> contents]
            \/ \E contents : file' = [file EXCEPT !.contents = contents]
            \/ file' = [count |-> 0, contents |-> <<>>]
        BY <1>4, Zenon DEF SavesInPart
      <3>3. CASE \E contents : file' = [count |-> Len(list), contents |-> contents]
        <4>1. PICK contents : file' = [count |-> Len(list), contents |-> contents]
          BY <3>3
        <4>2. file'.count = Len(list)
          BY <4>1
        <4> QED BY <4>2
      <3>4. CASE \E contents : file' = [file EXCEPT !.contents = contents]
        <4>1. file'.count = file.count
          BY <3>1, <3>4
        <4> QED BY <4>1
      <3>5. CASE file' = [count |-> 0, contents |-> <<>>]
        BY <3>5
      <3> QED BY <3>2, <3>3, <3>4, <3>5
    <2>3. file'.count <= MaxEvents
      BY <2>2, JournalAssumption DEF TypeInv, Bounded
    <2> QED BY <1>2, <2>1, <2>3
  <1> QED BY <1>3, <1>4

(* A step that logs in memory, or not at all.                              *)
LEMMA BoundedLog ==
  ASSUME TypeInv, NEW code \in AllCodes, Log(code),
         UNCHANGED <<phase, file, persisted, marred>>
  PROVE  Bounded'
  <1>1. /\ logged < MaxLogs /\ logged' = logged + 1 /\ synced' = synced
        /\ events' = Logged(events, code, logged + 1)
    BY DEF Log
  <1>2. /\ events \in Seq(Entry) /\ Len(events) <= MaxEvents /\ Past(events, logged)
        /\ phase' \in {"off", "up", "leaving"}
    BY Facts DEF TypeInv, Bounded
  <1>3. /\ Len(events') <= MaxEvents /\ Occurrences(events') \subseteq 1 .. logged + 1
        /\ Len(events') \in Nat
    BY <1>1, <1>2, BoundedList
  <1>4. file'.count <= MaxEvents
    BY DEF TypeInv, Bounded
  <1> QED BY <1>1, <1>2, <1>3, <1>4, BoundedMore

(* A step that logs to the file.                                           *)
LEMMA BoundedLogToFile ==
  ASSUME TypeInv, NEW code \in AllCodes, NEW ends \in BOOLEAN,
         LogToFile(code, events, ends), phase' \in {"off", "up", "leaving"}
  PROVE  Bounded'
  <1>1. PICK L : L = Logged(events, code, logged + 1)
    OBVIOUS
  <1>2. /\ logged < MaxLogs /\ logged' = logged + 1 /\ synced' = synced
        /\ \/ Saves(L) /\ marred' = marred /\ events' = <<>>
           \/ SavesInPart(L, ends) /\ events' = <<>>
           \/ events' \in {<<>>, L} /\ UNCHANGED <<file, persisted, marred>>
    BY <1>1 DEF LogToFile
  <1>3. events \in Seq(Entry) /\ Len(events) <= MaxEvents /\ Past(events, logged)
    BY Facts DEF TypeInv, Bounded
  <1>4. /\ Len(L) <= MaxEvents /\ Occurrences(L) \subseteq 1 .. logged + 1
        /\ Len(L) \in Nat
    BY <1>1, <1>2, <1>3, BoundedList
  <1>5. Len(<<>>) <= MaxEvents
    BY JournalAssumption
  <1>6. /\ persisted' \subseteq persisted \cup 1 .. logged + 1
        /\ marred' \subseteq marred \cup 1 .. logged + 1
        /\ file'.count <= MaxEvents
    <2>1. CASE Saves(L) /\ marred' = marred
      BY <1>4, <2>1, BoundedSave
    <2>2. CASE SavesInPart(L, ends)
      BY <1>4, <2>2, BoundedSave
    <2>3. CASE UNCHANGED <<file, persisted, marred>>
      BY <2>3 DEF TypeInv, Bounded
    <2> QED BY <1>2, <2>1, <2>2, <2>3
  <1>7. Len(events') <= MaxEvents
    BY <1>2, <1>4, <1>5
  <1> QED BY <1>2, <1>6, <1>7, BoundedMore

(* The memory is no longer than before, and nothing is logged.             *)
LEMMA BoundedQuiet ==
  ASSUME TypeInv, phase' \in {"off", "up", "leaving"},
         Len(events') <= Len(events), Len(events') \in Nat,
         UNCHANGED <<file, logged, persisted, marred>>
  PROVE  Bounded'
  <1>1. Len(events) \in Nat
    BY DEF TypeInv, Inv, Typed
  <1> QED BY <1>1, JournalAssumption DEF TypeInv, Bounded

(* diag_init.                                                              *)
LEMMA BoundedStart == TypeInv /\ Start => Bounded'
  <1> SUFFICES ASSUME TypeInv, Start PROVE Bounded'
    OBVIOUS
  <1>1. /\ phase' = "up" /\ synced' \in BOOLEAN
        /\ persisted' = {} /\ logged' <= MaxLogs
    BY DEF Start
  <1>2. PICK loaded :
             /\ loaded \in {Saved, <<>>} /\ Begun(events', loaded, logged, logged')
             /\ \/ UNCHANGED <<file, marred>> /\ loaded = <<>>
                \/ /\ file' = [file EXCEPT !.count = 0] /\ UNCHANGED marred
                \/ /\ UNCHANGED file
                   /\ marred' = marred \cup Occurrences(Saved)
    BY LoadedIs DEF TypeInv
  <1>3. Inv /\ file \in Files /\ logged \in Nat
    BY Facts DEF TypeInv
  <1>4. Len(Saved) <= MaxEvents
    <2>1. PICK S : S = Saved
      OBVIOUS
    <2>2. /\ S \in Seq(Entry)
          /\ \A i \in DOMAIN S : /\ i \in DOMAIN file.contents
                                  /\ S[i] = file.contents[i]
          /\ Len(S) \in Nat /\ DOMAIN S = 1 .. Len(S) /\ Len(S) <= file.count
      BY <1>3, <2>1, SavedIs DEF Saved
    <2>3. file.count \in Nat /\ file.count <= MaxEvents
      BY <1>3 DEF Files, TypeInv, Bounded
    <2>4. Len(S) <= MaxEvents
      BY <2>2, <2>3, JournalAssumption
    <2> QED BY <2>1, <2>4
  <1>5. /\ loaded \in Seq(Entry) /\ ListAgrees(loaded, Sent, logged, marred)
        /\ Len(loaded) <= MaxEvents
    <2>1. loaded \in Seq(Entry) /\ ListAgrees(loaded, Sent, logged, marred)
      BY <1>2, <1>3, Facts, EmptyAgrees
    <2>2. Len(<<>>) <= MaxEvents
      BY JournalAssumption
    <2> QED BY <1>2, <1>4, <2>1, <2>2
  <1>6. /\ events' \in Seq(Entry) /\ ListAgrees(events', Sent, logged', marred)
        /\ \A other : Past(other, logged) /\ Apart(loaded, other, marred) =>
                          Apart(events', other, marred)
        /\ Len(loaded) <= MaxEvents => Len(events') <= MaxEvents
        /\ NoneEmpty(loaded) => NoneEmpty(events')
    BY <1>1, <1>2, <1>3, <1>5, Facts, BegunIs
  <1>7. 1 .. logged \subseteq 1 .. logged'
    <2>1. logged' = logged + 1 \/ logged' = logged + 2
      BY <1>2 DEF Begun
    <2> QED BY <1>3, <2>1
  <1>8. marred' \subseteq 1 .. logged'
    <2>1. Occurrences(Saved) \subseteq 1 .. logged
      BY <1>3, Facts DEF Past, Occurrences
    <2> QED BY <1>2, <1>7, <2>1 DEF TypeInv, Bounded
  <1>9. file'.count <= MaxEvents
    <2>1. [file EXCEPT !.count = 0].count = 0
      BY <1>3 DEF Files
    <2>2. UNCHANGED file \/ file' = [file EXCEPT !.count = 0]
      BY <1>2
    <2>3. file'.count = file.count \/ file'.count = 0
      BY <2>1, <2>2
    <2> QED BY <2>3, JournalAssumption DEF TypeInv, Bounded
  <1> QED BY <1>1, <1>5, <1>6, <1>8, <1>9 DEF Bounded

(* watchdog_handler, inside a removal, and a failure of the power.         *)
LEMMA BoundedFaults ==
  ASSUME TypeInv, WatchdogInRemoval \/ PowerFailsInSave
  PROVE  Bounded'
  <1>1. /\ logged < MaxLogs /\ logged' = logged + 1 /\ synced' = synced
        /\ events' = <<>> /\ phase' \in {"off", "up", "leaving"}
    BY DEF WatchdogInRemoval, PowerFailsInSave
  <1>2. /\ Inv /\ events \in Seq(Entry) /\ Len(events) <= MaxEvents
        /\ Past(events, logged) /\ Len(<<>>) <= MaxEvents
    BY Facts, JournalAssumption DEF TypeInv, Bounded
  <1>3. PICK half, code, all :
            /\ half \in Seq(Entry) /\ Len(half) <= MaxEvents /\ Past(half, logged)
            /\ code \in AllCodes /\ all = Logged(half, code, logged + 1)
            /\ \/ Saves(all) /\ marred' = marred \cup Occurrences(half)
               \/ SavesInPart(all, TRUE)
    <2>1. CASE WatchdogInRemoval
      <3>1. PICK half :
                /\ Halved(half, events) /\ Len(half) = Len(events)
                /\ LET all == Logged(half, "WATCHDOG", logged + 1)
                   IN  \/ Saves(all) /\ marred' = marred \cup Occurrences(half)
                       \/ SavesInPart(all, TRUE)
        BY <1>2, <2>1, HalfIs
      <3>2. half \in Seq(Entry) /\ Past(half, logged) /\ Len(half) <= MaxEvents
        BY <1>2, <3>1 DEF Halved, Past
      <3>3. "WATCHDOG" \in AllCodes
        BY DEF AllCodes, SaveCodes
      <3> QED BY <3>1, <3>2, <3>3
    <2>2. CASE PowerFailsInSave
      <3>1. PICK code \in SaveCodes : SavesInPart(Logged(events, code, logged + 1), TRUE)
        BY <2>2 DEF PowerFailsInSave
      <3>2. code \in AllCodes
        BY DEF AllCodes
      <3> QED BY <1>2, <3>1, <3>2
    <2> QED BY <2>1, <2>2
  <1>4. /\ Len(all) <= MaxEvents /\ Occurrences(all) \subseteq 1 .. logged + 1
        /\ Len(all) \in Nat
    BY <1>1, <1>3, BoundedList
  <1>5. Occurrences(half) \subseteq 1 .. logged + 1
    BY <1>2, <1>3, Facts DEF Past, Occurrences
  <1>6. /\ persisted' \subseteq persisted \cup 1 .. logged + 1
        /\ marred' \subseteq marred \cup 1 .. logged + 1
        /\ file'.count <= MaxEvents
    <2>1. CASE Saves(all) /\ marred' = marred \cup Occurrences(half)
      <3>1. Saves(all) /\ marred' \subseteq marred \cup 1 .. logged + 1
        BY <1>5, <2>1
      <3> QED BY <1>4, <3>1, BoundedSave
    <2>2. CASE SavesInPart(all, TRUE)
      BY <1>4, <2>2, BoundedSave
    <2> QED BY <1>3, <2>1, <2>2
  <1> QED BY <1>1, <1>2, <1>6, BoundedMore

(* event_message_delivered and diag_report_events, with the handler        *)
(* inside.                                                                 *)
LEMMA BoundedInterrupted ==
  ASSUME TypeInv, ReportInterrupted \/ RemovalInterrupted
  PROVE  Bounded'
  <1>1. /\ logged < MaxLogs /\ logged' = logged + 1 /\ synced' = synced
        /\ phase' \in {"off", "up", "leaving"} /\ UNCHANGED <<file, persisted>>
    BY DEF TypeInv, Bounded, ReportInterrupted, RemovalInterrupted
  <1>2. /\ Inv /\ events \in Seq(Entry) /\ Len(events) <= MaxEvents
        /\ Past(events, logged) /\ file'.count <= MaxEvents
        /\ 1 .. logged \subseteq 1 .. logged + 1
        /\ logged + 1 \in 1 .. logged + 1
        /\ Len(events) \in Nat /\ DOMAIN events = 1 .. Len(events)
    BY <1>1, Facts DEF TypeInv, Bounded
  <1>3. CASE ReportInterrupted
    <2>1. PICK L : L = Logged(events, "WATCHDOG_WARNING", logged + 1)
      OBVIOUS
    <2>2. /\ events # <<>> /\ events' = LastFlipped(L)
          /\ marred' \subseteq marred \cup Last(L).occurrences
      BY <1>1, <1>3, <2>1 DEF ReportInterrupted
    <2>3. "WATCHDOG_WARNING" \in AllCodes
      BY DEF AllCodes
    <2>4. /\ Len(L) <= MaxEvents /\ Occurrences(L) \subseteq 1 .. logged + 1
          /\ Len(L) \in Nat
      BY <1>1, <1>2, <2>1, <2>3, BoundedList
    <2>5. L \in Seq(Entry)
      BY <1>1, <1>2, <2>1, <2>3, MoreLogged
    <2>6. L # <<>>
      <3>1. Logged(events, "WATCHDOG_WARNING", logged + 1) # <<>>
        BY <1>2, <2>2 DEF Logged
      <3> QED BY <2>1, <3>1
    <2>7. Len(events') = Len(L) /\ Len(L) \in DOMAIN L
      BY <2>2, <2>5, <2>6, FlippedIs
    <2>8. Last(L).occurrences \subseteq 1 .. logged + 1
      BY <2>4, <2>7 DEF Last, Occurrences
    <2>9. /\ Len(events') <= MaxEvents
          /\ marred' \subseteq marred \cup 1 .. logged + 1
          /\ persisted' \subseteq persisted \cup 1 .. logged + 1
      BY <1>1, <2>2, <2>4, <2>7, <2>8
    <2> QED BY <1>1, <1>2, <2>9, BoundedMore
  <1>4. CASE RemovalInterrupted
    <2>1. PICK i, kept, behind :
            /\ i \in DOMAIN inflight
            /\ kept = RemoveUpto(inflight[i].body.upto)
            /\ behind = events[Len(kept) + 1] /\ Len(kept) < Len(events)
            /\ \/ /\ events' = kept
                  /\ marred' = marred \cup {logged'}
               \/ /\ events' = Append(kept, behind)
                  /\ marred' = marred \cup {logged'} \cup behind.occurrences
      BY <1>4 DEF RemovalInterrupted
    <2>2. /\ kept \in Seq(Entry) /\ ListAgrees(kept, Sent, logged, marred)
          /\ Len(kept) <= Len(events)
      BY <1>2, <2>1, Facts, RemovedAgrees
    <2>3. Len(kept) \in Nat /\ Len(kept) + 1 \in DOMAIN events
      BY <1>2, <2>1, <2>2
    <2>4. behind \in Entry /\ behind.occurrences \subseteq 1 .. logged + 1
      BY <1>2, <2>1, <2>3 DEF Past
    <2>5. Len(Append(kept, behind)) = Len(kept) + 1
      BY <2>2, <2>4
    <2>6. Len(events') <= MaxEvents
      BY <1>2, <2>1, <2>2, <2>3, <2>5, JournalAssumption
    <2>7. /\ marred' \subseteq marred \cup 1 .. logged + 1
          /\ persisted' \subseteq persisted \cup 1 .. logged + 1
      BY <1>1, <1>2, <2>1, <2>4
    <2> QED BY <1>1, <1>2, <2>6, <2>7, BoundedMore
  <1> QED BY <1>3, <1>4

(* Every step keeps the types.                                             *)
LEMMA TypeStep == TypeInv /\ [JournalNext]_journalVars => TypeInv'
  <1> SUFFICES ASSUME TypeInv, [JournalNext]_journalVars PROVE TypeInv'
    OBVIOUS
  <1>1. Inv' /\ ClientInv'
    BY Step, JournalUsesClient, ClientStepKeeps DEF TypeInv
  <1>2. /\ Len(events) \in Nat /\ Len(events) <= Len(events)
        /\ phase \in {"off", "up", "leaving"} /\ Len(<<>>) = 0
    BY DEF TypeInv, Inv, Typed, Bounded
  <1>3. CASE LogEvent
    <2>1. /\ \E code \in AllCodes : Log(code)
          /\ UNCHANGED <<phase, file, persisted, marred>>
      BY <1>3 DEF LogEvent, AllCodes, histories
    <2> QED BY <1>1, <2>1, BoundedLog DEF TypeInv
  <1>4. CASE ClockSync \/ HubReceives \/ NotDelivered \/ UNCHANGED journalVars
    <2>1. UNCHANGED <<phase, events, file, logged, persisted, marred>>
      BY <1>4 DEF ClockSync, HubReceives, NotDelivered, journalVars, histories
    <2> QED BY <1>1, <1>2, <2>1, BoundedQuiet DEF TypeInv
  <1>5. CASE ReportEvents
    <2>1. /\ UNCHANGED <<phase, file, logged, persisted, marred>>
          /\ events # <<>> /\ events' = LastFlipped(events)
      BY <1>5 DEF ReportEvents, histories
    <2>2. Inv /\ events \in Seq(Entry)
      BY Facts DEF TypeInv
    <2>3. Len(events') = Len(events)
      BY <2>1, <2>2, FlippedIs
    <2> QED BY <1>1, <1>2, <2>1, <2>3, BoundedQuiet DEF TypeInv
  <1>6. CASE Delivered
    <2>1. /\ UNCHANGED <<phase, file, logged, persisted, marred>>
          /\ \E upto : events' = RemoveUpto(upto)
      BY <1>6 DEF Delivered, histories
    <2>2. Len(events') <= Len(events)
      BY <2>1, RemovedAgrees DEF TypeInv, Inv, Typed
    <2>3. Len(events') \in Nat
      BY <1>1 DEF Inv, Typed
    <2> QED BY <1>1, <1>2, <2>1, <2>2, <2>3, BoundedQuiet DEF TypeInv
  <1>7. CASE Connect \/ Disconnect
    <2>1. /\ \E code \in AllCodes : Log(code)
          /\ UNCHANGED <<phase, file, persisted, marred>>
      BY <1>7 DEF Connect, Disconnect, AllCodes, histories
    <2> QED BY <1>1, <2>1, BoundedLog DEF TypeInv
  <1>8. CASE Setup
    <2>1. UNCHANGED <<phase, file, persisted, marred>>
      BY <1>8 DEF Setup, histories
    <2>2. CASE UNCHANGED <<events, synced, logged>>
      BY <1>1, <1>2, <2>1, <2>2, BoundedQuiet DEF TypeInv
    <2>3. CASE Log("SETUP_FAILED")
      <3>1. \E code \in AllCodes : Log(code)
        BY <2>3 DEF AllCodes
      <3> QED BY <1>1, <2>1, <3>1, BoundedLog DEF TypeInv
    <2> QED BY <1>8, <2>2, <2>3 DEF Setup
  <1>9. CASE Reboot \/ Terminate \/ Watchdog
    <2>1. /\ \E code \in AllCodes, ends \in BOOLEAN : LogToFile(code, events, ends)
          /\ phase' \in {"off", "up", "leaving"}
      BY <1>2, <1>9 DEF Reboot, Terminate, Watchdog, AllCodes, SaveCodes
    <2> QED BY <1>1, <2>1, BoundedLogToFile DEF TypeInv
  <1>10. CASE End
    <2>1. /\ phase' = "off" /\ events' = <<>>
          /\ UNCHANGED <<file, logged, persisted, marred>>
      BY <1>10 DEF End, histories
    <2>2. Len(events') \in Nat /\ Len(events') <= Len(events)
      BY <1>2, <2>1
    <2> QED BY <1>1, <2>1, <2>2, BoundedQuiet DEF TypeInv
  <1> QED BY <1>1, <1>3, <1>4, <1>5, <1>6, <1>7, <1>8, <1>9, <1>10,
             BoundedStart, BoundedFaults, BoundedInterrupted
          DEF JournalNext, TypeInv

(* A process that never started has nothing in flight.                     *)
LEMMA FirstTypes == JournalInit => TypeInv
  <1> SUFFICES ASSUME JournalInit PROVE TypeInv
    OBVIOUS
  <1>1. /\ events = <<>> /\ file.count = 0 /\ logged = 0 /\ phase = "off"
        /\ persisted = {} /\ marred = {} /\ inflight = <<>> /\ used = 0
        /\ client = "none"
    BY DEF JournalInit, NoClient
  <1>2. Bounded
    BY <1>1, JournalAssumption DEF Bounded
  <1>3. Seqs(inflight) /\ Sized(inflight)
    <2>1. <<>> \in Seq({})
      OBVIOUS
    <2> QED BY <1>1, <2>1, EmptySize DEF Seqs
  <1>4. ClientInv
    BY <1>1, <1>3 DEF ClientInv, QuotaKept
  <1> QED BY <1>2, <1>4, First DEF TypeInv

(* What is in flight counts, and nothing else: over failures, new          *)
(* clients and restarts, the quota is neither exceeded nor lost            *)
(* (inflight_message_size).                                                *)
THEOREM JournalQuotaKept == JournalSpec => []QuotaKept
  <1>1. TypeInv => QuotaKept
    BY DEF TypeInv, ClientInv
  <1> QED BY <1>1, FirstTypes, TypeStep, PTL DEF JournalSpec

(* The journal keeps its types, and its bounds (log_event_internal).       *)
THEOREM JournalTypeCorrect == JournalSpec => []JournalTypeOK
  <1>1. TypeInv => JournalTypeOK
    <2> SUFFICES ASSUME TypeInv PROVE JournalTypeOK
      OBVIOUS
    <2>1. /\ logged \in 0 .. MaxLogs /\ 1 .. logged \subseteq 1 .. MaxLogs
          /\ file.count \in Nat /\ file.contents \in Seq(Entry)
          /\ Past(events, logged) /\ Past(file.contents, logged)
      BY Facts, JournalAssumption DEF TypeInv, Bounded, Files
    <2>2. ASSUME NEW list \in Seq(Entry), Past(list, logged)
          PROVE  list \in Seq(Event)
      <3>1. \A i \in DOMAIN list : /\ list[i] \in Entry
                                  /\ list[i].occurrences \subseteq 1 .. logged
        BY <2>2 DEF Past
      <3>2. \A i \in DOMAIN list : list[i] \in Event
        BY <2>1, <3>1 DEF Entry, Event
      <3> QED BY <3>2
    <2>3. events \in Seq(Event) /\ file.contents \in Seq(Event)
      BY <2>1, <2>2 DEF TypeInv, Inv, Typed
    <2>4. told \subseteq SUBSET (1 .. MaxLogs)
      BY <2>1 DEF TypeInv, Inv, SentAgrees, Sent
    <2>5. ClientTypeOK
      BY DEF TypeInv, ClientInv, Sized, ClientTypeOK
    <2> QED BY <2>1, <2>3, <2>4, <2>5
            DEF TypeInv, Inv, Typed, Bounded, JournalTypeOK
  <1> QED BY <1>1, FirstTypes, TypeStep, PTL DEF JournalSpec

-----------------------------------------------------------------------------
(* An occurrence leaves for the hub or the file only, or is marred.        *)

(* An answer names what the hub has: every event that it will remove is    *)
(* one of its entries, or from before the clock was set, or marred.        *)
Names(body, list, spoilt) ==
    \A j \in DOMAIN list :
        list[j].synced /\ At(list[j]) <= body.upto
        => \/ list[j].occurrences \in body.entries
           \/ list[j].occurrences \subseteq spoilt

Answers(message, list, n, spoilt, known) ==
    /\ message.body.upto \in Nat
    /\ message.body.upto <= MaxLogs + n
    /\ message.received => message.body.entries \subseteq known
    /\ Names(message.body, list, spoilt)

Answered ==
    \A i \in DOMAIN inflight : Answers(inflight[i], events, logged, marred, told)

AnswerInv ==
    /\ TypeInv
    /\ phase = "off" => inflight = <<>>
    /\ NoneEmpty(events) /\ NoneEmpty(file.contents)
    /\ Answered

(* The time stamp of an event is that of its last occurrence.              *)
LEMMA AtIsLast ==
  ASSUME NEW event, NEW n \in Nat, event.occurrences \subseteq 1 .. n,
         event.occurrences # {}
  PROVE  /\ At(event) \in Nat /\ At(event) <= MaxLogs + n
         /\ event.synced /\ n \in event.occurrences => At(event) = MaxLogs + n
  <1> DEFINE Latest(m) == \A other \in event.occurrences : other <= m
             last == CHOOSE m \in event.occurrences : Latest(m)
             Ahead == {n - m : m \in event.occurrences}
  <1>1. \E m \in event.occurrences : Latest(m)
    <2>1. Ahead \in SUBSET Nat /\ Ahead # {}
      OBVIOUS
    <2>2. PICK a \in Ahead : \A b \in Ahead : a <= b
      <3> HIDE DEF Ahead
      <3> QED BY <2>1, NatMin
    <2>3. PICK m \in event.occurrences : a = n - m
      OBVIOUS
    <2>4. \A other \in event.occurrences : n - m <= n - other
      BY <2>2, <2>3
    <2>5. \A other \in event.occurrences : other \in Nat /\ m \in Nat
      OBVIOUS
    <2>6. \A other \in event.occurrences : other <= m
      BY <2>4, <2>5
    <2> QED BY <2>6
  <1>2. last \in event.occurrences /\ Latest(last)
    BY <1>1
  <1>3. At(event) = IF event.synced THEN MaxLogs + last ELSE last
    BY DEF At
  <1> HIDE DEF last
  <1>4. last \in 1 .. n
    BY <1>2
  <1>5. n \in event.occurrences => last = n
    BY <1>2, <1>4
  <1> QED BY <1>3, <1>4, <1>5, JournalAssumption

(* What comes later is not removed by an answer: its time is later than    *)
(* any that was reported (log_event_internal).                             *)
LEMMA LoggedIsLater ==
  ASSUME NEW list \in Seq(Entry), NEW code \in AllCodes, NEW n \in Nat,
         synced' \in BOOLEAN, NEW L, L = Logged(list, code, n + 1),
         Past(list, n), NoneEmpty(list)
  PROVE  /\ NoneEmpty(L) /\ Occurrences(list) \subseteq Occurrences(L)
         /\ \A body, spoilt :
               /\ body.upto \in Nat /\ body.upto <= MaxLogs + n
               /\ Names(body, list, spoilt)
               => Names(body, L, spoilt)
  <1>1. /\ Len(list) <= MaxEvents => Len(L) <= MaxEvents
        /\ Len(L) \in Nat /\ DOMAIN L = 1 .. Len(L)
        /\ Len(L) = Len(list) \/ Len(L) = Len(list) + 1
        /\ \A i \in DOMAIN list :
               i \in DOMAIN L /\ list[i].occurrences \subseteq L[i].occurrences
        /\ \A i \in DOMAIN L :
               \/ i \in DOMAIN list /\ L[i] = list[i]
               \/ /\ i = Len(L) /\ L[i].synced = synced'
                  /\ \/ (L[i].occurrences = {n + 1} /\ i \notin DOMAIN list)
                     \/ /\ i \in DOMAIN list
                        /\ L[i].occurrences = list[i].occurrences \cup {n + 1}
    <2>1. n + 1 \in Nat
      OBVIOUS
    <2> QED BY <2>1, LoggedIs
  <1>2. NoneEmpty(L)
    BY <1>1 DEF NoneEmpty
  <1>3. Occurrences(list) \subseteq Occurrences(L)
    BY <1>1 DEF Occurrences
  <1>4. ASSUME NEW body, NEW spoilt, body.upto \in Nat, body.upto <= MaxLogs + n,
               Names(body, list, spoilt), NEW i \in DOMAIN L, L[i].synced,
               At(L[i]) <= body.upto
        PROVE  \/ L[i].occurrences \in body.entries
               \/ L[i].occurrences \subseteq spoilt
    <2>1. CASE i \in DOMAIN list /\ L[i] = list[i]
      BY <1>4, <2>1 DEF Names
    <2>2. CASE /\ n + 1 \in L[i].occurrences /\ L[i].occurrences # {}
               /\ L[i].occurrences \subseteq 1 .. n + 1
      <3>1. At(L[i]) = MaxLogs + (n + 1)
        BY <1>4, <2>2, AtIsLast
      <3> QED BY <1>4, <3>1, JournalAssumption
    <2>3. \/ i \in DOMAIN list /\ L[i] = list[i]
          \/ /\ n + 1 \in L[i].occurrences /\ L[i].occurrences # {}
             /\ L[i].occurrences \subseteq 1 .. n + 1
      <3>1. {n + 1} \subseteq 1 .. n + 1 /\ 1 .. n \subseteq 1 .. n + 1
        OBVIOUS
      <3>2. CASE i \in DOMAIN list /\ L[i].occurrences = list[i].occurrences \cup {n + 1}
        BY <3>1, <3>2 DEF Past
      <3>3. CASE L[i].occurrences = {n + 1}
        BY <3>1, <3>3
      <3> QED BY <1>1, <1>4, <3>2, <3>3
    <2> QED BY <2>1, <2>2, <2>3
  <1> QED BY <1>2, <1>3, <1>4 DEF Names

(* What is told and what is marred is so for good.                         *)
LEMMA AnswersLater ==
  ASSUME NEW message, NEW list, NEW L, NEW n \in Nat, NEW later \in Nat,
         NEW spoilt, NEW more, NEW known, NEW better,
         Answers(message, list, n, spoilt, known), n <= later,
         spoilt \subseteq more, known \subseteq better,
         Names(message.body, L, more)
  PROVE  Answers(message, L, later, more, better)
  BY JournalAssumption DEF Answers

(* What the steps of the journal may rely on.                              *)
LEMMA AnswerFacts ==
  ASSUME AnswerInv
  PROVE  /\ Inv /\ (phase = "off" => inflight = <<>>)
         /\ NoneEmpty(events) /\ NoneEmpty(file.contents)
         /\ \A i \in DOMAIN inflight :
               Answers(inflight[i], events, logged, marred, told)
  BY DEF AnswerInv, TypeInv, Answered

(* The file has what was there, or was to be written: no event of nothing. *)
LEMMA NoneEmptySaved ==
  ASSUME AnswerInv, NEW list \in Seq(Entry), NoneEmpty(list),
         Past(list, logged + 1), NEW ends \in BOOLEAN,
         Saves(list) \/ SavesInPart(list, ends)
  PROVE  NoneEmpty(file'.contents)
  <1>1. Inv /\ NoneEmpty(file.contents)
    BY AnswerFacts
  <1>2. \A i \in DOMAIN file'.contents :
            \/ \E j \in DOMAIN list : file'.contents[i] = list[j]
            \/ \E j \in DOMAIN file.contents :
                  file'.contents[i] = file.contents[j]
    <2>1. CASE Saves(list)
      BY <1>1, <2>1, Facts, SavesIs
    <2>2. CASE SavesInPart(list, ends)
      BY <1>1, <2>2, Facts, SavesInPartIs
    <2> QED BY <2>1, <2>2
  <1> QED BY <1>1, <1>2 DEF NoneEmpty

(* A step with nothing in flight any more.                                 *)
LEMMA AnsweredNothing ==
  ASSUME AnswerInv, TypeInv', inflight' = <<>>, NoneEmpty(events'),
         NoneEmpty(file'.contents)
  PROVE  AnswerInv'
  <1>1. Answered' /\ (phase = "off" => inflight = <<>>)'
    BY DEF Answered
  <1>2. NoneEmpty(events)' /\ NoneEmpty(file.contents)'
    BY DEF NoneEmpty
  <1> QED BY <1>1, <1>2 DEF AnswerInv

(* A step that leaves what is in flight, and a memory that it answers.     *)
LEMMA AnsweredStays ==
  ASSUME AnswerInv, TypeInv', inflight' \in {inflight, <<>>},
         phase' = "off" => inflight' = <<>>,
         logged' \in Nat, logged <= logged', marred \subseteq marred',
         UNCHANGED told, NoneEmpty(events'), NoneEmpty(file'.contents),
         \A i \in DOMAIN inflight : Names(inflight[i].body, events', marred')
  PROVE  AnswerInv'
  <1>1. CASE inflight' = <<>>
    BY <1>1, AnsweredNothing
  <1>2. CASE inflight' = inflight
    <2>1. logged \in Nat /\ told \subseteq told'
      BY AnswerFacts, Facts
    <2>2. \A i \in DOMAIN inflight :
              Answers(inflight[i], events', logged', marred', told')
      BY <2>1, AnswerFacts, AnswersLater
    <2>3. Answered'
      BY <1>2, <2>2 DEF Answered, Answers, Names, At
    <2>4. NoneEmpty(events)' /\ NoneEmpty(file.contents)'
      BY DEF NoneEmpty
    <2> QED BY <2>3, <2>4 DEF AnswerInv
  <1> QED BY <1>1, <1>2

(* An event is logged, in memory.                                          *)
LEMMA MoreAnswered ==
  ASSUME AnswerInv, NEW code \in AllCodes, synced' = synced,
         NEW L, L = Logged(events, code, logged + 1)
  PROVE  /\ NoneEmpty(L) /\ Occurrences(events) \subseteq Occurrences(L)
         /\ \A i \in DOMAIN inflight : Names(inflight[i].body, L, marred)
         /\ L \in Seq(Entry) /\ Past(L, logged + 1)
  <1>1. /\ Inv /\ synced' \in BOOLEAN
    BY AnswerFacts, Facts
  <1>2. /\ NoneEmpty(L) /\ Occurrences(events) \subseteq Occurrences(L)
        /\ \A body, spoilt :
              /\ body.upto \in Nat /\ body.upto <= MaxLogs + logged
              /\ Names(body, events, spoilt)
              => Names(body, L, spoilt)
    <2>1. /\ events \in Seq(Entry) /\ logged \in Nat /\ Past(events, logged)
          /\ NoneEmpty(events)
      BY <1>1, AnswerFacts, Facts
    <2> QED BY <1>1, <2>1, LoggedIsLater
  <1>3. \A i \in DOMAIN inflight :
            /\ inflight[i].body.upto \in Nat
            /\ inflight[i].body.upto <= MaxLogs + logged
            /\ Names(inflight[i].body, events, marred)
    BY AnswerFacts DEF Answers
  <1>4. /\ L \in Seq(Entry) /\ Past(L, logged + 1)
    BY <1>1, MoreLogged
  <1> QED BY <1>2, <1>3, <1>4

(* A step that logs in memory, with the client as it was or without any.   *)
LEMMA AnsweredLog ==
  ASSUME AnswerInv, TypeInv', NEW code \in AllCodes, Log(code),
         inflight' \in {inflight, <<>>}, UNCHANGED <<phase, file, told, marred>>
  PROVE  AnswerInv' /\ Occurrences(events) \subseteq Occurrences(events')
  <1>1. /\ logged' = logged + 1 /\ synced' = synced
        /\ events' = Logged(events, code, logged + 1)
    BY DEF Log
  <1>2. /\ NoneEmpty(events') /\ Occurrences(events) \subseteq Occurrences(events')
        /\ \A i \in DOMAIN inflight : Names(inflight[i].body, events', marred)
        /\ events' \in Seq(Entry) /\ Past(events', logged + 1)
    BY <1>1, MoreAnswered
  <1>3. /\ logged' \in Nat /\ logged <= logged' /\ marred \subseteq marred'
        /\ marred' = marred /\ NoneEmpty(file'.contents)
        /\ phase' = "off" => inflight' = <<>>
    BY <1>1, AnswerFacts, Facts
  <1> QED BY <1>2, <1>3, AnsweredStays

(* A step that logs to the file (save_events_to_file): it has the memory,  *)
(* or the memory stays, unless the process ends, or what was in memory is  *)
(* marred.                                                                 *)
LEMMA AnsweredLogToFile ==
  ASSUME AnswerInv, TypeInv', NEW code \in AllCodes, NEW ends \in BOOLEAN,
         LogToFile(code, events, ends), inflight' \in {inflight, <<>>},
         phase' = "off" => inflight' = <<>>, UNCHANGED told
  PROVE  /\ AnswerInv'
         /\ ~ends => Occurrences(events)
                        \subseteq Occurrences(events') \cup Occurrences(Saved')
                                      \cup marred'
  <1>1. PICK L : L = Logged(events, code, logged + 1)
    OBVIOUS
  <1>2. /\ logged' = logged + 1 /\ synced' = synced
        /\ \/ Saves(L) /\ marred' = marred /\ events' = <<>>
           \/ SavesInPart(L, ends) /\ events' = <<>>
           \/ /\ events' = (IF ends THEN <<>> ELSE L)
              /\ UNCHANGED <<file, persisted, marred>>
    BY <1>1 DEF LogToFile
  <1>3. /\ NoneEmpty(L) /\ Occurrences(events) \subseteq Occurrences(L)
        /\ \A i \in DOMAIN inflight : Names(inflight[i].body, L, marred)
        /\ L \in Seq(Entry) /\ Past(L, logged + 1)
    BY <1>1, <1>2, MoreAnswered
  <1>4. Inv /\ NoneEmpty(<<>>) /\ \A body, spoilt : Names(body, <<>>, spoilt)
    BY AnswerFacts DEF NoneEmpty, Names
  <1>5. marred \subseteq marred'
    <2>1. CASE SavesInPart(L, ends)
      BY <2>1 DEF SavesInPart
    <2> QED BY <1>2, <2>1
  <1>6. NoneEmpty(file'.contents)
    <2>1. CASE UNCHANGED file
      BY <2>1, AnswerFacts
    <2>2. CASE Saves(L) \/ SavesInPart(L, ends)
      BY <1>3, <2>2, NoneEmptySaved
    <2> QED BY <1>2, <2>1, <2>2
  <1>7. NoneEmpty(events') /\ \A i \in DOMAIN inflight :
                                  Names(inflight[i].body, events', marred')
    <2>1. CASE events' = <<>>
      BY <1>4, <2>1
    <2>2. CASE events' = L /\ UNCHANGED marred
      BY <1>3, <2>2
    <2> QED BY <1>2, <2>1, <2>2
  <1>8. AnswerInv'
    <2>1. logged' \in Nat /\ logged <= logged'
      BY <1>2, <1>4, Facts
    <2> QED BY <1>5, <1>6, <1>7, <2>1, AnsweredStays
  <1>9. ~ends => Occurrences(events)
                    \subseteq Occurrences(events') \cup Occurrences(Saved')
                                  \cup marred'
    <2>1. CASE Saves(L)
      <3>1. Saved' = L
        BY <1>3, <1>4, <2>1, Facts, SavesIs
      <3> QED BY <1>3, <3>1
    <2>2. CASE SavesInPart(L, ends)
      BY <1>3, <2>2 DEF SavesInPart
    <2>3. CASE events' = (IF ends THEN <<>> ELSE L)
      BY <1>3, <2>3
    <2> QED BY <1>2, <2>1, <2>2, <2>3
  <1> QED BY <1>8, <1>9

(* Memory and file stay, and the client's messages do, or go with it.      *)
LEMMA AnsweredQuiet ==
  ASSUME AnswerInv, TypeInv', inflight' \in {inflight, <<>>},
         phase' = "off" => inflight' = <<>>, events' \in {events, <<>>},
         UNCHANGED <<file, told, logged, marred>>
  PROVE  AnswerInv'
  <1>1. NoneEmpty(<<>>) /\ \A body, spoilt : Names(body, <<>>, spoilt)
    BY DEF NoneEmpty, Names
  <1>2. /\ logged' \in Nat /\ logged <= logged' /\ marred \subseteq marred'
        /\ marred' = marred /\ NoneEmpty(file'.contents)
    BY AnswerFacts, Facts
  <1>3. \A i \in DOMAIN inflight : Names(inflight[i].body, events', marred')
    BY <1>1, <1>2, AnswerFacts DEF Answers
  <1>4. NoneEmpty(events')
    BY <1>1, AnswerFacts
  <1> QED BY <1>2, <1>3, <1>4, AnsweredStays

(* A report of a memory, and what the memory is then.                      *)
LEMMA AnsweredReported ==
  ASSUME AnswerInv, TypeInv', phase' = "up", NEW message, Send(message),
         ~message.received, UNCHANGED <<file, told>>,
         logged' \in Nat, logged <= logged', marred \subseteq marred',
         message.body.upto \in Nat, message.body.upto <= MaxLogs + logged',
         NoneEmpty(events'), Names(message.body, events', marred'),
         \A i \in DOMAIN inflight : Names(inflight[i].body, events', marred')
  PROVE  AnswerInv'
  <1>1. \A i \in DOMAIN inflight' :
            \/ i \in DOMAIN inflight /\ inflight'[i] = inflight[i]
            \/ inflight'[i] = message
    <2>1. PICK M : inflight \in Seq(M)
      BY AnswerFacts, Facts DEF Seqs
    <2>2. inflight \in Seq(M \cup {message})
      BY <2>1
    <2>3. inflight' = Append(inflight, message)
      BY DEF Send
    <2> QED BY <2>2, <2>3
  <1>2. \A i \in DOMAIN inflight :
            Answers(inflight[i], events', logged', marred', told')
    <2>1. logged \in Nat /\ told \subseteq told'
      BY AnswerFacts, Facts
    <2> QED BY <2>1, AnswerFacts, AnswersLater
  <1>3. Answers(message, events', logged', marred', told')
    BY DEF Answers
  <1>4. \A i \in DOMAIN inflight' :
            Answers(inflight'[i], events', logged', marred', told')
    BY <1>1, <1>2, <1>3
  <1>5. Answered'
    BY <1>4 DEF Answered, Answers, Names, At
  <1>6. NoneEmpty(events)' /\ NoneEmpty(file.contents)'
    BY AnswerFacts DEF NoneEmpty
  <1> QED BY <1>5, <1>6 DEF AnswerInv

(* Of events that are the same but for the flip, the same is removed.      *)
LEMMA NamesFlipped ==
  ASSUME NEW list, NEW L, DOMAIN L = DOMAIN list,
         \A i \in DOMAIN list : /\ L[i].occurrences = list[i].occurrences
                                /\ L[i].synced = list[i].synced
  PROVE  /\ NoneEmpty(list) => NoneEmpty(L)
         /\ Occurrences(list) \subseteq Occurrences(L)
         /\ \A body, spoilt : Names(body, list, spoilt) => Names(body, L, spoilt)
  BY DEF NoneEmpty, Occurrences, Names, At

(* A report names all that the memory has (diag_report_events).            *)
LEMMA AnsweredReportEvents ==
  ASSUME AnswerInv, TypeInv', ReportEvents
  PROVE  AnswerInv' /\ Occurrences(events) \subseteq Occurrences(events')
  <1>1. PICK message :
            /\ message = Message("events", Len(events), Report(Last(events)))
            /\ phase = "up" /\ phase' = phase /\ events # <<>> /\ Send(message)
            /\ UNCHANGED <<file, synced, told, logged, marred>>
            /\ events' = LastFlipped(events)
    BY DEF ReportEvents, histories
  <1>2. /\ Inv /\ events \in Seq(Entry) /\ logged \in Nat /\ Past(events, logged)
        /\ NoneEmpty(events) /\ logged <= logged
    BY AnswerFacts, Facts
  <1>3. /\ Len(events) \in DOMAIN events /\ Last(events) = events[Len(events)]
    BY <1>1, <1>2 DEF Last
  <1>4. /\ message.body.upto = At(Last(events)) /\ ~message.received
        /\ \A i \in DOMAIN events : events[i].synced =>
              events[i].occurrences \in message.body.entries
    BY <1>1, ReportIs
  <1>5. message.body.upto \in Nat /\ message.body.upto <= MaxLogs + logged
    BY <1>2, <1>3, <1>4, AtIsLast DEF NoneEmpty, Past
  <1>6. /\ DOMAIN events' = DOMAIN events
        /\ \A i \in DOMAIN events :
              /\ events'[i].occurrences = events[i].occurrences
              /\ events'[i].synced = events[i].synced
    BY <1>1, <1>2, FlippedIs
  <1>7. /\ NoneEmpty(events') /\ Occurrences(events) \subseteq Occurrences(events')
        /\ \A body, spoilt : Names(body, events, spoilt) =>
                                 Names(body, events', spoilt)
    BY <1>2, <1>6, NamesFlipped
  <1>8. Names(message.body, events', marred)
    BY <1>4, <1>7 DEF Names
  <1>9. \A i \in DOMAIN inflight : Names(inflight[i].body, events', marred)
    BY <1>7, AnswerFacts DEF Answers
  <1>10. AnswerInv'
    BY <1>1, <1>2, <1>4, <1>5, <1>7, <1>8, <1>9, AnsweredReported
  <1> QED BY <1>7, <1>10

(* A report with the handler inside names all but what it marred.          *)
LEMMA AnsweredReportInterrupted ==
  ASSUME AnswerInv, TypeInv', ReportInterrupted
  PROVE  AnswerInv' /\ Occurrences(events) \subseteq Occurrences(events')
  <1>1. PICK L : L = Logged(events, "WATCHDOG_WARNING", logged + 1)
    OBVIOUS
  <1>2. PICK last, message :
            /\ message = Message("events", Len(events), Report(last))
            /\ Send(message)
            /\ \/ last = Last(L) /\ marred' = marred \cup Last(L).occurrences
               \/ last = Last(events)
    BY <1>1 DEF ReportInterrupted
  <1>3. /\ phase = "up" /\ phase' = phase /\ events # <<>>
        /\ UNCHANGED <<file, synced, told>> /\ logged' = logged + 1
        /\ marred \subseteq marred' /\ events' = LastFlipped(L)
    BY <1>1 DEF ReportInterrupted
  <1>4. "WATCHDOG_WARNING" \in AllCodes
    BY DEF AllCodes
  <1>5. /\ NoneEmpty(L) /\ Occurrences(events) \subseteq Occurrences(L)
        /\ \A i \in DOMAIN inflight : Names(inflight[i].body, L, marred)
        /\ L \in Seq(Entry) /\ Past(L, logged + 1)
    BY <1>1, <1>3, <1>4, MoreAnswered
  <1>6. /\ Inv /\ events \in Seq(Entry) /\ logged \in Nat /\ Past(events, logged)
        /\ NoneEmpty(events) /\ logged <= logged + 1 /\ logged + 1 \in Nat
        /\ synced' \in BOOLEAN
    BY <1>3, AnswerFacts, Facts
  <1>7. /\ Len(events) <= MaxEvents => Len(L) <= MaxEvents
        /\ Len(L) \in Nat /\ DOMAIN L = 1 .. Len(L)
        /\ Len(L) = Len(events) \/ Len(L) = Len(events) + 1
        /\ \A i \in DOMAIN events :
               i \in DOMAIN L /\ events[i].occurrences \subseteq L[i].occurrences
        /\ \A i \in DOMAIN L :
               \/ i \in DOMAIN events /\ L[i] = events[i]
               \/ /\ i = Len(L) /\ L[i].synced = synced'
                  /\ \/ (L[i].occurrences = {logged + 1} /\ i \notin DOMAIN events)
                     \/ /\ i \in DOMAIN events
                        /\ L[i].occurrences = events[i].occurrences \cup {logged + 1}
    BY <1>1, <1>4, <1>6, LoggedIs
  <1>8. L # <<>> /\ Len(L) \in DOMAIN L /\ Last(L) = L[Len(L)]
    <2>1. 1 \in DOMAIN events
      BY <1>3, <1>6
    <2>2. PICK n : n = Len(L)
      OBVIOUS
    <2>3. n \in Nat /\ DOMAIN L = 1 .. n /\ 1 \in 1 .. n
      BY <1>7, <2>1, <2>2, Zenon
    <2>4. n \in 1 .. n
      BY <2>3
    <2>5. L # <<>>
      <3>1. DOMAIN <<>> = {}
        OBVIOUS
      <3> QED BY <2>3, <3>1, Zenon
    <2>6. Last(L) = L[n]
      BY <2>2 DEF Last
    <2> QED BY <2>2, <2>3, <2>4, <2>5, <2>6, Zenon
  <1>9. /\ message.body.upto = At(last) /\ ~message.received
        /\ \A i \in DOMAIN events : events[i].synced =>
              events[i].occurrences \in message.body.entries
    BY <1>2, ReportIs
  <1>10. /\ message.body.upto \in Nat /\ message.body.upto <= MaxLogs + (logged + 1)
         /\ Names(message.body, L, marred')
    <2>1. CASE last = Last(L) /\ marred' = marred \cup Last(L).occurrences
      <3>1. message.body.upto \in Nat /\ message.body.upto <= MaxLogs + (logged + 1)
        BY <1>5, <1>6, <1>8, <1>9, <2>1, AtIsLast, SMTT(30) DEF NoneEmpty, Past
      <3>2. ASSUME NEW i \in DOMAIN L, L[i].synced
            PROVE  \/ L[i].occurrences \in message.body.entries
                   \/ L[i].occurrences \subseteq marred'
        BY <1>7, <1>8, <1>9, <2>1, <3>2, Zenon
      <3> QED BY <3>1, <3>2 DEF Names
    <2>2. CASE last = Last(events)
      <3>1. Len(events) \in DOMAIN events /\ last = events[Len(events)]
        BY <1>3, <1>6, <2>2 DEF Last
      <3>2. message.body.upto \in Nat /\ message.body.upto <= MaxLogs + logged
        BY <1>6, <1>9, <3>1, AtIsLast DEF NoneEmpty, Past
      <3>3. Names(message.body, events, marred')
        BY <1>9 DEF Names
      <3>4. /\ NoneEmpty(L) /\ Occurrences(events) \subseteq Occurrences(L)
            /\ \A body, spoilt :
                  /\ body.upto \in Nat /\ body.upto <= MaxLogs + logged
                  /\ Names(body, events, spoilt)
                  => Names(body, L, spoilt)
        BY <1>1, <1>4, <1>6, LoggedIsLater
      <3>5. message.body.upto <= MaxLogs + (logged + 1)
        BY <1>6, <3>2, JournalAssumption
      <3> QED BY <3>2, <3>3, <3>4, <3>5
    <2> QED BY <1>2, <2>1, <2>2
  <1>11. /\ DOMAIN events' = DOMAIN L
         /\ \A i \in DOMAIN L : /\ events'[i].occurrences = L[i].occurrences
                               /\ events'[i].synced = L[i].synced
    BY <1>3, <1>5, <1>8, FlippedIs
  <1>12. /\ NoneEmpty(events') /\ Occurrences(L) \subseteq Occurrences(events')
         /\ \A body, spoilt : Names(body, L, spoilt) => Names(body, events', spoilt)
    BY <1>5, <1>11, NamesFlipped
  <1>13. \A i \in DOMAIN inflight : Names(inflight[i].body, events', marred')
    <2>1. \A i \in DOMAIN inflight : Names(inflight[i].body, events', marred)
      BY <1>5, <1>12
    <2> QED BY <1>3, <2>1 DEF Names
  <1>14. Names(message.body, events', marred')
    BY <1>10, <1>12
  <1>15. message.body.upto <= MaxLogs + logged' /\ logged' \in Nat /\ logged <= logged'
    BY <1>3, <1>6, <1>10
  <1>16. AnswerInv'
    BY <1>2, <1>3, <1>9, <1>10, <1>12, <1>13, <1>14, <1>15, AnsweredReported
  <1> QED BY <1>5, <1>12, <1>16

(* What the hub receives, it has been told (external).                     *)
LEMMA AnsweredHubReceives ==
  ASSUME AnswerInv, TypeInv', HubReceives
  PROVE  AnswerInv' /\ UNCHANGED events
  <1>1. PICK i \in DOMAIN inflight :
            /\ Receive(i) /\ told' = told \cup inflight[i].body.entries
            /\ UNCHANGED <<phase, events, file, synced, logged, persisted, marred>>
    BY DEF HubReceives
  <1>2. Seqs(inflight) /\ logged \in Nat /\ logged <= logged
    BY AnswerFacts, Facts
  <1>3. /\ DOMAIN inflight' = DOMAIN inflight
        /\ \A k \in DOMAIN inflight : inflight'[k].body = inflight[k].body
    BY <1>1, <1>2, ReceiveKeeps
  <1>4. \A k \in DOMAIN inflight :
            k # i => inflight'[k].received = inflight[k].received
    BY <1>1 DEF Receive
  <1>5. \A k \in DOMAIN inflight :
            Answers(inflight'[k], events, logged, marred, told')
    <2> SUFFICES ASSUME NEW k \in DOMAIN inflight
                 PROVE  Answers(inflight'[k], events, logged, marred, told')
      OBVIOUS
    <2>1. Answers(inflight[k], events, logged, marred, told)
      BY AnswerFacts
    <2>2. inflight'[k].body = inflight[k].body
      BY <1>3
    <2>3. CASE k = i
      BY <1>1, <2>1, <2>2, <2>3 DEF Answers
    <2>4. CASE k # i
      BY <1>1, <1>4, <2>1, <2>2, <2>4 DEF Answers
    <2> QED BY <2>3, <2>4
  <1>6. Answered'
    BY <1>1, <1>3, <1>5 DEF Answered, Answers, Names, At
  <1>7. /\ NoneEmpty(events)' /\ NoneEmpty(file.contents)' /\ phase # "off"
    <2>1. phase = "off" => DOMAIN inflight = {}
      BY AnswerFacts
    <2> QED BY <1>1, <2>1, AnswerFacts DEF NoneEmpty
  <1> QED BY <1>1, <1>6, <1>7 DEF AnswerInv

(* A step that takes messages out of what is in flight.                    *)
LEMMA AnsweredFewer ==
  ASSUME AnswerInv, TypeInv', phase' # "off", UNCHANGED told,
         \A k \in DOMAIN inflight' :
             \E l \in DOMAIN inflight : inflight'[k] = inflight[l],
         logged' \in Nat, logged <= logged', marred \subseteq marred',
         NoneEmpty(events'), NoneEmpty(file'.contents),
         \A i \in DOMAIN inflight : Names(inflight[i].body, events', marred')
  PROVE  AnswerInv'
  <1>1. logged \in Nat /\ told \subseteq told'
    BY AnswerFacts, Facts
  <1>2. \A i \in DOMAIN inflight :
            Answers(inflight[i], events', logged', marred', told')
    BY <1>1, AnswerFacts, AnswersLater
  <1>3. \A k \in DOMAIN inflight' :
            Answers(inflight'[k], events', logged', marred', told')
    BY <1>2
  <1>4. Answered'
    BY <1>3 DEF Answered, Answers, Names, At
  <1>5. NoneEmpty(events)' /\ NoneEmpty(file.contents)'
    BY DEF NoneEmpty
  <1> QED BY <1>4, <1>5 DEF AnswerInv

(* remove_events_upto, from the memory.                                    *)
LEMMA RemovedFrom ==
  ASSUME Inv, NEW upto, NEW kept, kept = RemoveUpto(upto)
  PROVE  /\ kept \in Seq(Entry) /\ ListAgrees(kept, Sent, logged, marred)
         /\ Len(kept) <= Len(events)
         /\ \A k \in DOMAIN kept : \E j \in DOMAIN events : kept[k] = events[j]
         /\ \A j \in DOMAIN events :
               \/ ~(At(events[j]) > upto)
               \/ \E k \in DOMAIN kept : kept[k] = events[j]
  BY Facts, RemovedAgrees

(* What an answer removes the hub has, or it is marred                     *)
(* (remove_events_upto).                                                   *)
LEMMA RemovedIsNamed ==
  ASSUME AnswerInv, NEW i \in DOMAIN inflight, inflight[i].received,
         NEW kept, kept = RemoveUpto(inflight[i].body.upto)
  PROVE  /\ kept \in Seq(Entry) /\ NoneEmpty(kept) /\ Len(kept) <= Len(events)
         /\ \A k \in DOMAIN kept : \E j \in DOMAIN events : kept[k] = events[j]
         /\ \A j \in DOMAIN events : events[j].synced =>
                events[j].occurrences \subseteq
                    Occurrences(kept) \cup (UNION told) \cup marred
  <1> DEFINE upto == inflight[i].body.upto
  <1>1. /\ Inv /\ events \in Seq(Entry) /\ ListAgrees(events, Sent, logged, marred)
        /\ logged \in Nat /\ Past(events, logged) /\ NoneEmpty(events)
    BY AnswerFacts, Facts
  <1>2. Answers(inflight[i], events, logged, marred, told)
    BY AnswerFacts
  <1>3. /\ upto \in Nat /\ inflight[i].body.entries \subseteq told
        /\ Names(inflight[i].body, events, marred)
    BY <1>2 DEF Answers
  <1>4. /\ kept \in Seq(Entry) /\ ListAgrees(kept, Sent, logged, marred)
        /\ Len(kept) <= Len(events)
        /\ \A k \in DOMAIN kept : \E j \in DOMAIN events : kept[k] = events[j]
        /\ \A j \in DOMAIN events :
              \/ ~(At(events[j]) > upto)
              \/ \E k \in DOMAIN kept : kept[k] = events[j]
    <2>1. \A x : x = RemoveUpto(upto) =>
              /\ x \in Seq(Entry) /\ ListAgrees(x, Sent, logged, marred)
              /\ Len(x) <= Len(events)
              /\ \A k \in DOMAIN x : \E j \in DOMAIN events : x[k] = events[j]
              /\ \A j \in DOMAIN events :
                    \/ ~(At(events[j]) > upto)
                    \/ \E k \in DOMAIN x : x[k] = events[j]
      BY <1>1, RemovedFrom, ZenonT(60)
    <2> QED BY <2>1, Zenon
  <1>5. NoneEmpty(kept)
    BY <1>1, <1>4 DEF NoneEmpty
  <1>6. ASSUME NEW j \in DOMAIN events, events[j].synced
        PROVE  events[j].occurrences \subseteq
                   Occurrences(kept) \cup (UNION told) \cup marred
    <2>1. CASE \E k \in DOMAIN kept : kept[k] = events[j]
      BY <2>1 DEF Occurrences
    <2>2. CASE ~(At(events[j]) > upto)
      <3>1. At(events[j]) \in Nat
        BY <1>1, AtIsLast DEF NoneEmpty, Past
      <3>2. At(events[j]) <= upto
        BY <1>3, <2>2, <3>1
      <3>3. \/ events[j].occurrences \in inflight[i].body.entries
            \/ events[j].occurrences \subseteq marred
        BY <1>3, <1>6, <3>2 DEF Names
      <3> QED BY <1>3, <3>3
    <2> QED BY <1>4, <2>1, <2>2
  <1> QED BY <1>4, <1>5, <1>6

(* event_message_delivered.                                                *)
LEMMA AnsweredDelivered ==
  ASSUME AnswerInv, TypeInv', Delivered
  PROVE  /\ AnswerInv'
         /\ \A j \in DOMAIN events : events[j].synced =>
                events[j].occurrences \subseteq
                    Occurrences(events') \cup (UNION told') \cup marred'
  <1>1. PICK i, kept :
            /\ i \in DOMAIN inflight /\ inflight[i].received /\ Confirm(i)
            /\ kept = RemoveUpto(inflight[i].body.upto) /\ events' = kept
    BY DEF Delivered
  <1>2. /\ phase = "up" /\ phase' = phase
        /\ UNCHANGED <<file, logged, told, marred>>
    BY DEF Delivered, histories
  <1>3. /\ kept \in Seq(Entry) /\ NoneEmpty(kept)
        /\ \A k \in DOMAIN kept : \E j \in DOMAIN events : kept[k] = events[j]
        /\ \A j \in DOMAIN events : events[j].synced =>
               events[j].occurrences \subseteq
                   Occurrences(kept) \cup (UNION told) \cup marred
    BY <1>1, RemovedIsNamed
  <1>4. \A k \in DOMAIN inflight' :
            \E l \in DOMAIN inflight : inflight'[k] = inflight[l]
    BY <1>1, AnswerFacts, Facts, ConfirmTakes
  <1>5. \A k \in DOMAIN inflight : Names(inflight[k].body, events', marred')
    <2>1. \A k \in DOMAIN inflight : Names(inflight[k].body, events, marred)
      BY AnswerFacts DEF Answers
    <2> QED BY <1>1, <1>2, <1>3, <2>1 DEF Names
  <1>6. /\ logged' \in Nat /\ logged <= logged' /\ marred \subseteq marred'
        /\ NoneEmpty(file'.contents)
    BY <1>2, AnswerFacts, Facts
  <1>7. AnswerInv'
    BY <1>1, <1>2, <1>3, <1>4, <1>5, <1>6, AnsweredFewer
  <1> QED BY <1>1, <1>2, <1>3, <1>7

(* event_message_delivered, with the handler inside: what it leaves behind *)
(* the moved events is marred.                                             *)
LEMMA AnsweredRemovalInterrupted ==
  ASSUME AnswerInv, TypeInv', RemovalInterrupted
  PROVE  /\ AnswerInv'
         /\ \A j \in DOMAIN events : events[j].synced =>
                events[j].occurrences \subseteq
                    Occurrences(events') \cup (UNION told') \cup marred'
  <1>1. PICK i, kept, behind :
            /\ i \in DOMAIN inflight /\ inflight[i].received /\ Confirm(i)
            /\ kept = RemoveUpto(inflight[i].body.upto)
            /\ behind = events[Len(kept) + 1] /\ Len(kept) < Len(events)
            /\ \/ /\ events' = kept
                  /\ marred' = marred \cup {logged'}
               \/ /\ events' = Append(kept, behind)
                  /\ marred' = marred \cup {logged'} \cup behind.occurrences
    BY DEF RemovalInterrupted
  <1>2. /\ phase' # "off" /\ logged' = logged + 1 /\ UNCHANGED <<file, told>>
        /\ marred \subseteq marred'
    BY <1>1 DEF RemovalInterrupted
  <1>3. /\ kept \in Seq(Entry) /\ NoneEmpty(kept) /\ Len(kept) <= Len(events)
        /\ \A k \in DOMAIN kept : \E j \in DOMAIN events : kept[k] = events[j]
        /\ \A j \in DOMAIN events : events[j].synced =>
               events[j].occurrences \subseteq
                   Occurrences(kept) \cup (UNION told) \cup marred
    BY <1>1, RemovedIsNamed
  <1>4. \A k \in DOMAIN inflight' :
            \E l \in DOMAIN inflight : inflight'[k] = inflight[l]
    BY <1>1, AnswerFacts, Facts, ConfirmTakes
  <1>5. /\ Inv /\ events \in Seq(Entry) /\ NoneEmpty(events)
        /\ logged' \in Nat /\ logged <= logged' /\ NoneEmpty(file'.contents)
    BY <1>2, AnswerFacts, Facts
  <1>6. behind \in Entry /\ behind.occurrences # {}
    <2>1. Len(kept) + 1 \in DOMAIN events
      BY <1>1, <1>3, <1>5
    <2> QED BY <1>1, <1>5, <2>1 DEF NoneEmpty
  <1>7. /\ \A k \in DOMAIN events' :
              \/ \E j \in DOMAIN events : events'[k] = events[j]
              \/ events'[k] = behind /\ behind.occurrences \subseteq marred'
        /\ Occurrences(kept) \subseteq Occurrences(events')
    <2>1. CASE events' = kept
      BY <1>3, <2>1
    <2>2. CASE /\ events' = Append(kept, behind)
               /\ marred' = marred \cup {logged'} \cup behind.occurrences
      <3>1. /\ \A k \in DOMAIN events' :
                   \/ k \in DOMAIN kept /\ events'[k] = kept[k]
                   \/ events'[k] = behind
            /\ \A k \in DOMAIN kept : k \in DOMAIN events' /\ events'[k] = kept[k]
        BY <1>3, <1>6, <2>2
      <3>2. Occurrences(kept) \subseteq Occurrences(events')
        BY <3>1 DEF Occurrences
      <3> QED BY <1>3, <2>2, <3>1, <3>2
    <2> QED BY <1>1, <2>1, <2>2
  <1>8. \A k \in DOMAIN inflight : Names(inflight[k].body, events', marred')
    <2>1. \A k \in DOMAIN inflight : Names(inflight[k].body, events, marred)
      BY AnswerFacts DEF Answers
    <2> QED BY <1>2, <1>7, <2>1 DEF Names
  <1>9. NoneEmpty(events')
    BY <1>5, <1>6, <1>7 DEF NoneEmpty
  <1>10. AnswerInv'
    BY <1>2, <1>4, <1>5, <1>8, <1>9, AnsweredFewer
  <1> QED BY <1>2, <1>3, <1>7, <1>10

(* A failure takes a report away.                                          *)
LEMMA AnsweredNotDelivered ==
  ASSUME AnswerInv, TypeInv', NotDelivered
  PROVE  AnswerInv' /\ UNCHANGED events
  <1>1. PICK i \in DOMAIN inflight : Confirm(i)
    BY DEF NotDelivered
  <1>2. /\ phase = "up" /\ phase' = phase
        /\ UNCHANGED <<events, file, logged, told, marred>>
    BY DEF NotDelivered, histories
  <1>3. \A k \in DOMAIN inflight' :
            \E l \in DOMAIN inflight : inflight'[k] = inflight[l]
    BY <1>1, AnswerFacts, Facts, ConfirmTakes
  <1>4. /\ logged' \in Nat /\ logged <= logged' /\ marred \subseteq marred'
        /\ NoneEmpty(events') /\ NoneEmpty(file'.contents)
    BY <1>2, AnswerFacts, Facts
  <1>5. \A k \in DOMAIN inflight : Names(inflight[k].body, events', marred')
    BY <1>2, AnswerFacts DEF Answers
  <1> QED BY <1>2, <1>3, <1>4, <1>5, AnsweredFewer

(* A start has nothing in flight, and occurrences of its own (diag_init).  *)
LEMMA AnsweredStart ==
  ASSUME AnswerInv, TypeInv', Start
  PROVE  AnswerInv'
  <1>1. /\ phase = "off" /\ synced' \in BOOLEAN /\ inflight' = inflight
    BY DEF Start, clientVars
  <1>2. /\ Inv /\ file \in Files /\ logged \in Nat /\ Saved \in Seq(Entry)
        /\ NoneEmpty(file.contents) /\ inflight' = <<>>
    BY <1>1, AnswerFacts, Facts
  <1>3. PICK loaded :
             /\ loaded \in {Saved, <<>>} /\ Begun(events', loaded, logged, logged')
             /\ \/ UNCHANGED <<file, marred>> /\ loaded = <<>>
                \/ /\ file' = [file EXCEPT !.count = 0] /\ UNCHANGED marred
                \/ /\ UNCHANGED file
                   /\ marred' = marred \cup Occurrences(Saved)
    BY <1>2, LoadedIs
  <1>4. NoneEmpty(Saved) /\ NoneEmpty(<<>>)
    <2>1. \A i \in DOMAIN Saved : /\ i \in DOMAIN file.contents
                                  /\ Saved[i] = file.contents[i]
      BY <1>2, SavedIs DEF Saved
    <2> QED BY <1>2, <2>1 DEF NoneEmpty
  <1>5. /\ loaded \in Seq(Entry) /\ ListAgrees(loaded, Sent, logged, marred)
        /\ NoneEmpty(loaded)
    BY <1>2, <1>3, <1>4, Facts, EmptyAgrees
  <1>6. /\ events' \in Seq(Entry) /\ ListAgrees(events', Sent, logged', marred)
        /\ \A other : Past(other, logged) /\ Apart(loaded, other, marred) =>
                          Apart(events', other, marred)
        /\ Len(loaded) <= MaxEvents => Len(events') <= MaxEvents
        /\ NoneEmpty(loaded) => NoneEmpty(events')
    BY <1>1, <1>2, <1>3, <1>5, Facts, BegunIs
  <1>7. NoneEmpty(file'.contents)
    <2>1. [file EXCEPT !.count = 0].contents = file.contents
      BY <1>2 DEF Files
    <2> QED BY <1>2, <1>3, <2>1
  <1> QED BY <1>2, <1>5, <1>6, <1>7, AnsweredNothing

(* watchdog_handler, inside a removal, and a failure of the power.         *)
LEMMA AnsweredFaults ==
  ASSUME AnswerInv, TypeInv', WatchdogInRemoval \/ PowerFailsInSave
  PROVE  AnswerInv'
  <1>1. /\ logged' = logged + 1 /\ synced' = synced /\ events' = <<>>
        /\ inflight' = <<>>
    BY DEF WatchdogInRemoval, PowerFailsInSave, DropClient
  <1>2. /\ Inv /\ events \in Seq(Entry) /\ logged \in Nat /\ NoneEmpty(events)
        /\ Past(events, logged) /\ synced' \in BOOLEAN /\ NoneEmpty(<<>>)
    BY <1>1, AnswerFacts, Facts DEF NoneEmpty
  <1>3. PICK all : /\ all \in Seq(Entry) /\ NoneEmpty(all) /\ Past(all, logged + 1)
                   /\ Saves(all) \/ SavesInPart(all, TRUE)
    <2>1. CASE WatchdogInRemoval
      <3>1. PICK half, all :
                /\ Halved(half, events)
                /\ all = Logged(half, "WATCHDOG", logged + 1)
                /\ Saves(all) \/ SavesInPart(all, TRUE)
        BY <1>2, <2>1, HalfIs
      <3>2. /\ half \in Seq(Entry) /\ Past(half, logged) /\ NoneEmpty(half)
            /\ half # <<>> => Len(half) \in DOMAIN half
        BY <1>2, <3>1 DEF Halved, Past, NoneEmpty
      <3>3. PICK spoilt : spoilt = Occurrences(half)
        OBVIOUS
      <3>4. ListAgrees(half, Sent, logged, spoilt)
        <4>1. \A j \in DOMAIN half : half[j].occurrences \subseteq spoilt
          BY <3>3 DEF Occurrences
        <4>2. /\ \A sent : ListAgrees(half, sent, logged, spoilt)
              /\ \A other : Apart(other, half, spoilt) /\ Apart(half, other, spoilt)
          BY <1>2, <3>2, <4>1, SpoiltAgrees
        <4> QED BY <4>2
      <3>5. "WATCHDOG" \in AllCodes
        BY DEF AllCodes, SaveCodes
      <3>6. all \in Seq(Entry) /\ ListAgrees(all, Sent, logged + 1, spoilt)
        BY <1>2, <3>1, <3>2, <3>4, <3>5, Facts, LoggedAgrees
      <3>7. NoneEmpty(all)
        BY <1>2, <3>1, <3>2, <3>5, LoggedIsLater
      <3> QED BY <3>1, <3>6, <3>7 DEF ListAgrees, Past
    <2>2. CASE PowerFailsInSave
      <3>1. PICK code, all :
                /\ code \in SaveCodes /\ all = Logged(events, code, logged + 1)
                /\ SavesInPart(all, TRUE)
        BY <2>2 DEF PowerFailsInSave
      <3>2. code \in AllCodes
        BY <3>1 DEF AllCodes
      <3>3. /\ NoneEmpty(all) /\ all \in Seq(Entry) /\ Past(all, logged + 1)
        BY <1>1, <3>1, <3>2, MoreAnswered
      <3> QED BY <3>1, <3>3
    <2> QED BY <2>1, <2>2
  <1>4. NoneEmpty(file'.contents)
    BY <1>3, NoneEmptySaved
  <1> QED BY <1>1, <1>2, <1>4, AnsweredNothing

(* Every step keeps the invariant, and what leaves the journal is          *)
(* delivered, saved or marred.                                             *)
LEMMA AnswerStep ==
  ASSUME AnswerInv, [JournalNext]_journalVars
  PROVE  /\ AnswerInv'
         /\ phase # "off" /\ phase' # "off" =>
               \A i \in DOMAIN events : events[i].synced =>
                   events[i].occurrences \subseteq
                       Occurrences(events') \cup Occurrences(Saved')
                           \cup (UNION told') \cup marred'
  <1>1. TypeInv' /\ synced \in BOOLEAN
    BY TypeStep, AnswerFacts, Facts DEF AnswerInv
  <1>2. \A i \in DOMAIN events : events[i].occurrences \subseteq Occurrences(events)
    BY DEF Occurrences
  <1>3. CASE LogEvent
    <2>1. /\ \E code \in AllCodes : Log(code)
          /\ inflight' = inflight /\ UNCHANGED <<phase, file, told, marred>>
      BY <1>3 DEF LogEvent, AllCodes, clientVars, histories
    <2>2. AnswerInv' /\ Occurrences(events) \subseteq Occurrences(events')
      BY <1>1, <2>1, AnsweredLog
    <2> QED BY <1>2, <2>2
  <1>4. CASE ClockSync \/ UNCHANGED journalVars
    <2>1. /\ inflight' = inflight
          /\ UNCHANGED <<phase, events, file, told, logged, marred>>
      BY <1>4 DEF ClockSync, journalVars, clientVars, histories
    <2>2. AnswerInv'
      BY <1>1, <2>1, AnswerFacts, AnsweredQuiet
    <2> QED BY <1>2, <2>1, <2>2
  <1>5. CASE ReportEvents
    BY <1>1, <1>2, <1>5, AnsweredReportEvents
  <1>6. CASE ReportInterrupted
    BY <1>1, <1>2, <1>6, AnsweredReportInterrupted
  <1>7. CASE HubReceives
    BY <1>1, <1>2, <1>7, AnsweredHubReceives
  <1>8. CASE Delivered
    BY <1>1, <1>8, AnsweredDelivered
  <1>9. CASE RemovalInterrupted
    BY <1>1, <1>9, AnsweredRemovalInterrupted
  <1>10. CASE NotDelivered
    BY <1>1, <1>2, <1>10, AnsweredNotDelivered
  <1>11. CASE Connect \/ Disconnect
    <2>1. /\ \E code \in AllCodes : Log(code)
          /\ inflight' = inflight /\ UNCHANGED <<phase, file, told, marred>>
      BY <1>11 DEF Connect, Disconnect, Authenticated, Disconnected, AllCodes,
                   histories
    <2>2. AnswerInv' /\ Occurrences(events) \subseteq Occurrences(events')
      BY <1>1, <2>1, AnsweredLog
    <2> QED BY <1>2, <2>2
  <1>12. CASE Setup
    <2>1. inflight' = <<>> /\ UNCHANGED <<phase, file, told, marred>>
      BY <1>12 DEF Setup, SetupClient, SetupFails, histories
    <2>2. CASE UNCHANGED <<events, synced, logged>>
      <3>1. AnswerInv'
        BY <1>1, <2>1, <2>2, AnsweredQuiet
      <3> QED BY <1>2, <2>2, <3>1
    <2>3. CASE Log("SETUP_FAILED")
      <3>1. \E code \in AllCodes : Log(code)
        BY <2>3 DEF AllCodes
      <3>2. AnswerInv' /\ Occurrences(events) \subseteq Occurrences(events')
        BY <1>1, <2>1, <3>1, AnsweredLog
      <3> QED BY <1>2, <3>2
    <2> QED BY <1>12, <2>2, <2>3 DEF Setup
  <1>13. CASE Start
    BY <1>1, <1>13, AnsweredStart DEF Start
  <1>14. CASE Reboot \/ Terminate
    <2>1. /\ \E code \in AllCodes : LogToFile(code, events, FALSE)
          /\ inflight' = inflight /\ UNCHANGED told /\ phase' # "off"
      BY <1>14 DEF Reboot, Terminate, AllCodes, SaveCodes, clientVars
    <2>2. /\ AnswerInv'
          /\ Occurrences(events)
             \subseteq Occurrences(events') \cup Occurrences(Saved') \cup marred'
      BY <1>1, <2>1, AnsweredLogToFile
    <2> QED BY <1>2, <2>2
  <1>15. CASE Watchdog
    <2>1. /\ \E code \in AllCodes : LogToFile(code, events, TRUE)
          /\ inflight' = <<>> /\ UNCHANGED told /\ phase' = "off"
      BY <1>15 DEF Watchdog, AllCodes, SaveCodes, DropClient
    <2> QED BY <1>1, <2>1, AnsweredLogToFile
  <1>16. CASE WatchdogInRemoval \/ PowerFailsInSave
    BY <1>1, <1>16, AnsweredFaults DEF WatchdogInRemoval, PowerFailsInSave
  <1>17. CASE End
    <2>1. /\ events' = <<>> /\ inflight' = <<>> /\ phase' = "off"
          /\ UNCHANGED <<file, told, logged, marred>>
      BY <1>17 DEF End, DropClient, histories
    <2> QED BY <1>1, <2>1, AnsweredQuiet
  <1> QED BY <1>3, <1>4, <1>5, <1>6, <1>7, <1>8, <1>9, <1>10, <1>11, <1>12,
             <1>13, <1>14, <1>15, <1>16, <1>17 DEF JournalNext

(* A synchronised occurrence leaves the journal of a running process only  *)
(* for the hub or the file, whatever answers come after newer events or    *)
(* for a client of before; or it is marred by a failed write or by the     *)
(* watchdog's handler (remove_events_upto, save_events_to_file).           *)
THEOREM LeavesForHubOrFile == JournalSpec => LeavesDeliveredOrSaved
  <1>1. JournalInit => AnswerInv
    <2> SUFFICES ASSUME JournalInit PROVE AnswerInv
      OBVIOUS
    <2>1. /\ events = <<>> /\ file = [count |-> 0, contents |-> <<>>]
          /\ inflight = <<>>
      BY DEF JournalInit, NoClient
    <2>2. file.contents = <<>>
      BY <2>1
    <2> QED BY <2>1, <2>2, FirstTypes DEF AnswerInv, NoneEmpty, Answered
  <1> DEFINE Leaves == phase # "off" /\ phase' # "off" =>
               \A i \in DOMAIN events : events[i].synced =>
                   events[i].occurrences \subseteq
                       Occurrences(events') \cup Occurrences(Saved')
                           \cup (UNION told') \cup marred'
  <1>2. AnswerInv /\ [JournalNext]_journalVars => AnswerInv' /\ [Leaves]_journalVars
    BY AnswerStep
  <1>3. LeavesDeliveredOrSaved <=> [][Leaves]_journalVars
    BY DEF LeavesDeliveredOrSaved
  <1> HIDE DEF Leaves
  <1> QED BY <1>1, <1>2, <1>3, PTL DEF JournalSpec
=============================================================================

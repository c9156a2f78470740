----------------------------- MODULE QueueProofs -----------------------------
(***************************************************************************)
(* Proofs about the scheduler: where a message is, from its push until it  *)
(* has been executed, and the order in which the messages of a process are *)
(* executed.                                                               *)
(***************************************************************************)
EXTENDS SchedulerProofs

-----------------------------------------------------------------------------
(* A family of sequences in which nothing occurs twice.                    *)
Distinct(F) ==
  \A b, d \in DOMAIN F : \A k \in 1 .. Len(F[b]), l \in 1 .. Len(F[d]) :
    F[b][k] = F[d][l] => b = d /\ k = l
Contents(F) == UNION {Elements(F[b]) : b \in DOMAIN F}

LEMMA ContentsAt ==
  ASSUME NEW F, NEW m
  PROVE  m \in Contents(F) <=> \E b \in DOMAIN F : \E k \in 1 .. Len(F[b]) : F[b][k] = m
  BY DEF Contents, Elements

LEMMA HeadAt ==
  ASSUME NEW S, NEW s \in Seq(S), s # << >>
  PROVE  /\ Head(s) = s[1] /\ Head(s) \in S /\ Tail(s) \in Seq(S)
         /\ Len(s) \in Nat \ {0} /\ Len(Tail(s)) = Len(s) - 1
         /\ \A k \in 1 .. Len(s) - 1 : Tail(s)[k] = s[k + 1]
<1>1. Len(s) \in Nat \ {0}
  BY EmptySeq
<1> QED
  BY <1>1, HeadTailProperties

LEMMA AtContents ==
  ASSUME NEW F, NEW b \in DOMAIN F, NEW k \in 1 .. Len(F[b])
  PROVE  F[b][k] \in Contents(F)
  BY ContentsAt

LEMMA ContentsWithin ==
  ASSUME NEW F, NEW X, \A b \in DOMAIN F : \A k \in 1 .. Len(F[b]) : F[b][k] \in X
  PROVE  Contents(F) \subseteq X
  BY ContentsAt

LEMMA ConcatAt ==
  ASSUME NEW S, NEW s \in Seq(S), NEW t \in Seq(S)
  PROVE  /\ Len(s) \in Nat /\ Len(t) \in Nat
         /\ Len(s \o t) = Len(s) + Len(t)
         /\ \A k \in 1 .. Len(s) : (s \o t)[k] = s[k]
         /\ \A k \in 1 .. Len(t) : (s \o t)[Len(s) + k] = t[k]
<1>1. Len(s) \in Nat /\ Len(t) \in Nat
  BY LenProperties
<1>2. /\ Len(s \o t) = Len(s) + Len(t)
      /\ \A i \in 1 .. Len(s) + Len(t) :
           (s \o t)[i] = IF i <= Len(s) THEN s[i] ELSE t[i - Len(s)]
  BY ConcatProperties
<1>3. ASSUME NEW k \in 1 .. Len(s) PROVE (s \o t)[k] = s[k]
  BY <1>1, <1>2
<1>4. ASSUME NEW k \in 1 .. Len(t) PROVE (s \o t)[Len(s) + k] = t[k]
  <2>1. PICK i \in Int : i = Len(s) + k
    BY <1>1
  <2>2. i \in 1 .. Len(s) + Len(t) /\ ~(i <= Len(s)) /\ i - Len(s) = k
    BY <1>1, <2>1
  <2> QED
    BY <1>2, <2>1, <2>2
<1> QED
  BY <1>1, <1>2, <1>3, <1>4

LEMMA DistinctAt ==
  ASSUME NEW F, Distinct(F), NEW b \in DOMAIN F, NEW d \in DOMAIN F,
         NEW k \in 1 .. Len(F[b]), NEW l \in 1 .. Len(F[d]), F[b][k] = F[d][l]
  PROVE  b = d /\ k = l
  BY DEF Distinct

LEMMA NotInContents ==
  ASSUME NEW F, NEW m, \A b \in DOMAIN F : \A k \in 1 .. Len(F[b]) : F[b][k] # m
  PROVE  m \notin Contents(F)
  BY ContentsAt

(* Every element of G is taken from a box and a place of F, and no two     *)
(* from the same.                                                          *)
Carries(F, G, box, place) ==
  /\ \A b \in DOMAIN G : \A k \in 1 .. Len(G[b]) :
       /\ box[b][k] \in DOMAIN F /\ place[b][k] \in 1 .. Len(F[box[b][k]])
       /\ G[b][k] = F[box[b][k]][place[b][k]]
  /\ \A b, e \in DOMAIN G : \A k \in 1 .. Len(G[b]), l \in 1 .. Len(G[e]) :
       box[b][k] = box[e][l] /\ place[b][k] = place[e][l] => b = e /\ k = l

LEMMA Rearranged ==
  ASSUME NEW F, NEW G, NEW box, NEW place, Distinct(F), Carries(F, G, box, place)
  PROVE  Distinct(G) /\ Contents(G) \subseteq Contents(F)
<1>1. ASSUME NEW b \in DOMAIN G, NEW k \in 1 .. Len(G[b])
      PROVE  /\ box[b][k] \in DOMAIN F /\ place[b][k] \in 1 .. Len(F[box[b][k]])
             /\ G[b][k] = F[box[b][k]][place[b][k]]
  BY DEF Carries
<1>2. ASSUME NEW b \in DOMAIN G, NEW e \in DOMAIN G,
             NEW k \in 1 .. Len(G[b]), NEW l \in 1 .. Len(G[e]), G[b][k] = G[e][l]
      PROVE  b = e /\ k = l
  <2> DEFINE x == box[b][k]
             y == box[e][l]
             i == place[b][k]
             j == place[e][l]
  <2>1. x \in DOMAIN F /\ i \in 1 .. Len(F[x]) /\ G[b][k] = F[x][i]
    BY <1>1
  <2>2. y \in DOMAIN F /\ j \in 1 .. Len(F[y]) /\ G[e][l] = F[y][j]
    BY <1>1
  <2>3. x = y /\ i = j
    <3>1. F[x][i] = F[y][j]
      BY <1>2, <2>1, <2>2
    <3> HIDE DEF x, y, i, j
    <3> QED
      BY <2>1, <2>2, <3>1 DEF Distinct
  <2> QED
    BY <2>3 DEF Carries
<1>3. Distinct(G)
  BY <1>2 DEF Distinct
<1>4. ASSUME NEW b \in DOMAIN G, NEW k \in 1 .. Len(G[b]) PROVE G[b][k] \in Contents(F)
  <2>1. F[box[b][k]][place[b][k]] \in Contents(F)
    BY <1>1, AtContents
  <2> QED
    BY <1>1, <2>1
<1> QED
  BY <1>3, <1>4, ContentsWithin

(* The head of one sequence goes to the end of another.                    *)
SeqFamily(B, F) == F \in [B -> Seq(Nat)]

HeadMoved(F, G, s, d) ==
  /\ s # d /\ F[s] # << >>
  /\ G[s] = Tail(F[s]) /\ G[d] = Append(F[d], Head(F[s]))
  /\ \A b \in DOMAIN F \ {s, d} : G[b] = F[b]

LEMMA HeadMoves ==
  ASSUME NEW B, NEW F, NEW G, SeqFamily(B, F), SeqFamily(B, G), Distinct(F),
         NEW s \in B, NEW d \in B, HeadMoved(F, G, s, d)
  PROVE  Distinct(G) /\ Contents(G) = Contents(F)
<1>a. /\ s # d /\ F[s] # << >>
      /\ G[s] = Tail(F[s]) /\ G[d] = Append(F[d], Head(F[s]))
      /\ \A b \in B \ {s, d} : G[b] = F[b]
  BY DEF HeadMoved, SeqFamily
<1>0. DOMAIN F = B /\ DOMAIN G = B
  BY DEF SeqFamily
<1>1. \A b \in B : F[b] \in Seq(Nat) /\ Len(F[b]) \in Nat
  <2>1. \A b \in B : F[b] \in Seq(Nat)
    BY DEF SeqFamily
  <2> QED
    BY <2>1, LenProperties
<1>2. F[s][1] \in Nat /\ Head(F[s]) = F[s][1]
      /\ Len(F[s]) \in Nat \ {0} /\ Len(G[s]) = Len(F[s]) - 1
      /\ \A k \in 1 .. Len(F[s]) - 1 : G[s][k] = F[s][k + 1]
  <2>1. F[s] \in Seq(Nat)
    BY <1>1
  <2> QED
    BY <1>a, <2>1, HeadAt
<1>3. Len(G[d]) = Len(F[d]) + 1 /\ G[d][Len(F[d]) + 1] = F[s][1]
      /\ \A k \in 1 .. Len(F[d]) : G[d][k] = F[d][k]
  <2>1. F[d] \in Seq(Nat) /\ F[s][1] \in Nat /\ G[d] = Append(F[d], F[s][1])
    BY <1>a, <1>1, <1>2
  <2> QED
    BY <1>a, <2>1, AppendProperties
<1> DEFINE last  == Len(F[d]) + 1
           box   == [b \in B |-> [k \in Nat |-> IF b = d /\ k = last THEN s ELSE b]]
           place == [b \in B |-> [k \in Nat |-> IF b = d /\ k = last THEN 1
                                                ELSE IF b = s THEN k + 1 ELSE k]]
<1> HIDE DEF box, place
<1>4. \A b \in B : \A k \in 1 .. Len(G[b]) :
        /\ box[b][k] \in B /\ place[b][k] \in 1 .. Len(F[box[b][k]])
        /\ G[b][k] = F[box[b][k]][place[b][k]]
  <2> SUFFICES ASSUME NEW b \in B, NEW k \in 1 .. Len(G[b])
               PROVE  /\ box[b][k] \in B /\ place[b][k] \in 1 .. Len(F[box[b][k]])
                      /\ G[b][k] = F[box[b][k]][place[b][k]]
    OBVIOUS
  <2>1. CASE b = d /\ k = last
    <3>1. box[b][k] = s /\ place[b][k] = 1
      BY <1>a, <1>1, <2>1 DEF box, place
    <3>2. 1 \in 1 .. Len(F[s])
      BY <1>2
    <3> QED
      BY <1>3, <2>1, <3>1, <3>2
  <2>2. CASE b = s
    <3>1. k \in 1 .. Len(F[s]) - 1 /\ k + 1 \in 1 .. Len(F[s])
      BY <1>2, <2>2
    <3>2. box[b][k] = s /\ place[b][k] = k + 1
      BY <1>a, <2>2 DEF box, place
    <3> QED
      BY <1>2, <2>2, <3>1, <3>2
  <2>3. CASE b = d /\ k # last
    <3>1. k \in 1 .. Len(F[d])
      BY <1>1, <1>3, <2>3
    <3>2. box[b][k] = d /\ place[b][k] = k
      BY <1>a, <2>3 DEF box, place
    <3> QED
      BY <1>3, <2>3, <3>1, <3>2
  <2>4. CASE b \notin {s, d}
    <3>1. G[b] = F[b]
      BY <1>a, <2>4
    <3>2. box[b][k] = b /\ place[b][k] = k
      BY <1>a, <2>4 DEF box, place
    <3> QED
      BY <3>1, <3>2
  <2> QED
    BY <2>1, <2>2, <2>3, <2>4
<1>5. ASSUME NEW b \in B, NEW e \in B, NEW k \in 1 .. Len(G[b]), NEW l \in 1 .. Len(G[e]),
             box[b][k] = box[e][l], place[b][k] = place[e][l]
      PROVE  b = e /\ k = l
  <2>1. k \in Nat \ {0} /\ l \in Nat \ {0} /\ last \in Nat
    BY <1>1
  <2>2. CASE b = d /\ k = last
    BY <1>5, <1>a, <2>1, <2>2 DEF box, place
  <2>3. CASE ~(b = d /\ k = last)
    BY <1>5, <1>a, <2>1, <2>3 DEF box, place
  <2> QED
    BY <2>2, <2>3
<1>6. Distinct(G) /\ Contents(G) \subseteq Contents(F)
  <2>1. Carries(F, G, box, place)
    BY <1>0, <1>4, <1>5 DEF Carries
  <2> QED
    BY <2>1, Rearranged
<1>7. ASSUME NEW b \in B, NEW k \in 1 .. Len(F[b]) PROVE F[b][k] \in Contents(G)
  <2>1. CASE b = s /\ k = 1
    <3>1. Len(F[d]) + 1 \in 1 .. Len(G[d]) /\ G[d][Len(F[d]) + 1] = F[b][k]
      BY <1>1, <1>3, <2>1
    <3> QED
      BY <1>0, <3>1, AtContents
  <2>2. CASE b = s /\ k # 1
    <3>1. k - 1 \in 1 .. Len(F[s]) - 1 /\ k = (k - 1) + 1
      BY <1>2, <2>2
    <3>2. k - 1 \in 1 .. Len(G[s]) /\ G[s][k - 1] = F[b][k]
      BY <1>2, <2>2, <3>1
    <3> QED
      BY <1>0, <3>2, AtContents
  <2>3. CASE b = d
    <3>1. k \in 1 .. Len(G[d]) /\ G[d][k] = F[b][k]
      BY <1>1, <1>3, <2>3
    <3> QED
      BY <1>0, <3>1, AtContents
  <2>4. CASE b \notin {s, d}
    <3>1. G[b] = F[b]
      BY <1>a, <2>4
    <3> QED
      BY <1>0, <3>1, AtContents
  <2> QED
    BY <2>1, <2>2, <2>3, <2>4
<1>8. Contents(F) \subseteq Contents(G)
  BY <1>0, <1>7, ContentsWithin
<1> QED
  BY <1>6, <1>8

(* A whole sequence goes to the end of another.                            *)
AllMoved(F, G, s, d) ==
  /\ s # d /\ G[s] = << >> /\ G[d] = F[d] \o F[s]
  /\ \A b \in DOMAIN F \ {s, d} : G[b] = F[b]

LEMMA AllMove ==
  ASSUME NEW B, NEW F, NEW G, SeqFamily(B, F), SeqFamily(B, G), Distinct(F),
         NEW s \in B, NEW d \in B, AllMoved(F, G, s, d)
  PROVE  Distinct(G) /\ Contents(G) = Contents(F)
<1>a. /\ s # d /\ G[s] = << >> /\ G[d] = F[d] \o F[s]
      /\ \A b \in B \ {s, d} : G[b] = F[b]
  BY DEF AllMoved, SeqFamily
<1>0. DOMAIN F = B /\ DOMAIN G = B
  BY DEF SeqFamily
<1>1. \A b \in B : F[b] \in Seq(Nat) /\ Len(F[b]) \in Nat
  <2>1. \A b \in B : F[b] \in Seq(Nat)
    BY DEF SeqFamily
  <2> QED
    BY <2>1, LenProperties
<1>2. Len(G[s]) = 0
  BY <1>a
<1>3. PICK n \in Nat : n = Len(F[d])
  BY <1>1
<1>4. /\ Len(F[s]) \in Nat /\ Len(G[d]) = n + Len(F[s])
      /\ \A k \in 1 .. n : G[d][k] = F[d][k]
      /\ \A k \in 1 .. Len(F[s]) : G[d][n + k] = F[s][k]
  <2>1. F[d] \in Seq(Nat) /\ F[s] \in Seq(Nat) /\ G[d] = F[d] \o F[s]
    BY <1>a, <1>1
  <2>2. PICK x \in Seq(Nat), y \in Seq(Nat) : x = F[d] /\ y = F[s]
    BY <2>1
  <2>3. /\ Len(y) \in Nat /\ Len(x \o y) = Len(x) + Len(y)
        /\ \A k \in 1 .. Len(x) : (x \o y)[k] = x[k]
        /\ \A k \in 1 .. Len(y) : (x \o y)[Len(x) + k] = y[k]
    BY ConcatAt
  <2> QED
    BY <1>3, <2>1, <2>2, <2>3
<1> DEFINE box   == [b \in B |-> [k \in Nat |-> IF b = d /\ k > n THEN s ELSE b]]
           place == [b \in B |-> [k \in Nat |-> IF b = d /\ k > n THEN k - n ELSE k]]
<1> HIDE DEF box, place
<1>5. \A b \in B : \A k \in 1 .. Len(G[b]) :
        /\ box[b][k] \in B /\ place[b][k] \in 1 .. Len(F[box[b][k]])
        /\ G[b][k] = F[box[b][k]][place[b][k]]
  <2> SUFFICES ASSUME NEW b \in B, NEW k \in 1 .. Len(G[b])
               PROVE  /\ box[b][k] \in B /\ place[b][k] \in 1 .. Len(F[box[b][k]])
                      /\ G[b][k] = F[box[b][k]][place[b][k]]
    OBVIOUS
  <2>1. b # s
    BY <1>2
  <2>2. CASE b = d /\ k > n
    <3>1. k \in 1 .. n + Len(F[s])
      BY <1>4, <2>2
    <3>2. PICK l \in Int : l = k - n
      BY <3>1, <1>4
    <3>3. l \in 1 .. Len(F[s]) /\ k = n + l
      BY <1>4, <2>2, <3>1, <3>2
    <3>4. box[b][k] = s /\ place[b][k] = l
      BY <1>a, <2>2, <3>1, <3>2 DEF box, place
    <3> QED
      BY <1>4, <2>2, <3>3, <3>4
  <2>3. CASE b = d /\ ~(k > n)
    <3>1. k \in 1 .. n
      BY <1>4, <2>3
    <3>2. box[b][k] = d /\ place[b][k] = k
      BY <1>a, <2>3 DEF box, place
    <3> QED
      BY <1>3, <1>4, <2>3, <3>1, <3>2
  <2>4. CASE b # d
    <3>1. G[b] = F[b]
      BY <1>a, <2>1, <2>4
    <3>2. box[b][k] = b /\ place[b][k] = k
      BY <1>a, <2>4 DEF box, place
    <3> QED
      BY <3>1, <3>2
  <2> QED
    BY <2>2, <2>3, <2>4
<1>6. ASSUME NEW b \in B, NEW e \in B, NEW k \in 1 .. Len(G[b]), NEW l \in 1 .. Len(G[e]),
             box[b][k] = box[e][l], place[b][k] = place[e][l]
      PROVE  b = e /\ k = l
  <2>1. b # s /\ e # s
    BY <1>2
  <2>2. k \in Nat /\ l \in Nat
    BY <1>1
  <2>3. CASE b = d /\ k > n
    BY <1>6, <2>1, <2>2, <2>3 DEF box, place
  <2>4. CASE ~(b = d /\ k > n)
    BY <1>6, <2>1, <2>2, <2>4 DEF box, place
  <2> QED
    BY <2>3, <2>4
<1>7. Distinct(G) /\ Contents(G) \subseteq Contents(F)
  <2>1. Carries(F, G, box, place)
    BY <1>0, <1>5, <1>6 DEF Carries
  <2> QED
    BY <2>1, Rearranged
<1>8. ASSUME NEW b \in B, NEW k \in 1 .. Len(F[b]) PROVE F[b][k] \in Contents(G)
  <2>1. CASE b = s
    <3>1. PICK l : l = n + k
      OBVIOUS
    <3>2. l \in 1 .. Len(G[d]) /\ G[d][l] = F[b][k]
      BY <1>4, <2>1, <3>1
    <3> QED
      BY <1>0, <3>2, AtContents
  <2>2. CASE b = d
    <3>1. k \in 1 .. n
      BY <1>3, <2>2
    <3>2. k \in 1 .. Len(G[d]) /\ G[d][k] = F[b][k]
      BY <1>4, <2>2, <3>1
    <3> QED
      BY <1>0, <3>2, AtContents
  <2>3. CASE b \notin {s, d}
    <3>1. G[b] = F[b]
      BY <1>a, <2>3
    <3> QED
      BY <1>0, <3>1, AtContents
  <2> QED
    BY <2>1, <2>2, <2>3
<1>9. Contents(F) \subseteq Contents(G)
  BY <1>0, <1>8, ContentsWithin
<1> QED
  BY <1>7, <1>9

(* The head of a sequence is taken away.                                   *)
HeadLeft(F, G, s) ==
  F[s] # << >> /\ G[s] = Tail(F[s]) /\ \A b \in DOMAIN F \ {s} : G[b] = F[b]

LEMMA HeadLeaves ==
  ASSUME NEW B, NEW F, NEW G, SeqFamily(B, F), SeqFamily(B, G), Distinct(F),
         NEW s \in B, HeadLeft(F, G, s)
  PROVE  Distinct(G) /\ Contents(G) = Contents(F) \ {Head(F[s])}
<1>a. F[s] # << >> /\ G[s] = Tail(F[s]) /\ \A b \in B \ {s} : G[b] = F[b]
  BY DEF HeadLeft, SeqFamily
<1>0. DOMAIN F = B /\ DOMAIN G = B
  BY DEF SeqFamily
<1>1. \A b \in B : F[b] \in Seq(Nat) /\ Len(F[b]) \in Nat
  <2>1. \A b \in B : F[b] \in Seq(Nat)
    BY DEF SeqFamily
  <2> QED
    BY <2>1, LenProperties
<1>2. Head(F[s]) = F[s][1] /\ Len(F[s]) \in Nat \ {0} /\ Len(G[s]) = Len(F[s]) - 1
      /\ \A k \in 1 .. Len(F[s]) - 1 : G[s][k] = F[s][k + 1]
  <2>1. F[s] \in Seq(Nat)
    BY <1>1
  <2> QED
    BY <1>a, <2>1, HeadAt
<1> DEFINE box   == [b \in B |-> [k \in Nat |-> b]]
           place == [b \in B |-> [k \in Nat |-> IF b = s THEN k + 1 ELSE k]]
<1> HIDE DEF box, place
<1>3. \A b \in B : \A k \in 1 .. Len(G[b]) :
        /\ box[b][k] \in B /\ place[b][k] \in 1 .. Len(F[box[b][k]])
        /\ G[b][k] = F[box[b][k]][place[b][k]]
        /\ box[b][k] # s \/ place[b][k] # 1
  <2> SUFFICES ASSUME NEW b \in B, NEW k \in 1 .. Len(G[b])
               PROVE  /\ box[b][k] \in B /\ place[b][k] \in 1 .. Len(F[box[b][k]])
                      /\ G[b][k] = F[box[b][k]][place[b][k]]
                      /\ box[b][k] # s \/ place[b][k] # 1
    OBVIOUS
  <2>1. CASE b = s
    <3>1. k \in 1 .. Len(F[s]) - 1 /\ k + 1 \in 1 .. Len(F[s]) /\ k + 1 # 1
      BY <1>2, <2>1
    <3>2. box[b][k] = s /\ place[b][k] = k + 1
      BY <1>a, <2>1 DEF box, place
    <3> QED
      BY <1>2, <2>1, <3>1, <3>2
  <2>2. CASE b # s
    <3>1. G[b] = F[b]
      BY <1>a, <2>2
    <3>2. box[b][k] = b /\ place[b][k] = k
      BY <1>a, <2>2 DEF box, place
    <3> QED
      BY <2>2, <3>1, <3>2
  <2> QED
    BY <2>1, <2>2
<1>4. ASSUME NEW b \in B, NEW e \in B, NEW k \in 1 .. Len(G[b]), NEW l \in 1 .. Len(G[e]),
             box[b][k] = box[e][l], place[b][k] = place[e][l]
      PROVE  b = e /\ k = l
  <2>1. k \in Nat /\ l \in Nat
    BY <1>1
  <2> QED
    BY <1>4, <2>1 DEF box, place
<1>5. Distinct(G) /\ Contents(G) \subseteq Contents(F)
  <2>1. \A b \in B : \A k \in 1 .. Len(G[b]) :
          /\ box[b][k] \in B /\ place[b][k] \in 1 .. Len(F[box[b][k]])
          /\ G[b][k] = F[box[b][k]][place[b][k]]
    BY <1>3
  <2>2. Carries(F, G, box, place)
    BY <1>0, <1>4, <2>1 DEF Carries
  <2> QED
    BY <2>2, Rearranged
<1>6. ASSUME NEW b \in B, NEW k \in 1 .. Len(G[b]) PROVE G[b][k] # Head(F[s])
  <2>1. 1 \in 1 .. Len(F[s])
    BY <1>2
  <2>2. /\ box[b][k] \in B /\ place[b][k] \in 1 .. Len(F[box[b][k]])
        /\ G[b][k] = F[box[b][k]][place[b][k]]
        /\ box[b][k] # s \/ place[b][k] # 1
    BY <1>3
  <2>3. ASSUME F[box[b][k]][place[b][k]] = F[s][1] PROVE FALSE
    BY <1>0, <2>1, <2>2, <2>3, DistinctAt
  <2> QED
    BY <1>2, <2>2, <2>3
<1>7. Head(F[s]) \notin Contents(G)
  BY <1>0, <1>6, NotInContents
<1>8. ASSUME NEW b \in B, NEW k \in 1 .. Len(F[b])
      PROVE  F[b][k] \in Contents(G) \cup {Head(F[s])}
  <2>1. CASE b = s /\ k = 1
    BY <1>2, <2>1
  <2>2. CASE b = s /\ k # 1
    <3>1. k - 1 \in 1 .. Len(F[s]) - 1 /\ k = (k - 1) + 1
      BY <1>1, <2>2
    <3>2. k - 1 \in 1 .. Len(G[s]) /\ G[s][k - 1] = F[b][k]
      BY <1>2, <2>2, <3>1
    <3> QED
      BY <1>0, <3>2, AtContents
  <2>3. CASE b # s
    <3>1. G[b] = F[b]
      BY <1>a, <2>3
    <3> QED
      BY <1>0, <3>1, AtContents
  <2> QED
    BY <2>1, <2>2, <2>3
<1>9. Contents(F) \subseteq Contents(G) \cup {Head(F[s])}
  BY <1>0, <1>8, ContentsWithin
<1> QED
  BY <1>5, <1>7, <1>9

(* Something new goes to the end of a sequence.                            *)
Arrived(F, G, d, m) ==
  G[d] = Append(F[d], m) /\ \A b \in DOMAIN F \ {d} : G[b] = F[b]

LEMMA Arrives ==
  ASSUME NEW B, NEW F, NEW G, SeqFamily(B, F), SeqFamily(B, G), Distinct(F),
         NEW d \in B, NEW m \in Nat, m \notin Contents(F), Arrived(F, G, d, m)
  PROVE  Distinct(G) /\ Contents(G) = Contents(F) \cup {m}
<1>a. G[d] = Append(F[d], m) /\ \A b \in B \ {d} : G[b] = F[b]
  BY DEF Arrived, SeqFamily
<1>0. DOMAIN F = B /\ DOMAIN G = B
  BY DEF SeqFamily
<1>1. \A b \in B : F[b] \in Seq(Nat) /\ Len(F[b]) \in Nat
  <2>1. \A b \in B : F[b] \in Seq(Nat)
    BY DEF SeqFamily
  <2> QED
    BY <2>1, LenProperties
<1>2. Len(G[d]) = Len(F[d]) + 1 /\ G[d][Len(F[d]) + 1] = m
      /\ \A k \in 1 .. Len(F[d]) : G[d][k] = F[d][k]
  <2>1. F[d] \in Seq(Nat)
    BY <1>1
  <2> QED
    BY <1>a, <2>1, AppendProperties
<1> DEFINE New(b, k) == b = d /\ k = Len(F[d]) + 1
<1>3. ASSUME NEW b \in B, NEW k \in 1 .. Len(G[b])
      PROVE  /\ New(b, k) => G[b][k] = m
             /\ ~New(b, k) => /\ k \in 1 .. Len(F[b]) /\ G[b][k] = F[b][k]
                              /\ G[b][k] # m
  <2>1. ASSUME NEW l \in 1 .. Len(F[b]) PROVE F[b][l] # m
    BY <1>0, AtContents
  <2>2. CASE New(b, k)
    BY <1>2, <2>2
  <2>3. CASE b = d /\ ~New(b, k)
    <3>1. k \in 1 .. Len(F[d])
      BY <1>1, <1>2, <2>3
    <3> QED
      BY <1>2, <2>1, <2>3, <3>1
  <2>4. CASE b # d
    <3>1. G[b] = F[b]
      BY <1>a, <2>4
    <3> QED
      BY <2>1, <2>4, <3>1
  <2> QED
    BY <2>2, <2>3, <2>4
<1>4. ASSUME NEW b \in B, NEW e \in B, NEW k \in 1 .. Len(G[b]), NEW l \in 1 .. Len(G[e]),
             G[b][k] = G[e][l]
      PROVE  b = e /\ k = l
  <2>1. CASE New(b, k)
    <3>1. G[e][l] = m
      BY <1>3, <1>4, <2>1
    <3>2. New(e, l)
      BY <1>3, <3>1
    <3> QED
      BY <2>1, <3>2
  <2>2. CASE ~New(b, k)
    <3>1. k \in 1 .. Len(F[b]) /\ G[b][k] = F[b][k] /\ G[b][k] # m
      BY <1>3, <2>2
    <3>2. ~New(e, l)
      BY <1>3, <1>4, <3>1
    <3>3. l \in 1 .. Len(F[e]) /\ G[e][l] = F[e][l]
      BY <1>3, <3>2
    <3>4. F[b][k] = F[e][l]
      BY <1>4, <3>1, <3>3
    <3> QED
      BY <1>0, <3>1, <3>3, <3>4 DEF Distinct
  <2> QED
    BY <2>1, <2>2
<1>5. Distinct(G)
  BY <1>0, <1>4 DEF Distinct
<1>6. ASSUME NEW b \in B, NEW k \in 1 .. Len(G[b]) PROVE G[b][k] \in Contents(F) \cup {m}
  <2>1. CASE New(b, k)
    BY <1>3, <2>1
  <2>2. CASE ~New(b, k)
    <3>1. k \in 1 .. Len(F[b]) /\ G[b][k] = F[b][k]
      BY <1>3, <2>2
    <3> QED
      BY <1>0, <3>1, AtContents
  <2> QED
    BY <2>1, <2>2
<1>7. Contents(G) \subseteq Contents(F) \cup {m}
  BY <1>0, <1>6, ContentsWithin
<1>8. m \in Contents(G)
  <2>1. Len(F[d]) + 1 \in 1 .. Len(G[d])
    BY <1>1, <1>2
  <2> QED
    BY <1>0, <1>2, <2>1, AtContents
<1>9. ASSUME NEW b \in B, NEW k \in 1 .. Len(F[b]) PROVE F[b][k] \in Contents(G)
  <2>1. CASE b = d
    <3>1. k \in 1 .. Len(G[d]) /\ G[d][k] = F[b][k]
      BY <1>1, <1>2, <2>1
    <3> QED
      BY <1>0, <3>1, AtContents
  <2>2. CASE b # d
    <3>1. G[b] = F[b]
      BY <1>a, <2>2
    <3> QED
      BY <1>0, <3>1, AtContents
  <2> QED
    BY <2>1, <2>2
<1>10. Contents(F) \subseteq Contents(G)
  BY <1>0, <1>9, ContentsWithin
<1> QED
  BY <1>5, <1>7, <1>8, <1>10

-----------------------------------------------------------------------------
(* The queues, batches and vectors of future messages as one family.       *)
Boxes == 0 .. 3 * CoreCount - 1
QueueBox(i)  == i
BatchBox(c)  == CoreCount + c - 1
FutureBox(c) == 2 * CoreCount + c - 1
Family(q, m, f) ==
  [b \in Boxes |-> IF b < CoreCount THEN q[b]
                   ELSE IF b < 2 * CoreCount THEN m[b - CoreCount + 1]
                   ELSE f[b - 2 * CoreCount + 1]]
boxes == Family(queues, messages, future_messages)

(* Every message that is not executed is in one box, at one place. *)
Placed == Distinct(boxes) /\ Contents(boxes) = Ids \ executed

LEMMA BoxNumbers ==
  /\ \A i \in Queues : QueueBox(i) \in Boxes
  /\ \A c \in Cores : /\ BatchBox(c) \in Boxes /\ FutureBox(c) \in Boxes
                      /\ BatchBox(c) # FutureBox(c)
                      /\ \A i \in Queues : QueueBox(i) # BatchBox(c) /\ QueueBox(i) # FutureBox(c)
  /\ \A c, d \in Cores : /\ BatchBox(c) # FutureBox(d)
                         /\ c # d => BatchBox(c) # BatchBox(d) /\ FutureBox(c) # FutureBox(d)
  BY CoreAssumption DEF Boxes, QueueBox, BatchBox, FutureBox, Queues, Cores

LEMMA EveryBox ==
  ASSUME NEW b \in Boxes
  PROVE  \/ \E i \in Queues : b = QueueBox(i)
         \/ \E c \in Cores : b = BatchBox(c)
         \/ \E c \in Cores : b = FutureBox(c)
<1>1. CASE b < CoreCount
  <2>1. b \in Queues /\ b = QueueBox(b)
    BY <1>1, CoreAssumption DEF Boxes, QueueBox, Queues
  <2> QED
    BY <2>1
<1>2. CASE b >= CoreCount /\ b < 2 * CoreCount
  <2>1. b - CoreCount + 1 \in Cores /\ b = BatchBox(b - CoreCount + 1)
    BY <1>2, CoreAssumption DEF Boxes, BatchBox, Cores
  <2> QED
    BY <2>1
<1>3. CASE b >= 2 * CoreCount
  <2>1. b - 2 * CoreCount + 1 \in Cores /\ b = FutureBox(b - 2 * CoreCount + 1)
    BY <1>3, CoreAssumption DEF Boxes, FutureBox, Cores
  <2> QED
    BY <2>1
<1> QED
  BY <1>1, <1>2, <1>3, CoreAssumption DEF Boxes

LEMMA BoxValues ==
  ASSUME NEW q, NEW m, NEW f
  PROVE  /\ \A i \in Queues : Family(q, m, f)[QueueBox(i)] = q[i]
         /\ \A c \in Cores : Family(q, m, f)[BatchBox(c)] = m[c]
         /\ \A c \in Cores : Family(q, m, f)[FutureBox(c)] = f[c]
<1>1. ASSUME NEW i \in Queues PROVE Family(q, m, f)[QueueBox(i)] = q[i]
  <2>1. i \in Boxes /\ i < CoreCount
    BY CoreAssumption DEF Boxes, Queues
  <2> QED
    BY <2>1 DEF Family, QueueBox
<1>2. ASSUME NEW c \in Cores PROVE Family(q, m, f)[BatchBox(c)] = m[c]
  <2>1. PICK b : b = BatchBox(c)
    OBVIOUS
  <2>2. b \in Boxes /\ ~(b < CoreCount) /\ b < 2 * CoreCount /\ b - CoreCount + 1 = c
    BY <2>1, CoreAssumption DEF Boxes, Cores, BatchBox
  <2> QED
    BY <2>1, <2>2 DEF Family
<1>3. ASSUME NEW c \in Cores PROVE Family(q, m, f)[FutureBox(c)] = f[c]
  <2>1. PICK b : b = FutureBox(c)
    OBVIOUS
  <2>2. b \in Boxes /\ ~(b < CoreCount) /\ ~(b < 2 * CoreCount) /\ b - 2 * CoreCount + 1 = c
    BY <2>1, CoreAssumption DEF Boxes, Cores, FutureBox
  <2> QED
    BY <2>1, <2>2 DEF Family
<1> QED
  BY <1>1, <1>2, <1>3

LEMMA BoxTypes ==
  ASSUME NEW S, S \subseteq Nat, NEW q \in [Queues -> Seq(S)],
         NEW m \in [Cores -> Seq(S)], NEW f \in [Cores -> Seq(S)]
  PROVE  Family(q, m, f) \in [Boxes -> Seq(Nat)]
<1> DEFINE F == Family(q, m, f)
<1>1. ASSUME NEW b \in Boxes PROVE F[b] \in Seq(S)
  <2> HIDE DEF F
  <2>1. /\ \A i \in Queues : F[QueueBox(i)] \in Seq(S)
        /\ \A c \in Cores : F[BatchBox(c)] \in Seq(S) /\ F[FutureBox(c)] \in Seq(S)
    BY BoxValues DEF F
  <2> QED
    BY <2>1, EveryBox
<1>2. \A b \in Boxes : F[b] \in Seq(Nat)
  BY <1>1, SeqMonotonic
<1>3. F = [b \in Boxes |-> F[b]]
  BY DEF Family
<1> HIDE DEF F
<1>4. F \in [Boxes -> Seq(Nat)]
  BY <1>2, <1>3
<1> QED
  BY <1>4 DEF F

LEMMA BoxesTyped == ASSUME TypeOK PROVE boxes \in [Boxes -> Seq(Nat)]
<1>1. Ids \subseteq Nat
  BY DEF Ids, TypeOK
<1> QED
  BY <1>1, BoxTypes DEF TypeOK, boxes

LEMMA BoxesTypedNext == ASSUME TypeOK' PROVE boxes' \in [Boxes -> Seq(Nat)]
<1>1. Ids' \subseteq Nat
  BY DEF Ids, TypeOK
<1>2. /\ queues' \in [Queues -> Seq(Ids')] /\ messages' \in [Cores -> Seq(Ids')]
      /\ future_messages' \in [Cores -> Seq(Ids')]
  BY DEF TypeOK
<1>3. Family(queues', messages', future_messages') \in [Boxes -> Seq(Nat)]
  BY <1>1, <1>2, BoxTypes
<1> QED
  BY <1>3 DEF boxes, Family, Boxes

-----------------------------------------------------------------------------
USE DEF queueVars, idleVars, batchVars, historyVars

(* The steps that move a message, and all the others.                      *)
Quiet ==
  /\ UNCHANGED <<queues, messages, future_messages, target, timers, executed>>
  /\ \A d \in Cores : pc[d] = "grab" => pc'[d] = "grab" /\ scan'[d] = scan[d]
  /\ \A d \in Cores : current_time'[d] \in {current_time[d], later}

LEMMA Elsewhere ==
  ASSUME TypeOK, NEW t \in Threads, pc[t] # "grab", NEW l, Go(t, l)
  PROVE  \A d \in Cores : pc[d] = "grab" => pc'[d] = "grab"
<1>1. pc \in [Threads -> CorePcs \cup SendPcs \cup MainPcs] /\ Cores \subseteq Threads
  BY Constants DEF TypeOK
<1> QED
  BY <1>1 DEF Go

LEMMA ElsewhereScan ==
  ASSUME TypeOK, NEW c \in Cores, pc[c] # "grab", NextQueue(c)
  PROVE  \A d \in Cores : pc[d] = "grab" => pc'[d] = "grab" /\ scan'[d] = scan[d]
<1>1. pc \in [Threads -> CorePcs \cup SendPcs \cup MainPcs] /\ Cores \subseteq Threads
      /\ scan \in [Cores -> Queues]
  BY Constants DEF TypeOK
<1> QED
  BY <1>1 DEF Go, NextQueue

LEMMA Movers ==
  ASSUME IInv, [Next]_vars
  PROVE  \/ \E c \in Cores : Pop(c) \/ Commit(c) \/ Finish(c)
         \/ \E t \in Threads : Push(t)
         \/ Quiet
<1>0. TypeOK /\ Cores \subseteq Threads /\ Main \in Threads
  BY Constants DEF IInv
<1>1. ASSUME NEW c \in Cores, CoreStep(c)
      PROVE  Pop(c) \/ Commit(c) \/ Finish(c) \/ Quiet
  <2>0. /\ c \in Threads
        /\ pc[c] # "grab" =>
             /\ \A l : Go(c, l) => \A d \in Cores : pc[d] = "grab" => pc'[d] = "grab"
             /\ NextQueue(c) => \A d \in Cores : pc[d] = "grab" => pc'[d] = "grab" /\ scan'[d] = scan[d]
    BY <1>0, Elsewhere, ElsewhereScan
  <2>1. CASE TryQueueMiss(c)
    BY <2>0, <2>1 DEF TryQueueMiss, Quiet
  <2>2. CASE \E i \in Queues : TryQueueHit(c, i)
    BY <2>0, <2>2 DEF TryQueueHit, Quiet
  <2>3. CASE LeaveQueue(c)
    BY <2>0, <2>3 DEF LeaveQueue, Quiet
  <2>4. CASE LockProcess(c)
    <3>1. \A d \in Cores : current_time'[d] \in {current_time[d], later}
      BY <1>0, <2>4 DEF LockProcess, TypeOK
    <3> QED
      BY <2>0, <2>4, <3>1 DEF LockProcess, Quiet
  <2>5. CASE Begin(c)
    BY <2>0, <2>5 DEF Begin, Quiet
  <2>6. CASE Release(c)
    BY <2>0, <2>6 DEF Release, Quiet
  <2>7. CASE ReleaseEmpty(c)
    BY <2>0, <2>7 DEF ReleaseEmpty, Quiet
  <2>8. CASE Uncount(c)
    BY <2>0, <2>8 DEF Uncount, Quiet
  <2>9. CASE EndScan(c)
    BY <2>0, <2>9 DEF EndScan, Quiet
  <2>10. CASE Nap(c)
    BY <2>0, <2>10 DEF Nap, Again, Quiet
  <2>11. CASE ChangeMind(c)
    BY <2>0, <2>11 DEF ChangeMind, Again, Quiet
  <2>12. CASE GoHome(c)
    BY <2>0, <2>12 DEF GoHome, Quiet
  <2>13. CASE FallAsleep(c)
    BY <2>0, <2>13 DEF FallAsleep, Quiet
  <2>14. CASE Wait(c)
    BY <2>0, <2>14 DEF Wait, Quiet
  <2>15. CASE Wake(c)
    BY <2>0, <2>15 DEF Wake, Again, Quiet
  <2> QED
    BY <1>1, <2>1, <2>2, <2>3, <2>4, <2>5, <2>6, <2>7, <2>8,
       <2>9, <2>10, <2>11, <2>12, <2>13, <2>14, <2>15 DEF CoreStep
<1>2. ASSUME NEW t \in Threads, SendMessage(t) PROVE Push(t) \/ Quiet
  <2>1. CASE Count(t)
    BY <1>0, <2>1, Elsewhere DEF Count, Quiet
  <2>2. CASE Notify(t)
    BY <1>0, <2>2, Elsewhere DEF Notify, Quiet
  <2> QED
    BY <1>2, <2>1, <2>2 DEF SendMessage
<1>3. ASSUME NEW t \in Threads, NEW p \in Procs, NEW b \in BOOLEAN, StartSend(t, p, b)
      PROVE  Quiet
  BY <1>0, <1>3, Elsewhere DEF StartSend, Quiet
<1>4. CASE Shutdown
  BY <1>0, <1>4, Elsewhere DEF Shutdown, StoreReady, NotifyAll, Join, Quiet
<1>5. CASE \E c \in Cores : SpuriousWakeup(c)
  BY <1>5 DEF SpuriousWakeup, Quiet
<1>6. CASE \E m \in later : Expire(m)
  BY <1>6 DEF Expire, Quiet
<1>7. CASE UNCHANGED vars
  BY <1>7 DEF vars, Quiet
<1> QED
  BY <1>1, <1>2, <1>3, <1>4, <1>5, <1>6, <1>7 DEF Next

-----------------------------------------------------------------------------
LEMMA BoxesAre ==
  /\ \A i \in Queues : boxes[QueueBox(i)] = queues[i]
  /\ \A c \in Cores : boxes[BatchBox(c)] = messages[c]
  /\ \A c \in Cores : boxes[FutureBox(c)] = future_messages[c]
  /\ \A i \in Queues : boxes'[QueueBox(i)] = queues'[i]
  /\ \A c \in Cores : boxes'[BatchBox(c)] = messages'[c]
  /\ \A c \in Cores : boxes'[FutureBox(c)] = future_messages'[c]
<1>1. boxes' = Family(queues', messages', future_messages')
  BY DEF boxes, Family, Boxes
<1> QED
  BY <1>1, BoxValues DEF boxes

(* What a step does to a box, from what it does to the variables. *)
LEMMA BoxKept ==
  ASSUME NEW b \in Boxes,
         \A i \in Queues : b = QueueBox(i) => queues'[i] = queues[i],
         \A c \in Cores : b = BatchBox(c) => messages'[c] = messages[c],
         \A c \in Cores : b = FutureBox(c) => future_messages'[c] = future_messages[c]
  PROVE  boxes'[b] = boxes[b]
  BY BoxesAre, EveryBox

LEMMA PopPlaced ==
  ASSUME IInv, IInv', Placed, NEW c \in Cores, Pop(c)
  PROVE  Placed'
<1> DEFINE i == QueueOf(c)
           d == IF Due(c, Head(queues[i])) THEN BatchBox(c) ELSE FutureBox(c)
<1>1. i \in Queues /\ queues[i] # << >>
  BY QueueTypes DEF IInv, Pop, MayPop
<1>2. queues' = [queues EXCEPT ![i] = Tail(@)] /\ target' = target /\ executed' = executed
  BY DEF Pop
<1>3. /\ queues \in [Queues -> Seq(Ids)] /\ messages \in [Cores -> Seq(Ids)]
      /\ future_messages \in [Cores -> Seq(Ids)]
  BY DEF IInv, TypeOK
<1>4. \/ /\ d = BatchBox(c) /\ messages' = [messages EXCEPT ![c] = Append(@, Head(queues[i]))]
         /\ future_messages' = future_messages
      \/ /\ d = FutureBox(c) /\ messages' = messages
         /\ future_messages' = [future_messages EXCEPT ![c] = Append(@, Head(queues[i]))]
  BY DEF Pop
<1>5. QueueBox(i) \in Boxes /\ d \in Boxes /\ QueueBox(i) # d
  BY <1>1, BoxNumbers
<1> HIDE DEF d, i
<1>6. boxes'[QueueBox(i)] = Tail(boxes[QueueBox(i)]) /\ boxes[QueueBox(i)] # << >>
  BY <1>1, <1>2, <1>3, BoxesAre
<1>7. boxes'[d] = Append(boxes[d], Head(boxes[QueueBox(i)]))
  BY <1>1, <1>3, <1>4, BoxesAre
<1>8. ASSUME NEW b \in Boxes \ {QueueBox(i), d} PROVE boxes'[b] = boxes[b]
  <2>1. \A j \in Queues : b = QueueBox(j) => queues'[j] = queues[j]
    BY <1>2, <1>3
  <2>2. \A e \in Cores : b = BatchBox(e) => messages'[e] = messages[e]
    BY <1>3, <1>4
  <2>3. \A e \in Cores : b = FutureBox(e) => future_messages'[e] = future_messages[e]
    BY <1>3, <1>4
  <2> QED
    BY <2>1, <2>2, <2>3, BoxKept
<1>9. boxes \in [Boxes -> Seq(Nat)] /\ boxes' \in [Boxes -> Seq(Nat)]
  BY BoxesTyped, BoxesTypedNext DEF IInv
<1>10. Distinct(boxes) /\ Contents(boxes) = Ids \ executed
  BY DEF Placed
<1>11. Distinct(boxes') /\ Contents(boxes') = Contents(boxes)
  <2>1. HeadMoved(boxes, boxes', QueueBox(i), d)
    BY <1>5, <1>6, <1>7, <1>8, <1>9 DEF HeadMoved
  <2>2. SeqFamily(Boxes, boxes) /\ SeqFamily(Boxes, boxes')
    BY <1>9 DEF SeqFamily
  <2> QED
    BY <1>5, <1>10, <2>1, <2>2, HeadMoves
<1>12. Ids' = Ids
  BY <1>2 DEF Ids
<1> QED
  BY <1>2, <1>10, <1>11, <1>12 DEF Placed, Distinct, Contents

LEMMA CommitPlaced ==
  ASSUME IInv, IInv', Placed, NEW c \in Cores, Commit(c)
  PROVE  Placed'
<1>1. PICK i \in Queues : i = QueueOf(c)
  BY QueueTypes DEF IInv
<1>2. /\ queues' = [queues EXCEPT ![i] = @ \o future_messages[c]]
      /\ future_messages' = [future_messages EXCEPT ![c] = << >>]
      /\ messages' = messages /\ target' = target /\ executed' = executed
  BY <1>1 DEF Commit, PushBack
<1>3. /\ queues \in [Queues -> Seq(Ids)] /\ future_messages \in [Cores -> Seq(Ids)]
  BY DEF IInv, TypeOK
<1>4. QueueBox(i) \in Boxes /\ FutureBox(c) \in Boxes /\ FutureBox(c) # QueueBox(i)
  BY <1>1, BoxNumbers
<1>5. boxes'[QueueBox(i)] = boxes[QueueBox(i)] \o boxes[FutureBox(c)]
  <2>1. queues'[i] = queues[i] \o future_messages[c]
    BY <1>2, <1>3
  <2>2. boxes'[QueueBox(i)] = queues'[i] /\ boxes[QueueBox(i)] = queues[i]
    BY BoxesAre
  <2>3. boxes[FutureBox(c)] = future_messages[c]
    BY BoxesAre
  <2> QED
    BY <2>1, <2>2, <2>3
<1>6. boxes'[FutureBox(c)] = << >>
  <2>1. future_messages'[c] = << >>
    BY <1>2, <1>3
  <2> QED
    BY <2>1, BoxesAre
<1>7. ASSUME NEW b \in Boxes \ {QueueBox(i), FutureBox(c)} PROVE boxes'[b] = boxes[b]
  <2>1. \A j \in Queues : b = QueueBox(j) => queues'[j] = queues[j]
    BY <1>2, <1>3
  <2>2. \A e \in Cores : b = FutureBox(e) => future_messages'[e] = future_messages[e]
    BY <1>2, <1>3
  <2> QED
    BY <1>2, <2>1, <2>2, BoxKept
<1>8. boxes \in [Boxes -> Seq(Nat)] /\ boxes' \in [Boxes -> Seq(Nat)]
  BY BoxesTyped, BoxesTypedNext DEF IInv
<1>9. Distinct(boxes) /\ Contents(boxes) = Ids \ executed
  BY DEF Placed
<1>10. Distinct(boxes') /\ Contents(boxes') = Contents(boxes)
  <2>1. AllMoved(boxes, boxes', FutureBox(c), QueueBox(i))
    BY <1>4, <1>5, <1>6, <1>7, <1>8 DEF AllMoved
  <2>2. SeqFamily(Boxes, boxes) /\ SeqFamily(Boxes, boxes')
    BY <1>8 DEF SeqFamily
  <2> QED
    BY <1>4, <1>9, <2>1, <2>2, AllMove
<1>11. Ids' = Ids
  BY <1>2 DEF Ids
<1> QED
  BY <1>2, <1>9, <1>10, <1>11 DEF Placed, Distinct, Contents

LEMMA FinishPlaced ==
  ASSUME IInv, IInv', Placed, NEW c \in Cores, Finish(c)
  PROVE  Placed'
<1>1. messages \in [Cores -> Seq(Ids)] /\ messages[c] # << >>
  BY DEF IInv, TypeOK, BatchShape, Running, Finish
<1>2. /\ messages' = [messages EXCEPT ![c] = Tail(@)] /\ queues' = queues
      /\ future_messages' = future_messages
      /\ target' = target /\ executed' = executed \cup {Head(messages[c])}
  BY DEF Finish
<1>3. BatchBox(c) \in Boxes
  BY BoxNumbers
<1>4. boxes[BatchBox(c)] = messages[c] /\ boxes'[BatchBox(c)] = Tail(messages[c])
  BY <1>1, <1>2, BoxesAre
<1>5. ASSUME NEW b \in Boxes \ {BatchBox(c)} PROVE boxes'[b] = boxes[b]
  <2>1. \A e \in Cores : b = BatchBox(e) => messages'[e] = messages[e]
    BY <1>1, <1>2
  <2> QED
    BY <1>2, <2>1, BoxKept
<1>6. boxes \in [Boxes -> Seq(Nat)] /\ boxes' \in [Boxes -> Seq(Nat)]
  BY BoxesTyped, BoxesTypedNext DEF IInv
<1>7. Distinct(boxes) /\ Contents(boxes) = Ids \ executed
  BY DEF Placed
<1>8. Distinct(boxes') /\ Contents(boxes') = Contents(boxes) \ {Head(messages[c])}
  <2>1. HeadLeft(boxes, boxes', BatchBox(c))
    BY <1>1, <1>4, <1>5, <1>6 DEF HeadLeft
  <2>2. SeqFamily(Boxes, boxes) /\ SeqFamily(Boxes, boxes')
    BY <1>6 DEF SeqFamily
  <2> QED
    BY <1>3, <1>4, <1>7, <2>1, <2>2, HeadLeaves
<1>9. Ids' = Ids
  BY <1>2 DEF Ids
<1> QED
  BY <1>2, <1>7, <1>8, <1>9 DEF Placed, Distinct, Contents

LEMMA NewId ==
  ASSUME IInv, NEW t \in Threads, Push(t)
  PROVE  /\ Len(target) + 1 \in Nat /\ Len(target) + 1 \notin Ids
         /\ Ids' = Ids \cup {Len(target) + 1}
         /\ \A m \in Ids : m \in Nat /\ m < Len(target) + 1 /\ target'[m] = target[m]
         /\ target'[Len(target) + 1] = sending[t].process
<1>1. target \in Seq(Procs) /\ sending[t].process \in Procs
  BY DEF IInv, TypeOK
<1>2. Len(target) \in Nat
  BY <1>1, LenProperties
<1>3. /\ Len(target') = Len(target) + 1
      /\ \A m \in 1 .. Len(target) : target'[m] = target[m]
      /\ target'[Len(target) + 1] = sending[t].process
  BY <1>1, AppendProperties DEF Push
<1>4. 1 .. Len(target) + 1 = (1 .. Len(target)) \cup {Len(target) + 1}
  BY <1>2
<1> QED
  BY <1>2, <1>3, <1>4 DEF Ids

LEMMA PushPlaced ==
  ASSUME IInv, IInv', Placed, NEW t \in Threads, Push(t)
  PROVE  Placed'
<1> DEFINE m == Len(target) + 1
<1>1. PICK i \in Queues : i = Home(sending[t].process)
  BY QueueTypes DEF IInv, TypeOK
<1>2. /\ queues' = [queues EXCEPT ![i] = Append(@, m)] /\ messages' = messages
      /\ future_messages' = future_messages /\ executed' = executed
  BY <1>1 DEF Push
<1>3. queues \in [Queues -> Seq(Ids)] /\ executed \subseteq Ids
  BY DEF IInv, TypeOK
<1>4. m \in Nat /\ m \notin Ids /\ Ids' = Ids \cup {m}
  BY NewId
<1> HIDE DEF m
<1>5. QueueBox(i) \in Boxes
  BY BoxNumbers
<1>6. boxes'[QueueBox(i)] = Append(boxes[QueueBox(i)], m)
  BY <1>2, <1>3, BoxesAre
<1>7. ASSUME NEW b \in Boxes \ {QueueBox(i)} PROVE boxes'[b] = boxes[b]
  <2>1. \A j \in Queues : b = QueueBox(j) => queues'[j] = queues[j]
    BY <1>2, <1>3
  <2> QED
    BY <1>2, <2>1, BoxKept
<1>8. boxes \in [Boxes -> Seq(Nat)] /\ boxes' \in [Boxes -> Seq(Nat)]
  BY BoxesTyped, BoxesTypedNext DEF IInv
<1>9. Distinct(boxes) /\ Contents(boxes) = Ids \ executed
  BY DEF Placed
<1>10. Distinct(boxes') /\ Contents(boxes') = Contents(boxes) \cup {m}
  <2>1. Arrived(boxes, boxes', QueueBox(i), m)
    BY <1>6, <1>7, <1>8 DEF Arrived
  <2>2. SeqFamily(Boxes, boxes) /\ SeqFamily(Boxes, boxes')
    BY <1>8 DEF SeqFamily
  <2>3. m \notin Contents(boxes)
    BY <1>4, <1>9
  <2> QED
    BY <1>4, <1>5, <1>9, <2>1, <2>2, <2>3, Arrives
<1>11. Ids' \ executed' = (Ids \ executed) \cup {m}
  BY <1>2, <1>3, <1>4
<1> QED
  BY <1>9, <1>10, <1>11 DEF Placed, Distinct, Contents

LEMMA InitPlaced == Init => Placed
<1> SUFFICES ASSUME Init PROVE Placed
  OBVIOUS
<1>1. /\ \A i \in Queues : queues[i] = << >>
      /\ \A c \in Cores : messages[c] = << >> /\ future_messages[c] = << >>
      /\ Ids = {}
  BY DEF Init, Ids
<1>2. ASSUME NEW b \in DOMAIN boxes PROVE Len(boxes[b]) = 0
  <2>1. b \in Boxes
    BY DEF boxes, Family
  <2> QED
    BY <1>1, <2>1, BoxesAre, EveryBox
<1>3. Distinct(boxes)
  BY <1>2 DEF Distinct
<1>4. Contents(boxes) \subseteq {}
  BY <1>2, ContentsWithin
<1> QED
  BY <1>1, <1>3, <1>4 DEF Placed

LEMMA NextPlaced == IInv /\ IInv' /\ Placed /\ [Next]_vars => Placed'
<1> SUFFICES ASSUME IInv, IInv', Placed, [Next]_vars PROVE Placed'
  OBVIOUS
<1>1. CASE Quiet
  <2>1. boxes' = boxes /\ Ids' = Ids /\ executed' = executed
    BY <1>1 DEF Quiet, boxes, Family, Boxes, Ids
  <2> QED
    BY <2>1 DEF Placed, Distinct, Contents
<1> QED
  BY <1>1, Movers, PopPlaced, CommitPlaced, FinishPlaced, PushPlaced

LEMMA AlwaysPlaced == Spec => [](IInv /\ Placed)
<1> QED
  BY Invariance, InitPlaced, NextPlaced, PTL DEF Spec

-----------------------------------------------------------------------------
(* The occurrences of a message in a family of sequences. *)
LEMMA PlacesAt ==
  ASSUME NEW m, NEW f, NEW x
  PROVE  x \in Places(m, f) <=>
           \E d \in DOMAIN f : \E k \in DOMAIN f[d] : x = <<d, k>> /\ f[d][k] = m
  BY DEF Places

LEMMA NoPlace ==
  ASSUME NEW m, NEW f, \A d \in DOMAIN f : \A k \in DOMAIN f[d] : f[d][k] # m
  PROVE  Cardinality(Places(m, f)) = 0
<1>1. Places(m, f) = {}
  BY PlacesAt
<1> QED
  BY <1>1, FS_EmptySet

LEMMA OnePlace ==
  ASSUME NEW m, NEW f, NEW d \in DOMAIN f, NEW k \in DOMAIN f[d], f[d][k] = m,
         \A e \in DOMAIN f : \A l \in DOMAIN f[e] : f[e][l] = m => e = d /\ l = k
  PROVE  Cardinality(Places(m, f)) = 1
<1>1. Places(m, f) = {<<d, k>>}
  BY PlacesAt
<1> QED
  BY <1>1, FS_Singleton

LEMMA FamilyDomains ==
  ASSUME NEW B, NEW S, NEW f \in [B -> Seq(S)]
  PROVE  DOMAIN f = B /\ \A b \in B : DOMAIN f[b] = 1 .. Len(f[b])
<1>1. \A b \in B : f[b] \in Seq(S)
  OBVIOUS
<1> QED
  BY <1>1, LenProperties

(* Where the message m is when the family has it at place k of box b.      *)
At(m, b, k) == b \in DOMAIN boxes /\ k \in 1 .. Len(boxes[b]) /\ boxes[b][k] = m

LEMMA OnlyAt ==
  ASSUME Distinct(boxes), NEW m, NEW b, NEW k, At(m, b, k), NEW e, NEW l, At(m, e, l)
  PROVE  e = b /\ l = k
  BY DistinctAt DEF At

LEMMA AtQueue ==
  ASSUME TypeOK, NEW m, NEW i \in Queues
  PROVE  \A k : k \in DOMAIN queues[i] /\ queues[i][k] = m <=> At(m, QueueBox(i), k)
<1>1. DOMAIN queues[i] = 1 .. Len(queues[i])
  BY FamilyDomains DEF TypeOK
<1> QED
  BY <1>1, BoxesAre, BoxNumbers, BoxesTyped DEF At

LEMMA AtBatch ==
  ASSUME TypeOK, NEW m, NEW c \in Cores
  PROVE  \A k : k \in DOMAIN messages[c] /\ messages[c][k] = m <=> At(m, BatchBox(c), k)
<1>1. DOMAIN messages[c] = 1 .. Len(messages[c])
  BY FamilyDomains DEF TypeOK
<1> QED
  BY <1>1, BoxesAre, BoxNumbers, BoxesTyped DEF At

LEMMA AtFuture ==
  ASSUME TypeOK, NEW m, NEW c \in Cores
  PROVE  \A k : k \in DOMAIN future_messages[c] /\ future_messages[c][k] = m
                  <=> At(m, FutureBox(c), k)
<1>1. DOMAIN future_messages[c] = 1 .. Len(future_messages[c])
  BY FamilyDomains DEF TypeOK
<1> QED
  BY <1>1, BoxesAre, BoxNumbers, BoxesTyped DEF At

LEMMA PlacedOncePlaced ==
  ASSUME TypeOK, Placed
  PROVE  OncePlaced
<1> SUFFICES ASSUME NEW m \in Ids
             PROVE  Cardinality(Places(m, queues)) + Cardinality(Places(m, messages))
                      + Cardinality(Places(m, future_messages)) = IF m \in executed THEN 0 ELSE 1
  BY DEF OncePlaced
<1>1. Distinct(boxes) /\ Contents(boxes) = Ids \ executed
  BY DEF Placed
<1>2. DOMAIN queues = Queues /\ DOMAIN messages = Cores /\ DOMAIN future_messages = Cores
  BY DEF TypeOK
<1>3. DOMAIN boxes = Boxes
  BY BoxesTyped
<1>4. ASSUME \A i \in Queues : \A k : ~At(m, QueueBox(i), k)
      PROVE  Cardinality(Places(m, queues)) = 0
  BY <1>2, <1>4, AtQueue, NoPlace
<1>5. ASSUME \A c \in Cores : \A k : ~At(m, BatchBox(c), k)
      PROVE  Cardinality(Places(m, messages)) = 0
  BY <1>2, <1>5, AtBatch, NoPlace
<1>6. ASSUME \A c \in Cores : \A k : ~At(m, FutureBox(c), k)
      PROVE  Cardinality(Places(m, future_messages)) = 0
  BY <1>2, <1>6, AtFuture, NoPlace
<1>7. CASE m \in executed
  <2>1. \A b, k : ~At(m, b, k)
    BY <1>1, <1>7, AtContents DEF At
  <2> QED
    BY <1>4, <1>5, <1>6, <1>7, <2>1
<1>8. CASE m \notin executed
  <2>1. PICK b \in Boxes : \E k \in 1 .. Len(boxes[b]) : boxes[b][k] = m
    BY <1>1, <1>3, <1>8, ContentsAt
  <2>2. PICK k : At(m, b, k)
    BY <1>3, <2>1 DEF At
  <2>3. ASSUME NEW e, NEW l, At(m, e, l) PROVE e = b /\ l = k
    BY <1>1, <2>2, <2>3, OnlyAt
  <2>4. CASE \E i \in Queues : b = QueueBox(i)
    <3>1. PICK i \in Queues : b = QueueBox(i)
      BY <2>4
    <3>2. k \in DOMAIN queues[i] /\ queues[i][k] = m
      BY <2>2, <3>1, AtQueue
    <3>3. ASSUME NEW j \in Queues, NEW l \in DOMAIN queues[j], queues[j][l] = m
          PROVE  j = i /\ l = k
      <4>1. At(m, QueueBox(j), l)
        BY <3>3, AtQueue
      <4>2. QueueBox(j) = QueueBox(i) /\ l = k
        BY <2>3, <3>1, <4>1
      <4> QED
        BY <4>2 DEF QueueBox
    <3>4. Cardinality(Places(m, queues)) = 1
      BY <1>2, <3>2, <3>3, OnePlace
    <3>5. \A c \in Cores : \A l : ~At(m, BatchBox(c), l) /\ ~At(m, FutureBox(c), l)
      BY <2>3, <3>1, BoxNumbers
    <3> QED
      BY <1>5, <1>6, <1>8, <3>4, <3>5
  <2>5. CASE \E c \in Cores : b = BatchBox(c)
    <3>1. PICK c \in Cores : b = BatchBox(c)
      BY <2>5
    <3>2. k \in DOMAIN messages[c] /\ messages[c][k] = m
      BY <2>2, <3>1, AtBatch
    <3>3. ASSUME NEW d \in Cores, NEW l \in DOMAIN messages[d], messages[d][l] = m
          PROVE  d = c /\ l = k
      <4>1. At(m, BatchBox(d), l)
        BY <3>3, AtBatch
      <4>2. BatchBox(d) = BatchBox(c) /\ l = k
        BY <2>3, <3>1, <4>1
      <4> QED
        BY <4>2, BoxNumbers
    <3>4. Cardinality(Places(m, messages)) = 1
      BY <1>2, <3>2, <3>3, OnePlace
    <3>5. /\ \A i \in Queues : \A l : ~At(m, QueueBox(i), l)
          /\ \A d \in Cores : \A l : ~At(m, FutureBox(d), l)
      BY <2>3, <3>1, BoxNumbers
    <3> QED
      BY <1>4, <1>6, <1>8, <3>4, <3>5
  <2>6. CASE \E c \in Cores : b = FutureBox(c)
    <3>1. PICK c \in Cores : b = FutureBox(c)
      BY <2>6
    <3>2. k \in DOMAIN future_messages[c] /\ future_messages[c][k] = m
      BY <2>2, <3>1, AtFuture
    <3>3. ASSUME NEW d \in Cores, NEW l \in DOMAIN future_messages[d], future_messages[d][l] = m
          PROVE  d = c /\ l = k
      <4>1. At(m, FutureBox(d), l)
        BY <3>3, AtFuture
      <4>2. FutureBox(d) = FutureBox(c) /\ l = k
        BY <2>3, <3>1, <4>1
      <4> QED
        BY <4>2, BoxNumbers
    <3>4. Cardinality(Places(m, future_messages)) = 1
      BY <1>2, <3>2, <3>3, OnePlace
    <3>5. /\ \A i \in Queues : \A l : ~At(m, QueueBox(i), l)
          /\ \A d \in Cores : \A l : ~At(m, BatchBox(d), l)
      BY <2>3, <3>1, BoxNumbers
    <3> QED
      BY <1>4, <1>5, <1>8, <3>4, <3>5
  <2> QED
    BY <2>4, <2>5, <2>6, EveryBox
<1> QED
  BY <1>7, <1>8

(* However the cores interleave, a message that was pushed is in exactly   *)
(* one queue, batch or vector of future messages, once, until it has been  *)
(* executed, and nowhere afterwards: CoreMain neither loses nor doubles a  *)
(* message when it splits a queue into a batch and what is not due.        *)
THEOREM PlacedOnce == Spec => []OncePlaced
<1>1. IInv /\ Placed => OncePlaced
  BY PlacedOncePlaced DEF IInv
<1> QED
  BY AlwaysPlaced, <1>1, PTL

-----------------------------------------------------------------------------
(* Two messages of a process in the order they were pushed, or two that    *)
(* need not be in order.                                                   *)
InOrder ==
  {x \in Ids \X Ids :
     target[x[1]] = target[x[2]] /\ x[1] \notin timers /\ x[2] \notin timers => x[1] < x[2]}

Sorted(s, R) == \A k, l \in 1 .. Len(s) : k < l => <<s[k], s[l]>> \in R
Before(X, Y, R) == \A x \in X, y \in Y : <<x, y>> \in R

(* Queues and batches are in order, and a batch is ahead of every queue.   *)
QueuesSorted  == \A i \in Queues : Sorted(queues[i], InOrder)
BatchesSorted == \A c \in Cores : Sorted(messages[c], InOrder)
BatchesFirst  ==
  \A c \in Cores, i \in Queues : Before(Elements(messages[c]), Elements(queues[i]), InOrder)

(* Only timers are ever pushed back. *)
OnlyTimers ==
  /\ \A c \in Cores : current_time[c] \subseteq timers
  /\ \A c \in Cores : Elements(future_messages[c]) \subseteq timers

(* A message is in the queue of its process, or will go back to it. *)
AtHome ==
  /\ \A i \in Queues : \A m \in Elements(queues[i]) : Home(target[m]) = i
  /\ \A c \in Cores : \A m \in Elements(future_messages[c]) :
       pc[c] = "grab" /\ Home(target[m]) = QueueOf(c)

FifoInv ==
  QueuesSorted /\ BatchesSorted /\ BatchesFirst /\ OnlyTimers /\ AtHome /\ Fifo

-----------------------------------------------------------------------------
(* The elements of a sequence. *)
LEMMA InElements ==
  ASSUME NEW s, NEW x
  PROVE  x \in Elements(s) <=> \E k \in 1 .. Len(s) : s[k] = x
  BY DEF Elements

LEMMA ElementsOf ==
  ASSUME NEW S, NEW s \in Seq(S)
  PROVE  Elements(s) \subseteq S /\ (Elements(s) = {} <=> s = << >>)
<1>1. Elements(s) \subseteq S
  BY ElementOfSeq, InElements
<1>2. s = << >> => Elements(s) = {}
  BY InElements
<1>3. ASSUME s # << >> PROVE Elements(s) # {}
  <2>1. 1 \in 1 .. Len(s)
    BY <1>3, EmptySeq
  <2> QED
    BY <2>1, InElements
<1> QED
  BY <1>1, <1>2, <1>3

LEMMA ElementsOfTail ==
  ASSUME NEW S, NEW s \in Seq(S), s # << >>
  PROVE  Elements(s) = {Head(s)} \cup Elements(Tail(s))
<1>1. /\ Head(s) = s[1] /\ Len(s) \in Nat \ {0} /\ Len(Tail(s)) = Len(s) - 1
      /\ \A k \in 1 .. Len(s) - 1 : Tail(s)[k] = s[k + 1]
  BY HeadAt
<1>2. ASSUME NEW x \in Elements(s) PROVE x \in {Head(s)} \cup Elements(Tail(s))
  <2>1. PICK k \in 1 .. Len(s) : s[k] = x
    BY InElements
  <2>2. CASE k = 1
    BY <1>1, <2>1, <2>2
  <2>3. CASE k # 1
    <3>1. PICK l \in Int : k = l + 1
      BY <1>1, <2>1
    <3>2. l \in 1 .. Len(s) - 1
      BY <1>1, <2>1, <2>3, <3>1
    <3>3. l \in 1 .. Len(Tail(s)) /\ Tail(s)[l] = x
      BY <1>1, <2>1, <3>1, <3>2
    <3> QED
      BY <3>3, InElements
  <2> QED
    BY <2>2, <2>3
<1>3. ASSUME NEW x \in Elements(Tail(s)) PROVE x \in Elements(s)
  <2>1. PICK k \in 1 .. Len(Tail(s)) : Tail(s)[k] = x
    BY InElements
  <2>2. PICK l \in Int : l = k + 1
    BY <1>1
  <2>3. l \in 1 .. Len(s) /\ s[l] = x
    BY <1>1, <2>1, <2>2
  <2> QED
    BY <2>3, InElements
<1>4. Head(s) \in Elements(s)
  <2>1. 1 \in 1 .. Len(s)
    BY <1>1
  <2> QED
    BY <1>1, <2>1, InElements
<1> QED
  BY <1>2, <1>3, <1>4

LEMMA ElementsOfAppend ==
  ASSUME NEW S, NEW s \in Seq(S), NEW m \in S
  PROVE  Elements(Append(s, m)) = Elements(s) \cup {m}
<1>1. /\ Len(s) \in Nat /\ Len(Append(s, m)) = Len(s) + 1
      /\ \A k \in 1 .. Len(s) : Append(s, m)[k] = s[k]
      /\ Append(s, m)[Len(s) + 1] = m
  BY AppendProperties, LenProperties
<1>2. ASSUME NEW x \in Elements(Append(s, m)) PROVE x \in Elements(s) \cup {m}
  <2>1. PICK k \in 1 .. Len(Append(s, m)) : Append(s, m)[k] = x
    BY InElements
  <2>2. k = Len(s) + 1 \/ k \in 1 .. Len(s)
    BY <1>1, <2>1
  <2> QED
    BY <1>1, <2>1, <2>2, InElements
<1>3. ASSUME NEW x \in Elements(s) PROVE x \in Elements(Append(s, m))
  <2>1. PICK k \in 1 .. Len(s) : s[k] = x
    BY InElements
  <2>2. k \in 1 .. Len(Append(s, m)) /\ Append(s, m)[k] = x
    BY <1>1, <2>1
  <2> QED
    BY <2>2, InElements
<1>4. m \in Elements(Append(s, m))
  <2>1. PICK k : k = Len(s) + 1
    OBVIOUS
  <2>2. k \in 1 .. Len(Append(s, m)) /\ Append(s, m)[k] = m
    BY <1>1, <2>1
  <2> QED
    BY <2>2, InElements
<1> QED
  BY <1>2, <1>3, <1>4

LEMMA ElementsOfConcat ==
  ASSUME NEW S, NEW s \in Seq(S), NEW t \in Seq(S)
  PROVE  Elements(s \o t) = Elements(s) \cup Elements(t)
<1>1. /\ Len(s) \in Nat /\ Len(t) \in Nat /\ Len(s \o t) = Len(s) + Len(t)
      /\ \A k \in 1 .. Len(s) : (s \o t)[k] = s[k]
      /\ \A k \in 1 .. Len(t) : (s \o t)[Len(s) + k] = t[k]
  BY ConcatAt
<1>2. ASSUME NEW x \in Elements(s \o t) PROVE x \in Elements(s) \cup Elements(t)
  <2>1. PICK k \in 1 .. Len(s \o t) : (s \o t)[k] = x
    BY InElements
  <2>2. CASE k \in 1 .. Len(s)
    BY <1>1, <2>1, <2>2, InElements
  <2>3. CASE k \notin 1 .. Len(s)
    <3>1. PICK l \in Int : k = Len(s) + l
      <4>1. k - Len(s) \in Int /\ k = Len(s) + (k - Len(s))
        BY <1>1, <2>1
      <4> QED
        BY <4>1
    <3>2. l \in 1 .. Len(t)
      BY <1>1, <2>1, <2>3, <3>1
    <3> QED
      BY <1>1, <2>1, <3>1, <3>2, InElements
  <2> QED
    BY <2>2, <2>3
<1>3. ASSUME NEW x \in Elements(s) PROVE x \in Elements(s \o t)
  <2>1. PICK k \in 1 .. Len(s) : s[k] = x
    BY InElements
  <2>2. k \in 1 .. Len(s \o t) /\ (s \o t)[k] = x
    BY <1>1, <2>1
  <2> QED
    BY <2>2, InElements
<1>4. ASSUME NEW x \in Elements(t) PROVE x \in Elements(s \o t)
  <2>1. PICK l \in 1 .. Len(t) : t[l] = x
    BY InElements
  <2>2. PICK k : k = Len(s) + l
    OBVIOUS
  <2>3. k \in 1 .. Len(s \o t) /\ (s \o t)[k] = x
    BY <1>1, <2>1, <2>2
  <2> QED
    BY <2>3, InElements
<1> QED
  BY <1>2, <1>3, <1>4

-----------------------------------------------------------------------------
(* Sequences that are in order. *)
LEMMA SortedTail ==
  ASSUME NEW S, NEW s \in Seq(S), s # << >>, NEW R, Sorted(s, R)
  PROVE  Sorted(Tail(s), R) /\ \A y \in Elements(Tail(s)) : <<Head(s), y>> \in R
<1>1. /\ Head(s) = s[1] /\ Len(s) \in Nat \ {0} /\ Len(Tail(s)) = Len(s) - 1
      /\ \A k \in 1 .. Len(s) - 1 : Tail(s)[k] = s[k + 1]
  BY HeadAt
<1>2. ASSUME NEW k \in 1 .. Len(Tail(s)), NEW l \in 1 .. Len(Tail(s)), k < l
      PROVE  <<Tail(s)[k], Tail(s)[l]>> \in R
  <2>1. PICK i, j : i = k + 1 /\ j = l + 1
    OBVIOUS
  <2>2. i \in 1 .. Len(s) /\ j \in 1 .. Len(s) /\ i < j
    BY <1>1, <1>2, <2>1
  <2>3. <<s[i], s[j]>> \in R
    BY <2>2 DEF Sorted
  <2> QED
    BY <1>1, <2>1, <2>3
<1>3. ASSUME NEW y \in Elements(Tail(s)) PROVE <<Head(s), y>> \in R
  <2>1. PICK l \in 1 .. Len(Tail(s)) : Tail(s)[l] = y
    BY InElements
  <2>2. PICK j : j = l + 1
    OBVIOUS
  <2>3. 1 \in 1 .. Len(s) /\ j \in 1 .. Len(s) /\ 1 < j
    BY <1>1, <2>2
  <2>4. <<s[1], s[j]>> \in R
    BY <2>3 DEF Sorted
  <2> QED
    BY <1>1, <2>1, <2>2, <2>4
<1> QED
  BY <1>2, <1>3 DEF Sorted

LEMMA SortedAppend ==
  ASSUME NEW S, NEW s \in Seq(S), NEW m \in S, NEW R, Sorted(s, R),
         \A x \in Elements(s) : <<x, m>> \in R
  PROVE  Sorted(Append(s, m), R)
<1>1. /\ Len(s) \in Nat /\ Len(Append(s, m)) = Len(s) + 1
      /\ \A k \in 1 .. Len(s) : Append(s, m)[k] = s[k]
      /\ Append(s, m)[Len(s) + 1] = m
  BY AppendProperties, LenProperties
<1>2. ASSUME NEW k \in 1 .. Len(Append(s, m)), NEW l \in 1 .. Len(Append(s, m)), k < l
      PROVE  <<Append(s, m)[k], Append(s, m)[l]>> \in R
  <2>1. k \in 1 .. Len(s) /\ Append(s, m)[k] = s[k]
    BY <1>1, <1>2
  <2>2. CASE l \in 1 .. Len(s)
    <3>1. <<s[k], s[l]>> \in R
      BY <1>2, <2>1, <2>2 DEF Sorted
    <3> QED
      BY <1>1, <2>1, <2>2, <3>1
  <2>3. CASE l = Len(s) + 1
    <3>1. s[k] \in Elements(s)
      BY <2>1, InElements
    <3> QED
      BY <1>1, <2>1, <2>3, <3>1
  <2> QED
    BY <1>1, <2>2, <2>3
<1> QED
  BY <1>2 DEF Sorted

LEMMA SortedConcat ==
  ASSUME NEW S, NEW s \in Seq(S), NEW t \in Seq(S), NEW R, Sorted(s, R), Sorted(t, R),
         Before(Elements(s), Elements(t), R)
  PROVE  Sorted(s \o t, R)
<1>1. /\ Len(s) \in Nat /\ Len(t) \in Nat /\ Len(s \o t) = Len(s) + Len(t)
      /\ \A k \in 1 .. Len(s) : (s \o t)[k] = s[k]
      /\ \A k \in 1 .. Len(t) : (s \o t)[Len(s) + k] = t[k]
  BY ConcatAt
<1>2. ASSUME NEW k \in 1 .. Len(s \o t), k \notin 1 .. Len(s)
      PROVE  \E i \in 1 .. Len(t) : k = Len(s) + i /\ (s \o t)[k] = t[i]
  <2>1. PICK i \in Int : k = Len(s) + i
    <3>1. k - Len(s) \in Int /\ k = Len(s) + (k - Len(s))
      BY <1>1
    <3> QED
      BY <3>1
  <2>2. i \in 1 .. Len(t)
    BY <1>1, <1>2, <2>1
  <2> QED
    BY <1>1, <2>1, <2>2
<1>3. ASSUME NEW k \in 1 .. Len(s \o t), NEW l \in 1 .. Len(s \o t), k < l
      PROVE  <<(s \o t)[k], (s \o t)[l]>> \in R
  <2>1. CASE k \in 1 .. Len(s) /\ l \in 1 .. Len(s)
    <3>1. <<s[k], s[l]>> \in R
      BY <1>3, <2>1 DEF Sorted
    <3> QED
      BY <1>1, <2>1, <3>1
  <2>2. CASE k \in 1 .. Len(s) /\ l \notin 1 .. Len(s)
    <3>1. PICK j \in 1 .. Len(t) : (s \o t)[l] = t[j]
      BY <1>2, <2>2
    <3>2. s[k] \in Elements(s) /\ t[j] \in Elements(t)
      BY <2>2, <3>1, InElements
    <3> QED
      BY <1>1, <2>2, <3>1, <3>2 DEF Before
  <2>3. CASE k \notin 1 .. Len(s)
    <3>1. PICK i \in 1 .. Len(t) : k = Len(s) + i /\ (s \o t)[k] = t[i]
      BY <1>2, <2>3
    <3>2. l \notin 1 .. Len(s)
      BY <1>1, <1>3, <2>3
    <3>3. PICK j \in 1 .. Len(t) : l = Len(s) + j /\ (s \o t)[l] = t[j]
      BY <1>2, <3>2
    <3>4. i < j
      BY <1>1, <1>3, <3>1, <3>3
    <3>5. <<t[i], t[j]>> \in R
      BY <3>4 DEF Sorted
    <3> QED
      BY <3>1, <3>3, <3>5
  <2> QED
    BY <2>1, <2>2, <2>3
<1> QED
  BY <1>3 DEF Sorted

LEMMA SortedWithin ==
  ASSUME NEW s, NEW R, NEW T, Sorted(s, R), R \subseteq T
  PROVE  Sorted(s, T)
  BY DEF Sorted

-----------------------------------------------------------------------------
(* The order is what the history says of pairs of messages. *)
LEMMA InOrderIs ==
  ASSUME NEW k \in Ids, NEW m \in Ids,
         target[k] # target[m] \/ k \in timers \/ m \in timers \/ k < m
  PROVE  <<k, m>> \in InOrder
  BY DEF InOrder

LEMMA InOrderSays ==
  ASSUME NEW k, NEW m, <<k, m>> \in InOrder
  PROVE  /\ k \in Ids /\ m \in Ids
         /\ target[k] = target[m] /\ k \notin timers /\ m \notin timers => k < m
  BY DEF InOrder

LEMMA InOrderKept ==
  ASSUME target' = target, timers' = timers
  PROVE  InOrder' = InOrder /\ Ids' = Ids
  BY DEF InOrder, Ids

LEMMA Belong ==
  ASSUME TypeOK
  PROVE  /\ \A i \in Queues : queues[i] \in Seq(Ids) /\ Elements(queues[i]) \subseteq Ids
         /\ \A c \in Cores : messages[c] \in Seq(Ids) /\ Elements(messages[c]) \subseteq Ids
         /\ \A c \in Cores : /\ future_messages[c] \in Seq(Ids)
                             /\ Elements(future_messages[c]) \subseteq Ids
<1>1. /\ \A i \in Queues : queues[i] \in Seq(Ids)
      /\ \A c \in Cores : messages[c] \in Seq(Ids) /\ future_messages[c] \in Seq(Ids)
  BY DEF TypeOK
<1> QED
  BY <1>1, ElementsOf

LEMMA QuietFifo == ASSUME IInv, FifoInv, Quiet PROVE FifoInv'
<1>1. InOrder' = InOrder /\ Ids' = Ids
  BY InOrderKept DEF Quiet
<1>2. QueuesSorted' /\ BatchesSorted'
  BY <1>1 DEF FifoInv, QueuesSorted, BatchesSorted, Sorted, Quiet
<1>2a. BatchesFirst'
  <2>1. queues' = queues /\ messages' = messages
    BY DEF Quiet
  <2>2. \A d \in Cores, j \in Queues :
          Before(Elements(messages'[d]), Elements(queues'[j]), InOrder)
    BY <2>1 DEF FifoInv, BatchesFirst
  <2> QED
    BY <1>1, <2>2 DEF BatchesFirst, Before, Elements
<1>3. OnlyTimers'
  <2>1. \A c \in Cores : current_time'[c] \subseteq timers'
    BY DEF IInv, TypeOK, FifoInv, OnlyTimers, Quiet
  <2> QED
    BY <2>1 DEF FifoInv, OnlyTimers, Elements, Quiet
<1>4. AtHome'
  <2>1. \A c \in Cores : \A m \in Elements(future_messages[c]) :
          pc'[c] = "grab" /\ Home(target[m]) = (scan'[c] + c) % CoreCount
    BY DEF FifoInv, AtHome, Quiet, QueueOf
  <2> QED
    BY <2>1 DEF FifoInv, AtHome, Elements, Quiet, QueueOf, Home
<1>5. Fifo'
  BY <1>1 DEF FifoInv, Fifo, Quiet
<1> QED
  BY <1>2, <1>2a, <1>3, <1>4, <1>5 DEF FifoInv

LEMMA PopFifo == ASSUME IInv, FifoInv, NEW c \in Cores, Pop(c) PROVE FifoInv'
<1>1. PICK i \in Queues : i = QueueOf(c)
  BY QueueTypes DEF IInv
<1>2. PICK h : h = Head(queues[i])
  OBVIOUS
<1>3. /\ queues' = [queues EXCEPT ![i] = Tail(@)] /\ queues[i] # << >>
      /\ \/ /\ messages' = [messages EXCEPT ![c] = Append(@, h)]
            /\ future_messages' = future_messages
         \/ /\ h \in current_time[c]
            /\ messages' = messages
            /\ future_messages' = [future_messages EXCEPT ![c] = Append(@, h)]
      /\ UNCHANGED <<target, timers, executed, current_time, pc, scan>>
      /\ pc[c] = "grab"
  BY <1>1, <1>2 DEF Pop, MayPop, Due
<1>4. InOrder' = InOrder /\ Ids' = Ids
  BY <1>3, InOrderKept
<1>5. TypeOK
  BY DEF IInv
<1>6. /\ Sorted(Tail(queues[i]), InOrder)
      /\ \A y \in Elements(Tail(queues[i])) : <<h, y>> \in InOrder
      /\ Elements(queues[i]) = {h} \cup Elements(Tail(queues[i])) /\ h \in Ids
  <2>1. queues[i] \in Seq(Ids) /\ Sorted(queues[i], InOrder)
    BY <1>5, Belong DEF FifoInv, QueuesSorted
  <2> QED
    BY <1>2, <1>3, <2>1, SortedTail, ElementsOfTail, HeadAt
<1>7. /\ queues'[i] = Tail(queues[i])
      /\ \A j \in Queues \ {i} : queues'[j] = queues[j]
  BY <1>3, <1>5 DEF TypeOK
<1>8. \A j \in Queues : Elements(queues'[j]) \subseteq Elements(queues[j])
  BY <1>6, <1>7
<1>9. \A d \in Cores : \/ messages'[d] = messages[d]
                       \/ d = c /\ messages'[d] = Append(messages[d], h)
  BY <1>3, <1>5 DEF TypeOK
<1>10. \A d \in Cores : \/ future_messages'[d] = future_messages[d]
                        \/ d = c /\ h \in current_time[c]
                                 /\ future_messages'[d] = Append(future_messages[d], h)
  BY <1>3, <1>5 DEF TypeOK
<1>11. \A d \in Cores : Elements(messages'[d]) \subseteq Elements(messages[d]) \cup {h}
  <2> SUFFICES ASSUME NEW d \in Cores
               PROVE  Elements(messages'[d]) \subseteq Elements(messages[d]) \cup {h}
    OBVIOUS
  <2>1. messages[d] \in Seq(Ids) /\ h \in Ids
    BY <1>5, <1>6, Belong
  <2>2. Elements(Append(messages[d], h)) = Elements(messages[d]) \cup {h}
    BY <2>1, ElementsOfAppend
  <2> QED
    BY <1>9, <2>2
<1>12. \A d \in Cores : \A m \in Elements(future_messages'[d]) :
          m \in Elements(future_messages[d]) \/ (d = c /\ m = h /\ h \in current_time[c])
  <2> SUFFICES ASSUME NEW d \in Cores, NEW m \in Elements(future_messages'[d])
               PROVE  m \in Elements(future_messages[d]) \/ (d = c /\ m = h /\ h \in current_time[c])
    OBVIOUS
  <2>1. future_messages[d] \in Seq(Ids) /\ h \in Ids
    BY <1>5, <1>6, Belong
  <2>2. Elements(Append(future_messages[d], h)) = Elements(future_messages[d]) \cup {h}
    BY <2>1, ElementsOfAppend
  <2> QED
    BY <1>10, <2>2
<1>13. QueuesSorted'
  <2>1. \A j \in Queues : Sorted(queues'[j], InOrder)
    BY <1>6, <1>7 DEF FifoInv, QueuesSorted
  <2> QED
    BY <1>4, <2>1 DEF QueuesSorted, Sorted
<1>14. BatchesSorted'
  <2>1. ASSUME NEW d \in Cores PROVE Sorted(messages'[d], InOrder)
    <3>1. messages[d] \in Seq(Ids) /\ Sorted(messages[d], InOrder)
      BY <1>5, Belong DEF FifoInv, BatchesSorted
    <3>2. \A x \in Elements(messages[d]) : <<x, h>> \in InOrder
      BY <1>6 DEF FifoInv, BatchesFirst, Before
    <3> QED
      BY <1>6, <1>9, <3>1, <3>2, SortedAppend
  <2> QED
    BY <1>4, <2>1 DEF BatchesSorted, Sorted
<1>15. BatchesFirst'
  <2>1. ASSUME NEW d \in Cores, NEW j \in Queues,
               NEW x \in Elements(messages'[d]), NEW y \in Elements(queues'[j])
        PROVE  <<x, y>> \in InOrder
    <3>1. CASE x \in Elements(messages[d])
      BY <1>8, <3>1 DEF FifoInv, BatchesFirst, Before
    <3>2. CASE x = h /\ j = i
      BY <1>6, <1>7, <3>2
    <3>3. CASE x = h /\ j # i
      <4>1. Home(target[h]) = i /\ Home(target[y]) = j /\ y \in Ids
        BY <1>5, <1>6, <1>8, Belong DEF FifoInv, AtHome
      <4>2. target[h] # target[y]
        BY <3>3, <4>1
      <4> QED
        BY <1>6, <3>3, <4>1, <4>2, InOrderIs
    <3> QED
      BY <1>11, <3>1, <3>2, <3>3
  <2> QED
    BY <1>4, <2>1 DEF BatchesFirst, Before, Elements
<1>16. OnlyTimers'
  <2>1. \A d \in Cores : Elements(future_messages'[d]) \subseteq timers
    BY <1>12 DEF FifoInv, OnlyTimers
  <2> QED
    BY <1>3, <2>1 DEF FifoInv, OnlyTimers, Elements
<1>17. AtHome'
  <2>1. \A j \in Queues : \A m \in Elements(queues'[j]) : Home(target[m]) = j
    BY <1>8 DEF FifoInv, AtHome
  <2>2. Home(target[h]) = QueueOf(c)
    BY <1>1, <1>6 DEF FifoInv, AtHome
  <2>3. \A d \in Cores : \A m \in Elements(future_messages'[d]) :
          pc[d] = "grab" /\ Home(target[m]) = QueueOf(d)
    BY <1>3, <1>12, <2>2 DEF FifoInv, AtHome
  <2> QED
    BY <1>3, <2>1, <2>3 DEF AtHome, Elements, QueueOf, Home
<1>18. Fifo'
  BY <1>3, <1>4 DEF FifoInv, Fifo
<1> QED
  BY <1>13, <1>14, <1>15, <1>16, <1>17, <1>18 DEF FifoInv

LEMMA CommitFifo == ASSUME IInv, FifoInv, NEW c \in Cores, Commit(c) PROVE FifoInv'
<1>1. PICK i \in Queues : i = QueueOf(c)
  BY QueueTypes DEF IInv
<1>2. PICK f : f = future_messages[c]
  OBVIOUS
<1>3. /\ queues' = [queues EXCEPT ![i] = @ \o f]
      /\ future_messages' = [future_messages EXCEPT ![c] = << >>]
      /\ current_time' = [current_time EXCEPT ![c] = {}]
      /\ UNCHANGED <<messages, target, timers, executed, scan>>
      /\ pc[c] = "grab" /\ \E l : Go(c, l)
  BY <1>1, <1>2 DEF Commit, PushBack
<1>4. InOrder' = InOrder /\ Ids' = Ids
  BY <1>3, InOrderKept
<1>5. TypeOK
  BY DEF IInv
<1>6. /\ f \in Seq(Ids) /\ Elements(f) \subseteq Ids /\ Elements(f) \subseteq timers
      /\ \A m \in Elements(f) : Home(target[m]) = i
  BY <1>1, <1>2, <1>5, Belong DEF FifoInv, OnlyTimers, AtHome
<1>7. /\ queues'[i] = queues[i] \o f
      /\ \A j \in Queues \ {i} : queues'[j] = queues[j]
      /\ future_messages'[c] = << >> /\ current_time'[c] = {}
      /\ \A d \in Cores \ {c} : /\ future_messages'[d] = future_messages[d]
                                /\ current_time'[d] = current_time[d]
  BY <1>3, <1>5 DEF TypeOK
<1>8. \A j \in Queues : \A m \in Elements(queues'[j]) :
        m \in Elements(queues[j]) \/ (j = i /\ m \in Elements(f))
  <2>1. Elements(queues[i] \o f) = Elements(queues[i]) \cup Elements(f)
    BY <1>5, <1>6, Belong, ElementsOfConcat
  <2> QED
    BY <1>7, <2>1
<1>9. \A d \in Cores : \A m \in Elements(future_messages'[d]) :
        d # c /\ m \in Elements(future_messages[d])
  BY <1>7, InElements, EmptySeq
<1>10. QueuesSorted'
  <2>1. Sorted(queues[i] \o f, InOrder)
    <3>1. queues[i] \in Seq(Ids) /\ Sorted(queues[i], InOrder) /\ Elements(queues[i]) \subseteq Ids
      BY <1>5, Belong DEF FifoInv, QueuesSorted
    <3>2. Before(Elements(queues[i]), Elements(f), InOrder)
      BY <1>6, <3>1, InOrderIs DEF Before
    <3>3. Sorted(f, InOrder)
      <4>1. \A k \in 1 .. Len(f) : f[k] \in Elements(f)
        BY InElements
      <4>2. \A k, l \in 1 .. Len(f) : <<f[k], f[l]>> \in InOrder
        BY <1>6, <4>1, InOrderIs
      <4> QED
        BY <4>2 DEF Sorted
    <3> QED
      BY <1>6, <3>1, <3>2, <3>3, SortedConcat
  <2>2. \A j \in Queues : Sorted(queues'[j], InOrder)
    BY <1>7, <2>1 DEF FifoInv, QueuesSorted
  <2> QED
    BY <1>4, <2>2 DEF QueuesSorted, Sorted
<1>11. BatchesSorted'
  BY <1>3, <1>4 DEF FifoInv, BatchesSorted, Sorted
<1>12. BatchesFirst'
  <2>1. ASSUME NEW d \in Cores, NEW j \in Queues,
               NEW x \in Elements(messages[d]), NEW y \in Elements(queues'[j])
        PROVE  <<x, y>> \in InOrder
    <3>1. CASE y \in Elements(queues[j])
      BY <3>1 DEF FifoInv, BatchesFirst, Before
    <3>2. CASE y \in Elements(f)
      <4>1. x \in Ids /\ y \in Ids /\ y \in timers
        BY <1>5, <1>6, <3>2, Belong
      <4> QED
        BY <4>1, InOrderIs
    <3> QED
      BY <1>8, <3>1, <3>2
  <2>2. \A d \in Cores, j \in Queues :
          Before(Elements(messages'[d]), Elements(queues'[j]), InOrder)
    BY <1>3, <2>1 DEF Before
  <2> QED
    BY <1>4, <2>2 DEF BatchesFirst, Before, Elements
<1>13. OnlyTimers'
  <2>1. \A d \in Cores : current_time'[d] \subseteq timers
    BY <1>7 DEF FifoInv, OnlyTimers
  <2>2. \A d \in Cores : Elements(future_messages'[d]) \subseteq timers
    BY <1>9 DEF FifoInv, OnlyTimers
  <2> QED
    BY <1>3, <2>1, <2>2 DEF OnlyTimers, Elements
<1>14. AtHome'
  <2>1. \A j \in Queues : \A m \in Elements(queues'[j]) : Home(target[m]) = j
    BY <1>6, <1>8 DEF FifoInv, AtHome
  <2>2. \A d \in Cores : d # c => pc'[d] = pc[d]
    BY <1>3, <1>5 DEF Go, TypeOK
  <2>3. \A d \in Cores : \A m \in Elements(future_messages'[d]) :
          pc'[d] = "grab" /\ Home(target[m]) = QueueOf(d)
    BY <1>9, <2>2 DEF FifoInv, AtHome
  <2> QED
    BY <1>3, <2>1, <2>3 DEF AtHome, Elements, QueueOf, Home
<1>15. Fifo'
  BY <1>3, <1>4 DEF FifoInv, Fifo
<1> QED
  BY <1>10, <1>11, <1>12, <1>13, <1>14, <1>15 DEF FifoInv

(* A message that is not executed is in a queue, a batch or a vector of    *)
(* future messages.                                                        *)
LEMMA Somewhere ==
  ASSUME TypeOK, Placed, NEW m \in Ids, m \notin executed
  PROVE  \/ \E i \in Queues : m \in Elements(queues[i])
         \/ \E c \in Cores : m \in Elements(messages[c])
         \/ \E c \in Cores : m \in Elements(future_messages[c])
<1>1. m \in Contents(boxes) /\ DOMAIN boxes = Boxes
  BY BoxesTyped DEF Placed
<1>2. PICK b \in Boxes : m \in Elements(boxes[b])
  BY <1>1 DEF Contents
<1> QED
  BY <1>2, BoxesAre, EveryBox

(* The first message of a batch has every earlier message of its process   *)
(* behind it, timers apart.                                                *)
LEMMA Foremost ==
  ASSUME IInv, Placed, FifoInv, NEW c \in Cores, messages[c] # << >>,
         Head(messages[c]) \notin timers, NEW k \in Ids, k < Head(messages[c]),
         target[k] = target[Head(messages[c])], k \notin timers
  PROVE  k \in executed
<1> SUFFICES ASSUME k \notin executed PROVE FALSE
  OBVIOUS
<1>1. TypeOK
  BY DEF IInv
<1>2. PICK h : h = Head(messages[c])
  OBVIOUS
<1>3. /\ \A y \in Elements(Tail(messages[c])) : <<h, y>> \in InOrder
      /\ Elements(messages[c]) = {h} \cup Elements(Tail(messages[c])) /\ h \in Ids
  <2>1. messages[c] \in Seq(Ids) /\ Sorted(messages[c], InOrder)
    BY <1>1, Belong DEF FifoInv, BatchesSorted
  <2> QED
    BY <1>2, <2>1, SortedTail, ElementsOfTail, HeadAt
<1>4. k \in Nat /\ h \in Nat /\ ~(h < k) /\ k # h
  BY <1>2, <1>3 DEF Ids
<1>5. <<h, k>> \notin InOrder
  BY <1>2, <1>4, InOrderSays
<1>6. CASE \E i \in Queues : k \in Elements(queues[i])
  BY <1>3, <1>5, <1>6 DEF FifoInv, BatchesFirst, Before
<1>7. CASE \E d \in Cores : k \in Elements(messages[d])
  <2>1. PICK d \in Cores : k \in Elements(messages[d])
    BY <1>7
  <2>2. \A e \in Cores : \A x \in Elements(messages[e]) : process_locks[target[x]] = e
    BY InElements DEF IInv, BatchLocked
  <2>3. d = c
    BY <1>2, <1>3, <2>1, <2>2
  <2> QED
    BY <1>3, <1>4, <1>5, <2>1, <2>3
<1>8. CASE \E d \in Cores : k \in Elements(future_messages[d])
  BY <1>8 DEF FifoInv, OnlyTimers
<1> QED
  BY <1>1, <1>6, <1>7, <1>8, Somewhere

LEMMA FinishFifo == ASSUME IInv, Placed, FifoInv, NEW c \in Cores, Finish(c) PROVE FifoInv'
<1>1. TypeOK
  BY DEF IInv
<1>2. messages[c] \in Seq(Ids) /\ messages[c] # << >>
  BY <1>1, Belong DEF IInv, BatchShape, Running, Finish
<1>3. PICK h : h = Head(messages[c])
  OBVIOUS
<1>4. /\ messages' = [messages EXCEPT ![c] = Tail(@)]
      /\ executed' = executed \cup {h}
      /\ UNCHANGED <<queues, future_messages, current_time, target, timers, scan>>
      /\ pc[c] = "run" /\ Go(c, "batch")
  BY <1>3 DEF Finish
<1>5. InOrder' = InOrder /\ Ids' = Ids
  BY <1>4, InOrderKept
<1>6. /\ Sorted(Tail(messages[c]), InOrder)
      /\ \A y \in Elements(Tail(messages[c])) : <<h, y>> \in InOrder
      /\ Elements(messages[c]) = {h} \cup Elements(Tail(messages[c])) /\ h \in Ids
  <2>1. Sorted(messages[c], InOrder)
    BY DEF FifoInv, BatchesSorted
  <2> QED
    BY <1>2, <1>3, <2>1, SortedTail, ElementsOfTail, HeadAt
<1>7. /\ messages'[c] = Tail(messages[c])
      /\ \A d \in Cores \ {c} : messages'[d] = messages[d]
  BY <1>1, <1>4 DEF TypeOK
<1>8. QueuesSorted'
  BY <1>4, <1>5 DEF FifoInv, QueuesSorted, Sorted
<1>9. BatchesSorted'
  <2>1. \A d \in Cores : Sorted(messages'[d], InOrder)
    BY <1>6, <1>7 DEF FifoInv, BatchesSorted
  <2> QED
    BY <1>5, <2>1 DEF BatchesSorted, Sorted
<1>10. BatchesFirst'
  <2>1. \A d \in Cores : Elements(messages'[d]) \subseteq Elements(messages[d])
    BY <1>6, <1>7
  <2>2. \A d \in Cores, j \in Queues :
          Before(Elements(messages'[d]), Elements(queues'[j]), InOrder)
    BY <1>4, <2>1 DEF FifoInv, BatchesFirst, Before
  <2> QED
    BY <1>5, <2>2 DEF BatchesFirst, Before, Elements
<1>11. OnlyTimers'
  BY <1>4 DEF FifoInv, OnlyTimers, Elements
<1>12. AtHome'
  <2>1. \A d \in Cores : \A m \in Elements(future_messages[d]) :
          pc'[d] = "grab" /\ Home(target[m]) = QueueOf(d)
    BY <1>1, <1>4 DEF FifoInv, AtHome, Go, TypeOK
  <2>2. \A i \in Queues : \A m \in Elements(queues[i]) : Home(target[m]) = i
    BY DEF FifoInv, AtHome
  <2> QED
    BY <1>4, <2>1, <2>2 DEF AtHome, Elements, QueueOf, Home
<1>13. Fifo'
  <2> SUFFICES ASSUME NEW m \in executed', NEW k \in Ids, k < m, target[k] = target[m],
                      m \notin timers, k \notin timers, k \notin executed'
               PROVE  FALSE
    BY <1>4, <1>5 DEF Fifo
  <2>1. m = h /\ k \notin executed
    BY <1>4 DEF FifoInv, Fifo
  <2> QED
    BY <1>2, <1>3, <2>1, Foremost
<1> QED
  BY <1>8, <1>9, <1>10, <1>11, <1>12, <1>13 DEF FifoInv

LEMMA PushFifo == ASSUME IInv, FifoInv, NEW t \in Threads, Push(t) PROVE FifoInv'
<1>1. TypeOK
  BY DEF IInv
<1>2. PICK n : n = Len(target) + 1
  OBVIOUS
<1>3. PICK i \in Queues : i = Home(sending[t].process)
  BY <1>1, QueueTypes DEF TypeOK
<1>4. /\ queues' = [queues EXCEPT ![i] = Append(@, n)]
      /\ UNCHANGED <<messages, future_messages, current_time, executed, scan>>
      /\ timers' \in {timers, timers \cup {n}}
      /\ pc[t] = "push" /\ Go(t, "count")
  BY <1>2, <1>3 DEF Push
<1>5. /\ n \in Nat /\ n \notin Ids /\ Ids' = Ids \cup {n}
      /\ \A m \in Ids : m \in Nat /\ m < n /\ target'[m] = target[m]
      /\ Home(target'[n]) = i
  BY <1>2, <1>3, NewId
<1>6. timers \subseteq Ids /\ executed \subseteq Ids
  BY <1>1 DEF TypeOK
<1>7. \A m \in Ids : m \in timers' <=> m \in timers
  BY <1>4, <1>5
<1>8. InOrder \subseteq InOrder'
  BY <1>5, <1>7 DEF InOrder
<1>9. \A m \in Ids : <<m, n>> \in InOrder'
  BY <1>5 DEF InOrder
<1>10. /\ queues'[i] = Append(queues[i], n)
       /\ \A j \in Queues \ {i} : queues'[j] = queues[j]
  BY <1>1, <1>4 DEF TypeOK
<1>11. /\ Elements(queues'[i]) = Elements(queues[i]) \cup {n}
       /\ Sorted(queues'[i], InOrder')
  <2>1. queues[i] \in Seq(Ids) /\ Elements(queues[i]) \subseteq Ids /\ Sorted(queues[i], InOrder)
    BY <1>1, Belong DEF FifoInv, QueuesSorted
  <2>2. queues[i] \in Seq(Ids \cup {n}) /\ n \in Ids \cup {n}
    BY <2>1, SeqMonotonic
  <2>3. Sorted(queues[i], InOrder')
    BY <1>8, <2>1, SortedWithin
  <2>4. \A x \in Elements(queues[i]) : <<x, n>> \in InOrder'
    BY <1>9, <2>1
  <2> QED
    BY <1>10, <2>2, <2>3, <2>4, SortedAppend, ElementsOfAppend
<1>12. \A j \in Queues : \A m \in Elements(queues'[j]) :
         m \in Elements(queues[j]) \/ (j = i /\ m = n)
  BY <1>10, <1>11
<1>13. QueuesSorted'
  <2>1. \A j \in Queues : Sorted(queues'[j], InOrder')
    BY <1>8, <1>10, <1>11, SortedWithin DEF FifoInv, QueuesSorted
  <2> QED
    BY <2>1 DEF QueuesSorted, Sorted
<1>14. BatchesSorted'
  <2>1. \A d \in Cores : Sorted(messages'[d], InOrder')
    BY <1>4, <1>8, SortedWithin DEF FifoInv, BatchesSorted
  <2> QED
    BY <2>1 DEF BatchesSorted, Sorted
<1>15. BatchesFirst'
  <2>1. ASSUME NEW d \in Cores, NEW j \in Queues,
               NEW x \in Elements(messages[d]), NEW y \in Elements(queues'[j])
        PROVE  <<x, y>> \in InOrder'
    <3>1. CASE y \in Elements(queues[j])
      BY <1>8, <3>1 DEF FifoInv, BatchesFirst, Before
    <3>2. CASE y = n
      BY <1>1, <1>9, <3>2, Belong
    <3> QED
      BY <1>12, <3>1, <3>2
  <2>2. \A d \in Cores, j \in Queues :
          Before(Elements(messages'[d]), Elements(queues'[j]), InOrder')
    BY <1>4, <2>1 DEF Before
  <2> QED
    BY <2>2 DEF BatchesFirst, Before, Elements
<1>16. OnlyTimers'
  <2>1. timers \subseteq timers'
    BY <1>4
  <2>2. \A d \in Cores : current_time[d] \subseteq timers' /\ Elements(future_messages[d]) \subseteq timers'
    BY <2>1 DEF FifoInv, OnlyTimers
  <2> QED
    BY <1>4, <2>2 DEF OnlyTimers, Elements
<1>17. AtHome'
  <2>1. \A j \in Queues : \A m \in Elements(queues'[j]) : Home(target'[m]) = j
    <3> SUFFICES ASSUME NEW j \in Queues, NEW m \in Elements(queues'[j])
                 PROVE  Home(target'[m]) = j
      OBVIOUS
    <3>1. CASE m \in Elements(queues[j])
      <4>1. Home(target[m]) = j /\ m \in Ids
        BY <1>1, <3>1, Belong DEF FifoInv, AtHome
      <4> QED
        BY <1>5, <4>1
    <3> QED
      BY <1>5, <1>12, <3>1
  <2>2. \A d \in Cores : pc[d] = "grab" => pc'[d] = "grab"
    BY <1>1, <1>4, Elsewhere
  <2>3. \A d \in Cores : \A m \in Elements(future_messages[d]) :
          pc'[d] = "grab" /\ Home(target'[m]) = QueueOf(d)
    <3> SUFFICES ASSUME NEW d \in Cores, NEW m \in Elements(future_messages[d])
                 PROVE  pc'[d] = "grab" /\ Home(target'[m]) = QueueOf(d)
      OBVIOUS
    <3>1. pc[d] = "grab" /\ Home(target[m]) = QueueOf(d) /\ m \in Ids
      BY <1>1, Belong DEF FifoInv, AtHome
    <3> QED
      BY <1>5, <2>2, <3>1
  <2> QED
    BY <1>4, <2>1, <2>3 DEF AtHome, Elements, QueueOf, Home
<1>18. Fifo'
  <2> SUFFICES ASSUME NEW m \in executed, NEW k \in Ids', k < m, target'[k] = target'[m],
                      m \notin timers', k \notin timers'
               PROVE  k \in executed
    BY <1>4 DEF Fifo
  <2>1. m \in Ids /\ k \in Ids
    BY <1>5, <1>6
  <2>2. m \notin timers /\ k \notin timers /\ target[k] = target[m]
    BY <1>5, <1>7, <2>1
  <2> QED
    BY <2>1, <2>2 DEF FifoInv, Fifo
<1> QED
  BY <1>13, <1>14, <1>15, <1>16, <1>17, <1>18 DEF FifoInv

LEMMA InitFifo == Init => FifoInv
<1> SUFFICES ASSUME Init PROVE FifoInv
  OBVIOUS
<1>1. /\ \A i \in Queues : queues[i] = << >>
      /\ \A c \in Cores : messages[c] = << >> /\ future_messages[c] = << >>
      /\ \A c \in Cores : current_time[c] = {}
      /\ executed = {}
  BY DEF Init
<1>2. Elements(<< >>) = {}
  BY InElements, EmptySeq
<1>3. \A R : Sorted(<< >>, R)
  BY EmptySeq DEF Sorted
<1> QED
  BY <1>1, <1>2, <1>3
     DEF FifoInv, QueuesSorted, BatchesSorted, BatchesFirst, Before, OnlyTimers, AtHome, Fifo

LEMMA NextFifo == IInv /\ Placed /\ FifoInv /\ [Next]_vars => FifoInv'
  BY Movers, QuietFifo, PopFifo, CommitFifo, FinishFifo, PushFifo

LEMMA AlwaysFifo == Spec => []FifoInv
<1> QED
  BY AlwaysPlaced, InitFifo, NextFifo, PTL DEF Spec

(* Whatever the batches, their limit, the messages pushed back and the     *)
(* core that locks the process next, the messages a process receives are   *)
(* executed in the order in which SendMessage pushed them, timers apart.   *)
THEOREM Order == Spec => []Fifo
<1>1. FifoInv => Fifo
  BY DEF FifoInv
<1> QED
  BY AlwaysFifo, <1>1, PTL
=============================================================================

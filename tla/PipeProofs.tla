------------------------------ MODULE PipeProofs -----------------------------
(***************************************************************************)
(* What is on its way between the two ends, and what a step does to it.    *)
(* Frames pass from the frame channel through the transport to recv_loop;  *)
(* the order in which the peer will read them is that of one sequence,     *)
(* Pipe(w).  Each step of Next is shown to be one of a few moves of that   *)
(* sequence and of the Streams; the proofs in StreamProofs and             *)
(* BytePipeProofs go by these moves and not by the actions.                *)
(***************************************************************************)
EXTENDS SessionSafetyProofs, SequenceTheorems

USE DEF stateVars, chanVars, loopVars, openVars, streamVars, histVars, vars

-----------------------------------------------------------------------------
(* Sequences of frames.  q is p with f at its end; without its first frame   *)
(* f; cut off after some frame; or without the frame at k.                   *)

Grown(p, q, f) ==
  /\ Len(q) = Len(p) + 1 /\ q[Len(p) + 1] = f
  /\ \A i \in 1..Len(p) : q[i] = p[i]

Shrunk(p, q, f) ==
  /\ Len(p) = Len(q) + 1 /\ p[1] = f
  /\ \A i \in 1..Len(q) : q[i] = p[i + 1]

Cut(p, q) ==
  /\ Len(q) <= Len(p)
  /\ \A i \in 1..Len(q) : q[i] = p[i]

Without(p, q, k) ==
  /\ k \in 1..Len(p) /\ Len(q) = Len(p) - 1
  /\ \A i \in 1..(k-1) : q[i] = p[i]
  /\ \A i \in k..Len(q) : q[i] = p[i + 1]

\* What appending, reading and cutting do to a sequence in two parts, s and t.
LEMMA AppendSecond ==
  ASSUME NEW S, NEW s \in Seq(S), NEW t \in Seq(S), NEW f \in S
  PROVE  Grown(s \o t, s \o Append(t, f), f)
<1>1. /\ Append(t, f) \in Seq(S) /\ Len(Append(t, f)) = Len(t) + 1
      /\ Append(t, f)[Len(t) + 1] = f
      /\ \A i \in 1..Len(t) : Append(t, f)[i] = t[i]
  BY AppendProperties
<1>2. Len(s) \in Nat /\ Len(t) \in Nat
  BY LenProperties
<1>3. /\ Len(s \o t) = Len(s) + Len(t)
      /\ \A i \in 1..(Len(s) + Len(t)) :
           (s \o t)[i] = IF i <= Len(s) THEN s[i] ELSE t[i - Len(s)]
  BY ConcatProperties
<1> DEFINE u == Append(t, f)
<1>4. /\ Len(s \o u) = Len(s) + Len(u)
      /\ \A i \in 1..(Len(s) + Len(u)) :
           (s \o u)[i] = IF i <= Len(s) THEN s[i] ELSE u[i - Len(s)]
  BY <1>1, ConcatProperties
<1> HIDE DEF u
<1>5. Len(u) = Len(t) + 1 /\ u[Len(t) + 1] = f /\ \A i \in 1..Len(t) : u[i] = t[i]
  BY <1>1 DEF u
<1>6. Len(s \o u) = Len(s \o t) + 1
  BY <1>2, <1>3, <1>4, <1>5
<1>7. (s \o u)[Len(s \o t) + 1] = f
  BY <1>2, <1>3, <1>4, <1>5
<1>8. ASSUME NEW i \in 1..Len(s \o t) PROVE (s \o u)[i] = (s \o t)[i]
  <2>1. i \in 1..(Len(s) + Len(t)) /\ i \in 1..(Len(s) + Len(u))
    BY <1>2, <1>3, <1>5
  <2>2. i > Len(s) => i - Len(s) \in 1..Len(t)
    BY <1>2, <2>1
  <2> QED
    BY <1>2, <1>3, <1>4, <1>5, <2>1, <2>2
<1>9. Grown(s \o t, s \o u, f)
  BY <1>6, <1>7, <1>8 DEF Grown
<1> QED
  BY <1>9 DEF u

\* Without the first frame of s, s \o t has lost its first frame.
LEMMA TailFirst ==
  ASSUME NEW S, NEW s \in Seq(S), NEW t \in Seq(S), s # << >>
  PROVE  Shrunk(s \o t, Tail(s) \o t, Head(s))
<1> DEFINE u == Tail(s)
<1>1. /\ u \in Seq(S) /\ Len(u) = Len(s) - 1 /\ Head(s) = s[1]
      /\ \A i \in 1..Len(u) : u[i] = s[i + 1]
  BY HeadTailProperties
<1>2. Len(s) \in Nat /\ Len(t) \in Nat /\ Len(s) # 0
  BY LenProperties, EmptySeq
<1> HIDE DEF u
<1>3. /\ Len(s \o t) = Len(s) + Len(t)
      /\ \A i \in 1..(Len(s) + Len(t)) :
           (s \o t)[i] = IF i <= Len(s) THEN s[i] ELSE t[i - Len(s)]
  BY ConcatProperties
<1>4. /\ Len(u \o t) = Len(u) + Len(t)
      /\ \A i \in 1..(Len(u) + Len(t)) :
           (u \o t)[i] = IF i <= Len(u) THEN u[i] ELSE t[i - Len(u)]
  BY <1>1, ConcatProperties
<1>5. ASSUME NEW i \in 1..Len(u \o t) PROVE (u \o t)[i] = (s \o t)[i + 1]
  <2>1. i \in 1..(Len(u) + Len(t)) /\ i + 1 \in 1..(Len(s) + Len(t))
    BY <1>1, <1>2, <1>4, <1>5
  <2>2. CASE i <= Len(u)
    BY <1>1, <1>2, <1>3, <1>4, <2>1, <2>2
  <2>3. CASE i > Len(u)
    <3>1. (u \o t)[i] = t[i - Len(u)] /\ (s \o t)[i + 1] = t[i + 1 - Len(s)]
      BY <1>1, <1>2, <1>3, <1>4, <2>1, <2>3
    <3>2. i - Len(u) = i + 1 - Len(s)
      BY <1>1, <1>2
    <3> QED
      BY <3>1, <3>2
  <2> QED
    BY <1>1, <1>2, <2>1, <2>2, <2>3
<1>6. Shrunk(s \o t, u \o t, Head(s))
  BY <1>1, <1>2, <1>3, <1>4, <1>5 DEF Shrunk
<1> QED
  BY <1>6 DEF u

\* What goes from the head of t to the end of s stays where it was in s \o t.
LEMMA HeadMoves ==
  ASSUME NEW S, NEW s \in Seq(S), NEW t \in Seq(S), t # << >>
  PROVE  Append(s, Head(t)) \o Tail(t) = s \o t
<1> DEFINE u == Append(s, Head(t))
           v == Tail(t)
<1>0. Len(s) \in Nat /\ Len(t) \in Nat /\ Len(t) # 0
  BY LenProperties, EmptySeq
<1>1. /\ v \in Seq(S) /\ Len(v) = Len(t) - 1 /\ Head(t) \in S /\ Head(t) = t[1]
      /\ \A i \in 1..Len(v) : v[i] = t[i + 1]
  BY HeadTailProperties
<1>2. /\ u \in Seq(S) /\ Len(u) = Len(s) + 1 /\ u[Len(s) + 1] = t[1]
      /\ \A i \in 1..Len(s) : u[i] = s[i]
  BY <1>1, AppendProperties
<1> HIDE DEF u, v
<1>3. /\ s \o t \in Seq(S) /\ Len(s \o t) = Len(s) + Len(t)
      /\ \A i \in 1..(Len(s) + Len(t)) :
           (s \o t)[i] = IF i <= Len(s) THEN s[i] ELSE t[i - Len(s)]
  BY ConcatProperties
<1>4. /\ u \o v \in Seq(S) /\ Len(u \o v) = Len(u) + Len(v)
      /\ \A i \in 1..(Len(u) + Len(v)) :
           (u \o v)[i] = IF i <= Len(u) THEN u[i] ELSE v[i - Len(u)]
  BY <1>1, <1>2, ConcatProperties
<1>5. ASSUME NEW i \in 1..Len(u \o v) PROVE (u \o v)[i] = (s \o t)[i]
  <2>1. i \in 1..(Len(u) + Len(v)) /\ i \in 1..(Len(s) + Len(t))
    BY <1>0, <1>1, <1>2, <1>4
  <2>2. CASE i <= Len(s)
    BY <1>0, <1>2, <1>3, <1>4, <2>1, <2>2
  <2>3. CASE i = Len(s) + 1
    BY <1>0, <1>2, <1>3, <1>4, <2>1, <2>3
  <2>4. CASE i > Len(s) + 1
    <3>1. (u \o v)[i] = v[i - Len(u)] /\ (s \o t)[i] = t[i - Len(s)]
      BY <1>0, <1>2, <1>3, <1>4, <2>1, <2>4
    <3>2. i - Len(u) \in 1..Len(v) /\ (i - Len(u)) + 1 = i - Len(s)
      BY <1>0, <1>1, <1>2, <2>1, <2>4
    <3> QED
      BY <1>1, <3>1, <3>2
  <2> QED
    BY <1>0, <2>1, <2>2, <2>3, <2>4
<1>6. u \o v = s \o t
  <2>1. Len(u \o v) = Len(s \o t)
    BY <1>0, <1>1, <1>2, <1>3, <1>4
  <2> QED
    BY <1>3, <1>4, <1>5, <2>1, SeqEqual
<1> QED
  BY <1>6 DEF u, v

\* Without t, s \o t is cut off.
LEMMA FirstRemains ==
  ASSUME NEW S, NEW s \in Seq(S), NEW t \in Seq(S)
  PROVE  Cut(s \o t, s \o << >>)
<1>1. s \o << >> = s /\ Len(s) \in Nat /\ Len(t) \in Nat
  BY ConcatEmptySeq, LenProperties
<1>2. /\ Len(s \o t) = Len(s) + Len(t)
      /\ \A i \in 1..(Len(s) + Len(t)) :
           (s \o t)[i] = IF i <= Len(s) THEN s[i] ELSE t[i - Len(s)]
  BY ConcatProperties
<1> QED
  BY <1>1, <1>2 DEF Cut

\* Without the frame at m of t, s \o t is without the frame it had there.
LEMMA SecondLoses ==
  ASSUME NEW S, NEW s \in Seq(S), NEW t \in Seq(S), NEW m \in 1..Len(t)
  PROVE  /\ Len(SubSeq(t, 1, m - 1) \o SubSeq(t, m + 1, Len(t))) = Len(t) - 1
         /\ Len(s) + m \in 1..Len(s \o t)
         /\ (s \o t)[Len(s) + m] = t[m]
         /\ Without(s \o t, s \o (SubSeq(t, 1, m - 1) \o SubSeq(t, m + 1, Len(t))),
                    Len(s) + m)
<1> DEFINE a == SubSeq(t, 1, m - 1)
           b == SubSeq(t, m + 1, Len(t))
           u == a \o b
<1>0. Len(s) \in Nat /\ Len(t) \in Nat /\ m \in Int /\ 1 <= m /\ m <= Len(t)
  BY LenProperties
<1>1. /\ a \in Seq(S) /\ Len(a) = m - 1
      /\ \A i \in 1..(m-1) : a[i] = t[i]
  <2>1. m - 1 \in Int /\ \A i \in 1..(m-1) : t[i] \in S
    BY <1>0, ElementOfSeq
  <2>2. /\ a \in Seq(S) /\ Len(a) = (IF 1 <= m - 1 THEN m - 1 - 1 + 1 ELSE 0)
        /\ \A i \in 1..(m - 1 - 1 + 1) : a[i] = t[1 + i - 1]
    BY <2>1, SubSeqProperties
  <2> QED
    BY <1>0, <2>2
<1>2. /\ b \in Seq(S) /\ Len(b) = Len(t) - m
      /\ \A i \in 1..(Len(t) - m) : b[i] = t[m + i]
  <2>1. m + 1 \in Int /\ \A i \in (m+1)..Len(t) : t[i] \in S
    BY <1>0, ElementOfSeq
  <2>2. /\ b \in Seq(S)
        /\ Len(b) = (IF m + 1 <= Len(t) THEN Len(t) - (m + 1) + 1 ELSE 0)
        /\ \A i \in 1..(Len(t) - (m + 1) + 1) : b[i] = t[m + 1 + i - 1]
    BY <1>0, <2>1, SubSeqProperties
  <2> QED
    BY <1>0, <2>2
<1> HIDE DEF a, b
<1>3. /\ u \in Seq(S) /\ Len(u) = Len(a) + Len(b)
      /\ \A i \in 1..(Len(a) + Len(b)) :
           u[i] = IF i <= Len(a) THEN a[i] ELSE b[i - Len(a)]
  BY <1>1, <1>2, ConcatProperties
<1> HIDE DEF u
<1>4. Len(u) = Len(t) - 1
  BY <1>0, <1>1, <1>2, <1>3
<1>5. ASSUME NEW i \in 1..(m-1) PROVE u[i] = t[i]
  <2>1. i \in 1..(Len(a) + Len(b)) /\ i <= Len(a)
    BY <1>0, <1>1, <1>2
  <2> QED
    BY <1>1, <1>3, <2>1
<1>6. ASSUME NEW i \in m..Len(u) PROVE u[i] = t[i + 1]
  <2>1. i \in 1..(Len(a) + Len(b)) /\ ~(i <= Len(a)) /\ i - Len(a) = i - (m - 1)
    BY <1>0, <1>1, <1>2, <1>3
  <2>2. i - (m - 1) \in 1..(Len(t) - m) /\ m + (i - (m - 1)) = i + 1
    BY <1>0, <1>4
  <2> QED
    BY <1>2, <1>3, <2>1, <2>2, ZenonT(30)
<1>7. /\ Len(s \o t) = Len(s) + Len(t)
      /\ \A i \in 1..(Len(s) + Len(t)) :
           (s \o t)[i] = IF i <= Len(s) THEN s[i] ELSE t[i - Len(s)]
  BY ConcatProperties
<1>8. /\ Len(s \o u) = Len(s) + Len(u)
      /\ \A i \in 1..(Len(s) + Len(u)) :
           (s \o u)[i] = IF i <= Len(s) THEN s[i] ELSE u[i - Len(s)]
  <2>1. u \in Seq(S)
    BY <1>3
  <2> QED
    BY <2>1, ConcatProperties
<1>9. Len(s) + m \in 1..Len(s \o t) /\ (s \o t)[Len(s) + m] = t[m]
  BY <1>0, <1>7
<1>10. ASSUME NEW i \in 1..((Len(s) + m) - 1) PROVE (s \o u)[i] = (s \o t)[i]
  <2>1. i \in 1..(Len(s) + Len(u)) /\ i \in 1..(Len(s) + Len(t))
    BY <1>0, <1>4
  <2>2. i > Len(s) => i - Len(s) \in 1..(m-1)
    BY <1>0
  <2> QED
    BY <1>0, <1>5, <1>7, <1>8, <2>1, <2>2
<1>11. ASSUME NEW i \in (Len(s) + m)..Len(s \o u) PROVE (s \o u)[i] = (s \o t)[i + 1]
  <2>1. i \in 1..(Len(s) + Len(u)) /\ i + 1 \in 1..(Len(s) + Len(t)) /\ i > Len(s)
    BY <1>0, <1>4, <1>8
  <2>2. i - Len(s) \in m..Len(u) /\ (i + 1) - Len(s) = (i - Len(s)) + 1
    BY <1>0, <1>4, <1>8
  <2>3. (s \o u)[i] = u[i - Len(s)] /\ (s \o t)[i + 1] = t[(i + 1) - Len(s)]
    BY <1>0, <1>7, <1>8, <2>1
  <2> QED
    BY <1>6, <2>2, <2>3
<1>12. Without(s \o t, s \o u, Len(s) + m)
  <2>1. Len(s \o u) = Len(s \o t) - 1
    BY <1>0, <1>4, <1>7, <1>8
  <2> DEFINE k == Len(s) + m
             p == s \o t
             q == s \o u
  <2>2. k \in 1..Len(p) /\ Len(q) = Len(p) - 1
    BY <1>9, <2>1
  <2>3. \A i \in 1..(k - 1) : q[i] = p[i]
    BY <1>10, Zenon
  <2>4. \A i \in k..Len(q) : q[i] = p[i + 1]
    BY <1>11, Zenon
  <2> HIDE DEF k, p, q
  <2>5. Without(p, q, k)
    BY <2>2, <2>3, <2>4 DEF Without
  <2> QED
    BY <2>5 DEF k, p, q
<1> QED
  BY <1>4, <1>9, <1>12 DEF u, a, b

\* Frame g is in p, and frame h stands before frame g in p.
In(p, g) == \E i \in 1..Len(p) : p[i] = g
Before(p, h, g) == \E i, j \in 1..Len(p) : i < j /\ p[i] = h /\ p[j] = g

\* What each of the four changes does to the frames and their order.
LEMMA GrownFrames ==
  ASSUME NEW S, NEW p \in Seq(S), NEW q \in Seq(S), NEW f, Grown(p, q, f), NEW g, NEW h
  PROVE  /\ In(q, g) <=> In(p, g) \/ g = f
         /\ Before(q, h, g) <=> Before(p, h, g) \/ (In(p, h) /\ g = f)
<1>1. Len(p) \in Nat /\ Len(q) = Len(p) + 1
  BY LenProperties DEF Grown
<1>2. In(q, g) => In(p, g) \/ g = f
  BY <1>1 DEF In, Grown
<1>3. In(p, g) \/ g = f => In(q, g)
  <2>1. Len(p) + 1 \in 1..Len(q) /\ \A i \in 1..Len(p) : i \in 1..Len(q)
    BY <1>1
  <2> QED
    BY <2>1 DEF In, Grown
<1>4. ASSUME NEW i \in 1..Len(q), NEW j \in 1..Len(q), i < j, q[i] = h, q[j] = g
      PROVE  Before(p, h, g) \/ (In(p, h) /\ g = f)
  BY <1>1, <1>4 DEF In, Before, Grown
<1>5. Before(p, h, g) => Before(q, h, g)
  <2>1. \A i \in 1..Len(p) : i \in 1..Len(q)
    BY <1>1
  <2> QED
    BY <2>1 DEF Before, Grown
<1>6. In(p, h) /\ g = f => Before(q, h, g)
  <2>1. Len(p) + 1 \in 1..Len(q) /\ \A i \in 1..Len(p) : i \in 1..Len(q) /\ i < Len(p) + 1
    BY <1>1
  <2> QED
    BY <2>1 DEF In, Before, Grown
<1> QED
  BY <1>2, <1>3, <1>4, <1>5, <1>6 DEF Before

\* What is in a sequence that has lost its first frame, and in which order.
LEMMA ShrunkFrames ==
  ASSUME NEW S, NEW p \in Seq(S), NEW q \in Seq(S), NEW f, Shrunk(p, q, f), NEW g, NEW h
  PROVE  /\ In(p, g) <=> In(q, g) \/ g = f
         /\ Before(p, h, g) <=> Before(q, h, g) \/ (h = f /\ In(q, g))
<1>1. Len(q) \in Nat /\ Len(p) = Len(q) + 1
  BY LenProperties DEF Shrunk
<1>2. /\ 1 \in 1..Len(p) /\ \A i \in 1..Len(q) : i + 1 \in 1..Len(p)
      /\ \A i \in 1..Len(p) : i # 1 => i - 1 \in 1..Len(q) /\ p[i] = q[i - 1]
  BY <1>1 DEF Shrunk
<1>3. In(p, g) <=> In(q, g) \/ g = f
  BY <1>2 DEF In, Shrunk
<1>4. ASSUME NEW i \in 1..Len(p), NEW j \in 1..Len(p), i < j, p[i] = h, p[j] = g
      PROVE  Before(q, h, g) \/ (h = f /\ In(q, g))
  <2>1. j # 1 /\ j - 1 \in 1..Len(q) /\ q[j - 1] = g
    BY <1>2, <1>4
  <2>2. CASE i = 1
    BY <1>4, <2>1, <2>2 DEF In, Shrunk
  <2>3. CASE i # 1
    BY <1>2, <1>4, <2>1, <2>3, SMTT(30) DEF Before
  <2> QED
    BY <2>2, <2>3
<1>5. ASSUME NEW i \in 1..Len(q), NEW j \in 1..Len(q), i < j, q[i] = h, q[j] = g
      PROVE  Before(p, h, g)
  <2>1. i + 1 \in 1..Len(p) /\ j + 1 \in 1..Len(p) /\ i + 1 < j + 1
        /\ p[i + 1] = h /\ p[j + 1] = g
    BY <1>2, <1>5 DEF Shrunk
  <2> QED
    BY <2>1 DEF Before
<1>6. ASSUME h = f, NEW j \in 1..Len(q), q[j] = g
      PROVE  Before(p, h, g)
  <2>1. j + 1 \in 1..Len(p) /\ 1 \in 1..Len(p) /\ 1 < j + 1 /\ p[1] = h /\ p[j + 1] = g
    BY <1>2, <1>6 DEF Shrunk
  <2> QED
    BY <2>1 DEF Before
<1> QED
  BY <1>3, <1>4, <1>5, <1>6 DEF In, Before

\* What is left of a sequence that is cut off: if a frame is, so are those that
\* were only before it.
LEMMA CutFrames ==
  ASSUME NEW S, NEW p \in Seq(S), NEW q \in Seq(S), Cut(p, q), NEW g, NEW h
  PROVE  /\ In(q, g) => In(p, g)
         /\ Before(q, h, g) => Before(p, h, g)
         /\ In(q, g) /\ Before(p, h, g) /\ g # h => Before(q, h, g) \/ Before(p, g, h)
<1>1. /\ Len(q) \in Nat /\ Len(p) \in Nat /\ Len(q) <= Len(p)
      /\ \A i \in 1..Len(q) : i \in 1..Len(p) /\ q[i] = p[i]
  BY LenProperties DEF Cut
<1>2. In(q, g) => In(p, g)
  BY <1>1 DEF In
<1>3. Before(q, h, g) => Before(p, h, g)
  BY <1>1 DEF Before
<1>4. ASSUME NEW k \in 1..Len(q), q[k] = g, g # h,
             NEW i \in 1..Len(p), NEW j \in 1..Len(p), i < j, p[i] = h, p[j] = g
      PROVE  Before(q, h, g) \/ Before(p, g, h)
  <2>1. i < k \/ k < i
    BY <1>1, <1>4
  <2>2. CASE i < k
    <3>1. i \in 1..Len(q) /\ q[i] = h
      BY <1>1, <1>4, <2>2
    <3> QED
      BY <1>4, <2>2, <3>1 DEF Before
  <2>3. CASE k < i
    BY <1>1, <1>4, <2>3 DEF Before
  <2> QED
    BY <2>1, <2>2, <2>3
<1> QED
  BY <1>2, <1>3, <1>4 DEF In, Before

\* What is left of a sequence without one frame.
LEMMA WithoutFrames ==
  ASSUME NEW S, NEW p \in Seq(S), NEW q \in Seq(S), NEW k, Without(p, q, k),
         NEW f, p[k] = f, NEW g, NEW h
  PROVE  /\ In(q, g) => In(p, g)
         /\ Before(q, h, g) => Before(p, h, g)
         /\ In(p, g) /\ g # f => In(q, g)
         /\ Before(p, h, g) /\ h # f /\ g # f => Before(q, h, g)
         /\ In(q, f) => Before(p, f, f)
<1>1. Len(p) \in Nat /\ k \in 1..Len(p) /\ Len(q) = Len(p) - 1
  BY LenProperties DEF Without
<1> DEFINE at(i) == IF i < k THEN i ELSE i + 1
           to(i) == IF i < k THEN i ELSE i - 1
<1>2. \A i \in 1..Len(q) : at(i) \in 1..Len(p) /\ q[i] = p[at(i)]
  BY <1>1 DEF Without
<1>3. \A i, j \in 1..Len(q) : i < j => at(i) < at(j)
  BY <1>1
<1>4. ASSUME NEW i \in 1..Len(p), i # k PROVE to(i) \in 1..Len(q) /\ p[i] = q[to(i)]
  <2>1. CASE i < k
    BY <1>1, <1>4, <2>1 DEF Without
  <2>2. CASE i > k
    <3>1. i - 1 \in k..Len(q) /\ (i - 1) + 1 = i
      BY <1>1, <1>4, <2>2
    <3> QED
      BY <1>1, <1>4, <2>2, <3>1 DEF Without
  <2> QED
    BY <1>1, <1>4, <2>1, <2>2
<1>5. \A i, j \in 1..Len(p) : i < j /\ i # k /\ j # k => to(i) < to(j)
  BY <1>1
<1>6. \A i \in 1..Len(q) : at(i) # k /\ at(i) \in Int /\ k \in Int
  BY <1>1
<1> HIDE DEF at, to
<1>7. In(q, g) => In(p, g)
  BY <1>2 DEF In
<1>8. Before(q, h, g) => Before(p, h, g)
  BY <1>2, <1>3 DEF Before
<1>9. In(p, g) /\ g # f => In(q, g)
  BY <1>4 DEF In
<1>10. Before(p, h, g) /\ h # f /\ g # f => Before(q, h, g)
  <2> SUFFICES ASSUME NEW i \in 1..Len(p), NEW j \in 1..Len(p), i < j, p[i] = h,
                      p[j] = g, h # f, g # f
               PROVE  Before(q, h, g)
    BY DEF Before
  <2>1. i # k /\ j # k
    OBVIOUS
  <2>2. to(i) \in 1..Len(q) /\ to(j) \in 1..Len(q) /\ to(i) < to(j)
        /\ q[to(i)] = h /\ q[to(j)] = g
    BY <1>4, <1>5, <2>1
  <2> QED
    BY <2>2 DEF Before
<1>11. In(q, f) => Before(p, f, f)
  <2> SUFFICES ASSUME NEW i \in 1..Len(q), q[i] = f
               PROVE  Before(p, f, f)
    BY DEF In
  <2>1. at(i) \in 1..Len(p) /\ p[at(i)] = f /\ (at(i) < k \/ k < at(i))
    BY <1>2, <1>6
  <2> QED
    BY <1>1, <2>1 DEF Before
<1> QED
  BY <1>7, <1>8, <1>9, <1>10, <1>11

\* The frames on their way from each end to its peer.
Pipes == [w \in Sides |-> Pipe(w)]

\* What is on its way are frames.
LEMMA PipesType == TypeOK => Pipes \in [Sides -> Seq(FrameSet)]
BY DEF TypeOK, ChanOK, Pipes, Pipe

\* The four changes, of what is on its way from e (to e, for Takes).
Puts(e, f) ==
  \A d \in Sides, g, h \in FrameSet :
    /\ In(Pipes'[d], g) <=> In(Pipes[d], g) \/ (d = e /\ g = f)
    /\ Before(Pipes'[d], h, g)
         <=> Before(Pipes[d], h, g) \/ (d = e /\ g = f /\ In(Pipes[d], h))

Takes(e, f) ==
  \A d \in Sides, g, h \in FrameSet :
    /\ In(Pipes[d], g) <=> In(Pipes'[d], g) \/ (d = Peer(e) /\ g = f)
    /\ Before(Pipes[d], h, g)
         <=> Before(Pipes'[d], h, g) \/ (d = Peer(e) /\ h = f /\ In(Pipes'[d], g))

Cuts(e) ==
  \A d \in Sides, g, h \in FrameSet :
    /\ In(Pipes'[d], g) => In(Pipes[d], g)
    /\ Before(Pipes'[d], h, g) => Before(Pipes[d], h, g)
    /\ d # e => (In(Pipes[d], g) => In(Pipes'[d], g))
    /\ In(Pipes'[d], g) /\ Before(Pipes[d], h, g) /\ g # h
         => Before(Pipes'[d], h, g) \/ Before(Pipes[d], g, h)

Loses(e, f) ==
  \A d \in Sides, g, h \in FrameSet :
    /\ In(Pipes'[d], g) => In(Pipes[d], g)
    /\ Before(Pipes'[d], h, g) => Before(Pipes[d], h, g)
    /\ d # e \/ g # f => (In(Pipes[d], g) => In(Pipes'[d], g))
    /\ d # e \/ (g # f /\ h # f)
         => (Before(Pipes[d], h, g) => Before(Pipes'[d], h, g))
    /\ In(Pipes'[e], f) => Before(Pipes[e], f, f)

\* A frame is put into the frame channel.
LEMMA PipeGrows ==
  ASSUME TypeOK, NEW e \in Sides, NEW f \in FrameSet, UNCHANGED wire,
         frame_ch' = [frame_ch EXCEPT ![e] = Append(@, f)]
  PROVE  Puts(e, f)
<1>1. wire[e] \in Seq(FrameSet) /\ frame_ch[e] \in Seq(FrameSet)
  BY DEF TypeOK, ChanOK
<1>2. Pipes[e] = wire[e] \o frame_ch[e]
      /\ Pipes'[e] = wire[e] \o Append(frame_ch[e], f)
  BY DEF Pipes, Pipe, TypeOK, ChanOK
<1>3. Grown(wire[e] \o frame_ch[e], wire[e] \o Append(frame_ch[e], f), f)
  BY <1>1, AppendSecond
<1>4. ASSUME NEW d \in Sides, d # e PROVE Pipes'[d] = Pipes[d]
  BY <1>4 DEF Pipes, Pipe, TypeOK, ChanOK
<1>5. Pipes[e] \in Seq(FrameSet) /\ Pipes'[e] \in Seq(FrameSet)
  BY <1>1, <1>2, AppendProperties, ConcatProperties
<1>6. Grown(Pipes[e], Pipes'[e], f)
  BY <1>2, <1>3
<1> QED
  BY <1>4, <1>5, <1>6, GrownFrames DEF Puts

\* send_loop moves a frame from the channel to the transport.
LEMMA PipeMoves ==
  ASSUME TypeOK, NEW e \in Sides, SendFrame(e)
  PROVE  Pipes' = Pipes
<1>1. wire[e] \in Seq(FrameSet) /\ frame_ch[e] \in Seq(FrameSet) /\ frame_ch[e] # << >>
  BY DEF TypeOK, ChanOK, SendFrame
<1>2. Append(wire[e], Head(frame_ch[e])) \o Tail(frame_ch[e]) = wire[e] \o frame_ch[e]
  BY <1>1, HeadMoves
<1>3. ASSUME NEW d \in Sides PROVE wire'[d] \o frame_ch'[d] = wire[d] \o frame_ch[d]
  BY <1>2 DEF SendFrame, TypeOK, ChanOK
<1> QED
  BY <1>3 DEF Pipes, Pipe

\* recv_loop reads a frame.
LEMMA PipeShrinks ==
  ASSUME TypeOK, NEW e \in Sides, RecvFrame(e)
  PROVE  Takes(e, Head(wire[Peer(e)]))
<1> DEFINE w == Peer(e)
<1>1. /\ wire[w] \in Seq(FrameSet) /\ frame_ch[w] \in Seq(FrameSet)
      /\ wire[w] # << >> /\ w \in Sides /\ w # e
  BY PeerType DEF TypeOK, ChanOK, RecvFrame, Peer, Sides
<1>2. Pipes[w] = wire[w] \o frame_ch[w] /\ Pipes'[w] = Tail(wire[w]) \o frame_ch[w]
      /\ Pipes'[e] = Pipes[e]
  BY <1>1 DEF Pipes, Pipe, RecvFrame, TypeOK, ChanOK
<1>3. Shrunk(wire[w] \o frame_ch[w], Tail(wire[w]) \o frame_ch[w], Head(wire[w]))
  BY <1>1, TailFirst
<1>4. Pipes[w] \in Seq(FrameSet) /\ Pipes'[w] \in Seq(FrameSet)
  BY <1>1, <1>2, HeadTailProperties, ConcatProperties
<1>5. Shrunk(Pipes[w], Pipes'[w], Head(wire[w]))
  BY <1>2, <1>3
<1>6. \A d \in Sides : d # w => Pipes'[d] = Pipes[d]
  BY <1>1, <1>2 DEF Sides
<1>7. ASSUME NEW d \in Sides, NEW g, NEW h
      PROVE  /\ In(Pipes[d], g) <=> In(Pipes'[d], g) \/ (d = w /\ g = Head(wire[w]))
             /\ Before(Pipes[d], h, g) <=> \/ Before(Pipes'[d], h, g)
                                           \/ d = w /\ h = Head(wire[w]) /\ In(Pipes'[d], g)
  <2>1. CASE d = w
    BY <1>4, <1>5, <2>1, ShrunkFrames
  <2>2. CASE d # w
    BY <1>6, <2>2
  <2> QED
    BY <2>1, <2>2
<1> QED
  BY <1>7 DEF Takes

\* send_loop ends: the channel and what it holds are gone.
LEMMA PipeIsCut ==
  ASSUME TypeOK, NEW e \in Sides, SendExit(e)
  PROVE  Cuts(e)
<1>1. wire[e] \in Seq(FrameSet) /\ frame_ch[e] \in Seq(FrameSet)
  BY DEF TypeOK, ChanOK
<1>2. Pipes[e] = wire[e] \o frame_ch[e] /\ Pipes'[e] = wire[e] \o << >>
  BY DEF Pipes, Pipe, SendExit, SendBreak, TypeOK, ChanOK
<1>3. Cut(wire[e] \o frame_ch[e], wire[e] \o << >>)
  BY <1>1, FirstRemains
<1>4. ASSUME NEW d \in Sides, d # e PROVE Pipes'[d] = Pipes[d]
  BY <1>4 DEF Pipes, Pipe, SendExit, SendBreak, TypeOK, ChanOK
<1>5. Pipes[e] \in Seq(FrameSet) /\ Pipes'[e] \in Seq(FrameSet)
  BY <1>1, <1>2, ConcatEmptySeq, ConcatProperties
<1>6. Cut(Pipes[e], Pipes'[e])
  BY <1>2, <1>3
<1>7. ASSUME NEW d \in Sides, NEW g, NEW h
      PROVE  /\ In(Pipes'[d], g) => In(Pipes[d], g)
             /\ Before(Pipes'[d], h, g) => Before(Pipes[d], h, g)
             /\ d # e => (In(Pipes[d], g) => In(Pipes'[d], g))
             /\ In(Pipes'[d], g) /\ Before(Pipes[d], h, g) /\ g # h
                  => Before(Pipes'[d], h, g) \/ Before(Pipes[d], g, h)
  <2>1. CASE d = e
    BY <1>5, <1>6, <2>1, CutFrames
  <2>2. CASE d # e
    BY <1>4, <2>2
  <2> QED
    BY <2>1, <2>2
<1> QED
  BY <1>7 DEF Cuts

\* The channel is full even without a waiting frame.
LEMMA WithdrawFull ==
  ASSUME TypeOK, NEW e \in Sides, NEW f, Waits(e, f)
  PROVE  Len(Withdraw(e, f)) >= FrameCap(e)
<1> DEFINE s == frame_ch[e]
           m == CHOOSE k \in 1..Len(s) : k > FrameCap(e) /\ s[k] = f
<1>1. s \in Seq(FrameSet) /\ FrameCap(e) \in Nat /\ Len(s) \in Nat
  BY ConfigAssumption, LenProperties DEF TypeOK, ChanOK, FrameCap, ConfigRecord
<1>2. m \in 1..Len(s) /\ m > FrameCap(e)
  BY DEF Waits
<1>3. Withdraw(e, f) = SubSeq(s, 1, m - 1) \o SubSeq(s, m + 1, Len(s))
  BY DEF Withdraw
<1> HIDE DEF s, m
<1>4. Len(Withdraw(e, f)) = Len(s) - 1
  BY <1>1, <1>2, <1>3, SecondLoses
<1> QED
  BY <1>1, <1>2, <1>4

\* A waiting frame is withdrawn from the channel.
LEMMA PipeLoses ==
  ASSUME TypeOK, NEW e \in Sides, NEW f \in FrameSet, Waits(e, f), UNCHANGED wire,
         frame_ch' = [frame_ch EXCEPT ![e] = Withdraw(e, f)]
  PROVE  Loses(e, f)
<1> DEFINE s == frame_ch[e]
           m == CHOOSE k \in 1..Len(s) : k > FrameCap(e) /\ s[k] = f
           t == SubSeq(s, 1, m - 1) \o SubSeq(s, m + 1, Len(s))
           k == Len(wire[e]) + m
<1>1. wire[e] \in Seq(FrameSet) /\ s \in Seq(FrameSet) /\ FrameCap(e) \in Nat
  BY ConfigAssumption DEF TypeOK, ChanOK, FrameCap, ConfigRecord
<1>2. m \in 1..Len(s) /\ m > FrameCap(e) /\ s[m] = f
  BY DEF Waits
<1>3. Pipes[e] = wire[e] \o s /\ Pipes'[e] = wire[e] \o t /\ t = Withdraw(e, f)
  BY DEF Pipes, Pipe, Withdraw, TypeOK, ChanOK
<1>4. ASSUME NEW d \in Sides, d # e PROVE Pipes'[d] = Pipes[d]
  BY <1>4 DEF Pipes, Pipe, TypeOK, ChanOK
<1>5. ASSUME NEW j \in 1..Len(s)
      PROVE  LET u == SubSeq(s, 1, j - 1) \o SubSeq(s, j + 1, Len(s))
             IN  /\ Len(u) = Len(s) - 1
                 /\ Len(wire[e]) + j \in 1..Len(wire[e] \o s)
                 /\ (wire[e] \o s)[Len(wire[e]) + j] = s[j]
                 /\ Without(wire[e] \o s, wire[e] \o u, Len(wire[e]) + j)
  <2> HIDE DEF s
  <2> QED
    BY <1>1, SecondLoses
<1>6. /\ Len(t) = Len(s) - 1
      /\ k \in 1..Len(Pipes[e]) /\ Pipes[e][k] = f /\ Without(Pipes[e], Pipes'[e], k)
  <2> HIDE DEF s, m
  <2> QED
    BY <1>2, <1>3, <1>5
<1>7. Pipes[e] \in Seq(FrameSet) /\ Pipes'[e] \in Seq(FrameSet)
  <2>1. Withdraw(e, f) \in Seq(FrameSet)
    BY WithdrawnType
  <2> HIDE DEF s, t
  <2> QED
    BY <1>1, <1>3, <2>1, ConcatProperties
<1>8. Loses(e, f)
  <2> HIDE DEF s, m, t, k
  <2> SUFFICES ASSUME NEW d \in Sides, NEW g \in FrameSet, NEW h \in FrameSet
               PROVE  /\ In(Pipes'[d], g) => In(Pipes[d], g)
                      /\ Before(Pipes'[d], h, g) => Before(Pipes[d], h, g)
                      /\ d # e \/ g # f => (In(Pipes[d], g) => In(Pipes'[d], g))
                      /\ d # e \/ (g # f /\ h # f)
                           => (Before(Pipes[d], h, g) => Before(Pipes'[d], h, g))
                      /\ In(Pipes'[e], f) => Before(Pipes[e], f, f)
    BY DEF Loses
  <2>1. /\ In(Pipes'[e], g) => In(Pipes[e], g)
        /\ Before(Pipes'[e], h, g) => Before(Pipes[e], h, g)
        /\ In(Pipes[e], g) /\ g # f => In(Pipes'[e], g)
        /\ Before(Pipes[e], h, g) /\ h # f /\ g # f => Before(Pipes'[e], h, g)
        /\ In(Pipes'[e], f) => Before(Pipes[e], f, f)
    <3> DEFINE p == Pipes[e]
               q == Pipes'[e]
    <3>1. p \in Seq(FrameSet) /\ q \in Seq(FrameSet) /\ Without(p, q, k) /\ p[k] = f
      BY <1>6, <1>7
    <3> HIDE DEF p, q
    <3>2. /\ In(q, g) => In(p, g)
          /\ Before(q, h, g) => Before(p, h, g)
          /\ In(p, g) /\ g # f => In(q, g)
          /\ Before(p, h, g) /\ h # f /\ g # f => Before(q, h, g)
          /\ In(q, f) => Before(p, f, f)
      BY <3>1, WithoutFrames
    <3> QED
      BY <3>2 DEF p, q
  <2>2. CASE d = e
    BY <2>1, <2>2
  <2>3. CASE d # e
    BY <1>4, <2>1, <2>3
  <2> QED
    BY <2>2, <2>3
<1> QED
  BY <1>8

-----------------------------------------------------------------------------
(* Where streams come from, when both ends run this crate.                   *)

\* The hypothesis: no frames but those of this crate.
NoForeign == \A e \in Sides : ForeignFrames[e] = {}

\* The end that opens the streams with this id.
Opener(id) == IF id % 2 = 1 THEN "client" ELSE "server"

\* The counter of each end runs through ids of its own parity, and only those
\* are opened there; only the others wait to be accepted.
OwnIds ==
  \A e \in Sides :
    /\ Opener(next_stream_id[e]) = e
    /\ \A id \in StreamId :
         /\ handle[e][id] \in {"opening", "syn_wait"} => Opener(id) = e
         /\ handle[e][id] = "queued" => Opener(id) # e

\* A stream that an end has never had has no state there.
Untouched ==
  \A e \in Sides, id \in StreamId : handle[e][id] = "none" =>
    /\ id \notin streams[e] /\ id \notin is_write_closed[e]
    /\ id \notin eof[e] /\ id \notin fin_sent[e]
    /\ sent[e][id] = 0 /\ got[e][id] = << >>
    /\ data_ch[e][id] = << >> /\ current_chunk[e][id] = Empty

\* Every frame on its way is a NOP or belongs to a Stream its sender has had in
\* use; only a PSH carries data.
FramesOwned ==
  \A w \in Sides, g \in FrameSet : In(Pipes[w], g) =>
    \/ g = Nop
    \/ /\ g.cmd \in {"SYN", "FIN", "PSH"}
       /\ g.cmd # "PSH" => g.data = Empty
       /\ handle[w][g.id] \notin {"none", "opening", "queued"}

\* A SYN comes from the opener, and its receiver does not know the stream.
SynIsNews ==
  \A w \in Sides, g \in FrameSet : In(Pipes[w], g) /\ g.cmd = "SYN" =>
    Opener(g.id) = w /\ handle[Peer(w)][g.id] = "none"

\* An end knows a stream of its peer only once that has sent the SYN.
OpenerFirst ==
  \A e \in Sides, id \in StreamId : (handle[e][id] # "none" /\ Opener(id) # e) =>
    handle[Peer(e)][id] \notin {"none", "opening"}

\* No frame of a stream stands before its SYN.
SynFirst ==
  \A w \in Sides, g, h \in FrameSet :
    (Before(Pipes[w], g, h) /\ g.cmd # "NOP" /\ g.id = h.id) => h.cmd # "SYN"

\* The accept channel holds the Streams that wait to be accepted, each once.
QueueExact ==
  \A e \in Sides :
    /\ \A i \in 1..Len(accept_ch[e]) : handle[e][accept_ch[e][i]] = "queued"
    /\ \A i, j \in 1..Len(accept_ch[e]) : accept_ch[e][i] = accept_ch[e][j] => i = j
    /\ \A id \in StreamId : handle[e][id] = "queued" =>
         \E i \in 1..Len(accept_ch[e]) : accept_ch[e][i] = id

Origin ==
  /\ OwnIds /\ Untouched /\ FramesOwned /\ SynIsNews /\ OpenerFirst /\ SynFirst
  /\ QueueExact

\* A step leaves the Stream with id i at d, and its history, as they are.
Same(d, i) ==
  /\ handle'[d][i] = handle[d][i] /\ sent'[d][i] = sent[d][i]
  /\ got'[d][i] = got[d][i] /\ data_ch'[d][i] = data_ch[d][i]
  /\ current_chunk'[d][i] = current_chunk[d][i]
  /\ (i \in streams'[d]) <=> (i \in streams[d])
  /\ (i \in is_write_closed'[d]) <=> (i \in is_write_closed[d])
  /\ (i \in eof'[d]) <=> (i \in eof[d])
  /\ (i \in fin_sent'[d]) <=> (i \in fin_sent[d])

\* A step changes no Stream but the one with this id at e.
Only(e, id) == \A d \in Sides, i \in StreamId : d # e \/ i # id => Same(d, i)

\* No frame but a NOP is added, and no order is new.
Thins ==
  \A d \in Sides, g, h \in FrameSet :
    /\ In(Pipes'[d], g) /\ g # Nop => In(Pipes[d], g)
    /\ Before(Pipes'[d], h, g) /\ g # Nop /\ h # Nop => Before(Pipes[d], h, g)

\* The fields of the frames.
LEMMA FrameFields ==
  ASSUME NEW id, NEW c
  PROVE  /\ Syn(id).cmd = "SYN" /\ Syn(id).id = id /\ Syn(id).data = Empty
         /\ Fin(id).cmd = "FIN" /\ Fin(id).id = id /\ Fin(id).data = Empty
         /\ Psh(id, c).cmd = "PSH" /\ Psh(id, c).id = id /\ Psh(id, c).data = c
         /\ Nop.cmd = "NOP" /\ Nop.data = Empty /\ Nop.id = 0
BY DEF Syn, Fin, Psh, Nop, Frame

\* The two ends, and the one of them that opens an id.
LEMMA Ends ==
  ASSUME NEW e \in Sides
  PROVE  /\ Peer(e) \in Sides /\ Peer(e) # e /\ Peer(Peer(e)) = e
         /\ \A d \in Sides : d = e \/ d = Peer(e)
BY DEF Peer, Sides

-----------------------------------------------------------------------------
(* The steps, as seen from the streams.  Each step of Next is one of these   *)
(* moves of the Streams and of the frames on their way.                      *)

\* No Stream changes.
AllSame == \A d \in Sides, i \in StreamId : Same(d, i)

\* Neither the id counters nor the accept channels change.
Steady == UNCHANGED <<next_stream_id, accept_ch>>

\* No send_loop ends.
LinksSame == \A d \in Sides : (send_pc'[d] = "done") <=> (send_pc[d] = "done")

\* All frames but NOPs stay as they are.
Keeps ==
  \A d \in Sides, g, h \in FrameSet :
    /\ g # Nop => (In(Pipes'[d], g) <=> In(Pipes[d], g))
    /\ g # Nop /\ h # Nop => (Before(Pipes'[d], h, g) <=> Before(Pipes[d], h, g))

\* Nothing happens, or a ping is sent.
Idle == AllSame /\ Steady /\ LinksSame /\ Keeps

\* send_loop of e ends.
Exit(e) ==
  /\ AllSame /\ Steady /\ Cuts(e)
  /\ send_pc'[e] = "done"
  /\ \A d \in Sides : d # e => ((send_pc'[d] = "done") <=> (send_pc[d] = "done"))

\* recv_loop of e reads f, which changes no Stream: nothing to do, or data that
\* it waits for tokens with, or loses.
Skip(e, f) ==
  /\ Takes(e, f) /\ AllSame /\ Steady /\ LinksSame
  /\ f.cmd \notin {"SYN", "FIN"}
  /\ f.cmd = "PSH" /\ Size(f.data) > 0 => recv_pc'[e] = "psh"

\* It reads a SYN, a FIN, data for a Stream, or data for none.
SynGot(e, f) ==
  /\ Takes(e, f) /\ Only(e, f.id) /\ LinksSame
  /\ f.cmd = "SYN"
  /\ handle'[e][f.id] = "queued" /\ f.id \in streams'[e]
  /\ f.id \notin is_write_closed'[e]
  /\ data_ch'[e][f.id] = << >> /\ current_chunk'[e][f.id] = Empty
  /\ accept_ch' = [accept_ch EXCEPT ![e] = Append(@, f.id)]
  /\ UNCHANGED <<next_stream_id, sent, got, eof, fin_sent>>

FinGot(e, f) ==
  /\ Takes(e, f) /\ Only(e, f.id) /\ Steady /\ LinksSame
  /\ f.cmd = "FIN" /\ recv_pc[e] = "select"
  /\ f.id \notin streams'[e]
  /\ UNCHANGED <<handle, data_ch, current_chunk, is_write_closed, sent, got, eof,
                 fin_sent>>

PshGot(e, f) ==
  /\ Takes(e, f) /\ Only(e, f.id) /\ Steady /\ LinksSame
  /\ f.cmd = "PSH" /\ Size(f.data) > 0 /\ tokens[e] > 0
  /\ f.id \in streams[e] /\ handle[e][f.id] # "dropped"
  /\ data_ch' = [data_ch EXCEPT ![e][f.id] = Append(@, f.data)]
  /\ UNCHANGED <<handle, streams, current_chunk, is_write_closed, sent, got, eof,
                 fin_sent>>

PshLost(e, f) ==
  /\ Takes(e, f) /\ Only(e, f.id) /\ Steady /\ LinksSame
  /\ f.cmd = "PSH"
  /\ f.id \notin streams[e] \/ handle[e][f.id] = "dropped"
  /\ f.id \notin streams'[e]
  /\ UNCHANGED <<handle, data_ch, current_chunk, is_write_closed, sent, got, eof,
                 fin_sent>>

\* open_stream() fails for want of ids, or makes a Stream, or sends its SYN.
Counted(e) ==
  /\ AllSame /\ LinksSame /\ Keeps
  /\ UNCHANGED accept_ch
  /\ \E n \in StreamId : /\ n % 2 = next_stream_id[e] % 2
                         /\ next_stream_id' = [next_stream_id EXCEPT ![e] = n]

Opened(e, id) ==
  /\ Only(e, id) /\ LinksSame /\ Keeps
  /\ UNCHANGED accept_ch
  /\ id = next_stream_id[e]
  /\ \E n \in StreamId : /\ n % 2 = next_stream_id[e] % 2
                         /\ next_stream_id' = [next_stream_id EXCEPT ![e] = n]
  /\ handle[e][id] = "none" /\ handle'[e][id] = "opening"
  /\ id \in streams'[e] /\ id \notin is_write_closed'[e]
  /\ data_ch'[e][id] = << >> /\ current_chunk'[e][id] = Empty
  /\ UNCHANGED <<sent, got, eof, fin_sent>>

SynPut(e, id) ==
  /\ Only(e, id) /\ Steady /\ LinksSame /\ Puts(e, Syn(id))
  /\ send_pc[e] # "done"
  /\ handle[e][id] = "opening" /\ handle'[e][id] \in {"open", "syn_wait"}
  /\ UNCHANGED <<streams, data_ch, current_chunk, is_write_closed, sent, got, eof,
                 fin_sent>>

\* accept_stream() returns the next Stream.
Accepted(e, id) ==
  /\ Only(e, id) /\ LinksSame /\ Keeps
  /\ accept_ch[e] # << >> /\ id = Head(accept_ch[e])
  /\ accept_ch' = [accept_ch EXCEPT ![e] = Tail(@)]
  /\ handle'[e][id] = "open"
  /\ UNCHANGED <<next_stream_id, streams, data_ch, current_chunk, is_write_closed,
                 sent, got, eof, fin_sent>>

\* A call that waited for room returns.
Resumed(e, id) ==
  /\ Only(e, id) /\ Steady /\ LinksSame /\ Keeps
  /\ handle[e][id] \in {"syn_wait", "closing"} /\ handle'[e][id] = "open"
  /\ UNCHANGED <<streams, data_ch, current_chunk, is_write_closed, sent, got, eof,
                 fin_sent>>

\* poll_read moves data to the application, or returns EOF.
ReadSome(e, id, n) ==
  /\ Only(e, id) /\ Steady /\ LinksSame /\ Keeps
  /\ handle[e][id] = "open"
  /\ \/ /\ n > 0 /\ Size(current_chunk[e][id]) > 0
        /\ CopyOut(e, id, n, current_chunk[e][id])
        /\ UNCHANGED data_ch
     \/ /\ n = 0 \/ Size(current_chunk[e][id]) = 0
        /\ ReadQueue(e, id, n)
  /\ UNCHANGED <<handle, streams, is_write_closed, sent, eof, fin_sent>>

ReadEnd(e, id) ==
  /\ Only(e, id) /\ Steady /\ LinksSame /\ Keeps
  /\ handle[e][id] = "open"
  /\ Size(current_chunk[e][id]) = 0 /\ data_ch[e][id] = << >>
  /\ Disconnected(e, id)
  /\ eof' = [eof EXCEPT ![e] = @ \cup {id}]
  /\ UNCHANGED <<handle, streams, data_ch, current_chunk, is_write_closed, sent, got,
                 fin_sent>>

\* poll_write sends k bytes.
Wrote(e, id, k) ==
  /\ Only(e, id) /\ Steady /\ LinksSame
  /\ Puts(e, Psh(id, [lo |-> sent[e][id], hi |-> sent[e][id] + k]))
  /\ send_pc[e] # "done"
  /\ handle[e][id] = "open" /\ id \notin is_write_closed[e]
  /\ sent' = [sent EXCEPT ![e][id] = @ + k]
  /\ UNCHANGED <<handle, streams, data_ch, current_chunk, is_write_closed, got, eof,
                 fin_sent>>

\* The FIN of id is sent by e, or nothing is.
FinPut(e, id) == Puts(e, Fin(id)) /\ id \in fin_sent'[e] /\ send_pc[e] # "done"
NoFinPut(e, id) == Keeps /\ ((id \in fin_sent'[e]) <=> (id \in fin_sent[e]))

\* poll_shutdown or close() closes the write side; it says so if it can.
Shut(e, id) ==
  /\ Only(e, id) /\ Steady /\ LinksSame
  /\ handle[e][id] = "open" /\ handle'[e][id] \in {"open", "closing"}
  /\ id \notin is_write_closed[e] /\ id \in is_write_closed'[e]
  /\ FinPut(e, id) \/ (NoFinPut(e, id) /\ send_pc[e] = "done")
  /\ is_write_closed' = [is_write_closed EXCEPT ![e] = @ \cup {id}]
  /\ UNCHANGED <<streams, data_ch, current_chunk, sent, got, eof>>

\* close() is cancelled while its FIN waits.
Cancelled(e, id) ==
  /\ Only(e, id) /\ Steady /\ LinksSame /\ Loses(e, Fin(id))
  /\ "cancel" \in AppOps[e]
  /\ handle[e][id] = "closing" /\ handle'[e][id] = "open"
  /\ id \notin fin_sent'[e]
  /\ UNCHANGED <<streams, data_ch, current_chunk, is_write_closed, sent, got, eof>>

\* A Stream is dropped, by the application or by an open_stream() that fails or
\* is cancelled, perhaps with its SYN.
Gone(e, id) ==
  /\ Only(e, id) /\ Steady /\ LinksSame
  /\ handle[e][id] \in {"opening", "syn_wait", "open"} /\ handle'[e][id] = "dropped"
  /\ id \in is_write_closed'[e]
  /\ data_ch'[e][id] = << >> /\ current_chunk'[e][id] = Empty
  /\ \/ FinPut(e, id) /\ id \notin is_write_closed[e] /\ handle[e][id] # "opening"
     \/ NoFinPut(e, id)
     \/ /\ handle[e][id] = "syn_wait" /\ Loses(e, Syn(id))
        /\ (id \in fin_sent'[e]) <=> (id \in fin_sent[e])
  /\ is_write_closed' = [is_write_closed EXCEPT ![e] = @ \cup {id}]
  /\ UNCHANGED <<streams, sent, got, eof>>

\* What a step may be.
Received(e, f) ==
  Skip(e, f) \/ SynGot(e, f) \/ FinGot(e, f) \/ PshGot(e, f) \/ PshLost(e, f)

Used(e, id) ==
  \/ Opened(e, id) \/ SynPut(e, id) \/ Accepted(e, id) \/ Resumed(e, id)
  \/ \E n \in ReadSizes : ReadSome(e, id, n)
  \/ ReadEnd(e, id)
  \/ \E k \in Nat : Wrote(e, id, k)
  \/ Shut(e, id) \/ Cancelled(e, id) \/ Gone(e, id)

Move ==
  \/ Idle
  \/ \E e \in Sides : \/ Exit(e) \/ Counted(e)
                      \/ \E f \in FrameSet : Received(e, f)
                      \/ \E id \in StreamId : Used(e, id)

\* A step with these variables unchanged changes no Stream.
LEMMA AllSameUnchanged ==
  ASSUME UNCHANGED <<handle, streams, data_ch, current_chunk, is_write_closed,
                     sent, got, eof, fin_sent>>
  PROVE  AllSame
BY DEF AllSame, Same

\* A step that leaves the channels alone, or moves a frame, keeps the frames.
LEMMA KeepsUnchanged == UNCHANGED Pipes => Keeps
BY DEF Keeps

\* A step that leaves the transport and the frame channels alone keeps the frames.
LEMMA KeepsChannels == UNCHANGED <<wire, frame_ch>> => Keeps
<1> SUFFICES ASSUME UNCHANGED <<wire, frame_ch>> PROVE Keeps
  OBVIOUS
<1>1. Pipes' = Pipes
  BY DEF Pipes, Pipe
<1> QED
  BY <1>1, KeepsUnchanged

\* Steps of the tasks, the application and the connection that no stream sees.
LEMMA QuietIdle ==
  ASSUME UNCHANGED <<handle, streams, data_ch, current_chunk, is_write_closed,
                     sent, got, eof, fin_sent, next_stream_id, accept_ch>>,
         LinksSame, Keeps
  PROVE  Idle
BY AllSameUnchanged DEF Idle, Steady

\* The steps of recv_loop that handle no frame.
LEMMA RecvQuiet ==
  ASSUME NEW e \in Sides,
         RecvStart(e) \/ RecvSynResume(e) \/ RecvPshClosed(e) \/ RecvExit(e)
  PROVE  Idle
<1>1. UNCHANGED <<handle, streams, data_ch, current_chunk, is_write_closed, send_pc,
                  sent, got, eof, fin_sent, next_stream_id, chanVars>>
  BY DEF RecvStart, RecvSynResume, RecvPshClosed, RecvExit, RecvBreak
<1>2. LinksSame
  BY <1>1 DEF LinksSame
<1> QED
  BY <1>1, <1>2, KeepsChannels, QuietIdle

\* send_loop moves frames from its channel to the transport, or ends.
LEMMA SendLoopMove ==
  ASSUME TypeOK, NEW e \in Sides, SendLoop(e)
  PROVE  Move
<1>0. /\ send_pc \in [Sides -> {"start", "select", "sending", "done"}]
  BY DEF TypeOK, LoopOK
<1>1. UNCHANGED <<handle, streams, data_ch, current_chunk, is_write_closed,
                  sent, got, eof, fin_sent, next_stream_id, accept_ch>>
  BY DEF SendLoop, SendStart, SendFrame, SendResume, SendExit, SendBreak
<1>2. CASE SendStart(e) \/ SendResume(e)
  <2>1. LinksSame
    BY <1>0, <1>2 DEF SendStart, SendResume, LinksSame
  <2>2. Keeps
    BY <1>2, KeepsChannels DEF SendStart, SendResume
  <2> QED
    BY <1>1, <2>1, <2>2, QuietIdle DEF Move
<1>3. CASE SendFrame(e)
  <2>1. LinksSame
    BY <1>0, <1>3 DEF SendFrame, LinksSame
  <2>2. Keeps
    BY <1>3, PipeMoves, KeepsUnchanged
  <2> QED
    BY <1>1, <2>1, <2>2, QuietIdle DEF Move
<1>4. CASE SendExit(e)
  <2>1. Cuts(e)
    BY <1>4, PipeIsCut
  <2>2. send_pc' = [send_pc EXCEPT ![e] = "done"]
    BY <1>4 DEF SendExit, SendBreak
  <2>3. Exit(e)
    BY <1>0, <1>1, <2>1, <2>2, AllSameUnchanged DEF Exit, Steady
  <2> QED
    BY <2>3 DEF Move
<1> QED
  BY <1>2, <1>3, <1>4 DEF SendLoop

\* keep_alive_loop sends nothing but NOPs.
LEMMA KeepAliveMove ==
  ASSUME TypeOK, NEW e \in Sides, KeepAliveLoop(e)
  PROVE  Idle
<1>1. UNCHANGED <<handle, streams, data_ch, current_chunk, is_write_closed, send_pc,
                  sent, got, eof, fin_sent, next_stream_id, accept_ch, wire>>
  BY DEF KeepAliveLoop, KeepStart, KeepPing, PingSent, KeepPingResume, KeepTimeout,
         TimeoutTick, KeepExit
<1>2. LinksSame
  BY <1>1 DEF LinksSame
<1>3. CASE UNCHANGED frame_ch
  BY <1>1, <1>2, <1>3, KeepsChannels, QuietIdle
<1>4. CASE KeepPing(e)
  <2>1. Puts(e, Nop)
    BY <1>1, <1>4, NopType, PipeGrows DEF KeepPing, PingSent
  <2>2. Keeps
    BY <2>1, NopType DEF Puts, Keeps
  <2> QED
    BY <1>1, <1>2, <2>2, QuietIdle
<1> QED
  BY <1>3, <1>4 DEF KeepAliveLoop, KeepStart, KeepPingResume, KeepTimeout,
                    TimeoutTick, KeepExit

\* recv_loop reads a frame.  A SYN is never refused: it comes from the opener,
\* and only if its id is new here.
LEMMA RecvFrameMove ==
  ASSUME TypeOK, Origin, NEW e \in Sides, RecvFrame(e)
  PROVE  Move
<1> DEFINE f == Head(wire[Peer(e)])
           w == Peer(e)
<1>0. f \in FrameSet /\ f.id \in StreamId /\ Size(f.data) \in Nat
  BY ReadFrameType, ChunkSize DEF FrameSet
<1>1. Takes(e, f)
  BY PipeShrinks
<1>2. LinksSame
  BY DEF RecvFrame, LinksSame
<1>3. UNCHANGED <<next_stream_id, sent, got, eof, fin_sent>> /\ HandleFrame(e, f)
  BY DEF RecvFrame
<1>4. /\ handle \in [Sides -> [StreamId -> Handles]]
      /\ data_ch \in [Sides -> [StreamId -> Seq(Chunk)]]
      /\ current_chunk \in [Sides -> [StreamId -> Chunk]]
      /\ is_write_closed \in [Sides -> SUBSET StreamId]
      /\ streams \in [Sides -> SUBSET StreamId]
  BY DEF TypeOK, StreamOK, OpenOK
<1>5. Received(e, f) => Move
  BY <1>0 DEF Move
<1>6. ASSUME f.cmd \notin {"SYN", "FIN"}, UNCHANGED <<accept_ch, streams, streamVars>>,
             f.cmd = "PSH" /\ Size(f.data) > 0 => recv_pc'[e] = "psh"
      PROVE  Skip(e, f)
  BY <1>1, <1>2, <1>3, <1>6, AllSameUnchanged DEF Skip, Steady
<1>7. CASE f.cmd = "SYN" /\ HandleSyn(e, f)
  <2>1. In(Pipes[w], f) /\ w \in Sides /\ w # e
    BY <1>0, <1>1, Ends DEF Takes
  <2>2. Opener(f.id) = w /\ handle[e][f.id] = "none"
    BY <1>0, <1>7, <2>1, Ends DEF Origin, SynIsNews
  <2>3. f.id \notin streams[e]
    BY <1>0, <2>2 DEF Origin, Untouched
  <2>4. f.id # 0
    BY <1>7 DEF RecvFrame, Validate
  <2>5. ValidPeerId(e, f.id)
    BY <1>0, <2>1, <2>2, <2>4 DEF ValidPeerId, Opener, Sides, StreamId
  <2>6. HandleSynNew(e, f, AcceptCap)
    BY <1>7, <2>3, <2>5 DEF HandleSyn
  <2>7. NewStream(e, f.id, "queued") /\ accept_ch' = [accept_ch EXCEPT ![e] = Append(@, f.id)]
    BY <2>6 DEF HandleSynNew
  <2>8. Only(e, f.id)
    BY <1>0, <1>3, <1>4, <2>7 DEF NewStream, Only, Same
  <2>9. /\ handle'[e][f.id] = "queued" /\ f.id \in streams'[e]
        /\ f.id \notin is_write_closed'[e]
        /\ data_ch'[e][f.id] = << >> /\ current_chunk'[e][f.id] = Empty
    BY <1>0, <1>4, <2>7 DEF NewStream
  <2>10. SynGot(e, f)
    BY <1>1, <1>2, <1>3, <1>7, <2>7, <2>8, <2>9 DEF SynGot
  <2> QED
    BY <1>5, <2>10 DEF Received
<1>8. CASE f.cmd = "FIN" /\ HandleFin(e, f)
  <2>1. Only(e, f.id) /\ f.id \notin streams'[e]
    BY <1>0, <1>3, <1>4, <1>8 DEF HandleFin, Only, Same
  <2>2. FinGot(e, f)
    BY <1>1, <1>2, <1>3, <1>8, <2>1 DEF FinGot, HandleFin, Steady, RecvFrame
  <2> QED
    BY <1>5, <2>2 DEF Received
<1>9. CASE f.cmd = "PSH" /\ HandlePsh(e, f)
  <2>1. CASE Size(f.data) = 0 /\ UNCHANGED <<streams, accept_ch, streamVars>>
    BY <1>5, <1>6, <1>9, <2>1 DEF Received
  <2>2. CASE PshWait(e, Size(f.data))
    <3>1. recv_pc'[e] = "psh"
      BY <2>2 DEF PshWait, RecvAwait, TypeOK, LoopOK
    <3> QED
      BY <1>5, <1>6, <1>9, <2>2, <3>1 DEF Received, PshWait
  <2>3. CASE Size(f.data) > 0 /\ tokens[e] > 0 /\ PshDeliver(e, f)
    <3>1. Only(e, f.id)
      BY <1>0, <1>3, <1>4, <2>3 DEF PshDeliver, Only, Same
    <3>2. PshGot(e, f)
      BY <1>1, <1>2, <1>3, <1>9, <2>3, <3>1 DEF PshGot, PshDeliver, Steady
    <3> QED
      BY <1>5, <3>2 DEF Received
  <2>4. CASE /\ f.id \notin streams[e] \/ handle[e][f.id] = "dropped"
             /\ streams' = [streams EXCEPT ![e] = @ \ {f.id}]
             /\ UNCHANGED <<accept_ch, streamVars>>
    <3>1. Only(e, f.id) /\ f.id \notin streams'[e]
      BY <1>0, <1>3, <1>4, <2>4 DEF Only, Same
    <3>2. PshLost(e, f)
      BY <1>1, <1>2, <1>3, <1>9, <2>4, <3>1 DEF PshLost, Steady
    <3> QED
      BY <1>5, <3>2 DEF Received
  <2> QED
    BY <1>9, <2>1, <2>2, <2>3, <2>4 DEF HandlePsh
<1>10. CASE f.cmd \in {"NOP", "UPD"} /\ HandleOther(e, f)
  BY <1>5, <1>6, <1>10 DEF HandleOther, Received
<1> QED
  BY <1>3, <1>7, <1>8, <1>9, <1>10 DEF HandleFrame

\* open_stream() takes an id.
LEMMA OpenStreamMove ==
  ASSUME TypeOK, NEW e \in Sides, OpenStream(e)
  PROVE  Move
<1> DEFINE id == next_stream_id[e]
<1>0. id \in StreamId /\ FetchAdd2(id) \in StreamId /\ FetchAdd2(id) % 2 = id % 2
  BY U32MaxAssumption, CounterStep DEF TypeOK, OpenOK, StreamId, FetchAdd2
<1>1. /\ next_stream_id' = [next_stream_id EXCEPT ![e] = FetchAdd2(id)]
      /\ UNCHANGED <<accept_ch, wire, frame_ch, send_pc, sent, got, eof, fin_sent>>
  BY DEF OpenStream
<1>2. LinksSame /\ Keeps
  BY <1>1, KeepsChannels DEF LinksSame
<1>3. CASE UNCHANGED <<streams, streamVars>>
  <2>1. Counted(e)
    BY <1>0, <1>1, <1>2, <1>3, AllSameUnchanged DEF Counted
  <2> QED
    BY <2>1 DEF Move
<1>4. CASE handle[e][id] = "none" /\ NewStream(e, id, "opening")
  <2>1. Only(e, id)
    BY <1>0, <1>1, <1>4 DEF NewStream, Only, Same, TypeOK, StreamOK, OpenOK
  <2>2. /\ handle'[e][id] = "opening" /\ id \in streams'[e]
        /\ id \notin is_write_closed'[e]
        /\ data_ch'[e][id] = << >> /\ current_chunk'[e][id] = Empty
    BY <1>0, <1>4 DEF NewStream, TypeOK, StreamOK, OpenOK
  <2>3. Opened(e, id)
    BY <1>0, <1>1, <1>2, <1>4, <2>1, <2>2 DEF Opened
  <2> QED
    BY <1>0, <2>3 DEF Move, Used
<1> QED
  BY <1>3, <1>4 DEF OpenStream

\* Dropping a Stream: with its FIN, without, or together with its waiting SYN.
LEMMA DropMove ==
  ASSUME TypeOK, NEW e \in Sides, NEW id \in StreamId,
         \/ /\ handle[e][id] \in {"syn_wait", "open"}
            /\ DropStream(e, id, frame_ch[e])
         \/ /\ handle[e][id] \in {"opening", "syn_wait"} /\ ~Connected(e)
            /\ DropStream(e, id, frame_ch[e])
         \/ /\ handle[e][id] = "syn_wait" /\ Waits(e, Syn(id))
            /\ DropStream(e, id, Withdraw(e, Syn(id))),
         UNCHANGED <<accept_ch, wire, send_pc, streams, next_stream_id, sent, got, eof>>
  PROVE  Move
<1>0. /\ handle \in [Sides -> [StreamId -> Handles]]
      /\ data_ch \in [Sides -> [StreamId -> Seq(Chunk)]]
      /\ current_chunk \in [Sides -> [StreamId -> Chunk]]
      /\ is_write_closed \in [Sides -> SUBSET StreamId]
      /\ fin_sent \in [Sides -> SUBSET StreamId]
      /\ frame_ch \in [Sides -> Seq(FrameSet)]
      /\ Syn(id) \in FrameSet /\ Fin(id) \in FrameSet
  BY FrameType, EmptyType DEF TypeOK, StreamOK, HistOK, ChanOK
<1>1. PICK ch : DropStream(e, id, ch)
  OBVIOUS
<1>2. Only(e, id)
  <2>1. \A d \in Sides, i \in StreamId : d # e \/ i # id =>
          /\ handle'[d][i] = handle[d][i]
          /\ data_ch'[d][i] = data_ch[d][i]
          /\ current_chunk'[d][i] = current_chunk[d][i]
          /\ (i \in is_write_closed'[d]) <=> (i \in is_write_closed[d])
    BY <1>0, <1>1 DEF DropStream, MarkWriteClosed
  <2>2. \A d \in Sides, i \in StreamId : d # e \/ i # id =>
          ((i \in fin_sent'[d]) <=> (i \in fin_sent[d]))
    BY <1>0, <1>1 DEF DropStream
  <2> QED
    BY <2>1, <2>2 DEF Only, Same
<1>3. LinksSame /\ Steady
  BY DEF LinksSame, Steady
<1>4. /\ handle'[e][id] = "dropped" /\ id \in is_write_closed'[e]
      /\ data_ch'[e][id] = << >> /\ current_chunk'[e][id] = Empty
      /\ is_write_closed' = [is_write_closed EXCEPT ![e] = @ \cup {id}]
  BY <1>0, <1>1 DEF DropStream, MarkWriteClosed
<1>5. ASSUME \/ FinPut(e, id) /\ id \notin is_write_closed[e]
                /\ handle[e][id] # "opening"
             \/ NoFinPut(e, id)
             \/ /\ handle[e][id] = "syn_wait" /\ Loses(e, Syn(id))
                /\ (id \in fin_sent'[e]) <=> (id \in fin_sent[e])
      PROVE  Move
  <2>1. Gone(e, id)
    BY <1>2, <1>3, <1>4, <1>5 DEF Gone
  <2> QED
    BY <2>1 DEF Move, Used
<1>6. CASE DropStream(e, id, frame_ch[e])
           /\ (handle[e][id] \in {"syn_wait", "open"} \/ ~Connected(e))
  <2>1. CASE id \notin is_write_closed[e] /\ Connected(e)
             /\ Len(frame_ch[e]) < FrameCap(e)
    <3>1. frame_ch' = [frame_ch EXCEPT ![e] = Append(@, Fin(id))]
      BY <1>6, <2>1 DEF DropStream
    <3>2. Puts(e, Fin(id))
      BY <1>0, <3>1, PipeGrows
    <3>3. id \in fin_sent'[e]
      BY <1>0, <1>6, <2>1 DEF DropStream
    <3> QED
      BY <1>5, <1>6, <2>1, <3>2, <3>3 DEF FinPut, Connected
  <2>2. CASE ~(id \notin is_write_closed[e] /\ Connected(e)
               /\ Len(frame_ch[e]) < FrameCap(e))
    <3>1. frame_ch' = frame_ch /\ fin_sent' = fin_sent
      BY <1>0, <1>6, <2>2 DEF DropStream
    <3> QED
      BY <1>5, <3>1, KeepsChannels DEF NoFinPut
  <2> QED
    BY <2>1, <2>2
<1>7. CASE /\ handle[e][id] = "syn_wait" /\ Waits(e, Syn(id))
           /\ DropStream(e, id, Withdraw(e, Syn(id)))
  <2>1. Len(Withdraw(e, Syn(id))) \in Nat /\ FrameCap(e) \in Nat
    BY <1>7, WithdrawnType, LenProperties, ConfigAssumption DEF FrameCap, ConfigRecord
  <2> DEFINE after == [frame_ch EXCEPT ![e] = Withdraw(e, Syn(id))]
  <2>2. frame_ch' = after => Loses(e, Syn(id))
    BY <1>0, <1>7, PipeLoses
  <2>3. Len(Withdraw(e, Syn(id))) >= FrameCap(e)
    BY <1>7, WithdrawFull
  <2>4. ASSUME NEW c, Len(c) \in Nat, Len(c) >= FrameCap(e), DropStream(e, id, c)
        PROVE  /\ frame_ch' = [frame_ch EXCEPT ![e] = c]
               /\ fin_sent' = [fin_sent EXCEPT ![e] = fin_sent[e]]
    <3>1. ~(Len(c) < FrameCap(e))
      BY <2>1, <2>4
    <3> QED
      BY <2>4, <3>1 DEF DropStream
  <2>5. frame_ch' = after /\ fin_sent' = fin_sent
    <3>1. [fin_sent EXCEPT ![e] = fin_sent[e]] = fin_sent
      BY <1>0
    <3>2. /\ frame_ch' = after
          /\ fin_sent' = [fin_sent EXCEPT ![e] = fin_sent[e]]
      BY <1>7, <2>1, <2>3, <2>4
    <3> QED
      BY <3>1, <3>2
  <2> QED
    BY <1>5, <1>7, <2>2, <2>5
<1> QED
  BY <1>6, <1>7

\* The rest of open_stream(): its SYN is sent, waits, or is withdrawn.
LEMMA OpenCallMove ==
  ASSUME TypeOK, NEW e \in Sides, NEW id \in StreamId,
         OpenStreamSyn(e, id) \/ OpenStreamResume(e, id) \/ OpenStreamCancel(e, id)
  PROVE  Move
<1>0. /\ handle \in [Sides -> [StreamId -> Handles]] /\ Syn(id) \in FrameSet
  BY FrameType, EmptyType DEF TypeOK, StreamOK
<1>1. /\ UNCHANGED <<accept_ch, wire, send_pc, streams, next_stream_id, sent, got, eof>>
      /\ handle[e][id] \in {"opening", "syn_wait"}
  BY DEF OpenStreamSyn, OpenStreamResume, OpenStreamCancel
<1>2. LinksSame /\ Steady
  BY <1>1 DEF LinksSame, Steady
<1>3. CASE /\ handle[e][id] = "opening" /\ Connected(e)
           /\ frame_ch' = [frame_ch EXCEPT ![e] = Append(@, Syn(id))]
           /\ handle' = [handle EXCEPT ![e][id] =
                           IF HasRoom(e) THEN "open" ELSE "syn_wait"]
           /\ UNCHANGED <<data_ch, current_chunk, is_write_closed, fin_sent>>
  <2>1. Puts(e, Syn(id))
    BY <1>0, <1>1, <1>3, PipeGrows
  <2>2. Only(e, id) /\ handle'[e][id] \in {"open", "syn_wait"}
    BY <1>0, <1>1, <1>3 DEF Only, Same
  <2>3. SynPut(e, id)
    BY <1>1, <1>2, <1>3, <2>1, <2>2 DEF SynPut, Connected
  <2> QED
    BY <2>3 DEF Move, Used
<1>4. CASE /\ handle[e][id] = "syn_wait" /\ UNCHANGED frame_ch
           /\ handle' = [handle EXCEPT ![e][id] = "open"]
           /\ UNCHANGED <<data_ch, current_chunk, is_write_closed, fin_sent>>
  <2>1. Only(e, id) /\ handle'[e][id] = "open"
    BY <1>0, <1>1, <1>4 DEF Only, Same
  <2>2. Resumed(e, id)
    BY <1>1, <1>2, <1>4, <2>1, KeepsChannels DEF Resumed
  <2> QED
    BY <2>2 DEF Move, Used
<1>5. CASE ~Connected(e) /\ DropStream(e, id, frame_ch[e])
  BY <1>1, <1>5, DropMove
<1>6. CASE OpenStreamCancel(e, id)
  BY <1>1, <1>6, DropMove DEF OpenStreamCancel
<1> QED
  BY <1>3, <1>4, <1>5, <1>6 DEF OpenStreamSyn, OpenStreamResume

\* accept_stream() takes a Stream from its channel, or nothing.
LEMMA AcceptCallMove ==
  ASSUME TypeOK, NEW e \in Sides, AcceptCall(e)
  PROVE  Move
<1>1. /\ UNCHANGED <<wire, frame_ch, send_pc, streams, next_stream_id, data_ch,
                     current_chunk, is_write_closed, sent, got, eof, fin_sent>>
  BY DEF AcceptCall, AcceptStream, AcceptStreamWait, AcceptStreamTake,
         AcceptStreamClosed
<1>2. LinksSame /\ Keeps
  BY <1>1, KeepsChannels DEF LinksSame
<1>3. CASE AcceptStream(e) \/ AcceptStreamWait(e) \/ AcceptStreamClosed(e)
  <2>1. UNCHANGED <<handle, accept_ch>>
    BY <1>3 DEF AcceptStream, AcceptStreamWait, AcceptStreamClosed
  <2> QED
    BY <1>1, <1>2, <2>1, QuietIdle DEF Move
<1>4. CASE AcceptStreamTake(e)
  <2> DEFINE id == Head(accept_ch[e])
  <2>1. /\ accept_ch[e] # << >> /\ accept_ch' = [accept_ch EXCEPT ![e] = Tail(@)]
        /\ handle' = [handle EXCEPT ![e][id] = "open"]
    BY <1>4 DEF AcceptStreamTake
  <2>2. id \in StreamId
    BY <2>1, HeadTailProperties DEF TypeOK, ChanOK
  <2>3. Only(e, id) /\ handle'[e][id] = "open"
    BY <1>1, <2>1, <2>2 DEF Only, Same, TypeOK, StreamOK
  <2>4. Accepted(e, id)
    BY <1>1, <1>2, <2>1, <2>3 DEF Accepted
  <2> QED
    BY <2>2, <2>4 DEF Move, Used
<1> QED
  BY <1>3, <1>4 DEF AcceptCall

\* The operations on a Stream.
LEMMA StreamStepMove ==
  ASSUME TypeOK, NEW e \in Sides, NEW id \in StreamId, StreamStep(e, id)
  PROVE  Move
<1>0. /\ handle \in [Sides -> [StreamId -> Handles]]
      /\ data_ch \in [Sides -> [StreamId -> Seq(Chunk)]]
      /\ current_chunk \in [Sides -> [StreamId -> Chunk]]
      /\ is_write_closed \in [Sides -> SUBSET StreamId]
      /\ sent \in [Sides -> [StreamId -> Nat]]
      /\ got \in [Sides -> [StreamId -> Seq(Nat)]]
      /\ eof \in [Sides -> SUBSET StreamId]
      /\ fin_sent \in [Sides -> SUBSET StreamId]
      /\ Fin(id) \in FrameSet
  BY FrameType, EmptyType DEF TypeOK, StreamOK, HistOK
<1>1. /\ UNCHANGED <<accept_ch, wire, send_pc, streams, next_stream_id>>
  <2>1. CASE PollIdle(e, id)
    BY <2>1, PollIdleStep DEF PollUnchanged
  <2> QED
    BY <2>1, StreamStepCases
       DEF PollRead, ReadUnchanged, PollReadEof, ReportEof, PollWrite, WritePsh,
           PollShutdown, CloseStream, CloseUnchanged, CloseStreamResume,
           CloseStreamCancel, Drop
<1>2. LinksSame /\ Steady
  BY <1>1 DEF LinksSame, Steady
<1>3. ASSUME NEW n \in ReadSizes, PollRead(e, id, n) PROVE Move
  <2>1. UNCHANGED <<frame_ch, handle, is_write_closed, sent, eof, fin_sent>>
    BY <1>3 DEF PollRead, ReadUnchanged
  <2>2. \A d \in Sides, i \in StreamId : d # e \/ i # id =>
          /\ current_chunk'[d][i] = current_chunk[d][i]
          /\ got'[d][i] = got[d][i] /\ data_ch'[d][i] = data_ch[d][i]
    BY <1>0, <1>3, SMTT(30) DEF PollRead, CopyOut, ReadQueue
  <2>3. Only(e, id)
    BY <1>1, <2>1, <2>2 DEF Only, Same
  <2>4. Keeps
    BY <1>1, <2>1, KeepsChannels
  <2>5. ReadSome(e, id, n)
    BY <1>1, <1>2, <1>3, <2>1, <2>3, <2>4 DEF ReadSome, PollRead, Reading
  <2> QED
    BY <2>5 DEF Move, Used
<1>4. ASSUME NEW n \in ReadSizes, PollReadEof(e, id, n) PROVE Move
  <2>1. /\ UNCHANGED <<frame_ch, handle, data_ch, current_chunk, is_write_closed,
                       sent, got, fin_sent>>
        /\ eof' = [eof EXCEPT ![e] = @ \cup {id}]
    BY <1>4 DEF PollReadEof, ReportEof
  <2>2. Only(e, id)
    BY <1>0, <1>1, <2>1 DEF Only, Same
  <2>3. Keeps
    BY <1>1, <2>1, KeepsChannels
  <2>4. ReadEnd(e, id)
    BY <1>1, <1>2, <1>4, <2>1, <2>2, <2>3 DEF ReadEnd, PollReadEof, Reading
  <2> QED
    BY <2>4 DEF Move, Used
<1>5. ASSUME NEW n \in WriteSizes, PollWrite(e, id, n) PROVE Move
  <2> DEFINE k == WriteSize(e, n)
             f == Psh(id, [lo |-> sent[e][id], hi |-> sent[e][id] + k])
  <2>1. n \in Nat /\ MaxPayload(e) \in Nat
    BY ConfigAssumption, ConfType
  <2>2. k \in Nat
    BY <2>1 DEF WriteSize, Smaller
  <2>3. [lo |-> sent[e][id], hi |-> sent[e][id] + k] \in Chunk
    BY <1>0, <2>2 DEF Chunk
  <2>4. f \in FrameSet
    BY <2>3, FrameType
  <2>5. /\ frame_ch' = [frame_ch EXCEPT ![e] = Append(@, f)]
        /\ sent' = [sent EXCEPT ![e][id] = @ + k]
        /\ UNCHANGED <<handle, data_ch, current_chunk, is_write_closed, got, eof,
                       fin_sent>>
    BY <1>5 DEF PollWrite, WritePsh
  <2> HIDE DEF k
  <2>6. Puts(e, f)
    BY <1>1, <2>4, <2>5, PipeGrows
  <2>7. Only(e, id)
    BY <1>0, <1>1, <2>5 DEF Only, Same
  <2>8. send_pc[e] # "done" /\ handle[e][id] = "open" /\ id \notin is_write_closed[e]
    BY <1>5 DEF PollWrite, WritePsh, Connected, Writing
  <2>9. Wrote(e, id, k)
    BY <1>1, <1>2, <2>5, <2>6, <2>7, <2>8 DEF Wrote
  <2> QED
    BY <2>2, <2>9 DEF Move, Used
<1>6. CASE PollShutdown(e, id) \/ CloseStream(e, id)
  <2>1. /\ handle[e][id] = "open" /\ id \notin is_write_closed[e]
        /\ is_write_closed' = [is_write_closed EXCEPT ![e] = @ \cup {id}]
        /\ UNCHANGED <<data_ch, current_chunk, sent, got, eof>>
    BY <1>6 DEF PollShutdown, CloseStream, Usable, MarkWriteClosed, CloseUnchanged
  <2>2. /\ handle'[e][id] \in {"open", "closing"}
        /\ \A d \in Sides, i \in StreamId : d # e \/ i # id => handle'[d][i] = handle[d][i]
    BY <1>0, <1>6, <2>1 DEF PollShutdown, CloseStream
  <2>3. /\ \A d \in Sides, i \in StreamId : d # e \/ i # id =>
             ((i \in fin_sent'[d]) <=> (i \in fin_sent[d]))
        /\ id \in is_write_closed'[e]
    BY <1>0, <1>6, <2>1 DEF PollShutdown, CloseStream, QueueFin
  <2>4. Only(e, id)
    BY <1>0, <1>1, <2>1, <2>2, <2>3 DEF Only, Same
  <2>5. CASE Connected(e) /\ QueueFin(e, id)
    <3>1. Puts(e, Fin(id)) /\ id \in fin_sent'[e]
      BY <1>0, <1>1, <2>5, PipeGrows DEF QueueFin
    <3>2. FinPut(e, id)
      BY <2>5, <3>1 DEF FinPut, Connected
    <3>3. Shut(e, id)
      BY <1>1, <1>2, <2>1, <2>2, <2>3, <2>4, <3>2 DEF Shut
    <3> QED
      BY <3>3 DEF Move, Used
  <2>6. CASE ~Connected(e) /\ UNCHANGED <<frame_ch, fin_sent>>
    <3>1. NoFinPut(e, id) /\ send_pc[e] = "done"
      BY <1>1, <2>6, KeepsChannels DEF NoFinPut, Connected
    <3>2. Shut(e, id)
      BY <1>1, <1>2, <2>1, <2>2, <2>3, <2>4, <3>1 DEF Shut
    <3> QED
      BY <3>2 DEF Move, Used
  <2> QED
    BY <1>6, <2>5, <2>6 DEF PollShutdown, CloseStream
<1>7. CASE CloseStreamResume(e, id)
  <2>1. /\ handle[e][id] = "closing" /\ handle' = [handle EXCEPT ![e][id] = "open"]
        /\ UNCHANGED <<frame_ch, data_ch, current_chunk, is_write_closed, sent, got,
                       eof, fin_sent>>
    BY <1>7 DEF CloseStreamResume
  <2>2. Only(e, id) /\ handle'[e][id] = "open"
    BY <1>0, <1>1, <2>1 DEF Only, Same
  <2>3. Resumed(e, id)
    BY <1>1, <1>2, <2>1, <2>2, KeepsChannels DEF Resumed
  <2> QED
    BY <2>3 DEF Move, Used
<1>8. CASE CloseStreamCancel(e, id)
  <2>1. /\ handle[e][id] = "closing" /\ handle' = [handle EXCEPT ![e][id] = "open"]
        /\ Waits(e, Fin(id)) /\ "cancel" \in AppOps[e]
        /\ frame_ch' = [frame_ch EXCEPT ![e] = Withdraw(e, Fin(id))]
        /\ fin_sent' = [fin_sent EXCEPT ![e] = @ \ {id}]
        /\ UNCHANGED <<data_ch, current_chunk, is_write_closed, sent, got, eof>>
    BY <1>8 DEF CloseStreamCancel
  <2>2. Only(e, id) /\ handle'[e][id] = "open" /\ id \notin fin_sent'[e]
    BY <1>0, <1>1, <2>1 DEF Only, Same
  <2>3. Loses(e, Fin(id))
    BY <1>0, <1>1, <2>1, PipeLoses
  <2>4. Cancelled(e, id)
    BY <1>1, <1>2, <2>1, <2>2, <2>3 DEF Cancelled
  <2> QED
    BY <2>4 DEF Move, Used
<1>9. CASE Drop(e, id)
  <2>1. /\ handle[e][id] = "open" /\ DropStream(e, id, frame_ch[e])
        /\ UNCHANGED <<accept_ch, wire, send_pc, streams, next_stream_id, sent, got, eof>>
    BY <1>9 DEF Drop, Usable
  <2> QED
    BY <2>1, DropMove
<1>10. CASE PollIdle(e, id)
  <2>1. UNCHANGED <<frame_ch, handle, data_ch, current_chunk, is_write_closed, sent,
                    got, eof, fin_sent>>
    BY <1>10, PollIdleStep DEF PollUnchanged
  <2>2. Keeps
    BY <1>1, <2>1, KeepsChannels
  <2> QED
    BY <1>1, <1>2, <2>1, <2>2, QuietIdle DEF Move
<1> QED
  BY <1>3, <1>4, <1>5, <1>6, <1>7, <1>8, <1>9, <1>10, StreamStepCases

\* Every step is a move.
LEMMA NextMove ==
  ASSUME NoForeign, TypeOK, Origin, [Next]_vars
  PROVE  Move
<1>1. ASSUME UNCHANGED <<handle, streams, data_ch, current_chunk, is_write_closed,
                         sent, got, eof, fin_sent, next_stream_id, accept_ch, send_pc,
                         wire, frame_ch>>
      PROVE  Move
  <2>1. LinksSame /\ Keeps
    BY <1>1, KeepsChannels DEF LinksSame
  <2> QED
    BY <1>1, <2>1, QuietIdle DEF Move
<1>2. CASE UNCHANGED vars
  BY <1>1, <1>2
<1>3. CASE LinkFail
  BY <1>1, <1>3 DEF LinkFail
<1>4. ASSUME NEW e \in Sides, RecvLoop(e) PROVE Move
  BY <1>4, RecvFrameMove, RecvQuiet DEF RecvLoop, Move
<1>5. ASSUME NEW e \in Sides, SendLoop(e) PROVE Move
  BY <1>5, SendLoopMove
<1>6. ASSUME NEW e \in Sides, KeepAliveLoop(e) PROVE Move
  BY <1>6, KeepAliveMove DEF Move
<1>7. ASSUME NEW e \in Sides, OpenCall(e) PROVE Move
  BY <1>7, OpenStreamMove, OpenCallMove DEF OpenCall
<1>8. ASSUME NEW e \in Sides, AcceptCall(e) PROVE Move
  BY <1>8, AcceptCallMove
<1>9. ASSUME NEW e \in Sides, NEW id \in StreamId, StreamStep(e, id) PROVE Move
  BY <1>9, StreamStepMove
<1>10. ASSUME NEW e \in Sides, Close(e) \/ DropSession(e) PROVE Move
  BY <1>1, <1>10 DEF Close, DropSession
<1>11. ASSUME NEW e \in Sides, NEW f \in ForeignFrames[e] PROVE FALSE
  BY <1>11 DEF NoForeign
<1> QED
  BY <1>2, <1>3, <1>4, <1>5, <1>6, <1>7, <1>8, <1>9, <1>10, <1>11 DEF Next
==============================================================================

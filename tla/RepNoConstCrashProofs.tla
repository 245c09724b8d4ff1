----------------------- MODULE RepNoConstCrashProofs -----------------------
(***************************************************************************)
(* Proofs about RepNoConstCrash, for any clients, servers and objects, any *)
(* assignment of clients to servers, any number and size of writes, and    *)
(* any number of processes that are killed and started again.              *)
(***************************************************************************)
EXTENDS RepNoConstCrash, TLAPS, WellFoundedInduction

(* The file helpers on files as the containers use them. *)
LEMMA AppendToType ==
  ASSUME NEW S, NEW file \in Seq(S) \cup {NoFile}, NEW content \in Seq(S)
  PROVE  AppendTo(file, content) \in Seq(S)
BY DEF AppendTo

LEMMA WriteAtStartType ==
  ASSUME NEW S, NEW file \in Seq(S), NEW content \in Seq(S)
  PROVE  WriteAtStart(file, content) \in Seq(S)
<1>1. CASE Len(file) <= Len(content)
  BY <1>1 DEF WriteAtStart
<1>2. CASE ~(Len(file) <= Len(content))
  <2>1. SubSeq(file, Len(content) + 1, Len(file)) \in Seq(S)
    OBVIOUS
  <2> QED
    BY <1>2, <2>1 DEF WriteAtStart
<1> QED
  BY <1>1, <1>2

LEMMA WriteToEmpty ==
  ASSUME NEW S, NEW content \in Seq(S)
  PROVE  WriteAtStart(<<>>, content) = content
BY DEF WriteAtStart

LEMMA ReadBufferType ==
  ASSUME NEW file \in Seq(Chunk), NEW n \in Nat
  PROVE  ReadBuffer(file, n) \in Seq(Chunk \cup {Garbage})
<1>1. \A i \in 1 .. n : (IF i <= Len(file) THEN file[i] ELSE Garbage) \in Chunk \cup {Garbage}
  OBVIOUS
<1> QED
  BY <1>1 DEF ReadBuffer

LEMMA ReadPrefix ==
  ASSUME NEW S, NEW file \in Seq(S), NEW n \in 0 .. Len(file)
  PROVE  ReadBuffer(file, n) = SubSeq(file, 1, n) /\ Len(ReadBuffer(file, n)) = n
<1>1. SubSeq(file, 1, n) \in Seq(S) /\ Len(SubSeq(file, 1, n)) = n
  OBVIOUS
<1>2. \A i \in 1 .. n : SubSeq(file, 1, n)[i] = file[i]
  OBVIOUS
<1>3. ReadBuffer(file, n) = [i \in 1 .. n |-> file[i]]
  BY DEF ReadBuffer
<1>4. [i \in 1 .. n |-> file[i]] \in Seq(S) /\ Len([i \in 1 .. n |-> file[i]]) = n
  OBVIOUS
<1> QED
  BY <1>1, <1>2, <1>3, <1>4

LEMMA PrefixOfLonger ==
  ASSUME NEW S, NEW file \in Seq(S), NEW content \in Seq(S), NEW n \in 0 .. Len(file)
  PROVE  /\ SubSeq(file \o content, 1, n) = SubSeq(file, 1, n)
         /\ n <= Len(file \o content)
OBVIOUS

(* What follows the same is the same. *)
LEMMA SamePrefix ==
  ASSUME NEW S, NEW a \in Seq(S), NEW b \in Seq(S), NEW content \in Seq(S),
         a \o content = b \o content
  PROVE  a = b
<1>1. Len(a) = Len(b)
  <2>1. Len(a \o content) = Len(a) + Len(content) /\ Len(b \o content) = Len(b) + Len(content)
    OBVIOUS
  <2> QED
    BY <2>1
<1>2. ASSUME NEW i \in 1 .. Len(a)
      PROVE  a[i] = b[i]
  <2>1. (a \o content)[i] = a[i] /\ (b \o content)[i] = b[i]
    BY <1>1
  <2> QED
    BY <2>1
<1> QED
  BY <1>1, <1>2

-----------------------------------------------------------------------------
LEMMA LeastOfNaturals ==
  ASSUME NEW S, S \subseteq Nat, S # {}
  PROVE  \E d \in S : \A e \in S : d <= e
<1> DEFINE Less == {ss \in Nat \X Nat : ss[1] < ss[2]}
<1>1. OpToRel(<, Nat) = Less
  BY Zenon DEF OpToRel
<1>2. IsWellFoundedOn(Less, Nat)
  BY <1>1, NatLessThanWellFounded, Zenon
<1>3. \A e, d \in Nat : e < d => <<e, d>> \in Less
  OBVIOUS
<1> HIDE DEF Less
<1>4. \E d \in S : \A e \in S : <<e, d>> \notin Less
  BY <1>2, WFMin
<1>5. PICK d \in S : \A e \in S : <<e, d>> \notin Less
  BY <1>4
<1>6. ASSUME NEW e \in S
      PROVE  d <= e
  <2>1. e \in Nat /\ d \in Nat /\ ~(e < d)
    BY <1>3, <1>5
  <2> QED
    BY <2>1
<1> QED
  BY <1>6

(* Induction up to n, for the set of the numbers that have the property.   *)
LEMMA UpTo ==
  ASSUME NEW n \in Nat, NEW P, 0 \in P,
         \A i \in 0 .. n - 1 : i \in P => i + 1 \in P
  PROVE  \A i \in 0 .. n : i \in P
<1> DEFINE S == {i \in 0 .. n : i \notin P}
<1> SUFFICES ASSUME S # {} PROVE FALSE
  OBVIOUS
<1>0. S \subseteq Nat /\ \A i : i \in S <=> i \in 0 .. n /\ i \notin P
  OBVIOUS
<1> HIDE DEF S
<1>1. PICK d \in S : \A e \in S : d <= e
  BY <1>0, LeastOfNaturals
<1>2. d \in 0 .. n /\ d \notin P /\ d # 0
  BY <1>0
<1>3. d - 1 \in 0 .. n - 1 /\ ~(d <= d - 1)
  BY <1>2
<1>4. d - 1 \in P
  BY <1>0, <1>1, <1>2, <1>3
<1>5. (d - 1) + 1 \in P
  BY <1>3, <1>4
<1> QED
  BY <1>2, <1>5
-----------------------------------------------------------------------------
(* The recursion of ChunksOf, as a function that exists. *)
LEMMA ChunksOfFile ==
  ASSUME NEW c, NEW file \in Seq(Chunk)
  PROVE  \E own :
           /\ own[0] = <<>>
           /\ \A i \in 1 .. Len(file) :
                own[i] = IF file[i].client = c THEN Append(own[i - 1], file[i]) ELSE own[i - 1]
           /\ ChunksOf(c, file) = own[Len(file)]
<1> DEFINE Own(own, n) ==
      own = [i \in 0 .. n |->
               IF i = 0                 THEN <<>>
               ELSE IF file[i].client = c THEN Append(own[i - 1], file[i])
               ELSE own[i - 1]]
<1> DEFINE P == {n \in Nat : \E own : Own(own, n)}
<1>1. 0 \in P
  <2>1. Own([i \in 0 .. 0 |-> <<>>], 0)
    OBVIOUS
  <2> QED
    BY <2>1
<1>2. ASSUME NEW n \in Nat, n \in P
      PROVE  n + 1 \in P
  <2>1. PICK f : Own(f, n)
    BY <1>2
  <2> DEFINE g == [i \in 0 .. n + 1 |->
                     IF i = n + 1
                     THEN IF file[i].client = c THEN Append(f[n], file[i]) ELSE f[n]
                     ELSE f[i]]
  <2>2. Own(g, n + 1)
    <3>1. \A i \in 0 .. n : g[i] = f[i]
      OBVIOUS
    <3>2. \A i \in 0 .. n + 1 :
            g[i] = IF i = 0                 THEN <<>>
                   ELSE IF file[i].client = c THEN Append(g[i - 1], file[i])
                   ELSE g[i - 1]
      <4> SUFFICES ASSUME NEW i \in 0 .. n + 1
                   PROVE  g[i] = IF i = 0                 THEN <<>>
                                 ELSE IF file[i].client = c THEN Append(g[i - 1], file[i])
                                 ELSE g[i - 1]
        OBVIOUS
      <4>1. CASE i = n + 1
        <5>1. g[i] = IF file[i].client = c THEN Append(f[n], file[i]) ELSE f[n]
          BY <4>1
        <5>2. i - 1 = n /\ n \in 0 .. n /\ i # 0
          BY <4>1
        <5> QED
          BY <3>1, <5>1, <5>2
      <4>2. CASE i # n + 1
        <5>1. i \in 0 .. n /\ (i # 0 => i - 1 \in 0 .. n)
          BY <4>2
        <5>2. f[i] = IF i = 0                 THEN <<>>
                     ELSE IF file[i].client = c THEN Append(f[i - 1], file[i])
                     ELSE f[i - 1]
          BY <2>1, <5>1
        <5> QED
          BY <3>1, <5>1, <5>2
      <4> QED
        BY <4>1, <4>2
    <3> HIDE DEF g
    <3>3. g = [i \in 0 .. n + 1 |-> g[i]]
      BY DEF g
    <3> QED
      BY <3>2, <3>3
  <2>3. n + 1 \in Nat
    OBVIOUS
  <2> HIDE DEF Own, g
  <2> QED
    BY <2>2, <2>3
<1>3. Len(file) \in P
  <2>1. Len(file) \in Nat /\ Len(file) \in 0 .. Len(file)
    OBVIOUS
  <2>2. \A i \in 0 .. Len(file) - 1 : i \in Nat
    BY <2>1
  <2> HIDE DEF P
  <2> QED
    BY <1>1, <1>2, <2>1, <2>2, UpTo
<1>4. \E own : Own(own, Len(file))
  BY <1>3
<1>5. Own(CHOOSE own : Own(own, Len(file)), Len(file))
  BY <1>4
<1>6. ChunksOf(c, file) = (CHOOSE own : Own(own, Len(file)))[Len(file)]
  BY CrashAssumption DEF ChunksOf
<1>p. PICK own : own = CHOOSE f : Own(f, Len(file))
  OBVIOUS
<1>7. Own(own, Len(file)) /\ ChunksOf(c, file) = own[Len(file)]
  <2> HIDE DEF Own
  <2> QED
    BY <1>p, <1>5, <1>6
<1>n. Len(file) \in Nat
  OBVIOUS
<1>8. own[0] = <<>>
  BY <1>7, <1>n
<1>9. ASSUME NEW i \in 1 .. Len(file)
      PROVE  own[i] = IF file[i].client = c THEN Append(own[i - 1], file[i]) ELSE own[i - 1]
  <2>1. i \in 0 .. Len(file) /\ i # 0
    BY <1>n
  <2> QED
    BY <1>7, <2>1
<1> HIDE DEF Own
<1> QED
  BY <1>7, <1>8, <1>9

(* The recursion goes on from the end of a file. *)
LEMMA ChunksOfLonger ==
  ASSUME NEW c, NEW file \in Seq(Chunk), NEW content \in Seq(Chunk)
  PROVE  \E g :
           /\ g[0] = ChunksOf(c, file)
           /\ \A i \in 1 .. Len(content) :
                g[i] = IF content[i].client = c THEN Append(g[i - 1], content[i]) ELSE g[i - 1]
           /\ ChunksOf(c, file \o content) = g[Len(content)]
<1>p. PICK longer : longer = file \o content
  OBVIOUS
<1>1. /\ longer \in Seq(Chunk) /\ Len(longer) = Len(file) + Len(content)
      /\ Len(file) \in Nat /\ Len(content) \in Nat
      /\ \A i \in 1 .. Len(file) : longer[i] = file[i]
      /\ \A i \in 1 .. Len(content) : longer[Len(file) + i] = content[i]
  BY <1>p
<1>2. PICK f : /\ f[0] = <<>>
               /\ \A i \in 1 .. Len(file) :
                    f[i] = IF file[i].client = c THEN Append(f[i - 1], file[i]) ELSE f[i - 1]
               /\ ChunksOf(c, file) = f[Len(file)]
  BY ChunksOfFile
<1>0. longer \in Seq(Chunk)
  BY <1>1
<1>3. PICK h : /\ h[0] = <<>>
               /\ \A i \in 1 .. Len(longer) :
                    h[i] = IF longer[i].client = c THEN Append(h[i - 1], longer[i])
                           ELSE h[i - 1]
               /\ ChunksOf(c, longer) = h[Len(longer)]
  BY <1>0, ChunksOfFile
<1>4. \A i \in 0 .. Len(file) : h[i] = f[i]
  <2> DEFINE P == {i \in Nat : i \in 0 .. Len(file) => h[i] = f[i]}
  <2>1. 0 \in P
    BY <1>1, <1>2, <1>3
  <2>2. ASSUME NEW i \in 0 .. Len(file) - 1, i \in P
        PROVE  i + 1 \in P
    <3>1. i + 1 \in 1 .. Len(file) /\ i + 1 \in 1 .. Len(longer) /\ (i + 1) - 1 = i
      BY <1>1
    <3>2. h[i] = f[i]
      BY <1>1, <2>2
    <3>3. longer[i + 1] = file[i + 1]
      BY <1>1, <3>1
    <3>4. /\ h[i + 1] = IF longer[i + 1].client = c THEN Append(h[(i + 1) - 1], longer[i + 1])
                        ELSE h[(i + 1) - 1]
          /\ f[i + 1] = IF file[i + 1].client = c THEN Append(f[(i + 1) - 1], file[i + 1])
                        ELSE f[(i + 1) - 1]
      BY <1>2, <1>3, <3>1
    <3> QED
      BY <3>1, <3>2, <3>3, <3>4
  <2>3. \A i \in 0 .. Len(file) : i \in P
    <3> HIDE DEF P
    <3> QED
      BY <1>1, <2>1, <2>2, UpTo
  <2> QED
    BY <1>1, <2>3
<1> DEFINE g == [i \in 0 .. Len(content) |-> h[Len(file) + i]]
<1>5. g[0] = ChunksOf(c, file) /\ ChunksOf(c, longer) = g[Len(content)]
  <2>1. /\ Len(file) + 0 = Len(file) /\ Len(file) \in 0 .. Len(file)
        /\ 0 \in 0 .. Len(content) /\ Len(content) \in 0 .. Len(content)
    BY <1>1
  <2>2. g[0] = h[Len(file) + 0] /\ g[Len(content)] = h[Len(file) + Len(content)]
    BY <2>1
  <2>3. h[Len(file)] = f[Len(file)]
    BY <1>4, <2>1
  <2>4. ChunksOf(c, longer) = h[Len(file) + Len(content)]
    BY <1>1, <1>3
  <2> HIDE DEF g
  <2> QED
    BY <1>2, <2>1, <2>2, <2>3, <2>4
<1>6. ASSUME NEW i \in 1 .. Len(content)
      PROVE  g[i] = IF content[i].client = c THEN Append(g[i - 1], content[i]) ELSE g[i - 1]
  <2>1. /\ Len(file) + i \in 1 .. Len(longer)
        /\ i \in 0 .. Len(content) /\ i - 1 \in 0 .. Len(content)
        /\ (Len(file) + i) - 1 = Len(file) + (i - 1)
    BY <1>1
  <2>2. g[i] = h[Len(file) + i] /\ g[i - 1] = h[Len(file) + (i - 1)]
    BY <2>1
  <2>3. longer[Len(file) + i] = content[i]
    BY <1>1
  <2>4. h[Len(file) + i] = IF longer[Len(file) + i].client = c
                           THEN Append(h[(Len(file) + i) - 1], longer[Len(file) + i])
                           ELSE h[(Len(file) + i) - 1]
    BY <1>3, <2>1
  <2> HIDE DEF g
  <2> QED
    BY <2>1, <2>2, <2>3, <2>4
<1> HIDE DEF g
<1> QED
  BY <1>p, <1>5, <1>6

LEMMA AppendAssociates ==
  ASSUME NEW a \in Seq(Chunk), NEW b \in Seq(Chunk), NEW e \in Chunk
  PROVE  Append(a \o b, e) = a \o Append(b, e)
<1>1. /\ Append(a \o b, e) \in Seq(Chunk) /\ a \o Append(b, e) \in Seq(Chunk)
      /\ Len(Append(a \o b, e)) = Len(a) + Len(b) + 1
      /\ Len(a \o Append(b, e)) = Len(a) + Len(b) + 1
  OBVIOUS
<1>2. ASSUME NEW i \in 1 .. Len(a) + Len(b) + 1
      PROVE  Append(a \o b, e)[i] = (a \o Append(b, e))[i]
  OBVIOUS
<1> QED
  BY <1>1, <1>2

LEMMA ChunksOfNothing ==
  ASSUME NEW c
  PROVE  ChunksOf(c, <<>>) = <<>> /\ ChunksOf(c, NoFile) = <<>>
<1>1. <<>> \in Seq(Chunk) /\ Len(<<>>) = 0
  OBVIOUS
<1>2. ChunksOf(c, <<>>) = <<>>
  <2>1. PICK e : e = <<>>
    OBVIOUS
  <2>2. e \in Seq(Chunk) /\ Len(e) = 0
    BY <2>1
  <2>3. PICK own :
           /\ own[0] = <<>>
           /\ \A i \in 1 .. Len(e) :
                own[i] = IF e[i].client = c THEN Append(own[i - 1], e[i]) ELSE own[i - 1]
           /\ ChunksOf(c, e) = own[Len(e)]
    BY <2>2, ChunksOfFile
  <2> QED
    BY <2>1, <2>2, <2>3
<1> QED
  BY <1>2 DEF ChunksOf

(* A client's own append is the end of its chunks. *)
LEMMA OwnAppended ==
  ASSUME NEW c, NEW file \in Seq(Chunk) \cup {NoFile}, NEW content \in Seq(Chunk),
         ChunksOf(c, file) \in Seq(Chunk), \A i \in 1 .. Len(content) : content[i].client = c
  PROVE  ChunksOf(c, AppendTo(file, content)) = ChunksOf(c, file) \o content
<1> PICK f \in Seq(Chunk) :
           ChunksOf(c, f) = ChunksOf(c, file) /\ AppendTo(file, content) = f \o content
  <2>1. <<>> \in Seq(Chunk) /\ <<>> \o content = content
    OBVIOUS
  <2> QED
    BY <2>1, ChunksOfNothing DEF AppendTo
<1>1. PICK g : /\ g[0] = ChunksOf(c, f)
               /\ \A i \in 1 .. Len(content) :
                    g[i] = IF content[i].client = c THEN Append(g[i - 1], content[i])
                           ELSE g[i - 1]
               /\ ChunksOf(c, f \o content) = g[Len(content)]
  BY ChunksOfLonger
<1> DEFINE P == {i \in Nat : i \in 0 .. Len(content) =>
                               g[i] = ChunksOf(c, file) \o SubSeq(content, 1, i)}
<1>2. 0 \in P
  BY <1>1
<1>3. ASSUME NEW i \in 0 .. Len(content) - 1, i \in P
      PROVE  i + 1 \in P
  <2>1. i + 1 \in 1 .. Len(content) /\ (i + 1) - 1 = i /\ i \in 0 .. Len(content)
    OBVIOUS
  <2>2. g[i] = ChunksOf(c, file) \o SubSeq(content, 1, i)
    BY <1>3, <2>1
  <2>3. g[i + 1] = Append(g[i], content[i + 1])
    BY <1>1, <2>1
  <2>4. SubSeq(content, 1, i + 1) = Append(SubSeq(content, 1, i), content[i + 1])
    BY <2>1
  <2>5. content[i + 1] \in Chunk /\ SubSeq(content, 1, i) \in Seq(Chunk)
    BY <2>1
  <2>6. PICK a, b, e : /\ a = ChunksOf(c, file) /\ b = SubSeq(content, 1, i)
                       /\ e = content[i + 1]
    OBVIOUS
  <2>7. Append(a \o b, e) = a \o Append(b, e)
    BY <2>5, <2>6, AppendAssociates
  <2>8. g[i + 1] = ChunksOf(c, file) \o SubSeq(content, 1, i + 1)
    BY <2>2, <2>3, <2>4, <2>6, <2>7
  <2>9. i + 1 \in Nat
    OBVIOUS
  <2> QED
    BY <2>8, <2>9
<1>4. \A i \in 0 .. Len(content) : i \in P
  <2>1. Len(content) \in Nat
    OBVIOUS
  <2> HIDE DEF P
  <2> QED
    BY <1>2, <1>3, <2>1, UpTo
<1>5. g[Len(content)] = ChunksOf(c, file) \o content
  <2>1. Len(content) \in 0 .. Len(content) /\ SubSeq(content, 1, Len(content)) = content
    OBVIOUS
  <2> QED
    BY <1>4, <2>1
<1> QED
  BY <1>1, <1>5

(* Another client's append is none of its chunks. *)
LEMMA OtherAppended ==
  ASSUME NEW c, NEW file \in Seq(Chunk) \cup {NoFile}, NEW content \in Seq(Chunk),
         \A i \in 1 .. Len(content) : content[i].client # c
  PROVE  ChunksOf(c, AppendTo(file, content)) = ChunksOf(c, file)
<1> PICK f \in Seq(Chunk) :
           ChunksOf(c, f) = ChunksOf(c, file) /\ AppendTo(file, content) = f \o content
  <2>1. <<>> \in Seq(Chunk) /\ <<>> \o content = content
    OBVIOUS
  <2> QED
    BY <2>1, ChunksOfNothing DEF AppendTo
<1>1. PICK g : /\ g[0] = ChunksOf(c, f)
               /\ \A i \in 1 .. Len(content) :
                    g[i] = IF content[i].client = c THEN Append(g[i - 1], content[i])
                           ELSE g[i - 1]
               /\ ChunksOf(c, f \o content) = g[Len(content)]
  BY ChunksOfLonger
<1> DEFINE P == {i \in Nat : i \in 0 .. Len(content) => g[i] = ChunksOf(c, file)}
<1>2. 0 \in P
  BY <1>1
<1>3. ASSUME NEW i \in 0 .. Len(content) - 1, i \in P
      PROVE  i + 1 \in P
  <2>1. i + 1 \in 1 .. Len(content) /\ (i + 1) - 1 = i /\ i \in 0 .. Len(content)
    OBVIOUS
  <2>2. g[i + 1] = g[i]
    BY <1>1, <2>1
  <2> QED
    BY <1>3, <2>1, <2>2
<1>4. \A i \in 0 .. Len(content) : i \in P
  <2>1. Len(content) \in Nat
    OBVIOUS
  <2> HIDE DEF P
  <2> QED
    BY <1>2, <1>3, <2>1, UpTo
<1> QED
  BY <1>1, <1>4

LEMMA ChunksOfType ==
  ASSUME NEW c, NEW file \in Seq(Chunk) \cup {NoFile}
  PROVE  ChunksOf(c, file) \in Seq(Chunk)
<1>1. CASE file = NoFile
  <2>1. <<>> \in Seq(Chunk)
    OBVIOUS
  <2> QED
    BY <1>1, <2>1, ChunksOfNothing
<1>2. CASE file \in Seq(Chunk)
  <2>1. PICK g : /\ g[0] = <<>>
                 /\ \A i \in 1 .. Len(file) :
                      g[i] = IF file[i].client = c THEN Append(g[i - 1], file[i]) ELSE g[i - 1]
                 /\ ChunksOf(c, file) = g[Len(file)]
    BY <1>2, ChunksOfFile
  <2> DEFINE P == {i \in Nat : i \in 0 .. Len(file) => g[i] \in Seq(Chunk)}
  <2>0. <<>> \in Seq(Chunk) /\ \A f \in Seq(Chunk), e \in Chunk : Append(f, e) \in Seq(Chunk)
    OBVIOUS
  <2>2. 0 \in P
    BY <2>0, <2>1
  <2>3. ASSUME NEW i \in 0 .. Len(file) - 1, i \in P
        PROVE  i + 1 \in P
    <3>1. i + 1 \in 1 .. Len(file) /\ (i + 1) - 1 = i /\ i \in 0 .. Len(file)
          /\ file[i + 1] \in Chunk /\ g[i] \in Seq(Chunk)
      BY <1>2, <2>3
    <3>2. g[i + 1] = IF file[i + 1].client = c THEN Append(g[i], file[i + 1]) ELSE g[i]
      BY <2>1, <3>1
    <3>3. g[i + 1] \in Seq(Chunk)
      BY <2>0, <3>1, <3>2
    <3>4. i + 1 \in Nat
      OBVIOUS
    <3> QED
      BY <3>3, <3>4
  <2>4. \A i \in 0 .. Len(file) : i \in P
    <3>1. Len(file) \in Nat
      BY <1>2
    <3> HIDE DEF P
    <3> QED
      BY <2>2, <2>3, <3>1, UpTo
  <2> QED
    BY <1>2, <2>1, <2>4
<1> QED
  BY <1>1, <1>2
-----------------------------------------------------------------------------
(* The same for the checker's loop. *)
LEMMA ScanFile ==
  ASSUME NEW S, NEW file \in Seq(S)
  PROVE  \E st :
           /\ st[0] = Check!Start
           /\ \A i \in 1 .. Len(file) : st[i] = Check!Token(st[i - 1], file[i])
           /\ Check!Scan(file) = st[Len(file)]
<1> DEFINE Loop(st, n) ==
      st = [i \in 0 .. n |-> IF i = 0 THEN Check!Start ELSE Check!Token(st[i - 1], file[i])]
<1> DEFINE P == {n \in Nat : \E st : Loop(st, n)}
<1>1. 0 \in P
  <2>1. Loop([i \in 0 .. 0 |-> Check!Start], 0)
    OBVIOUS
  <2> QED
    BY <2>1
<1>2. ASSUME NEW n \in Nat, n \in P
      PROVE  n + 1 \in P
  <2>1. PICK f : Loop(f, n)
    BY <1>2
  <2> DEFINE g == [i \in 0 .. n + 1 |->
                     IF i = n + 1 THEN Check!Token(f[n], file[i]) ELSE f[i]]
  <2>2. Loop(g, n + 1)
    <3>1. \A i \in 0 .. n : g[i] = f[i]
      OBVIOUS
    <3>2. \A i \in 0 .. n + 1 :
            g[i] = IF i = 0 THEN Check!Start ELSE Check!Token(g[i - 1], file[i])
      <4> SUFFICES ASSUME NEW i \in 0 .. n + 1
                   PROVE  g[i] = IF i = 0 THEN Check!Start ELSE Check!Token(g[i - 1], file[i])
        OBVIOUS
      <4>1. CASE i = n + 1
        <5>1. g[i] = Check!Token(f[n], file[i])
          BY <4>1
        <5>2. i - 1 = n /\ n \in 0 .. n /\ i # 0
          BY <4>1
        <5> QED
          BY <3>1, <5>1, <5>2
      <4>2. CASE i # n + 1
        <5>1. i \in 0 .. n /\ (i # 0 => i - 1 \in 0 .. n)
          BY <4>2
        <5>2. f[i] = IF i = 0 THEN Check!Start ELSE Check!Token(f[i - 1], file[i])
          BY <2>1, <5>1
        <5> QED
          BY <3>1, <5>1, <5>2
      <4> QED
        BY <4>1, <4>2
    <3> HIDE DEF g
    <3>3. g = [i \in 0 .. n + 1 |-> g[i]]
      BY DEF g
    <3> QED
      BY <3>2, <3>3
  <2>3. n + 1 \in Nat
    OBVIOUS
  <2> HIDE DEF Loop, g
  <2> QED
    BY <2>2, <2>3
<1>3. Len(file) \in P
  <2>1. Len(file) \in Nat /\ Len(file) \in 0 .. Len(file)
    OBVIOUS
  <2>2. \A i \in 0 .. Len(file) - 1 : i \in Nat
    BY <2>1
  <2> HIDE DEF P
  <2> QED
    BY <1>1, <1>2, <2>1, <2>2, UpTo
<1>4. \E st : Loop(st, Len(file))
  BY <1>3
<1>5. Loop(CHOOSE st : Loop(st, Len(file)), Len(file))
  BY <1>4
<1>6. Check!Scan(file) = (CHOOSE st : Loop(st, Len(file)))[Len(file)]
  BY DEF Check!Scan
<1>p. PICK st : st = CHOOSE f : Loop(f, Len(file))
  OBVIOUS
<1>7. Loop(st, Len(file)) /\ Check!Scan(file) = st[Len(file)]
  <2> HIDE DEF Loop
  <2> QED
    BY <1>p, <1>5, <1>6
<1>n. Len(file) \in Nat
  OBVIOUS
<1>8. st[0] = Check!Start
  BY <1>7, <1>n
<1>9. ASSUME NEW i \in 1 .. Len(file)
      PROVE  st[i] = Check!Token(st[i - 1], file[i])
  <2>1. i \in 0 .. Len(file) /\ i # 0
    BY <1>n
  <2> QED
    BY <1>7, <2>1
<1> HIDE DEF Loop
<1> QED
  BY <1>7, <1>8, <1>9

LEMMA ScanLonger ==
  ASSUME NEW file \in Seq(Chunk), NEW content \in Seq(Chunk)
  PROVE  \E g :
           /\ g[0] = Check!Scan(file)
           /\ \A i \in 1 .. Len(content) : g[i] = Check!Token(g[i - 1], content[i])
           /\ Check!Scan(file \o content) = g[Len(content)]
<1>p. PICK longer : longer = file \o content
  OBVIOUS
<1>1. /\ longer \in Seq(Chunk) /\ Len(longer) = Len(file) + Len(content)
      /\ Len(file) \in Nat /\ Len(content) \in Nat
      /\ \A i \in 1 .. Len(file) : longer[i] = file[i]
      /\ \A i \in 1 .. Len(content) : longer[Len(file) + i] = content[i]
  BY <1>p
<1>2. PICK f : /\ f[0] = Check!Start
               /\ \A i \in 1 .. Len(file) : f[i] = Check!Token(f[i - 1], file[i])
               /\ Check!Scan(file) = f[Len(file)]
  BY ScanFile
<1>0. longer \in Seq(Chunk)
  BY <1>1
<1>3. PICK h : /\ h[0] = Check!Start
               /\ \A i \in 1 .. Len(longer) : h[i] = Check!Token(h[i - 1], longer[i])
               /\ Check!Scan(longer) = h[Len(longer)]
  BY <1>0, ScanFile
<1>4. \A i \in 0 .. Len(file) : h[i] = f[i]
  <2> DEFINE P == {i \in Nat : i \in 0 .. Len(file) => h[i] = f[i]}
  <2>1. 0 \in P
    BY <1>1, <1>2, <1>3
  <2>2. ASSUME NEW i \in 0 .. Len(file) - 1, i \in P
        PROVE  i + 1 \in P
    <3>1. i + 1 \in 1 .. Len(file) /\ i + 1 \in 1 .. Len(longer) /\ (i + 1) - 1 = i
      BY <1>1
    <3>2. h[i] = f[i]
      BY <1>1, <2>2
    <3>3. longer[i + 1] = file[i + 1]
      BY <1>1, <3>1
    <3>4. /\ h[i + 1] = Check!Token(h[(i + 1) - 1], longer[i + 1])
          /\ f[i + 1] = Check!Token(f[(i + 1) - 1], file[i + 1])
      BY <1>2, <1>3, <3>1
    <3> QED
      BY <3>1, <3>2, <3>3, <3>4
  <2>3. \A i \in 0 .. Len(file) : i \in P
    <3> HIDE DEF P
    <3> QED
      BY <1>1, <2>1, <2>2, UpTo
  <2> QED
    BY <1>1, <2>3
<1> DEFINE g == [i \in 0 .. Len(content) |-> h[Len(file) + i]]
<1>5. g[0] = Check!Scan(file) /\ Check!Scan(longer) = g[Len(content)]
  <2>1. /\ Len(file) + 0 = Len(file) /\ Len(file) \in 0 .. Len(file)
        /\ 0 \in 0 .. Len(content) /\ Len(content) \in 0 .. Len(content)
    BY <1>1
  <2>2. g[0] = h[Len(file) + 0] /\ g[Len(content)] = h[Len(file) + Len(content)]
    BY <2>1
  <2>3. h[Len(file)] = f[Len(file)]
    BY <1>4, <2>1
  <2>4. Check!Scan(longer) = h[Len(file) + Len(content)]
    BY <1>1, <1>3
  <2> HIDE DEF g
  <2> QED
    BY <1>2, <2>1, <2>2, <2>3, <2>4
<1>6. ASSUME NEW i \in 1 .. Len(content)
      PROVE  g[i] = Check!Token(g[i - 1], content[i])
  <2>1. /\ Len(file) + i \in 1 .. Len(longer)
        /\ i \in 0 .. Len(content) /\ i - 1 \in 0 .. Len(content)
        /\ (Len(file) + i) - 1 = Len(file) + (i - 1)
    BY <1>1
  <2>2. g[i] = h[Len(file) + i] /\ g[i - 1] = h[Len(file) + (i - 1)]
    BY <2>1
  <2>3. longer[Len(file) + i] = content[i]
    BY <1>1
  <2>4. h[Len(file) + i] = Check!Token(h[(Len(file) + i) - 1], longer[Len(file) + i])
    BY <1>3, <2>1
  <2> HIDE DEF g
  <2> QED
    BY <2>1, <2>2, <2>3, <2>4
<1> HIDE DEF g
<1> QED
  BY <1>p, <1>5, <1>6

LEMMA ScanNothing == Check!Scan(<<>>) = Check!Start
<1>1. PICK e : e = <<>>
  OBVIOUS
<1>2. e \in Seq(Chunk) /\ Len(e) = 0
  BY <1>1
<1>3. PICK st : /\ st[0] = Check!Start
                /\ \A i \in 1 .. Len(e) : st[i] = Check!Token(st[i - 1], e[i])
                /\ Check!Scan(e) = st[Len(e)]
  BY <1>2, ScanFile
<1> QED
  BY <1>1, <1>2, <1>3

(* One whole line, with a number higher than those of its writer before.   *)
Line(content, c, n) ==
  content = [i \in 1 .. Len(content) |-> [client |-> c, n |-> n, eol |-> i = Len(content)]]

Between(seen) == [seqno |-> seen, t2 |-> <<>>, printed |-> {}]

Scanned(file) == IF file = NoFile THEN Check!Start ELSE Check!Scan(file)

InLine(seen, c, n, eol) ==
  [seqno |-> seen, t2 |-> IF eol THEN <<>> ELSE <<c, n>>, printed |-> {}]

Seen(seen, c, n) == [h \in DOMAIN seen \cup {c} |-> IF h = c THEN n ELSE seen[h]]

LEMMA OtherToken ==
  ASSUME NEW a, NEW b, NEW d, NEW p
  PROVE  [[seqno |-> a, t2 |-> b, printed |-> p] EXCEPT !.t2 = d]
           = [seqno |-> a, t2 |-> d, printed |-> p]
OBVIOUS

LEMMA FirstOfLine ==
  ASSUME NEW seen, NEW c, NEW n, NEW eol \in BOOLEAN, c # Initial,
         ~(c \in DOMAIN seen /\ seen[c] >= n)
  PROVE  Check!Token(Between(seen), [client |-> c, n |-> n, eol |-> eol])
           = InLine(Seen(seen, c, n), c, n, eol)
<1> PICK x : x = [client |-> c, n |-> n, eol |-> eol]
  OBVIOUS
<1>1. x.client = c /\ x.n = n /\ x.eol = eol
  OBVIOUS
<1>2. Between(seen).t2 = <<>> /\ Between(seen).seqno = seen /\ Between(seen).printed = {}
  BY DEF Between
<1>3. Check!FirstToken(Between(seen), x)
        = [seqno |-> Seen(seen, c, n), t2 |-> <<c, n>>, printed |-> {}]
  BY <1>1, <1>2 DEF Check!FirstToken, Seen
<1>4. Check!Token(Between(seen), x)
        = IF eol THEN [Check!FirstToken(Between(seen), x) EXCEPT !.t2 = <<>>]
          ELSE Check!FirstToken(Between(seen), x)
  BY <1>1, <1>2 DEF Check!Token
<1>p. PICK a, b, d, p : a = Seen(seen, c, n) /\ b = <<c, n>> /\ d = <<>> /\ p = {}
  OBVIOUS
<1>5. [[seqno |-> a, t2 |-> b, printed |-> p] EXCEPT !.t2 = d]
        = [seqno |-> a, t2 |-> d, printed |-> p]
  BY OtherToken
<1>6. CASE eol
  BY <1>p, <1>3, <1>4, <1>5, <1>6 DEF InLine
<1>7. CASE ~eol
  BY <1>3, <1>4, <1>7 DEF InLine
<1> QED
  BY <1>6, <1>7

LEMMA LaterInLine ==
  ASSUME NEW seen, NEW c, NEW n, NEW eol \in BOOLEAN
  PROVE  Check!Token(InLine(seen, c, n, FALSE), [client |-> c, n |-> n, eol |-> eol])
           = InLine(seen, c, n, eol)
<1> PICK x : x = [client |-> c, n |-> n, eol |-> eol]
  OBVIOUS
<1> PICK st : st = InLine(seen, c, n, FALSE)
  OBVIOUS
<1>1. x.client = c /\ x.n = n /\ x.eol = eol
  OBVIOUS
<1>2. st.t2 = <<c, n>> /\ <<c, n>> # <<>>
  BY DEF InLine
<1>3. Check!LaterToken(st, x) = st
  BY <1>1, <1>2 DEF Check!LaterToken
<1>4. Check!Token(st, x) = IF eol THEN [st EXCEPT !.t2 = <<>>] ELSE st
  BY <1>1, <1>2, <1>3 DEF Check!Token
<1>p. PICK a, b, d, p : a = seen /\ b = <<c, n>> /\ d = <<>> /\ p = {}
  OBVIOUS
<1>5. [[seqno |-> a, t2 |-> b, printed |-> p] EXCEPT !.t2 = d]
        = [seqno |-> a, t2 |-> d, printed |-> p]
  BY OtherToken
<1>6. CASE eol
  BY <1>p, <1>4, <1>5, <1>6 DEF InLine
<1>7. CASE ~eol
  BY <1>4, <1>7 DEF InLine
<1> QED
  BY <1>6, <1>7

LEMMA LineOfInitial ==
  ASSUME NEW seen, NEW n, NEW eol \in BOOLEAN
  PROVE  Check!Token(Between(seen), [client |-> Initial, n |-> n, eol |-> eol]) = Between(seen)
<1> PICK x : x = [client |-> Initial, n |-> n, eol |-> eol]
  OBVIOUS
<1>1. x.client = Initial /\ x.eol = eol
  OBVIOUS
<1>2. Between(seen).t2 = <<>>
  BY DEF Between
<1>3. Check!Token(Between(seen), x)
        = IF eol THEN [Between(seen) EXCEPT !.t2 = <<>>] ELSE Between(seen)
  BY <1>1, <1>2 DEF Check!Token
<1>p. PICK a, d, p : a = seen /\ d = <<>> /\ p = {}
  OBVIOUS
<1>4. [[seqno |-> a, t2 |-> d, printed |-> p] EXCEPT !.t2 = d]
        = [seqno |-> a, t2 |-> d, printed |-> p]
  BY OtherToken
<1> QED
  BY <1>p, <1>3, <1>4 DEF Between

LEMMA LineScanned ==
  ASSUME NEW file \in Seq(Chunk) \cup {NoFile}, NEW content \in Seq(Chunk),
         NEW c \in Clients, NEW n \in Nat, NEW seen,
         Line(content, c, n), Scanned(file) = Between(seen),
         c \in DOMAIN seen => seen[c] \in Nat /\ seen[c] < n
  PROVE  \E next :
           /\ Check!Scan(AppendTo(file, content)) = Between(next)
           /\ \A h \in DOMAIN next :
                \/ h = c /\ next[h] \in 0 .. n
                \/ h # c /\ h \in DOMAIN seen /\ next[h] = seen[h]
<1>1. PICK f \in Seq(Chunk) :
           /\ Check!Scan(f) = Between(seen)
           /\ AppendTo(file, content) = f \o content
  <2>1. <<>> \in Seq(Chunk) /\ <<>> \o content = content
    OBVIOUS
  <2> QED
    BY <2>1, ScanNothing DEF AppendTo, Scanned
<1>2. PICK g : /\ g[0] = Check!Scan(f)
               /\ \A i \in 1 .. Len(content) : g[i] = Check!Token(g[i - 1], content[i])
               /\ Check!Scan(f \o content) = g[Len(content)]
  BY ScanLonger
<1>3. PICK k : k = Len(content)
  OBVIOUS
<1>4. k \in Nat /\ k \in 0 .. k
  BY <1>3
<1>5. ASSUME NEW i \in 1 .. k
      PROVE  content[i] = [client |-> c, n |-> n, eol |-> i = k]
  BY <1>3 DEF Line
<1>6. c # Initial
  BY ConfigAssumption
<1> QED
  <2>1. PICK next : next = Seen(seen, c, n)
    OBVIOUS
  <2> DEFINE P == {i \in Nat : i \in 1 .. k => g[i] = InLine(next, c, n, i = k)}
  <2>2. 0 \in P
    OBVIOUS
  <2>3. ASSUME NEW i \in 0 .. k - 1, i \in P
        PROVE  i + 1 \in P
    <3>1. i + 1 \in 1 .. k /\ (i + 1) - 1 = i /\ i \in 0 .. k /\ i + 1 \in Nat /\ i # k
      BY <1>4
    <3>e. PICK eol \in BOOLEAN : eol = (i + 1 = k)
      OBVIOUS
    <3>2. PICK x : x = content[i + 1] /\ x = [client |-> c, n |-> n, eol |-> eol]
      BY <1>5, <3>1, <3>e
    <3>3. g[i + 1] = Check!Token(g[i], x)
      BY <1>2, <1>3, <3>1, <3>2
    <3>4. g[i + 1] = InLine(next, c, n, eol)
      <4>1. CASE i = 0
        <5>1. g[i] = Between(seen)
          BY <1>1, <1>2, <4>1
        <5>2. ~(c \in DOMAIN seen /\ seen[c] >= n)
          OBVIOUS
        <5> QED
          BY <1>6, <2>1, <3>2, <3>3, <5>1, <5>2, FirstOfLine
      <4>2. CASE i # 0
        <5>1. g[i] = InLine(next, c, n, FALSE)
          <6>1. g[i] = InLine(next, c, n, i = k) /\ ~(i = k)
            BY <2>3, <3>1, <4>2
          <6> QED
            BY <6>1 DEF InLine
        <5> QED
          BY <3>2, <3>3, <5>1, LaterInLine
      <4> QED
        BY <4>1, <4>2
    <3> QED
      BY <3>1, <3>4, <3>e
  <2>4. \A i \in 0 .. k : i \in P
    <3> HIDE DEF P
    <3> QED
      BY <1>4, <2>2, <2>3, UpTo
  <2>5. CASE k = 0
    <3>1. g[k] = Between(seen)
      BY <1>1, <1>2, <2>5
    <3>2. \A h \in DOMAIN seen : \/ h = c /\ seen[h] \in 0 .. n
                                 \/ h # c /\ h \in DOMAIN seen /\ seen[h] = seen[h]
      OBVIOUS
    <3> QED
      BY <1>1, <1>2, <1>3, <3>1, <3>2
  <2>6. CASE k # 0
    <3>1. k \in 1 .. k
      BY <1>4, <2>6
    <3>2. g[k] = Between(next)
      BY <1>4, <2>4, <3>1 DEF Between, InLine
    <3>3. \A h \in DOMAIN next : \/ h = c /\ next[h] \in 0 .. n
                                 \/ h # c /\ h \in DOMAIN seen /\ next[h] = seen[h]
      BY <2>1 DEF Seen
    <3> QED
      BY <1>1, <1>2, <1>3, <3>2, <3>3
  <2> QED
    BY <2>5, <2>6
-----------------------------------------------------------------------------
(* The checker finds exactly what it is for: after k tokens it has printed *)
(* nothing when the pairs among them are as Consistent wants them, and     *)
(* then it has, of each client, the number of its last line.               *)
Pair(file, i, j) ==
  IF Check!SameLine(file, i, j)
  THEN file[i].client = file[j].client /\ file[i].n = file[j].n
  ELSE file[i].client = file[j].client /\ file[i].client # Initial
         => file[i].n < file[j].n

ConsistentTo(file, k) == \A i, j \in 1 .. k : i < j => Pair(file, i, j)

LastNumbers(file, k, seen) ==
  /\ \A i \in 1 .. k :
       file[i].client # Initial =>
         file[i].client \in DOMAIN seen /\ file[i].n <= seen[file[i].client]
  /\ \A h \in DOMAIN seen :
       \E i \in 1 .. k : file[i].client = h /\ h # Initial /\ file[i].n = seen[h]

OpenLine(file, k) ==
  IF k = 0 \/ file[k].eol THEN <<>> ELSE <<file[k].client, file[k].n>>

At(seen, t2, printed) == [seqno |-> seen, t2 |-> t2, printed |-> printed]

ScanInv(file, k, st) ==
  \E seen, t2, printed :
    /\ st = At(seen, t2, printed)
    /\ printed = {} <=> ConsistentTo(file, k)
    /\ printed = {} => t2 = OpenLine(file, k) /\ LastNumbers(file, k, seen)

(* Tokens with any names; a line of zeros is one token.                    *)
TokensOf(names) ==
  {x \in [client : names \cup {Initial}, n : Nat, eol : BOOLEAN] :
     x.client = Initial => x.eol = TRUE}

LEMMA ChunksAreTokens == Seq(Chunk) \subseteq Seq(TokensOf(Clients))
<1>1. ASSUME NEW x \in Chunk
      PROVE  x \in TokensOf(Clients)
  <2>1. CASE x \in [client : Clients, n : Nat, eol : BOOLEAN]
    BY <2>1, ConfigAssumption DEF TokensOf
  <2>2. CASE x = Zeros
    <3> PICK b \in BOOLEAN : b = TRUE
      OBVIOUS
    <3>1. x = [client |-> Initial, n |-> 0, eol |-> b]
      BY <2>2 DEF Zeros
    <3> QED
      BY <3>1 DEF TokensOf
  <2> QED
    BY <2>1, <2>2 DEF Chunk
<1>2. Chunk \subseteq TokensOf(Clients)
  BY <1>1
<1>3. ASSUME NEW S, NEW T, S \subseteq T
      PROVE  Seq(S) \subseteq Seq(T)
  BY <1>3
<1> HIDE DEF TokensOf
<1> QED
  BY <1>2, <1>3

LEMMA TokenParts ==
  ASSUME NEW names, NEW x \in TokensOf(names)
  PROVE  /\ x.client \in names \cup {Initial} /\ x.n \in Nat /\ x.eol \in BOOLEAN
         /\ x.client = Initial => x.eol = TRUE
BY DEF TokensOf

LEMMA EndOfLine ==
  \A seen, t2, printed :
    [At(seen, t2, printed) EXCEPT !.t2 = <<>>] = At(seen, <<>>, printed)
<1> TAKE seen, t2, printed
<1> PICK e : e = <<>>
  OBVIOUS
<1>1. [[seqno |-> seen, t2 |-> t2, printed |-> printed] EXCEPT !.t2 = e]
        = [seqno |-> seen, t2 |-> e, printed |-> printed]
  BY OtherToken
<1> QED
  BY <1>1 DEF At

(* The checker's step, by what it knows. *)
After(t2, x) == IF x.eol THEN <<>> ELSE t2

Mixed(t2, printed, x) ==
  IF t2 = <<x.client, x.n>> THEN printed ELSE printed \cup {"Intermingled"}

LEMMA TokenInLine ==
  ASSUME NEW seen, NEW t2, NEW printed, NEW x, t2 # <<>>
  PROVE  Check!Token(At(seen, t2, printed), x)
           = At(seen, After(t2, x), Mixed(t2, printed, x))
<1>1. PICK st : st = At(seen, t2, printed)
  OBVIOUS
<1>2. PICK p : p = Mixed(t2, printed, x)
  OBVIOUS
<1>3. st.t2 = t2 /\ st.printed = printed
  BY <1>1 DEF At
<1>4. Check!LaterToken(st, x) = At(seen, t2, p)
  <2>1. CASE t2 = <<x.client, x.n>>
    BY <1>1, <1>2, <1>3, <2>1 DEF Check!LaterToken, Mixed
  <2>2. CASE t2 # <<x.client, x.n>>
    BY <1>1, <1>2, <1>3, <2>2 DEF Check!LaterToken, At, Mixed
  <2> QED
    BY <2>1, <2>2
<1>5. Check!Token(st, x) = IF x.eol THEN [At(seen, t2, p) EXCEPT !.t2 = <<>>]
                           ELSE At(seen, t2, p)
  BY <1>3, <1>4 DEF Check!Token
<1>6. [At(seen, t2, p) EXCEPT !.t2 = <<>>] = At(seen, <<>>, p)
  BY EndOfLine, Zenon
<1> HIDE DEF At
<1>7. CASE x.eol
  BY <1>1, <1>2, <1>5, <1>6, <1>7 DEF After
<1>8. CASE ~x.eol
  BY <1>1, <1>2, <1>5, <1>8 DEF After
<1> QED
  BY <1>7, <1>8

LEMMA TokenOfZeros ==
  ASSUME NEW seen, NEW printed, NEW x, x.client = Initial, x.eol = TRUE
  PROVE  Check!Token(At(seen, <<>>, printed), x) = At(seen, <<>>, printed)
<1>1. PICK st : st = At(seen, <<>>, printed)
  OBVIOUS
<1>2. st.t2 = <<>>
  BY <1>1 DEF At
<1>3. Check!Token(st, x) = [st EXCEPT !.t2 = <<>>]
  BY <1>2 DEF Check!Token
<1>4. [At(seen, <<>>, printed) EXCEPT !.t2 = <<>>] = At(seen, <<>>, printed)
  BY EndOfLine, Zenon
<1> QED
  BY <1>1, <1>3, <1>4

NotIncreasing(seen, printed, x) ==
  IF x.client \in DOMAIN seen /\ seen[x.client] >= x.n
  THEN printed \cup {"seqno is not increasing"}
  ELSE printed

LEMMA TokenOfNewLine ==
  ASSUME NEW seen, NEW printed, NEW x, x.client # Initial
  PROVE  Check!Token(At(seen, <<>>, printed), x)
           = At(Seen(seen, x.client, x.n), After(<<x.client, x.n>>, x),
                NotIncreasing(seen, printed, x))
<1>1. PICK st : st = At(seen, <<>>, printed)
  OBVIOUS
<1>2. PICK p : p = NotIncreasing(seen, printed, x)
  OBVIOUS
<1>3. PICK a, b : a = Seen(seen, x.client, x.n) /\ b = <<x.client, x.n>>
  OBVIOUS
<1>4. st.t2 = <<>> /\ st.printed = printed /\ st.seqno = seen
  BY <1>1 DEF At
<1>5. Check!FirstToken(st, x) = At(a, b, p)
  BY <1>2, <1>3, <1>4 DEF Check!FirstToken, Seen, At, NotIncreasing
<1>6. Check!Token(st, x) = IF x.eol THEN [At(a, b, p) EXCEPT !.t2 = <<>>] ELSE At(a, b, p)
  BY <1>4, <1>5 DEF Check!Token
<1>7. [At(a, b, p) EXCEPT !.t2 = <<>>] = At(a, <<>>, p)
  BY EndOfLine, Zenon
<1>8. CASE x.eol
  BY <1>1, <1>2, <1>3, <1>6, <1>7, <1>8 DEF After
<1>9. CASE ~x.eol
  BY <1>1, <1>2, <1>3, <1>6, <1>9 DEF After
<1> QED
  BY <1>8, <1>9
LEMMA PrintedStays ==
  ASSUME NEW seen, NEW t2, NEW printed, NEW names, NEW x \in TokensOf(names)
  PROVE  \E a, b, p : Check!Token(At(seen, t2, printed), x) = At(a, b, p) /\ printed \subseteq p
<1>1. CASE t2 # <<>>
  <2>1. Check!Token(At(seen, t2, printed), x) = At(seen, After(t2, x), Mixed(t2, printed, x))
    BY <1>1, TokenInLine
  <2>2. printed \subseteq Mixed(t2, printed, x)
    BY DEF Mixed
  <2> QED
    BY <2>1, <2>2
<1>2. CASE t2 = <<>> /\ x.client = Initial
  <2>1. x.eol = TRUE
    BY <1>2, TokenParts
  <2>2. Check!Token(At(seen, t2, printed), x) = At(seen, <<>>, printed)
    BY <1>2, <2>1, TokenOfZeros
  <2> QED
    BY <2>2
<1>3. CASE t2 = <<>> /\ x.client # Initial
  <2>1. printed \subseteq NotIncreasing(seen, printed, x)
    BY DEF NotIncreasing
  <2> QED
    BY <1>3, <2>1, TokenOfNewLine
<1> QED
  BY <1>1, <1>2, <1>3

(* What one more token has to be like. *)
LEMMA OneMoreToken ==
  ASSUME NEW names, NEW file \in Seq(TokensOf(names)), NEW k \in 0 .. Len(file) - 1
  PROVE  /\ ConsistentTo(file, k + 1)
              <=> ConsistentTo(file, k) /\ \A i \in 1 .. k : Pair(file, i, k + 1)
         /\ k # 0 /\ ~file[k].eol =>
              /\ Pair(file, k, k + 1)
                   <=> file[k].client = file[k + 1].client /\ file[k].n = file[k + 1].n
              /\ ConsistentTo(file, k) /\ Pair(file, k, k + 1)
                   => \A i \in 1 .. k : Pair(file, i, k + 1)
         /\ k = 0 \/ file[k].eol =>
              \A i \in 1 .. k :
                Pair(file, i, k + 1)
                  <=> (file[i].client = file[k + 1].client /\ file[i].client # Initial
                         => file[i].n < file[k + 1].n)
<1>1. ConsistentTo(file, k + 1)
        <=> ConsistentTo(file, k) /\ \A i \in 1 .. k : Pair(file, i, k + 1)
  <2>1. \A i, j \in 1 .. k + 1 :
          i < j <=> (i \in 1 .. k /\ j \in 1 .. k /\ i < j) \/ (j = k + 1 /\ i \in 1 .. k)
    OBVIOUS
  <2>2. 1 .. k \subseteq 1 .. k + 1 /\ k + 1 \in 1 .. k + 1 /\ \A i \in 1 .. k : i < k + 1
    OBVIOUS
  <2> QED
    BY <2>1, <2>2 DEF ConsistentTo
<1>2. ASSUME k # 0, ~file[k].eol
      PROVE  /\ Pair(file, k, k + 1)
                  <=> file[k].client = file[k + 1].client /\ file[k].n = file[k + 1].n
             /\ ConsistentTo(file, k) /\ Pair(file, k, k + 1)
                  => \A i \in 1 .. k : Pair(file, i, k + 1)
  <2>1. Check!SameLine(file, k, k + 1)
    <3>1. \A l \in k .. (k + 1) - 1 : l = k
      OBVIOUS
    <3> QED
      BY <1>2, <3>1 DEF Check!SameLine
  <2>2. Pair(file, k, k + 1)
          <=> file[k].client = file[k + 1].client /\ file[k].n = file[k + 1].n
    BY <2>1 DEF Pair
  <2>3. ASSUME ConsistentTo(file, k), Pair(file, k, k + 1), NEW i \in 1 .. k
        PROVE  Pair(file, i, k + 1)
    <3>1. CASE i = k
      BY <2>3, <3>1
    <3>2. CASE i # k
      <4>1. i < k /\ k \in 1 .. k
        BY <3>2
      <4>2. Pair(file, i, k)
        BY <2>3, <4>1 DEF ConsistentTo
      <4>3. Check!SameLine(file, i, k + 1) <=> Check!SameLine(file, i, k)
        <5>1. \A l \in i .. (k + 1) - 1 : l = k \/ l \in i .. k - 1
          OBVIOUS
        <5>2. \A l \in i .. k - 1 : l \in i .. (k + 1) - 1
          OBVIOUS
        <5> QED
          BY <1>2, <5>1, <5>2 DEF Check!SameLine
      <4>4. file[k].client = file[k + 1].client /\ file[k].n = file[k + 1].n
        BY <2>2, <2>3
      <4> QED
        BY <4>2, <4>3, <4>4 DEF Pair
    <3> QED
      BY <3>1, <3>2
  <2> QED
    BY <2>2, <2>3
<1>3. ASSUME k = 0 \/ file[k].eol, NEW i \in 1 .. k
      PROVE  ~Check!SameLine(file, i, k + 1)
  <2>1. k \in i .. (k + 1) - 1 /\ k # 0
    OBVIOUS
  <2> QED
    BY <1>3, <2>1 DEF Check!SameLine
<1>4. k = 0 \/ file[k].eol =>
        \A i \in 1 .. k :
          Pair(file, i, k + 1)
            <=> (file[i].client = file[k + 1].client /\ file[i].client # Initial
                   => file[i].n < file[k + 1].n)
  BY <1>3 DEF Pair
<1> QED
  BY <1>1, <1>2, <1>4

LEMMA TokenKeepsScanInv ==
  ASSUME NEW names, NEW file \in Seq(TokensOf(names)), NEW k \in 0 .. Len(file) - 1, NEW st, ScanInv(file, k, st)
  PROVE  ScanInv(file, k + 1, Check!Token(st, file[k + 1]))
<1>1. PICK seen, t2, printed :
        /\ st = At(seen, t2, printed)
        /\ printed = {} <=> ConsistentTo(file, k)
        /\ printed = {} => t2 = OpenLine(file, k) /\ LastNumbers(file, k, seen)
  BY DEF ScanInv
<1>2. PICK x \in TokensOf(names) : x = file[k + 1]
  OBVIOUS
<1>3. /\ x.client \in names \cup {Initial} /\ x.n \in Nat /\ x.eol \in BOOLEAN
      /\ x.client = Initial => x.eol = TRUE
  BY TokenParts
<1>4. /\ k \in Nat /\ k + 1 # 0 /\ k + 1 \in 1 .. k + 1
      /\ \A i \in 1 .. k + 1 : i \in 1 .. k \/ i = k + 1
      /\ \A i \in 1 .. k : i \in 1 .. k + 1 /\ file[i] \in TokensOf(names)
  OBVIOUS
<1>n. \A i \in 1 .. k : file[i].n \in Nat
  BY <1>4, TokenParts
<1>5. PICK next : next = IF x.eol THEN <<>> ELSE <<x.client, x.n>>
  OBVIOUS
<1>6. OpenLine(file, k + 1) = next
  BY <1>2, <1>4, <1>5 DEF OpenLine
<1>7. ConsistentTo(file, k + 1)
        <=> ConsistentTo(file, k) /\ \A i \in 1 .. k : Pair(file, i, k + 1)
  BY OneMoreToken
<1>8. CASE printed # {}
  <2>1. PICK a, b, p : Check!Token(st, x) = At(a, b, p) /\ printed \subseteq p
    BY <1>1, PrintedStays
  <2>2. p # {} /\ ~ConsistentTo(file, k + 1)
    BY <1>1, <1>7, <1>8, <2>1
  <2> QED
    BY <1>2, <2>1, <2>2 DEF ScanInv
<1>9. CASE printed = {} /\ k # 0 /\ ~file[k].eol
  <2>1. /\ Pair(file, k, k + 1) <=> file[k].client = x.client /\ file[k].n = x.n
        /\ Pair(file, k, k + 1) => \A i \in 1 .. k : Pair(file, i, k + 1)
    BY <1>1, <1>2, <1>9, OneMoreToken
  <2>o. t2 = <<file[k].client, file[k].n>>
    BY <1>1, <1>9 DEF OpenLine
  <2>n. t2 # <<>>
    <3> PICK pair, y, z : pair = <<y, z>> /\ y = file[k].client /\ z = file[k].n
      OBVIOUS
    <3>1. pair # <<>>
      OBVIOUS
    <3> QED
      BY <2>o, <3>1
  <2>2. t2 = <<file[k].client, file[k].n>> /\ t2 # <<>>
    BY <2>o, <2>n
  <2>3. k \in 1 .. k
    BY <1>4, <1>9
  <2>4. ConsistentTo(file, k + 1) <=> t2 = <<x.client, x.n>>
    BY <1>1, <1>7, <1>9, <2>1, <2>2, <2>3
  <2>5. PICK p : p = Mixed(t2, printed, x)
    OBVIOUS
  <2>6. PICK b : b = After(t2, x)
    OBVIOUS
  <2>7. Check!Token(st, x) = At(seen, b, p)
    <3>1. Check!Token(At(seen, t2, printed), x) = At(seen, After(t2, x), Mixed(t2, printed, x))
      BY <2>n, TokenInLine
    <3> QED
      BY <1>1, <2>5, <2>6, <3>1
  <2>8. p = {} <=> t2 = <<x.client, x.n>>
    BY <1>9, <2>5 DEF Mixed
  <2>9. ASSUME p = {}
        PROVE  b = next /\ LastNumbers(file, k + 1, seen)
    <3>1. x.client = file[k].client /\ x.n = file[k].n /\ b = next
      BY <1>5, <2>2, <2>6, <2>8, <2>9 DEF After
    <3>2. LastNumbers(file, k, seen)
      BY <1>1, <1>9
    <3>3. \A i \in 1 .. k + 1 :
            file[i].client # Initial =>
              file[i].client \in DOMAIN seen /\ file[i].n <= seen[file[i].client]
      BY <1>2, <1>4, <2>3, <3>1, <3>2 DEF LastNumbers
    <3>4. \A h \in DOMAIN seen :
            \E i \in 1 .. k + 1 : file[i].client = h /\ h # Initial /\ file[i].n = seen[h]
      BY <1>4, <3>2 DEF LastNumbers
    <3> QED
      BY <3>1, <3>3, <3>4 DEF LastNumbers
  <2> QED
    BY <1>2, <1>6, <2>4, <2>7, <2>8, <2>9 DEF ScanInv
<1>10. CASE printed = {} /\ (k = 0 \/ file[k].eol)
  <2>1. t2 = <<>> /\ LastNumbers(file, k, seen) /\ ConsistentTo(file, k)
    BY <1>1, <1>10 DEF OpenLine
  <2>2. \A i \in 1 .. k :
          Pair(file, i, k + 1)
            <=> (file[i].client = x.client /\ file[i].client # Initial => file[i].n < x.n)
    BY <1>2, <1>10, OneMoreToken
  <2>3. CASE x.client = Initial
    <3>1. Check!Token(st, x) = At(seen, <<>>, printed)
      BY <1>1, <1>3, <2>1, <2>3, TokenOfZeros
    <3>2. ConsistentTo(file, k + 1) /\ next = <<>>
      BY <1>3, <1>5, <1>7, <2>1, <2>2, <2>3
    <3>3. LastNumbers(file, k + 1, seen)
      BY <1>2, <1>4, <2>1, <2>3 DEF LastNumbers
    <3> QED
      BY <1>2, <1>6, <1>10, <3>1, <3>2, <3>3 DEF ScanInv
  <2>4. CASE x.client # Initial
    <3>1. PICK p : p = NotIncreasing(seen, printed, x)
      OBVIOUS
    <3>2. PICK a : a = Seen(seen, x.client, x.n)
      OBVIOUS
    <3>3. Check!Token(st, x) = At(a, next, p)
      BY <1>1, <1>5, <2>1, <2>4, <3>1, <3>2, TokenOfNewLine DEF After
    <3>4. p = {} <=> ~(x.client \in DOMAIN seen /\ seen[x.client] >= x.n)
      BY <1>10, <3>1 DEF NotIncreasing
    <3>5. p = {} => ConsistentTo(file, k + 1)
      <4> SUFFICES ASSUME p = {}, NEW i \in 1 .. k, file[i].client = x.client
                   PROVE  file[i].n < x.n
        BY <1>7, <2>1, <2>2
      <4>1. x.client \in DOMAIN seen /\ file[i].n <= seen[x.client]
        BY <2>1, <2>4 DEF LastNumbers
      <4>2. seen[x.client] \in Nat
        BY <1>n, <2>1, <4>1 DEF LastNumbers
      <4> QED
        BY <1>3, <1>n, <3>4, <4>1, <4>2
    <3>6. ConsistentTo(file, k + 1) => p = {}
      <4> SUFFICES ASSUME ConsistentTo(file, k + 1), x.client \in DOMAIN seen
                   PROVE  ~(seen[x.client] >= x.n)
        BY <3>4
      <4>1. PICK i \in 1 .. k : file[i].client = x.client /\ file[i].n = seen[x.client]
        BY <2>1 DEF LastNumbers
      <4>2. file[i].n < x.n
        BY <1>7, <2>2, <2>4, <4>1
      <4> QED
        BY <1>3, <1>n, <4>1, <4>2
    <3>7. ASSUME p = {}
          PROVE  LastNumbers(file, k + 1, a)
      <4>1. DOMAIN a = DOMAIN seen \cup {x.client}
        BY <3>2 DEF Seen
      <4>2. a[x.client] = x.n /\ \A h \in DOMAIN seen : h # x.client => a[h] = seen[h]
        BY <3>2 DEF Seen
      <4>3. ASSUME NEW i \in 1 .. k + 1, file[i].client # Initial
            PROVE  file[i].client \in DOMAIN a /\ file[i].n <= a[file[i].client]
        <5>1. CASE i = k + 1
          BY <1>2, <1>3, <4>1, <4>2, <5>1
        <5>2. CASE i # k + 1
          <6>1. i \in 1 .. k
            BY <1>4, <5>2
          <6>2. file[i].client \in DOMAIN seen /\ file[i].n <= seen[file[i].client]
            BY <2>1, <4>3, <6>1 DEF LastNumbers
          <6>3. CASE file[i].client = x.client
            <7>1. file[i].n < x.n
              BY <1>7, <2>2, <2>4, <3>5, <3>7, <6>1, <6>3
            <7> QED
              BY <1>3, <1>n, <4>1, <4>2, <6>1, <6>3, <7>1
          <6>4. CASE file[i].client # x.client
            BY <4>1, <4>2, <6>2, <6>4
          <6> QED
            BY <6>3, <6>4
        <5> QED
          BY <5>1, <5>2
      <4>4. ASSUME NEW h \in DOMAIN a
            PROVE  \E i \in 1 .. k + 1 : file[i].client = h /\ h # Initial /\ file[i].n = a[h]
        <5>1. CASE h = x.client
          BY <1>2, <1>4, <2>4, <4>2, <5>1
        <5>2. CASE h # x.client
          BY <1>4, <2>1, <4>1, <4>2, <4>4, <5>2 DEF LastNumbers
        <5> QED
          BY <5>1, <5>2
      <4> QED
        BY <4>3, <4>4 DEF LastNumbers
    <3> QED
      BY <1>2, <1>6, <3>3, <3>5, <3>6, <3>7 DEF ScanInv
  <2> QED
    BY <2>3, <2>4
<1> QED
  BY <1>8, <1>9, <1>10

(* The loop's variables at the end of a file.                              *)
LEMMA ScannedFile ==
  ASSUME NEW names, NEW file \in Seq(TokensOf(names))
  PROVE  ScanInv(file, Len(file), Check!Scan(file))
<1>1. PICK st : /\ st[0] = Check!Start
                /\ \A i \in 1 .. Len(file) : st[i] = Check!Token(st[i - 1], file[i])
                /\ Check!Scan(file) = st[Len(file)]
  BY ScanFile
<1>2. Len(file) \in Nat
  OBVIOUS
<1> DEFINE P == {k \in Nat : k \in 0 .. Len(file) => ScanInv(file, k, st[k])}
<1>3. 0 \in P
  <2>1. PICK none : none = [h \in {} |-> 0]
    OBVIOUS
  <2>2. Check!Start = At(none, <<>>, {}) /\ DOMAIN none = {}
    BY <2>1 DEF Check!Start, At
  <2>3. 1 .. 0 = {}
    OBVIOUS
  <2>4. LastNumbers(file, 0, none) /\ ConsistentTo(file, 0)
    BY <2>2, <2>3 DEF LastNumbers, ConsistentTo
  <2>5. OpenLine(file, 0) = <<>>
    BY DEF OpenLine
  <2> QED
    BY <1>1, <2>2, <2>4, <2>5 DEF ScanInv
<1>4. ASSUME NEW k \in 0 .. Len(file) - 1, k \in P
      PROVE  k + 1 \in P
  <2>1. k + 1 \in 1 .. Len(file) /\ (k + 1) - 1 = k /\ k \in 0 .. Len(file) /\ k + 1 \in Nat
    BY <1>2
  <2>2. st[k + 1] = Check!Token(st[k], file[k + 1])
    BY <1>1, <2>1
  <2>3. ScanInv(file, k, st[k])
    BY <1>4, <2>1
  <2>4. ScanInv(file, k + 1, st[k + 1])
    BY <2>2, <2>3, TokenKeepsScanInv
  <2> QED
    BY <2>1, <2>4
<1>5. ScanInv(file, Len(file), st[Len(file)])
  <2>1. Len(file) \in 0 .. Len(file)
    BY <1>2
  <2>2. \A k \in 0 .. Len(file) : k \in P
    <3> HIDE DEF P
    <3> QED
      BY <1>2, <1>3, <1>4, UpTo
  <2> QED
    BY <2>1, <2>2
<1> QED
  BY <1>1, <1>5

(* check_integrity prints something for a file exactly when the file has a *)
(* line that mixes writes, or lines of a host that are out of order or     *)
(* doubled: whatever the order and the length of its lines.                *)
THEOREM CheckerFindsInconsistency ==
  ASSUME NEW hosts, NEW file \in Seq(TokensOf(hosts))
  PROVE  Check!Printed(file) = {} <=> Check!Consistent(file)
<1>1. ScanInv(file, Len(file), Check!Scan(file))
  BY ScannedFile
<1>2. PICK seen, t2, printed :
        Check!Scan(file) = At(seen, t2, printed) /\ (printed = {} <=> ConsistentTo(file, Len(file)))
  BY <1>1 DEF ScanInv
<1>3. Check!Printed(file) = printed
  BY <1>2 DEF Check!Printed, At
<1>4. Check!Consistent(file) <=> ConsistentTo(file, Len(file))
  BY DEF Check!Consistent, ConsistentTo, Pair
<1> QED
  BY <1>2, <1>3, <1>4

(* What the checker passes with clients for hosts it passes with the hosts *)
(* when no two of the clients whose tokens the file has share one.         *)
NamesApart(file) ==
  \A i, j \in 1 .. Len(file) :
    file[i].client # Initial /\ file[j].client # Initial
      /\ Host[file[i].client] = Host[file[j].client] => file[i].client = file[j].client

LEMMA NamedTokens ==
  ASSUME NEW file \in Seq(Chunk)
  PROVE  /\ Named(file) \in Seq(TokensOf({Host[c] : c \in Clients}))
         /\ Len(Named(file)) = Len(file)
         /\ \A i \in 1 .. Len(file) :
              /\ Named(file)[i].client = HostOf(file[i].client)
              /\ Named(file)[i].n = file[i].n /\ Named(file)[i].eol = file[i].eol
<1> DEFINE hosts == {Host[c] : c \in Clients}
<1>1. ASSUME NEW i \in 1 .. Len(file)
      PROVE  [client |-> HostOf(file[i].client), n |-> file[i].n, eol |-> file[i].eol]
               \in TokensOf(hosts)
  <2>1. /\ file[i].client \in Clients \cup {Initial} /\ file[i].n \in Nat
        /\ file[i].eol \in BOOLEAN /\ (file[i].client = Initial => file[i].eol = TRUE)
    <3>1. file \in Seq(TokensOf(Clients))
      BY ChunksAreTokens
    <3>2. file[i] \in TokensOf(Clients)
      BY <3>1
    <3> QED
      BY <3>2, TokenParts
  <2>2. /\ HostOf(file[i].client) \in hosts \cup {Initial}
        /\ HostOf(file[i].client) = Initial => file[i].client = Initial
    BY <2>1, CrashAssumption DEF HostOf
  <2> HIDE DEF hosts
  <2> QED
    BY <2>1, <2>2 DEF TokensOf
<1>2. Len(file) \in Nat
  OBVIOUS
<1> HIDE DEF hosts
<1>3. Named(file) = [i \in 1 .. Len(file) |->
        [client |-> HostOf(file[i].client), n |-> file[i].n, eol |-> file[i].eol]]
  BY DEF Named
<1>4. Named(file) \in Seq(TokensOf(hosts)) /\ Len(Named(file)) = Len(file)
  BY <1>1, <1>2, <1>3
<1>5. \A i \in 1 .. Len(file) :
        /\ Named(file)[i].client = HostOf(file[i].client)
        /\ Named(file)[i].n = file[i].n /\ Named(file)[i].eol = file[i].eol
  BY <1>3
<1> QED
  BY <1>4, <1>5, Zenon DEF hosts

LEMMA ConsistentByHost ==
  ASSUME NEW file \in Seq(Chunk), Check!Consistent(file), NamesApart(file)
  PROVE  Check!Consistent(Named(file))
<1>1. /\ Len(Named(file)) = Len(file)
      /\ \A i \in 1 .. Len(file) :
           /\ Named(file)[i].client = HostOf(file[i].client)
           /\ Named(file)[i].n = file[i].n /\ Named(file)[i].eol = file[i].eol
  BY NamedTokens
<1>2. SUFFICES ASSUME NEW i \in 1 .. Len(file), NEW j \in 1 .. Len(file), i < j
               PROVE  IF Check!SameLine(Named(file), i, j)
                      THEN /\ Named(file)[i].client = Named(file)[j].client
                           /\ Named(file)[i].n = Named(file)[j].n
                      ELSE Named(file)[i].client = Named(file)[j].client
                             /\ Named(file)[i].client # Initial
                             => Named(file)[i].n < Named(file)[j].n
  BY <1>1 DEF Check!Consistent
<1>3. Check!SameLine(Named(file), i, j) <=> Check!SameLine(file, i, j)
  <2>1. \A k \in i .. j - 1 : k \in 1 .. Len(file)
    OBVIOUS
  <2> QED
    BY <1>1, <2>1 DEF Check!SameLine
<1>4. IF Check!SameLine(file, i, j)
      THEN file[i].client = file[j].client /\ file[i].n = file[j].n
      ELSE file[i].client = file[j].client /\ file[i].client # Initial
             => file[i].n < file[j].n
  BY <1>2 DEF Check!Consistent
<1>5. ASSUME Named(file)[i].client = Named(file)[j].client, Named(file)[i].client # Initial
      PROVE  file[i].client = file[j].client /\ file[i].client # Initial
  <2>1. file[i].client # Initial /\ file[j].client # Initial
    BY <1>1, <1>5 DEF HostOf
  <2>2. Host[file[i].client] = Host[file[j].client]
    BY <1>1, <1>5, <2>1 DEF HostOf
  <2> QED
    BY <2>1, <2>2 DEF NamesApart
<1>6. CASE Check!SameLine(file, i, j)
  BY <1>1, <1>3, <1>4, <1>6
<1>7. CASE ~Check!SameLine(file, i, j)
  BY <1>1, <1>3, <1>4, <1>5, <1>7
<1> QED
  BY <1>6, <1>7

-----------------------------------------------------------------------------
(* What a step does to requests and files: nothing, the end of a process,  *)
(* or a step of one client's request.                                      *)
dataVars == <<files, pc, op, size, got, rpc, seqno, scenario, early>>

Dies(s) == Die(s) /\ UNCHANGED scenario

StepOf(c) ==
  \/ CallServer(c) \/ CallRefused(c) \/ Answer(c)
  \/ ExecuteHere(c) \/ WriteHere(c) \/ JoinStarted(c)
  \/ \E s \in Servers : ExecuteThere(c, s)

LEMMA HomeType == \A c \in Clients : Home[c] \in Servers
BY ConfigAssumption

LEMMA StepKinds ==
  ASSUME CrashTypeOK, [NextCrash]_crashVars
  PROVE  \/ UNCHANGED dataVars
         \/ \E s \in Servers : Dies(s)
         \/ \E c \in Clients : StepOf(c)
<1> USE DEF dataVars, repVars, boundVars
<1>1. CASE UNCHANGED crashVars
  BY <1>1 DEF crashVars
<1>2. ASSUME NEW s \in Servers, Kill(s) \/ Start(s)
      PROVE  UNCHANGED dataVars \/ Dies(s)
  BY <1>2 DEF Kill, Start, Dies
<1>3. ASSUME NEW s \in Servers, ServerStep(s)
      PROVE  UNCHANGED dataVars \/ Dies(s)
  <2>1. CASE JoinStart(s)
    BY <2>1 DEF JoinStart
  <2>2. CASE JoinRefused(s)
    BY <2>2 DEF JoinRefused, Dies
  <2>3. ASSUME NEW t \in Servers, AddServerDelete(s, t)
        PROVE  UNCHANGED dataVars
    BY <2>3 DEF AddServerDelete
  <2>4. CASE AddServerAssign(s)
    BY <2>4 DEF AddServerAssign
  <2>5. CASE AddServerThrows(s) \/ DoubleDelete(s)
    BY <2>5 DEF AddServerThrows, DoubleDelete, Dies
  <2>6. CASE AddServersDone(s)
    BY <2>6 DEF AddServersDone
  <2> QED
    BY <1>3, <2>1, <2>2, <2>3, <2>4, <2>5, <2>6 DEF ServerStep
<1>4. CASE JoinStep
  <2>0. joiner # Nobody => joiner \in Servers
    BY DEF CrashTypeOK
  <2>1. CASE JoinInsert \/ JoinInsertFails \/ Notified \/ JoinReturn
    BY <2>1 DEF JoinInsert, JoinInsertFails, Notified, JoinReturn
  <2>2. ASSUME NEW t \in Servers, Notify(t)
        PROVE  UNCHANGED dataVars
    BY <2>2 DEF Notify
  <2>3. CASE JoinThrows
    BY <2>0, <2>3 DEF JoinThrows, Dies
  <2>4. CASE MasterDies
    BY <2>0, <2>4 DEF MasterDies, Dies
  <2> QED
    BY <1>4, <2>1, <2>2, <2>3, <2>4 DEF JoinStep
<1>5. ASSUME NEW c \in Clients, HandlerStep(c)
      PROVE  (\E s \in Servers : Dies(s)) \/ StepOf(c)
  <2>1. ASSUME NEW s \in Servers, ThreadThrows(c, s)
        PROVE  Dies(Home[c])
    BY <2>1 DEF ThreadThrows, Dies
  <2>2. CASE ThreadCrashes(c)
    BY <2>2, HomeType DEF ThreadCrashes, Dies
  <2> QED
    BY <1>5, <2>1, <2>2, HomeType DEF HandlerStep, StepOf
<1>6. ASSUME NEW c \in Clients, CallServer(c) \/ CallRefused(c) \/ Answer(c)
      PROVE  StepOf(c)
  BY <1>6 DEF StepOf
<1> QED
  BY <1>1, <1>2, <1>3, <1>4, <1>5, <1>6 DEF NextCrash

(* What is left of the calls when s dies. *)
LEMMA CallsAfterDeath ==
  ASSUME CrashTypeOK, NEW s \in Servers, Dies(s)
  PROVE  /\ rpc' \in [Clients -> [Servers -> {"none", "sent", "truncated", "done", "lost"}]]
         /\ pc' = [c \in Clients |-> IF Home[c] = s /\ pc[c] # "idle" THEN "exited" ELSE pc[c]]
         /\ UNCHANGED <<files, op, size, got, seqno, scenario, early>>
         /\ \A c \in Clients, t \in Servers :
              /\ rpc'[c][t] \in {rpc[c][t], "none", "lost"}
              /\ rpc[c][t] = "none" => rpc'[c][t] = "none"
              /\ Home[c] # s => rpc'[c][t] \in {rpc[c][t], "lost"}
<1>1. /\ pc' = [c \in Clients |-> IF Home[c] = s /\ pc[c] # "idle" THEN "exited" ELSE pc[c]]
      /\ UNCHANGED <<files, op, size, got, seqno, scenario, early>>
  BY DEF Dies, Die
<1>2. PICK cut \in SUBSET {d \in Clients \X Servers :
                     rpc[d[1]][d[2]] = "sent" /\ s \in {Home[d[1]], d[2]}} :
        rpc' = [c \in Clients |-> [t \in Servers |-> RpcAfter(s, c, t, cut)]]
  BY DEF Dies, Die
<1>3. ASSUME NEW c \in Clients, NEW t \in Servers
      PROVE  /\ rpc'[c][t] \in {rpc[c][t], "none", "lost"}
             /\ rpc[c][t] = "none" => rpc'[c][t] = "none"
             /\ Home[c] # s => rpc'[c][t] \in {rpc[c][t], "lost"}
  <2>1. rpc'[c][t] = RpcAfter(s, c, t, cut)
    BY <1>2
  <2>2. <<c, t>> \in cut => rpc[c][t] = "sent"
    BY <1>2
  <2> QED
    BY <2>1, <2>2 DEF RpcAfter
<1>4. rpc' \in [Clients -> [Servers -> {"none", "sent", "truncated", "done", "lost"}]]
  <2>1. \A c \in Clients, t \in Servers :
          RpcAfter(s, c, t, cut) \in {"none", "sent", "truncated", "done", "lost"}
    BY DEF RpcAfter, CrashTypeOK
  <2> QED
    BY <1>2, <2>1
<1> QED
  BY <1>1, <1>3, <1>4
-----------------------------------------------------------------------------
(* CrashTypeOK of the requests and files. *)
RequestType ==
  /\ files \in [Servers -> [Objects -> Seq(Chunk) \cup {NoFile}]]
  /\ pc \in [Clients -> {"idle", "called", "sized", "truncated", "sent", "done",
                         "exited"}]
  /\ op \in [Clients -> [kind : {"Get", "Put", "Append"}, obj : Objects,
                         content : Seq(Chunk)]]
  /\ size \in [Clients -> Nat] /\ seqno \in [Clients -> Nat]
  /\ got \in [Clients -> Seq(Chunk \cup {Garbage}) \cup {NoFile}]
  /\ rpc \in [Clients -> [Servers -> {"none", "sent", "truncated", "done", "lost"}]]
  /\ \A c \in Clients : rpc[c][Home[c]] = "none"
  /\ scenario \in Scenarios /\ early \subseteq Clients

(* ... and of the server processes and the master. *)
ServerType ==
  /\ kills \in Nat /\ starts \in Nat
  /\ state \in [Servers -> {"serving", "dead", "active", "joining", "adding"}]
  /\ proxy \in [Servers -> [Servers -> {"none", "null", "ok", "freed"}]]
  /\ \A s \in Servers : proxy[s][s] = "none"
  /\ dangling \subseteq Clients \X Servers
  /\ todo \in [Servers -> SUBSET Servers]
  /\ adding \in [Servers -> Servers \cup {Nobody}]
  /\ master_up \in BOOLEAN /\ entry \in [Servers -> {"ok", "freed"}]
  /\ {joiner, notifying} \subseteq Servers \cup {Nobody}
  /\ tell \subseteq Servers

LEMMA TypeParts == CrashTypeOK <=> RequestType /\ ServerType
BY DEF CrashTypeOK, RequestType, ServerType

LEMMA SetFileEffect ==
  ASSUME RequestType, NEW s \in Servers, NEW o \in Objects, NEW content,
         SetFile(s, o, content)
  PROVE  /\ files'[s][o] = content
         /\ \A t \in Servers, p \in Objects : t # s \/ p # o => files'[t][p] = files[t][p]
         /\ content \in Seq(Chunk) =>
              files' \in [Servers -> [Objects -> Seq(Chunk) \cup {NoFile}]]
BY DEF RequestType, SetFile

LEMMA GotoEffect ==
  ASSUME RequestType, NEW c \in Clients, NEW from, NEW to, Goto(c, from, to)
  PROVE  /\ pc[c] = from /\ pc'[c] = to
         /\ \A d \in Clients \ {c} : pc'[d] = pc[d]
         /\ to \in {"idle", "called", "sized", "truncated", "sent", "done", "exited"} =>
              pc' \in [Clients -> {"idle", "called", "sized", "truncated", "sent", "done",
                                   "exited"}]
BY DEF RequestType, Goto

LEMMA SetRpcEffect ==
  ASSUME RequestType, NEW c \in Clients, NEW s \in Servers, NEW from, NEW to,
         SetRpc(c, s, from, to)
  PROVE  /\ rpc[c][s] = from /\ rpc'[c][s] = to
         /\ \A d \in Clients, t \in Servers : d # c \/ t # s => rpc'[d][t] = rpc[d][t]
         /\ to \in {"none", "sent", "truncated", "done", "lost"} =>
              rpc' \in [Clients -> [Servers -> {"none", "sent", "truncated", "done", "lost"}]]
BY DEF RequestType, SetRpc

(* The file that a write finds at a server. *)
LEMMA FileType ==
  ASSUME RequestType, NEW c \in Clients, NEW s \in Servers
  PROVE  /\ op[c].obj \in Objects /\ op[c].content \in Seq(Chunk)
         /\ files[s][op[c].obj] \in Seq(Chunk) \cup {NoFile}
BY DEF RequestType

LEMMA HomeFileType ==
  ASSUME RequestType, NEW c \in Clients
  PROVE  /\ op[c].obj \in Objects /\ op[c].content \in Seq(Chunk)
         /\ HomeFile(c) \in Seq(Chunk) \cup {NoFile} /\ Home[c] \in Servers
BY HomeType, FileType DEF HomeFile

LEMMA WriteType ==
  ASSUME RequestType, NEW c \in Clients, NEW k \in Sizes
  PROVE  /\ Write(c, k) \in Seq(Chunk) /\ Len(Write(c, k)) = k
         /\ Write(c, k) = [i \in 1 .. k |-> [client |-> c, n |-> seqno[c], eol |-> i = k]]
<1>1. k \in Nat
  BY ConfigAssumption
<1>2. \A i \in 1 .. k : [client |-> c, n |-> seqno[c], eol |-> i = k] \in Chunk
  BY DEF RequestType, Chunk
<1> QED
  BY <1>1, <1>2 DEF Write

(* What a call makes of a client's request. *)
LEMMA CallEffect ==
  ASSUME RequestType, NEW c \in Clients, CallServer(c)
  PROVE  /\ pc[c] = "idle" /\ pc' = [pc EXCEPT ![c] = "called"]
         /\ UNCHANGED <<files, size, got, rpc, scenario, early>>
         /\ \E o \in Objects, kind \in scenario.kinds[c], content \in Seq(Chunk) :
              /\ op' = [op EXCEPT ![c] = [kind |-> kind, obj |-> o, content |-> content]]
              /\ \/ /\ kind = "Get" /\ content = <<>>
                    /\ seqno' = seqno
                 \/ /\ kind \in {"Put", "Append"}
                    /\ content = Tokens(c, seqno'[c] - 1, Len(content))
                    /\ seqno' = [seqno EXCEPT ![c] = @ + 1]
<1>0. op'[c].kind \in scenario.kinds[c] /\ op \in [Clients -> [kind : {"Get", "Put", "Append"},
        obj : Objects, content : Seq(Chunk)]] /\ seqno \in [Clients -> Nat]
  BY DEF CallServer, RequestType
<1>1. PICK o \in Objects : \/ CallGet(c, o)
                           \/ \E kind \in {"Put", "Append"}, k \in Sizes :
                                CallWrite(c, o, kind, k)
  BY DEF CallServer, Call
<1>2. CASE CallGet(c, o)
  <2>1. op' = [op EXCEPT ![c] = [kind |-> "Get", obj |-> o, content |-> <<>>]]
        /\ seqno' = seqno
    BY <1>2 DEF CallGet
  <2>2. "Get" \in scenario.kinds[c]
    BY <1>0, <2>1
  <2>3. <<>> \in Seq(Chunk)
    OBVIOUS
  <2>4. /\ pc[c] = "idle" /\ pc' = [pc EXCEPT ![c] = "called"]
        /\ UNCHANGED <<files, size, got, rpc, scenario, early>>
    BY <1>2 DEF CallGet, Goto, CallServer, boundVars
  <2> QED
    BY <2>1, <2>2, <2>3, <2>4
<1>3. ASSUME NEW kind \in {"Put", "Append"}, NEW k \in Sizes, CallWrite(c, o, kind, k)
      PROVE  \E w \in Seq(Chunk) :
               /\ op' = [op EXCEPT ![c] = [kind |-> kind, obj |-> o, content |-> w]]
               /\ kind \in scenario.kinds[c]
               /\ w = Tokens(c, seqno'[c] - 1, Len(w))
               /\ seqno' = [seqno EXCEPT ![c] = @ + 1]
               /\ pc[c] = "idle" /\ pc' = [pc EXCEPT ![c] = "called"]
               /\ UNCHANGED <<files, size, got, rpc, scenario, early>>
  <2>0. PICK w : w = Write(c, k)
    OBVIOUS
  <2>1. /\ op' = [op EXCEPT ![c] = [kind |-> kind, obj |-> o, content |-> w]]
        /\ seqno' = [seqno EXCEPT ![c] = @ + 1]
        /\ pc[c] = "idle" /\ pc' = [pc EXCEPT ![c] = "called"]
        /\ UNCHANGED <<files, size, got, rpc, scenario, early>>
    BY <1>3, <2>0 DEF CallWrite, Goto, CallServer, boundVars
  <2>2. kind \in scenario.kinds[c]
    BY <1>0, <2>1
  <2>3. PICK n \in Nat : n = seqno[c] /\ seqno'[c] - 1 = n
    BY <1>0, <2>1
  <2>4. w \in Seq(Chunk) /\ Len(w) = k
        /\ w = [i \in 1 .. k |-> [client |-> c, n |-> n, eol |-> i = k]]
    BY <2>0, <2>3, WriteType
  <2>5. w = Tokens(c, seqno'[c] - 1, Len(w))
    BY <2>3, <2>4 DEF Tokens
  <2> QED
    BY <2>1, <2>2, <2>4, <2>5
<1> QED
  BY <1>1, <1>2, <1>3

(* ... and a write what of its threads. *)
LEMMA StartEffect ==
  ASSUME RequestType, ServerType, NEW c \in Clients, StartThreadsToEntries(c)
  PROVE  /\ rpc' \in [Clients -> [Servers -> {"none", "sent", "truncated", "done", "lost"}]]
         /\ rpc'[c][Home[c]] = "none"
         /\ \A s \in Servers : rpc'[c][s] \in {"none", "sent", "lost"}
         /\ \A d \in Clients \ {c} : rpc'[d] = rpc[d]
         /\ dangling' \subseteq Clients \X Servers
         /\ early \subseteq early' /\ early' \subseteq early \cup {c}
         /\ c \notin early' => state[Home[c]] = "serving"
         /\ \A s \in Servers : rpc'[c][s] = CASE proxy[Home[c]][s] = "none" -> "none"
                                              [] proxy[Home[c]][s] = "null" -> "lost"
                                              [] OTHER -> "sent"
<1>1. PICK h \in Servers : h = Home[c]
  BY HomeType
<1>2. PICK e : e = proxy[h]
  OBVIOUS
<1>3. e \in [Servers -> {"none", "null", "ok", "freed"}] /\ e[h] = "none"
  BY <1>2 DEF ServerType
<1>4. rpc' = [rpc EXCEPT ![c] =
       [s \in Servers |-> CASE e[s] = "none" -> "none"
                            [] e[s] = "null" -> "lost"
                            [] OTHER -> "sent"]]
  BY <1>1, <1>2 DEF StartThreadsToEntries
<1>5. \A s \in Servers : (CASE e[s] = "none" -> "none"
                            [] e[s] = "null" -> "lost"
                            [] OTHER -> "sent") \in {"none", "sent", "lost"}
  OBVIOUS
<1>6. /\ rpc' \in [Clients -> [Servers -> {"none", "sent", "truncated", "done", "lost"}]]
      /\ \A d \in Clients \ {c} : rpc'[d] = rpc[d]
      /\ \A s \in Servers : rpc'[c][s] = CASE e[s] = "none" -> "none"
                                           [] e[s] = "null" -> "lost"
                                           [] OTHER -> "sent"
  BY <1>4, <1>5 DEF RequestType
<1>7. dangling' \subseteq Clients \X Servers
  BY DEF StartThreadsToEntries, ServerType
<1>8. /\ early \subseteq early' /\ early' \subseteq early \cup {c}
      /\ c \notin early' => state[Home[c]] = "serving"
  BY DEF StartThreadsToEntries
<1> QED
  BY <1>1, <1>2, <1>3, <1>5, <1>6, <1>7, <1>8

(* A step of one client's request leaves the requests of the others alone. *)
LEMMA OthersKeep ==
  ASSUME RequestType, ServerType, NEW c \in Clients, StepOf(c)
  PROVE  /\ \A d \in Clients \ {c} :
              /\ pc'[d] = pc[d] /\ op'[d] = op[d] /\ size'[d] = size[d]
              /\ got'[d] = got[d] /\ seqno'[d] = seqno[d]
              /\ \A t \in Servers : rpc'[d][t] = rpc[d][t]
         /\ scenario' = scenario
         /\ early \subseteq early' /\ early' \subseteq early \cup {c}
<1> USE DEF RequestType, boundVars
<1>1. CASE CallServer(c)
  BY <1>1, CallEffect
<1>2. CASE CallRefused(c) \/ Answer(c) \/ ExecuteHere(c) \/ JoinStarted(c)
  BY <1>2 DEF CallRefused, Answer, Reply, ExecuteHere, ReadSize, ReadFails, ReadData,
              LocalTruncate, JoinStarted, Goto
<1>3. CASE WriteHere(c)
  <2>1. UNCHANGED <<op, size, got, seqno, scenario>> /\ \A d \in Clients \ {c} : pc'[d] = pc[d]
    BY <1>3 DEF WriteHere, Goto
  <2>2. StartThreadsToEntries(c)
    BY <1>3 DEF WriteHere
  <2> QED
    BY <2>1, <2>2, StartEffect
<1>4. ASSUME NEW s \in Servers, ExecuteThere(c, s)
      PROVE  /\ UNCHANGED <<pc, op, size, got, seqno, scenario, early>>
             /\ \A d \in Clients \ {c}, t \in Servers : rpc'[d][t] = rpc[d][t]
  BY <1>4 DEF ExecuteThere, PeerTruncate, PeerWrite, PeerAppend, SetRpc
<1> QED
  BY <1>1, <1>2, <1>3, <1>4 DEF StepOf

(* The effect of a step on files and calls, as far as the types go.        *)
OnlyWrites ==
  /\ files' \in [Servers -> [Objects -> Seq(Chunk) \cup {NoFile}]]
  /\ \A s \in Servers, o \in Objects :
       files'[s][o] = files[s][o] \/ files'[s][o] \in Seq(Chunk)

LEMMA SetFileWrites ==
  ASSUME RequestType, NEW s \in Servers, NEW o \in Objects, NEW content \in Seq(Chunk),
         SetFile(s, o, content)
  PROVE  OnlyWrites
BY SetFileEffect DEF OnlyWrites

LEMMA StepWrites ==
  ASSUME RequestType, ServerType, NEW c \in Clients, RequestInv(c), StepOf(c)
  PROVE  OnlyWrites
<1>0. files' = files => OnlyWrites
  BY DEF OnlyWrites, RequestType
<1>1. CASE CallServer(c)
  BY <1>0, <1>1, CallEffect
<1>2. CASE CallRefused(c) \/ Answer(c) \/ JoinStarted(c) \/ ReadSize(c) \/ ReadFails(c)
           \/ ReadData(c)
  BY <1>0, <1>2 DEF CallRefused, Answer, Reply, JoinStarted, ReadSize, ReadFails, ReadData
<1>3. CASE LocalTruncate(c)
  <2>1. SetFile(Home[c], op[c].obj, <<>>) /\ <<>> \in Seq(Chunk)
    BY <1>3 DEF LocalTruncate, Truncate
  <2> QED
    BY <2>1, HomeFileType, SetFileWrites
<1>4. CASE WriteHere(c)
  <2>1. PICK f, w : f = HomeFile(c) /\ w = op[c].content
    OBVIOUS
  <2>2. f \in Seq(Chunk) \cup {NoFile} /\ w \in Seq(Chunk)
    BY <2>1, HomeFileType
  <2>3. \/ pc[c] = "truncated" /\ SetFile(Home[c], op[c].obj, WriteAtStart(f, w))
        \/ SetFile(Home[c], op[c].obj, AppendTo(f, w))
    BY <1>4, <2>1 DEF WriteHere, Goto
  <2>4. pc[c] = "truncated" => f \in Seq(Chunk)
    BY <2>1, <2>2 DEF RequestInv
  <2>5. AppendTo(f, w) \in Seq(Chunk)
    BY <2>2, AppendToType
  <2>6. pc[c] = "truncated" => WriteAtStart(f, w) \in Seq(Chunk)
    BY <2>2, <2>4, WriteAtStartType
  <2> QED
    BY <2>3, <2>5, <2>6, HomeFileType, SetFileWrites
<1>5. ASSUME NEW s \in Servers, ExecuteThere(c, s)
      PROVE  OnlyWrites
  <2>1. PICK f, w : f = files[s][op[c].obj] /\ w = op[c].content
    OBVIOUS
  <2>2. f \in Seq(Chunk) \cup {NoFile} /\ w \in Seq(Chunk) /\ op[c].obj \in Objects
    BY <2>1, FileType
  <2>3. \/ SetFile(s, op[c].obj, <<>>)
        \/ rpc[c][s] = "truncated" /\ SetFile(s, op[c].obj, WriteAtStart(f, w))
        \/ SetFile(s, op[c].obj, AppendTo(f, w))
    BY <1>5, <2>1 DEF ExecuteThere, PeerTruncate, PeerWrite, PeerAppend, SetRpc, Truncate
  <2>4. rpc[c][s] = "truncated" => f \in Seq(Chunk)
    BY <2>1, <2>2 DEF RequestInv
  <2>5. AppendTo(f, w) \in Seq(Chunk)
    BY <2>2, AppendToType
  <2>6. rpc[c][s] = "truncated" => WriteAtStart(f, w) \in Seq(Chunk)
    BY <2>2, <2>4, WriteAtStartType
  <2>7. <<>> \in Seq(Chunk)
    OBVIOUS
  <2> QED
    BY <2>2, <2>3, <2>5, <2>6, <2>7, SetFileWrites
<1> QED
  BY <1>1, <1>2, <1>3, <1>4, <1>5 DEF StepOf, ExecuteHere

LEMMA StepTypes ==
  ASSUME RequestType, ServerType, NEW c \in Clients, RequestInv(c), StepOf(c)
  PROVE  RequestType'
<1>1. /\ scenario' \in Scenarios /\ early' \subseteq Clients
      /\ files' \in [Servers -> [Objects -> Seq(Chunk) \cup {NoFile}]]
  BY OthersKeep, StepWrites DEF RequestType, OnlyWrites
<1>2. pc' \in [Clients -> {"idle", "called", "sized", "truncated", "sent", "done",
                          "exited"}]
  <2>1. CASE CallServer(c)
    BY <2>1, CallEffect DEF RequestType
  <2>2. \/ CallServer(c)
        \/ UNCHANGED pc
        \/ \E from, to \in {"idle", "called", "sized", "truncated", "sent", "done", "exited"} :
             Goto(c, from, to)
    BY DEF StepOf, CallRefused, Answer, Reply, ExecuteHere, ReadSize, ReadFails, ReadData,
           LocalTruncate, WriteHere, JoinStarted, ExecuteThere, PeerTruncate, PeerWrite,
           PeerAppend
  <2> QED
    BY <2>1, <2>2, GotoEffect DEF RequestType
<1>3. /\ op' \in [Clients -> [kind : {"Get", "Put", "Append"}, obj : Objects,
                              content : Seq(Chunk)]]
      /\ seqno' \in [Clients -> Nat]
  <2>1. CASE CallServer(c)
    <3>1. PICK o \in Objects, kind \in scenario.kinds[c], content \in Seq(Chunk) :
            /\ op' = [op EXCEPT ![c] = [kind |-> kind, obj |-> o, content |-> content]]
            /\ kind \in {"Get", "Put", "Append"}
            /\ seqno' = seqno \/ seqno' = [seqno EXCEPT ![c] = @ + 1]
      BY <2>1, CallEffect
    <3>2. seqno \in [Clients -> Nat] => seqno' \in [Clients -> Nat]
      BY <3>1
    <3>3. op \in [Clients -> [kind : {"Get", "Put", "Append"}, obj : Objects,
                              content : Seq(Chunk)]]
      BY DEF RequestType
    <3> QED
      BY <3>1, <3>2, <3>3 DEF RequestType
  <2>2. CallServer(c) \/ UNCHANGED <<op, seqno>>
    BY DEF StepOf, CallRefused, Answer, Reply, ExecuteHere, ReadSize, ReadFails, ReadData,
           LocalTruncate, WriteHere, JoinStarted, ExecuteThere, PeerTruncate, PeerWrite,
           PeerAppend
  <2> QED
    BY <2>1, <2>2 DEF RequestType
<1>4. size' \in [Clients -> Nat] /\ got' \in [Clients -> Seq(Chunk \cup {Garbage}) \cup {NoFile}]
  <2>0. size \in [Clients -> Nat] /\ got \in [Clients -> Seq(Chunk \cup {Garbage}) \cup {NoFile}]
    BY DEF RequestType
  <2>1. CASE ReadSize(c)
    <3>1. HomeFile(c) \in Seq(Chunk)
      BY <2>1, HomeFileType DEF ReadSize
    <3>2. Len(HomeFile(c)) \in Nat
      BY <3>1
    <3>3. size' = [size EXCEPT ![c] = Len(HomeFile(c))] /\ got' = got
      BY <2>1 DEF ReadSize
    <3> QED
      BY <2>0, <3>2, <3>3
  <2>2. CASE ReadData(c)
    <3>1. HomeFile(c) \in Seq(Chunk) /\ size[c] \in Nat
      BY <2>0, <2>2, HomeFileType DEF ReadData, RequestInv, Goto
    <3>2. ReadBuffer(HomeFile(c), size[c]) \in Seq(Chunk \cup {Garbage})
      BY <3>1, ReadBufferType
    <3>3. size' = [size EXCEPT ![c] = 0]
          /\ got' = [got EXCEPT ![c] = ReadBuffer(HomeFile(c), size[c])]
      BY <2>2 DEF ReadData
    <3> QED
      BY <2>0, <3>2, <3>3
  <2>3. CASE ReadFails(c)
    BY <2>0, <2>3 DEF ReadFails
  <2>4. ReadSize(c) \/ ReadData(c) \/ ReadFails(c) \/ UNCHANGED <<size, got>>
    BY CallEffect
    DEF StepOf, CallRefused, Answer, Reply, ExecuteHere,
        LocalTruncate, WriteHere, JoinStarted, ExecuteThere, PeerTruncate, PeerWrite,
        PeerAppend
  <2> QED
    BY <2>0, <2>1, <2>2, <2>3, <2>4
<1>5. /\ rpc' \in [Clients -> [Servers -> {"none", "sent", "truncated", "done", "lost"}]]
      /\ \A d \in Clients : rpc'[d][Home[d]] = "none"
  <2>0. /\ rpc \in [Clients -> [Servers -> {"none", "sent", "truncated", "done", "lost"}]]
        /\ \A d \in Clients : rpc[d][Home[d]] = "none"
    BY DEF RequestType
  <2>1. CASE WriteHere(c)
    <3>1. StartThreadsToEntries(c)
      BY <2>1 DEF WriteHere
    <3> QED
      BY <2>0, <3>1, StartEffect
  <2>2. CASE JoinStarted(c)
    BY <2>0, <2>2, HomeType DEF JoinStarted
  <2>3. ASSUME NEW s \in Servers, ExecuteThere(c, s)
        PROVE  /\ rpc' \in [Clients -> [Servers -> {"none", "sent", "truncated", "done", "lost"}]]
               /\ \A d \in Clients : rpc'[d][Home[d]] = "none"
    <3>1. PICK from, to : /\ SetRpc(c, s, from, to)
                          /\ to \in {"truncated", "done"} /\ from \in {"sent", "truncated"}
      BY <2>3 DEF ExecuteThere, PeerTruncate, PeerWrite, PeerAppend
    <3>2. /\ rpc[c][s] # "none"
          /\ \A d \in Clients, t \in Servers : d # c \/ t # s => rpc'[d][t] = rpc[d][t]
          /\ rpc' \in [Clients -> [Servers -> {"none", "sent", "truncated", "done", "lost"}]]
      BY <3>1, SetRpcEffect
    <3> QED
      BY <2>0, <3>2, HomeType
  <2>4. \/ WriteHere(c) \/ JoinStarted(c) \/ UNCHANGED rpc
        \/ \E s \in Servers : ExecuteThere(c, s)
    BY CallEffect
    DEF StepOf, CallRefused, Answer, Reply, ExecuteHere, ReadSize, ReadFails, ReadData,
        LocalTruncate
  <2> QED
    BY <2>0, <2>1, <2>2, <2>3, <2>4
<1> QED
  BY <1>1, <1>2, <1>3, <1>4, <1>5 DEF RequestType

LEMMA DeathTypes ==
  ASSUME CrashTypeOK, NEW s \in Servers, Dies(s)
  PROVE  RequestType'
<1>1. /\ rpc' \in [Clients -> [Servers -> {"none", "sent", "truncated", "done", "lost"}]]
      /\ UNCHANGED <<files, op, size, got, seqno, scenario, early>>
      /\ \A c \in Clients : rpc[c][Home[c]] = "none" => rpc'[c][Home[c]] = "none"
  BY CallsAfterDeath, HomeType
<1>2. pc' \in [Clients -> {"idle", "called", "sized", "truncated", "sent", "done", "exited"}]
  BY CallsAfterDeath DEF CrashTypeOK
<1> QED
  BY <1>1, <1>2 DEF CrashTypeOK, RequestType

-----------------------------------------------------------------------------
LEMMA DeathKeepsRequests ==
  ASSUME CrashTypeOK, NEW s \in Servers, Dies(s), NEW c \in Clients, RequestInv(c)
  PROVE  RequestInv(c)'
<1>1. UNCHANGED <<files, op, size, got, seqno, scenario, early>>
  BY CallsAfterDeath
<1>2. pc'[c] = pc[c] \/ (pc[c] # "idle" /\ pc'[c] = "exited")
  BY CallsAfterDeath
<1>3. \A t \in Servers : /\ rpc'[c][t] \in {rpc[c][t], "none", "lost"}
                         /\ rpc[c][t] = "none" => rpc'[c][t] = "none"
  BY CallsAfterDeath
<1>4. HomeFile(c)' = HomeFile(c)
  BY <1>1 DEF HomeFile
<1> QED
  BY <1>1, <1>2, <1>3, <1>4 DEF RequestInv

LEMMA StepKeepsOthers ==
  ASSUME RequestType, ServerType, NEW c \in Clients, RequestInv(c), StepOf(c),
         NEW d \in Clients \ {c}, RequestInv(d)
  PROVE  RequestInv(d)'
<1>1. /\ pc'[d] = pc[d] /\ op'[d] = op[d] /\ seqno'[d] = seqno[d] /\ scenario' = scenario
      /\ \A t \in Servers : rpc'[d][t] = rpc[d][t]
  BY OthersKeep
<1>3. \A s \in Servers, o \in Objects : files[s][o] # NoFile => files'[s][o] # NoFile
  BY StepWrites, CrashAssumption DEF OnlyWrites
<1>4. HomeFile(d) # NoFile => HomeFile(d)' # NoFile
  BY <1>1, <1>3, HomeFileType DEF HomeFile
<1>5. \A s \in Servers : files[s][op[d].obj] # NoFile => files'[s][op'[d].obj] # NoFile
  BY <1>1, <1>3, HomeFileType
<1>6. \A s \in Servers :
        /\ rpc'[d][s] # "none" => pc'[d] \in {"sent", "exited"} /\ op'[d].kind # "Get"
        /\ rpc'[d][s] = "truncated" => op'[d].kind = "Put" /\ files'[s][op'[d].obj] # NoFile
  BY <1>1, <1>5 DEF RequestInv
<1> QED
  BY <1>1, <1>4, <1>6 DEF RequestInv

LEMMA StepKeepsOwn ==
  ASSUME RequestType, ServerType, NEW c \in Clients, RequestInv(c), StepOf(c)
  PROVE  RequestInv(c)'
<1>0. \A s \in Servers, o \in Objects : files[s][o] # NoFile => files'[s][o] # NoFile
  BY StepWrites, CrashAssumption DEF OnlyWrites
<1>1. CASE CallServer(c)
  <2>1. PICK o \in Objects, kind \in scenario.kinds[c], content \in Seq(Chunk) :
          /\ op' = [op EXCEPT ![c] = [kind |-> kind, obj |-> o, content |-> content]]
          /\ \/ kind = "Get" /\ content = <<>>
             \/ /\ kind \in {"Put", "Append"} /\ seqno' = [seqno EXCEPT ![c] = @ + 1]
                /\ content = Tokens(c, seqno'[c] - 1, Len(content))
    BY <1>1, CallEffect
  <2>2. /\ pc[c] = "idle" /\ pc' = [pc EXCEPT ![c] = "called"]
        /\ UNCHANGED <<files, size, got, rpc, scenario, early>>
    BY <1>1, CallEffect
  <2>3. pc'[c] = "called" /\ op'[c] = [kind |-> kind, obj |-> o, content |-> content]
    BY <2>1, <2>2 DEF RequestType
  <2>4. \A s \in Servers : rpc'[c][s] = "none"
    BY <2>2 DEF RequestInv
  <2>5. /\ op'[c].content = IF op'[c].kind = "Get" THEN <<>>
                            ELSE Tokens(c, seqno'[c] - 1, Len(op'[c].content))
        /\ op'[c].kind = "Get" \/ seqno'[c] # 0
    BY <2>1, <2>3 DEF RequestType
  <2> QED
    BY <2>2, <2>3, <2>4, <2>5 DEF RequestInv
<1>2. ASSUME UNCHANGED <<op, seqno, scenario>>
      PROVE  /\ op'[c].kind \in {"Get"} \cup scenario'.kinds[c]
             /\ op'[c].content = IF op'[c].kind = "Get" THEN <<>>
                                 ELSE Tokens(c, seqno'[c] - 1, Len(op'[c].content))
             /\ op'[c].kind = "Get" \/ seqno'[c] # 0
             /\ HomeFile(c) # NoFile => HomeFile(c)' # NoFile
             /\ \A s \in Servers : files[s][op[c].obj] # NoFile => files'[s][op'[c].obj] # NoFile
  <2>2. HomeFile(c) # NoFile => HomeFile(c)' # NoFile
    BY <1>0, <1>2, HomeFileType DEF HomeFile
  <2> QED
    BY <1>0, <1>2, <2>2, HomeFileType DEF RequestInv
<1>3. CASE CallRefused(c) \/ Answer(c) \/ JoinStarted(c)
  <2>1. UNCHANGED <<op, seqno, scenario>>
    BY <1>3 DEF CallRefused, Answer, Reply, JoinStarted, boundVars
  <2>2. pc'[c] \in {"idle", "exited", "done"}
    BY <1>3, GotoEffect DEF CallRefused, Answer, Reply, JoinStarted
  <2>3. \/ pc[c] \in {"idle", "done"} /\ UNCHANGED rpc
        \/ \A s \in Servers : rpc'[c][s] = "none"
    BY <1>3, GotoEffect DEF CallRefused, Answer, Reply, JoinStarted, RequestType
  <2> QED
    BY <1>2, <2>1, <2>2, <2>3 DEF RequestInv
<1>4. CASE ReadSize(c) \/ ReadFails(c) \/ ReadData(c)
  <2>1. UNCHANGED <<op, seqno, files, rpc>> /\ scenario' = scenario
    BY <1>4, OthersKeep DEF ReadSize, ReadFails, ReadData
  <2>2. \/ pc[c] = "called" /\ pc'[c] = "sized" /\ op[c].kind = "Get" /\ HomeFile(c) # NoFile
        \/ pc[c] \in {"called", "sized"} /\ pc'[c] = "done"
    BY <1>4, GotoEffect DEF ReadSize, ReadFails, ReadData
  <2> QED
    BY <1>2, <2>1, <2>2 DEF RequestInv
<1>5. CASE LocalTruncate(c)
  <2>1. UNCHANGED <<op, seqno, rpc>> /\ scenario' = scenario /\ op[c].kind = "Put"
    BY <1>5, OthersKeep DEF LocalTruncate
  <2>2. pc[c] = "called" /\ pc'[c] = "truncated"
    BY <1>5, GotoEffect DEF LocalTruncate
  <2>3. HomeFile(c)' # NoFile
    <3>1. SetFile(Home[c], op[c].obj, <<>>) /\ <<>> \in Seq(Chunk)
      BY <1>5 DEF LocalTruncate, Truncate
    <3>2. files'[Home[c]][op[c].obj] = <<>>
      BY <3>1, HomeFileType, SetFileEffect
    <3> QED
      BY <2>1, <3>1, <3>2, CrashAssumption DEF HomeFile
  <2> QED
    BY <1>2, <2>1, <2>2, <2>3 DEF RequestInv
<1>6. CASE WriteHere(c)
  <2>1. UNCHANGED <<op, seqno>> /\ scenario' = scenario /\ StartThreadsToEntries(c)
    BY <1>6, OthersKeep DEF WriteHere
  <2>2. pc'[c] = "sent" /\ op[c].kind # "Get"
    BY <1>6, GotoEffect DEF WriteHere, RequestInv
  <2>3. \A s \in Servers : rpc'[c][s] \in {"none", "sent", "lost"}
    BY <2>1, StartEffect
  <2> QED
    BY <1>2, <2>1, <2>2, <2>3 DEF RequestInv
<1>7. ASSUME NEW s \in Servers, ExecuteThere(c, s)
      PROVE  RequestInv(c)'
  <2>1. UNCHANGED <<op, seqno, pc>> /\ scenario' = scenario
    BY <1>7, OthersKeep DEF ExecuteThere, PeerTruncate, PeerWrite, PeerAppend
  <2>2. PICK from, to :
          /\ SetRpc(c, s, from, to)
          /\ from # "none"
          /\ \/ to = "done"
             \/ to = "truncated" /\ op[c].kind = "Put" /\ SetFile(s, op[c].obj, <<>>)
    BY <1>7 DEF ExecuteThere, PeerTruncate, PeerWrite, PeerAppend, Truncate
  <2>3. /\ rpc[c][s] = from /\ rpc'[c][s] = to
        /\ \A t \in Servers \ {s} : rpc'[c][t] = rpc[c][t]
    BY <2>2, SetRpcEffect
  <2>4. to = "truncated" => files'[s][op[c].obj] # NoFile
    <3>0. <<>> \in Seq(Chunk)
      OBVIOUS
    <3>1. PICK empty \in Seq(Chunk) : empty = <<>>
      BY <3>0, Zenon
    <3>2. to = "truncated" => SetFile(s, op[c].obj, empty)
      BY <2>2, <3>1, CrashAssumption
    <3>3. empty # NoFile /\ op[c].obj \in Objects
      BY FileType, CrashAssumption
    <3> QED
      BY <3>2, <3>3, SetFileEffect
  <2> QED
    BY <1>2, <2>1, <2>2, <2>3, <2>4 DEF RequestInv
<1> QED
  BY <1>1, <1>3, <1>4, <1>5, <1>6, <1>7 DEF StepOf, ExecuteHere
-----------------------------------------------------------------------------
(* The server processes and the master.                                    *)
ServersInv == ServerType /\ JoinInv /\ AddServersInv /\ ProxyInv

LEMMA DeathEffect ==
  ASSUME ServerType, NEW s \in Servers, Die(s)
  PROVE  /\ state' \in [Servers -> {"serving", "dead", "active", "joining", "adding"}]
         /\ proxy' \in [Servers -> [Servers -> {"none", "null", "ok", "freed"}]]
         /\ \A t \in Servers : proxy'[t][t] = "none"
         /\ todo' \in [Servers -> SUBSET Servers]
         /\ adding' \in [Servers -> Servers \cup {Nobody}]
         /\ dangling' \subseteq Clients \X Servers
         /\ state'[s] = "dead" /\ todo'[s] = {} /\ adding'[s] = Nobody
         /\ \A t \in Servers \ {s} :
              /\ state'[t] = state[t] /\ proxy'[t] = proxy[t]
              /\ todo'[t] = todo[t] /\ adding'[t] = adding[t]
BY DEF ServerType, Die

(* A death while the master goes on, and one that ends the Join.           *)
LEMMA DeathKeepsServers ==
  ASSUME ServersInv, NEW s \in Servers, Die(s), UNCHANGED joinVars,
         kills' \in Nat, starts' \in Nat
  PROVE  ServersInv'
<1> USE DEF ServersInv
<1>1. UNCHANGED <<master_up, entry, joiner, tell, notifying>>
  BY DEF joinVars
<1>2. ServerType'
  BY <1>1, DeathEffect DEF ServerType
<1>3. JoinInv'
  <2>1. joiner # Nobody => joiner \in Servers
    BY DEF ServerType
  <2> QED
    BY <1>1, <2>1, DeathEffect DEF JoinInv
<1>4. AddServersInv'
  BY DeathEffect DEF AddServersInv
<1>5. ProxyInv'
  BY <1>1, DeathEffect DEF ProxyInv
<1> QED
  BY <1>2, <1>3, <1>4, <1>5

JoinEnds ==
  /\ joiner # Nobody /\ state[joiner] = "joining" => Die(joiner)
  /\ joiner = Nobody \/ state[joiner] # "joining" => UNCHANGED serverVars
  /\ joiner' = Nobody /\ tell' = {} /\ notifying' = Nobody
  /\ master_up' \in BOOLEAN /\ UNCHANGED <<kills, starts, entry>>

LEMMA JoinEndsKeepsServers ==
  ASSUME ServersInv, JoinEnds
  PROVE  ServersInv'
<1> USE DEF ServersInv
<1>1. CASE joiner = Nobody \/ state[joiner] # "joining"
  <2>1. UNCHANGED <<state, proxy, dangling, todo, adding>>
    BY <1>1 DEF JoinEnds, serverVars
  <2>2. ServerType'
    BY <2>1 DEF ServerType, JoinEnds
  <2>3. \A t \in Servers : state[t] # "joining"
    BY <1>1, CrashAssumption DEF JoinInv
  <2>4. JoinInv'
    BY <2>1, <2>3 DEF JoinInv, JoinEnds
  <2>5. AddServersInv'
    BY <2>1 DEF AddServersInv
  <2>6. ProxyInv'
    BY <2>1, <2>3 DEF ProxyInv
  <2> QED
    BY <2>2, <2>4, <2>5, <2>6
<1>2. CASE joiner # Nobody /\ state[joiner] = "joining"
  <2>1. PICK s \in Servers : s = joiner
    BY <1>2 DEF ServerType
  <2>2. Die(s)
    BY <1>2, <2>1 DEF JoinEnds
  <2>3. ServerType'
    BY <2>2, DeathEffect DEF ServerType, JoinEnds
  <2>4. \A t \in Servers : state'[t] # "joining"
    BY <2>1, <2>2, DeathEffect DEF JoinInv
  <2>5. JoinInv'
    BY <2>4 DEF JoinInv, JoinEnds
  <2>6. AddServersInv'
    BY <2>2, DeathEffect DEF AddServersInv
  <2>7. ProxyInv'
    BY <2>2, <2>4, DeathEffect DEF ProxyInv
  <2> QED
    BY <2>3, <2>5, <2>6, <2>7
<1> QED
  BY <1>1, <1>2

(* A server that starts, and what happens between it and the master.       *)
LEMMA StartKeepsServers ==
  ASSUME ServersInv, NEW s \in Servers, Start(s)
  PROVE  ServersInv'
<1> USE DEF ServersInv
<1>1. /\ state[s] = "dead" /\ state' = [state EXCEPT ![s] = "active"]
      /\ starts' \in Nat /\ kills' = kills
      /\ UNCHANGED <<proxy, dangling, todo, adding, master_up, entry, joiner, tell,
                     notifying>>
  BY DEF Start, Up, joinVars, ServerType
<1>2. /\ state' \in [Servers -> {"serving", "dead", "active", "joining", "adding"}]
      /\ state'[s] = "active" /\ \A t \in Servers \ {s} : state'[t] = state[t]
  BY <1>1 DEF ServerType
<1>3. ServerType'
  BY <1>1, <1>2 DEF ServerType
<1>4. JoinInv'
  <2>1. joiner # Nobody => joiner \in Servers
    BY DEF ServerType
  <2> QED
    BY <1>1, <1>2, <2>1 DEF JoinInv
<1>5. AddServersInv'
  BY <1>1, <1>2 DEF AddServersInv
<1>6. ProxyInv'
  BY <1>1, <1>2 DEF ProxyInv
<1> QED
  BY <1>3, <1>4, <1>5, <1>6

LEMMA JoinStartKeepsServers ==
  ASSUME ServersInv, NEW s \in Servers, JoinStart(s)
  PROVE  ServersInv'
<1> USE DEF ServersInv
<1>1. /\ joiner = Nobody /\ joiner' = s /\ state[s] = "active"
      /\ state' = [state EXCEPT ![s] = "joining"]
      /\ entry' = [entry EXCEPT ![s] = "freed"]
      /\ UNCHANGED <<kills, starts, proxy, dangling, todo, adding, master_up, tell,
                     notifying>>
  BY DEF JoinStart, boundVars
<1>2. /\ state' \in [Servers -> {"serving", "dead", "active", "joining", "adding"}]
      /\ state'[s] = "joining" /\ \A t \in Servers \ {s} : state'[t] = state[t]
      /\ entry' \in [Servers -> {"ok", "freed"}]
      /\ entry'[s] = "freed" /\ \A t \in Servers \ {s} : entry'[t] = entry[t]
  BY <1>1 DEF ServerType
<1>3. ServerType'
  BY <1>1, <1>2 DEF ServerType
<1>4. JoinInv'
  BY <1>1, <1>2, CrashAssumption DEF JoinInv
<1>5. AddServersInv'
  BY <1>1, <1>2 DEF AddServersInv
<1>6. ProxyInv'
  BY <1>1, <1>2 DEF ProxyInv
<1> QED
  BY <1>3, <1>4, <1>5, <1>6

LEMMA JoinInsertKeepsServers ==
  ASSUME ServersInv, JoinInsert
  PROVE  ServersInv'
<1> USE DEF ServersInv
<1>0. PICK s \in Servers : s = joiner
  BY DEF ServerType, JoinInsert
<1>1. /\ s # Nobody /\ joiner' = s
      /\ entry' = [entry EXCEPT ![s] = "ok"] /\ tell' = Servers \ {s} /\ entry[s] = "freed"
      /\ UNCHANGED <<kills, starts, state, proxy, dangling, todo, adding, master_up,
                     notifying>>
  BY <1>0 DEF JoinInsert, boundVars, serverVars
<1>2. /\ entry' \in [Servers -> {"ok", "freed"}]
      /\ entry'[s] = "ok" /\ \A t \in Servers \ {s} : entry'[t] = entry[t]
  BY <1>1 DEF ServerType
<1>3. ServerType'
  BY <1>1, <1>2 DEF ServerType
<1>4. JoinInv'
  BY <1>0, <1>1, <1>2 DEF JoinInv
<1>5. AddServersInv'
  BY <1>1 DEF AddServersInv
<1>6. ProxyInv'
  <2>1. \A t \in Servers : state[t] = "joining" => t = s
    BY <1>0 DEF JoinInv
  <2> QED
    BY <1>1, <1>2, <2>1 DEF ProxyInv
<1> QED
  BY <1>3, <1>4, <1>5, <1>6

LEMMA JoinInsertFailsKeepsServers ==
  ASSUME ServersInv, JoinInsertFails
  PROVE  ServersInv'
<1> USE DEF ServersInv
<1>1. /\ joiner # Nobody /\ state[joiner] = "dead" /\ entry[joiner] = "freed"
      /\ joiner' = Nobody
      /\ UNCHANGED <<kills, starts, state, proxy, dangling, todo, adding, master_up, entry,
                     tell, notifying>>
  BY DEF JoinInsertFails, boundVars, serverVars, Up
<1>2. tell = {} /\ notifying = Nobody /\ \A t \in Servers : state[t] # "joining"
  BY <1>1 DEF JoinInv
<1>3. ServerType'
  BY <1>1 DEF ServerType
<1>4. JoinInv'
  BY <1>1, <1>2 DEF JoinInv
<1>5. AddServersInv'
  BY <1>1 DEF AddServersInv
<1>6. ProxyInv'
  BY <1>1, <1>2 DEF ProxyInv
<1> QED
  BY <1>3, <1>4, <1>5, <1>6

LEMMA JoinReturnKeepsServers ==
  ASSUME ServersInv, JoinReturn
  PROVE  ServersInv'
<1> USE DEF ServersInv
<1>0. PICK s \in Servers : s = joiner
  BY DEF ServerType, JoinReturn
<1>1. /\ s # Nobody /\ entry[s] = "ok" /\ tell = {} /\ joiner' = Nobody
      /\ UNCHANGED <<kills, starts, proxy, dangling, adding, master_up, entry, tell,
                     notifying>>
  BY <1>0 DEF JoinReturn, boundVars
<1>2. notifying = Nobody /\ \A t \in Servers : state[t] = "joining" => t = s
  BY <1>0, <1>1 DEF JoinInv
<1>3. CASE state[s] = "joining"
  <2>1. /\ state' = [state EXCEPT ![s] = "adding"]
        /\ todo' = [todo EXCEPT ![s] = Servers \ {s}]
    BY <1>0, <1>3 DEF JoinReturn
  <2>2. /\ state' \in [Servers -> {"serving", "dead", "active", "joining", "adding"}]
        /\ state'[s] = "adding" /\ \A t \in Servers \ {s} : state'[t] = state[t]
        /\ todo' \in [Servers -> SUBSET Servers]
        /\ todo'[s] = Servers \ {s} /\ \A t \in Servers \ {s} : todo'[t] = todo[t]
    BY <2>1 DEF ServerType
  <2>3. ServerType'
    BY <1>1, <2>2 DEF ServerType
  <2>4. JoinInv'
    BY <1>1, <1>2, <2>2 DEF JoinInv
  <2>5. AddServersInv'
    BY <1>1, <1>3, <2>2 DEF AddServersInv
  <2>6. ProxyInv'
    BY <1>1, <1>2, <1>3, <2>2 DEF ProxyInv
  <2> QED
    BY <2>3, <2>4, <2>5, <2>6
<1>4. CASE state[s] # "joining"
  <2>1. UNCHANGED <<state, todo>>
    BY <1>0, <1>4 DEF JoinReturn
  <2>2. ServerType'
    BY <1>1, <2>1 DEF ServerType
  <2>3. JoinInv'
    BY <1>1, <1>2, <1>4, <2>1 DEF JoinInv
  <2>4. AddServersInv'
    BY <1>1, <2>1 DEF AddServersInv
  <2>5. ProxyInv'
    BY <1>1, <1>2, <1>4, <2>1 DEF ProxyInv
  <2> QED
    BY <2>2, <2>3, <2>4, <2>5
<1> QED
  BY <1>3, <1>4

(* The two steps of AddServer, wherever it is called from.                 *)
LEMMA DeleteProxyEffect ==
  ASSUME ServerType, NEW s \in Servers, NEW t \in Servers, s # t, DeleteProxy(s, t)
  PROVE  /\ proxy' \in [Servers -> [Servers -> {"none", "null", "ok", "freed"}]]
         /\ \A u \in Servers : proxy'[u][u] = "none"
         /\ \A u, v \in Servers : u # s \/ v # t => proxy'[u][v] = proxy[u][v]
         /\ proxy[s][t] \in {"ok", "freed"} => proxy'[s][t] = "freed"
         /\ dangling' \subseteq Clients \X Servers
<1>1. PICK p \in {"null", "freed", proxy[s][t]} : 
        /\ proxy' = [proxy EXCEPT ![s][t] = p]
        /\ proxy[s][t] \in {"ok", "freed"} => p = "freed"
  BY DEF DeleteProxy
<1>2. p \in {"none", "null", "ok", "freed"}
  BY DEF ServerType
<1>3. dangling' \subseteq Clients \X Servers
  BY DEF DeleteProxy, ServerType
<1> QED
  BY <1>1, <1>2, <1>3 DEF ServerType

LEMMA AssignProxyEffect ==
  ASSUME ServerType, NEW s \in Servers, NEW t \in Servers, s # t, AssignProxy(s, t)
  PROVE  /\ proxy' \in [Servers -> [Servers -> {"none", "null", "ok", "freed"}]]
         /\ \A u \in Servers : proxy'[u][u] = "none"
         /\ \A u, v \in Servers : u # s \/ v # t => proxy'[u][v] = proxy[u][v]
         /\ proxy'[s][t] = "ok"
BY DEF AssignProxy, ServerType

LEMMA NotifyKeepsServers ==
  ASSUME ServersInv, NEW t \in Servers, Notify(t)
  PROVE  ServersInv'
<1> USE DEF ServersInv
<1>0. PICK j \in Servers : j = joiner
  BY DEF ServerType, Notify
<1>1. /\ j # Nobody /\ t \in tell /\ notifying' = t /\ DeleteProxy(t, j)
      /\ UNCHANGED <<kills, starts, state, todo, adding, master_up, entry, joiner, tell>>
  BY <1>0 DEF Notify, boundVars
<1>2. t # j
  BY <1>0, <1>1 DEF JoinInv
<1>3. ServerType'
  BY <1>1, <1>2, DeleteProxyEffect DEF ServerType
<1>4. JoinInv'
  BY <1>0, <1>1 DEF JoinInv
<1>5. AddServersInv'
  BY <1>1 DEF AddServersInv
<1>6. ProxyInv'
  <2>1. state[j] \notin {"adding", "serving"}
    BY <1>0, <1>1 DEF JoinInv
  <2>2. \A u, v \in Servers : u # t \/ v # j => proxy'[u][v] = proxy[u][v]
    BY <1>1, <1>2, DeleteProxyEffect
  <2>3. proxy[t][j] \in {"ok", "freed"} => proxy'[t][j] = "freed"
    BY <1>1, <1>2, DeleteProxyEffect
  <2> QED
    BY <1>1, <2>1, <2>2, <2>3 DEF ProxyInv
<1> QED
  BY <1>3, <1>4, <1>5, <1>6

LEMMA NotifiedKeepsServers ==
  ASSUME ServersInv, Notified
  PROVE  ServersInv'
<1> USE DEF ServersInv
<1>0. PICK t \in Servers : t = notifying /\ t # Nobody
  BY DEF ServerType, Notified
<1>1. t \in tell /\ joiner # Nobody
  BY <1>0 DEF JoinInv
<1>2. PICK j \in Servers : j = joiner
  BY <1>1 DEF ServerType
<1>3. /\ j # Nobody /\ t # j /\ AssignProxy(t, j) /\ tell' = tell \ {t} /\ notifying' = Nobody
      /\ UNCHANGED <<kills, starts, state, dangling, todo, adding, master_up, entry, joiner>>
  BY <1>0, <1>1, <1>2 DEF Notified, boundVars, JoinInv
<1>4. ServerType'
  BY <1>3, AssignProxyEffect DEF ServerType
<1>5. JoinInv'
  BY <1>2, <1>3 DEF JoinInv
<1>6. AddServersInv'
  BY <1>3 DEF AddServersInv
<1>7. ProxyInv'
  <2>1. /\ \A u, v \in Servers : u # t \/ v # j => proxy'[u][v] = proxy[u][v]
        /\ proxy'[t][j] = "ok"
    BY <1>3, AssignProxyEffect
  <2>2. \A u \in Servers : state[u] = "joining" => u = j
    BY <1>2 DEF JoinInv
  <2> QED
    BY <1>3, <2>1, <2>2 DEF ProxyInv
<1> QED
  BY <1>4, <1>5, <1>6, <1>7

LEMMA AddServerDeleteKeepsServers ==
  ASSUME ServersInv, NEW s \in Servers, NEW t \in Servers, AddServerDelete(s, t)
  PROVE  ServersInv'
<1> USE DEF ServersInv
<1>1. /\ t \in todo[s] /\ adding' = [adding EXCEPT ![s] = t] /\ DeleteProxy(s, t)
      /\ UNCHANGED <<kills, starts, state, todo, master_up, entry, joiner, tell, notifying>>
  BY DEF AddServerDelete, boundVars, joinVars
<1>2. s # t
  BY <1>1 DEF AddServersInv
<1>3. /\ adding' \in [Servers -> Servers \cup {Nobody}]
      /\ adding'[s] = t /\ \A u \in Servers \ {s} : adding'[u] = adding[u]
  BY <1>1 DEF ServerType
<1>4. ServerType'
  BY <1>1, <1>2, <1>3, DeleteProxyEffect DEF ServerType
<1>5. JoinInv'
  BY <1>1 DEF JoinInv
<1>6. AddServersInv'
  BY <1>1, <1>3 DEF AddServersInv
<1>7. ProxyInv'
  <2>1. \A u, v \in Servers : u # s \/ v # t => proxy'[u][v] = proxy[u][v]
    BY <1>1, <1>2, DeleteProxyEffect
  <2> QED
    BY <1>1, <2>1 DEF ProxyInv
<1> QED
  BY <1>4, <1>5, <1>6, <1>7

LEMMA AddServerAssignKeepsServers ==
  ASSUME ServersInv, NEW s \in Servers, AddServerAssign(s)
  PROVE  ServersInv'
<1> USE DEF ServersInv
<1>0. PICK t \in Servers : t = adding[s] /\ t # Nobody
  BY DEF ServerType, AddServerAssign
<1>1. /\ todo' = [todo EXCEPT ![s] = @ \ {t}] /\ adding' = [adding EXCEPT ![s] = Nobody]
      /\ AssignProxy(s, t)
      /\ UNCHANGED <<kills, starts, state, dangling, master_up, entry, joiner, tell, notifying>>
  BY <1>0 DEF AddServerAssign, boundVars, joinVars
<1>2. t \in todo[s] /\ s # t
  BY <1>0 DEF AddServersInv
<1>3. /\ adding' \in [Servers -> Servers \cup {Nobody}]
      /\ adding'[s] = Nobody /\ \A u \in Servers \ {s} : adding'[u] = adding[u]
      /\ todo' \in [Servers -> SUBSET Servers]
      /\ todo'[s] = todo[s] \ {t} /\ \A u \in Servers \ {s} : todo'[u] = todo[u]
  BY <1>1 DEF ServerType
<1>4. ServerType'
  BY <1>1, <1>2, <1>3, AssignProxyEffect DEF ServerType
<1>5. JoinInv'
  BY <1>1 DEF JoinInv
<1>6. AddServersInv'
  BY <1>1, <1>3 DEF AddServersInv
<1>7. ProxyInv'
  <2>1. /\ \A u, v \in Servers : u # s \/ v # t => proxy'[u][v] = proxy[u][v]
        /\ proxy'[s][t] = "ok"
    BY <1>1, <1>2, AssignProxyEffect
  <2> QED
    BY <1>1, <1>3, <2>1 DEF ProxyInv
<1> QED
  BY <1>4, <1>5, <1>6, <1>7

LEMMA AddServersDoneKeepsServers ==
  ASSUME ServersInv, NEW s \in Servers, AddServersDone(s)
  PROVE  ServersInv'
<1> USE DEF ServersInv
<1>1. /\ state[s] = "adding" /\ todo[s] = {} /\ state' = [state EXCEPT ![s] = "serving"]
      /\ UNCHANGED <<kills, starts, proxy, dangling, todo, adding, master_up, entry, joiner,
                     tell, notifying>>
  BY DEF AddServersDone, boundVars, joinVars
<1>2. /\ state' \in [Servers -> {"serving", "dead", "active", "joining", "adding"}]
      /\ state'[s] = "serving" /\ \A t \in Servers \ {s} : state'[t] = state[t]
  BY <1>1 DEF ServerType
<1>3. ServerType'
  BY <1>1, <1>2 DEF ServerType
<1>4. JoinInv'
  <2>1. joiner # Nobody => joiner \in Servers /\ joiner # s
    BY <1>1 DEF ServerType, JoinInv
  <2> QED
    BY <1>1, <1>2, <2>1 DEF JoinInv
<1>5. AddServersInv'
  BY <1>1, <1>2 DEF AddServersInv
<1>6. ProxyInv'
  BY <1>1, <1>2 DEF ProxyInv
<1> QED
  BY <1>3, <1>4, <1>5, <1>6

(* A request's step changes nothing of them but which threads have a       *)
(* proxy that was deleted.                                                 *)
LEMMA StepLeavesServers ==
  ASSUME ServersInv, RequestType, NEW c \in Clients, StepOf(c)
  PROVE  /\ UNCHANGED <<kills, starts, state, proxy, todo, adding, joinVars>>
         /\ ServersInv'
<1>1. /\ UNCHANGED <<kills, starts, state, proxy, todo, adding, joinVars>>
      /\ dangling' \subseteq Clients \X Servers
  <2> USE DEF boundVars, serverVars, ServersInv
  <2>1. CASE WriteHere(c)
    <3>1. StartThreadsToEntries(c)
      BY <2>1 DEF WriteHere
    <3> QED
      BY <2>1, <3>1, StartEffect DEF WriteHere
  <2>2. CASE JoinStarted(c)
    BY <2>2 DEF JoinStarted, ServerType
  <2>3. ASSUME NEW s \in Servers, ExecuteThere(c, s)
        PROVE  UNCHANGED <<kills, starts, state, proxy, dangling, todo, adding, joinVars>>
    BY <2>3 DEF ExecuteThere
  <2>4. CASE CallServer(c) \/ CallRefused(c) \/ Answer(c) \/ ExecuteHere(c)
    BY <2>4 DEF CallServer, CallRefused, Answer, ExecuteHere, ServerType
  <2> QED
    BY <2>1, <2>2, <2>3, <2>4 DEF StepOf, ServerType
<1>2. UNCHANGED <<kills, starts, state, proxy, todo, adding, master_up, entry, joiner, tell,
                  notifying>>
  BY <1>1 DEF joinVars
<1>3. ServerType' /\ JoinInv' /\ AddServersInv' /\ ProxyInv'
  BY <1>1, <1>2 DEF ServersInv, ServerType, JoinInv, AddServersInv, ProxyInv
<1> QED
  BY <1>1, <1>3 DEF ServersInv

LEMMA NextKeepsServers ==
  ASSUME CrashTypeOK, ServersInv, [NextCrash]_crashVars
  PROVE  ServersInv'
<1> USE DEF ServersInv
<1>0. RequestType /\ kills + 1 \in Nat /\ starts \in Nat /\ kills \in Nat
  BY TypeParts DEF ServerType
<1>1. CASE UNCHANGED crashVars
  <2>1. UNCHANGED <<kills, starts, state, proxy, dangling, todo, adding, master_up, entry,
                    joiner, tell, notifying>>
    BY <1>1 DEF crashVars, boundVars, serverVars, joinVars
  <2>2. ServerType'
    BY <2>1 DEF ServerType
  <2> QED
    BY <2>1, <2>2 DEF JoinInv, AddServersInv, ProxyInv
<1>2. ASSUME NEW s \in Servers, Kill(s)
      PROVE  ServersInv'
  <2>1. Die(s) /\ UNCHANGED joinVars /\ kills' \in Nat /\ starts' \in Nat
    BY <1>0, <1>2 DEF Kill
  <2> QED
    BY <2>1, DeathKeepsServers
<1>3. ASSUME NEW s \in Servers, ServerStep(s)
      PROVE  ServersInv'
  <2>1. CASE JoinRefused(s) \/ AddServerThrows(s) \/ DoubleDelete(s)
    <3>1. Die(s) /\ UNCHANGED joinVars /\ kills' \in Nat /\ starts' \in Nat
      BY <1>0, <2>1 DEF JoinRefused, AddServerThrows, DoubleDelete, boundVars
    <3> QED
      BY <3>1, DeathKeepsServers
  <2> QED
    BY <1>3, <2>1, JoinStartKeepsServers, AddServerDeleteKeepsServers,
       AddServerAssignKeepsServers, AddServersDoneKeepsServers DEF ServerStep
<1>4. CASE JoinStep
  <2>1. CASE JoinThrows \/ MasterDies
    <3>1. JoinEnds
      BY <1>0, <2>1 DEF JoinThrows, MasterDies, JoinEnds, boundVars, ServerType
    <3> QED
      BY <3>1, JoinEndsKeepsServers
  <2> QED
    BY <1>4, <2>1, JoinInsertKeepsServers, JoinInsertFailsKeepsServers, NotifyKeepsServers,
       NotifiedKeepsServers, JoinReturnKeepsServers DEF JoinStep
<1>5. ASSUME NEW c \in Clients, HandlerStep(c)
      PROVE  ServersInv'
  <2>1. ASSUME NEW s \in Servers, ThreadThrows(c, s)
        PROVE  ServersInv'
    <3>1. Die(Home[c]) /\ UNCHANGED joinVars /\ kills' \in Nat /\ starts' \in Nat
      BY <1>0, <2>1 DEF ThreadThrows, boundVars
    <3> QED
      BY <3>1, HomeType, DeathKeepsServers
  <2>2. CASE ThreadCrashes(c)
    <3>1. Die(Home[c]) /\ UNCHANGED joinVars /\ kills' \in Nat /\ starts' \in Nat
      BY <1>0, <2>2 DEF ThreadCrashes, boundVars
    <3> QED
      BY <3>1, HomeType, DeathKeepsServers
  <2>3. StepOf(c) \/ ThreadCrashes(c) \/ \E s \in Servers : ThreadThrows(c, s)
    BY <1>5 DEF HandlerStep, StepOf
  <2> QED
    BY <1>0, <2>1, <2>2, <2>3, StepLeavesServers
<1>6. ASSUME NEW c \in Clients, CallServer(c) \/ CallRefused(c) \/ Answer(c)
      PROVE  ServersInv'
  <2>1. StepOf(c)
    BY <1>6 DEF StepOf
  <2> QED
    BY <1>0, <2>1, StepLeavesServers
<1> QED
  BY <1>1, <1>2, <1>3, <1>4, <1>5, <1>6, StartKeepsServers DEF NextCrash

(* The same for the requests.                                              *)
LEMMA NextKeepsRequests ==
  ASSUME CrashTypeOK, \A c \in Clients : RequestInv(c), [NextCrash]_crashVars
  PROVE  RequestType' /\ \A c \in Clients : RequestInv(c)'
<1>0. RequestType /\ ServerType
  BY TypeParts
<1>1. CASE UNCHANGED dataVars
  <2>1. UNCHANGED <<files, pc, op, size, got, rpc, seqno, scenario, early>>
    BY <1>1 DEF dataVars
  <2> QED
    BY <1>0, <2>1 DEF RequestType, RequestInv, HomeFile
<1>2. ASSUME NEW s \in Servers, Dies(s)
      PROVE  RequestType' /\ \A c \in Clients : RequestInv(c)'
  BY <1>2, DeathTypes, DeathKeepsRequests
<1>3. ASSUME NEW c \in Clients, StepOf(c)
      PROVE  RequestType' /\ \A d \in Clients : RequestInv(d)'
  BY <1>0, <1>3, StepTypes, StepKeepsOthers, StepKeepsOwn
<1> QED
  BY <1>1, <1>2, <1>3, StepKinds
-----------------------------------------------------------------------------
(* With appends only, a step leaves the files as they are or appends what  *)
(* the client's request carries at one server, its home first.             *)
Appended(c, s) ==
  /\ op[c].kind = "Append"
  /\ files'[s][op[c].obj] = AppendTo(files[s][op[c].obj], op[c].content)
  /\ \A t \in Servers, o \in Objects : t # s \/ o # op[c].obj => files'[t][o] = files[t][o]

AppendsHere(c) ==
  /\ Appended(c, Home[c])
  /\ pc[c] = "called" /\ pc'[c] = "sent"
  /\ StartThreadsToEntries(c) /\ UNCHANGED <<op, size, got, seqno>>

AppendsThere(c, s) ==
  /\ s # Home[c] /\ Appended(c, s)
  /\ SetRpc(c, s, "sent", "done") /\ UNCHANGED <<pc, op, size, got, seqno>>

LEMMA NoPuts ==
  ASSUME AppendsOnly, NEW c \in Clients, RequestInv(c)
  PROVE  op[c].kind # "Put" /\ pc[c] # "truncated" /\ \A s \in Servers : rpc[c][s] # "truncated"
BY DEF AppendsOnly, RequestInv

LEMMA WriteHereAppends ==
  ASSUME RequestType, AppendsOnly, NEW c \in Clients, RequestInv(c), WriteHere(c)
  PROVE  AppendsHere(c)
<1>1. op[c].kind # "Put" /\ pc[c] # "truncated"
  BY NoPuts
<1>2. /\ op[c].kind = "Append" /\ Goto(c, "called", "sent") /\ StartThreadsToEntries(c)
      /\ SetFile(Home[c], op[c].obj, AppendTo(files[Home[c]][op[c].obj], op[c].content))
      /\ UNCHANGED <<op, size, got, seqno>>
  BY <1>1 DEF WriteHere, Goto, HomeFile
<1> QED
  BY <1>2, GotoEffect, HomeFileType, SetFileEffect DEF AppendsHere, Appended

LEMMA ExecuteThereAppends ==
  ASSUME RequestType, AppendsOnly, NEW c \in Clients, RequestInv(c),
         NEW s \in Servers, ExecuteThere(c, s)
  PROVE  AppendsThere(c, s)
<1>1. op[c].kind # "Put" /\ rpc[c][s] # "truncated"
  BY NoPuts
<1>2. /\ op[c].kind = "Append" /\ SetRpc(c, s, "sent", "done")
      /\ SetFile(s, op[c].obj, AppendTo(files[s][op[c].obj], op[c].content))
      /\ UNCHANGED <<pc, op, size, got, seqno>>
  BY <1>1 DEF ExecuteThere, PeerTruncate, PeerWrite, PeerAppend, SetRpc
<1>3. s # Home[c]
  BY <1>2 DEF SetRpc, RequestType
<1> QED
  BY <1>2, <1>3, FileType, SetFileEffect DEF AppendsThere, Appended

LEMMA StepAppends ==
  ASSUME RequestType, ServerType, AppendsOnly, NEW c \in Clients, RequestInv(c), StepOf(c)
  PROVE  \/ UNCHANGED files
         \/ AppendsHere(c)
         \/ \E s \in Servers : AppendsThere(c, s)
<1>1. CASE CallServer(c)
  BY <1>1, CallEffect
<1>2. CASE CallRefused(c) \/ Answer(c) \/ ExecuteHere(c) \/ JoinStarted(c)
  BY <1>2, NoPuts
  DEF CallRefused, Answer, Reply, ExecuteHere, ReadSize, ReadFails, ReadData, LocalTruncate,
      JoinStarted
<1> QED
  BY <1>1, <1>2, WriteHereAppends, ExecuteThereAppends DEF StepOf

(* What that makes of a file, as to its content and as to its chunks.      *)
LEMMA FilesGrow ==
  ASSUME RequestType, ServerType, AppendsOnly, NEW c \in Clients, RequestInv(c), StepOf(c),
         NEW s \in Servers, NEW o \in Objects
  PROVE  \/ files'[s][o] = files[s][o]
         \/ \E content \in Seq(Chunk) : files'[s][o] = AppendTo(files[s][o], content)
BY StepAppends, FileType, HomeType DEF AppendsHere, AppendsThere, Appended

LEMMA ContentOf ==
  ASSUME RequestType, NEW c \in Clients, RequestInv(c)
  PROVE  \A i \in 1 .. Len(op[c].content) : op[c].content[i].client = c
<1>1. PICK w : w = op[c].content
  OBVIOUS
<1>2. w \in Seq(Chunk) /\ (w = <<>> \/ w = Tokens(c, seqno[c] - 1, Len(w)))
  BY <1>1, FileType DEF RequestInv, RequestType
<1>3. \A i \in 1 .. Len(w) : w[i].client = c
  <2>1. CASE w = <<>>
    BY <2>1
  <2>2. CASE w = Tokens(c, seqno[c] - 1, Len(w))
    <3>1. PICK k, n : k = Len(w) /\ n = seqno[c] - 1
      OBVIOUS
    <3>2. w = [i \in 1 .. k |-> [client |-> c, n |-> n, eol |-> i = k]]
      BY <2>2, <3>1 DEF Tokens
    <3> QED
      BY <3>1, <3>2
  <2> QED
    BY <1>2, <2>1, <2>2
<1> QED
  BY <1>1, <1>3

LEMMA ChunksAfter ==
  ASSUME RequestType, NEW c \in Clients, RequestInv(c), NEW s \in Servers, Appended(c, s),
         NEW d \in Clients
  PROVE  /\ d # c => \A t \in Servers, o \in Objects :
                       ChunksOf(d, files'[t][o]) = ChunksOf(d, files[t][o])
         /\ d = c =>
              /\ ChunksOf(c, files'[s][op[c].obj])
                   = ChunksOf(c, files[s][op[c].obj]) \o op[c].content
              /\ \A t \in Servers, o \in Objects : t # s \/ o # op[c].obj =>
                   ChunksOf(c, files'[t][o]) = ChunksOf(c, files[t][o])
<1>1. PICK f, w, g : f = files[s][op[c].obj] /\ w = op[c].content /\ g = files'[s][op[c].obj]
  OBVIOUS
<1>2. f \in Seq(Chunk) \cup {NoFile} /\ w \in Seq(Chunk) /\ g = AppendTo(f, w)
  BY <1>1, FileType DEF Appended
<1>3. \A i \in 1 .. Len(w) : w[i].client = c
  BY <1>1, ContentOf
<1>4. d # c => ChunksOf(d, g) = ChunksOf(d, f)
  BY <1>2, <1>3, OtherAppended
<1>5. ChunksOf(c, g) = ChunksOf(c, f) \o w
  BY <1>2, <1>3, ChunksOfType, OwnAppended
<1>6. \A t \in Servers, o \in Objects : t # s \/ o # op[c].obj => files'[t][o] = files[t][o]
  BY DEF Appended
<1> QED
  BY <1>1, <1>4, <1>5, <1>6
-----------------------------------------------------------------------------
LEMMA StepKeepsGets ==
  ASSUME RequestType, ServerType, AppendsOnly, NEW c \in Clients, RequestInv(c), StepOf(c),
         NEW d \in Clients, GetInv(d), RequestInv(d)
  PROVE  GetInv(d)'
<1>1. CASE d # c
  <2>1. PICK f : f = HomeFile(d)
    OBVIOUS
  <2>2. PICK n, g : n = size[d] /\ g = got[d]
    OBVIOUS
  <2>3. PICK h : h = HomeFile(d)'
    OBVIOUS
  <2>4. /\ pc'[d] = pc[d] /\ op'[d] = op[d] /\ size'[d] = n /\ got'[d] = g
    BY <1>1, <2>2, OthersKeep
  <2>5. f \in Seq(Chunk) \cup {NoFile} /\ n \in Nat /\ g \in Seq(Chunk \cup {Garbage}) \cup {NoFile}
    BY <2>1, <2>2, HomeFileType DEF RequestType
  <2>6. h = f \/ \E content \in Seq(Chunk) : h = AppendTo(f, content)
    BY <2>1, <2>3, <2>4, HomeFileType, FilesGrow DEF HomeFile
  <2>7. f # NoFile => /\ h # NoFile /\ h \in Seq(Chunk) /\ Len(f) <= Len(h)
                      /\ \A k \in 0 .. Len(f) : SubSeq(h, 1, k) = SubSeq(f, 1, k)
    <3>1. ASSUME NEW content \in Seq(Chunk), f # NoFile, h = AppendTo(f, content)
          PROVE  /\ h # NoFile /\ h \in Seq(Chunk) /\ Len(f) <= Len(h)
                 /\ \A k \in 0 .. Len(f) : SubSeq(h, 1, k) = SubSeq(f, 1, k)
      <4>1. f \in Seq(Chunk) /\ h = f \o content
        BY <2>5, <3>1 DEF AppendTo
      <4>2. h \in Seq(Chunk) /\ Len(f) <= Len(h)
        BY <4>1
      <4> QED
        BY <4>1, <4>2, PrefixOfLonger, CrashAssumption
    <3>2. ASSUME f # NoFile, h = f
          PROVE  /\ h # NoFile /\ h \in Seq(Chunk) /\ Len(f) <= Len(h)
      BY <2>5, <3>2
    <3> QED
      BY <2>6, <3>1, <3>2
  <2>8. op[d].kind = "Get" =>
          /\ pc[d] = "sized" => f # NoFile /\ n <= Len(f)
          /\ pc[d] = "done" /\ g # NoFile =>
               f # NoFile /\ Len(g) <= Len(f) /\ g = SubSeq(f, 1, Len(g))
    BY <2>1, <2>2 DEF GetInv, RequestInv
  <2>9. op[d].kind = "Get" =>
          /\ pc[d] = "sized" => n <= Len(h)
          /\ pc[d] = "done" /\ g # NoFile =>
               h # NoFile /\ Len(g) <= Len(h) /\ g = SubSeq(h, 1, Len(g))
    <3>1. f # NoFile => Len(f) \in Nat /\ Len(h) \in Nat
      BY <2>5, <2>7
    <3>2. g # NoFile => Len(g) \in Nat
      BY <2>5
    <3> QED
      BY <2>5, <2>7, <2>8, <3>1, <3>2
  <2> QED
    BY <2>3, <2>4, <2>9 DEF GetInv
<1>2. CASE d = c
  <2>1. CASE ReadSize(c)
    <3>1. pc'[c] = "sized" /\ UNCHANGED <<files, op>> /\ size'[c] = Len(HomeFile(c))
      BY <2>1, GotoEffect DEF ReadSize, RequestType
    <3>2. HomeFile(c)' = HomeFile(c) /\ HomeFile(c) \in Seq(Chunk)
      BY <2>1, <3>1, HomeFileType DEF HomeFile, ReadSize
    <3>3. Len(HomeFile(c)) \in Nat
      BY <3>2
    <3> QED
      BY <1>2, <3>1, <3>2, <3>3 DEF GetInv
  <2>2. CASE ReadFails(c)
    <3>1. pc'[c] = "done" /\ got'[c] = NoFile
      BY <2>2, GotoEffect DEF ReadFails, RequestType
    <3> QED
      BY <1>2, <3>1 DEF GetInv
  <2>3. CASE ReadData(c)
    <3>1. pc[c] = "sized" /\ pc'[c] = "done" /\ UNCHANGED <<files, op>>
      BY <2>3, GotoEffect DEF ReadData
    <3>2. PICK f, n : f = HomeFile(c) /\ n = size[c]
      OBVIOUS
    <3>3. HomeFile(c)' = f
      BY <3>1, <3>2 DEF HomeFile
    <3>4. f \in Seq(Chunk) /\ f # NoFile /\ n \in Nat /\ n <= Len(f)
      BY <1>2, <3>1, <3>2, HomeFileType DEF GetInv, RequestInv, RequestType
    <3>5. got'[c] = ReadBuffer(f, n)
      BY <2>3, <3>2 DEF ReadData, RequestType
    <3>6. n \in 0 .. Len(f) /\ Len(f) \in Nat
      BY <3>4
    <3>7. ReadBuffer(f, n) = SubSeq(f, 1, n) /\ Len(ReadBuffer(f, n)) = n
      BY <3>4, <3>6, ReadPrefix
    <3>8. PICK g : g = ReadBuffer(f, n)
      OBVIOUS
    <3>9. got'[c] = g /\ g = SubSeq(f, 1, Len(g)) /\ Len(g) <= Len(f)
      BY <3>4, <3>5, <3>7, <3>8
    <3> QED
      BY <1>2, <3>1, <3>3, <3>4, <3>9 DEF GetInv
  <2>4. CASE CallServer(c) \/ CallRefused(c) \/ Answer(c)
    <3>1. pc'[c] \in {"called", "exited", "idle"}
      BY <2>4, GotoEffect, CallEffect DEF CallRefused, Answer, Reply, RequestType
    <3> QED
      BY <1>2, <3>1 DEF GetInv
  <2>5. CASE LocalTruncate(c) \/ WriteHere(c) \/ JoinStarted(c) \/ \E s \in Servers : ExecuteThere(c, s)
    <3>1. op' = op
      BY <2>5 DEF LocalTruncate, WriteHere, JoinStarted, ExecuteThere, PeerTruncate, PeerWrite,
                  PeerAppend
    <3>2. op[c].kind # "Get"
      BY <2>5 DEF LocalTruncate, WriteHere, JoinStarted, Goto, ExecuteThere, PeerTruncate,
                  PeerWrite, PeerAppend, SetRpc, RequestInv
    <3> QED
      BY <1>2, <3>1, <3>2 DEF GetInv
  <2> QED
    BY <2>1, <2>2, <2>3, <2>4, <2>5 DEF StepOf, ExecuteHere
<1> QED
  BY <1>1, <1>2

LEMMA DeathKeepsGets ==
  ASSUME CrashTypeOK, NEW s \in Servers, Dies(s), NEW c \in Clients, GetInv(c)
  PROVE  GetInv(c)'
<1>1. UNCHANGED <<files, op, size, got>> /\ (pc'[c] = pc[c] \/ pc'[c] = "exited")
  BY CallsAfterDeath
<1>2. HomeFile(c)' = HomeFile(c)
  BY <1>1 DEF HomeFile
<1> QED
  BY <1>1, <1>2 DEF GetInv
-----------------------------------------------------------------------------
(* AppendInv, with names for what it says of one server and object.        *)
Level(c, s, o) ==
  \/ ChunksOf(c, files[s][o]) = ChunksOf(c, files[Home[c]][o])
  \/ /\ o = op[c].obj /\ pc[c] \in {"sent", "exited"}
     /\ ChunksOf(c, files[s][o]) \o op[c].content = ChunksOf(c, files[Home[c]][o])

Due(c, s) ==
  /\ rpc[c][s] = "sent" =>
       ChunksOf(c, files[s][op[c].obj]) \o op[c].content
         = ChunksOf(c, files[Home[c]][op[c].obj])
  /\ pc[c] = "sent" /\ rpc[c][s] = "done" =>
       ChunksOf(c, files[s][op[c].obj]) = ChunksOf(c, files[Home[c]][op[c].obj])

LEMMA AppendInvParts ==
  ASSUME RequestType, NEW c \in Clients
  PROVE  AppendInv(c) <=>
           (c \notin early =>
              /\ pc[c] = "sent" => \A s \in Peers(c) : rpc[c][s] # "none"
              /\ \A s \in Servers, o \in Objects : Level(c, s, o)
              /\ \A s \in Servers : Due(c, s))
<1>1. op[c].obj \in Objects
  BY FileType DEF RequestType
<1> QED
  BY <1>1 DEF AppendInv, Level, Due

LEMMA OtherStepKeepsAppends ==
  ASSUME RequestType, RequestType', ServerType, AppendsOnly,
         NEW c \in Clients, RequestInv(c), StepOf(c),
         NEW d \in Clients \ {c}, AppendInv(d)
  PROVE  AppendInv(d)'
<1>1. /\ pc'[d] = pc[d] /\ op'[d] = op[d] /\ (d \in early' <=> d \in early)
      /\ \A t \in Servers : rpc'[d][t] = rpc[d][t]
  BY OthersKeep
<1>2. \A t \in Servers, o \in Objects : ChunksOf(d, files'[t][o]) = ChunksOf(d, files[t][o])
  BY StepAppends, ChunksAfter, HomeType DEF AppendsHere, AppendsThere
<1>3. \A s \in Servers, o \in Objects : Level(d, s, o) => Level(d, s, o)'
  BY <1>1, <1>2, HomeType DEF Level
<1>4. \A s \in Servers : Due(d, s) => Due(d, s)'
  <2>1. PICK o \in Objects : o = op[d].obj /\ o = op'[d].obj
    BY <1>1, HomeFileType
  <2>2. Home[d] \in Servers
    BY HomeType
  <2> QED
    BY <1>1, <1>2, <2>1, <2>2 DEF Due
<1>5. AppendInv(d)' <=>
        (d \notin early' =>
           /\ pc'[d] = "sent" => \A s \in Peers(d) : rpc'[d][s] # "none"
           /\ \A s \in Servers, o \in Objects : Level(d, s, o)'
           /\ \A s \in Servers : Due(d, s)')
  <2>1. op'[d].obj \in Objects
    BY DEF RequestType
  <2> QED
    BY <2>1 DEF AppendInv, Level, Due, Peers
<1> QED
  BY <1>1, <1>3, <1>4, <1>5, AppendInvParts DEF Peers

(* Before its append, what a client has appended is everywhere the same.   *)
LEMMA LevelBefore ==
  ASSUME RequestType, NEW c \in Clients, AppendInv(c), c \notin early,
         pc[c] \notin {"sent", "exited"}
  PROVE  \A s \in Servers, o \in Objects :
           ChunksOf(c, files[s][o]) = ChunksOf(c, files[Home[c]][o])
BY AppendInvParts DEF Level

LEMMA OwnStepKeepsAppends ==
  ASSUME RequestType, ServersInv, AppendsOnly,
         NEW c \in Clients, RequestInv(c), StepOf(c), AppendInv(c),
         RequestType', RequestInv(c)'
  PROVE  AppendInv(c)'
<1>0. ServerType /\ Home[c] \in Servers /\ op[c].obj \in Objects /\ op'[c].obj \in Objects
  BY HomeType DEF ServersInv, RequestType
<1> SUFFICES ASSUME c \notin early'
             PROVE  /\ pc'[c] = "sent" => \A s \in Peers(c) : rpc'[c][s] # "none"
                    /\ \A s \in Servers, o \in Objects : Level(c, s, o)'
                    /\ \A s \in Servers : Due(c, s)'
  BY <1>0 DEF AppendInv, Level, Due, Peers
<1>1. c \notin early
  BY <1>0, OthersKeep
<1>2. /\ pc[c] = "sent" => \A s \in Peers(c) : rpc[c][s] # "none"
      /\ \A s \in Servers, o \in Objects : Level(c, s, o)
      /\ \A s \in Servers : Due(c, s)
  BY <1>1, AppendInvParts
<1>3. op[c].kind # "Put" /\ pc[c] # "truncated" /\ \A s \in Servers : rpc[c][s] # "truncated"
  BY NoPuts
(* No file is written, all calls are over: the files must be level.        *)
<1>4. ASSUME UNCHANGED files, pc'[c] # "sent",
             \A s \in Servers : rpc'[c][s] = "none",
             \A s \in Servers, o \in Objects :
               ChunksOf(c, files[s][o]) = ChunksOf(c, files[Home[c]][o])
      PROVE  /\ pc'[c] = "sent" => \A s \in Peers(c) : rpc'[c][s] # "none"
             /\ \A s \in Servers, o \in Objects : Level(c, s, o)'
             /\ \A s \in Servers : Due(c, s)'
  BY <1>4 DEF Level, Due
<1>5. CASE CallServer(c) \/ CallRefused(c) \/ Answer(c) \/ ReadSize(c) \/ ReadFails(c)
           \/ ReadData(c)
  <2>1. pc[c] \notin {"sent", "exited"} /\ pc'[c] # "sent" /\ UNCHANGED <<files, rpc>>
    <3>1. CASE CallServer(c)
      BY <3>1, CallEffect DEF RequestType
    <3>2. CASE CallRefused(c) \/ Answer(c) \/ ReadSize(c) \/ ReadFails(c) \/ ReadData(c)
      BY <3>2, GotoEffect DEF CallRefused, Answer, Reply, ReadSize, ReadFails, ReadData
    <3> QED
      BY <1>5, <3>1, <3>2
  <2>2. \A s \in Servers : rpc'[c][s] = "none"
    BY <2>1 DEF RequestInv
  <2> QED
    BY <1>1, <1>4, <2>1, <2>2, LevelBefore
<1>6. CASE JoinStarted(c)
  <2>1. /\ pc[c] = "sent" /\ pc'[c] = "done" /\ UNCHANGED files
        /\ \A s \in Servers : rpc[c][s] \in {"none", "done"} /\ rpc'[c][s] = "none"
    BY <1>6, GotoEffect DEF JoinStarted, RequestType
  <2>2. ASSUME NEW s \in Servers, NEW o \in Objects
        PROVE  ChunksOf(c, files[s][o]) = ChunksOf(c, files[Home[c]][o])
    <3>1. CASE s = Home[c]
      BY <3>1
    <3>2. CASE s # Home[c] /\ o = op[c].obj
      <4>1. rpc[c][s] = "done"
        BY <1>2, <2>1, <3>2 DEF Peers
      <4>2. Due(c, s)
        BY <1>2
      <4> QED
        BY <2>1, <3>2, <4>1, <4>2 DEF Due
    <3>3. CASE o # op[c].obj
      <4>1. Level(c, s, o)
        BY <1>2
      <4> QED
        BY <3>3, <4>1 DEF Level
    <3> QED
      BY <3>1, <3>2, <3>3
  <2> QED
    BY <1>4, <2>1, <2>2
<1>7. CASE WriteHere(c)
  <2>1. AppendsHere(c)
    BY <1>7, WriteHereAppends
  <2>2. pc[c] = "called" /\ pc'[c] = "sent" /\ op' = op /\ StartThreadsToEntries(c)
    BY <2>1 DEF AppendsHere
  <2>3. \A s \in Servers, o \in Objects :
          ChunksOf(c, files[s][o]) = ChunksOf(c, files[Home[c]][o])
    BY <1>1, <2>2, LevelBefore
  <2>4. /\ ChunksOf(c, files'[Home[c]][op[c].obj])
             = ChunksOf(c, files[Home[c]][op[c].obj]) \o op[c].content
        /\ \A t \in Servers, o \in Objects : t # Home[c] \/ o # op[c].obj =>
             ChunksOf(c, files'[t][o]) = ChunksOf(c, files[t][o])
    BY <1>0, <2>1, ChunksAfter DEF AppendsHere
  <2>5. \A s \in Servers : s # Home[c] => rpc'[c][s] = "sent"
    <3>1. state[Home[c]] = "serving"
      BY <1>0, <2>2, StartEffect
    <3>2. todo[Home[c]] = {}
      BY <1>0, <3>1 DEF ServersInv, AddServersInv
    <3>3. \A s \in Servers : s # Home[c] => proxy[Home[c]][s] \in {"ok", "freed"}
      BY <1>0, <3>1, <3>2 DEF ServersInv, ProxyInv
    <3>4. \A s \in Servers : rpc'[c][s] = CASE proxy[Home[c]][s] = "none" -> "none"
                                            [] proxy[Home[c]][s] = "null" -> "lost"
                                            [] OTHER -> "sent"
      BY <1>0, <2>2, StartEffect
    <3> QED
      BY <3>3, <3>4
  <2>6. rpc'[c][Home[c]] = "none"
    BY <1>0 DEF RequestType
  <2>7. \A s \in Peers(c) : rpc'[c][s] # "none"
    BY <2>5 DEF Peers
  <2>8. ASSUME NEW s \in Servers, NEW o \in Objects
        PROVE  Level(c, s, o)'
    <3>1. CASE s = Home[c]
      BY <3>1 DEF Level
    <3>2. CASE s # Home[c] /\ o = op[c].obj
      BY <1>0, <2>2, <2>3, <2>4, <3>2 DEF Level
    <3>3. CASE o # op[c].obj
      BY <1>0, <2>2, <2>3, <2>4, <3>3 DEF Level
    <3> QED
      BY <3>1, <3>2, <3>3
  <2>9. ASSUME NEW s \in Servers
        PROVE  Due(c, s)'
    <3>1. CASE s = Home[c]
      BY <2>6, <3>1 DEF Due
    <3>2. CASE s # Home[c]
      BY <1>0, <2>2, <2>3, <2>4, <2>5, <3>2 DEF Due
    <3> QED
      BY <3>1, <3>2
  <2> QED
    BY <2>7, <2>8, <2>9
<1>8. ASSUME NEW s \in Servers, ExecuteThere(c, s)
      PROVE  /\ pc'[c] = "sent" => \A t \in Peers(c) : rpc'[c][t] # "none"
             /\ \A t \in Servers, o \in Objects : Level(c, t, o)'
             /\ \A t \in Servers : Due(c, t)'
  <2>1. SetRpc(c, s, "sent", "done") /\ UNCHANGED <<pc, op, size, got, seqno>>
    BY <1>8, ExecuteThereAppends DEF AppendsThere
  <2>2. Appended(c, s) /\ s # Home[c]
    BY <1>8, ExecuteThereAppends DEF AppendsThere
  <2>3. /\ rpc[c][s] = "sent" /\ rpc'[c][s] = "done"
        /\ \A t \in Servers \ {s} : rpc'[c][t] = rpc[c][t]
    BY <2>1, SetRpcEffect
  <2>4. /\ ChunksOf(c, files'[s][op[c].obj])
             = ChunksOf(c, files[s][op[c].obj]) \o op[c].content
        /\ \A t \in Servers, o \in Objects : t # s \/ o # op[c].obj =>
             ChunksOf(c, files'[t][o]) = ChunksOf(c, files[t][o])
    BY <2>2, ChunksAfter
  <2>5. ChunksOf(c, files'[s][op[c].obj]) = ChunksOf(c, files'[Home[c]][op[c].obj])
    <3>1. Due(c, s)
      BY <1>2
    <3> QED
      BY <1>0, <2>2, <2>3, <2>4, <3>1 DEF Due
  <2>6. ASSUME NEW t \in Servers, NEW o \in Objects
        PROVE  Level(c, t, o)'
    <3>1. CASE t = s /\ o = op[c].obj
      BY <2>1, <2>5, <3>1 DEF Level
    <3>2. CASE t # s \/ o # op[c].obj
      <4>1. Level(c, t, o)
        BY <1>2
      <4>2. ChunksOf(c, files'[t][o]) = ChunksOf(c, files[t][o])
            /\ ChunksOf(c, files'[Home[c]][o]) = ChunksOf(c, files[Home[c]][o])
        BY <1>0, <2>2, <2>4, <3>2
      <4> QED
        BY <2>1, <4>1, <4>2 DEF Level
    <3> QED
      BY <3>1, <3>2
  <2>7. ASSUME NEW t \in Servers
        PROVE  Due(c, t)'
    <3>1. CASE t = s
      BY <2>1, <2>3, <2>5, <3>1 DEF Due
    <3>2. CASE t # s
      <4>1. Due(c, t)
        BY <1>2
      <4>2. ChunksOf(c, files'[t][op[c].obj]) = ChunksOf(c, files[t][op[c].obj])
            /\ ChunksOf(c, files'[Home[c]][op[c].obj]) = ChunksOf(c, files[Home[c]][op[c].obj])
        BY <1>0, <2>2, <2>4, <3>2
      <4> QED
        BY <2>1, <2>3, <3>2, <4>1, <4>2 DEF Due
    <3> QED
      BY <3>1, <3>2
  <2> QED
    BY <1>2, <2>1, <2>3, <2>6, <2>7 DEF Peers
<1>9. CASE LocalTruncate(c)
  BY <1>3, <1>9 DEF LocalTruncate
<1> QED
  BY <1>5, <1>6, <1>7, <1>8, <1>9 DEF StepOf, ExecuteHere

LEMMA DeathKeepsAppends ==
  ASSUME CrashTypeOK, NEW s \in Servers, Dies(s), NEW c \in Clients, AppendInv(c),
         RequestType'
  PROVE  AppendInv(c)'
<1>0. RequestType /\ Home[c] \in Servers
  BY TypeParts, HomeType
<1>1. /\ UNCHANGED <<files, op, early>>
      /\ pc' = [d \in Clients |-> IF Home[d] = s /\ pc[d] # "idle" THEN "exited" ELSE pc[d]]
  BY CallsAfterDeath
<1>2. pc'[c] = IF Home[c] = s /\ pc[c] # "idle" THEN "exited" ELSE pc[c]
  BY <1>1
<1>3. \A t \in Servers : /\ rpc'[c][t] \in {rpc[c][t], "none", "lost"}
                         /\ Home[c] # s => rpc'[c][t] \in {rpc[c][t], "lost"}
  BY CallsAfterDeath
<1>4. \A t \in Servers, o \in Objects : Level(c, t, o) => Level(c, t, o)'
  BY <1>1, <1>2 DEF Level
<1>5. \A t \in Servers : Due(c, t) => Due(c, t)'
  BY <1>1, <1>2, <1>3 DEF Due
<1>6. op'[c].obj \in Objects
  BY <1>0 DEF RequestType
<1>7. AppendInv(c)' <=>
        (c \notin early' =>
           /\ pc'[c] = "sent" => \A t \in Peers(c) : rpc'[c][t] # "none"
           /\ \A t \in Servers, o \in Objects : Level(c, t, o)'
           /\ \A t \in Servers : Due(c, t)')
  BY <1>6 DEF AppendInv, Level, Due, Peers
<1> QED
  BY <1>0, <1>1, <1>2, <1>3, <1>4, <1>5, <1>7, AppendInvParts DEF Peers
-----------------------------------------------------------------------------
(* The checker between two lines, at any file and step.                    *)
LEMMA StartIsBetween == Check!Start = Between([h \in {} |-> 0])
BY DEF Check!Start, Between

Appender(c) == c \in Clients /\ "Append" \in scenario.kinds[c]

(* What LinesInv says of a file, with the numbers the checker has seen.    *)
Lines(s, o, seen) ==
  /\ Scanned(files[s][o]) = Between(seen)
  /\ \A c \in DOMAIN seen :
       /\ Appender(c) /\ seen[c] \in 0 .. seqno[c] - 1
       /\ ToCome(c, s, o) => seen[c] < seqno[c] - 1

LEMMA LinesInvMeans ==
  ASSUME NEW s \in Servers, NEW o \in Objects, LinesInv(s, o)
  PROVE  \E seen : Lines(s, o, seen)
<1>1. CASE files[s][o] = NoFile
  <2>1. PICK seen : seen = [h \in {} |-> 0]
    OBVIOUS
  <2>2. DOMAIN seen = {}
    BY <2>1
  <2> QED
    BY <1>1, <2>1, <2>2, StartIsBetween DEF Lines, Scanned
<1>2. CASE files[s][o] # NoFile
  <2>1. PICK st : st = Check!Scan(files[s][o])
    OBVIOUS
  <2>2. PICK seen : seen = st.seqno
    OBVIOUS
  <2>3. st = Between(seen)
    BY <1>2, <2>1, <2>2 DEF LinesInv, Between
  <2>4. \A c \in DOMAIN seen :
          /\ Appender(c) /\ seen[c] \in 0 .. seqno[c] - 1
          /\ ToCome(c, s, o) => seen[c] < seqno[c] - 1
    BY <1>2, <2>1, <2>2 DEF LinesInv, Appender
  <2> QED
    BY <1>2, <2>1, <2>3, <2>4 DEF Lines, Scanned
<1> QED
  BY <1>1, <1>2

LEMMA LinesInvFrom ==
  ASSUME NEW s \in Servers, NEW o \in Objects, NEW seen, Lines(s, o, seen)
  PROVE  LinesInv(s, o)
<1> SUFFICES ASSUME files[s][o] # NoFile PROVE LinesInv(s, o)
  BY DEF LinesInv
<1>1. PICK st : st = Check!Scan(files[s][o])
  OBVIOUS
<1>2. st = Between(seen)
  BY <1>1 DEF Lines, Scanned
<1>3. st.seqno = seen /\ st = [seqno |-> st.seqno, t2 |-> <<>>, printed |-> {}]
  BY <1>2 DEF Between
<1>4. \A c \in DOMAIN seen :
        /\ Appender(c) /\ seen[c] \in 0 .. seqno[c] - 1
        /\ ToCome(c, s, o) => seen[c] < seqno[c] - 1
  BY DEF Lines
<1> QED
  BY <1>1, <1>3, <1>4 DEF LinesInv, Appender

LEMMA LinesInvOfNext ==
  ASSUME NEW s \in Servers, NEW o \in Objects, NEW seen, scenario' = scenario,
         Scanned(files'[s][o]) = Between(seen),
         \A c \in DOMAIN seen :
           /\ Appender(c) /\ seen[c] \in 0 .. seqno'[c] - 1
           /\ ToCome(c, s, o)' => seen[c] < seqno'[c] - 1
  PROVE  LinesInv(s, o)'
<1> SUFFICES ASSUME files'[s][o] # NoFile PROVE LinesInv(s, o)'
  BY DEF LinesInv
<1>1. PICK st : st = Check!Scan(files'[s][o])
  OBVIOUS
<1>2. st = Between(seen)
  BY <1>1 DEF Scanned
<1>3. st.seqno = seen /\ st = [seqno |-> st.seqno, t2 |-> <<>>, printed |-> {}]
  BY <1>2 DEF Between
<1> QED
  BY <1>1, <1>3 DEF LinesInv, Appender

(* A file that is left alone, while no number it has is to come again.     *)
LEMMA LinesStay ==
  ASSUME NEW s \in Servers, NEW o \in Objects, LinesInv(s, o),
         files'[s][o] = files[s][o], seqno \in [Clients -> Nat], scenario' = scenario,
         \A c \in Clients :
           /\ seqno'[c] = seqno[c] \/ seqno'[c] = seqno[c] + 1
           /\ ToCome(c, s, o)' => ToCome(c, s, o) \/ seqno'[c] = seqno[c] + 1
  PROVE  LinesInv(s, o)'
<1>1. PICK seen : Lines(s, o, seen)
  BY LinesInvMeans
<1>2. Scanned(files'[s][o]) = Between(seen)
  BY <1>1 DEF Lines
<1>3. ASSUME NEW c \in DOMAIN seen
      PROVE  /\ Appender(c) /\ seen[c] \in 0 .. seqno'[c] - 1
             /\ ToCome(c, s, o)' => seen[c] < seqno'[c] - 1
  <2>1. /\ Appender(c) /\ seen[c] \in 0 .. seqno[c] - 1
        /\ ToCome(c, s, o) => seen[c] < seqno[c] - 1
    BY <1>1 DEF Lines
  <2>2. /\ seqno[c] \in Nat
        /\ seqno'[c] = seqno[c] \/ seqno'[c] = seqno[c] + 1
        /\ ToCome(c, s, o)' => ToCome(c, s, o) \/ seqno'[c] = seqno[c] + 1
    BY <2>1 DEF Appender
  <2> QED
    BY <2>1, <2>2
<1> QED
  BY <1>2, <1>3, LinesInvOfNext

LEMMA DeathKeepsLines ==
  ASSUME CrashTypeOK, NEW d \in Servers, Dies(d),
         NEW s \in Servers, NEW o \in Objects, LinesInv(s, o)
  PROVE  LinesInv(s, o)'
<1>1. UNCHANGED <<files, op, seqno>> /\ seqno \in [Clients -> Nat]
  BY CallsAfterDeath DEF CrashTypeOK
<1>2. \A c \in Clients : pc'[c] = pc[c] \/ pc'[c] = "exited"
  BY CallsAfterDeath
<1>3. \A c \in Clients : rpc'[c][s] \in {rpc[c][s], "none", "lost"}
  BY CallsAfterDeath
<1>4. \A c \in Clients : ToCome(c, s, o)' => ToCome(c, s, o)
  BY <1>1, <1>2, <1>3 DEF ToCome
<1> QED
  BY <1>1, <1>4, LinesStay DEF Dies

(* The client's append at s is the next line there.                        *)
LEMMA AppendKeepsLines ==
  ASSUME RequestType, NEW c \in Clients, RequestInv(c),
         NEW s \in Servers, Appended(c, s), LinesInv(s, op[c].obj), ToCome(c, s, op[c].obj),
         op' = op, seqno' = seqno, scenario' = scenario,
         ~ToCome(c, s, op[c].obj)',
         \A d \in Clients \ {c} : pc'[d] = pc[d] /\ rpc'[d][s] = rpc[d][s]
  PROVE  LinesInv(s, op[c].obj)'
<1>1. PICK o \in Objects : o = op[c].obj
  BY HomeFileType
<1>2. PICK seen : Lines(s, o, seen)
  BY <1>1, LinesInvMeans
<1>3. PICK f, w, n : f = files[s][o] /\ w = op[c].content /\ n = seqno[c] - 1
  OBVIOUS
<1>4. f \in Seq(Chunk) \cup {NoFile} /\ w \in Seq(Chunk) /\ files'[s][o] = AppendTo(f, w)
  BY <1>1, <1>3, FileType DEF Appended
<1>5. n \in Nat /\ Line(w, c, n)
  BY <1>3 DEF RequestType, RequestInv, Appended, Line, Tokens
<1>6. Scanned(f) = Between(seen) /\ (c \in DOMAIN seen => seen[c] \in Nat /\ seen[c] < n)
  BY <1>1, <1>2, <1>3 DEF Lines
<1>7. PICK next :
        /\ Check!Scan(AppendTo(f, w)) = Between(next)
        /\ \A h \in DOMAIN next :
             \/ h = c /\ next[h] \in 0 .. n
             \/ h # c /\ h \in DOMAIN seen /\ next[h] = seen[h]
  BY <1>4, <1>5, <1>6, LineScanned
<1>8. Scanned(files'[s][o]) = Between(next)
  <2>1. AppendTo(f, w) # NoFile
    BY <1>4, AppendToType, CrashAssumption
  <2> QED
    BY <1>4, <1>7, <2>1 DEF Scanned
<1>9. ASSUME NEW h \in DOMAIN next
      PROVE  /\ Appender(h) /\ next[h] \in 0 .. seqno'[h] - 1
             /\ ToCome(h, s, o)' => next[h] < seqno'[h] - 1
  <2>1. CASE h = c
    <3>1. Appender(c)
      BY DEF RequestInv, ToCome, Appender
    <3>2. next[h] \in 0 .. seqno'[h] - 1
      BY <1>3, <1>7, <2>1
    <3> QED
      BY <1>1, <2>1, <3>1, <3>2
  <2>2. CASE h # c
    <3>1. h \in DOMAIN seen /\ next[h] = seen[h]
      BY <1>7, <2>2
    <3>2. /\ Appender(h) /\ seen[h] \in 0 .. seqno[h] - 1
          /\ ToCome(h, s, o) => seen[h] < seqno[h] - 1
      BY <1>2, <3>1 DEF Lines
    <3>3. ToCome(h, s, o)' => ToCome(h, s, o)
      BY <2>2, <3>2 DEF ToCome, Appender
    <3> QED
      BY <3>1, <3>2, <3>3
  <2> QED
    BY <2>1, <2>2
<1> QED
  BY <1>1, <1>8, <1>9, LinesInvOfNext

LEMMA StepKeepsLines ==
  ASSUME RequestType, ServerType, AppendsOnly, NEW c \in Clients, RequestInv(c), StepOf(c),
         NEW s \in Servers, NEW o \in Objects, LinesInv(s, o), RequestType'
  PROVE  LinesInv(s, o)'
<1>0. seqno \in [Clients -> Nat] /\ Home[c] \in Servers
  BY HomeType DEF RequestType
<1>s. scenario' = scenario
  BY OthersKeep
<1>1. \A d \in Clients \ {c} : /\ pc'[d] = pc[d] /\ op'[d] = op[d] /\ seqno'[d] = seqno[d]
                               /\ rpc'[d][s] = rpc[d][s]
  BY OthersKeep
<1>2. \A d \in Clients \ {c} : ToCome(d, s, o)' => ToCome(d, s, o)
  BY <1>1 DEF ToCome
<1>3. ASSUME files'[s][o] = files[s][o],
             seqno'[c] = seqno[c] \/ seqno'[c] = seqno[c] + 1,
             ToCome(c, s, o)' => ToCome(c, s, o) \/ seqno'[c] = seqno[c] + 1
      PROVE  LinesInv(s, o)'
  <2>1. \A d \in Clients :
           /\ seqno'[d] = seqno[d] \/ seqno'[d] = seqno[d] + 1
           /\ ToCome(d, s, o)' => ToCome(d, s, o) \/ seqno'[d] = seqno[d] + 1
    BY <1>1, <1>2, <1>3
  <2> QED
    BY <1>0, <1>s, <1>3, <2>1, LinesStay
<1>4. CASE CallServer(c)
  <2>1. /\ pc[c] = "idle" /\ UNCHANGED <<files, rpc>>
        /\ \/ seqno' = seqno /\ op'[c].kind = "Get"
           \/ seqno' = [seqno EXCEPT ![c] = @ + 1]
    BY <1>4, CallEffect DEF RequestType
  <2>2. ToCome(c, s, o)' => seqno'[c] = seqno[c] + 1
    BY <1>0, <2>1 DEF ToCome
  <2>3. seqno'[c] = seqno[c] \/ seqno'[c] = seqno[c] + 1
    BY <1>0, <2>1
  <2> QED
    BY <1>3, <2>1, <2>2, <2>3
<1>5. CASE CallRefused(c) \/ Answer(c) \/ ExecuteHere(c) \/ JoinStarted(c)
  <2>1. op[c].kind # "Put"
    BY NoPuts
  <2>2. UNCHANGED <<files, op, seqno>> /\ pc'[c] # "called"
    BY <1>5, <2>1, GotoEffect
    DEF CallRefused, Answer, Reply, ExecuteHere, ReadSize, ReadFails, ReadData,
        LocalTruncate, JoinStarted
  <2>3. rpc'[c][s] = rpc[c][s] \/ rpc'[c][s] = "none"
    BY <1>5, <2>1
    DEF CallRefused, Answer, Reply, ExecuteHere, ReadSize, ReadFails, ReadData,
        LocalTruncate, JoinStarted, RequestType
  <2>4. ToCome(c, s, o)' => ToCome(c, s, o)
    BY <2>2, <2>3 DEF ToCome
  <2> QED
    BY <1>3, <2>2, <2>4
<1>6. CASE AppendsHere(c)
  <2>1. /\ pc[c] = "called" /\ pc'[c] = "sent" /\ UNCHANGED <<op, seqno>>
        /\ Appended(c, Home[c]) /\ op[c].kind = "Append" /\ StartThreadsToEntries(c)
    BY <1>6 DEF AppendsHere, Appended
  <2>2. CASE s = Home[c] /\ o = op[c].obj
    <3>1. rpc'[c][s] = "none"
      BY <1>0, <2>2 DEF RequestType
    <3>2. ~ToCome(c, s, op[c].obj)'
      BY <2>1, <3>1 DEF ToCome
    <3>3. ToCome(c, s, op[c].obj)
      BY <2>1 DEF ToCome
    <3> QED
      BY <1>1, <1>s, <2>1, <2>2, <3>2, <3>3, AppendKeepsLines
  <2>3. CASE s # Home[c] \/ o # op[c].obj
    <3>1. files'[s][o] = files[s][o]
      BY <2>1, <2>3 DEF Appended
    <3>2. ToCome(c, s, o)' => ToCome(c, s, o)
      BY <2>1 DEF ToCome
    <3> QED
      BY <1>3, <2>1, <3>1, <3>2
  <2> QED
    BY <2>2, <2>3
<1>7. ASSUME NEW t \in Servers, AppendsThere(c, t)
      PROVE  LinesInv(s, o)'
  <2>1. /\ UNCHANGED <<pc, op, seqno>> /\ Appended(c, t) /\ op[c].kind = "Append"
        /\ rpc[c][t] = "sent" /\ rpc'[c][t] = "done"
        /\ \A u \in Servers \ {t} : rpc'[c][u] = rpc[c][u]
    BY <1>7, SetRpcEffect DEF AppendsThere, Appended
  <2>2. CASE s = t /\ o = op[c].obj
    <3>1. pc[c] \in {"sent", "exited"}
      BY <2>1 DEF RequestInv
    <3>2. ~ToCome(c, s, op[c].obj)'
      BY <2>1, <2>2, <3>1 DEF ToCome
    <3>3. ToCome(c, s, op[c].obj)
      BY <2>1, <2>2 DEF ToCome
    <3> QED
      BY <1>1, <1>s, <2>1, <2>2, <3>2, <3>3, AppendKeepsLines
  <2>3. CASE s # t \/ o # op[c].obj
    <3>1. files'[s][o] = files[s][o]
      BY <2>1, <2>3 DEF Appended
    <3>2. ToCome(c, s, o)' => ToCome(c, s, o)
      BY <2>1 DEF ToCome
    <3> QED
      BY <1>3, <2>1, <3>1, <3>2
  <2> QED
    BY <2>2, <2>3
<1> QED
  BY <1>4, <1>5, <1>6, <1>7, WriteHereAppends, ExecuteThereAppends DEF StepOf
-----------------------------------------------------------------------------
(* The one client that writes, and the readers beside it.                  *)
LEMMA ReaderStep ==
  ASSUME RequestType, ServerType, NEW c \in Clients, OnlyWriter(c),
         NEW d \in Clients \ {c}, RequestInv(d), StepOf(d)
  PROVE  UNCHANGED files
<1>1. /\ op[d].kind = "Get" /\ pc[d] # "truncated"
      /\ \A s \in Servers : rpc[d][s] = "none"
  BY DEF OnlyWriter, RequestInv
<1>2. CASE CallServer(d)
  BY <1>2, CallEffect
<1>3. CASE CallRefused(d) \/ Answer(d) \/ ExecuteHere(d) \/ JoinStarted(d)
  BY <1>1, <1>3
  DEF CallRefused, Answer, Reply, ExecuteHere, ReadSize, ReadFails, ReadData, LocalTruncate,
      JoinStarted
<1>4. ~WriteHere(d) /\ \A s \in Servers : ~ExecuteThere(d, s)
  BY <1>1 DEF WriteHere, Goto, ExecuteThere, PeerTruncate, PeerWrite, PeerAppend, SetRpc
<1> QED
  BY <1>2, <1>3, <1>4 DEF StepOf

LEMMA OtherStepKeepsWriter ==
  ASSUME RequestType, ServerType, NEW c \in Clients, WriterInv(c),
         NEW d \in Clients \ {c}, RequestInv(d), StepOf(d)
  PROVE  WriterInv(c)'
<1>1. /\ pc'[c] = pc[c] /\ op'[c] = op[c] /\ (c \in early' <=> c \in early)
      /\ scenario' = scenario /\ \A t \in Servers : rpc'[c][t] = rpc[c][t]
  BY OthersKeep
<1>2. OnlyWriter(c) => UNCHANGED files
  BY ReaderStep
<1>3. OnlyWriter(c)' <=> OnlyWriter(c)
  BY <1>1 DEF OnlyWriter
<1>4. OnlyWriter(c) => HomeFile(c)' = HomeFile(c)
  BY <1>1, <1>2 DEF HomeFile
<1>5. OnlyWriter(c) => \A s \in Servers : PeerInv(c, s) => PeerInv(c, s)'
  BY <1>1, <1>2, <1>4 DEF PeerInv
<1> QED
  BY <1>1, <1>2, <1>3, <1>4, <1>5 DEF WriterInv, Peers

LEMMA DeathKeepsWriter ==
  ASSUME CrashTypeOK, NEW s \in Servers, Dies(s), NEW c \in Clients, WriterInv(c)
  PROVE  WriterInv(c)'
<1>1. UNCHANGED <<files, op, scenario, early>>
  BY CallsAfterDeath
<1>2. pc'[c] = IF Home[c] = s /\ pc[c] # "idle" THEN "exited" ELSE pc[c]
  BY CallsAfterDeath
<1>3. \A t \in Servers : Home[c] # s => rpc'[c][t] \in {rpc[c][t], "lost"}
  BY CallsAfterDeath
<1>4. (OnlyWriter(c)' <=> OnlyWriter(c)) /\ HomeFile(c)' = HomeFile(c)
  BY <1>1 DEF OnlyWriter, HomeFile
<1>5. Home[c] # s => \A t \in Servers : PeerInv(c, t) => PeerInv(c, t)'
  BY <1>1, <1>3, <1>4 DEF PeerInv
<1> QED
  BY <1>1, <1>2, <1>3, <1>4, <1>5 DEF WriterInv, Peers

LEMMA OwnStepKeepsWriter ==
  ASSUME RequestType, ServersInv, NEW c \in Clients, RequestInv(c), StepOf(c), WriterInv(c),
         RequestType', RequestInv(c)'
  PROVE  WriterInv(c)'
<1>0. ServerType /\ Home[c] \in Servers /\ op[c].obj \in Objects /\ op'[c].obj \in Objects
  BY HomeType DEF ServersInv, RequestType
<1>1. c \notin early' => c \notin early
  BY <1>0, OthersKeep
<1>2. OnlyWriter(c)' <=> OnlyWriter(c)
  BY <1>0, OthersKeep DEF OnlyWriter
<1> SUFFICES ASSUME c \notin early', c \notin early, OnlyWriter(c)
             PROVE  WriterInv(c)'
  BY <1>1, <1>2 DEF WriterInv
<1>3. /\ pc[c] \in {"idle", "called", "sized", "done"} =>
           \A s, t \in Servers : files[s] = files[t]
      /\ pc[c] \in {"truncated", "sent"} =>
           \A s, t \in Servers, o \in Objects : o # op[c].obj => files[s][o] = files[t][o]
      /\ pc[c] = "truncated" => HomeFile(c) = <<>>
      /\ pc[c] = "sent" => \A s \in Peers(c) : rpc[c][s] # "none" /\ PeerInv(c, s)
  BY DEF WriterInv
<1>4. ASSUME \A s, t \in Servers : files'[s] = files'[t], pc'[c] \notin {"truncated", "sent"}
      PROVE  WriterInv(c)'
  BY <1>4 DEF WriterInv
<1>5. CASE CallServer(c) \/ Answer(c) \/ ReadSize(c) \/ ReadFails(c) \/ ReadData(c)
  <2>1. /\ pc[c] \in {"idle", "called", "sized", "done"} /\ UNCHANGED files
        /\ pc'[c] \notin {"truncated", "sent"}
    <3>1. CASE CallServer(c)
      BY <3>1, CallEffect DEF RequestType
    <3>2. CASE Answer(c) \/ ReadSize(c) \/ ReadFails(c) \/ ReadData(c)
      BY <3>2, GotoEffect DEF Answer, Reply, ReadSize, ReadFails, ReadData
    <3> QED
      BY <1>5, <3>1, <3>2
  <2> QED
    BY <1>3, <1>4, <2>1
<1>6. CASE CallRefused(c)
  <2>1. pc'[c] = "exited"
    BY <1>6, GotoEffect DEF CallRefused
  <2> QED
    BY <2>1 DEF WriterInv
<1>7. CASE JoinStarted(c)
  <2>1. /\ pc[c] = "sent" /\ pc'[c] = "done" /\ UNCHANGED files
        /\ \A s \in Servers : rpc[c][s] \in {"none", "done"}
    BY <1>7, GotoEffect DEF JoinStarted
  <2>2. ASSUME NEW s \in Servers
        PROVE  files[s][op[c].obj] = HomeFile(c)
    <3>1. CASE s = Home[c]
      BY <3>1 DEF HomeFile
    <3>2. CASE s # Home[c]
      <4>1. rpc[c][s] = "done" /\ PeerInv(c, s)
        BY <1>3, <2>1, <3>2 DEF Peers
      <4> QED
        BY <4>1 DEF PeerInv
    <3> QED
      BY <3>1, <3>2
  <2>3. ASSUME NEW s \in Servers, NEW t \in Servers
        PROVE  files[s] = files[t]
    <3>1. \A o \in Objects : files[s][o] = files[t][o]
      BY <1>3, <2>1, <2>2
    <3> QED
      BY <3>1 DEF RequestType
  <2> QED
    BY <1>4, <2>1, <2>3
<1>8. CASE LocalTruncate(c)
  <2>1. /\ pc[c] = "called" /\ pc'[c] = "truncated" /\ UNCHANGED op
        /\ SetFile(Home[c], op[c].obj, <<>>)
    BY <1>8, GotoEffect DEF LocalTruncate, Truncate
  <2>2. /\ files'[Home[c]][op[c].obj] = <<>>
        /\ \A t \in Servers, o \in Objects : o # op[c].obj => files'[t][o] = files[t][o]
    BY <1>0, <2>1, SetFileEffect
  <2>3. HomeFile(c)' = <<>>
    BY <2>1, <2>2 DEF HomeFile
  <2>4. \A s, t \in Servers, o \in Objects : o # op'[c].obj => files'[s][o] = files'[t][o]
    BY <1>3, <2>1, <2>2
  <2> QED
    BY <2>1, <2>3, <2>4 DEF WriterInv
<1>9. CASE WriteHere(c)
  <2>1. PICK w : w = op[c].content
    OBVIOUS
  <2>2. w \in Seq(Chunk)
    BY <2>1, HomeFileType
  <2>3. /\ UNCHANGED op /\ pc'[c] = "sent" /\ StartThreadsToEntries(c)
        /\ \/ /\ pc[c] = "truncated"
              /\ SetFile(Home[c], op[c].obj, WriteAtStart(HomeFile(c), w))
           \/ /\ pc[c] = "called" /\ op[c].kind = "Append"
              /\ SetFile(Home[c], op[c].obj, AppendTo(HomeFile(c), w))
    BY <1>9, <2>1, GotoEffect DEF WriteHere
  <2>4. \A s \in Servers : s # Home[c] => rpc'[c][s] = "sent"
    <3>1. state[Home[c]] = "serving"
      BY <1>0, <2>3, StartEffect
    <3>2. todo[Home[c]] = {}
      BY <1>0, <3>1 DEF ServersInv, AddServersInv
    <3>3. \A s \in Servers : s # Home[c] => proxy[Home[c]][s] \in {"ok", "freed"}
      BY <1>0, <3>1, <3>2 DEF ServersInv, ProxyInv
    <3>4. \A s \in Servers : rpc'[c][s] = CASE proxy[Home[c]][s] = "none" -> "none"
                                            [] proxy[Home[c]][s] = "null" -> "lost"
                                            [] OTHER -> "sent"
      BY <1>0, <2>3, StartEffect
    <3> QED
      BY <3>3, <3>4
  <2>5. /\ \A t \in Servers, o \in Objects : t # Home[c] \/ o # op[c].obj =>
             files'[t][o] = files[t][o]
        /\ pc[c] = "truncated" => files'[Home[c]][op[c].obj] = WriteAtStart(HomeFile(c), w)
        /\ pc[c] = "called" => files'[Home[c]][op[c].obj] = AppendTo(HomeFile(c), w)
    BY <1>0, <2>3, SetFileEffect
  <2>6. HomeFile(c)' = files'[Home[c]][op[c].obj]
    BY <2>3 DEF HomeFile
  <2>7. ASSUME NEW s \in Peers(c)
        PROVE  rpc'[c][s] # "none" /\ PeerInv(c, s)'
    <3>1. s \in Servers /\ s # Home[c] /\ rpc'[c][s] = "sent"
      BY <2>4 DEF Peers
    <3>2. CASE pc[c] = "truncated"
      <4>1. HomeFile(c)' = w
        BY <1>3, <2>2, <2>5, <2>6, <3>2, WriteToEmpty
      <4>2. op'[c].kind = "Put" /\ op'[c].content = w
        BY <2>1, <2>3, <3>2 DEF RequestInv
      <4> QED
        BY <3>1, <4>1, <4>2 DEF PeerInv
    <3>3. CASE pc[c] = "called" /\ op[c].kind = "Append"
      <4>1. files'[s][op[c].obj] = HomeFile(c)
        <5>1. files[s] = files[Home[c]]
          BY <1>0, <1>3, <3>1, <3>3
        <5> QED
          BY <1>0, <2>5, <3>1, <5>1 DEF HomeFile
      <4>2. HomeFile(c)' = AppendTo(files'[s][op'[c].obj], op'[c].content)
        BY <2>1, <2>3, <2>5, <2>6, <3>3, <4>1
      <4>3. op'[c].kind # "Put"
        BY <2>3, <3>3
      <4> QED
        BY <3>1, <4>2, <4>3 DEF PeerInv
    <3> QED
      BY <2>3, <3>2, <3>3
  <2>8. \A s, t \in Servers, o \in Objects : o # op'[c].obj => files'[s][o] = files'[t][o]
    BY <1>3, <2>3, <2>5
  <2> QED
    BY <2>3, <2>7, <2>8 DEF WriterInv, Peers
<1>10. ASSUME NEW s \in Servers, ExecuteThere(c, s)
       PROVE  WriterInv(c)'
  <2>1. PICK w : w = op[c].content
    OBVIOUS
  <2>2. w \in Seq(Chunk)
    BY <2>1, HomeFileType
  <2>3. /\ UNCHANGED <<pc, op>>
        /\ \/ /\ op[c].kind = "Put" /\ SetRpc(c, s, "sent", "truncated")
              /\ SetFile(s, op[c].obj, <<>>)
           \/ /\ SetRpc(c, s, "truncated", "done")
              /\ SetFile(s, op[c].obj, WriteAtStart(files[s][op[c].obj], w))
           \/ /\ op[c].kind = "Append" /\ SetRpc(c, s, "sent", "done")
              /\ SetFile(s, op[c].obj, AppendTo(files[s][op[c].obj], w))
    BY <1>10, <2>1 DEF ExecuteThere, PeerTruncate, PeerWrite, PeerAppend, Truncate
  <2>4. /\ rpc[c][s] # "none" /\ s # Home[c]
        /\ \A t \in Servers \ {s} : rpc'[c][t] = rpc[c][t]
        /\ rpc'[c][s] # "none"
    BY <1>0, <2>3, SetRpcEffect DEF RequestType
  <2>5. pc[c] \in {"sent", "exited"}
    BY <2>4 DEF RequestInv
  <2>6. \A t \in Servers, o \in Objects : t # s \/ o # op[c].obj => files'[t][o] = files[t][o]
    BY <1>0, <2>3, SetFileEffect
  <2>7. HomeFile(c)' = HomeFile(c)
    BY <1>0, <2>3, <2>4, <2>6 DEF HomeFile
  <2>8. ASSUME pc[c] = "sent"
        PROVE  PeerInv(c, s)'
    <3>1. PeerInv(c, s)
      BY <1>3, <2>4, <2>8 DEF Peers
    <3>2. CASE op[c].kind = "Put" /\ rpc[c][s] = "sent"
      <4>1. rpc'[c][s] = "truncated" /\ files'[s][op[c].obj] = <<>>
        BY <1>0, <2>3, <3>2, SetRpcEffect, SetFileEffect
      <4> QED
        BY <2>3, <2>7, <3>1, <3>2, <4>1 DEF PeerInv
    <3>3. CASE rpc[c][s] = "truncated"
      <4>1. rpc'[c][s] = "done" /\ files'[s][op[c].obj] = WriteAtStart(files[s][op[c].obj], w)
        BY <1>0, <2>3, <3>3, SetRpcEffect, SetFileEffect
      <4>2. op[c].kind = "Put" /\ files[s][op[c].obj] = <<>> /\ HomeFile(c) = w
        BY <2>1, <3>1, <3>3 DEF PeerInv, RequestInv
      <4>3. files'[s][op[c].obj] = w
        BY <2>2, <4>1, <4>2, WriteToEmpty
      <4> QED
        BY <2>1, <2>3, <2>7, <4>1, <4>2, <4>3 DEF PeerInv
    <3>4. CASE op[c].kind = "Append" /\ rpc[c][s] = "sent"
      <4>1. rpc'[c][s] = "done" /\ files'[s][op[c].obj] = AppendTo(files[s][op[c].obj], w)
        BY <1>0, <2>3, <3>4, SetRpcEffect, SetFileEffect
      <4>2. AppendTo(files[s][op[c].obj], w) = HomeFile(c)
        BY <2>1, <3>1, <3>4 DEF PeerInv
      <4> QED
        BY <2>3, <2>7, <3>4, <4>1, <4>2 DEF PeerInv
    <3> QED
      BY <2>3, <3>2, <3>3, <3>4 DEF SetRpc
  <2>9. ASSUME pc[c] = "sent", NEW t \in Peers(c)
        PROVE  rpc'[c][t] # "none" /\ PeerInv(c, t)'
    <3>1. CASE t = s
      BY <2>4, <2>8, <2>9, <3>1
    <3>2. CASE t # s
      <4>1. t \in Servers /\ rpc[c][t] # "none" /\ PeerInv(c, t)
        BY <1>3, <2>9 DEF Peers
      <4>2. rpc'[c][t] = rpc[c][t] /\ files'[t][op[c].obj] = files[t][op[c].obj]
        BY <1>0, <2>4, <2>6, <3>2, <4>1
      <4> QED
        BY <2>3, <2>7, <4>1, <4>2 DEF PeerInv
    <3> QED
      BY <3>1, <3>2
  <2>10. pc[c] = "sent" =>
           \A u, t \in Servers, o \in Objects : o # op'[c].obj => files'[u][o] = files'[t][o]
    BY <1>3, <2>3, <2>6
  <2> QED
    BY <2>3, <2>5, <2>9, <2>10 DEF WriterInv, Peers
<1> QED
  BY <1>5, <1>6, <1>7, <1>8, <1>9, <1>10 DEF StepOf, ExecuteHere
-----------------------------------------------------------------------------
ScenarioInv ==
  AppendsOnly =>
    /\ \A c \in Clients : GetInv(c) /\ AppendInv(c)
    /\ \A s \in Servers, o \in Objects : LinesInv(s, o)

LEMMA CrashInvParts ==
  CrashInv <=> /\ RequestType /\ ServersInv
               /\ \A c \in Clients : RequestInv(c) /\ WriterInv(c)
               /\ ScenarioInv
BY TypeParts DEF CrashInv, ServersInv, ScenarioInv

LEMMA InitialLines ==
  ASSUME NEW s \in Servers, NEW o \in Objects, files[s][o] \in {NoFile, <<Zeros>>}
  PROVE  LinesInv(s, o)
<1>1. PICK none : none = [h \in {} |-> 0]
  OBVIOUS
<1>2. DOMAIN none = {}
  BY <1>1
<1>3. PICK z : z = Zeros
  OBVIOUS
<1>4. z = [client |-> Initial, n |-> 0, eol |-> TRUE] /\ z \in Chunk
  BY <1>3 DEF Zeros, Chunk
<1>5. PICK file : file = <<z>>
  OBVIOUS
<1>6. file \in Seq(Chunk) /\ Len(file) = 1 /\ file[1] = z
  BY <1>4, <1>5
<1>7. Check!Scan(file) = Between(none)
  <2>1. PICK st : /\ st[0] = Check!Start
                  /\ \A i \in 1 .. Len(file) : st[i] = Check!Token(st[i - 1], file[i])
                  /\ Check!Scan(file) = st[Len(file)]
    BY <1>6, ScanFile
  <2>2. st[1] = Check!Token(st[0], z) /\ Check!Scan(file) = st[1]
    BY <1>6, <2>1
  <2>3. st[0] = Between(none)
    BY <1>1, <2>1, StartIsBetween
  <2>4. Check!Token(Between(none), z) = Between(none)
    BY <1>4, LineOfInitial
  <2> QED
    BY <2>2, <2>3, <2>4
<1>8. Scanned(NoFile) = Between(none)
  BY <1>1, StartIsBetween DEF Scanned
<1>9. Scanned(files[s][o]) = Between(none)
  BY <1>3, <1>5, <1>7, <1>8 DEF Scanned
<1> QED
  BY <1>2, <1>9, LinesInvFrom DEF Lines

LEMMA Initially == InitCrash => CrashInv
<1> SUFFICES ASSUME InitCrash PROVE CrashInv
  OBVIOUS
<1>1. PICK f \in Dataset : files = [s \in Servers |-> f]
  BY DEF InitCrash, Init
<1>2. /\ f \in [Objects -> {NoFile, <<Zeros>>}]
      /\ files \in [Servers -> [Objects -> Seq(Chunk) \cup {NoFile}]]
  <2>1. Zeros \in Chunk
    BY DEF Zeros, Chunk
  <2>2. <<Zeros>> \in Seq(Chunk)
    BY <2>1
  <2> QED
    BY <1>1, <2>2 DEF Dataset
<1>3. /\ pc = [c \in Clients |-> "idle"]
      /\ op = [c \in Clients |->
                 [kind |-> "Get", obj |-> CHOOSE o \in Objects : TRUE, content |-> <<>>]]
      /\ size = [c \in Clients |-> 0] /\ got = [c \in Clients |-> NoFile]
      /\ rpc = [c \in Clients |-> [s \in Servers |-> "none"]]
      /\ seqno = [c \in Clients |-> 0]
      /\ scenario \in Scenarios /\ early = {}
  BY DEF InitCrash, Init
<1>4. RequestType
  <2>1. (CHOOSE o \in Objects : TRUE) \in Objects
    BY ConfigAssumption
  <2>2. <<>> \in Seq(Chunk)
    OBVIOUS
  <2>3. op \in [Clients -> [kind : {"Get", "Put", "Append"}, obj : Objects,
                            content : Seq(Chunk)]]
    BY <1>3, <2>1, <2>2
  <2>4. \A c \in Clients : rpc[c][Home[c]] = "none"
    BY <1>3, HomeType
  <2> QED
    BY <1>2, <1>3, <2>3, <2>4 DEF RequestType
<1>5. ServersInv
  <2>1. /\ state = [s \in Servers |-> "serving"]
        /\ proxy = [s \in Servers |-> [t \in Servers |-> IF t = s THEN "none" ELSE "ok"]]
        /\ dangling = {} /\ kills = 0 /\ starts = 0
        /\ todo = [s \in Servers |-> {}] /\ adding = [s \in Servers |-> Nobody]
        /\ master_up = TRUE /\ entry = [s \in Servers |-> "ok"]
        /\ joiner = Nobody /\ notifying = Nobody /\ tell = {}
    BY DEF InitCrash
  <2>2. ServerType
    BY <2>1 DEF ServerType
  <2>3. JoinInv /\ AddServersInv /\ ProxyInv
    BY <2>1 DEF JoinInv, AddServersInv, ProxyInv
  <2> QED
    BY <2>2, <2>3 DEF ServersInv
<1>6. ASSUME NEW c \in Clients
      PROVE  RequestInv(c) /\ WriterInv(c) /\ GetInv(c) /\ AppendInv(c)
  <2>1. /\ pc[c] = "idle" /\ op[c].kind = "Get" /\ op[c].content = <<>>
        /\ \A s \in Servers : rpc[c][s] = "none"
    BY <1>3
  <2>2. RequestInv(c)
    BY <2>1 DEF RequestInv
  <2>3. \A s, t \in Servers : files[s] = files[t]
    BY <1>1
  <2>4. WriterInv(c)
    BY <2>1, <2>3 DEF WriterInv
  <2>5. GetInv(c)
    BY <2>1 DEF GetInv
  <2>6. AppendInv(c)
    <3>1. \A s \in Servers, o \in Objects : Level(c, s, o)
      BY <2>3, HomeType DEF Level
    <3>2. \A s \in Servers : Due(c, s)
      BY <2>1 DEF Due
    <3>3. AppendInv(c) <=>
            (c \notin early =>
               /\ pc[c] = "sent" => \A s \in Peers(c) : rpc[c][s] # "none"
               /\ \A s \in Servers, o \in Objects : Level(c, s, o)
               /\ \A s \in Servers : Due(c, s))
      BY <1>4, AppendInvParts
    <3> QED
      BY <2>1, <3>1, <3>2, <3>3
  <2> QED
    BY <2>2, <2>4, <2>5, <2>6
<1>7. \A s \in Servers, o \in Objects : LinesInv(s, o)
  BY <1>1, <1>2, InitialLines
<1> QED
  BY <1>4, <1>5, <1>6, <1>7, CrashInvParts DEF ScenarioInv

LEMMA NextKeepsScenario ==
  ASSUME CrashInv, [NextCrash]_crashVars, RequestType', \A c \in Clients : RequestInv(c)'
  PROVE  ScenarioInv' /\ \A c \in Clients : WriterInv(c)'
<1>0. /\ CrashTypeOK /\ RequestType /\ ServerType /\ ServersInv /\ ScenarioInv
      /\ \A c \in Clients : RequestInv(c) /\ WriterInv(c)
  BY CrashInvParts, TypeParts DEF ServersInv
<1>1. CASE UNCHANGED dataVars
  <2>1. UNCHANGED <<files, pc, op, size, got, rpc, seqno, scenario, early>>
    BY <1>1 DEF dataVars
  <2>2. \A c \in Clients : HomeFile(c)' = HomeFile(c)
    BY <2>1 DEF HomeFile
  <2>3. \A c \in Clients : WriterInv(c)'
    BY <1>0, <2>1, <2>2 DEF WriterInv, OnlyWriter, PeerInv
  <2>4. (AppendsOnly' <=> AppendsOnly) /\ \A c \in Clients : GetInv(c) => GetInv(c)'
    BY <2>1, <2>2 DEF AppendsOnly, GetInv
  <2>5. ASSUME NEW c \in Clients, AppendInv(c)
        PROVE  AppendInv(c)'
    <3>1. /\ \A s \in Servers, o \in Objects : Level(c, s, o) => Level(c, s, o)'
          /\ \A s \in Servers : Due(c, s) => Due(c, s)'
      BY <2>1 DEF Level, Due
    <3>2. op'[c].obj \in Objects
      BY DEF RequestType
    <3>3. AppendInv(c)' <=>
            (c \notin early' =>
               /\ pc'[c] = "sent" => \A s \in Peers(c) : rpc'[c][s] # "none"
               /\ \A s \in Servers, o \in Objects : Level(c, s, o)'
               /\ \A s \in Servers : Due(c, s)')
      BY <3>2 DEF AppendInv, Level, Due, Peers
    <3> QED
      BY <1>0, <2>1, <2>5, <3>1, <3>3, AppendInvParts DEF Peers
  <2>6. \A s \in Servers, o \in Objects : LinesInv(s, o) => LinesInv(s, o)'
    BY <2>1 DEF LinesInv, ToCome
  <2> QED
    BY <1>0, <2>3, <2>4, <2>5, <2>6 DEF ScenarioInv
<1>2. ASSUME NEW s \in Servers, Dies(s)
      PROVE  ScenarioInv' /\ \A c \in Clients : WriterInv(c)'
  <2>1. AppendsOnly' <=> AppendsOnly
    BY <1>2 DEF AppendsOnly, Dies
  <2> QED
    BY <1>0, <1>2, <2>1, DeathKeepsWriter, DeathKeepsGets, DeathKeepsAppends,
       DeathKeepsLines DEF ScenarioInv
<1>3. ASSUME NEW c \in Clients, StepOf(c)
      PROVE  ScenarioInv' /\ \A d \in Clients : WriterInv(d)'
  <2>1. AppendsOnly' <=> AppendsOnly
    BY <1>0, <1>3, OthersKeep DEF AppendsOnly
  <2>2. \A d \in Clients : WriterInv(d)'
    BY <1>0, <1>3, OtherStepKeepsWriter, OwnStepKeepsWriter
  <2>3. AppendsOnly => \A d \in Clients : GetInv(d)'
    BY <1>0, <1>3, StepKeepsGets DEF ScenarioInv
  <2>4. AppendsOnly => \A d \in Clients : AppendInv(d)'
    BY <1>0, <1>3, OtherStepKeepsAppends, OwnStepKeepsAppends DEF ScenarioInv
  <2>5. AppendsOnly => \A s \in Servers, o \in Objects : LinesInv(s, o)'
    BY <1>0, <1>3, StepKeepsLines DEF ScenarioInv
  <2> QED
    BY <2>1, <2>2, <2>3, <2>4, <2>5 DEF ScenarioInv
<1> QED
  BY <1>0, <1>1, <1>2, <1>3, StepKinds

(* The invariant holds whatever the clients do and whichever processes     *)
(* are killed and started again.                                           *)
THEOREM Invariance == SpecCrash => []CrashInv
<1>1. CrashInv /\ [NextCrash]_crashVars => CrashInv'
  <2> SUFFICES ASSUME CrashInv, [NextCrash]_crashVars PROVE CrashInv'
    OBVIOUS
  <2>1. CrashTypeOK /\ ServersInv /\ \A c \in Clients : RequestInv(c)
    BY CrashInvParts, TypeParts DEF ServersInv
  <2>2. ServersInv' /\ RequestType' /\ \A c \in Clients : RequestInv(c)'
    BY <2>1, NextKeepsServers, NextKeepsRequests
  <2>3. ScenarioInv' /\ \A c \in Clients : WriterInv(c)'
    BY <2>2, NextKeepsScenario
  <2>4. CrashTypeOK'
    BY <2>2 DEF CrashTypeOK, RequestType, ServersInv, ServerType
  <2> QED
    BY <2>2, <2>3, <2>4 DEF CrashInv, ServersInv, ScenarioInv
<1> QED
  BY Initially, <1>1, PTL DEF SpecCrash

(* CheckerAccepts: with appends only, and no two appending clients on one  *)
(* machine, check_integrity prints nothing.                                *)
THEOREM AppendsPassTheChecker == SpecCrash => []CheckerAccepts
<1>1. CrashInv => CheckerAccepts
  <2> SUFFICES ASSUME CrashInv, AppendsOnly, OneAppenderPerHost,
                      NEW s \in Servers, NEW o \in Objects, files[s][o] # NoFile
               PROVE  Check!Printed(Named(files[s][o])) = {}
    BY DEF CheckerAccepts
  <2>1. PICK file \in Seq(Chunk) : file = files[s][o]
    BY DEF CrashInv, CrashTypeOK
  <2>2. PICK st : st = Check!Scan(file)
    OBVIOUS
  <2>3. /\ st = [seqno |-> st.seqno, t2 |-> <<>>, printed |-> {}]
        /\ \A c \in DOMAIN st.seqno : c \in Clients /\ "Append" \in scenario.kinds[c]
    BY <2>1, <2>2 DEF CrashInv, LinesInv
  <2>4. Check!Printed(file) = {}
    BY <2>2, <2>3 DEF Check!Printed
  <2>5. file \in Seq(TokensOf(Clients))
    BY ChunksAreTokens
  <2>6. Check!Consistent(file)
    BY <2>4, <2>5, CheckerFindsInconsistency
  <2>7. PICK seen : st.seqno = seen /\ LastNumbers(file, Len(file), seen)
    BY <2>2, <2>3, <2>5, ScannedFile DEF ScanInv, At
  <2>8. \A i \in 1 .. Len(file) :
          file[i].client # Initial =>
            file[i].client \in Clients /\ "Append" \in scenario.kinds[file[i].client]
    BY <2>3, <2>7 DEF LastNumbers
  <2>9. NamesApart(file)
    BY <2>8 DEF NamesApart, OneAppenderPerHost
  <2>10. Check!Consistent(Named(file))
    BY <2>6, <2>9, ConsistentByHost
  <2>11. Named(file) \in Seq(TokensOf({Host[c] : c \in Clients}))
    BY NamedTokens
  <2> QED
    BY <2>1, <2>10, <2>11, CheckerFindsInconsistency
<1> QED
  BY <1>1, Invariance, PTL

(* CheckerExact: nor does exchanging chunks of a replica escape it.        *)
THEOREM ExchangesAreFound == SpecCrash => []CheckerExact
<1>1. CrashInv => CheckerExact
  <2> SUFFICES ASSUME CrashInv, NEW s \in Servers, NEW o \in Objects,
                      files[s][o] # NoFile,
                      NEW i \in 1 .. Len(files[s][o]), NEW j \in i .. Len(files[s][o])
               PROVE  Check!Printed(Exchanged(Named(files[s][o]), i, j)) = {}
                        <=> Check!Consistent(Exchanged(Named(files[s][o]), i, j))
    BY DEF CheckerExact
  <2>1. PICK S : S = TokensOf({Host[c] : c \in Clients})
    OBVIOUS
  <2>2. PICK file \in Seq(S) : file = Named(files[s][o]) /\ Len(file) = Len(files[s][o])
    <3>1. files[s][o] \in Seq(Chunk)
      BY DEF CrashInv, CrashTypeOK
    <3>2. Named(files[s][o]) \in Seq(S) /\ Len(Named(files[s][o])) = Len(files[s][o])
      BY <2>1, <3>1, NamedTokens, Zenon
    <3> QED
      BY <3>2
  <2>3. Exchanged(file, i, j) \in Seq(S)
    BY <2>2 DEF Exchanged
  <2> QED
    BY <2>1, <2>2, <2>3, CheckerFindsInconsistency
<1> QED
  BY <1>1, Invariance, PTL

(* OwnWritesEverywhere: an answered client's appends are on all replicas.  *)
THEOREM AnsweredAppendsAreEverywhere == SpecCrash => []OwnWritesEverywhere
<1>1. CrashInv => OwnWritesEverywhere
  <2> SUFFICES ASSUME CrashInv, AppendsOnly
               PROVE  OwnWritesEverywhere
    BY DEF OwnWritesEverywhere
  <2>1. RequestType /\ \A c \in Clients : AppendInv(c)
    BY TypeParts DEF CrashInv
  <2> QED
    BY <2>1, LevelBefore DEF OwnWritesEverywhere
<1> QED
  BY <1>1, Invariance, PTL

(* LagsByOneAppend: replicas differ by at most one append of each client.  *)
THEOREM ReplicasLagByOneAppend == SpecCrash => []LagsByOneAppend
<1>1. CrashInv => LagsByOneAppend
  <2> SUFFICES ASSUME CrashInv, AppendsOnly, NEW c \in Clients \ early, NEW o \in Objects,
                      NEW s \in Servers, NEW t \in Servers
               PROVE  LET a == ChunksOf(c, files[s][o])
                          b == ChunksOf(c, files[t][o])
                      IN  a = b \/ a \o op[c].content = b \/ b \o op[c].content = a
    BY DEF LagsByOneAppend
  <2>1. RequestType /\ AppendInv(c)
    BY TypeParts DEF CrashInv
  <2>2. PICK a, b, w, here : /\ a = ChunksOf(c, files[s][o]) /\ b = ChunksOf(c, files[t][o])
                             /\ w = op[c].content /\ here = ChunksOf(c, files[Home[c]][o])
    OBVIOUS
  <2>3. a \in Seq(Chunk) /\ b \in Seq(Chunk) /\ w \in Seq(Chunk)
    <3>1. /\ files[s][o] \in Seq(Chunk) \cup {NoFile}
          /\ files[t][o] \in Seq(Chunk) \cup {NoFile}
      BY <2>1 DEF RequestType
    <3> QED
      BY <2>1, <2>2, <3>1, ChunksOfType, HomeFileType
  <2>4. (a = here \/ a \o w = here) /\ (b = here \/ b \o w = here)
    BY <2>1, <2>2, AppendInvParts DEF Level
  <2>5. a \o w = b \o w => a = b
    BY <2>3, SamePrefix
  <2>6. a = b \/ a \o w = b \/ b \o w = a
    BY <2>4, <2>5
  <2> QED
    BY <2>2, <2>6
<1> QED
  BY <1>1, Invariance, PTL

(* GetReturnsPrefix: with appends only, no Get returns what never was.     *)
THEOREM GetsReturnWhatWas == SpecCrash => []GetReturnsPrefix
<1>1. CrashInv => GetReturnsPrefix
  BY DEF CrashInv, GetInv, GetReturnsPrefix
<1> QED
  BY <1>1, Invariance, PTL

(* SingleWriterAgreement: with one writer the replicas agree between its   *)
(* calls.                                                                  *)
THEOREM ReplicasOfOneWriterAgree == SpecCrash => []SingleWriterAgreement
<1>1. CrashInv => SingleWriterAgreement
  BY DEF CrashInv, WriterInv, SingleWriterAgreement
<1> QED
  BY <1>1, Invariance, PTL

(* PeersUsable: two servers that serve can call each other.                *)
THEOREM ServingPeersAreUsable == SpecCrash => []PeersUsable
<1>1. CrashInv => PeersUsable
  <2> SUFFICES ASSUME CrashInv, NEW s \in Servers, NEW t \in Servers,
                      s # t, state[s] = "serving", state[t] = "serving"
               PROVE  proxy[s][t] = "ok"
    BY DEF PeersUsable
  <2>1. todo[s] = {}
    BY DEF CrashInv, AddServersInv
  <2> QED
    BY <2>1 DEF CrashInv, ProxyInv
<1> QED
  BY <1>1, Invariance, PTL

(* A replica begins with f. *)
Begins(s, o, f) ==
  /\ files[s][o] # NoFile /\ files[s][o] \in Seq(Chunk)
  /\ Len(f) <= Len(files[s][o]) /\ SubSeq(files[s][o], 1, Len(f)) = f

LEMMA StepKeepsBeginning ==
  ASSUME CrashInv, [NextCrash]_crashVars, AppendsOnly,
         NEW s \in Servers, NEW o \in Objects, NEW f \in Seq(Chunk), Begins(s, o, f)
  PROVE  AppendsOnly' /\ Begins(s, o, f)'
<1>0. CrashTypeOK /\ RequestType /\ ServerType /\ \A c \in Clients : RequestInv(c)
  BY CrashInvParts, TypeParts DEF ServersInv
<1>1. CASE UNCHANGED dataVars
  BY <1>1 DEF dataVars, AppendsOnly, Begins
<1>2. ASSUME NEW t \in Servers, Dies(t)
      PROVE  AppendsOnly' /\ Begins(s, o, f)'
  <2>1. files' = files /\ scenario' = scenario
    BY <1>0, <1>2, CallsAfterDeath
  <2> QED
    BY <2>1 DEF AppendsOnly, Begins
<1>3. ASSUME NEW c \in Clients, StepOf(c)
      PROVE  AppendsOnly' /\ Begins(s, o, f)'
  <2>1. AppendsOnly'
    BY <1>0, <1>3, OthersKeep DEF AppendsOnly
  <2>2. PICK file : file = files[s][o]
    OBVIOUS
  <2>3. PICK next : next = files'[s][o]
    OBVIOUS
  <2>4. file \in Seq(Chunk) /\ file # NoFile /\ Len(f) <= Len(file) /\ SubSeq(file, 1, Len(f)) = f
    BY <2>2 DEF Begins
  <2>5. next = file \/ \E content \in Seq(Chunk) : next = AppendTo(file, content)
    BY <1>0, <1>3, <2>2, <2>3, FilesGrow
  <2>6. ASSUME NEW content \in Seq(Chunk), next = AppendTo(file, content)
        PROVE  /\ next # NoFile /\ next \in Seq(Chunk)
               /\ Len(f) <= Len(next) /\ SubSeq(next, 1, Len(f)) = f
    <3>1. next = file \o content /\ next \in Seq(Chunk)
      BY <2>4, <2>6 DEF AppendTo
    <3>2. Len(f) \in 0 .. Len(file)
      BY <2>4
    <3>3. SubSeq(file \o content, 1, Len(f)) = SubSeq(file, 1, Len(f)) /\ Len(f) <= Len(file \o content)
      BY <2>4, <3>2, PrefixOfLonger
    <3> QED
      BY <2>4, <3>1, <3>3, CrashAssumption
  <2>7. Begins(s, o, f)'
    BY <2>3, <2>4, <2>5, <2>6 DEF Begins
  <2> QED
    BY <2>1, <2>7
<1> QED
  BY <1>0, <1>1, <1>2, <1>3, StepKinds

(* With appends only a replica never loses what it has, nor the place of   *)
(* it: whatever it is at one moment it begins with ever after, although no *)
(* lock orders the appends and their servers are killed between the opens  *)
(* and the writes.  So what a Get has returned is a prefix of all later    *)
(* contents of the file that it read.                                      *)
THEOREM RecordsStay ==
  SpecCrash => \A s \in Servers, o \in Objects, f \in Seq(Chunk) :
                 [](AppendsOnly /\ Begins(s, o, f) => []Begins(s, o, f))
<1> SUFFICES ASSUME NEW s \in Servers, NEW o \in Objects, NEW f \in Seq(Chunk)
             PROVE  SpecCrash => [](AppendsOnly /\ Begins(s, o, f) => []Begins(s, o, f))
  OBVIOUS
<1>1. ASSUME CrashInv, [NextCrash]_crashVars, AppendsOnly /\ Begins(s, o, f)
      PROVE  (AppendsOnly /\ Begins(s, o, f))'
  BY <1>1, StepKeepsBeginning
<1> QED
  BY <1>1, Invariance, PTL DEF SpecCrash
=============================================================================

-------------------------- MODULE FileDigestProofs --------------------------
(***************************************************************************)
(* Proofs about FileDigest for every buffer size, file, writer, hasher and *)
(* argument.                                                               *)
(***************************************************************************)
EXTENDS FileDigest, SequenceTheorems, TLAPS

\* The values of the bytes, and n bytes of the file from a position.
Vals == {Data[n] : n \in Nat}
Run(from, n) == [i \in 1 .. n |-> Data[from + i]]

\* A run of bytes and the run that follows it are one run.
LEMMA RunConcat ==
    ASSUME NEW from \in Nat, NEW n \in Nat, NEW k \in Nat
    PROVE  /\ Run(from, n) \in Seq(Vals) /\ Len(Run(from, n)) = n
           /\ Run(from, n) \o Run(from + n, k) = Run(from, n + k)
<1>1. \A a, m \in Nat : Run(a, m) \in Seq(Vals) /\ Len(Run(a, m)) = m
  <2> SUFFICES ASSUME NEW a \in Nat, NEW m \in Nat
               PROVE  Run(a, m) \in Seq(Vals) /\ Len(Run(a, m)) = m
    OBVIOUS
  <2>1. \A i \in 1 .. m : Data[a + i] \in Vals  BY DEF Vals
  <2>2. Run(a, m) \in [1 .. m -> Vals]  BY <2>1 DEF Run
  <2> QED  BY <2>2 DEF Run
<1> DEFINE s == Run(from, n)
           t == Run(from + n, k)
           u == Run(from, n + k)
<1>2. /\ s \in Seq(Vals) /\ t \in Seq(Vals) /\ u \in Seq(Vals)
      /\ Len(s) = n /\ Len(t) = k /\ Len(u) = n + k
  <2>1. from + n \in Nat /\ n + k \in Nat  OBVIOUS
  <2> QED  BY <1>1, <2>1
<1>3. /\ \A i \in 1 .. n : s[i] = Data[from + i]
      /\ \A i \in 1 .. k : t[i] = Data[from + n + i]
      /\ \A i \in 1 .. n + k : u[i] = Data[from + i]
  BY DEF Run
<1> HIDE DEF s, t, u
<1>4. /\ s \o t \in Seq(Vals) /\ Len(s \o t) = n + k
      /\ \A i \in 1 .. n + k : (s \o t)[i] = IF i <= n THEN s[i] ELSE t[i - n]
  BY <1>2, ConcatProperties
<1>5. ASSUME NEW i \in 1 .. n + k PROVE (s \o t)[i] = u[i]
  <2>0. i \in Int /\ n \in Int  OBVIOUS
  <2>1. CASE i <= n
    <3>1. i \in 1 .. n  BY <2>0, <2>1
    <3> QED  BY <1>3, <1>4, <2>1, <3>1
  <2>2. CASE i > n
    <3>1. i - n \in 1 .. k /\ from + n + (i - n) = from + i  BY <2>2
    <3>2. ~(i <= n)  BY <2>0, <2>2
    <3>3. (s \o t)[i] = t[i - n]  BY <1>4, <3>2
    <3>4. t[i - n] = Data[from + n + (i - n)]  BY <1>3, <3>1
    <3> QED  BY <1>3, <3>1, <3>3, <3>4
  <2>3. i <= n \/ i > n  BY <2>0
  <2> QED  BY <2>1, <2>2, <2>3, Zenon
<1>6. s \o t = u  BY <1>2, <1>4, <1>5, SeqEqual
<1> QED  BY <1>2, <1>6 DEF s, t, u

-----------------------------------------------------------------------------
(* The type invariant *)

\* A read never returns more than the buffer holds, nor bytes beyond the end
\* of the file.
LEMMA ReadBounds ==
    ASSUME TypeOK, NEW n \in Fread
    PROVE  /\ n \in Nat /\ n <= BUF_SIZE
           /\ n > 0 => pos + n <= file.size
<1>1. pos \in Nat /\ file.size \in Nat  BY BufferAssumption DEF TypeOK
<1>2. /\ Available \in Nat /\ Available <= BUF_SIZE
      /\ Available > 0 => pos + Available <= file.size
  BY <1>1, BufferAssumption DEF Available, Smaller
<1> DEFINE a == Available
<1>3. n \in 0 .. a  BY <1>2 DEF Fread
<1>4. a \in Nat /\ BUF_SIZE \in Nat /\ a <= BUF_SIZE /\ (a > 0 => pos + a <= file.size)
  BY <1>2, BufferAssumption
<1> HIDE DEF a
<1> QED  BY <1>1, <1>3, <1>4

\* The arguments as C sees them.
LEMMA ArgumentTypes ==
    ASSUME NEW c \in Calls
    PROVE  /\ as_integer(c.skip) \in Int /\ as_integer(c.length) \in Int
           /\ Skip(as_integer(c.skip)) \in Nat
           /\ Position(as_integer(c.skip)) = Skip(as_integer(c.skip))
<1>0. c.skip \in Skips /\ c.length \in Lengths  BY DEF Calls
<1>1. c.skip \in Int /\ c.length \in Int
  <2>1. c.skip \in Int /\ c.length \in {-1} \cup Nat
    BY <1>0, ArgumentAssumption, Zenon
  <2> QED  BY <2>1
<1> QED  BY <1>1, BufferAssumption DEF as_integer, Skip, Position

\* What a pass of the loops does, with the bytes counted.
LEMMA PassTypes ==
    ASSUME TypeOK, NEW n \in Nat, left >= 0
    PROVE  /\ Used(n, left) \in Nat /\ Used(n, left) <= n /\ Used(n, left) <= left
           /\ left - Used(n, left) \in Nat
           /\ left - Used(n, left) # 0 => Used(n, left) = n
BY DEF TypeOK, Used, Smaller

LEMMA TypeInit == Init => TypeOK
<1> SUFFICES ASSUME Init PROVE TypeOK  OBVIOUS
<1>1. file \in [kind : Kinds, size : 0 .. MaxSize] /\ file.kind = "file"
  BY DEF Init, Kinds
<1>2. -1 \in Int /\ 0 \in Nat  OBVIOUS
<1> QED  BY <1>1, <1>2 DEF Init, TypeOK

LEMMA TypeNext == TypeOK /\ [Next]_vars => TypeOK'
<1> SUFFICES ASSUME TypeOK, [Next]_vars PROVE TypeOK'  OBVIOUS
<1>0. ASSUME call # None PROVE call \in Calls  BY <1>0 DEF TypeOK
<1>1. CASE check_file
  BY <1>1 DEF check_file, TypeOK, stream
<1>2. CASE OpenFails
  BY <1>2 DEF OpenFails, TypeOK, stream
<1>3. CASE Open
  <2>1. call \in Calls  BY <1>0, <1>3 DEF Open, TypeOK
  <2>2. /\ as_integer(call.length) \in Int
        /\ Position(as_integer(call.skip)) \in Nat
    BY <2>1, ArgumentTypes
  <2>3. file.size \in Nat  BY BufferAssumption DEF TypeOK
  <2> QED  BY <1>3, <2>2, <2>3 DEF Open, TypeOK
<1>4. CASE ReadBounded
  <2>1. PICK n \in Fread :
          /\ eof' = (n < BUF_SIZE) /\ pos' = pos + n
          /\ IF More(n, left)
             THEN left' = left - Used(n, left) /\ pc' = pc
             ELSE pc' = "finish" /\ left' = left
    BY <1>4 DEF ReadBounded
  <2>2. n \in Nat  BY ReadBounds
  <2>3. left' \in Int
    BY <2>1, <2>2 DEF TypeOK, Used, Smaller
  <2> QED  BY <1>4, <2>1, <2>2, <2>3, BufferAssumption DEF ReadBounded, TypeOK
<1>5. CASE ReadToEnd
  <2>1. PICK n \in Fread :
          /\ eof' = (n < BUF_SIZE) /\ pos' = pos + n
          /\ pc' \in {pc, "finish"}
    BY <1>5 DEF ReadToEnd
  <2>2. n \in Nat  BY ReadBounds
  <2> QED  BY <1>5, <2>1, <2>2, BufferAssumption DEF ReadToEnd, TypeOK
<1>6. CASE Finish
  BY <1>6 DEF Finish, TypeOK, stream
<1>7. CASE Call
  <2>1. call' \in Calls /\ call' # None  BY <1>7, NoneAssumption DEF Call
  <2>2. -1 \in Int /\ 0 \in Nat  OBVIOUS
  <2> QED  BY <1>7, <2>1, <2>2 DEF Call, TypeOK
<1>8. CASE Grow
  <2>1. file.size \in Nat /\ file.size + 1 \in 0 .. MaxSize
    BY <1>8, BufferAssumption DEF Grow, TypeOK
  <2>2. file' \in [kind : Kinds, size : 0 .. MaxSize] /\ file'.kind = "file"
    BY <1>8, <2>1 DEF Grow, TypeOK
  <2> QED  BY <1>8, <2>2 DEF Grow, TypeOK, stream
<1>9. CASE Rename
  <2>1. file' \in [kind : Kinds, size : 0 .. MaxSize] /\ file'.size = 0
    BY <1>9, BufferAssumption DEF Rename
  <2> QED  BY <1>9, <2>1 DEF Rename, TypeOK, stream
<1>10. CASE UNCHANGED vars  BY <1>10 DEF vars, TypeOK
<1> QED  BY <1>1, <1>2, <1>3, <1>4, <1>5, <1>6, <1>7, <1>8, <1>9, <1>10 DEF Next, Digest

\* The type invariant of FileDigest holds for every parameter: whatever skip
\* and length are, the position of the stream is never negative.
THEOREM TypeCorrect == Spec => []TypeOK
BY TypeInit, TypeNext, PTL DEF Spec

-----------------------------------------------------------------------------
(* The bytes that reach the hasher *)

\* Contiguous is not inductive alone: that the next buffer continues the bytes
\* fed needs them to be a sequence, and that a file is not cut under the reader
\* is what Refinement needs.
Inv ==
    /\ TypeOK
    /\ Contiguous
    /\ fed \in Seq(Vals)
    /\ pc \in {"read", "finish"} /\ Len(fed) > 0 =>
           Skip(as_integer(call.skip)) + Len(fed) <= file.size
    /\ pc = "read" /\ as_integer(call.length) < 0 => left < 0

LEMMA InvInit == Init => Inv
<1> SUFFICES ASSUME Init PROVE Inv  OBVIOUS
<1>1. TypeOK  BY TypeInit
<1>2. pc = "idle" /\ fed = <<>>  BY DEF Init
<1>3. fed \in Seq(Vals)  BY <1>2
<1>4. Contiguous  BY <1>2 DEF Contiguous
<1> QED  BY <1>1, <1>2, <1>3, <1>4 DEF Inv

\* Feeding n bytes of the buffer to a hasher that is up to date with the
\* stream's position leaves it with a run of the file, n bytes longer.
LEMMA FeedEffect ==
    ASSUME NEW skip \in Nat, NEW n \in Nat, NEW nChar \in Nat, n <= nChar,
           pos = skip + Len(fed), fed \in Seq(Vals),
           fed = Run(skip, Len(fed)), Feed(n)
    PROVE  /\ fed' \in Seq(Vals) /\ Len(fed') = Len(fed) + n
           /\ fed' = Run(skip, Len(fed'))
<1>1. Len(fed) \in Nat  OBVIOUS
<1> DEFINE l == Len(fed)
<1>2. fed' = fed \o Run(skip + l, n)  BY DEF Feed, Buffer, Run
<1>3. l \in Nat /\ l + n \in Nat  BY <1>1
<1>4. fed' = Run(skip, l + n)
  <2> HIDE DEF l
  <2>1. Run(skip, l) \o Run(skip + l, n) = Run(skip, l + n)  BY <1>3, RunConcat
  <2>2. fed = Run(skip, l)  BY DEF l
  <2> QED  BY <1>2, <2>1, <2>2
<1> HIDE DEF l
<1>5. Run(skip, l + n) \in Seq(Vals) /\ Len(Run(skip, l + n)) = l + n
  BY <1>3, RunConcat
<1> QED  BY <1>4, <1>5 DEF l

\* Contiguous, said with Run.
LEMMA ContiguousRun ==
    Contiguous <=>
        (pc \in {"read", "finish"} =>
            LET skip == Skip(as_integer(call.skip))
                length == as_integer(call.length)
            IN  /\ fed = Run(skip, Len(fed))
                /\ skip + Len(fed) <= pos
                /\ IF length >= 0 THEN left >= 0 /\ left + Len(fed) = length
                   ELSE pos = skip + Len(fed)
                /\ left # 0 => pos = skip + Len(fed))
BY DEF Contiguous, Run

\* A pass of the bounded loop that goes on. The bytes used are those the file
\* has at the position, up to a buffer and to the length.
LEMMA BoundedPass ==
    ASSUME Inv, pc = "read", as_integer(call.length) >= 0, left > 0,
           NEW n \in Fread, n > 0, Feed(Used(n, left)), left' = left - Used(n, left)
    PROVE  LET skip == Skip(as_integer(call.skip))
           IN  /\ skip \in Nat /\ fed' \in Seq(Vals)
               /\ Len(fed) \in Nat /\ Len(fed') \in Nat
               /\ pos = skip + Len(fed)
               /\ Len(fed') = Len(fed) + Used(n, left)
               /\ fed' = Run(skip, Len(fed'))
               /\ left' \in Nat /\ left' + Len(fed') = left + Len(fed)
               /\ skip + Len(fed') <= pos + n
               /\ left' # 0 => pos + n = skip + Len(fed')
               /\ skip + Len(fed') <= file.size
<1> DEFINE skip == Skip(as_integer(call.skip))
           u == Used(n, left)
<1>0. TypeOK /\ fed \in Seq(Vals)  BY DEF Inv
<1>1. call \in Calls  BY <1>0 DEF TypeOK
<1>2. skip \in Nat  BY <1>1, ArgumentTypes
<1>3. /\ fed = Run(skip, Len(fed)) /\ pos = skip + Len(fed)
  BY ContiguousRun DEF Inv
<1>4. n \in Nat /\ pos + n <= file.size  BY <1>0, ReadBounds
<1>5. left \in Int /\ left >= 0 /\ file.size \in Nat
  BY <1>0, BufferAssumption DEF TypeOK
<1>6. /\ u \in Nat /\ u <= n /\ u <= left /\ left - u \in Nat
      /\ left - u # 0 => u = n
  BY <1>0, <1>4, <1>5, PassTypes
<1>7. Len(fed) \in Nat  BY <1>0
<1>8. Feed(u) /\ left' = left - u  OBVIOUS
<1> HIDE DEF skip, u
<1>9. /\ fed' \in Seq(Vals) /\ Len(fed') = Len(fed) + u
      /\ fed' = Run(skip, Len(fed'))
  BY <1>0, <1>2, <1>3, <1>4, <1>6, <1>8, FeedEffect
<1>10. /\ Len(fed') \in Nat
       /\ left' \in Nat /\ left' + Len(fed') = left + Len(fed)
       /\ skip + Len(fed') <= pos + n
       /\ left' # 0 => pos + n = skip + Len(fed')
       /\ skip + Len(fed') <= file.size
  <2> DEFINE l == Len(fed)
             m == Len(fed')
             size == file.size
  <2>1. /\ l \in Nat /\ m = l + u /\ size \in Nat /\ pos = skip + l /\ pos + n <= size
    BY <1>3, <1>4, <1>5, <1>7, <1>9
  <2> HIDE DEF l, m, size
  <2>2. /\ m \in Nat
        /\ left' \in Nat /\ left' + m = left + l
        /\ skip + m <= pos + n
        /\ left' # 0 => pos + n = skip + m
        /\ skip + m <= size
    BY <2>1, <1>2, <1>4, <1>5, <1>6, <1>8
  <2> QED  BY <2>2 DEF l, m, size
<1> QED  BY <1>2, <1>3, <1>7, <1>9, <1>10 DEF skip, u

\* A pass of the unbounded loop that goes on.
LEMMA UnboundedPass ==
    ASSUME Inv, pc = "read", as_integer(call.length) < 0,
           NEW n \in Fread, n > 0, Feed(n)
    PROVE  LET skip == Skip(as_integer(call.skip))
           IN  /\ skip \in Nat /\ fed' \in Seq(Vals)
               /\ Len(fed) \in Nat /\ Len(fed') \in Nat
               /\ pos = skip + Len(fed)
               /\ Len(fed') = Len(fed) + n
               /\ fed' = Run(skip, Len(fed'))
               /\ pos + n = skip + Len(fed')
               /\ skip + Len(fed') <= file.size
<1> DEFINE skip == Skip(as_integer(call.skip))
<1>0. TypeOK /\ fed \in Seq(Vals)  BY DEF Inv
<1>1. call \in Calls  BY <1>0 DEF TypeOK
<1>2. skip \in Nat /\ as_integer(call.length) \in Int  BY <1>1, ArgumentTypes
<1>3. /\ fed = Run(skip, Len(fed)) /\ pos = skip + Len(fed)
  BY <1>2, ContiguousRun DEF Inv
<1>4. n \in Nat /\ n <= n /\ pos + n <= file.size  BY <1>0, ReadBounds
<1>5. file.size \in Nat  BY <1>0, BufferAssumption DEF TypeOK
<1>6. Len(fed) \in Nat  BY <1>0
<1> HIDE DEF skip
<1>7. /\ fed' \in Seq(Vals) /\ Len(fed') = Len(fed) + n
      /\ fed' = Run(skip, Len(fed'))
  BY <1>0, <1>2, <1>3, <1>4, FeedEffect
<1>8. Len(fed') \in Nat /\ pos + n = skip + Len(fed')
  BY <1>2, <1>3, <1>4, <1>6, <1>7
<1> QED  BY <1>2, <1>3, <1>4, <1>6, <1>7, <1>8 DEF skip

LEMMA InvNext == Inv /\ [Next]_vars => Inv'
<1> SUFFICES ASSUME Inv, [Next]_vars PROVE Inv'  OBVIOUS
<1> DEFINE skip == Skip(as_integer(call.skip))
           length == as_integer(call.length)
<1>0. TypeOK' /\ TypeOK /\ fed \in Seq(Vals)  BY TypeNext DEF Inv
<1>r. ASSUME pc = "read"
      PROVE  /\ skip \in Nat /\ length \in Int /\ Len(fed) \in Nat /\ file.size \in Nat
             /\ fed = Run(skip, Len(fed)) /\ skip + Len(fed) <= pos
             /\ IF length >= 0 THEN left >= 0 /\ left + Len(fed) = length
                ELSE pos = skip + Len(fed)
             /\ left # 0 => pos = skip + Len(fed)
             /\ left \in Int /\ pos \in Nat
             /\ length < 0 => left < 0
  <2>1. call \in Calls  BY <1>0, <1>r DEF TypeOK
  <2>2. skip \in Nat /\ length \in Int  BY <2>1, ArgumentTypes
  <2>3. Len(fed) \in Nat /\ left \in Int /\ pos \in Nat /\ file.size \in Nat
    BY <1>0, BufferAssumption DEF TypeOK
  <2> QED  BY <1>r, <2>2, <2>3, ContiguousRun DEF Inv
\* Contiguous after a step that stays among the passes of the same call.
<1>s. ASSUME call' = call, fed' \in Seq(Vals), fed' = Run(skip, Len(fed')),
             skip + Len(fed') <= pos',
             IF length >= 0 THEN left' >= 0 /\ left' + Len(fed') = length
             ELSE pos' = skip + Len(fed'),
             left' # 0 => pos' = skip + Len(fed'),
             Len(fed') > 0 => skip + Len(fed') <= file'.size,
             length < 0 => left' < 0
      PROVE  Inv'
  <2>1. Contiguous'  BY <1>s DEF Contiguous, Run
  <2> QED  BY <1>0, <1>s, <2>1 DEF Inv
\* After the others there is nothing to show: no stream is being read.
<1>i. ASSUME pc' \notin {"read", "finish"}, fed' \in Seq(Vals) PROVE Inv'
  <2>1. Contiguous'  BY <1>i DEF Contiguous
  <2> QED  BY <1>0, <1>i, <2>1 DEF Inv
<1>1. CASE check_file
  <2>1. pc' \notin {"read", "finish"} /\ fed' = fed
    BY <1>1 DEF check_file, stream
  <2> QED  BY <1>0, <1>i, <2>1
<1>2. CASE OpenFails
  BY <1>0, <1>i, <1>2 DEF OpenFails, stream
<1>3. CASE Open
  <2>1. call' = call /\ fed' = <<>> /\ left' = length /\ pos' = Position(as_integer(call.skip))
    BY <1>3 DEF Open
  <2>2. call \in Calls  BY <1>0, <1>3 DEF Open, TypeOK
  <2>3. skip \in Nat /\ length \in Int /\ Position(as_integer(call.skip)) = skip
    BY <2>2, ArgumentTypes
  <2>4. fed' \in Seq(Vals) /\ Len(fed') = 0 /\ fed' = Run(skip, 0)
    BY <2>1 DEF Run
  <2> HIDE DEF skip, length
  <2> QED  BY <2>1, <2>3, <2>4, <1>s
<1>4. CASE ReadBounded
  <2>1. pc = "read" /\ length >= 0 /\ call' = call /\ file' = file
    BY <1>4 DEF ReadBounded
  <2>2. PICK n \in Fread :
          /\ pos' = pos + n
          /\ IF More(n, left)
             THEN /\ Feed(Used(n, left)) /\ left' = left - Used(n, left)
             ELSE fed' = fed /\ left' = left
    BY <1>4 DEF ReadBounded
  <2>3. n \in Nat  BY <1>0, ReadBounds
  <2>4. CASE More(n, left)
    <3>1. n > 0 /\ left > 0  BY <2>4 DEF More
    <3>2. /\ skip \in Nat /\ fed' \in Seq(Vals)
          /\ fed' = Run(skip, Len(fed'))
          /\ left' \in Nat /\ left' + Len(fed') = left + Len(fed)
          /\ skip + Len(fed') <= pos + n
          /\ left' # 0 => pos + n = skip + Len(fed')
          /\ skip + Len(fed') <= file.size
      BY <2>1, <2>2, <2>4, <3>1, BoundedPass
    <3>3. left + Len(fed) = length  BY <1>r, <2>1
    <3>4. left' >= 0 /\ left' + Len(fed') = length /\ pos' = pos + n
      BY <3>2, <3>3, <2>2
    <3> HIDE DEF skip, length
    <3> QED  BY <2>1, <3>2, <3>4, <1>s
  <2>5. CASE ~More(n, left)
    <3>1. fed' = fed /\ left' = left /\ pos' = pos + n  BY <2>2, <2>5
    <3>2. left >= 0 /\ left + Len(fed) = length  BY <1>r, <2>1
    <3>3. left # 0 => n = 0
      <4>1. left \in Int  BY <1>r, <2>1
      <4> QED  BY <2>3, <2>5, <3>2, <4>1 DEF More
    <3> HIDE DEF skip, length
    <3>4. /\ skip + Len(fed) <= pos + n
          /\ left # 0 => pos + n = skip + Len(fed)
      BY <1>r, <2>1, <2>3, <3>3
    <3>5. Len(fed) > 0 => skip + Len(fed) <= file.size
      BY <2>1 DEF Inv, skip
    <3> QED  BY <1>0, <1>r, <1>s, <2>1, <3>1, <3>2, <3>4, <3>5
  <2> QED  BY <2>4, <2>5
<1>5. CASE ReadToEnd
  <2>1. pc = "read" /\ length < 0 /\ call' = call /\ file' = file /\ left' = left
    BY <1>5 DEF ReadToEnd
  <2>2. PICK n \in Fread :
          /\ pos' = pos + n
          /\ IF n > 0 THEN Feed(n) ELSE fed' = fed
    BY <1>5 DEF ReadToEnd
  <2>3. n \in Nat  BY <1>0, ReadBounds
  <2>l. length \in Int /\ ~(length >= 0) /\ left' < 0  BY <1>r, <2>1
  <2>4. CASE n > 0
    <3>1. /\ skip \in Nat /\ fed' \in Seq(Vals) /\ Len(fed') \in Nat
          /\ fed' = Run(skip, Len(fed'))
          /\ pos + n = skip + Len(fed')
          /\ skip + Len(fed') <= file.size
      BY <2>1, <2>2, <2>4, UnboundedPass
    <3> HIDE DEF skip, length
    <3> QED  BY <2>1, <2>2, <2>l, <3>1, <1>s
  <2>5. CASE ~(n > 0)
    <3>1. n = 0 /\ fed' = fed  BY <2>2, <2>3, <2>5
    <3> HIDE DEF skip, length
    <3>2. pos' = pos /\ pos = skip + Len(fed) /\ fed = Run(skip, Len(fed))
          /\ skip \in Nat /\ Len(fed) \in Nat
      BY <1>r, <2>1, <2>2, <2>l, <3>1
    <3>3. Len(fed) > 0 => skip + Len(fed) <= file.size
      BY <2>1 DEF Inv, skip
    <3> QED  BY <1>0, <1>s, <2>1, <2>l, <3>1, <3>2, <3>3
  <2> QED  BY <2>4, <2>5
<1>6. CASE Finish
  BY <1>0, <1>i, <1>6 DEF Finish, stream
<1>7. CASE Call
  BY <1>i, <1>7 DEF Call
<1>8. CASE Grow
  <2>1. /\ UNCHANGED <<call, pc, result>> /\ UNCHANGED stream
        /\ file.size \in Nat /\ file'.size = file.size + 1
    BY <1>0, <1>8, BufferAssumption DEF Grow, TypeOK
  <2>2. Contiguous'  BY <2>1 DEF Contiguous, stream, Inv
  <2>3. pc \in {"read", "finish"} => skip \in Nat
    <3> SUFFICES ASSUME pc \in {"read", "finish"} PROVE skip \in Nat  OBVIOUS
    <3>1. call \in Calls  BY <1>0 DEF TypeOK
    <3> QED  BY <3>1, ArgumentTypes
  <2>4. Len(fed) \in Nat  BY <1>0
  <2>5. call' = call /\ pc' = pc /\ fed' = fed  BY <2>1 DEF stream
  <2>7. pc = "read" /\ length < 0 => left' < 0
    BY <2>1 DEF Inv, stream
  <2>6. pc \in {"read", "finish"} /\ Len(fed) > 0 => skip + Len(fed) <= file'.size
    <3>1. pc \in {"read", "finish"} /\ Len(fed) > 0 => skip + Len(fed) <= file.size
      BY DEF Inv
    <3> HIDE DEF skip
    <3> QED  BY <2>1, <2>3, <2>4, <3>1
  <2> QED  BY <1>0, <2>2, <2>5, <2>6, <2>7 DEF Inv
<1>9. CASE Rename
  <2>1. pc' \notin {"read", "finish"} /\ fed' = fed  BY <1>9 DEF Rename, stream
  <2> QED  BY <1>0, <1>i, <2>1
<1>10. CASE UNCHANGED vars
  BY <1>0, <1>10 DEF vars, Inv, Contiguous
<1> QED  BY <1>1, <1>2, <1>3, <1>4, <1>5, <1>6, <1>7, <1>8, <1>9, <1>10 DEF Next, Digest

LEMMA InvAlways == Spec => []Inv
BY InvInit, InvNext, PTL DEF Spec

\* For every buffer size, writer, skip and length the hasher gets the bytes
\* after the skipped ones in order and without a gap, and no more than length.
THEOREM NoGap == Spec => []Contiguous
<1>1. Inv => Contiguous  BY DEF Inv
<1> QED  BY <1>1, InvAlways, PTL

-----------------------------------------------------------------------------
(* Refinement *)

\* as.integer keeps the arguments. A larger length would mean no limit, a larger
\* skip none.
ArgumentsFit == \A x \in Skips \cup Lengths : x <= MaxInt

\* A sum is not the error that stands for a failed call.
SumsAreNoErrors == \A algo, c, n : H_finish(algo, c, n) # Error

\* The run of the file that is the answer, from how many bytes there are.
LEMMA SliceIsRun ==
    ASSUME NEW c \in Calls, NEW n \in Nat, NEW m \in Nat,
           c.length \in Int, c.skip \in Int,
           m > 0 => Skip(c.skip) + m <= n,
           \/ c.length >= 0 /\ m = c.length
           \/ (c.length >= 0 => m <= c.length) /\ n <= Skip(c.skip) + m
    PROVE  AD!Slice(n, c.skip, c.length) = Run(Skip(c.skip), m)
<1> DEFINE from  == Skip(c.skip)
           there == IF n > from THEN n - from ELSE 0
           taken == IF c.length >= 0 /\ c.length < there THEN c.length ELSE there
<1>1. from \in Nat  BY DEF Skip
<1>2. AD!Slice(n, c.skip, c.length) = [i \in 1 .. taken |-> Data[from + i]]
  BY DEF AD!Slice, Skip
<1>3. m > 0 => from + m <= n  OBVIOUS
<1>4. \/ c.length >= 0 /\ m = c.length
      \/ (c.length >= 0 => m <= c.length) /\ n <= from + m
  OBVIOUS
<1> HIDE DEF from
<1>5. taken = m  BY <1>1, <1>3, <1>4
<1> HIDE DEF taken
<1> QED  BY <1>2, <1>5 DEF Run, from

\* What the answer is before and after the read loop's passes.
LEMMA AnswerAtRead ==
    ASSUME StickyEof
    PROVE  /\ pc \notin {"read", "finish", "done"} => Answer = None
           /\ pc = "finish" => Answer = fed
           /\ pc = "done" => Answer = IF result = Error THEN Error ELSE fed
           /\ pc = "read" => Answer = IF left = 0 \/ eof THEN fed ELSE None
BY DEF Answer, Settled

\* What a read returns when the end has not been met: what there is, up to a
\* buffer.
LEMMA ReadAll ==
    ASSUME TypeOK, ~ReadErrors, ~eof, NEW n \in Fread
    PROVE  /\ n = 0 => file.size <= pos
           /\ n > 0 /\ n < BUF_SIZE => pos + n = file.size
<1>1. n = Available  BY DEF Fread
<1>2. pos \in Nat /\ file.size \in Nat  BY BufferAssumption DEF TypeOK
<1>3. Available = IF file.size > pos THEN Smaller(BUF_SIZE, file.size - pos) ELSE 0
  BY DEF Available
<1> DEFINE size == file.size
<1>4. size \in Nat /\ n = IF size > pos THEN Smaller(BUF_SIZE, size - pos) ELSE 0
  BY <1>1, <1>2, <1>3
<1> HIDE DEF size
<1>5. /\ n = 0 => size <= pos
      /\ n > 0 /\ n < BUF_SIZE => pos + n = size
  BY <1>2, <1>4, BufferAssumption DEF Smaller
<1> QED  BY <1>5 DEF size

\* The arguments of a call, when as.integer keeps them.
LEMMA Kept ==
    ASSUME ArgumentsFit, NEW c \in Calls
    PROVE  /\ as_integer(c.skip) = c.skip /\ as_integer(c.length) = c.length
           /\ c.skip \in Int /\ c.length \in Int /\ Skip(c.skip) \in Nat
<1>1. c.skip \in Skips /\ c.length \in Lengths  BY DEF Calls
<1>2. c.skip <= MaxInt /\ c.length <= MaxInt  BY <1>1 DEF ArgumentsFit
<1>3. c.skip \in Int /\ c.length \in {-1} \cup Nat
  BY <1>1, ArgumentAssumption, Zenon
<1>4. c.length \in Int  BY <1>3
<1> QED  BY <1>2, <1>3, <1>4, BufferAssumption DEF as_integer, Skip

\* A pass that settles the answer answers with the slice of the file as it is.
LEMMA ReadSettles ==
    ASSUME StickyEof, ~ReadErrors, ArgumentsFit, Inv, pc = "read",
           left # 0, ~eof, ReadBounded \/ ReadToEnd, Answer' # None
    PROVE  AD!Answer
<1> DEFINE skip == Skip(call.skip)
           length == call.length
           size == file.size
           m == Len(fed')
<1>1. call \in Calls /\ call # None  BY NoneAssumption DEF Inv, TypeOK
<1>2. /\ as_integer(call.skip) = call.skip /\ as_integer(call.length) = length
      /\ call.skip \in Int /\ length \in Int /\ skip \in Nat
  BY <1>1, Kept
<1>3. TypeOK /\ fed \in Seq(Vals) /\ Len(fed) \in Nat  BY DEF Inv
<1>4. size \in Nat /\ left \in Int /\ pos \in Nat  BY <1>3, BufferAssumption DEF TypeOK
<1>5. /\ fed = Run(skip, Len(fed)) /\ pos = skip + Len(fed)
      /\ length >= 0 => left > 0 /\ left + Len(fed) = length
      /\ Len(fed) > 0 => skip + Len(fed) <= size
  <2>1. /\ fed = Run(skip, Len(fed)) /\ pos = skip + Len(fed)
        /\ length >= 0 => left >= 0 /\ left + Len(fed) = length
    BY <1>2, ContiguousRun DEF Inv
  <2>2. Len(fed) > 0 => skip + Len(fed) <= size  BY <1>2 DEF Inv
  <2> HIDE DEF length, skip, size
  <2> QED  BY <1>4, <2>1, <2>2
<1>6. Answer = None  BY AnswerAtRead
<1>7. file' = file /\ call' = call /\ pc' \in {"read", "finish"}
  BY DEF ReadBounded, ReadToEnd
<1>8. Answer' = fed' /\ (pc' = "read" => left' = 0 \/ eof')
  BY <1>7 DEF Answer, Settled
\* It is enough to know how far the bytes fed go.
<1>9. SUFFICES /\ m \in Nat /\ fed' = Run(skip, m)
               /\ m > 0 => skip + m <= size
               /\ \/ length >= 0 /\ m = length
                  \/ (length >= 0 => m <= length) /\ size <= skip + m
  <2>1. AD!Slice(size, call.skip, length) = Run(skip, m)
    BY <1>1, <1>2, <1>4, <1>9, SliceIsRun
  <2> QED  BY <1>1, <1>6, <1>7, <1>8, <1>9, <2>1 DEF AD!Answer
<1>10. CASE ReadBounded
  <2>1. length >= 0  BY <1>2, <1>10 DEF ReadBounded
  <2>2. PICK n \in Fread :
          /\ eof' = (n < BUF_SIZE)
          /\ IF More(n, left)
             THEN /\ Feed(Used(n, left)) /\ left' = left - Used(n, left) /\ pc' = pc
             ELSE fed' = fed
    BY <1>10 DEF ReadBounded
  <2>3. n \in Nat  BY <1>3, ReadBounds
  <2>4. /\ n = 0 => size <= pos
        /\ n > 0 /\ n < BUF_SIZE => pos + n = size
    BY <1>3, ReadAll
  <2>5. CASE n > 0
    <3>1. left > 0 /\ as_integer(call.length) >= 0  BY <1>2, <1>5, <2>1
    <3>2. /\ Feed(Used(n, left)) /\ left' = left - Used(n, left) /\ pc' = "read"
      BY <2>2, <2>5, <3>1 DEF More
    <3>3. /\ m \in Nat /\ fed' = Run(skip, m)
          /\ left' \in Nat /\ left' + m = left + Len(fed)
          /\ left' # 0 => pos + n = skip + m
          /\ skip + m <= size
      BY <1>2, <2>5, <3>1, <3>2, BoundedPass
    <3>4. left' = 0 \/ n < BUF_SIZE  BY <1>8, <2>2, <3>2
    <3>5. left' + m = length  BY <1>5, <2>1, <3>3
    <3> HIDE DEF length, skip, size, m
    <3>6. CASE left' = 0  BY <1>2, <2>1, <3>3, <3>5, <3>6
    <3>7. CASE left' # 0
      <4>1. pos + n = size /\ pos + n = skip + m  BY <2>4, <2>5, <3>3, <3>4, <3>7
      <4>2. size <= skip + m  BY <1>2, <1>4, <3>3, <4>1
      <4>3. m <= length
        <5>1. left' \in Nat /\ m \in Nat  BY <3>3
        <5> QED  BY <3>5, <5>1
      <4> QED  BY <3>3, <4>2, <4>3
    <3> QED  BY <3>6, <3>7
  <2>6. CASE ~(n > 0)
    <3>1. n = 0 /\ fed' = fed  BY <2>2, <2>3, <2>6 DEF More
    <3>2. m = Len(fed)  BY <3>1
    <3> HIDE DEF length, skip, size, m
    <3> QED  BY <1>2, <1>3, <1>4, <1>5, <2>1, <2>4, <3>1, <3>2
  <2> QED  BY <2>5, <2>6
<1>11. CASE ReadToEnd
  <2>1. as_integer(call.length) < 0 /\ ~(length >= 0)  BY <1>2, <1>11 DEF ReadToEnd
  <2>2. PICK n \in Fread :
          /\ eof' = (n < BUF_SIZE) /\ left' = left
          /\ IF n > 0 THEN Feed(n) /\ pc' = pc ELSE fed' = fed
    BY <1>11 DEF ReadToEnd
  <2>3. n \in Nat  BY <1>3, ReadBounds
  <2>4. /\ n = 0 => size <= pos
        /\ n > 0 /\ n < BUF_SIZE => pos + n = size
    BY <1>3, ReadAll
  <2>5. CASE n > 0
    <3>1. n < BUF_SIZE  BY <1>8, <2>2, <2>5
    <3>2. /\ m \in Nat /\ fed' = Run(skip, m)
          /\ pos + n = skip + m /\ skip + m <= size
      BY <1>2, <2>1, <2>2, <2>5, UnboundedPass
    <3> HIDE DEF length, skip, size, m
    <3> QED  BY <1>2, <1>4, <2>1, <2>4, <2>5, <3>1, <3>2
  <2>6. CASE ~(n > 0)
    <3>1. n = 0 /\ fed' = fed  BY <2>2, <2>3, <2>6
    <3>2. m = Len(fed)  BY <3>1
    <3> HIDE DEF length, skip, size, m
    <3> QED  BY <1>2, <1>3, <1>4, <1>5, <2>1, <2>4, <3>1, <3>2
  <2> QED  BY <2>5, <2>6
<1> QED  BY <1>10, <1>11

\* Every step is one of AtomicDigest or changes nothing it sees: the answer is
\* settled by the failure, by the opening when length is 0, or by the pass that
\* meets the end of the file or of the length.
LEMMA RefineStep ==
    ASSUME StickyEof, ~ReadErrors, ArgumentsFit, SumsAreNoErrors,
           Inv, Inv', [Next]_vars
    PROVE  [AD!Next]_(AD!vars)
<1>t. TypeOK /\ TypeOK'  BY DEF Inv
<1>v. ASSUME Answer' = Answer, file'.size = file.size, call' = call
      PROVE  UNCHANGED AD!vars
  BY <1>v DEF AD!vars
<1>f. ASSUME pc \in {"check", "open"}, pc' = "done", result' = Error,
             file' = file, call' = call
      PROVE  AD!Answer
  <2>1. call # None  BY <1>t, <1>f DEF TypeOK
  <2>2. Answer = None  BY <1>f DEF Answer, Settled
  <2>3. Answer' = Error  BY <1>f DEF Answer
  <2> QED  BY <1>f, <2>1, <2>2, <2>3 DEF AD!Answer
<1>1. CASE check_file
  <2>1. CASE pc' = "done"
    BY <1>1, <1>f, <2>1 DEF check_file, AD!Next
  <2>2. CASE pc' # "done"
    <3>1. pc = "check" /\ pc' = "open" /\ file' = file /\ call' = call
      BY <1>1, <2>2 DEF check_file
    <3>2. Answer' = Answer  BY <3>1 DEF Answer, Settled
    <3> QED  BY <1>v, <3>1, <3>2
  <2> QED  BY <2>1, <2>2
<1>2. CASE OpenFails
  BY <1>2, <1>f DEF OpenFails, AD!Next
<1>3. CASE Open
  <2>1. /\ pc = "open" /\ pc' = "read" /\ file' = file /\ call' = call
        /\ left' = as_integer(call.length) /\ eof' = FALSE /\ fed' = <<>>
    BY <1>3 DEF Open
  <2>2. Answer = None  BY <2>1 DEF Answer, Settled
  <2>3. CASE left' # 0
    <3>1. Answer' = None  BY <2>1, <2>3 DEF Answer, Settled
    <3> QED  BY <1>v, <2>1, <2>2, <3>1
  <2>4. CASE left' = 0
    <3>1. Answer' = <<>>  BY <2>1, <2>4 DEF Answer, Settled
    <3>2. call \in Calls /\ call # None  BY <1>t, <2>1, NoneAssumption DEF TypeOK
    <3>a. as_integer(call.length) = call.length /\ call.skip \in Int
      BY <3>2, Kept
    <3>b. call.length = 0  BY <2>1, <2>4, <3>a
    <3>c. 0 \in Nat /\ 0 \in Int /\ 0 >= 0  OBVIOUS
    <3>3. call.length = 0 /\ call.skip \in Int /\ 0 \in Nat /\ 0 \in Int /\ 0 >= 0
      BY <3>a, <3>b, <3>c
    <3>4. file.size \in Nat  BY <1>t, BufferAssumption DEF TypeOK
    <3>5. AD!Slice(file.size, call.skip, call.length) = Run(Skip(call.skip), 0)
      BY <3>2, <3>3, <3>4, SliceIsRun
    <3>6. Run(Skip(call.skip), 0) = <<>>  BY DEF Run
    <3> QED  BY <2>1, <2>2, <3>1, <3>2, <3>5, <3>6 DEF AD!Answer, AD!Next
  <2> QED  BY <2>3, <2>4
<1>4. CASE ReadBounded \/ ReadToEnd
  <2>1. /\ pc = "read" /\ pc' \in {"read", "finish"} /\ file' = file /\ call' = call
    BY <1>4 DEF ReadBounded, ReadToEnd
  <2>2. Answer = IF left = 0 \/ eof THEN fed ELSE None  BY <2>1, AnswerAtRead
  <2>3. CASE left = 0 \/ eof
    <3>1. pc' = "finish" /\ fed' = fed
      <4>1. CASE left = 0
        <5>1. ReadBounded  BY <1>4, <2>1, <4>1 DEF ReadToEnd, Inv
        <5>2. ~More(1, left)  BY <4>1 DEF More
        <5> QED  BY <4>1, <5>1 DEF ReadBounded, More
      <4>2. CASE eof
        <5>1. Fread = {0}  BY <4>2 DEF Fread, Available
        <5>2. ~(0 > 0)  OBVIOUS
        <5> QED  BY <1>4, <5>1, <5>2 DEF ReadBounded, ReadToEnd, More
      <4> QED  BY <2>3, <4>1, <4>2
    <3>2. Answer' = fed  BY <3>1 DEF Answer, Settled
    <3> QED  BY <1>v, <2>1, <2>2, <2>3, <3>2
  <2>4. CASE ~(left = 0 \/ eof)
    <3>1. CASE Answer' = None  BY <1>v, <2>1, <2>2, <2>4, <3>1
    <3>2. CASE Answer' # None
      BY <1>4, <2>1, <2>4, <3>2, ReadSettles DEF AD!Next
    <3> QED  BY <3>1, <3>2
  <2> QED  BY <2>3, <2>4
<1>5. CASE Finish
  <2>1. /\ pc = "finish" /\ pc' = "done" /\ file' = file /\ call' = call /\ fed' = fed
        /\ result' # Error
    BY <1>5 DEF Finish, stream, SumsAreNoErrors
  <2>2. Answer = fed /\ Answer' = fed  BY <2>1 DEF Answer, Settled
  <2> QED  BY <1>v, <2>1, <2>2
<1>6. CASE Call
  <2>1. call' \in Calls /\ pc' = "check" /\ file' = file  BY <1>6 DEF Call
  <2>2. Answer' = None  BY <2>1 DEF Answer, Settled
  <2> QED  BY <2>1, <2>2 DEF AD!Ask, AD!Next
<1>7. CASE Grow \/ Rename
  <2>1. /\ call' = call /\ pc' = pc /\ result' = result
        /\ left' = left /\ eof' = eof /\ fed' = fed
    BY <1>7 DEF Grow, Rename, stream
  <2>2. Answer' = Answer  BY <2>1 DEF Answer, Settled
  <2>3. file'.size \in Nat  BY <1>t, BufferAssumption DEF TypeOK
  <2> QED  BY <2>1, <2>2, <2>3 DEF AD!Write, AD!Next
<1>8. CASE UNCHANGED vars
  <2>1. Answer' = Answer /\ file' = file /\ call' = call
    BY <1>8 DEF vars, Answer, Settled
  <2> QED  BY <1>v, <2>1
<1> QED  BY <1>1, <1>2, <1>3, <1>4, <1>5, <1>6, <1>7, <1>8 DEF Next, Digest

\* Reading a file piece by piece next to a writer implements AtomicDigest: the
\* bytes digested are those skip and length select from the file at one instant,
\* if the stream keeps its end-of-file indicator and no read fails.
THEOREM Implements ==
    ASSUME StickyEof, ~ReadErrors, ArgumentsFit, SumsAreNoErrors
    PROVE  Spec => ImplementsAtomicDigest
<1>1. Init => AD!Init
  <2> SUFFICES ASSUME Init PROVE AD!Init  OBVIOUS
  <2>1. Answer = None  BY DEF Init, Answer, Settled
  <2>2. file.size \in Nat  BY BufferAssumption DEF Init
  <2> QED  BY <2>1, <2>2 DEF Init, AD!Init
<1>2. Inv /\ Inv' /\ [Next]_vars => [AD!Next]_(AD!vars)
  BY RefineStep
<1> QED  BY <1>1, <1>2, InvAlways, PTL
         DEF Spec, ImplementsAtomicDigest, AD!Spec

-----------------------------------------------------------------------------
(* The digest of the same bytes in memory *)

\* k updates of a hasher, each with a buffer or less: its contexts, and the
\* bytes it has got.
Stream(a, k, c, m) ==
    /\ c[0] = H_starts(a) /\ m[0] = <<>>
    /\ \A i \in 1 .. k : \E d \in Seq(Vals) :
         Len(d) \in 1 .. BUF_SIZE /\ c[i] = H_update(a, c[i - 1], d) /\ m[i] = m[i - 1] \o d

\* What the hashers' own modules are about: however a message is cut, its digest
\* is the in-memory case's, whatever the address that skip has moved.
HashersAgree ==
    \A a \in Algos, k \in Nat, skip \in Nat : \A c, m :
        Stream(a, k, c, m) /\ Len(m[k]) <= MaxSize =>
            H_finish(a, c[k], Len(m[k])) = H_memory(a, m[k], skip)

Streamed(a, x, s) == \E k \in Nat : \E c, m : Stream(a, k, c, m) /\ c[k] = x /\ m[k] = s

LEMMA StreamedFirst == \A a : Streamed(a, H_starts(a), <<>>)
<1> SUFFICES ASSUME NEW a PROVE Streamed(a, H_starts(a), <<>>)  OBVIOUS
<1> DEFINE c == [i \in {0} |-> H_starts(a)]
           m == [i \in {0} |-> <<>>]
<1>1. c[0] = H_starts(a) /\ m[0] = <<>> /\ 1 .. 0 = {} /\ 0 \in Nat  OBVIOUS
<1> HIDE DEF c, m
<1>2. Stream(a, 0, c, m)  BY <1>1 DEF Stream
<1> QED  BY <1>1, <1>2 DEF Streamed

LEMMA StreamedNext ==
    ASSUME NEW a, NEW x, NEW s, Streamed(a, x, s), NEW d \in Seq(Vals), Len(d) \in 1 .. BUF_SIZE
    PROVE  Streamed(a, H_update(a, x, d), s \o d)
<1>1. PICK k \in Nat : \E c, m : Stream(a, k, c, m) /\ c[k] = x /\ m[k] = s  BY DEF Streamed
<1>2. PICK c, m : Stream(a, k, c, m) /\ c[k] = x /\ m[k] = s  BY <1>1
<1> DEFINE y == H_update(a, x, d)
           t == s \o d
           c2 == [i \in 0 .. k + 1 |-> IF i <= k THEN c[i] ELSE y]
           m2 == [i \in 0 .. k + 1 |-> IF i <= k THEN m[i] ELSE t]
<1>3. /\ \A i \in 0 .. k : c2[i] = c[i] /\ m2[i] = m[i]
      /\ c2[k + 1] = y /\ m2[k + 1] = t
  <2> HIDE DEF y, t
  <2> QED  OBVIOUS
<1> HIDE DEF c2, m2
<1>4. c2[0] = H_starts(a) /\ m2[0] = <<>>
  <2>1. 0 \in 0 .. k  OBVIOUS
  <2> QED  BY <2>1, <1>2, <1>3 DEF Stream
<1>5. ASSUME NEW i \in 1 .. k + 1
      PROVE  \E e \in Seq(Vals) : /\ Len(e) \in 1 .. BUF_SIZE
                                  /\ c2[i] = H_update(a, c2[i - 1], e) /\ m2[i] = m2[i - 1] \o e
  <2>1. CASE i <= k
    <3>1. i \in 1 .. k /\ i \in 0 .. k /\ i - 1 \in 0 .. k  BY <2>1
    <3>2. PICK e \in Seq(Vals) : /\ Len(e) \in 1 .. BUF_SIZE
                                 /\ c[i] = H_update(a, c[i - 1], e) /\ m[i] = m[i - 1] \o e
      BY <1>2, <3>1 DEF Stream
    <3>3. c2[i] = c[i] /\ m2[i] = m[i] /\ c2[i - 1] = c[i - 1] /\ m2[i - 1] = m[i - 1]
      BY <1>3, <3>1
    <3> QED  BY <3>2, <3>3
  <2>2. CASE ~ (i <= k)
    <3>1. i = k + 1 /\ i - 1 = k /\ k \in 0 .. k  BY <2>2
    <3>2. c2[i - 1] = x /\ m2[i - 1] = s  BY <1>2, <1>3, <3>1
    <3>3. c2[i] = H_update(a, c2[i - 1], d) /\ m2[i] = m2[i - 1] \o d  BY <1>3, <3>1, <3>2
    <3> QED  BY <3>3
  <2> QED  BY <2>1, <2>2
<1>6. Stream(a, k + 1, c2, m2)  BY <1>4, <1>5 DEF Stream
<1>7. k + 1 \in Nat  OBVIOUS
<1> QED  BY <1>3, <1>6, <1>7 DEF Streamed

\* Where the stream stands. A read that met the end of the file went at least to
\* where that was when the file was opened, and only an end or the length ends
\* the loop.
Ended ==
    pc \in {"read", "finish"} =>
        /\ Streamed(call.algo, ctx, fed)
        /\ opened <= file.size
        /\ eof => opened <= pos
        /\ pc = "finish" => (as_integer(call.length) >= 0 /\ left = 0) \/ opened <= pos

\* What a read without failures that comes short of a buffer shows.
LEMMA ShortRead ==
    ASSUME TypeOK, ~ReadErrors, opened <= file.size, eof => opened <= pos, NEW n \in Fread
    PROVE  n < BUF_SIZE => opened <= pos + n
<1>1. n = Available  BY DEF Fread
<1>2. pos \in Nat /\ file.size \in Nat /\ opened \in Nat  BY BufferAssumption DEF TypeOK
<1>3. n \in Nat  BY ReadBounds
<1>4. CASE eof
  BY <1>2, <1>3, <1>4
<1>5. CASE ~ eof
  <2>1. n = IF file.size > pos THEN Smaller(BUF_SIZE, file.size - pos) ELSE 0
    BY <1>1, <1>5 DEF Available
  <2> DEFINE size == file.size
  <2>2. size \in Nat /\ opened <= size /\ n = IF size > pos THEN Smaller(BUF_SIZE, size - pos) ELSE 0
    BY <1>2, <2>1
  <2> HIDE DEF size
  <2> QED  BY <1>2, <2>2, BufferAssumption DEF Smaller
<1> QED  BY <1>4, <1>5

LEMMA FeedStreams ==
    ASSUME TypeOK, Streamed(call.algo, ctx, fed), NEW n \in 1 .. BUF_SIZE, Feed(n), call' = call
    PROVE  Streamed(call'.algo, ctx', fed')
<1>1. n \in Nat /\ pos \in Nat  BY BufferAssumption DEF TypeOK
<1>2. Buffer(n) = Run(pos, n)  BY DEF Buffer, Run
<1>3. Buffer(n) \in Seq(Vals) /\ Len(Buffer(n)) = n  BY <1>1, <1>2, RunConcat
<1>4. ctx' = H_update(call.algo, ctx, Buffer(n)) /\ fed' = fed \o Buffer(n)  BY DEF Feed
<1>5. Streamed(call.algo, H_update(call.algo, ctx, Buffer(n)), fed \o Buffer(n))
  BY <1>3, StreamedNext
<1> QED  BY <1>4, <1>5

LEMMA EndedNext ==
    ASSUME ~ReadErrors, Inv, Ended, [Next]_vars
    PROVE  Ended'
<1>0. TypeOK  BY DEF Inv
<1>t. file.size \in Nat /\ pos \in Nat /\ opened \in Nat /\ left \in Int
  BY <1>0, BufferAssumption DEF TypeOK
\* After most steps no stream is being read.
<1>i. ASSUME pc' \notin {"read", "finish"} PROVE Ended'  BY <1>i DEF Ended
<1>1. CASE check_file \/ OpenFails \/ Finish \/ Call
  <2>1. pc' \notin {"read", "finish"}  BY <1>1 DEF check_file, OpenFails, Finish, Call
  <2> QED  BY <2>1, <1>i
<1>2. CASE Open
  <2>1. /\ call' = call /\ ctx' = H_starts(call.algo) /\ fed' = <<>> /\ pc' = "read"
        /\ opened' = file.size /\ file' = file /\ eof' = FALSE
    BY <1>2 DEF Open
  <2>2. Streamed(call'.algo, ctx', fed')  BY <2>1, StreamedFirst
  <2>3. opened' <= file'.size  BY <2>1, <1>t
  <2> QED  BY <2>1, <2>2, <2>3 DEF Ended
<1>3. CASE ReadBounded
  <2>1. /\ pc = "read" /\ as_integer(call.length) >= 0
        /\ file' = file /\ call' = call /\ opened' = opened
    BY <1>3 DEF ReadBounded
  <2>2. PICK n \in Fread :
          /\ eof' = (n < BUF_SIZE) /\ pos' = pos + n
          /\ IF More(n, left)
             THEN Feed(Used(n, left)) /\ left' = left - Used(n, left) /\ pc' = pc
             ELSE pc' = "finish" /\ left' = left /\ ctx' = ctx /\ fed' = fed
    BY <1>3 DEF ReadBounded
  <2>3. Streamed(call.algo, ctx, fed) /\ opened <= file.size /\ (eof => opened <= pos)
    BY <2>1 DEF Ended
  <2>4. n \in Nat /\ n <= BUF_SIZE /\ BUF_SIZE \in Nat \ {0}  BY <1>0, ReadBounds, BufferAssumption
  <2>5. n < BUF_SIZE => opened <= pos + n  BY <1>0, <2>3, ShortRead
  <2>6. eof' => opened' <= pos'  BY <2>1, <2>2, <2>5
  <2>7. opened' <= file'.size  BY <2>1, <2>3
  <2>8. CASE More(n, left)
    <3>1. n > 0 /\ left > 0  BY <2>8 DEF More
    <3>2. Used(n, left) \in 1 .. BUF_SIZE  BY <1>t, <2>4, <3>1 DEF Used, Smaller
    <3>3. Streamed(call'.algo, ctx', fed')  BY <1>0, <2>1, <2>2, <2>3, <2>8, <3>2, FeedStreams
    <3>4. pc' = "read"  BY <2>1, <2>2, <2>8
    <3> QED  BY <2>6, <2>7, <3>3, <3>4 DEF Ended
  <2>9. CASE ~ More(n, left)
    <3>1. left' = left /\ ctx' = ctx /\ fed' = fed  BY <2>2, <2>9
    <3>2. Streamed(call'.algo, ctx', fed')  BY <2>1, <2>3, <3>1
    <3>3. left >= 0
      <4>1. call \in Calls  BY <1>0, <2>1 DEF TypeOK
      <4> QED  BY <2>1 DEF Inv, Contiguous
    <3>4. (as_integer(call'.length) >= 0 /\ left' = 0) \/ opened' <= pos'
      <4>1. left = 0 \/ n = 0  BY <1>t, <2>4, <2>9, <3>3 DEF More
      <4>2. n = 0 => opened <= pos + n  BY <2>4, <2>5
      <4> QED  BY <2>1, <2>2, <3>1, <4>1, <4>2
    <3> QED  BY <2>6, <2>7, <3>2, <3>4 DEF Ended
  <2> QED  BY <2>8, <2>9
<1>4. CASE ReadToEnd
  <2>1. /\ pc = "read" /\ file' = file /\ call' = call /\ opened' = opened /\ left' = left
    BY <1>4 DEF ReadToEnd
  <2>2. PICK n \in Fread :
          /\ eof' = (n < BUF_SIZE) /\ pos' = pos + n
          /\ IF n > 0 THEN Feed(n) /\ pc' = pc
             ELSE pc' = "finish" /\ ctx' = ctx /\ fed' = fed
    BY <1>4 DEF ReadToEnd
  <2>3. Streamed(call.algo, ctx, fed) /\ opened <= file.size /\ (eof => opened <= pos)
    BY <2>1 DEF Ended
  <2>4. n \in Nat /\ n <= BUF_SIZE /\ BUF_SIZE \in Nat \ {0}  BY <1>0, ReadBounds, BufferAssumption
  <2>5. n < BUF_SIZE => opened <= pos + n  BY <1>0, <2>3, ShortRead
  <2>6. eof' => opened' <= pos'  BY <2>1, <2>2, <2>5
  <2>7. opened' <= file'.size  BY <2>1, <2>3
  <2>8. CASE n > 0
    <3>1. n \in 1 .. BUF_SIZE  BY <2>4, <2>8
    <3>2. Streamed(call'.algo, ctx', fed')  BY <1>0, <2>1, <2>2, <2>3, <2>8, <3>1, FeedStreams
    <3>3. pc' = "read"  BY <2>1, <2>2, <2>8
    <3> QED  BY <2>6, <2>7, <3>2, <3>3 DEF Ended
  <2>9. CASE ~ (n > 0)
    <3>1. n = 0 /\ ctx' = ctx /\ fed' = fed  BY <2>2, <2>4, <2>9
    <3>2. Streamed(call'.algo, ctx', fed')  BY <2>1, <2>3, <3>1
    <3>3. opened' <= pos'  BY <2>1, <2>2, <2>4, <2>5, <3>1
    <3> QED  BY <2>6, <2>7, <3>2, <3>3 DEF Ended
  <2> QED  BY <2>8, <2>9
<1>5. CASE Grow
  <2>1. /\ call' = call /\ pc' = pc /\ UNCHANGED stream
        /\ file'.size = file.size + 1
    BY <1>0, <1>5 DEF Grow, TypeOK
  <2>2. opened <= file.size => opened' <= file'.size  BY <1>t, <2>1 DEF stream
  <2> QED  BY <2>1, <2>2 DEF Ended, stream
<1>6. CASE Rename
  <2>1. pc' \notin {"read", "finish"}  BY <1>6 DEF Rename
  <2> QED  BY <2>1, <1>i
<1>7. CASE UNCHANGED vars  BY <1>7 DEF vars, Ended
<1> QED  BY <1>1, <1>2, <1>3, <1>4, <1>5, <1>6, <1>7 DEF Next, Digest

\* The bytes fed are those the in-memory case takes of some size the file has had.
LEMMA FedIsInMemory ==
    ASSUME Inv, Ended, pc = "finish"
    PROVE  /\ Len(fed) <= MaxSize
           /\ \E n \in opened .. file.size :
                InMemory(n, as_integer(call.skip), as_integer(call.length)) = fed
<1> DEFINE s == as_integer(call.skip)
           skip == Skip(s)
           length == as_integer(call.length)
           m == Len(fed)
           size == file.size
<1>0. TypeOK /\ fed \in Seq(Vals)  BY DEF Inv
<1>1. size \in Nat /\ size <= MaxSize /\ pos \in Nat /\ opened \in Nat /\ left \in Int /\ MaxSize \in Nat
  BY <1>0, BufferAssumption DEF TypeOK
<1>2. s \in Int /\ length \in Int /\ skip \in Nat
  <2>1. call \in Calls  BY <1>0 DEF TypeOK
  <2> QED  BY <2>1, ArgumentTypes
<1>3. /\ fed = Run(skip, m)
      /\ IF length >= 0 THEN left >= 0 /\ left + m = length ELSE pos = skip + m
      /\ left # 0 => pos = skip + m
  BY ContiguousRun DEF Inv
<1>4. m > 0 => skip + m <= size  BY DEF Inv
<1>5. opened <= size /\ ((length >= 0 /\ left = 0) \/ opened <= pos)  BY DEF Ended
<1>6. m \in Nat  BY <1>0
<1>7. skip = IF s > 0 THEN s ELSE 0  BY DEF Skip
<1> HIDE DEF s, skip, length, m, size
<1> DEFINE before(n) == IF s > 0 THEN Smaller(s, n) ELSE 0
           taken(n) == IF length >= 0 /\ length < n - before(n) THEN length ELSE n - before(n)
<1>8. ASSUME NEW n \in opened .. size, taken(n) = m, m > 0 => before(n) = skip
      PROVE  InMemory(n, s, length) = fed
  <2> DEFINE skipped == before(n)
             used == taken(n)
  <2>1. InMemory(n, s, length) = [i \in 1 .. used |-> Data[skipped + i]]  BY DEF InMemory
  <2>2. used = m /\ (m > 0 => skipped = skip)  BY <1>8
  <2> HIDE DEF used, skipped
  <2>3. CASE m > 0
    <3>1. skipped = skip  BY <2>2, <2>3
    <3> QED  BY <1>3, <2>1, <2>2, <3>1 DEF Run
  <2>4. CASE m = 0
    <3>1. 1 .. m = {}  BY <2>4
    <3>2. InMemory(n, s, length) = [i \in {} |-> Data[skipped + i]]  BY <2>1, <2>2, <3>1
    <3>3. fed = [i \in {} |-> Data[skip + i]]  BY <1>3, <3>1 DEF Run
    <3> QED  BY <3>2, <3>3
  <2> QED  BY <1>6, <2>3, <2>4
<1>9. m <= MaxSize  BY <1>1, <1>2, <1>4, <1>6
<1>10. \E n \in opened .. size : InMemory(n, s, length) = fed
  <2>1. CASE m > 0 /\ length >= 0 /\ left = 0
    <3>1. size \in opened .. size  BY <1>1, <1>5
    <3>2. m = length /\ skip + m <= size  BY <1>2, <1>3, <1>4, <1>6, <2>1
    <3>3. before(size) = skip  BY <1>1, <1>2, <1>6, <1>7, <2>1, <3>2 DEF Smaller
    <3>4. taken(size) = m  BY <1>1, <1>2, <1>6, <3>2, <3>3
    <3> HIDE DEF before, taken
    <3> QED  BY <1>8, <3>1, <3>3, <3>4
  <2>2. CASE m > 0 /\ ~ (length >= 0 /\ left = 0)
    <3> DEFINE n == skip + m
    <3>1. n \in opened .. size /\ (length >= 0 => m <= length)
      BY <1>1, <1>2, <1>3, <1>4, <1>5, <1>6, <2>2
    <3>2. before(n) = skip  BY <1>2, <1>6, <1>7, <2>2 DEF Smaller
    <3>3. taken(n) = m  BY <1>2, <1>6, <3>1, <3>2
    <3> HIDE DEF before, taken, n
    <3> QED  BY <1>8, <3>1, <3>2, <3>3
  <2>3. CASE m = 0
    <3>1. opened \in opened .. size  BY <1>1, <1>5
    <3>2. length = 0 \/ opened <= skip
      BY <1>1, <1>2, <1>3, <1>5, <2>3
    <3>3. before(opened) \in Nat /\ before(opened) <= opened
          /\ (opened <= skip => before(opened) = opened)
      BY <1>1, <1>2, <1>7 DEF Smaller
    <3>4. taken(opened) = m
      <4> HIDE DEF before
      <4> QED  BY <1>1, <1>2, <2>3, <3>2, <3>3
    <3> HIDE DEF before, taken
    <3> QED  BY <1>8, <2>3, <3>1, <3>4
  <2> QED  BY <1>6, <2>1, <2>2, <2>3
<1> QED  BY <1>9, <1>10 DEF s, skip, length, m, size

\* If no read fails and every hasher gives for a message in pieces what its
\* in-memory case gives, the digest of a file is that of the same bytes in
\* memory, as the file was at some instant since it was opened, whoever appends to
\* it, also where the C library forgets an end of file it has met.
THEOREM PiecesEqualMemory ==
    ASSUME ~ReadErrors, HashersAgree
    PROVE  Spec => FileEqualsMemory
<1>1. Init => Ended  BY DEF Init, Ended
<1>2. Inv /\ Ended /\ [Next]_vars => Ended'  BY EndedNext
<1> DEFINE A == pc = "finish" /\ pc' = "done" =>
                  \E n \in opened .. file.size :
                    result' = H_memory(call.algo,
                                       InMemory(n, as_integer(call.skip), as_integer(call.length)),
                                       Skip(as_integer(call.skip)))
<1>3. Inv /\ Ended /\ [Next]_vars => A
  <2> SUFFICES ASSUME Inv, Ended, [Next]_vars, pc = "finish", pc' = "done"
               PROVE  \E n \in opened .. file.size :
                        result' = H_memory(call.algo,
                                           InMemory(n, as_integer(call.skip), as_integer(call.length)),
                                           Skip(as_integer(call.skip)))
    OBVIOUS
  <2>1. Finish
    BY DEF Next, Digest, check_file, OpenFails, Open, ReadBounded, ReadToEnd, Call, Grow, Rename, vars
  <2>2. result' = H_finish(call.algo, ctx, Len(fed))  BY <2>1 DEF Finish
  <2>3. call \in Calls  BY DEF Inv, TypeOK
  <2>4. call.algo \in Algos /\ Skip(as_integer(call.skip)) \in Nat
    <3>1. call.algo \in Algos  BY <2>3 DEF Calls
    <3> QED  BY <2>3, <3>1, ArgumentTypes
  <2>5. Streamed(call.algo, ctx, fed)  BY DEF Ended
  <2>6. Len(fed) <= MaxSize  BY FedIsInMemory
  <2>7. PICK n \in opened .. file.size :
          InMemory(n, as_integer(call.skip), as_integer(call.length)) = fed
    BY FedIsInMemory
  <2>8. PICK k \in Nat : \E c, m : Stream(call.algo, k, c, m) /\ c[k] = ctx /\ m[k] = fed
    BY <2>5 DEF Streamed
  <2>9. PICK c, m : Stream(call.algo, k, c, m) /\ c[k] = ctx /\ m[k] = fed  BY <2>8
  <2>10. H_finish(call.algo, c[k], Len(m[k])) = H_memory(call.algo, m[k], Skip(as_integer(call.skip)))
    BY <2>4, <2>6, <2>9 DEF HashersAgree
  <2> QED  BY <2>2, <2>7, <2>9, <2>10
<1> QED  BY <1>1, <1>2, <1>3, InvAlways, PTL DEF Spec, FileEqualsMemory
=============================================================================

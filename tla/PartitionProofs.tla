-------------------------- MODULE PartitionProofs --------------------------
(****************************************************************************)
(* The properties of module Partition for every length and thread count.    *)
(****************************************************************************)
EXTENDS Partition, TLAPS

-----------------------------------------------------------------------------
(* Division, rounded up. *)

(* What n ÷ b means, in the form the steps below use it. *)
LEMMA DivMod ==
  ASSUME NEW a \in Nat, NEW b \in Nat \ {0}
  PROVE  /\ a \div b \in Nat /\ a % b \in Nat
         /\ a = b * (a \div b) + (a % b)
         /\ a % b < b
BY SMT

(* The quotient is determined by being the right multiple of b away. *)
LEMMA QuotientUnique ==
  ASSUME NEW b \in Nat \ {0}, NEW p \in Int, NEW q \in Int,
         NEW r \in Nat, NEW s \in Nat, r < b, s < b,
         b * p + r = b * q + s
  PROVE  p = q /\ r = s
<1>1. b * (p - q) = s - r
  BY SMT
<1>2. ~(p - q >= 1)
  <2> SUFFICES ASSUME p - q >= 1 PROVE FALSE
    OBVIOUS
  <2>1. b * (p - q) >= b
    BY SMT
  <2> QED BY <1>1, <2>1, SMT
<1>3. ~(p - q <= -1)
  <2> SUFFICES ASSUME p - q <= -1 PROVE FALSE
    OBVIOUS
  <2>1. b * (p - q) <= -b
    BY SMT
  <2> QED BY <1>1, <2>1, SMT
<1>4. p = q
  BY <1>2, <1>3, SMT
<1> QED BY <1>4, SMT

(* CeilDiv(a, b) parts of b reach a, and one part fewer does not. *)
LEMMA CeilDivBounds ==
  ASSUME NEW a \in Nat, NEW b \in Nat \ {0}
  PROVE  /\ CeilDiv(a, b) \in Nat
         /\ CeilDiv(a, b) * b >= a
         /\ CeilDiv(a, b) * b < a + b
<1> DEFINE q == (a + b - 1) \div b
           r == (a + b - 1) % b
<1>1. a + b - 1 \in Nat
  BY SMT
<1>2. q \in Nat /\ r \in Nat /\ a + b - 1 = b * q + r /\ r < b
  BY <1>1, DivMod
<1> HIDE DEF q, r
<1>3. q * b = b * q
  BY <1>2, SMT
<1>4. q * b >= a /\ q * b < a + b
  BY <1>2, <1>3, SMT
<1> QED BY <1>2, <1>4 DEF CeilDiv, q

(* It is the least number of parts that reach a. *)
LEMMA CeilDivLeast ==
  ASSUME NEW a \in Nat, NEW b \in Nat \ {0}, NEW q \in Nat, q * b >= a
  PROVE  CeilDiv(a, b) <= q
<1> DEFINE c == CeilDiv(a, b)
<1>1. c \in Nat /\ c * b < a + b
  BY CeilDivBounds
<1> HIDE DEF c
<1> SUFFICES ASSUME c >= q + 1 PROVE FALSE
  BY <1>1, SMT DEF c
<1>2. c * b >= (q + 1) * b
  BY <1>1, SMT
<1>3. (q + 1) * b = q * b + b
  BY SMT
<1> QED BY <1>1, <1>2, <1>3, SMT

(* A remainder e spread over d tasks adds one to the first of them. *)
LEMMA CeilDivShare ==
  ASSUME NEW d \in Nat \ {0}, NEW q \in Nat, NEW e \in Nat, e < d
  PROVE  CeilDiv(d * q + e, d) = IF e > 0 THEN q + 1 ELSE q
<1> DEFINE a == d * q + e + d - 1
           c == a \div d
           r == a % d
<1>0. d * q \in Nat
  BY SMT
<1>1. a \in Nat
  BY <1>0, SMT
<1>2. c \in Nat /\ r \in Nat /\ a = d * c + r /\ r < d
  BY <1>1, DivMod
<1>3. CASE e > 0
  <2>1. d * (q + 1) = d * q + d
    BY SMT
  <2>2. a = d * (q + 1) + (e - 1) /\ e - 1 \in Nat /\ e - 1 < d
    BY <1>0, <1>3, <2>1, SMT
  <2> HIDE DEF a, c, r
  <2>3. c = q + 1
    BY <1>2, <2>2, QuotientUnique
  <2> QED BY <1>3, <2>3 DEF CeilDiv, c, a
<1>4. CASE e = 0
  <2>2. a = d * q + (d - 1) /\ d - 1 \in Nat /\ d - 1 < d
    BY <1>0, <1>4, SMT
  <2> HIDE DEF a, c, r
  <2>3. c = q
    BY <1>2, <2>2, QuotientUnique
  <2> QED BY <1>4, <2>3 DEF CeilDiv, c, a
<1> QED BY <1>3, <1>4, SMT

(* The width of the fixed scheme is a whole number of granules, and as many *)
(* tasks as there are threads are enough.                                   *)
LEMMA WidthFits ==
  ASSUME NEW r \in FixedRoutines, NEW n \in Nat \ {0}, NEW t \in Nat \ {0}
  PROVE  /\ Width(r, n, t) \in Nat \ {0}
         /\ Width(r, n, t) * t >= n
         /\ \E c \in Nat : Width(r, n, t) = c * Granule(r)
<1> DEFINE g == Granule(r)
           s == CeilDiv(n, t)
           c == CeilDiv(s, g)
<1>1. g \in Nat \ {0}
  BY DEF FixedRoutines, Granule
<1> HIDE DEF g
<1>2. s \in Nat /\ s * t >= n
  BY CeilDivBounds
<1> HIDE DEF s
<1>3. c \in Nat /\ c * g >= s
  BY <1>1, <1>2, CeilDivBounds
<1> HIDE DEF c
<1>4. s >= 1
  <2> SUFFICES ASSUME s = 0 PROVE FALSE
    BY <1>2, SMT
  <2>1. s * t = 0
    BY SMT
  <2> QED BY <1>2, <2>1, SMT
<1>5. c >= 1
  <2> SUFFICES ASSUME c = 0 PROVE FALSE
    BY <1>3, SMT
  <2>1. 0 * g = 0
    BY <1>1, SMT
  <2>2. 0 * g >= s
    BY <1>3, Zenon
  <2> QED BY <1>2, <1>4, <2>1, <2>2, SMT
<1>6. c * g \in Nat /\ c * g >= g
  BY <1>1, <1>3, <1>5, SMT
<1>7. Width(r, n, t) = c * g
  BY <1>1, <1>6, SMT DEF Width, RoundUp, g, c, s
<1>8. (c * g) * t >= s * t
  BY <1>1, <1>2, <1>3, <1>6, SMT
<1>9. (c * g) * t \in Nat /\ s * t \in Nat
  BY <1>2, <1>6, SMT
<1>10. (c * g) * t >= n
  BY <1>2, <1>8, <1>9, SMT
<1> QED BY <1>1, <1>3, <1>6, <1>7, <1>10, SMT DEF g

-----------------------------------------------------------------------------
(* The inductive invariant.  Shares of the even scheme have the quotient's  *)
(* size, the first of them one more; tasks of the fixed scheme start at     *)
(* multiples of the width; in both, what was cut so far is covered once.    *)

Quotient  == total \div threads
Remainder == total % threads
Least(a, b) == IF a < b THEN a ELSE b

IdleShape ==
  /\ pc = "idle" => offset = 0 /\ tasks = <<>>
  /\ pc # "idle" => total > 0

EvenShape ==
  pc # "idle" /\ routine \in EvenRoutines =>
    /\ Len(tasks) <= threads
    /\ offset = Len(tasks) * Quotient + Least(Len(tasks), Remainder)
    /\ \A i \in 1..Len(tasks) : tasks[i].size \in {Quotient, Quotient + 1}

FixedShape ==
  pc # "idle" /\ routine \in FixedRoutines =>
    /\ width > 0
    /\ width * threads >= total
    /\ \E c \in Nat : width = c * Granule(routine)
    /\ \A i \in 1..Len(tasks) :
         /\ tasks[i].start = (i - 1) * width
         /\ tasks[i].start < total
         /\ tasks[i].size = Least(width, total - tasks[i].start)
    /\ \/ offset = Len(tasks) * width
       \/ offset = total /\ Len(tasks) * width >= total

CoverShape ==
  /\ \A i \in 1..Len(tasks) :
       tasks[i].start + tasks[i].size <= Least(offset, total)
  /\ \A x \in 0..(Least(offset, total) - 1) :
       \E i \in 1..Len(tasks) : Covers(i, x)
  /\ \A i, j \in 1..Len(tasks) : \A x \in Nat :
       Covers(i, x) /\ Covers(j, x) => i = j

(* At the hand-over the loop has run its course. *)
DoneShape ==
  pc = "dispatched" => LoopOver

PartInv == TypeOK /\ IdleShape /\ EvenShape /\ FixedShape /\ CoverShape /\ DoneShape

-----------------------------------------------------------------------------
(* One more task keeps the cover. *)
LEMMA CoverStep ==
  ASSUME TypeOK, CoverShape,
         NEW size \in Nat, AddTask(size), offset <= total,
         offset' \in Nat, total' = total,
         Least(offset', total') = offset + size
  PROVE  CoverShape' /\ tasks' \in Seq(Task)
<1> DEFINE n == Len(tasks)
           new == [start |-> offset, size |-> size]
<1>1. new \in Task /\ tasks \in Seq(Task) /\ n \in Nat /\ offset \in Nat /\ total \in Nat
  BY DEF TypeOK, Task
<1>2. /\ tasks' = Append(tasks, new)
      /\ tasks' \in Seq(Task)
      /\ Len(tasks') = n + 1
      /\ tasks'[n + 1] = new
      /\ \A i \in 1..n : tasks'[i] = tasks[i]
  BY <1>1, SMT DEF AddTask
<1>m. PICK m \in Nat : m = n + 1
  BY <1>1, SMT
<1>3. \A i \in 1..n : tasks[i].start \in Nat /\ tasks[i].size \in Nat
  <2>1. \A i \in 1..n : tasks[i] \in Task
    BY <1>1, SMT
  <2> QED BY <2>1, SMT DEF Task
<1>4. \A i \in 1..n : tasks[i].start + tasks[i].size <= offset
  BY <1>1, <1>3, SMT DEF CoverShape, Least
<1>5. \A x : \A i \in 1..n : Covers(i, x)' <=> Covers(i, x)
  BY <1>2 DEF Covers
<1>6. \A x \in Nat : Covers(m, x)' <=> offset <= x /\ x < offset + size
  <2>1. tasks'[m].start = offset /\ tasks'[m].size = size
    BY <1>2, <1>m, SMT
  <2> QED BY <2>1 DEF Covers
<1>7. \A i \in 1..Len(tasks') : i \in 1..n \/ i = m
  BY <1>1, <1>2, <1>m, SMT
<1>8. \A i \in 1..Len(tasks') :
        tasks'[i].start + tasks'[i].size <= Least(offset', total')
  BY <1>1, <1>2, <1>3, <1>4, <1>7, <1>m, SMT
<1>9. ASSUME NEW x \in 0..(Least(offset', total') - 1)
      PROVE  \E i \in 1..Len(tasks') : Covers(i, x)'
  <2>1. CASE x < offset
    <3>1. x \in 0..(Least(offset, total) - 1)
      BY <1>1, <1>9, <2>1, SMT DEF Least
    <3>2. PICK i \in 1..n : Covers(i, x)
      BY <3>1 DEF CoverShape
    <3>3. i \in 1..Len(tasks') /\ Covers(i, x)'
      BY <1>1, <1>2, <1>5, <3>2, SMT
    <3> QED BY <3>3
  <2>2. CASE x >= offset
    <3>1. x \in Nat /\ x < offset + size
      BY <1>1, <1>9, SMT
    <3>2. Covers(m, x)'
      BY <1>6, <2>2, <3>1
    <3>3. m \in 1..Len(tasks')
      BY <1>1, <1>2, <1>m, SMT
    <3> QED BY <3>2, <3>3
  <2> QED BY <1>1, <1>9, <2>1, <2>2, SMT
<1>10. ASSUME NEW i \in 1..Len(tasks'), NEW j \in 1..Len(tasks'), NEW x \in Nat,
              Covers(i, x)', Covers(j, x)'
       PROVE  i = j
  <2>1. \A k \in 1..n : Covers(k, x) => x < offset
    BY <1>1, <1>3, <1>4, SMTT(30) DEF Covers
  <2>2. CASE i \in 1..n /\ j \in 1..n
    BY <1>5, <1>10, <2>2 DEF CoverShape
  <2>3. CASE i \in 1..n /\ j = m
    <3>1. x < offset
      BY <1>5, <1>10, <2>1, <2>3
    <3>2. offset <= x
      BY <1>6, <1>10, <2>3
    <3> QED BY <1>1, <3>1, <3>2, SMT
  <2>4. CASE i = m /\ j \in 1..n
    <3>1. x < offset
      BY <1>5, <1>10, <2>1, <2>4
    <3>2. offset <= x
      BY <1>6, <1>10, <2>4
    <3> QED BY <1>1, <3>1, <3>2, SMT
  <2> QED BY <1>7, <2>2, <2>3, <2>4
<1> QED BY <1>2, <1>8, <1>9, <1>10 DEF CoverShape

(* The share of the even scheme is the quotient, or one more while the      *)
(* remainder lasts.                                                         *)
LEMMA ShareValue ==
  ASSUME TypeOK, EvenShape, pc = "cutting", routine \in EvenRoutines,
         Len(tasks) < threads
  PROVE  /\ Quotient \in Nat /\ Remainder \in Nat
         /\ Share = IF Len(tasks) < Remainder THEN Quotient + 1 ELSE Quotient
         /\ offset + Share <= total
         /\ offset + Share
              = (Len(tasks) + 1) * Quotient + Least(Len(tasks) + 1, Remainder)
<1> DEFINE n == Len(tasks)
           q == Quotient
           e == Remainder
           d == threads - n
           k == Least(n, e)
           f == e - k
<1>1. /\ total \in Nat /\ threads \in Nat \ {0} /\ n \in Nat /\ d \in Nat \ {0}
      /\ n < threads
  BY BoundsAssumption, SMT DEF TypeOK
<1>2. q \in Nat /\ e \in Nat /\ total = threads * q + e /\ e < threads
  BY <1>1, DivMod DEF Quotient, Remainder
<1>3. offset = n * q + k
  BY DEF EvenShape
<1> HIDE DEF n, q, e
<1>4. k \in Nat /\ f \in Nat /\ f < d /\ (f > 0 <=> n < e)
  BY <1>1, <1>2, SMT DEF Least
<1>5. d * q = threads * q - n * q /\ d * q \in Nat /\ n * q \in Nat /\ threads * q \in Nat
  BY <1>1, <1>2, SMT
<1>6. Rest = d * q + f
  BY <1>2, <1>3, <1>4, <1>5, SMT DEF Rest
<1>7. CeilDiv(d * q + f, d) = IF f > 0 THEN q + 1 ELSE q
  BY <1>1, <1>2, <1>4, CeilDivShare
<1>8. Share = IF n < e THEN q + 1 ELSE q
  BY <1>4, <1>6, <1>7 DEF Share, n
<1>9. (n + 1) * q = n * q + q /\ d * q >= q
  BY <1>1, <1>2, SMT
<1>10. offset + Share = (n + 1) * q + Least(n + 1, e)
  BY <1>1, <1>2, <1>3, <1>4, <1>5, <1>8, <1>9, SMT DEF Least
<1>11. offset + Share <= total
  BY <1>2, <1>3, <1>4, <1>5, <1>8, <1>9, SMTT(30)
<1> QED BY <1>2, <1>8, <1>10, <1>11 DEF n, q, e

(* One more task of the fixed scheme, however the loop advances. *)
LEMMA FixedStep ==
  ASSUME TypeOK, FixedShape, CoverShape,
         pc # "idle", routine \in FixedRoutines, offset < total,
         Len(tasks) * width < total,
         AddTask(IF width < Rest THEN width ELSE Rest),
         offset' = offset + width
           \/ offset' = offset + (IF width < Rest THEN width ELSE Rest),
         UNCHANGED <<pc, routine, total, threads, width>>
  PROVE  FixedShape' /\ CoverShape' /\ tasks' \in Seq(Task) /\ offset' \in Nat
<1> DEFINE n == Len(tasks)
           size == IF width < Rest THEN width ELSE Rest
           new == [start |-> offset, size |-> size]
<1>1. /\ total \in Nat /\ threads \in Nat \ {0} /\ offset \in Nat /\ width \in Nat
      /\ tasks \in Seq(Task) /\ n \in Nat
  BY BoundsAssumption, SMT DEF TypeOK
<1>2. offset = n * width
  BY <1>1, SMT DEF FixedShape
<1>a. width > 0
  BY DEF FixedShape
<1>b. (width < total - offset /\ size = width) \/ (~(width < total - offset) /\ size = total - offset)
  BY DEF Rest
<1>e. offset' = offset + width \/ offset' = offset + size
  OBVIOUS
<1>5. AddTask(size) /\ offset <= total /\ total' = total
  BY <1>1, SMT
<1> HIDE DEF size
<1>c. size \in Nat /\ offset + size <= total
  BY <1>1, <1>b, SMT
<1>d. size = Least(width, total - offset)
  BY <1>b DEF Least
<1>3. size \in Nat /\ size = Least(width, total - offset) /\ offset + size <= total
  BY <1>c, <1>d
<1>f. offset' \in Nat
  BY <1>1, <1>c, <1>e, SMT
<1>g. Least(offset', total) = offset + size
  BY <1>1, <1>a, <1>b, <1>e, <1>f, SMT DEF Least
<1>4. offset' \in Nat /\ Least(offset', total') = offset + size
  BY <1>f, <1>g
<1>6. CoverShape' /\ tasks' \in Seq(Task)
  BY <1>3, <1>4, <1>5, CoverStep
<1>m. PICK m \in Nat : m = n + 1
  BY <1>1, SMT
<1>7. /\ tasks' = Append(tasks, new)
      /\ Len(tasks') = m
      /\ tasks'[m] = new
      /\ \A i \in 1..n : tasks'[i] = tasks[i]
  BY <1>1, <1>5, <1>m, SMT DEF AddTask
<1>8. n * width \in Nat /\ m * width = n * width + width
  BY <1>1, <1>m, SMT
<1>9. ASSUME NEW i \in 1..Len(tasks')
      PROVE  /\ tasks'[i].start = (i - 1) * width
             /\ tasks'[i].start < total
             /\ tasks'[i].size = Least(width, total - tasks'[i].start)
  <2>1. CASE i \in 1..n
    <3>1. tasks'[i] = tasks[i]
      BY <1>7, <2>1
    <3> QED BY <2>1, <3>1 DEF FixedShape
  <2>2. CASE i = m
    <3>1. tasks'[i].start = offset /\ tasks'[i].size = size
      BY <1>7, <2>2, SMT
    <3>2. i - 1 = n
      BY <1>1, <1>m, <2>2, SMT
    <3> QED BY <1>2, <1>3, <3>1, <3>2
  <2> QED BY <1>1, <1>m, <1>7, <2>1, <2>2, SMT
<1>10. offset' = m * width \/ (offset' = total /\ m * width >= total)
  <2>1. CASE offset' = offset + width
    BY <1>2, <1>8, <2>1
  <2>2. CASE offset' = offset + size /\ size = width
    BY <1>2, <1>8, <2>2
  <2>3. CASE offset' = offset + size /\ size = total - offset /\ ~(width < total - offset)
    <3>1. offset' = total
      BY <1>1, <1>c, <2>3, SMT
    <3>2. n * width + width >= total
      BY <1>1, <1>2, <2>3, SMT
    <3> QED BY <1>8, <3>1, <3>2
  <2> QED BY <1>b, <1>e, <2>1, <2>2, <2>3
<1>11. FixedShape'
  <2>1. /\ width' = width /\ total' = total /\ threads' = threads /\ routine' = routine
        /\ pc' = pc
    OBVIOUS
  <2>2. width * threads >= total /\ \E c \in Nat : width = c * Granule(routine)
    BY DEF FixedShape
  <2>3. Granule(routine)' = Granule(routine)
    BY <2>1 DEF Granule
  <2> QED BY <1>2, <1>7, <1>9, <1>10, <2>1, <2>2, <2>3 DEF FixedShape
<1> QED BY <1>4, <1>6, <1>11

-----------------------------------------------------------------------------
(* The invariant holds initially and every action preserves it. *)

LEMMA InitInv == Init => PartInv
<1> SUFFICES ASSUME Init PROVE PartInv
  OBVIOUS
<1>1. tasks \in Seq(Task) /\ Len(tasks) = 0
  BY SMT DEF Init
<1>2. TypeOK
  BY <1>1, BoundsAssumption, SMT DEF Init, TypeOK, Routines, EvenRoutines
<1>3. CoverShape
  BY <1>1, SMT DEF Init, CoverShape, Least
<1> QED BY <1>2, <1>3
     DEF Init, PartInv, IdleShape, EvenShape, FixedShape, DoneShape

LEMMA CallStep ==
  ASSUME PartInv, NEW r \in Routines, NEW n \in 1..MaxLength, NEW t \in 1..MaxThreads,
         Call(r, n, t)
  PROVE  PartInv'
<1>1. /\ pc' = "cutting" /\ routine' = r /\ total' = n /\ threads' = t
      /\ offset' = 0 /\ tasks' = <<>>
  BY DEF Call, PartInv, IdleShape
<1>2. n \in Nat \ {0} /\ t \in Nat \ {0}
  BY BoundsAssumption, SMT
<1>3. tasks' \in Seq(Task) /\ Len(tasks') = 0
  BY <1>1, SMT
<1>4. CASE r \in EvenRoutines
  <2>1. width' = 0 /\ r \notin FixedRoutines
    BY <1>4 DEF Call, EvenRoutines, FixedRoutines
  <2>2. FixedShape'
    BY <1>1, <2>1 DEF FixedShape
  <2>3. Quotient' \in Nat /\ Remainder' \in Nat
    BY <1>1, <1>2, DivMod DEF Quotient, Remainder
  <2>q. PICK q \in Nat : q = Quotient'
    BY <2>3
  <2>e. PICK e \in Nat : e = Remainder'
    BY <2>3
  <2>f. 0 * q = 0
    BY SMT
  <2>g. Least(0, e) = 0
    BY SMT DEF Least
  <2>4. 0 * q + Least(0, e) = 0
    BY <2>f, <2>g, SMT
  <2>a. Least(Len(tasks), Remainder)' = Least(0, e)
    BY <1>3, <2>e DEF Least
  <2>b. offset' = Len(tasks') * Quotient' + Least(Len(tasks), Remainder)'
    BY <1>1, <1>3, <2>4, <2>q, <2>a
  <2>c. Len(tasks') <= threads'
    BY <1>1, <1>2, <1>3, SMT
  <2>d. \A i \in 1..Len(tasks') : FALSE
    BY <1>3, SMT
  <2>5. EvenShape'
    BY <2>b, <2>c, <2>d DEF EvenShape
  <2>6. width' \in Nat
    BY <2>1
  <2> QED BY <2>2, <2>5, <2>6, <1>1, <1>2, <1>3, SMT
       DEF PartInv, TypeOK, IdleShape, CoverShape, Least, DoneShape
<1>5. CASE r \in FixedRoutines
  <2>1. width' = Width(r, n, t) /\ r \notin EvenRoutines
    BY <1>5 DEF Call, EvenRoutines, FixedRoutines
  <2>2. /\ width' \in Nat \ {0} /\ width' * t >= n
        /\ \E c \in Nat : width' = c * Granule(r)
    BY <1>2, <1>5, <2>1, WidthFits
  <2>3. Granule(routine)' = Granule(r)
    BY <1>1 DEF Granule
  <2>4. 0 * width' = 0
    BY <2>2, SMT
  <2>5. FixedShape'
    BY <1>1, <1>3, <2>2, <2>3, <2>4, SMT DEF FixedShape
  <2>6. EvenShape'
    BY <1>1, <2>1 DEF EvenShape
  <2>7. width' \in Nat
    BY <2>2, SMT
  <2> QED BY <2>5, <2>6, <2>7, <1>1, <1>2, <1>3, SMT
       DEF PartInv, TypeOK, IdleShape, CoverShape, Least, DoneShape
<1> QED BY <1>4, <1>5 DEF Routines

(* Both loops of the even scheme. *)
LEMMA EvenStep ==
  ASSUME PartInv, pc = "cutting", routine \in EvenRoutines, Len(tasks) < threads,
         AddTask(Share), offset' = offset + Share,
         UNCHANGED <<pc, routine, total, threads, width>>
  PROVE  PartInv'
<1> DEFINE n == Len(tasks)
           q == Quotient
           e == Remainder
           new == [start |-> offset, size |-> Share]
<1>1. /\ TypeOK /\ EvenShape /\ CoverShape /\ IdleShape
      /\ total \in Nat /\ threads \in Nat /\ offset \in Nat
      /\ tasks \in Seq(Task) /\ n \in Nat
  BY BoundsAssumption, SMT DEF PartInv, TypeOK
<1>2. /\ q \in Nat /\ e \in Nat
      /\ Share = IF n < e THEN q + 1 ELSE q
      /\ offset + Share <= total
      /\ offset + Share = (n + 1) * q + Least(n + 1, e)
  BY <1>1, ShareValue
<1>3. Share \in {q, q + 1}
  BY <1>2
<1> HIDE DEF q, e
<1>s. PICK z \in Nat : z = Share
  BY <1>2, <1>3, SMT
<1>4. offset' \in Nat /\ offset' <= total /\ offset <= total
  BY <1>1, <1>2, <1>s, SMT
<1>5. Least(offset', total') = offset + Share
  BY <1>1, <1>2, <1>4, <1>s, SMT DEF Least
<1>6. CoverShape' /\ tasks' \in Seq(Task)
  <2>1. AddTask(z) /\ Least(offset', total') = offset + z /\ total' = total
    BY <1>5, <1>s
  <2> QED BY <1>1, <1>4, <2>1, CoverStep
<1>m. PICK m \in Nat : m = n + 1
  BY <1>1, SMT
<1>7. /\ Len(tasks') = m
      /\ tasks'[m].size = z
      /\ \A i \in 1..n : tasks'[i] = tasks[i]
  BY <1>1, <1>s, <1>m, SMT DEF AddTask
<1>8. Quotient' = q /\ Remainder' = e
  BY DEF Quotient, Remainder, q, e
<1>9. EvenShape'
  <2>1. m <= threads
    BY <1>1, <1>m, SMT
  <2>2. offset' = m * q + Least(m, e)
    BY <1>2, <1>m
  <2>3. \A i \in 1..n : tasks[i].size \in {q, q + 1}
    BY <1>1 DEF EvenShape, q
  <2>4. \A i \in 1..m : i \in 1..n \/ i = m
    BY <1>1, <1>m, SMT
  <2>5. \A i \in 1..m : tasks'[i].size \in {q, q + 1}
    BY <1>3, <1>s, <1>7, <2>3, <2>4
  <2>6. Least(Len(tasks), Remainder)' = Least(m, e)
    BY <1>7, <1>8 DEF Least
  <2> QED BY <1>7, <1>8, <2>1, <2>2, <2>5, <2>6 DEF EvenShape
<1>10. FixedShape'
  BY DEF FixedShape, EvenRoutines, FixedRoutines
<1>11. TypeOK'
  BY <1>1, <1>4, <1>6 DEF TypeOK
<1> QED BY <1>1, <1>6, <1>9, <1>10, <1>11 DEF PartInv, IdleShape, DoneShape

(* Both loops of the fixed scheme. *)
LEMMA FixedLoopStep ==
  ASSUME PartInv, Level2ColsTask \/ GemmTask
  PROVE  PartInv'
<1>1. /\ TypeOK /\ FixedShape /\ CoverShape /\ IdleShape
      /\ total \in Nat \ {0} /\ width \in Nat \ {0} /\ offset \in Nat
      /\ Len(tasks) \in Nat
      /\ pc = "cutting" /\ routine \in FixedRoutines /\ routine \notin EvenRoutines
  BY SMT DEF PartInv, TypeOK, IdleShape, FixedShape, Level2ColsTask, GemmTask,
             FixedRoutines, EvenRoutines
<1>2. offset < total /\ Len(tasks) * width < total
  <2>1. CASE Level2ColsTask
    <3>1. Len(tasks) < CeilDiv(total, width)
      BY <2>1 DEF Level2ColsTask
    <3>2. ~(Len(tasks) * width >= total)
      <4> SUFFICES ASSUME Len(tasks) * width >= total PROVE FALSE
        OBVIOUS
      <4>0. total \in Nat
        BY <1>1, SMT
      <4>1. CeilDiv(total, width) <= Len(tasks)
        BY <1>1, <4>0, CeilDivLeast
      <4>2. CeilDiv(total, width) \in Nat
        BY <1>1, <4>0, CeilDivBounds
      <4> QED BY <1>1, <3>1, <4>1, <4>2, SMT
    <3>3. Len(tasks) * width \in Nat
      BY <1>1, SMT
    <3>4. offset = Len(tasks) * width
      BY <1>1, <3>2 DEF FixedShape
    <3> QED BY <1>1, <3>2, <3>3, <3>4, SMT
  <2>2. CASE GemmTask
    <3>1. offset < total
      BY <2>2 DEF GemmTask
    <3>2. offset # total
      BY <1>1, <3>1, SMT
    <3>3. offset = Len(tasks) * width
      BY <1>1, <3>2 DEF FixedShape
    <3> QED BY <3>1, <3>3
  <2> QED BY <2>1, <2>2
<1>3. /\ AddTask(IF width < Rest THEN width ELSE Rest)
      /\ offset' = offset + width
           \/ offset' = offset + (IF width < Rest THEN width ELSE Rest)
      /\ UNCHANGED <<pc, routine, total, threads, width>>
  BY DEF Level2ColsTask, GemmTask
<1>4. pc # "idle"
  BY <1>1
<1>5. FixedShape' /\ CoverShape' /\ tasks' \in Seq(Task) /\ offset' \in Nat
  BY <1>1, <1>2, <1>3, <1>4, FixedStep
<1>6. TypeOK'
  BY <1>1, <1>3, <1>5 DEF TypeOK
<1>7. EvenShape' /\ IdleShape' /\ DoneShape'
  BY <1>1, <1>3 DEF EvenShape, IdleShape, DoneShape
<1> QED BY <1>5, <1>6, <1>7 DEF PartInv

LEMMA NextInv ==
  ASSUME PartInv, [Next]_vars
  PROVE  PartInv'
<1>1. CASE \E r \in Routines, n \in 1..MaxLength, t \in 1..MaxThreads : Call(r, n, t)
  BY <1>1, CallStep
<1>2. CASE Level1Task
  BY <1>2, EvenStep DEF Level1Task, EvenRoutines
<1>3. CASE Level2RowsTask
  BY <1>3, EvenStep DEF Level2RowsTask, EvenRoutines
<1>4. CASE Level2ColsTask \/ GemmTask
  BY <1>4, FixedLoopStep
<1>5. CASE Dispatch
  <2>1. /\ pc = "cutting" /\ pc' = "dispatched" /\ LoopOver
        /\ UNCHANGED <<routine, total, threads, width, offset, tasks>>
    BY <1>5 DEF Dispatch
  <2>2. LoopOver'
    BY <2>1 DEF LoopOver, CeilDiv
  <2>3. TypeOK' /\ IdleShape' /\ DoneShape' /\ CoverShape'
    BY <2>1, <2>2 DEF PartInv, TypeOK, IdleShape, DoneShape, CoverShape, Covers, Least
  <2>4. EvenShape'
    BY <2>1 DEF PartInv, EvenShape, Quotient, Remainder, Least
  <2>5. FixedShape'
    <3>1. Granule(routine)' = Granule(routine)
      BY <2>1 DEF Granule
    <3> QED BY <2>1, <3>1 DEF PartInv, FixedShape, Least
  <2> QED BY <2>3, <2>4, <2>5 DEF PartInv
<1>6. CASE Return
  <2>1. /\ pc' = "idle" /\ total' = 0 /\ threads' = 1 /\ width' = 0 /\ offset' = 0
        /\ tasks' = <<>> /\ routine' = routine
    BY <1>6 DEF Return
  <2>2. tasks' \in Seq(Task) /\ Len(tasks') = 0
    BY <2>1, SMT
  <2>3. TypeOK'
    BY <2>1, <2>2, BoundsAssumption, SMT DEF PartInv, TypeOK
  <2>4. CoverShape'
    BY <2>1, <2>2, SMT DEF CoverShape, Least
  <2> QED BY <2>1, <2>3, <2>4 DEF PartInv, IdleShape, EvenShape, FixedShape, DoneShape
<1>7. CASE UNCHANGED vars
  <2>1. /\ pc' = pc /\ routine' = routine /\ total' = total /\ threads' = threads
        /\ width' = width /\ offset' = offset /\ tasks' = tasks
    BY <1>7 DEF vars
  <2>2. TypeOK' /\ IdleShape' /\ CoverShape'
    BY <2>1 DEF PartInv, TypeOK, IdleShape, CoverShape, Covers, Least
  <2>3. EvenShape'
    BY <2>1 DEF PartInv, EvenShape, Quotient, Remainder, Least
  <2>4. FixedShape'
    <3>1. Granule(routine)' = Granule(routine)
      BY <2>1 DEF Granule
    <3> QED BY <2>1, <3>1 DEF PartInv, FixedShape, Least
  <2>5. DoneShape'
    BY <2>1 DEF PartInv, DoneShape, LoopOver, CeilDiv
  <2> QED BY <2>2, <2>3, <2>4, <2>5 DEF PartInv
<1> QED BY <1>1, <1>2, <1>3, <1>4, <1>5, <1>6, <1>7 DEF Next

(* The inductive invariant of every call. *)
THEOREM PartitionInvariant == Spec => []PartInv
<1>1. PartInv /\ [Next]_vars => PartInv'
  BY NextInv
<1> QED BY InitInv, <1>1, PTL DEF Spec

(* Every variable keeps to its range, for every loop, length and number of  *)
(* threads: no share has a negative size and no offset goes below 0, though *)
(* the code counts in a size_t (util.c:727-870).                            *)
THEOREM PartitionTypeCorrect == Spec => []TypeOK
<1>1. PartInv => TypeOK
  BY DEF PartInv
<1> QED BY <1>1, PartitionInvariant, PTL

-----------------------------------------------------------------------------
(* What follows from it. *)

(* When a loop ends, it has come to the end of the operands. *)
LEMMA EndReached ==
  ASSUME PartInv, pc = "dispatched"
  PROVE  Least(offset, total) = total
<1>1. /\ total \in Nat \ {0} /\ threads \in Nat \ {0} /\ offset \in Nat
      /\ total \in Nat /\ Len(tasks) \in Nat /\ LoopOver
  BY BoundsAssumption, SMT DEF PartInv, TypeOK, IdleShape, DoneShape
<1>2. CASE routine \in EvenRoutines
  <2>1. Len(tasks) = threads
    BY <1>1, <1>2 DEF LoopOver, EvenRoutines
  <2>2. /\ Quotient \in Nat /\ Remainder \in Nat /\ Remainder < threads
        /\ total = threads * Quotient + Remainder
    BY <1>1, DivMod DEF Quotient, Remainder
  <2>3. Least(threads, Remainder) = Remainder
    BY <1>1, <2>2, SMT DEF Least
  <2>4. offset = total
    BY <1>2, <2>1, <2>2, <2>3 DEF PartInv, EvenShape
  <2> QED BY <2>4 DEF Least
<1>3. CASE routine \in {"scols", "dcols"}
  <2>1. Len(tasks) = CeilDiv(total, width)
    BY <1>1, <1>3 DEF LoopOver, EvenRoutines
  <2>2. width \in Nat \ {0}
    BY <1>3, SMT DEF PartInv, TypeOK, FixedShape, FixedRoutines
  <2>3. Len(tasks) * width >= total
    BY <1>1, <2>1, <2>2, CeilDivBounds
  <2>4. offset = total \/ offset = Len(tasks) * width
    BY <1>3 DEF PartInv, FixedShape, FixedRoutines
  <2>5. offset >= total
    BY <1>1, <2>3, <2>4, SMT
  <2> QED BY <1>1, <2>5, SMT DEF Least
<1>4. CASE routine \in {"sbands", "spack", "dbands"}
  <2>1. offset >= total
    BY <1>1, <1>4 DEF LoopOver, EvenRoutines
  <2> QED BY <1>1, <2>1, SMT DEF Least
<1> QED BY <1>2, <1>3, <1>4 DEF PartInv, TypeOK, Routines, FixedRoutines

(* cblas_level1_exec, cblas_level2_exec, its column form and the loops of   *)
(* cblas_sgemm and cblas_dgemm give every element to exactly one task and   *)
(* no task anything beyond the end: for every length and thread count.      *)
THEOREM CoverIsExact == Spec => []ExactCover
<1>1. PartInv => ExactCover
  <2> SUFFICES ASSUME PartInv, pc = "dispatched"
               PROVE  /\ \A x \in 0..(total - 1) :
                           \E i \in 1..Len(tasks) :
                             /\ Covers(i, x)
                             /\ \A j \in 1..Len(tasks) : Covers(j, x) => j = i
                      /\ \A i \in 1..Len(tasks) : tasks[i].start + tasks[i].size <= total
    BY DEF ExactCover
  <2>1. Least(offset, total) = total
    BY EndReached
  <2>2. ASSUME NEW x \in 0..(total - 1)
        PROVE  \E i \in 1..Len(tasks) :
                 Covers(i, x) /\ \A j \in 1..Len(tasks) : Covers(j, x) => j = i
    <3>1. PICK i \in 1..Len(tasks) : Covers(i, x)
      BY <2>1, <2>2 DEF PartInv, CoverShape
    <3>2. x \in Nat
      BY SMT DEF PartInv, TypeOK
    <3>3. \A j \in 1..Len(tasks) : Covers(j, x) => j = i
      BY <3>1, <3>2 DEF PartInv, CoverShape
    <3> QED BY <3>1, <3>3
  <2> QED BY <2>1, <2>2 DEF PartInv, CoverShape
<1> QED BY <1>1, PartitionInvariant, PTL

(* The work-item arrays are large enough at every iteration, and a batch is *)
(* never empty: MAX_THREADS items in the dispatchers, nbands in the band    *)
(* loops (the assertion of gemm.c:524), num_threads in a packing phase.     *)
THEOREM ArraysSuffice == Spec => []TasksFit
<1>1. PartInv => TasksFit
  <2> SUFFICES ASSUME PartInv, pc # "idle"
               PROVE  /\ Len(tasks) <= Capacity(routine)
                      /\ pc = "dispatched" => Len(tasks) \in 1..Capacity(routine)
                      /\ pc = "dispatched" /\ routine \in {"sbands", "dbands"}
                           => Len(tasks) = CeilDiv(total, width)
    BY DEF TasksFit
  <2>1. /\ total \in Nat \ {0} /\ total \in Nat /\ threads \in Nat \ {0} /\ threads <= MaxThreads
        /\ MaxThreads \in Nat /\ offset \in Nat /\ width \in Nat /\ Len(tasks) \in Nat
    BY BoundsAssumption, SMT DEF PartInv, TypeOK, IdleShape
  <2>2. CASE routine \in EvenRoutines
    <3>1. Capacity(routine) = MaxThreads /\ routine \notin {"sbands", "dbands"}
      BY <2>2 DEF Capacity, EvenRoutines
    <3>2. Len(tasks) <= threads
      BY <2>2 DEF PartInv, EvenShape
    <3>3. pc = "dispatched" => Len(tasks) = threads
      BY <2>2 DEF PartInv, DoneShape, LoopOver, EvenRoutines
    <3> QED BY <2>1, <3>1, <3>2, <3>3, SMT
  <2>3. CASE routine \in FixedRoutines
    <3> DEFINE c == CeilDiv(total, width)
               n == Len(tasks)
    <3>1. /\ width \in Nat \ {0} /\ threads * width >= total
          /\ \A i \in 1..n : tasks[i].start = (i - 1) * width /\ tasks[i].start < total
          /\ offset = n * width \/ n * width >= total
      BY <2>1, <2>3, SMT DEF PartInv, FixedShape
    <3>2. c \in Nat /\ c * width >= total
      BY <2>1, <3>1, CeilDivBounds
    <3>3. c <= threads
      BY <2>1, <3>1, CeilDivLeast
    <3>4. n <= c
      <4>1. CASE n = 0
        BY <3>2, <4>1, SMT
      <4>2. CASE n > 0
        <5>1. PICK k \in Nat : k = n - 1
          BY <2>1, <4>2, SMT
        <5>2. n \in 1..n
          BY <2>1, <4>2, SMT
        <5>3. k * width < total
          BY <3>1, <5>1, <5>2
        <5> HIDE DEF c, n
        <5>4. k * width \in Nat /\ c * width \in Nat
          BY <3>1, <3>2, SMT
        <5>5. ~(c <= k)
          <6> SUFFICES ASSUME c <= k PROVE FALSE
            OBVIOUS
          <6>1. c * width <= k * width
            BY <3>1, <3>2, SMT
          <6> QED BY <2>1, <3>2, <5>3, <5>4, <6>1, SMT
        <5> QED BY <2>1, <3>2, <5>1, <5>5, SMT DEF n
      <4> QED BY <2>1, <4>1, <4>2, SMT
    <3>5. pc = "dispatched" => n >= c
      <4> SUFFICES ASSUME pc = "dispatched" PROVE n >= c
        OBVIOUS
      <4>1. offset >= total
        BY <2>1, EndReached, SMT DEF Least
      <4>2. n * width >= total
        BY <3>1, <4>1
      <4> QED BY <2>1, <3>1, <4>2, CeilDivLeast
    <3>6. c >= 1
      <4> SUFFICES ASSUME c = 0 PROVE FALSE
        BY <3>2, SMT
      <4> HIDE DEF c
      <4>1. 0 * width = 0
        BY <3>1, SMT
      <4>2. 0 * width >= total
        BY <3>2, Zenon
      <4> QED BY <2>1, <4>1, <4>2, SMT
    <3>7. c <= Capacity(routine)
      <4> HIDE DEF c
      <4>1. Capacity(routine) \in {c, threads, MaxThreads}
        BY DEF Capacity, c
      <4> QED BY <2>1, <3>2, <3>3, <4>1, SMT
    <3>8. Capacity(routine) \in Nat
      BY <2>1, <3>2 DEF Capacity
    <3> HIDE DEF c, n
    <3>9. n \in Nat
      BY <2>1 DEF n
    <3>10. /\ n <= Capacity(routine)
           /\ pc = "dispatched" => n \in 1..Capacity(routine) /\ n = c
      BY <3>2, <3>4, <3>5, <3>6, <3>7, <3>8, <3>9, SMT
    <3> QED BY <3>10 DEF n, c
  <2> QED BY <2>2, <2>3 DEF PartInv, TypeOK, Routines
<1> QED BY <1>1, PartitionInvariant, PTL

(* Two shares of the even scheme differ by one at most. *)
THEOREM SharesBalanced == Spec => []Balanced
<1>1. PartInv => Balanced
  <2> SUFFICES ASSUME PartInv, pc = "dispatched", routine \in EvenRoutines,
                      NEW i \in 1..Len(tasks), NEW j \in 1..Len(tasks)
               PROVE  tasks[i].size <= tasks[j].size + 1
    BY DEF Balanced
  <2>1. Quotient \in Nat
    BY BoundsAssumption, DivMod, SMT DEF PartInv, TypeOK, Quotient
  <2>2. tasks[i].size \in {Quotient, Quotient + 1} /\ tasks[j].size \in {Quotient, Quotient + 1}
    BY DEF PartInv, EvenShape
  <2> QED BY <2>1, <2>2, SMT
<1> QED BY <1>1, PartitionInvariant, PTL

LEMMA MultipleMod ==
  ASSUME NEW g \in Nat \ {0}, NEW k \in Nat
  PROVE  (k * g) % g = 0
<1> DEFINE a == k * g
<1>1. a \in Nat /\ a = g * k + 0
  BY SMT
<1>2. a \div g \in Nat /\ a % g \in Nat /\ a = g * (a \div g) + (a % g) /\ a % g < g
  BY <1>1, DivMod
<1>3. PICK p \in Nat, r \in Nat : p = a \div g /\ r = a % g
  BY <1>2
<1>4. g * p + r = g * k + 0 /\ r < g
  BY <1>1, <1>2, <1>3
<1>5. r = 0
  BY <1>4, QuotientUnique, SMT
<1> QED BY <1>3, <1>5

(* In the fixed scheme every task starts on a granule and only the last one *)
(* ends inside one; no task is empty.                                       *)
THEOREM PanelsWhole == Spec => []WholePanels
<1>1. PartInv => WholePanels
  <2> SUFFICES ASSUME PartInv, pc = "dispatched", routine \in FixedRoutines,
                      NEW i \in 1..Len(tasks)
               PROVE  /\ tasks[i].size > 0
                      /\ tasks[i].start % Granule(routine) = 0
                      /\ i < Len(tasks) => tasks[i].size % Granule(routine) = 0
    BY DEF WholePanels
  <2> DEFINE g == Granule(routine)
  <2>1. g \in Nat \ {0}
    BY DEF Granule, FixedRoutines
  <2> HIDE DEF g
  <2>2. PICK c \in Nat : width = c * g
    BY DEF PartInv, FixedShape, g
  <2>3. /\ total \in Nat /\ width \in Nat \ {0} /\ Len(tasks) \in Nat
        /\ i \in Nat \ {0} /\ i <= Len(tasks)
    BY SMT DEF PartInv, TypeOK, FixedShape
  <2>4. /\ tasks[i].start = (i - 1) * width /\ tasks[i].start < total
        /\ tasks[i].size = Least(width, total - tasks[i].start)
    BY DEF PartInv, FixedShape
  <2>5. PICK k \in Nat : k = i - 1
    BY <2>3, SMT
  <2>6. k * width \in Nat
    BY <2>3, SMT
  <2>7. tasks[i].size > 0
    BY <2>3, <2>4, <2>5, <2>6, SMT DEF Least
  <2>8. k * (c * g) = (k * c) * g /\ k * c \in Nat
    BY <2>1, SMT
  <2>9. tasks[i].start % g = 0
    BY <2>1, <2>2, <2>4, <2>5, <2>8, MultipleMod
  <2>10. ASSUME i < Len(tasks)
         PROVE  tasks[i].size % g = 0
    <3>1. i + 1 \in 1..Len(tasks)
      BY <2>3, <2>10, SMT
    <3>2. tasks[i + 1].start = (i + 1 - 1) * width /\ tasks[i + 1].start < total
      BY <3>1 DEF PartInv, FixedShape
    <3>3. (i + 1 - 1) * width = k * width + width
      BY <2>3, <2>5, SMT
    <3>4. k * width + width < total
      BY <3>2, <3>3
    <3>5. tasks[i].start = k * width
      BY <2>4, <2>5
    <3>6. tasks[i].size = width
      BY <2>3, <2>4, <2>6, <3>4, <3>5, SMT DEF Least
    <3> QED BY <2>1, <2>2, <3>6, MultipleMod
  <2> QED BY <2>7, <2>9, <2>10 DEF g
<1> QED BY <1>1, PartitionInvariant, PTL

=============================================================================

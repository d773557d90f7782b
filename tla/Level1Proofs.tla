----------------------------- MODULE Level1Proofs -----------------------------
(****************************************************************************)
(* The level-1 routines, for every length, stride, thread count, processor  *)
(* and operating system: no kernel leaves its share, every element is       *)
(* processed once, a reduction loses no summand, and the kernel chosen runs *)
(* on this processor.                                                       *)
(*                                                                          *)
(* The argument has two halves.  The first looks at the 134 kernels as data *)
(* and shows each to have one of a few shapes, and each shape to be in      *)
(* order (CodeOK): a loop takes each element of its step once, the last     *)
(* loop takes single elements, and in a reduction the registers that hold   *)
(* summands before an instruction are the ones it reads.  The second is the *)
(* invariant of the execution of any code that is in order.                 *)
(****************************************************************************)
EXTENDS Level1, TLAPS

-----------------------------------------------------------------------------
(* Loops. *)

IsLoop(x) == x.do = "loop"

(* An iteration takes each of the next `step' elements in one lane of one   *)
(* vector, and adds none outside the accumulators.                          *)
LoopOK(x) ==
  /\ x.step \in Nat \ {0} /\ x.lanes \in Nat \ {0}
  /\ x.until \in {"fits", "below", "rounded"}
  /\ \A v \in DOMAIN x.at : x.at[v] \in Nat /\ x.into[v] \in 0..Total
  /\ \A v \in DOMAIN x.at, l \in 0..(x.lanes - 1) : x.at[v] + l < x.step
  /\ \A k \in 0..(x.step - 1) :
       \E v \in DOMAIN x.at, l \in 0..(x.lanes - 1) : k = x.at[v] + l
  /\ \A v, u \in DOMAIN x.at, l, j \in 0..(x.lanes - 1) :
       x.at[v] + l = x.at[u] + j => v = u /\ l = j

Into(x, accs) == \A v \in DOMAIN x.at : x.into[v] \in accs

(* The loops the kernels are written with are in order. *)
LEMMA LoopShapes ==
  ASSUME NEW w \in Nat \ {0}
  PROVE  /\ LoopOK(Unrolled(w)) /\ IsLoop(Unrolled(w))
         /\ Unrolled(w).until = "fits" /\ Unrolled(w).lanes = w
         /\ Into(Unrolled(w), {0})
         /\ LoopOK(Single(w)) /\ IsLoop(Single(w))
         /\ Single(w).until = "fits" /\ Single(w).lanes = w
         /\ Into(Single(w), {0})
<1>1. /\ Unrolled(w) = [do |-> "loop", step |-> 4 * w, lanes |-> w,
                        at |-> <<0, w, 2 * w, 3 * w>>,
                        into |-> [v \in 1..4 |-> 0], until |-> "fits"]
      /\ Single(w) = [do |-> "loop", step |-> w, lanes |-> w, at |-> <<0>>,
                      into |-> [v \in 1..1 |-> 0], until |-> "fits"]
  BY DEF Unrolled, Single, Loop
<1>2. LoopOK(Single(w))
  BY <1>1 DEF LoopOK, Total
<1>3. LoopOK(Unrolled(w))
  <2>. DEFINE x == Unrolled(w)
  <2>1. /\ x.step = 4 * w /\ x.lanes = w /\ DOMAIN x.at = 1..4
        /\ x.until = "fits"
        /\ x.at[1] = 0 /\ x.at[2] = w /\ x.at[3] = 2 * w /\ x.at[4] = 3 * w
        /\ \A v \in 1..4 : x.into[v] = 0
    BY <1>1
  <2>2. \A v \in DOMAIN x.at : x.at[v] \in Nat /\ x.into[v] \in 0..Total
    BY <2>1 DEF Total
  <2>3. \A v \in 1..4 : v \in Int /\ x.at[v] = (v - 1) * w
    BY <2>1
  <2>. HIDE DEF x
  <2>4. \A v \in DOMAIN x.at, l \in 0..(x.lanes - 1) : x.at[v] + l < x.step
    BY <2>1
  <2>5. \A k \in 0..(x.step - 1) :
       \E v \in DOMAIN x.at, l \in 0..(x.lanes - 1) : k = x.at[v] + l
    <3>. SUFFICES ASSUME NEW k \in 0..(x.step - 1)
                  PROVE  \E v \in DOMAIN x.at, l \in 0..(x.lanes - 1) : k = x.at[v] + l
      OBVIOUS
    <3>1. ASSUME NEW l \in 0..(w - 1), l = k
          PROVE  \E v \in DOMAIN x.at, m \in 0..(x.lanes - 1) : k = x.at[v] + m
      <4>1. 1 \in DOMAIN x.at /\ l \in 0..(x.lanes - 1) /\ k = x.at[1] + l
        BY <3>1, <2>1
      <4>. QED
        BY <4>1
    <3>2. ASSUME NEW l \in 0..(w - 1), l = k - w
          PROVE  \E v \in DOMAIN x.at, m \in 0..(x.lanes - 1) : k = x.at[v] + m
      <4>1. 2 \in DOMAIN x.at /\ l \in 0..(x.lanes - 1) /\ k = x.at[2] + l
        BY <3>2, <2>1
      <4>. QED
        BY <4>1
    <3>3. ASSUME NEW l \in 0..(w - 1), l = k - 2 * w
          PROVE  \E v \in DOMAIN x.at, m \in 0..(x.lanes - 1) : k = x.at[v] + m
      <4>1. 3 \in DOMAIN x.at /\ l \in 0..(x.lanes - 1) /\ k = x.at[3] + l
        BY <3>3, <2>1
      <4>. QED
        BY <4>1
    <3>4. ASSUME NEW l \in 0..(w - 1), l = k - 3 * w
          PROVE  \E v \in DOMAIN x.at, m \in 0..(x.lanes - 1) : k = x.at[v] + m
      <4>1. 4 \in DOMAIN x.at /\ l \in 0..(x.lanes - 1) /\ k = x.at[4] + l
        BY <3>4, <2>1
      <4>. QED
        BY <4>1
    <3>5. \/ k \in 0..(w - 1) \/ k - w \in 0..(w - 1)
          \/ k - 2 * w \in 0..(w - 1) \/ k - 3 * w \in 0..(w - 1)
      BY <2>1
    <3>. QED
      BY <3>1, <3>2, <3>3, <3>4, <3>5
  <2>6. \A v, u \in DOMAIN x.at, l, j \in 0..(x.lanes - 1) :
       x.at[v] + l = x.at[u] + j => v = u /\ l = j
    BY <2>1
  <2>. QED
    BY <2>1, <2>2, <2>4, <2>5, <2>6 DEF LoopOK, x
<1>. QED
  BY <1>1, <1>2, <1>3 DEF IsLoop, Into

(* So are the ones that end otherwise or use four accumulators. *)
LEMMA LoopVariants ==
  ASSUME NEW x, x = [do |-> x.do, step |-> x.step, lanes |-> x.lanes,
                     at |-> x.at, into |-> x.into, until |-> x.until],
         LoopOK(x), IsLoop(x)
  PROVE  /\ LoopOK(Rounded(x)) /\ IsLoop(Rounded(x))
         /\ Rounded(x).lanes = x.lanes
         /\ Rounded(x).into = x.into /\ Rounded(x).at = x.at
         /\ LoopOK(Below(x)) /\ IsLoop(Below(x)) /\ Below(x).lanes = x.lanes
         /\ DOMAIN x.at = 1..4 =>
              /\ LoopOK(Separate(x)) /\ IsLoop(Separate(x))
              /\ Separate(x).lanes = x.lanes /\ Separate(x).until = x.until
              /\ Into(Separate(x), 0..3)
<1>1. /\ Rounded(x) = [do |-> x.do, step |-> x.step, lanes |-> x.lanes,
                     at |-> x.at, into |-> x.into, until |-> "rounded"]
      /\ Below(x) = [do |-> x.do, step |-> x.step, lanes |-> x.lanes,
                     at |-> x.at, into |-> x.into, until |-> "below"]
      /\ Separate(x) = [do |-> x.do, step |-> x.step, lanes |-> x.lanes,
                     at |-> x.at, into |-> <<0, 1, 2, 3>>, until |-> x.until]
  BY DEF Rounded, Below, Separate
<1>2. LoopOK(Rounded(x))
  BY <1>1 DEF LoopOK
<1>3. LoopOK(Below(x))
  BY <1>1 DEF LoopOK
<1>4. ASSUME DOMAIN x.at = 1..4
      PROVE  LoopOK(Separate(x)) /\ Into(Separate(x), 0..3)
  <2>. DEFINE y == Separate(x)
  <2>1. /\ y.step = x.step /\ y.lanes = x.lanes /\ y.at = x.at
        /\ y.until = x.until
        /\ y.into = <<0, 1, 2, 3>>
    BY <1>1
  <2>. HIDE DEF y
  <2>2. \A v \in DOMAIN y.at : y.into[v] \in 0..3
    BY <2>1, <1>4
  <2>3. \A v \in DOMAIN y.at : y.into[v] \in 0..Total
    BY <2>2 DEF Total
  <2>4. LoopOK(y)
    BY <2>1, <2>3 DEF LoopOK
  <2>. QED
    BY <2>2, <2>4 DEF Into, y
<1>. QED
  BY <1>1, <1>2, <1>3, <1>4 DEF IsLoop

-----------------------------------------------------------------------------
(* Code.  Between two instructions of a reduction the summands so far are   *)
(* in four accumulators of w lanes, in the first one, or in the scalar.     *)
Four(w) == [kind |-> "four", lanes |-> w]
One(w)  == [kind |-> "one", lanes |-> w]
AtTotal == [kind |-> "total", lanes |-> 1]
Phases(w) == [kind : {"four", "one", "total"}, lanes : 1..w]

(* Lane l of accumulator a is one of those. *)
Live(p, a, l) ==
  \/ p.kind = "four" /\ a \in 0..3 /\ l \in 0..(p.lanes - 1)
  \/ p.kind = "one" /\ a = 0 /\ l \in 0..(p.lanes - 1)
  \/ p.kind = "total" /\ a = Total /\ l = 0

Fills(x, p) ==
  \A v \in DOMAIN x.at, l \in 0..(x.lanes - 1) : Live(p, x.into[v], l)

(* Instruction x finds the summands where p says and leaves them where q    *)
(* says; the accumulators are w lanes wide.                                 *)
Leads(x, p, q, w) ==
  \/ x.do = "loop" /\ q = p /\ Fills(x, p)
  \/ x.do = "add" /\ p = Four(w) /\ q = One(w)
  \/ /\ x.do = "halve"
     /\ \E h \in 1..w : x.lanes = 2 * h /\ p = One(2 * h) /\ q = One(h)
  \/ x.do = "sum" /\ x.lanes \in 1..w /\ p = One(x.lanes) /\ q = AtTotal
  \/ x.do = "root" /\ p = AtTotal /\ q = AtTotal

(* ph says where the summands are before every instruction and at the end. *)
Traced(code, ph) ==
  /\ ph \in [1..(Len(code) + 1) -> Phases(code[1].lanes)]
  /\ ph[Len(code) + 1] = AtTotal
  /\ \A j \in 1..Len(code) : Leads(code[j], ph[j], ph[j + 1], code[1].lanes)

(* The loop over single elements: after it, none is left. *)
Finishes(x) == IsLoop(x) /\ x.step = 1 /\ x.until = "fits"

(* The first loop is the widest, and the only one that may be rounded (its  *)
(* counter is a multiple of its step only because it starts at 0).          *)
CodeShape(code) ==
  /\ Len(code) \in Nat /\ DOMAIN code = 1..Len(code)
  /\ 1 \in 1..Len(code) /\ IsLoop(code[1])
  /\ \A j \in 1..Len(code) :
       IsLoop(code[j]) => /\ LoopOK(code[j]) /\ code[j].lanes <= code[1].lanes
                          /\ code[j].until = "rounded" => j = 1
  /\ \E j \in 1..Len(code) : Finishes(code[j])

(* Code that is in order: for a reduction, or for the other routines. *)
CodeOK(code, sums) ==
  /\ CodeShape(code)
  /\ sums => \E ph : Traced(code, ph)
  /\ ~sums => \A j \in 1..Len(code) : IsLoop(code[j])

HasRoot(code) == \E j \in DOMAIN code : code[j].do = "root"

LEMMA PlainLoops ==
  ASSUME NEW w \in Nat \ {0}
  PROVE  \A x \in {Unrolled(w), Single(w), Scalar, Rounded(Unrolled(w)), Below(Unrolled(w))} :
           /\ LoopOK(x) /\ IsLoop(x) /\ 1 <= x.lanes /\ x.lanes <= w
<1>1. /\ Unrolled(w) = [do |-> Unrolled(w).do, step |-> Unrolled(w).step,
                        lanes |-> Unrolled(w).lanes, at |-> Unrolled(w).at,
                        into |-> Unrolled(w).into, until |-> Unrolled(w).until]
  BY DEF Unrolled, Loop
<1>2. /\ Unrolled(w).lanes = w /\ Single(w).lanes = w /\ Scalar.lanes = 1
      /\ LoopOK(Unrolled(w)) /\ LoopOK(Single(w)) /\ LoopOK(Scalar)
      /\ IsLoop(Unrolled(w)) /\ IsLoop(Single(w)) /\ IsLoop(Scalar)
  BY LoopShapes DEF Scalar
<1>3. /\ LoopOK(Rounded(Unrolled(w))) /\ IsLoop(Rounded(Unrolled(w)))
      /\ Rounded(Unrolled(w)).lanes = w
      /\ LoopOK(Below(Unrolled(w))) /\ IsLoop(Below(Unrolled(w)))
      /\ Below(Unrolled(w)).lanes = w
  BY <1>1, <1>2, LoopVariants
<1>. QED
  BY <1>2, <1>3

LEMMA SumLoops ==
  ASSUME NEW w \in Nat \ {0}
  PROVE  /\ \A x \in {Separate(Unrolled(w)), Rounded(Separate(Unrolled(w)))} :
              LoopOK(x) /\ IsLoop(x) /\ x.lanes = w /\ Fills(x, Four(w))
         /\ \A x \in {Unrolled(w), Single(w)} :
              /\ LoopOK(x) /\ IsLoop(x) /\ x.lanes = w /\ x.until = "fits"
              /\ Fills(x, One(w))
         /\ Separate(Unrolled(w)).until = "fits"
         /\ Finishes(Leftover) /\ LoopOK(Leftover) /\ Leftover.lanes = 1
         /\ Fills(Leftover, AtTotal)
<1>1. /\ Unrolled(w) = [do |-> Unrolled(w).do, step |-> Unrolled(w).step,
                        lanes |-> Unrolled(w).lanes, at |-> Unrolled(w).at,
                        into |-> Unrolled(w).into, until |-> Unrolled(w).until]
      /\ DOMAIN Unrolled(w).at = 1..4
  BY DEF Unrolled, Loop
<1>2. /\ LoopOK(Unrolled(w)) /\ IsLoop(Unrolled(w)) /\ Unrolled(w).lanes = w
      /\ Into(Unrolled(w), {0}) /\ Unrolled(w).until = "fits"
      /\ LoopOK(Single(w)) /\ IsLoop(Single(w)) /\ Single(w).lanes = w
      /\ Into(Single(w), {0}) /\ Single(w).until = "fits"
  BY LoopShapes
<1>3. Fills(Unrolled(w), One(w)) /\ Fills(Single(w), One(w))
  BY <1>2 DEF Fills, Live, One, Into
<1>. DEFINE s == Separate(Unrolled(w))
<1>4. /\ LoopOK(s) /\ IsLoop(s) /\ s.lanes = w /\ s.until = "fits"
      /\ Into(s, 0..3)
  BY <1>1, <1>2, LoopVariants
<1>5. s = [do |-> s.do, step |-> s.step, lanes |-> s.lanes, at |-> s.at,
           into |-> s.into, until |-> s.until]
  BY <1>1 DEF Separate
<1>. HIDE DEF s
<1>6. /\ LoopOK(Rounded(s)) /\ IsLoop(Rounded(s)) /\ Rounded(s).lanes = w
      /\ Rounded(s).into = s.into /\ Rounded(s).at = s.at
  BY <1>4, <1>5, LoopVariants
<1>7. Fills(s, Four(w))
  BY <1>4 DEF Fills, Live, Four, Into
<1>8. Fills(Rounded(s), Four(w))
  BY <1>4, <1>6 DEF Fills, Live, Four, Into
<1>9. Finishes(Leftover) /\ LoopOK(Leftover) /\ Leftover.lanes = 1
                         /\ Fills(Leftover, AtTotal)
  <2>1. Leftover = [do |-> "loop", step |-> 1, lanes |-> 1, at |-> <<0>>,
                    into |-> <<Total>>, until |-> "fits"]
    BY DEF Leftover, Scalar, Single, Loop
  <2>. QED
    BY <2>1 DEF Finishes, IsLoop, LoopOK, Fills, Live, AtTotal, Total
<1>. QED
  BY <1>2, <1>3, <1>4, <1>6, <1>7, <1>8, <1>9 DEF s

-----------------------------------------------------------------------------
(* The shapes of the routines that are no reductions, of the sums and of    *)
(* the norms; code of such a shape is in order.                             *)
PlainShape(code) ==
  \E w \in {1, 2, 4, 8, 16} :
    \/ code = <<Scalar>>
    \/ code = <<Unrolled(w), Scalar>>
    \/ code = <<Rounded(Unrolled(w)), Scalar>>
    \/ code = <<Below(Unrolled(w)), Scalar>>
    \/ code = <<Unrolled(w), Single(w), Scalar>>
    \/ \E h \in {1, 2, 4, 8} : h <= w /\ code = <<Unrolled(w), Single(w),
                                                  Single(h), Scalar>>

LEMMA PlainCode ==
  ASSUME NEW code, PlainShape(code)
  PROVE  CodeOK(code, FALSE) /\ ~HasRoot(code)
<1>. PICK w \in {1, 2, 4, 8, 16} :
    \/ code = <<Scalar>>
    \/ code = <<Unrolled(w), Scalar>>
    \/ code = <<Rounded(Unrolled(w)), Scalar>>
    \/ code = <<Below(Unrolled(w)), Scalar>>
    \/ code = <<Unrolled(w), Single(w), Scalar>>
    \/ \E h \in {1, 2, 4, 8} : h <= w /\ code = <<Unrolled(w), Single(w),
                                                  Single(h), Scalar>>
  BY DEF PlainShape
<1>1. \A x \in {Unrolled(w), Single(w), Scalar, Rounded(Unrolled(w)), Below(Unrolled(w))} :
           /\ LoopOK(x) /\ IsLoop(x) /\ 1 <= x.lanes /\ x.lanes <= w
  BY PlainLoops
<1>2. /\ Unrolled(w).lanes = w /\ Unrolled(w).until = "fits"
      /\ Single(w).until = "fits" /\ Single(w).lanes = w
      /\ Below(Unrolled(w)).lanes = w /\ Rounded(Unrolled(w)).lanes = w
      /\ Below(Unrolled(w)).until = "below"
      /\ Finishes(Scalar) /\ Scalar.lanes = 1
  BY LoopShapes, <1>1 DEF Finishes, Scalar, Single, Unrolled, Below, Rounded,
         Loop
<1>3. CASE code = <<Scalar>>
  <2>1. /\ Len(code) = 1 /\ DOMAIN code = 1..1
        /\ code[1] = Scalar
    BY <1>3
  <2>. QED
    BY <2>1, <1>1, <1>2 DEF CodeOK, CodeShape, HasRoot, IsLoop, Finishes
<1>4. CASE code = <<Unrolled(w), Scalar>>
  <2>1. /\ Len(code) = 2 /\ DOMAIN code = 1..2
        /\ code[1] = Unrolled(w) /\ code[2] = Scalar
    BY <1>4
  <2>. QED
    BY <2>1, <1>1, <1>2 DEF CodeOK, CodeShape, HasRoot, IsLoop, Finishes
<1>5. CASE code = <<Rounded(Unrolled(w)), Scalar>>
  <2>1. /\ Len(code) = 2 /\ DOMAIN code = 1..2
        /\ code[1] = Rounded(Unrolled(w)) /\ code[2] = Scalar
    BY <1>5
  <2>. QED
    BY <2>1, <1>1, <1>2 DEF CodeOK, CodeShape, HasRoot, IsLoop, Finishes
<1>6. CASE code = <<Below(Unrolled(w)), Scalar>>
  <2>1. /\ Len(code) = 2 /\ DOMAIN code = 1..2
        /\ code[1] = Below(Unrolled(w)) /\ code[2] = Scalar
    BY <1>6
  <2>. QED
    BY <2>1, <1>1, <1>2 DEF CodeOK, CodeShape, HasRoot, IsLoop, Finishes
<1>7. CASE code = <<Unrolled(w), Single(w), Scalar>>
  <2>1. /\ Len(code) = 3 /\ DOMAIN code = 1..3
        /\ code[1] = Unrolled(w) /\ code[2] = Single(w) /\ code[3] = Scalar
    BY <1>7
  <2>. QED
    BY <2>1, <1>1, <1>2 DEF CodeOK, CodeShape, HasRoot, IsLoop, Finishes
<1>8. ASSUME NEW h \in {1, 2, 4, 8}, h <= w, code = <<Unrolled(w), Single(w),
                                                      Single(h), Scalar>>
     PROVE  CodeOK(code, FALSE) /\ ~HasRoot(code)
  <2>1. /\ Len(code) = 4 /\ DOMAIN code = 1..4
        /\ code[1] = Unrolled(w) /\ code[2] = Single(w) /\ code[3] = Single(h)
        /\ code[4] = Scalar
    BY <1>8
  <2>2. LoopOK(Single(h)) /\ IsLoop(Single(h)) /\ Single(h).lanes = h
                          /\ Single(h).until = "fits"
    BY LoopShapes
  <2>. QED
    BY <2>1, <2>2, <1>1, <1>2, <1>8 DEF CodeOK, CodeShape, HasRoot, IsLoop,
           Finishes
<1>. QED
  BY <1>3, <1>4, <1>5, <1>6, <1>7, <1>8

LEMMA OtherSteps ==
  ASSUME NEW w \in Nat \ {0}
  PROVE  /\ Leads(AddVectors, Four(w), One(w), w) /\ ~IsLoop(AddVectors)
         /\ AddVectors.do # "root"
         /\ Leads(Root, AtTotal, AtTotal, w) /\ ~IsLoop(Root)
         /\ Root.do = "root"
         /\ \A h \in 1..w :
              /\ Leads(SumLanes(h), One(h), AtTotal, w)
              /\ ~IsLoop(SumLanes(h)) /\ SumLanes(h).do # "root"
         /\ \A h \in 1..w : w = 2 * h =>
              /\ One(h) \in Phases(w) /\ Leads(Halve(w), One(w), One(h), w)
              /\ ~IsLoop(Halve(w)) /\ Halve(w).do # "root"
<1>1. /\ AddVectors.do = "add" /\ Root.do = "root"
      /\ \A h \in 1..w : SumLanes(h).do = "sum" /\ SumLanes(h).lanes = h
      /\ Halve(w).do = "halve" /\ Halve(w).lanes = w
  BY DEF AddVectors, Root, SumLanes, Halve
<1>2. \A h \in 1..w : One(h) \in Phases(w)
  BY DEF One, Phases
<1>. QED
  BY <1>1, <1>2 DEF Leads, IsLoop

SumShape(code) ==
  \E w \in {1, 2, 4, 8, 16} :
    \/ code = <<Leftover>>
    \/ code = <<Separate(Unrolled(w)), AddVectors, SumLanes(w), Leftover>>
    \/ code = <<Unrolled(w), SumLanes(w), Leftover>>
    \/ code = <<Unrolled(w), Single(w), SumLanes(w), Leftover>>
    \/ code = <<Rounded(Separate(Unrolled(w))), AddVectors, Single(w),
                SumLanes(w), Leftover>>
    \/ \E h \in {1, 2, 4, 8} :
         /\ w = 2 * h
         /\ \/ code = <<Unrolled(w), Halve(w), SumLanes(h), Leftover>>
            \/ code = <<Rounded(Separate(Unrolled(w))), AddVectors, Single(w),
                        Halve(w), Single(h), SumLanes(h), Leftover>>

NormShape(code) ==
  \E w \in {1, 2, 4, 8, 16} :
    \/ code = <<Leftover, Root>>
    \/ code = <<Separate(Unrolled(w)), AddVectors, SumLanes(w), Leftover, Root>>
    \/ code = <<Unrolled(w), Single(w), SumLanes(w), Leftover, Root>>
    \/ code = <<Separate(Unrolled(w)), AddVectors, Single(w), SumLanes(w),
                Leftover, Root>>
    \/ \E h \in {1, 2, 4, 8} :
         /\ w = 2 * h
         /\ code = <<Separate(Unrolled(w)), AddVectors, Single(w), Halve(w),
                     SumLanes(h), Leftover, Root>>

LEMMA SumCode ==
  ASSUME NEW code, SumShape(code)
  PROVE  CodeOK(code, TRUE) /\ ~HasRoot(code)
<1>. PICK w \in {1, 2, 4, 8, 16} :
    \/ code = <<Leftover>>
    \/ code = <<Separate(Unrolled(w)), AddVectors, SumLanes(w), Leftover>>
    \/ code = <<Unrolled(w), SumLanes(w), Leftover>>
    \/ code = <<Unrolled(w), Single(w), SumLanes(w), Leftover>>
    \/ code = <<Rounded(Separate(Unrolled(w))), AddVectors, Single(w),
                SumLanes(w), Leftover>>
    \/ \E h \in {1, 2, 4, 8} :
         /\ w = 2 * h
         /\ \/ code = <<Unrolled(w), Halve(w), SumLanes(h), Leftover>>
            \/ code = <<Rounded(Separate(Unrolled(w))), AddVectors, Single(w),
                        Halve(w), Single(h), SumLanes(h), Leftover>>
  BY DEF SumShape
<1>. DEFINE Good(c) == CodeOK(c, TRUE) /\ ~HasRoot(c)
<1>1. /\ \A x \in {Separate(Unrolled(w)), Rounded(Separate(Unrolled(w)))} :
           LoopOK(x) /\ IsLoop(x) /\ x.lanes = w /\ Fills(x, Four(w))
      /\ \A x \in {Unrolled(w), Single(w)} :
           /\ LoopOK(x) /\ IsLoop(x) /\ x.lanes = w /\ x.until = "fits"
           /\ Fills(x, One(w))
      /\ Separate(Unrolled(w)).until = "fits"
      /\ Finishes(Leftover) /\ LoopOK(Leftover) /\ Leftover.lanes = 1
      /\ Fills(Leftover, AtTotal)
  BY SumLoops
<1>2. /\ Leads(AddVectors, Four(w), One(w), w) /\ ~IsLoop(AddVectors)
      /\ AddVectors.do # "root"
      /\ Leads(SumLanes(w), One(w), AtTotal, w) /\ ~IsLoop(SumLanes(w))
      /\ SumLanes(w).do # "root"
      /\ Leads(Root, AtTotal, AtTotal, w) /\ ~IsLoop(Root) /\ Root.do = "root"
      /\ Leads(Root, AtTotal, AtTotal, 1)
  BY OtherSteps
<1>3. Four(w) \in Phases(w) /\ One(w) \in Phases(w) /\ AtTotal \in Phases(w)
                            /\ AtTotal \in Phases(1)
  BY DEF Four, One, AtTotal, Phases
<1>4. CASE code = <<Leftover>>
  <2>. DEFINE ph == <<AtTotal, AtTotal>>
  <2>1. Len(code) = 1 /\ DOMAIN code = 1..1
    BY <1>4
  <2>3. CodeShape(code) /\ ~HasRoot(code)
    BY <1>4, <2>1, <1>1, <1>2, <1>3 DEF CodeShape, HasRoot, IsLoop, Finishes
  <2>4. Traced(code, ph)
    BY <1>4, <2>1, <1>1, <1>2, <1>3 DEF Traced, Leads, IsLoop, Finishes
  <2>. QED
    BY <2>3, <2>4 DEF Good, CodeOK
<1>5. CASE code = <<Separate(Unrolled(w)), AddVectors, SumLanes(w), Leftover>>
  <2>. DEFINE ph == <<Four(w), Four(w), One(w), AtTotal, AtTotal>>
  <2>1. Len(code) = 4 /\ DOMAIN code = 1..4
    BY <1>5
  <2>3. CodeShape(code) /\ ~HasRoot(code)
    BY <1>5, <2>1, <1>1, <1>2, <1>3 DEF CodeShape, HasRoot, IsLoop, Finishes
  <2>4. Traced(code, ph)
    BY <1>5, <2>1, <1>1, <1>2, <1>3 DEF Traced, Leads, IsLoop, Finishes
  <2>. QED
    BY <2>3, <2>4 DEF Good, CodeOK
<1>6. CASE code = <<Unrolled(w), SumLanes(w), Leftover>>
  <2>. DEFINE ph == <<One(w), One(w), AtTotal, AtTotal>>
  <2>1. Len(code) = 3 /\ DOMAIN code = 1..3
    BY <1>6
  <2>3. CodeShape(code) /\ ~HasRoot(code)
    BY <1>6, <2>1, <1>1, <1>2, <1>3 DEF CodeShape, HasRoot, IsLoop, Finishes
  <2>4. Traced(code, ph)
    BY <1>6, <2>1, <1>1, <1>2, <1>3 DEF Traced, Leads, IsLoop, Finishes
  <2>. QED
    BY <2>3, <2>4 DEF Good, CodeOK
<1>7. CASE code = <<Unrolled(w), Single(w), SumLanes(w), Leftover>>
  <2>. DEFINE ph == <<One(w), One(w), One(w), AtTotal, AtTotal>>
  <2>1. Len(code) = 4 /\ DOMAIN code = 1..4
    BY <1>7
  <2>3. CodeShape(code) /\ ~HasRoot(code)
    BY <1>7, <2>1, <1>1, <1>2, <1>3 DEF CodeShape, HasRoot, IsLoop, Finishes
  <2>4. Traced(code, ph)
    BY <1>7, <2>1, <1>1, <1>2, <1>3 DEF Traced, Leads, IsLoop, Finishes
  <2>. QED
    BY <2>3, <2>4 DEF Good, CodeOK
<1>8. CASE code = <<Rounded(Separate(Unrolled(w))), AddVectors, Single(w),
                    SumLanes(w), Leftover>>
  <2>. DEFINE ph == <<Four(w), Four(w), One(w), One(w), AtTotal, AtTotal>>
  <2>1. Len(code) = 5 /\ DOMAIN code = 1..5
    BY <1>8
  <2>3. CodeShape(code) /\ ~HasRoot(code)
    BY <1>8, <2>1, <1>1, <1>2, <1>3 DEF CodeShape, HasRoot, IsLoop, Finishes
  <2>4. Traced(code, ph)
    BY <1>8, <2>1, <1>1, <1>2, <1>3 DEF Traced, Leads, IsLoop, Finishes
  <2>. QED
    BY <2>3, <2>4 DEF Good, CodeOK
<1>9. ASSUME NEW h \in {1, 2, 4, 8}, w = 2 * h,
            code = <<Unrolled(w), Halve(w), SumLanes(h), Leftover>>
     PROVE  Good(code)
  <2>. DEFINE ph == <<One(w), One(w), One(h), AtTotal, AtTotal>>
  <2>1. Len(code) = 4 /\ DOMAIN code = 1..4
    BY <1>9
  <2>2. /\ LoopOK(Single(h)) /\ IsLoop(Single(h)) /\ Single(h).lanes = h
        /\ Single(h).until = "fits" /\ Fills(Single(h), One(h))
        /\ h \in 1..w /\ One(h) \in Phases(w)
        /\ Leads(Halve(w), One(w), One(h), w)
        /\ Leads(SumLanes(h), One(h), AtTotal, w)
        /\ ~IsLoop(Halve(w)) /\ Halve(w).do # "root"
        /\ ~IsLoop(SumLanes(h)) /\ SumLanes(h).do # "root"
    BY <1>9, SumLoops, OtherSteps
  <2>3. CodeShape(code) /\ ~HasRoot(code)
    BY <1>9, <2>1, <1>1, <1>2, <1>3, <2>2 DEF CodeShape, HasRoot, IsLoop,
           Finishes
  <2>4. Traced(code, ph)
    BY <1>9, <2>1, <1>1, <1>2, <1>3, <2>2 DEF Traced, Leads, IsLoop, Finishes
  <2>. QED
    BY <2>3, <2>4 DEF Good, CodeOK
<1>10. ASSUME NEW h \in {1, 2, 4, 8}, w = 2 * h,
            code = <<Rounded(Separate(Unrolled(w))), AddVectors, Single(w),
                     Halve(w), Single(h), SumLanes(h), Leftover>>
     PROVE  Good(code)
  <2>. DEFINE ph == <<Four(w), Four(w), One(w), One(w), One(h), One(h),
                      AtTotal, AtTotal>>
  <2>1. Len(code) = 7 /\ DOMAIN code = 1..7
    BY <1>10
  <2>2. /\ LoopOK(Single(h)) /\ IsLoop(Single(h)) /\ Single(h).lanes = h
        /\ Single(h).until = "fits" /\ Fills(Single(h), One(h))
        /\ h \in 1..w /\ One(h) \in Phases(w)
        /\ Leads(Halve(w), One(w), One(h), w)
        /\ Leads(SumLanes(h), One(h), AtTotal, w)
        /\ ~IsLoop(Halve(w)) /\ Halve(w).do # "root"
        /\ ~IsLoop(SumLanes(h)) /\ SumLanes(h).do # "root"
    BY <1>10, SumLoops, OtherSteps
  <2>3. CodeShape(code) /\ ~HasRoot(code)
    BY <1>10, <2>1, <1>1, <1>2, <1>3, <2>2 DEF CodeShape, HasRoot, IsLoop,
           Finishes
  <2>4. Traced(code, ph)
    BY <1>10, <2>1, <1>1, <1>2, <1>3, <2>2 DEF Traced, Leads, IsLoop, Finishes
  <2>. QED
    BY <2>3, <2>4 DEF Good, CodeOK
<1>. QED
  BY <1>4, <1>5, <1>6, <1>7, <1>8, <1>9, <1>10 DEF Good

LEMMA NormCode ==
  ASSUME NEW code, NormShape(code)
  PROVE  CodeOK(code, TRUE) /\ HasRoot(code)
<1>. PICK w \in {1, 2, 4, 8, 16} :
    \/ code = <<Leftover, Root>>
    \/ code = <<Separate(Unrolled(w)), AddVectors, SumLanes(w), Leftover, Root>>
    \/ code = <<Unrolled(w), Single(w), SumLanes(w), Leftover, Root>>
    \/ code = <<Separate(Unrolled(w)), AddVectors, Single(w), SumLanes(w),
                Leftover, Root>>
    \/ \E h \in {1, 2, 4, 8} :
         /\ w = 2 * h
         /\ code = <<Separate(Unrolled(w)), AddVectors, Single(w), Halve(w),
                     SumLanes(h), Leftover, Root>>
  BY DEF NormShape
<1>. DEFINE Good(c) == CodeOK(c, TRUE) /\ HasRoot(c)
<1>1. /\ \A x \in {Separate(Unrolled(w)), Rounded(Separate(Unrolled(w)))} :
           LoopOK(x) /\ IsLoop(x) /\ x.lanes = w /\ Fills(x, Four(w))
      /\ \A x \in {Unrolled(w), Single(w)} :
           /\ LoopOK(x) /\ IsLoop(x) /\ x.lanes = w /\ x.until = "fits"
           /\ Fills(x, One(w))
      /\ Separate(Unrolled(w)).until = "fits"
      /\ Finishes(Leftover) /\ LoopOK(Leftover) /\ Leftover.lanes = 1
      /\ Fills(Leftover, AtTotal)
  BY SumLoops
<1>2. /\ Leads(AddVectors, Four(w), One(w), w) /\ ~IsLoop(AddVectors)
      /\ AddVectors.do # "root"
      /\ Leads(SumLanes(w), One(w), AtTotal, w) /\ ~IsLoop(SumLanes(w))
      /\ SumLanes(w).do # "root"
      /\ Leads(Root, AtTotal, AtTotal, w) /\ ~IsLoop(Root) /\ Root.do = "root"
      /\ Leads(Root, AtTotal, AtTotal, 1)
  BY OtherSteps
<1>3. Four(w) \in Phases(w) /\ One(w) \in Phases(w) /\ AtTotal \in Phases(w)
                            /\ AtTotal \in Phases(1)
  BY DEF Four, One, AtTotal, Phases
<1>4. CASE code = <<Leftover, Root>>
  <2>. DEFINE ph == <<AtTotal, AtTotal, AtTotal>>
  <2>1. Len(code) = 2 /\ DOMAIN code = 1..2
    BY <1>4
  <2>3. CodeShape(code) /\ HasRoot(code)
    BY <1>4, <2>1, <1>1, <1>2, <1>3 DEF CodeShape, HasRoot, IsLoop, Finishes
  <2>4. Traced(code, ph)
    BY <1>4, <2>1, <1>1, <1>2, <1>3 DEF Traced, Leads, IsLoop, Finishes
  <2>. QED
    BY <2>3, <2>4 DEF Good, CodeOK
<1>5. CASE code = <<Separate(Unrolled(w)), AddVectors, SumLanes(w), Leftover,
                    Root>>
  <2>. DEFINE ph == <<Four(w), Four(w), One(w), AtTotal, AtTotal, AtTotal>>
  <2>1. Len(code) = 5 /\ DOMAIN code = 1..5
    BY <1>5
  <2>3. CodeShape(code) /\ HasRoot(code)
    BY <1>5, <2>1, <1>1, <1>2, <1>3 DEF CodeShape, HasRoot, IsLoop, Finishes
  <2>4. Traced(code, ph)
    BY <1>5, <2>1, <1>1, <1>2, <1>3 DEF Traced, Leads, IsLoop, Finishes
  <2>. QED
    BY <2>3, <2>4 DEF Good, CodeOK
<1>6. CASE code = <<Unrolled(w), Single(w), SumLanes(w), Leftover, Root>>
  <2>. DEFINE ph == <<One(w), One(w), One(w), AtTotal, AtTotal, AtTotal>>
  <2>1. Len(code) = 5 /\ DOMAIN code = 1..5
    BY <1>6
  <2>3. CodeShape(code) /\ HasRoot(code)
    BY <1>6, <2>1, <1>1, <1>2, <1>3 DEF CodeShape, HasRoot, IsLoop, Finishes
  <2>4. Traced(code, ph)
    BY <1>6, <2>1, <1>1, <1>2, <1>3 DEF Traced, Leads, IsLoop, Finishes
  <2>. QED
    BY <2>3, <2>4 DEF Good, CodeOK
<1>7. CASE code = <<Separate(Unrolled(w)), AddVectors, Single(w), SumLanes(w),
                    Leftover, Root>>
  <2>. DEFINE ph == <<Four(w), Four(w), One(w), One(w), AtTotal, AtTotal,
                      AtTotal>>
  <2>1. Len(code) = 6 /\ DOMAIN code = 1..6
    BY <1>7
  <2>3. CodeShape(code) /\ HasRoot(code)
    BY <1>7, <2>1, <1>1, <1>2, <1>3 DEF CodeShape, HasRoot, IsLoop, Finishes
  <2>4. Traced(code, ph)
    BY <1>7, <2>1, <1>1, <1>2, <1>3 DEF Traced, Leads, IsLoop, Finishes
  <2>. QED
    BY <2>3, <2>4 DEF Good, CodeOK
<1>8. ASSUME NEW h \in {1, 2, 4, 8}, w = 2 * h,
            code = <<Separate(Unrolled(w)), AddVectors, Single(w), Halve(w),
                     SumLanes(h), Leftover, Root>>
     PROVE  Good(code)
  <2>. DEFINE ph == <<Four(w), Four(w), One(w), One(w), One(h), AtTotal,
                      AtTotal, AtTotal>>
  <2>1. Len(code) = 7 /\ DOMAIN code = 1..7
    BY <1>8
  <2>2. /\ LoopOK(Single(h)) /\ IsLoop(Single(h)) /\ Single(h).lanes = h
        /\ Single(h).until = "fits" /\ Fills(Single(h), One(h))
        /\ h \in 1..w /\ One(h) \in Phases(w)
        /\ Leads(Halve(w), One(w), One(h), w)
        /\ Leads(SumLanes(h), One(h), AtTotal, w)
        /\ ~IsLoop(Halve(w)) /\ Halve(w).do # "root"
        /\ ~IsLoop(SumLanes(h)) /\ SumLanes(h).do # "root"
    BY <1>8, SumLoops, OtherSteps
  <2>3. CodeShape(code) /\ HasRoot(code)
    BY <1>8, <2>1, <1>1, <1>2, <1>3, <2>2 DEF CodeShape, HasRoot, IsLoop,
           Finishes
  <2>4. Traced(code, ph)
    BY <1>8, <2>1, <1>1, <1>2, <1>3, <2>2 DEF Traced, Leads, IsLoop, Finishes
  <2>. QED
    BY <2>3, <2>4 DEF Good, CodeOK
<1>. QED
  BY <1>4, <1>5, <1>6, <1>7, <1>8 DEF Good

-----------------------------------------------------------------------------
(* The tables: every kernel is its routine's, of the shape its routine asks *)
(* for, in the file of its instruction set.                                 *)
SumNames == {"sdot", "ddot", "sasum", "dasum"}

KernelOK(k, r) ==
  /\ k.routine = r
  /\ CodeOK(k.code, Drivers[r].result)
  /\ HasRoot(k.code) <=> r \in Norms

Right(k, r, isa, strides) ==
  /\ k.routine = r /\ k.isa = isa /\ k.strides = strides
  /\ r \in Norms => NormShape(k.code)
  /\ r \in SumNames => SumShape(k.code)
  /\ r \notin Norms \cup SumNames => PlainShape(k.code)

LEMMA StridedKernelsRight ==
  \A r \in DOMAIN StridedKernels : Right(StridedKernels[r], r, "base", "any")
<1>1. DOMAIN StridedKernels =
        {"sdot", "ddot", "sasum", "dasum", "scopy", "dcopy", "sswap",
         "dswap", "ssetv", "dsetv", "srot", "drot", "snrm2", "dnrm2",
         "sscal", "dscal", "saxpy", "daxpy", "saxpby", "daxpby"}
  BY DEF StridedKernels
<1>2. /\ Right(StridedKernels["sdot"], "sdot", "base", "any")
      /\ Right(StridedKernels["ddot"], "ddot", "base", "any")
  BY DEF Right, SumShape, Norms, SumNames, Strided, StridedKernels,
         cblas_sdot_k, cblas_ddot_k
<1>3. /\ Right(StridedKernels["sasum"], "sasum", "base", "any")
      /\ Right(StridedKernels["dasum"], "dasum", "base", "any")
  BY DEF Right, SumShape, Norms, SumNames, Strided, StridedKernels,
         cblas_sasum_k, cblas_dasum_k
<1>4. /\ Right(StridedKernels["scopy"], "scopy", "base", "any")
      /\ Right(StridedKernels["dcopy"], "dcopy", "base", "any")
  BY DEF Right, PlainShape, Norms, SumNames, Strided, StridedKernels,
         cblas_scopy_k, cblas_dcopy_k
<1>5. /\ Right(StridedKernels["sswap"], "sswap", "base", "any")
      /\ Right(StridedKernels["dswap"], "dswap", "base", "any")
  BY DEF Right, PlainShape, Norms, SumNames, Strided, StridedKernels,
         cblas_sswap_k, cblas_dswap_k
<1>6. /\ Right(StridedKernels["ssetv"], "ssetv", "base", "any")
      /\ Right(StridedKernels["dsetv"], "dsetv", "base", "any")
  BY DEF Right, PlainShape, Norms, SumNames, Strided, StridedKernels,
         cblas_ssetv_k, cblas_dsetv_k
<1>7. /\ Right(StridedKernels["srot"], "srot", "base", "any")
      /\ Right(StridedKernels["drot"], "drot", "base", "any")
  BY DEF Right, PlainShape, Norms, SumNames, Strided, StridedKernels,
         cblas_srot_k, cblas_drot_k
<1>8. /\ Right(StridedKernels["snrm2"], "snrm2", "base", "any")
      /\ Right(StridedKernels["dnrm2"], "dnrm2", "base", "any")
  BY DEF Right, NormShape, Norms, SumNames, Strided, StridedKernels,
         cblas_snrm2_k, cblas_dnrm2_k
<1>9. /\ Right(StridedKernels["sscal"], "sscal", "base", "any")
      /\ Right(StridedKernels["dscal"], "dscal", "base", "any")
  BY DEF Right, PlainShape, Norms, SumNames, Strided, StridedKernels,
         cblas_sscal_k, cblas_dscal_k
<1>10. /\ Right(StridedKernels["saxpy"], "saxpy", "base", "any")
      /\ Right(StridedKernels["daxpy"], "daxpy", "base", "any")
  BY DEF Right, PlainShape, Norms, SumNames, Strided, StridedKernels,
         cblas_saxpy_k, cblas_daxpy_k
<1>11. /\ Right(StridedKernels["saxpby"], "saxpby", "base", "any")
      /\ Right(StridedKernels["daxpby"], "daxpby", "base", "any")
  BY DEF Right, PlainShape, Norms, SumNames, Strided, StridedKernels,
         cblas_saxpby_k, cblas_daxpby_k
<1>. QED
  BY <1>1, <1>2, <1>3, <1>4, <1>5, <1>6, <1>7, <1>8, <1>9, <1>10, <1>11

LEMMA BaseKernelsRight ==
  \A r \in DOMAIN BaseKernels : Right(BaseKernels[r], r, "base", "unit")
<1>1. DOMAIN BaseKernels =
        {"sdot", "ddot", "sasum", "dasum", "scopy", "dcopy", "sswap",
         "dswap", "ssetv", "dsetv", "srot", "drot", "snrm2", "dnrm2",
         "sscal", "dscal", "saxpy", "daxpy", "saxpby", "daxpby"}
  BY DEF BaseKernels
<1>2. /\ Right(BaseKernels["sdot"], "sdot", "base", "unit")
      /\ Right(BaseKernels["ddot"], "ddot", "base", "unit")
  BY DEF Right, SumShape, Norms, SumNames, Unit, BaseKernels,
         cblas_sdot_k_noinc, cblas_ddot_k_noinc
<1>3. /\ Right(BaseKernels["sasum"], "sasum", "base", "unit")
      /\ Right(BaseKernels["dasum"], "dasum", "base", "unit")
  BY DEF Right, SumShape, Norms, SumNames, Unit, BaseKernels,
         cblas_sasum_k_noinc, cblas_dasum_k_noinc
<1>4. /\ Right(BaseKernels["scopy"], "scopy", "base", "unit")
      /\ Right(BaseKernels["dcopy"], "dcopy", "base", "unit")
  BY DEF Right, PlainShape, Norms, SumNames, Unit, BaseKernels,
         cblas_scopy_k_noinc, cblas_dcopy_k_noinc
<1>5. /\ Right(BaseKernels["sswap"], "sswap", "base", "unit")
      /\ Right(BaseKernels["dswap"], "dswap", "base", "unit")
  BY DEF Right, PlainShape, Norms, SumNames, Unit, BaseKernels,
         cblas_sswap_k_noinc, cblas_dswap_k_noinc
<1>6. /\ Right(BaseKernels["ssetv"], "ssetv", "base", "unit")
      /\ Right(BaseKernels["dsetv"], "dsetv", "base", "unit")
  BY DEF Right, PlainShape, Norms, SumNames, Unit, BaseKernels,
         cblas_ssetv_k_noinc, cblas_dsetv_k_noinc
<1>7. /\ Right(BaseKernels["srot"], "srot", "base", "unit")
      /\ Right(BaseKernels["drot"], "drot", "base", "unit")
  BY DEF Right, PlainShape, Norms, SumNames, Unit, BaseKernels,
         cblas_srot_k_noinc, cblas_drot_k_noinc
<1>8. /\ Right(BaseKernels["snrm2"], "snrm2", "base", "unit")
      /\ Right(BaseKernels["dnrm2"], "dnrm2", "base", "unit")
  BY DEF Right, NormShape, Norms, SumNames, Unit, BaseKernels,
         cblas_snrm2_k_noinc, cblas_dnrm2_k_noinc
<1>9. /\ Right(BaseKernels["sscal"], "sscal", "base", "unit")
      /\ Right(BaseKernels["dscal"], "dscal", "base", "unit")
  BY DEF Right, PlainShape, Norms, SumNames, Unit, BaseKernels,
         cblas_sscal_k_noinc, cblas_dscal_k_noinc
<1>10. /\ Right(BaseKernels["saxpy"], "saxpy", "base", "unit")
      /\ Right(BaseKernels["daxpy"], "daxpy", "base", "unit")
  BY DEF Right, PlainShape, Norms, SumNames, Unit, BaseKernels,
         cblas_saxpy_k_noinc, cblas_daxpy_k_noinc
<1>11. /\ Right(BaseKernels["saxpby"], "saxpby", "base", "unit")
      /\ Right(BaseKernels["daxpby"], "daxpby", "base", "unit")
  BY DEF Right, PlainShape, Norms, SumNames, Unit, BaseKernels,
         cblas_saxpby_k_noinc, cblas_daxpby_k_noinc
<1>. QED
  BY <1>1, <1>2, <1>3, <1>4, <1>5, <1>6, <1>7, <1>8, <1>9, <1>10, <1>11

LEMMA SseKernelsRight ==
  \A r \in DOMAIN SseKernels : Right(SseKernels[r], r, "sse", "unit")
<1>1. DOMAIN SseKernels =
        {"sdot", "ddot", "sasum", "dasum", "scopy", "dcopy", "sswap",
         "dswap", "ssetv", "dsetv", "srot", "drot", "snrm2", "dnrm2",
         "sscal", "dscal", "saxpy", "daxpy", "saxpby", "daxpby"}
  BY DEF SseKernels
<1>2. /\ Right(SseKernels["sdot"], "sdot", "sse", "unit")
      /\ Right(SseKernels["ddot"], "ddot", "sse", "unit")
  BY DEF Right, SumShape, Norms, SumNames, Unit, SseKernels,
         cblas_sdot_k_noinc_sse, cblas_ddot_k_noinc_sse
<1>3. /\ Right(SseKernels["sasum"], "sasum", "sse", "unit")
      /\ Right(SseKernels["dasum"], "dasum", "sse", "unit")
  BY DEF Right, SumShape, Norms, SumNames, Unit, SseKernels,
         cblas_sasum_k_noinc_sse, cblas_dasum_k_noinc_sse
<1>4. /\ Right(SseKernels["scopy"], "scopy", "sse", "unit")
      /\ Right(SseKernels["dcopy"], "dcopy", "sse", "unit")
  BY DEF Right, PlainShape, Norms, SumNames, Unit, SseKernels,
         cblas_scopy_k_noinc_sse, cblas_dcopy_k_noinc_sse
<1>5. /\ Right(SseKernels["sswap"], "sswap", "sse", "unit")
      /\ Right(SseKernels["dswap"], "dswap", "sse", "unit")
  BY DEF Right, PlainShape, Norms, SumNames, Unit, SseKernels,
         cblas_sswap_k_noinc_sse, cblas_dswap_k_noinc_sse
<1>6. /\ Right(SseKernels["ssetv"], "ssetv", "sse", "unit")
      /\ Right(SseKernels["dsetv"], "dsetv", "sse", "unit")
  BY DEF Right, PlainShape, Norms, SumNames, Unit, SseKernels,
         cblas_ssetv_k_noinc_sse, cblas_dsetv_k_noinc_sse
<1>7. /\ Right(SseKernels["srot"], "srot", "sse", "unit")
      /\ Right(SseKernels["drot"], "drot", "sse", "unit")
  BY DEF Right, PlainShape, Norms, SumNames, Unit, SseKernels,
         cblas_srot_k_noinc_sse, cblas_drot_k_noinc_sse
<1>8. /\ Right(SseKernels["snrm2"], "snrm2", "sse", "unit")
      /\ Right(SseKernels["dnrm2"], "dnrm2", "sse", "unit")
  BY DEF Right, NormShape, Norms, SumNames, Unit, SseKernels,
         cblas_snrm2_k_noinc_sse, cblas_dnrm2_k_noinc_sse
<1>9. /\ Right(SseKernels["sscal"], "sscal", "sse", "unit")
      /\ Right(SseKernels["dscal"], "dscal", "sse", "unit")
  BY DEF Right, PlainShape, Norms, SumNames, Unit, SseKernels,
         cblas_sscal_k_noinc_sse, cblas_dscal_k_noinc_sse
<1>10. /\ Right(SseKernels["saxpy"], "saxpy", "sse", "unit")
      /\ Right(SseKernels["daxpy"], "daxpy", "sse", "unit")
  BY DEF Right, PlainShape, Norms, SumNames, Unit, SseKernels,
         cblas_saxpy_k_noinc_sse, cblas_daxpy_k_noinc_sse
<1>11. /\ Right(SseKernels["saxpby"], "saxpby", "sse", "unit")
      /\ Right(SseKernels["daxpby"], "daxpby", "sse", "unit")
  BY DEF Right, PlainShape, Norms, SumNames, Unit, SseKernels,
         cblas_saxpby_k_noinc_sse, cblas_daxpby_k_noinc_sse
<1>. QED
  BY <1>1, <1>2, <1>3, <1>4, <1>5, <1>6, <1>7, <1>8, <1>9, <1>10, <1>11

LEMMA AvxKernelsRight ==
  \A r \in DOMAIN AvxKernels : Right(AvxKernels[r], r, "avx2", "unit")
<1>1. DOMAIN AvxKernels =
        {"sdot", "ddot", "sasum", "dasum", "scopy", "dcopy", "sswap",
         "dswap", "ssetv", "dsetv", "srot", "drot", "snrm2", "dnrm2",
         "sscal", "dscal", "saxpy", "daxpy", "saxpby", "daxpby"}
  BY DEF AvxKernels
<1>2. /\ Right(AvxKernels["sdot"], "sdot", "avx2", "unit")
      /\ Right(AvxKernels["ddot"], "ddot", "avx2", "unit")
  BY DEF Right, SumShape, Norms, SumNames, Unit, AvxKernels,
         cblas_sdot_k_noinc_avx, cblas_ddot_k_noinc_avx
<1>3. /\ Right(AvxKernels["sasum"], "sasum", "avx2", "unit")
      /\ Right(AvxKernels["dasum"], "dasum", "avx2", "unit")
  BY DEF Right, SumShape, Norms, SumNames, Unit, AvxKernels,
         cblas_sasum_k_noinc_avx, cblas_dasum_k_noinc_avx
<1>4. /\ Right(AvxKernels["scopy"], "scopy", "avx2", "unit")
      /\ Right(AvxKernels["dcopy"], "dcopy", "avx2", "unit")
  BY DEF Right, PlainShape, Norms, SumNames, Unit, AvxKernels,
         cblas_scopy_k_noinc_avx, cblas_dcopy_k_noinc_avx
<1>5. /\ Right(AvxKernels["sswap"], "sswap", "avx2", "unit")
      /\ Right(AvxKernels["dswap"], "dswap", "avx2", "unit")
  BY DEF Right, PlainShape, Norms, SumNames, Unit, AvxKernels,
         cblas_sswap_k_noinc_avx, cblas_dswap_k_noinc_avx
<1>6. /\ Right(AvxKernels["ssetv"], "ssetv", "avx2", "unit")
      /\ Right(AvxKernels["dsetv"], "dsetv", "avx2", "unit")
  BY DEF Right, PlainShape, Norms, SumNames, Unit, AvxKernels,
         cblas_ssetv_k_noinc_avx, cblas_dsetv_k_noinc_avx
<1>7. /\ Right(AvxKernels["srot"], "srot", "avx2", "unit")
      /\ Right(AvxKernels["drot"], "drot", "avx2", "unit")
  BY DEF Right, PlainShape, Norms, SumNames, Unit, AvxKernels,
         cblas_srot_k_noinc_avx, cblas_drot_k_noinc_avx
<1>8. /\ Right(AvxKernels["snrm2"], "snrm2", "avx2", "unit")
      /\ Right(AvxKernels["dnrm2"], "dnrm2", "avx2", "unit")
  BY DEF Right, NormShape, Norms, SumNames, Unit, AvxKernels,
         cblas_snrm2_k_noinc_avx, cblas_dnrm2_k_noinc_avx
<1>9. /\ Right(AvxKernels["sscal"], "sscal", "avx2", "unit")
      /\ Right(AvxKernels["dscal"], "dscal", "avx2", "unit")
  BY DEF Right, PlainShape, Norms, SumNames, Unit, AvxKernels,
         cblas_sscal_k_noinc_avx, cblas_dscal_k_noinc_avx
<1>10. /\ Right(AvxKernels["saxpy"], "saxpy", "avx2", "unit")
      /\ Right(AvxKernels["daxpy"], "daxpy", "avx2", "unit")
  BY DEF Right, PlainShape, Norms, SumNames, Unit, AvxKernels,
         cblas_saxpy_k_noinc_avx, cblas_daxpy_k_noinc_avx
<1>11. /\ Right(AvxKernels["saxpby"], "saxpby", "avx2", "unit")
      /\ Right(AvxKernels["daxpby"], "daxpby", "avx2", "unit")
  BY DEF Right, PlainShape, Norms, SumNames, Unit, AvxKernels,
         cblas_saxpby_k_noinc_avx, cblas_daxpby_k_noinc_avx
<1>. QED
  BY <1>1, <1>2, <1>3, <1>4, <1>5, <1>6, <1>7, <1>8, <1>9, <1>10, <1>11

LEMMA FmaKernelsRight ==
  \A r \in DOMAIN FmaKernels : Right(FmaKernels[r], r, "fma", "unit")
<1>1. DOMAIN FmaKernels =
        {"sdot", "ddot", "snrm2", "dnrm2", "saxpy", "daxpy", "saxpby",
         "daxpby"}
  BY DEF FmaKernels
<1>2. /\ Right(FmaKernels["sdot"], "sdot", "fma", "unit")
      /\ Right(FmaKernels["ddot"], "ddot", "fma", "unit")
  BY DEF Right, SumShape, Norms, SumNames, Unit, FmaKernels,
         cblas_sdot_k_noinc_fma, cblas_ddot_k_noinc_fma
<1>3. /\ Right(FmaKernels["snrm2"], "snrm2", "fma", "unit")
      /\ Right(FmaKernels["dnrm2"], "dnrm2", "fma", "unit")
  BY DEF Right, NormShape, Norms, SumNames, Unit, FmaKernels,
         cblas_snrm2_k_noinc_fma, cblas_dnrm2_k_noinc_fma
<1>4. /\ Right(FmaKernels["saxpy"], "saxpy", "fma", "unit")
      /\ Right(FmaKernels["daxpy"], "daxpy", "fma", "unit")
  BY DEF Right, PlainShape, Norms, SumNames, Unit, FmaKernels,
         cblas_saxpy_k_noinc_fma, cblas_daxpy_k_noinc_fma
<1>5. /\ Right(FmaKernels["saxpby"], "saxpby", "fma", "unit")
      /\ Right(FmaKernels["daxpby"], "daxpby", "fma", "unit")
  BY DEF Right, PlainShape, Norms, SumNames, Unit, FmaKernels,
         cblas_saxpby_k_noinc_fma, cblas_daxpby_k_noinc_fma
<1>. QED
  BY <1>1, <1>2, <1>3, <1>4, <1>5

LEMMA Avx512KernelsRight ==
  \A r \in DOMAIN Avx512Kernels : Right(Avx512Kernels[r], r, "avx512", "unit")
<1>1. DOMAIN Avx512Kernels =
        {"sdot", "ddot", "saxpy", "daxpy", "sscal", "dscal"}
  BY DEF Avx512Kernels
<1>2. /\ Right(Avx512Kernels["sdot"], "sdot", "avx512", "unit")
      /\ Right(Avx512Kernels["ddot"], "ddot", "avx512", "unit")
  BY DEF Right, SumShape, Norms, SumNames, Unit, Avx512Kernels,
         cblas_sdot_k_noinc_avx512, cblas_ddot_k_noinc_avx512
<1>3. /\ Right(Avx512Kernels["saxpy"], "saxpy", "avx512", "unit")
      /\ Right(Avx512Kernels["daxpy"], "daxpy", "avx512", "unit")
  BY DEF Right, PlainShape, Norms, SumNames, Unit, Avx512Kernels,
         cblas_saxpy_k_noinc_avx512, cblas_daxpy_k_noinc_avx512
<1>4. /\ Right(Avx512Kernels["sscal"], "sscal", "avx512", "unit")
      /\ Right(Avx512Kernels["dscal"], "dscal", "avx512", "unit")
  BY DEF Right, PlainShape, Norms, SumNames, Unit, Avx512Kernels,
         cblas_sscal_k_noinc_avx512, cblas_dscal_k_noinc_avx512
<1>. QED
  BY <1>1, <1>2, <1>3, <1>4

LEMMA NeonKernelsRight ==
  \A r \in DOMAIN NeonKernels : Right(NeonKernels[r], r, "neon", "unit")
<1>1. DOMAIN NeonKernels =
        {"sdot", "ddot", "sasum", "dasum", "scopy", "dcopy", "sswap",
         "dswap", "ssetv", "dsetv", "srot", "drot", "snrm2", "dnrm2",
         "sscal", "dscal", "saxpy", "daxpy", "saxpby", "daxpby"}
  BY DEF NeonKernels
<1>2. /\ Right(NeonKernels["sdot"], "sdot", "neon", "unit")
      /\ Right(NeonKernels["ddot"], "ddot", "neon", "unit")
  BY DEF Right, SumShape, Norms, SumNames, Unit, NeonKernels,
         cblas_sdot_k_noinc_neon, cblas_ddot_k_noinc_neon
<1>3. /\ Right(NeonKernels["sasum"], "sasum", "neon", "unit")
      /\ Right(NeonKernels["dasum"], "dasum", "neon", "unit")
  BY DEF Right, SumShape, Norms, SumNames, Unit, NeonKernels,
         cblas_sasum_k_noinc_neon, cblas_dasum_k_noinc_neon
<1>4. /\ Right(NeonKernels["scopy"], "scopy", "neon", "unit")
      /\ Right(NeonKernels["dcopy"], "dcopy", "neon", "unit")
  BY DEF Right, PlainShape, Norms, SumNames, Unit, NeonKernels,
         cblas_scopy_k_noinc_neon, cblas_dcopy_k_noinc_neon
<1>5. /\ Right(NeonKernels["sswap"], "sswap", "neon", "unit")
      /\ Right(NeonKernels["dswap"], "dswap", "neon", "unit")
  BY DEF Right, PlainShape, Norms, SumNames, Unit, NeonKernels,
         cblas_sswap_k_noinc_neon, cblas_dswap_k_noinc_neon
<1>6. /\ Right(NeonKernels["ssetv"], "ssetv", "neon", "unit")
      /\ Right(NeonKernels["dsetv"], "dsetv", "neon", "unit")
  BY DEF Right, PlainShape, Norms, SumNames, Unit, NeonKernels,
         cblas_ssetv_k_noinc_neon, cblas_dsetv_k_noinc_neon
<1>7. /\ Right(NeonKernels["srot"], "srot", "neon", "unit")
      /\ Right(NeonKernels["drot"], "drot", "neon", "unit")
  BY DEF Right, PlainShape, Norms, SumNames, Unit, NeonKernels,
         cblas_srot_k_noinc_neon, cblas_drot_k_noinc_neon
<1>8. /\ Right(NeonKernels["snrm2"], "snrm2", "neon", "unit")
      /\ Right(NeonKernels["dnrm2"], "dnrm2", "neon", "unit")
  BY DEF Right, NormShape, Norms, SumNames, Unit, NeonKernels,
         cblas_snrm2_k_noinc_neon, cblas_dnrm2_k_noinc_neon
<1>9. /\ Right(NeonKernels["sscal"], "sscal", "neon", "unit")
      /\ Right(NeonKernels["dscal"], "dscal", "neon", "unit")
  BY DEF Right, PlainShape, Norms, SumNames, Unit, NeonKernels,
         cblas_sscal_k_noinc_neon, cblas_dscal_k_noinc_neon
<1>10. /\ Right(NeonKernels["saxpy"], "saxpy", "neon", "unit")
      /\ Right(NeonKernels["daxpy"], "daxpy", "neon", "unit")
  BY DEF Right, PlainShape, Norms, SumNames, Unit, NeonKernels,
         cblas_saxpy_k_noinc_neon, cblas_daxpy_k_noinc_neon
<1>11. /\ Right(NeonKernels["saxpby"], "saxpby", "neon", "unit")
      /\ Right(NeonKernels["daxpby"], "daxpby", "neon", "unit")
  BY DEF Right, PlainShape, Norms, SumNames, Unit, NeonKernels,
         cblas_saxpby_k_noinc_neon, cblas_daxpby_k_noinc_neon
<1>. QED
  BY <1>1, <1>2, <1>3, <1>4, <1>5, <1>6, <1>7, <1>8, <1>9, <1>10, <1>11

LEMMA DriverFacts ==
  /\ DOMAIN StridedKernels = DOMAIN Drivers
  /\ DOMAIN BaseKernels = DOMAIN Drivers
  /\ \A r \in DOMAIN Drivers :
       /\ Drivers[r].operands \in 0..2
       /\ Drivers[r].result <=> r \in Norms \cup SumNames
<1>1. DOMAIN StridedKernels = DOMAIN Drivers /\ DOMAIN BaseKernels = DOMAIN Drivers
  BY DEF StridedKernels, BaseKernels, Drivers
<1>2. DOMAIN Drivers = {"sdot", "ddot", "snrm2", "dnrm2", "sasum", "dasum",
        "scopy", "dcopy", "sswap", "dswap", "srot", "drot", "saxpy",
        "daxpy", "saxpby", "daxpby", "ssetv", "dsetv", "sscal", "dscal"}
  BY DEF Drivers
<1>3. \A r \in {"sdot", "ddot"} :
        Drivers[r].operands = 2 /\ Drivers[r].result = TRUE
  BY DEF Drivers, Driver, cblas_sdot, cblas_ddot
<1>4. \A r \in {"snrm2", "dnrm2", "sasum", "dasum"} :
        Drivers[r].operands = 1 /\ Drivers[r].result = TRUE
  BY DEF Drivers, Driver, cblas_snrm2, cblas_dnrm2, cblas_sasum, cblas_dasum
<1>5. \A r \in {"scopy", "dcopy", "sswap", "dswap"} :
        Drivers[r].operands = 2 /\ Drivers[r].result = FALSE
  BY DEF Drivers, Driver, cblas_scopy, cblas_dcopy, cblas_sswap, cblas_dswap
<1>6. \A r \in {"srot", "drot", "saxpy", "daxpy"} :
        Drivers[r].operands = 2 /\ Drivers[r].result = FALSE
  BY DEF Drivers, Driver, cblas_srot, cblas_drot, cblas_saxpy, cblas_daxpy
<1>7. \A r \in {"saxpby", "daxpby"} :
        Drivers[r].operands = 2 /\ Drivers[r].result = FALSE
  BY DEF Drivers, Driver, cblas_saxpby, cblas_daxpby
<1>8. \A r \in {"ssetv", "dsetv"} :
        Drivers[r].operands = 0 /\ Drivers[r].result = FALSE
  BY DEF Drivers, Driver, cblas_ssetv, cblas_dsetv
<1>9. \A r \in {"sscal", "dscal"} :
        Drivers[r].operands = 1 /\ Drivers[r].result = FALSE
  BY DEF Drivers, Driver, cblas_sscal, cblas_dscal
<1>10. ASSUME NEW r \in DOMAIN Drivers
      PROVE  Drivers[r].operands \in 0..2
  BY <1>2, <1>3, <1>4, <1>5, <1>6, <1>7, <1>8, <1>9
<1>11. ASSUME NEW r \in DOMAIN Drivers, Drivers[r].result
      PROVE  r \in Norms \cup SumNames
  BY <1>11, <1>2, <1>3, <1>4, <1>5, <1>6, <1>7, <1>8, <1>9 DEF Norms, SumNames
<1>12. ASSUME NEW r \in Norms \cup SumNames
      PROVE  Drivers[r].result
  BY <1>3, <1>4 DEF Norms, SumNames
<1>. QED
  BY <1>1, <1>10, <1>11, <1>12

LEMMA RightIsOK ==
  ASSUME NEW k, NEW r \in DOMAIN Drivers, NEW isa, NEW strides, Right(k, r, isa, strides)
  PROVE  KernelOK(k, r)
<1>1. CASE r \in Norms
  BY <1>1, NormCode, DriverFacts DEF Right, KernelOK, CodeOK
<1>2. CASE r \in SumNames
  <2>1. r \notin Norms
    BY <1>2 DEF SumNames, Norms
  <2>. QED
    BY <1>2, <2>1, SumCode, DriverFacts DEF Right, KernelOK, CodeOK
<1>3. CASE r \notin Norms \cup SumNames
  BY <1>3, PlainCode, DriverFacts DEF Right, KernelOK, CodeOK
<1>. QED
  BY <1>1, <1>2, <1>3

-----------------------------------------------------------------------------
(* The selection.  The flags init_blas_kernels tests before it assigns a    *)
(* kernel of an instruction set.                                            *)
Asks(isa) ==
  CASE isa = "base"   -> {}
    [] isa = "sse"    -> {"sse"}
    [] isa = "avx2"   -> {"sse", "avx2"}
    [] isa = "fma"    -> {"sse", "fma3"}
    [] isa = "avx512" -> {"sse", "avx512"}
    [] isa = "neon"   -> {"neon"}

Isas == {"base", "sse", "avx2", "fma", "avx512", "neon"}

LEMMA LayerChoice ==
  ASSUME NEW kernels, NEW present, NEW below, NEW r \in DOMAIN below
  PROVE  /\ r \in DOMAIN Layer(kernels, present, below)
         /\ Layer(kernels, present, below)[r] =
              IF present /\ r \in DOMAIN kernels THEN kernels[r] ELSE below[r]
BY DEF Layer

LEMMA UnitKernelRight ==
  ASSUME NEW f, NEW r \in DOMAIN Drivers
  PROVE  \E isa \in Isas : Asks(isa) \subseteq f /\ Right(UnitKernels(f)[r], r, isa, "unit")
<1>. DEFINE Fits(k) == \E isa \in Isas : Asks(isa) \subseteq f /\ Right(k, r, isa, "unit")
<1>0. \A k : \A isa \in Isas : Asks(isa) \subseteq f /\ Right(k, r, isa, "unit") => Fits(k)
  OBVIOUS
<1>1. r \in DOMAIN BaseKernels /\ Fits(BaseKernels[r])
  BY DriverFacts, BaseKernelsRight DEF Isas, Asks
<1>2. "neon" \in f /\ r \in DOMAIN NeonKernels => Fits(NeonKernels[r])
  BY NeonKernelsRight DEF Isas, Asks
<1>3. "sse" \in f /\ r \in DOMAIN SseKernels => Fits(SseKernels[r])
  BY SseKernelsRight DEF Isas, Asks
<1>4. {"sse", "avx2"} \subseteq f /\ r \in DOMAIN AvxKernels => Fits(AvxKernels[r])
  BY AvxKernelsRight DEF Isas, Asks
<1>5. {"sse", "fma3"} \subseteq f /\ r \in DOMAIN FmaKernels => Fits(FmaKernels[r])
  BY FmaKernelsRight DEF Isas, Asks
<1>6. {"sse", "avx512"} \subseteq f /\ r \in DOMAIN Avx512Kernels => Fits(Avx512Kernels[r])
  BY Avx512KernelsRight DEF Isas, Asks
<1>. HIDE DEF Fits
<1>7. Fits(init_neon_kernels(f)[r])
  BY <1>1, <1>2, LayerChoice DEF init_neon_kernels, Layer
<1>8. Fits(init_blas_kernels(f)[r])
  <2>. DEFINE t1 == Layer(SseKernels, "sse" \in f, BaseKernels)
              t2 == Layer(AvxKernels, {"sse", "avx2"} \subseteq f, t1)
              t3 == Layer(FmaKernels, {"sse", "fma3"} \subseteq f, t2)
              t4 == Layer(Avx512Kernels, {"sse", "avx512"} \subseteq f, t3)
  <2>1. r \in DOMAIN t1 /\ Fits(t1[r])
    BY <1>1, <1>3 DEF Layer
  <2>. HIDE DEF t1
  <2>2. r \in DOMAIN t2 /\ Fits(t2[r])
    BY <2>1, <1>4 DEF Layer
  <2>. HIDE DEF t2
  <2>3. r \in DOMAIN t3 /\ Fits(t3[r])
    BY <2>2, <1>5 DEF Layer
  <2>. HIDE DEF t3
  <2>4. Fits(t4[r])
    BY <2>3, <1>6 DEF Layer
  <2>. QED
    BY <2>4 DEF init_blas_kernels, t1, t2, t3
<1>. QED
  BY <1>7, <1>8 DEF UnitKernels, Fits

LEMMA ChosenRight ==
  ASSUME NEW f, NEW r \in DOMAIN Drivers, NEW incx, NEW incy
  PROVE  LET k == Chosen(r, f, incx, incy) IN
         /\ KernelOK(k, r)
         /\ \E isa \in Isas : Asks(isa) \subseteq f /\ k.isa = isa
         /\ k.strides = "unit" =>
              /\ Drivers[r].operands >= 1 => incx = 1
              /\ Drivers[r].operands = 2 => incy = 1
<1>1. PICK isa \in Isas : Asks(isa) \subseteq f /\ Right(UnitKernels(f)[r], r, isa, "unit")
  BY UnitKernelRight
<1>2. Right(StridedKernels[r], r, "base", "any")
  BY StridedKernelsRight, DriverFacts
<1>3. KernelOK(UnitKernels(f)[r], r) /\ KernelOK(StridedKernels[r], r)
  BY <1>1, <1>2, RightIsOK
<1>4. "base" \in Isas /\ Asks("base") \subseteq f
  BY DEF Isas, Asks
<1>5. CASE (Drivers[r].operands >= 1 => incx = 1) /\ (Drivers[r].operands = 2 => incy = 1)
  <2>1. Chosen(r, f, incx, incy) = UnitKernels(f)[r]
    BY <1>5 DEF Chosen
  <2>. QED
    BY <2>1, <1>1, <1>3, <1>5 DEF Right
<1>6. CASE ~((Drivers[r].operands >= 1 => incx = 1) /\ (Drivers[r].operands = 2 => incy = 1))
  <2>1. Chosen(r, f, incx, incy) = StridedKernels[r]
    BY <1>6 DEF Chosen
  <2>. QED
    BY <2>1, <1>2, <1>3, <1>4 DEF Right
<1>. QED
  BY <1>5, <1>6

-----------------------------------------------------------------------------
(* What the processors are assumed to be: one that reports AVX2 has AVX,    *)
(* one that reports FMA3 has AVX2, one that reports AVX-512 has FMA3.  The  *)
(* library takes it for granted: a file's kernels are selected by one flag  *)
(* (cpuid_x64.c:377, 410) and compiled with several (Makefile:178, 182).    *)
FlagsNest ==
  \A cpu \in Cpus :
    /\ "avx2" \in cpu => "avx" \in cpu
    /\ "fma3" \in cpu => "avx2" \in cpu
    /\ "avx512" \in cpu => "fma3" \in cpu

LEMMA HostRuns ==
  ASSUME FlagsNest, NEW cpu \in Cpus, NEW os,
         NEW isa \in Isas, Asks(isa) \subseteq Host(cpu, os).features
  PROVE  Needs(isa) \subseteq Host(cpu, os).runs
<1>. DEFINE f == cpu_get_features(cpu, os)
            xcr0 == cpu_get_xcr0(os)
<1>1. Asks(isa) \subseteq f /\ Host(cpu, os).runs = Runs(cpu, os)
  BY DEF Host
<1>2. \A g \in cpu :
        /\ g \in {"avx", "avx2", "fma3", "avx512"} => XCR0_AVX_STATE \subseteq xcr0
        /\ g = "avx512" => XCR0_AVX512_STATE \subseteq xcr0
        => g \in Runs(cpu, os)
  BY DEF Runs
<1>3. CASE "neon" \in cpu
  <2>1. f = {"neon", "neon_fma"}
    BY <1>3 DEF cpu_get_features, arm64_features, ARM64
  <2>2. isa \in {"base", "neon"}
    BY <1>1, <2>1 DEF Asks, Isas
  <2>. QED
    BY <1>1, <1>2, <1>3, <2>2 DEF Needs
<1>4. CASE "neon" \notin cpu
  <2>1. f = x64_features(cpu, os)
    BY <1>4 DEF cpu_get_features
  <2>2. \A g \in f : g \in cpu /\ g # "neon"
    BY <2>1 DEF x64_features
  <2>3. \A g \in f : g \in {"avx", "avx2", "fma3", "avx512"} => XCR0_AVX_STATE \subseteq xcr0
    BY <2>1 DEF x64_features
  <2>4. "avx512" \in f => XCR0_AVX512_STATE \subseteq xcr0
    BY <2>1 DEF x64_features
  <2>. HIDE DEF f, xcr0
  <2>5. CASE isa = "base"
    BY <2>5, <1>1 DEF Needs
  <2>6. CASE isa = "sse"
    BY <2>6, <1>1, <1>2, <2>2 DEF Needs, Asks
  <2>7. CASE isa = "avx2"
    BY <2>7, <1>1, <1>2, <2>2, <2>3, FlagsNest DEF Needs, Asks, FlagsNest
  <2>8. CASE isa = "fma"
    BY <2>8, <1>1, <1>2, <2>2, <2>3, FlagsNest DEF Needs, Asks, FlagsNest
  <2>9. CASE isa = "avx512"
    BY <2>9, <1>1, <1>2, <2>2, <2>3, <2>4, FlagsNest DEF Needs, Asks, FlagsNest
  <2>10. isa # "neon"
    BY <1>1, <2>2 DEF Asks
  <2>. QED
    BY <2>5, <2>6, <2>7, <2>8, <2>9, <2>10 DEF Isas
<1>. QED
  BY <1>3, <1>4

LEMMA CallChooses ==
  ASSUME NEW r \in Routines, NEW host \in Hosts, NEW incx, NEW incy, Call(r, host, incx, incy)
  PROVE  /\ KernelOK(call.kernel, r)'
         /\ call'.routine = r /\ call'.incx = incx /\ call'.incy = incy
         /\ call'.runs = host.runs
         /\ call'.kernel = Chosen(r, host.features, incx, incy)
         /\ \E isa \in Isas : Asks(isa) \subseteq host.features /\ call'.kernel.isa = isa
<1>1. r \in DOMAIN Drivers
  BY Level1Assumption, DriverFacts DEF Level1Assumption
<1>. DEFINE k == Chosen(r, host.features, incx, incy)
<1>2. call'.routine = r /\ call'.incx = incx /\ call'.incy = incy
      /\ call'.runs = host.runs /\ call'.kernel = k
  BY DEF Call
<1>3. KernelOK(k, r) /\ \E isa \in Isas : Asks(isa) \subseteq host.features /\ k.isa = isa
  BY <1>1, ChosenRight
<1>. QED
  BY <1>2, <1>3 DEF KernelOK

(* KernelRuns (Level1) holds: whatever the processor reports and the        *)
(* operating system saves, the kernel a driver calls is its own routine's   *)
(* and holds no instruction that faults here.                               *)
THEOREM KernelsRun == FlagsNest => (Spec => []KernelRuns)
<1>. SUFFICES ASSUME FlagsNest
              PROVE  Spec => []KernelRuns
  OBVIOUS
<1>1. Init => KernelRuns
  BY DEF Init, KernelRuns
<1>2. KernelRuns /\ [Next]_vars => KernelRuns'
  <2>. SUFFICES ASSUME KernelRuns, [Next]_vars
                PROVE  KernelRuns'
    OBVIOUS
  <2>1. CASE AnyCall
    <3>1. PICK host \in Hosts, r \in Routines :
            \E incx \in StridesOf(r, 1), incy \in StridesOf(r, 2) : Call(r, host, incx, incy)
      BY <2>1 DEF AnyCall
    <3>2. PICK incx, incy : Call(r, host, incx, incy)
      BY <3>1
    <3>3. /\ KernelOK(call.kernel, r)' /\ call'.routine = r
          /\ call'.runs = host.runs
          /\ \E isa \in Isas : Asks(isa) \subseteq host.features /\ call'.kernel.isa = isa
      BY <3>2, CallChooses
    <3>4. PICK isa \in Isas : Asks(isa) \subseteq host.features /\ call'.kernel.isa = isa
      BY <3>3
    <3>5. PICK cpu \in Cpus, os \in Systems : host = Host(cpu, os)
      BY DEF Hosts
    <3>6. Needs(isa) \subseteq host.runs
      BY <3>4, <3>5, HostRuns
    <3>. QED
      BY <3>3, <3>4, <3>6 DEF KernelRuns, KernelOK
  <2>2. CASE Return
    BY <2>2 DEF Return, KernelRuns
  <2>3. CASE call' = call /\ (pc' = "kernel" => pc = "kernel")
    BY <2>3 DEF KernelRuns
  <2>4. Iterate \/ LeaveLoop \/ AddAccumulators \/ HalveRegister \/ SumRegister
        \/ TakeRoot \/ KernelReturn \/ UNCHANGED vars
        => call' = call /\ (pc' = "kernel" => pc = "kernel")
    BY DEF Iterate, LeaveLoop, AddAccumulators, HalveRegister, SumRegister,
           TakeRoot,
           KernelReturn, InKernel, vars
  <2>. QED
    BY <2>1, <2>2, <2>3, <2>4 DEF Next
<1>. QED
  BY <1>1, <1>2, PTL DEF Spec

-----------------------------------------------------------------------------
(* The execution of a call. *)
Code   == call.kernel.code
TraceOf(code) == CHOOSE ph : Traced(code, ph)
Trace  == TraceOf(Code)
Lanes  == 0..(Code[1].lanes - 1)
Reduces  == Drivers[call.routine].result

(* What a driver was called with and which kernel it chose. *)
CallInv ==
  /\ call.routine \in DOMAIN Drivers
  /\ call.n \in Nat \ {0} /\ call.threads \in Nat \ {0}
  /\ call.incx \in Nat \ {0} /\ call.incy \in Nat \ {0}
  /\ KernelOK(call.kernel, call.routine)
  /\ call.kernel.strides = "unit" => call.incx = 1 /\ call.incy = 1

(* The share that is worked on: the last one ends where the vector ends. *)
ShareInv ==
  /\ part \in 1..call.threads /\ start \in Nat /\ size \in Nat
  /\ start + size <= call.n
  /\ part = call.threads => start + size = call.n

(* The loops so far have taken the first i elements of the share, and all   *)
(* of them once the loop over single elements is over.                      *)
LoopInv ==
  /\ ip \in 1..(Len(Code) + 1) /\ i \in 0..size
  /\ visited = 0..(i - 1)
  /\ ip = 1 => \E m \in Nat : i = m * Code[1].step
  /\ \A j \in 1..Len(Code) : Finishes(Code[j]) /\ j < ip => i = size

(* The summands are the elements taken so far, each in exactly one lane of  *)
(* those that count.                                                        *)
SumInv ==
  /\ held \in [0..Total -> [Lanes -> SUBSET Nat]]
  /\ \A e : e \in visited <=> \E a \in 0..Total, l \in Lanes :
                                Live(Trace[ip], a, l) /\ e \in held[a][l]
  /\ \A a, b \in 0..Total, l, m \in Lanes :
       \A e \in held[a][l] \cap held[b][m] :
         Live(Trace[ip], a, l) /\ Live(Trace[ip], b, m) => a = b /\ l = m

HeldInv == IF Reduces THEN SumInv ELSE held = <<>>

KernelInv == CallInv /\ ShareInv /\ LoopInv /\ HeldInv /\ twice = FALSE

LEMMA KernelFacts ==
  ASSUME NEW k, NEW r, KernelOK(k, r)
  PROVE  /\ CodeShape(k.code)
         /\ Drivers[r].result => Traced(k.code, TraceOf(k.code))
         /\ ~Drivers[r].result => \A j \in 1..Len(k.code) : IsLoop(k.code[j])
         /\ k.code[1].lanes \in Nat \ {0} /\ k.code[1].step \in Nat \ {0}
         /\ Len(k.code) \in Nat \ {0}
<1>1. CodeOK(k.code, Drivers[r].result)
  BY DEF KernelOK
<1>2. CodeShape(k.code)
  BY <1>1 DEF CodeOK
<1>3. Drivers[r].result => Traced(k.code, TraceOf(k.code))
  BY <1>1 DEF CodeOK, TraceOf
<1>4. ~Drivers[r].result => \A j \in 1..Len(k.code) : IsLoop(k.code[j])
  BY <1>1 DEF CodeOK
<1>5. /\ k.code[1].lanes \in Nat \ {0} /\ k.code[1].step \in Nat \ {0}
      /\ Len(k.code) \in Nat \ {0}
  BY <1>2 DEF CodeShape, LoopOK
<1>. QED
  BY <1>2, <1>3, <1>4, <1>5

LEMMA CodeFacts ==
  ASSUME CallInv
  PROVE  /\ CodeShape(Code)
         /\ Reduces => Traced(Code, Trace)
         /\ ~Reduces => \A j \in 1..Len(Code) : IsLoop(Code[j])
         /\ Code[1].lanes \in Nat \ {0} /\ 0 \in Lanes
BY KernelFacts DEF CallInv, Code, Trace, Reduces, Lanes

(* An unrolled loop that runs to the rounded length has room for its step. *)
LEMMA RoundedFits ==
  ASSUME NEW n \in Nat, NEW step \in Nat \ {0}, NEW m \in Nat,
         m * step < (n \div step) * step
  PROVE  m * step + step <= n
<1>. DEFINE q == n \div step
<1>1. q \in Nat /\ q * step <= n
  OBVIOUS
<1>. HIDE DEF q
<1>2. m < q
  <2>1. ASSUME q <= m
        PROVE  q * step <= m * step
    <3>1. PICK d \in Nat : m = q + d
      BY <1>1, <2>1
    <3>2. m * step = q * step + d * step
      BY <1>1, <3>1
    <3>3. d * step \in Nat /\ q * step \in Nat
      BY <1>1
    <3>. QED
      BY <3>2, <3>3
  <2>. QED
    BY <2>1, <1>1 DEF q
<1>3. PICK d \in Nat : q = m + 1 + d
  BY <1>1, <1>2
<1>4. q * step = m * step + step + d * step
  BY <1>3
<1>5. d * step \in Nat /\ m * step \in Nat
  OBVIOUS
<1>. QED
  BY <1>1, <1>4, <1>5

(* So has every loop whose condition holds. *)
LEMMA LoopRoom ==
  ASSUME KernelInv, InKernel("loop"), Continues(Instr, size)
  PROVE  /\ ip \in 1..Len(Code) /\ Instr = Code[ip] /\ LoopOK(Instr)
         /\ IsLoop(Instr)
         /\ i + Instr.step <= size
<1>1. CodeShape(Code)
  BY CodeFacts DEF KernelInv
<1>2. ip \in 1..Len(Code) /\ Instr = Code[ip] /\ IsLoop(Instr)
  BY <1>1 DEF InKernel, KernelInv, LoopInv, Instr, Code, IsLoop, CodeShape
<1>3. LoopOK(Instr) /\ (Instr.until = "rounded" => ip = 1)
  BY <1>1, <1>2 DEF CodeShape
<1>4. /\ Instr.until = "fits" => i + Instr.step <= size
      /\ Instr.until = "below" => i + Instr.step < size
      /\ Instr.until = "rounded" => i < (size \div Instr.step) * Instr.step
  BY DEF Continues
<1>5. i \in Int /\ Instr.step \in Nat \ {0} /\ size \in Nat
  BY <1>3 DEF KernelInv, LoopInv, ShareInv, LoopOK
<1>6. ASSUME Instr.until = "rounded"
      PROVE  i + Instr.step <= size
  <2>1. PICK m \in Nat : i = m * Instr.step
    BY <1>2, <1>3, <1>6 DEF KernelInv, LoopInv
  <2>. QED
    BY <2>1, <1>4, <1>5, <1>6, RoundedFits
<1>7. ASSUME Instr.until \in {"fits", "below"}
      PROVE  i + Instr.step <= size
  BY <1>4, <1>5, <1>7
<1>. QED
  BY <1>2, <1>3, <1>6, <1>7 DEF LoopOK

LEMMA SameCall ==
  ASSUME CallInv, UNCHANGED call
  PROVE  CallInv' /\ Code' = Code /\ Trace' = Trace /\ Lanes' = Lanes /\ (Reduces' <=> Reduces)
BY DEF CallInv, Code, Trace, Lanes, Reduces

LEMMA TakenRange ==
  ASSUME NEW x, LoopOK(x), i \in Nat
  PROVE  /\ \A e : e \in Taken(x) <=>
              \E v \in DOMAIN x.at, l \in 0..(x.lanes - 1) : e = i + x.at[v] + l
         /\ Taken(x) = i..(i + x.step - 1)
<1>1. \A e : e \in Taken(x) <=>
        \E v \in DOMAIN x.at, l \in 0..(x.lanes - 1) : e = i + x.at[v] + l
  BY DEF Taken, Vector
<1>2. ASSUME NEW v \in DOMAIN x.at, NEW l \in 0..(x.lanes - 1)
      PROVE  i + x.at[v] + l \in i..(i + x.step - 1)
  <2>1. /\ x.at[v] \in Nat /\ l \in Nat /\ x.step \in Nat
        /\ x.at[v] + l < x.step
    BY DEF LoopOK
  <2>. QED
    BY <2>1
<1>3. ASSUME NEW e \in i..(i + x.step - 1)
      PROVE  \E v \in DOMAIN x.at, l \in 0..(x.lanes - 1) : e = i + x.at[v] + l
  <2>1. e - i \in 0..(x.step - 1)
    BY DEF LoopOK
  <2>2. PICK v \in DOMAIN x.at, l \in 0..(x.lanes - 1) : e - i = x.at[v] + l
    BY <2>1 DEF LoopOK
  <2>3. x.at[v] \in Nat /\ l \in Int
    BY DEF LoopOK
  <2>4. e = i + x.at[v] + l
    BY <2>2, <2>3
  <2>. QED
    BY <2>4
<1>4. \A e : e \in Taken(x) <=> e \in i..(i + x.step - 1)
  BY <1>1, <1>2, <1>3
<1>5. Taken(x) = i..(i + x.step - 1)
  BY <1>4
<1>. QED
  BY <1>1, <1>5

(* Iterate: the loops' part, then the accumulators' part of the invariant. *)
LEMMA IterateLoops ==
  ASSUME KernelInv, Iterate
  PROVE  LoopInv' /\ visited \cap Taken(Instr) = {}
<1>1. /\ ip \in 1..Len(Code) /\ Instr = Code[ip] /\ LoopOK(Instr)
      /\ IsLoop(Instr)
      /\ i + Instr.step <= size
  BY LoopRoom DEF Iterate
<1>2. CodeShape(Code)
  BY CodeFacts DEF KernelInv
<1>3. /\ i \in Nat /\ size \in Nat /\ visited = 0..(i - 1)
      /\ Instr.step \in Nat \ {0}
  BY <1>1 DEF KernelInv, LoopInv, ShareInv, LoopOK
<1>4. Taken(Instr) = i..(i + Instr.step - 1)
  BY <1>1, <1>3, TakenRange
<1>5. visited' = 0..(i' - 1) /\ i' \in 0..size' /\ i' = i + Instr.step
  BY <1>1, <1>3, <1>4 DEF Iterate
<1>6. ip = 1 => \E m \in Nat : i' = m * Code[1].step
  <2>1. SUFFICES ASSUME ip = 1
                 PROVE  \E m \in Nat : i' = m * Code[1].step
    OBVIOUS
  <2>2. PICK m \in Nat : i = m * Code[1].step
    BY <2>1 DEF KernelInv, LoopInv
  <2>3. \A s \in Nat : (m + 1) * s = m * s + s
    OBVIOUS
  <2>4. Code[1] = Instr
    BY <1>1, <2>1
  <2>5. i' = m * Instr.step + Instr.step
    BY <1>5, <2>2, <2>4
  <2>6. (m + 1) * Instr.step = m * Instr.step + Instr.step
    BY <1>3, <2>3
  <2>. QED
    BY <2>4, <2>5, <2>6
<1>7. \A j \in 1..Len(Code) : ~(Finishes(Code[j]) /\ j < ip)
  BY <1>1, <1>3 DEF KernelInv, LoopInv
<1>8. Code' = Code /\ ip' = ip /\ size' = size
  BY DEF Iterate, Code
<1>9. visited \cap Taken(Instr) = {}
  BY <1>3, <1>4
<1>. QED
  BY <1>1, <1>5, <1>6, <1>7, <1>8, <1>9 DEF LoopInv, KernelInv

LEMMA IterateSums ==
  ASSUME KernelInv, Iterate, Reduces
  PROVE  SumInv'
<1>. DEFINE x == Instr
            p == Trace[ip]
<1>1. /\ ip \in 1..Len(Code) /\ x = Code[ip] /\ LoopOK(x) /\ IsLoop(x)
      /\ i + x.step <= size
  BY LoopRoom DEF Iterate
<1>2. /\ CodeShape(Code) /\ Traced(Code, Trace) /\ Code[1].lanes \in Nat \ {0}
  BY CodeFacts DEF KernelInv
<1>3. Fills(x, p) /\ x.lanes \in Nat /\ x.lanes <= Code[1].lanes
  BY <1>1, <1>2 DEF Traced, Leads, IsLoop, CodeShape, LoopOK
<1>4. /\ i \in Nat /\ visited = 0..(i - 1)
  BY DEF KernelInv, LoopInv
<1>5. SumInv
  BY DEF KernelInv, HeldInv
<1>6. held # <<>> /\ \A a \in 0..Total : DOMAIN held[a] = Lanes
  <2>1. DOMAIN held = 0..Total /\ \A a \in 0..Total : DOMAIN held[a] = Lanes
    BY <1>5 DEF SumInv
  <2>2. 0 \in 0..Total /\ DOMAIN <<>> = {}
    BY DEF Total
  <2>. QED
    BY <2>1, <2>2
<1>7. held' = [a \in 0..Total |-> [l \in Lanes |-> held[a][l] \cup Lane(x, a, l)]]
  BY <1>6 DEF Iterate
<1>8. \A a \in 0..Total, l \in Lanes : \A e :
         e \in Lane(x, a, l) <=>
           /\ l < x.lanes
           /\ \E v \in DOMAIN x.at : x.into[v] = a /\ e = i + x.at[v] + l
  BY DEF Lane
<1>9. \A e : e \in visited' <=> e \in visited \/ e \in Taken(x)
  BY DEF Iterate
<1>10. \A e : e \in Taken(x) <=>
          \E v \in DOMAIN x.at, l \in 0..(x.lanes - 1) : e = i + x.at[v] + l
  BY <1>1, <1>4, TakenRange
<1>11. /\ Trace' = Trace /\ ip' = ip /\ Lanes' = Lanes
  BY SameCall DEF Iterate, KernelInv
<1>12. Taken(x) \subseteq Nat /\ visited \cap Taken(x) = {}
  <2>1. Taken(x) = i..(i + x.step - 1)
    BY <1>1, <1>4, TakenRange
  <2>. QED
    BY <2>1, <1>4, IterateLoops
<1>. HIDE DEF x, p
<1>13. \A a \in 0..Total, l \in Lanes : Lane(x, a, l) \subseteq Taken(x)
  BY <1>3, <1>8, <1>10 DEF Lanes
<1>14. held' \in [0..Total -> [Lanes -> SUBSET Nat]]
  BY <1>5, <1>7, <1>12, <1>13 DEF SumInv
<1>15. \A a \in 0..Total, l \in Lanes : \A e :
         e \in held'[a][l] <=> e \in held[a][l] \/ e \in Lane(x, a, l)
  BY <1>7
<1>16. \A e : e \in visited' <=> \E a \in 0..Total, l \in Lanes :
                                 Live(p, a, l) /\ e \in held'[a][l]
  <2>1. ASSUME NEW e \in visited
        PROVE  \E a \in 0..Total, l \in Lanes : Live(p, a, l) /\ e \in held'[a][l]
    BY <1>5, <1>15 DEF SumInv, p
  <2>2. ASSUME NEW e \in Taken(x)
        PROVE  \E a \in 0..Total, l \in Lanes : Live(p, a, l) /\ e \in held'[a][l]
    <3>1. PICK v \in DOMAIN x.at, l \in 0..(x.lanes - 1) : e = i + x.at[v] + l
      BY <1>10
    <3>2. x.into[v] \in 0..Total /\ l \in Lanes /\ Live(p, x.into[v], l)
                                 /\ l < x.lanes
      BY <1>1, <1>2, <1>3 DEF Fills, LoopOK, Lanes
    <3>3. e \in Lane(x, x.into[v], l)
      BY <1>8, <3>1, <3>2
    <3>. QED
      BY <1>15, <3>2, <3>3
  <2>3. ASSUME NEW a \in 0..Total, NEW l \in Lanes, NEW e \in held'[a][l], Live(p, a, l)
        PROVE  e \in visited'
    BY <1>5, <1>9, <1>13, <1>15, <2>3 DEF SumInv, p
  <2>. QED
    BY <1>9, <2>1, <2>2, <2>3
<1>17. ASSUME NEW a \in 0..Total, NEW b \in 0..Total, NEW l \in Lanes, NEW m \in Lanes,
              NEW e \in held'[a][l] \cap held'[b][m], Live(p, a, l), Live(p, b, m)
       PROVE  a = b /\ l = m
  <2>1. CASE e \in held[a][l] /\ e \in held[b][m]
    BY <2>1, <1>5, <1>17 DEF SumInv, p
  <2>2. e \in held[a][l] \/ e \in held[b][m] => e \in visited
    BY <1>5, <1>17 DEF SumInv, p
  <2>3. e \in Lane(x, a, l) \/ e \in Lane(x, b, m) => e \in Taken(x)
    BY <1>13
  <2>4. CASE e \in Lane(x, a, l) /\ e \in Lane(x, b, m)
    <3>1. PICK v \in DOMAIN x.at : x.into[v] = a /\ e = i + x.at[v] + l
                                                 /\ l < x.lanes
      BY <1>8, <2>4
    <3>2. PICK u \in DOMAIN x.at : x.into[u] = b /\ e = i + x.at[u] + m
                                                 /\ m < x.lanes
      BY <1>8, <2>4
    <3>3. /\ l \in 0..(x.lanes - 1) /\ m \in 0..(x.lanes - 1)
      BY <3>1, <3>2, <1>2, <1>3 DEF Lanes
    <3>. DEFINE c == x.at[v]
                d == x.at[u]
    <3>4. c \in Nat /\ d \in Nat /\ l \in Nat /\ m \in Nat /\ e = i + c + l
                    /\ e = i + d + m
      BY <1>1, <3>1, <3>2, <3>3 DEF LoopOK
    <3>. HIDE DEF c, d
    <3>5. c + l = d + m
      BY <3>4, <1>4
    <3>6. v = u /\ l = m
      BY <3>3, <3>5, <1>1 DEF LoopOK, c, d
    <3>. QED
      BY <3>1, <3>2, <3>6
  <2>. QED
    BY <2>1, <2>2, <2>3, <2>4, <1>12, <1>15
<1>. QED
  BY <1>11, <1>14, <1>16, <1>17 DEF SumInv, p

LEMMA IterateKeeps ==
  ASSUME KernelInv, Iterate
  PROVE  KernelInv'
<1>1. UNCHANGED <<call, part, start, size>>
  BY DEF Iterate
<1>2. CallInv' /\ (Reduces' <=> Reduces)
  BY <1>1, SameCall DEF KernelInv
<1>3. ShareInv'
  BY <1>1 DEF KernelInv, ShareInv
<1>4. LoopInv' /\ twice' = FALSE
  BY IterateLoops DEF Iterate, KernelInv
<1>5. CASE Reduces
  BY <1>2, <1>3, <1>4, <1>5, IterateSums DEF KernelInv, HeldInv
<1>6. CASE ~Reduces
  <2>1. held = <<>>
    BY <1>6 DEF KernelInv, HeldInv
  <2>2. held' = <<>>
    BY <2>1 DEF Iterate
  <2>. QED
    BY <2>2, <1>2, <1>3, <1>4, <1>6 DEF KernelInv, HeldInv
<1>. QED
  BY <1>5, <1>6

(* The instructions that are no loops. *)
Advances ==
  /\ ip \in 1..Len(Code) /\ ip' = ip + 1
  /\ UNCHANGED <<call, part, start, size, i, visited>>

LEMMA AdvanceLoops ==
  ASSUME KernelInv, Advances, Finishes(Code[ip]) => i = size
  PROVE  /\ CallInv' /\ ShareInv' /\ LoopInv'
         /\ Code' = Code /\ Trace' = Trace /\ Lanes' = Lanes /\ (Reduces' <=> Reduces)
<1>1. CallInv' /\ Code' = Code /\ Trace' = Trace /\ Lanes' = Lanes /\ (Reduces' <=> Reduces)
  BY SameCall DEF KernelInv, Advances
<1>2. ShareInv'
  BY DEF KernelInv, ShareInv, Advances
<1>3. ip \in 1..Len(Code) /\ Len(Code) \in Nat
  BY CodeFacts DEF Advances, CodeShape, KernelInv
<1>4. /\ ip' \in 1..(Len(Code) + 1) /\ ip' # 1
      /\ \A j \in 1..Len(Code) : j < ip' => j < ip \/ j = ip
  BY <1>3 DEF Advances
<1>5. LoopInv'
  BY <1>1, <1>4 DEF KernelInv, LoopInv, Advances
<1>. QED
  BY <1>1, <1>2, <1>5

LEMMA InstrIs ==
  ASSUME KernelInv, NEW what, InKernel(what)
  PROVE  ip \in 1..Len(Code) /\ Instr = Code[ip] /\ Code[ip].do = what
BY CodeFacts DEF InKernel, KernelInv, LoopInv, Instr, Code, CodeShape

LEMMA LeaveLoopKeeps ==
  ASSUME KernelInv, LeaveLoop
  PROVE  KernelInv'
<1>1. ip \in 1..Len(Code) /\ Instr = Code[ip] /\ Code[ip].do = "loop"
  BY InstrIs DEF LeaveLoop
<1>2. Finishes(Code[ip]) => i = size
  <2>1. SUFFICES ASSUME Finishes(Code[ip])
                 PROVE  i = size
    OBVIOUS
  <2>2. ~(i + 1 <= size)
    BY <2>1, <1>1 DEF Finishes, LeaveLoop, Continues
  <2>. QED
    BY <2>2 DEF KernelInv, LoopInv, ShareInv
<1>3. Advances
  BY <1>1 DEF LeaveLoop, Advances
<1>4. /\ CallInv' /\ ShareInv' /\ LoopInv'
      /\ Code' = Code /\ Trace' = Trace /\ Lanes' = Lanes /\ (Reduces' <=> Reduces)
  BY <1>2, <1>3, AdvanceLoops
<1>5. CASE Reduces
  <2>1. Traced(Code, Trace)
    BY <1>5, CodeFacts DEF KernelInv
  <2>2. Trace[ip'] = Trace[ip]
    BY <2>1, <1>1, <1>3 DEF Traced, Leads, Advances
  <2>3. SumInv
    BY <1>5 DEF KernelInv, HeldInv
  <2>4. SumInv'
    BY <2>2, <2>3, <1>4 DEF SumInv, LeaveLoop
  <2>. QED
    BY <2>4, <1>4, <1>5 DEF KernelInv, HeldInv, LeaveLoop
<1>6. CASE ~Reduces
  BY <1>4, <1>6 DEF KernelInv, HeldInv, LeaveLoop
<1>. QED
  BY <1>5, <1>6

LEMMA StepSums ==
  ASSUME KernelInv, NEW what, what # "loop", InKernel(what)
  PROVE  /\ Reduces /\ SumInv /\ ~Finishes(Code[ip])
         /\ Leads(Instr, Trace[ip], Trace[ip + 1], Code[1].lanes)
         /\ Instr.do = what /\ ip \in 1..Len(Code)
         /\ Code[1].lanes \in Nat \ {0}
         /\ 0 \in 0..Total /\ DOMAIN held[0] = Lanes
<1>1. ip \in 1..Len(Code) /\ Instr = Code[ip] /\ Code[ip].do = what
  BY InstrIs
<1>2. Reduces /\ ~Finishes(Code[ip])
  BY <1>1, CodeFacts DEF KernelInv, IsLoop, Finishes
<1>3. SumInv
  BY <1>2 DEF KernelInv, HeldInv
<1>4. Leads(Instr, Trace[ip], Trace[ip + 1], Code[1].lanes) /\ Code[1].lanes \in Nat \ {0}
  BY <1>1, <1>2, CodeFacts DEF KernelInv, Traced
<1>5. 0 \in 0..Total
  BY DEF Total
<1>. QED
  BY <1>1, <1>2, <1>3, <1>4, <1>5 DEF SumInv

LEMMA TakeRootKeeps ==
  ASSUME KernelInv, TakeRoot
  PROVE  KernelInv'
<1>1. /\ Reduces /\ SumInv /\ ~Finishes(Code[ip]) /\ ip \in 1..Len(Code)
      /\ Leads(Instr, Trace[ip], Trace[ip + 1], Code[1].lanes)
      /\ Instr.do = "root"
  BY StepSums DEF TakeRoot
<1>2. Advances
  BY <1>1 DEF TakeRoot, Advances
<1>3. /\ CallInv' /\ ShareInv' /\ LoopInv'
      /\ Code' = Code /\ Trace' = Trace /\ Lanes' = Lanes /\ (Reduces' <=> Reduces)
  BY <1>1, <1>2, AdvanceLoops
<1>4. Trace[ip'] = Trace[ip]
  BY <1>1, <1>2 DEF Leads, Advances
<1>5. SumInv'
  BY <1>1, <1>3, <1>4 DEF SumInv, TakeRoot
<1>. QED
  BY <1>1, <1>3, <1>5 DEF KernelInv, HeldInv, TakeRoot

LEMMA AddKeeps ==
  ASSUME KernelInv, AddAccumulators
  PROVE  KernelInv'
<1>. DEFINE w == Code[1].lanes
<1>1. /\ Reduces /\ SumInv /\ ~Finishes(Code[ip]) /\ ip \in 1..Len(Code)
      /\ Leads(Instr, Trace[ip], Trace[ip + 1], w) /\ Instr.do = "add"
      /\ w \in Nat \ {0} /\ 0 \in 0..Total /\ DOMAIN held[0] = Lanes
  BY StepSums DEF AddAccumulators
<1>2. Advances
  BY <1>1 DEF AddAccumulators, Advances
<1>3. /\ CallInv' /\ ShareInv' /\ LoopInv'
      /\ Code' = Code /\ Trace' = Trace /\ Lanes' = Lanes /\ (Reduces' <=> Reduces)
  BY <1>1, <1>2, AdvanceLoops
<1>4. Trace[ip] = Four(w) /\ Trace[ip'] = One(w) /\ visited' = visited
  BY <1>1, <1>2 DEF Leads, Advances
<1>5. Lanes = 0..(w - 1)
  BY DEF Lanes
<1>. HIDE DEF w
<1>6. held \in [0..Total -> [Lanes -> SUBSET Nat]] /\ 0..3 \subseteq 0..Total
  BY <1>1 DEF SumInv, Total
<1>7. held' = [held EXCEPT ![0] = [l \in Lanes |-> UNION {held[a][l] : a \in 0..3}]]
  BY <1>1 DEF AddAccumulators
<1>8. \A l \in Lanes : \A e : e \in held'[0][l] <=> \E a \in 0..3 : e \in held[a][l]
  BY <1>6, <1>7, <1>1
<1>9. \A a \in 0..3, l \in Lanes : Live(Four(w), a, l)
  BY <1>5 DEF Live, Four
<1>10. \A a \in 0..Total, l \in Lanes :
         /\ Live(Four(w), a, l) => a \in 0..3
         /\ Live(One(w), a, l) <=> a = 0
  BY <1>5 DEF Live, Four, One
<1>11. /\ \A e : e \in visited <=> \E a \in 0..Total, l \in Lanes :
                                     Live(Four(w), a, l) /\ e \in held[a][l]
       /\ \A a, b \in 0..Total, l, m \in Lanes :
            \A e \in held[a][l] \cap held[b][m] :
              Live(Four(w), a, l) /\ Live(Four(w), b, m) => a = b /\ l = m
  BY <1>1, <1>4 DEF SumInv
<1>12. held' \in [0..Total -> [Lanes -> SUBSET Nat]]
  <2>1. [l \in Lanes |-> UNION {held[a][l] : a \in 0..3}] \in [Lanes -> SUBSET Nat]
    BY <1>6
  <2>. QED
    BY <2>1, <1>6, <1>7
<1>13. \A e : e \in visited' <=> \E a \in 0..Total, l \in Lanes :
                                   Live(One(w), a, l) /\ e \in held'[a][l]
  BY <1>1, <1>4, <1>6, <1>8, <1>9, <1>10, <1>11
<1>14. ASSUME NEW a \in 0..Total, NEW b \in 0..Total, NEW l \in Lanes, NEW m \in Lanes,
              NEW e \in held'[a][l] \cap held'[b][m], Live(One(w), a, l), Live(One(w), b, m)
       PROVE  a = b /\ l = m
  <2>1. a = 0 /\ b = 0
    BY <1>10, <1>14
  <2>2. PICK c \in 0..3 : e \in held[c][l]
    BY <2>1, <1>8
  <2>3. PICK d \in 0..3 : e \in held[d][m]
    BY <2>1, <1>8
  <2>. QED
    BY <2>1, <2>2, <2>3, <1>6, <1>9, <1>11
<1>15. SumInv'
  BY <1>3, <1>4, <1>12, <1>13, <1>14 DEF SumInv
<1>16. twice' = FALSE
  <2>1. ~\E a, b \in 0..3, l \in DOMAIN held[0] : a # b /\ held[a][l] \cap held[b][l] # {}
    BY <1>1, <1>6, <1>9, <1>11
  <2>. QED
    BY <2>1 DEF AddAccumulators, KernelInv
<1>. QED
  BY <1>1, <1>3, <1>15, <1>16 DEF KernelInv, HeldInv

LEMMA HalveKeeps ==
  ASSUME KernelInv, HalveRegister
  PROVE  KernelInv'
<1>. DEFINE w == Code[1].lanes
<1>1. /\ Reduces /\ SumInv /\ ~Finishes(Code[ip]) /\ ip \in 1..Len(Code)
      /\ Leads(Instr, Trace[ip], Trace[ip + 1], w) /\ Instr.do = "halve"
      /\ w \in Nat \ {0} /\ 0 \in 0..Total /\ DOMAIN held[0] = Lanes
  BY StepSums DEF HalveRegister
<1>2. Advances
  BY <1>1 DEF HalveRegister, Advances
<1>3. /\ CallInv' /\ ShareInv' /\ LoopInv'
      /\ Code' = Code /\ Trace' = Trace /\ Lanes' = Lanes /\ (Reduces' <=> Reduces)
  BY <1>1, <1>2, AdvanceLoops
<1>4. PICK h \in 1..w : Instr.lanes = 2 * h /\ Trace[ip] = One(2 * h)
                                            /\ Trace[ip + 1] = One(h)
  BY <1>1 DEF Leads
<1>5. Trace[ip'] = One(h) /\ visited' = visited /\ Lanes = 0..(w - 1)
  BY <1>2, <1>4 DEF Advances, Lanes
<1>6. 2 * h \in 1..w
  <2>1. Trace[ip] \in Phases(w)
    BY <1>1, CodeFacts DEF KernelInv, Traced, CodeShape
  <2>. QED
    BY <2>1, <1>4 DEF Phases, One
<1>7. Instr.lanes \div 2 = h
  BY <1>4
<1>. HIDE DEF w
<1>8. held \in [0..Total -> [Lanes -> SUBSET Nat]]
  BY <1>1 DEF SumInv
<1>9. held' = [held EXCEPT ![0] =
         [l \in Lanes |-> IF l < h THEN held[0][l] \cup held[0][l + h] ELSE {}]]
  BY <1>1, <1>7, <1>8 DEF HalveRegister
<1>10. \A l \in 0..(h - 1) : /\ l \in Lanes /\ l + h \in Lanes /\ l + h \in 0..(2 * h - 1)
                             /\ l \in 0..(2 * h - 1)
  BY <1>1, <1>5, <1>6
<1>11. \A l \in 0..(h - 1) : \A e :
          e \in held'[0][l] <=> e \in held[0][l] \/ e \in held[0][l + h]
  BY <1>1, <1>8, <1>9, <1>10
<1>12. \A a \in 0..Total, l \in Lanes :
         /\ Live(One(2 * h), a, l) <=> a = 0 /\ l \in 0..(2 * h - 1)
         /\ Live(One(h), a, l) <=> a = 0 /\ l \in 0..(h - 1)
  BY DEF Live, One
<1>13. /\ \A e : e \in visited <=> \E l \in 0..(2 * h - 1) : e \in held[0][l]
       /\ \A l, m \in 0..(2 * h - 1) : \A e \in held[0][l] \cap held[0][m] : l = m
  <2>1. 0..(2 * h - 1) \subseteq Lanes
    BY <1>1, <1>5, <1>6
  <2>2. /\ \A e : e \in visited <=> \E a \in 0..Total, l \in Lanes :
                                     Live(One(2 * h), a, l) /\ e \in held[a][l]
        /\ \A a, b \in 0..Total, l, m \in Lanes :
             \A e \in held[a][l] \cap held[b][m] :
               Live(One(2 * h), a, l) /\ Live(One(2 * h), b, m) => a = b /\ l = m
    BY <1>1, <1>4 DEF SumInv
  <2>3. \A e : e \in visited <=> \E l \in 0..(2 * h - 1) : e \in held[0][l]
    BY <1>1, <1>12, <2>1, <2>2
  <2>4. ASSUME NEW l \in 0..(2 * h - 1), NEW m \in 0..(2 * h - 1), NEW e \in held[0][l] \cap held[0][m]
        PROVE  l = m
    BY <1>1, <1>12, <2>1, <2>2
  <2>. QED
    BY <2>3, <2>4
<1>14. held' \in [0..Total -> [Lanes -> SUBSET Nat]]
  <2>1. \A l \in Lanes : (IF l < h THEN held[0][l] \cup held[0][l + h] ELSE {}) \in SUBSET Nat
    BY <1>1, <1>5, <1>8, <1>10
  <2>. QED
    BY <2>1, <1>8, <1>9
<1>15. \A l \in 0..(2 * h - 1) : l \in 0..(h - 1) \/ (l - h \in 0..(h - 1) /\ (l - h) + h = l)
  OBVIOUS
<1>16. \A e : e \in visited' <=> \E l \in 0..(h - 1) : e \in held'[0][l]
  <2>1. ASSUME NEW e \in visited
        PROVE  \E l \in 0..(h - 1) : e \in held'[0][l]
    BY <1>11, <1>13, <1>15
  <2>2. ASSUME NEW l \in 0..(h - 1), NEW e \in held'[0][l]
        PROVE  e \in visited
    BY <1>10, <1>11, <1>13
  <2>. QED
    BY <2>1, <2>2, <1>5
<1>17. ASSUME NEW l \in 0..(h - 1), NEW m \in 0..(h - 1), NEW e \in held'[0][l] \cap held'[0][m]
       PROVE  l = m
  <2>1. (e \in held[0][l] \/ e \in held[0][l + h]) /\ (e \in held[0][m] \/ e \in held[0][m + h])
    BY <1>11
  <2>2. l = m \/ l = m + h \/ l + h = m \/ l + h = m + h
    BY <2>1, <1>10, <1>13
  <2>. QED
    BY <2>2
<1>18. SumInv'
  BY <1>1, <1>3, <1>5, <1>10, <1>12, <1>14, <1>16, <1>17 DEF SumInv
<1>19. twice' = FALSE
  <2>1. \A l \in 0..(h - 1) : l # l + h
    OBVIOUS
  <2>2. ~\E l \in 0..(h - 1) : held[0][l] \cap held[0][l + h] # {}
    BY <2>1, <1>10, <1>13
  <2>. QED
    BY <2>2, <1>7 DEF HalveRegister, KernelInv
<1>. QED
  BY <1>1, <1>3, <1>18, <1>19 DEF KernelInv, HeldInv

LEMMA SumKeeps ==
  ASSUME KernelInv, SumRegister
  PROVE  KernelInv'
<1>. DEFINE w == Code[1].lanes
            h == Instr.lanes
<1>1. /\ Reduces /\ SumInv /\ ~Finishes(Code[ip]) /\ ip \in 1..Len(Code)
      /\ Leads(Instr, Trace[ip], Trace[ip + 1], w) /\ Instr.do = "sum"
      /\ w \in Nat \ {0} /\ 0 \in 0..Total /\ DOMAIN held[0] = Lanes
  BY StepSums DEF SumRegister
<1>2. Advances
  BY <1>1 DEF SumRegister, Advances
<1>3. /\ CallInv' /\ ShareInv' /\ LoopInv'
      /\ Code' = Code /\ Trace' = Trace /\ Lanes' = Lanes /\ (Reduces' <=> Reduces)
  BY <1>1, <1>2, AdvanceLoops
<1>4. h \in 1..w /\ Trace[ip] = One(h) /\ Trace[ip + 1] = AtTotal
  BY <1>1 DEF Leads
<1>5. Trace[ip'] = AtTotal /\ visited' = visited /\ Lanes = 0..(w - 1)
  BY <1>2, <1>4 DEF Advances, Lanes
<1>6. 0..(h - 1) \subseteq Lanes /\ 0 \in Lanes /\ Total \in 0..Total
  BY <1>1, <1>4, <1>5 DEF Total
<1>7. held' = [held EXCEPT ![Total] = [held[Total] EXCEPT ![0] = UNION {held[0][l] : l \in 0..(h - 1)}]]
  BY DEF SumRegister
<1>8. ~(\E l, m \in 0..(h - 1) : l # m /\ held[0][l] \cap held[0][m] # {}) => twice' = twice
  BY DEF SumRegister, KernelInv
<1>. HIDE DEF w, h
<1>9. held \in [0..Total -> [Lanes -> SUBSET Nat]]
  BY <1>1 DEF SumInv
<1>10. held'[Total][0] = UNION {held[0][l] : l \in 0..(h - 1)}
  BY <1>6, <1>7, <1>9
<1>11. \A a \in 0..Total, l \in Lanes :
         /\ Live(One(h), a, l) <=> a = 0 /\ l \in 0..(h - 1)
         /\ Live(AtTotal, a, l) <=> a = Total /\ l = 0
  BY DEF Live, One, AtTotal
<1>12. /\ \A e : e \in visited <=> \E l \in 0..(h - 1) : e \in held[0][l]
       /\ \A l, m \in 0..(h - 1) : \A e \in held[0][l] \cap held[0][m] : l = m
  <2>2. /\ \A e : e \in visited <=> \E a \in 0..Total, l \in Lanes :
                                     Live(One(h), a, l) /\ e \in held[a][l]
        /\ \A a, b \in 0..Total, l, m \in Lanes :
             \A e \in held[a][l] \cap held[b][m] :
               Live(One(h), a, l) /\ Live(One(h), b, m) => a = b /\ l = m
    BY <1>1, <1>4 DEF SumInv
  <2>3. \A e : e \in visited <=> \E l \in 0..(h - 1) : e \in held[0][l]
    BY <1>1, <1>6, <1>11, <2>2
  <2>4. ASSUME NEW l \in 0..(h - 1), NEW m \in 0..(h - 1), NEW e \in held[0][l] \cap held[0][m]
        PROVE  l = m
    BY <1>1, <1>6, <1>11, <2>2
  <2>. QED
    BY <2>3, <2>4
<1>13. held' \in [0..Total -> [Lanes -> SUBSET Nat]]
  <2>1. UNION {held[0][l] : l \in 0..(h - 1)} \in SUBSET Nat
    BY <1>1, <1>6, <1>9
  <2>2. [held[Total] EXCEPT ![0] = UNION {held[0][l] : l \in 0..(h - 1)}] \in [Lanes -> SUBSET Nat]
    BY <2>1, <1>6, <1>9
  <2>. QED
    BY <2>2, <1>7, <1>9
<1>14. \A e : e \in visited' <=> e \in held'[Total][0]
  BY <1>5, <1>10, <1>12
<1>15. SumInv'
  BY <1>3, <1>5, <1>6, <1>11, <1>13, <1>14 DEF SumInv
<1>16. twice' = FALSE
  BY <1>8, <1>12 DEF KernelInv
<1>. QED
  BY <1>1, <1>3, <1>15, <1>16 DEF KernelInv, HeldInv

-----------------------------------------------------------------------------
(* The shares.  partition_size gives no share more than is left, and the    *)
(* last one all of it.                                                      *)
LEMMA ShareOfRest ==
  ASSUME NEW left \in Nat, NEW t \in Nat \ {0}
  PROVE  partition_size(left, t) \in 0..left /\ (t = 1 => partition_size(left, t) = left)
<1>. DEFINE q == (left + t - 1) \div t
<1>1. q \in Nat /\ q * t <= left + t - 1
  OBVIOUS
<1>2. q <= left
  <2>1. SUFFICES ASSUME left + 1 <= q
                 PROVE  FALSE
    BY <1>1
  <2>. HIDE DEF q
  <2>2. PICK d \in Nat : q = left + 1 + d
    BY <1>1, <2>1
  <2>3. q * t = left * t + t + d * t
    BY <2>2
  <2>4. left * t >= left
    <3>1. PICK u \in Nat : t = 1 + u
      OBVIOUS
    <3>2. left * t = left + left * u /\ left * u \in Nat
      BY <3>1
    <3>. QED
      BY <3>2
  <2>5. d * t \in Nat /\ left * t \in Nat
    BY <2>2
  <2>. QED
    BY <1>1, <2>3, <2>4, <2>5
<1>3. t = 1 => q = left
  OBVIOUS
<1>. QED
  BY <1>1, <1>2, <1>3 DEF partition_size

LEMMA AccumulatorsAre ==
  ASSUME NEW k, CodeShape(k.code), k.code[1].lanes \in Nat \ {0}
  PROVE  Accumulators(k) =
           IF Drivers[k.routine].result
           THEN [a \in 0..Total |-> [l \in 0..(k.code[1].lanes - 1) |-> {}]]
           ELSE <<>>
<1>. DEFINE loops == {k.code[j] : j \in {c \in DOMAIN k.code : k.code[c].do = "loop"}}
            width == CHOOSE w \in {l.lanes : l \in loops} : \A l \in loops : l.lanes <= w
            w1    == k.code[1].lanes
<1>1. k.code[1] \in loops
  BY DEF CodeShape, IsLoop
<1>2. \A l \in loops : l.lanes <= w1 /\ l.lanes \in Nat
  BY DEF CodeShape, IsLoop, LoopOK
<1>3. w1 \in {l.lanes : l \in loops}
  BY <1>1
<1>. HIDE DEF loops
<1>4. width \in {l.lanes : l \in loops} /\ \A l \in loops : l.lanes <= width
  BY <1>2, <1>3
<1>5. width = w1
  <2>1. PICK l \in loops : width = l.lanes
    BY <1>4
  <2>2. width <= w1 /\ w1 <= width /\ width \in Nat
    BY <1>1, <1>2, <1>4, <2>1
  <2>. QED
    BY <2>2
<1>. QED
  BY <1>5 DEF Accumulators, loops

(* A kernel begins its share with nothing taken and nothing summed. *)
LEMMA FreshShare ==
  ASSUME CallInv', size' \in Nat, ip' = 1, i' = 0, visited' = {},
         held' = Accumulators(call'.kernel)
  PROVE  LoopInv' /\ HeldInv'
<1>. DEFINE k == call'.kernel
<1>1. KernelOK(k, call'.routine) /\ k.routine = call'.routine
  BY DEF CallInv, KernelOK
<1>2. /\ CodeShape(k.code) /\ k.code[1].lanes \in Nat \ {0}
      /\ k.code[1].step \in Nat \ {0}
      /\ Len(k.code) \in Nat \ {0}
  BY <1>1, KernelFacts
<1>3. Code' = k.code /\ Lanes' = 0..(k.code[1].lanes - 1)
  BY DEF Code, Lanes
<1>4. Reduces' <=> Drivers[k.routine].result
  BY <1>1 DEF Reduces
<1>5. Accumulators(k) =
         IF Drivers[k.routine].result
         THEN [a \in 0..Total |-> [l \in 0..(k.code[1].lanes - 1) |-> {}]]
         ELSE <<>>
  BY <1>2, AccumulatorsAre
<1>. HIDE DEF k
<1>6. LoopInv'
  <2>1. visited' = 0..(i' - 1) /\ i' \in 0..size' /\ 0 \in Nat
                               /\ i' = 0 * k.code[1].step
    BY <1>2
  <2>2. ip' \in 1..(Len(k.code) + 1) /\ \A j \in 1..Len(k.code) : ~(j < ip')
    BY <1>2
  <2>. QED
    BY <1>3, <2>1, <2>2 DEF LoopInv
<1>7. HeldInv'
  <2>1. CASE Drivers[k.routine].result
    <3>1. held' = [a \in 0..Total |-> [l \in Lanes' |-> {}]]
      BY <1>3, <1>5, <2>1 DEF k
    <3>2. SumInv'
      BY <3>1 DEF SumInv
    <3>. QED
      BY <3>2, <1>4, <2>1 DEF HeldInv
  <2>2. CASE ~Drivers[k.routine].result
    BY <1>4, <1>5, <2>2 DEF HeldInv, k
  <2>. QED
    BY <2>1, <2>2
<1>. QED
  BY <1>6, <1>7

-----------------------------------------------------------------------------
(* The results of the shares that are done. *)
Position(c, e) == <<e * c.incx, e * c.incy>>
Stretch(c, m)  == {Position(c, e) : e \in 0..(m - 1)}

Count   == IF pc = "kernel" THEN part - 1 ELSE call.threads
Reached == IF pc = "kernel" THEN start ELSE call.n
Results == [places : SUBSET (Int \X Int), terms : SUBSET (Int \X Int), rooted : BOOLEAN]

ResultsInv ==
  /\ results \in Seq(Results) /\ Len(results) = Count
  /\ UNION {results[q].places : q \in 1..Len(results)} = Stretch(call, Reached)
  /\ \A q, r \in 1..Len(results) :
       q # r => results[q].places \cap results[r].places = {}
  /\ Reduces => \A q \in 1..Len(results) : results[q].terms = results[q].places
  /\ \A q \in 1..Len(results) : results[q].rooted <=> call.routine \in Norms

Inv ==
  /\ pc \in {"idle", "kernel", "done"}
  /\ pc = "idle" => ip = 1 /\ i = 0 /\ visited = {} /\ twice = FALSE /\ results = <<>>
  /\ pc = "kernel" => KernelInv /\ ResultsInv
  /\ pc = "done" => /\ CallInv /\ ResultsInv
                    /\ ip = 1 /\ i = 0 /\ visited = {} /\ twice = FALSE

LEMMA CallStarts ==
  ASSUME Inv, AnyCall
  PROVE  Inv'
<1>1. PICK host \in Hosts, r \in Routines :
        \E incx \in StridesOf(r, 1), incy \in StridesOf(r, 2) : Call(r, host, incx, incy)
  BY DEF AnyCall
<1>2. PICK incx \in StridesOf(r, 1), incy \in StridesOf(r, 2) : Call(r, host, incx, incy)
  BY <1>1
<1>. DEFINE k == Chosen(r, host.features, incx, incy)
<1>3. r \in DOMAIN Drivers
  BY Level1Assumption, DriverFacts DEF Level1Assumption
<1>4. /\ KernelOK(k, r)
      /\ k.strides = "unit" =>
           /\ Drivers[r].operands >= 1 => incx = 1
           /\ Drivers[r].operands = 2 => incy = 1
  BY <1>3, ChosenRight
<1>5. /\ incx \in Nat \ {0} /\ incy \in Nat \ {0}
      /\ k.strides = "unit" => incx = 1 /\ incy = 1
  <2>1. Drivers[r].operands \in 0..2
    BY <1>3, DriverFacts
  <2>2. /\ Drivers[r].operands < 1 => incx = 1
        /\ Drivers[r].operands < 2 => incy = 1
        /\ incx \in {1} \cup Strides /\ incy \in {1} \cup Strides
    BY <1>2 DEF StridesOf
  <2>3. Strides \subseteq Nat \ {0}
    BY Level1Assumption DEF Level1Assumption
  <2>4. incx \in Nat \ {0} /\ incy \in Nat \ {0}
    BY <2>2, <2>3
  <2>. HIDE DEF k
  <2>5. ASSUME k.strides = "unit"
        PROVE  incx = 1 /\ incy = 1
    <3>1. /\ Drivers[r].operands >= 1 => incx = 1
          /\ Drivers[r].operands = 2 => incy = 1
      BY <1>4, <2>5
    <3>2. /\ Drivers[r].operands >= 1 \/ Drivers[r].operands < 1
          /\ Drivers[r].operands = 2 \/ Drivers[r].operands < 2
      BY <2>1
    <3>. QED
      BY <3>1, <3>2, <2>2
  <2>. QED
    BY <2>4, <2>5
<1>. HIDE DEF k
<1>6. PICK n \in Lengths(k), t \in Threads, above \in BOOLEAN :
        LET mt     == Drivers[r].threaded /\ above /\ t > 1
            shares == IF mt THEN t ELSE 1
        IN  /\ call' = [routine |-> r, n |-> n, incx |-> incx, incy |-> incy,
                        kernel |-> k, threads |-> shares, runs |-> host.runs]
            /\ held' = Accumulators(k)
            /\ part' = 1 /\ start' = 0 /\ size' = partition_size(n, shares)
            /\ pc' = "kernel"
            /\ UNCHANGED <<ip, i, visited, twice, results>>
  BY <1>2 DEF Call, k
<1>. DEFINE mt     == Drivers[r].threaded /\ above /\ t > 1
            shares == IF mt THEN t ELSE 1
<1>7. n \in Nat \ {0}
  <2>1. k.code[1].step \in Nat
    BY <1>4, KernelFacts
  <2>2. (Rounds + 1) * k.code[1].step + 3 \in Int
    BY <2>1, Level1Assumption DEF Level1Assumption
  <2>. QED
    BY <2>2 DEF Lengths
<1>8. shares \in Nat \ {0}
  BY Level1Assumption DEF Level1Assumption
<1>. HIDE DEF shares, mt
<1>9. /\ call' = [routine |-> r, n |-> n, incx |-> incx, incy |-> incy,
                  kernel |-> k, threads |-> shares, runs |-> host.runs]
      /\ held' = Accumulators(k)
      /\ part' = 1 /\ start' = 0 /\ size' = partition_size(n, shares)
      /\ pc' = "kernel"
      /\ UNCHANGED <<ip, i, visited, twice, results>>
  BY <1>6 DEF shares, mt
<1>10. ip' = 1 /\ i' = 0 /\ visited' = {} /\ twice' = FALSE /\ results' = <<>>
  BY <1>9 DEF Inv, AnyCall
<1>11. CallInv'
  BY <1>3, <1>4, <1>5, <1>7, <1>8, <1>9 DEF CallInv
<1>12. size' \in 0..n /\ (shares = 1 => size' = n)
  BY <1>7, <1>8, <1>9, ShareOfRest
<1>13. ShareInv'
  BY <1>7, <1>8, <1>9, <1>12 DEF ShareInv
<1>14. held' = Accumulators(call'.kernel)
  BY <1>9
<1>15. LoopInv' /\ HeldInv'
  BY <1>10, <1>11, <1>12, <1>14, FreshShare
<1>16. ResultsInv'
  <2>1. results' \in Seq(Results) /\ Len(results') = 0 /\ Count' = 0
                                  /\ Reached' = 0
    BY <1>9, <1>10 DEF Count, Reached
  <2>2. Stretch(call', 0) = {}
    BY DEF Stretch
  <2>. QED
    BY <2>1, <2>2 DEF ResultsInv
<1>. QED
  BY <1>9, <1>10, <1>11, <1>13, <1>15, <1>16 DEF Inv, KernelInv

LEMMA PositionsDiffer ==
  ASSUME CallInv, NEW d \in Int, NEW e \in Int, Position(call, d) = Position(call, e)
  PROVE  d = e
<1>. DEFINE x == call.incx
<1>1. x \in Nat \ {0} /\ d * x = e * x
  BY DEF CallInv, Position
<1>. HIDE DEF x
<1>2. (d - e) * x = 0
  BY <1>1
<1>. QED
  BY <1>1, <1>2

LEMMA ShareOutcome ==
  ASSUME KernelInv, ip > Len(Code)
  PROVE  /\ Outcome \in Results
         /\ Outcome.places = {Position(call, e) : e \in start..(start + size - 1)}
         /\ Reduces => Outcome.terms = Outcome.places
         /\ Outcome.rooted <=> call.routine \in Norms
<1>1. CallInv /\ CodeShape(Code) /\ LoopInv /\ HeldInv /\ ShareInv
  BY CodeFacts DEF KernelInv
<1>2. ip = Len(Code) + 1
  BY <1>1 DEF LoopInv, CodeShape
<1>3. i = size
  BY <1>1, <1>2 DEF LoopInv, CodeShape
<1>4. visited = 0..(size - 1) /\ size \in Nat /\ start \in Nat
  BY <1>1, <1>3 DEF LoopInv, ShareInv
<1>5. \A e \in Int : Place(e) = Position(call, start + e) /\ Place(e) \in Int \X Int
  <2>1. /\ call.incx \in Nat /\ call.incy \in Nat
        /\ call.kernel.strides = "unit" => call.incx = 1 /\ call.incy = 1
    BY <1>1 DEF CallInv
  <2>2. ASSUME NEW e \in Int
        PROVE  Place(e) = <<start * call.incx + e * call.incx,
                            start * call.incy + e * call.incy>>
    BY <2>1 DEF Place
  <2>3. ASSUME NEW e \in Int
        PROVE  start + e \in Int /\ Place(e) = Position(call, start + e)
    <3>. DEFINE x == call.incx
                y == call.incy
    <3>1. x \in Int /\ y \in Int /\ start \in Int
      BY <2>1, <1>4
    <3>2. Place(e) = <<start * x + e * x, start * y + e * y>>
      BY <2>2
    <3>3. Position(call, start + e) = <<(start + e) * x, (start + e) * y>>
      BY DEF Position
    <3>. HIDE DEF x, y
    <3>4. start * x + e * x = (start + e) * x /\ start * y + e * y = (start + e) * y
      BY <3>1
    <3>. QED
      BY <3>1, <3>2, <3>3, <3>4
  <2>4. \A d, inc \in Int : d * inc \in Int
    OBVIOUS
  <2>5. \A e \in Int : Position(call, e) \in Int \X Int
    BY <2>1, <2>4 DEF Position
  <2>. QED
    BY <2>3, <2>5
<1>6. Reduces => held # <<>> /\ held[Total][0] = visited
  <2>1. SUFFICES ASSUME Reduces
                 PROVE  held # <<>> /\ held[Total][0] = visited
    OBVIOUS
  <2>2. SumInv /\ Trace[ip] = AtTotal /\ 0 \in Lanes /\ Total \in 0..Total
    BY <1>1, <1>2, <2>1, CodeFacts DEF HeldInv, Traced, Total
  <2>3. \A e : e \in visited <=> \E a \in 0..Total, l \in Lanes :
                                   Live(AtTotal, a, l) /\ e \in held[a][l]
    BY <2>2 DEF SumInv
  <2>4. \A a, l : Live(AtTotal, a, l) <=> a = Total /\ l = 0
    BY DEF Live, AtTotal
  <2>5. \A e : e \in visited <=> e \in held[Total][0]
    BY <2>2, <2>3, <2>4
  <2>6. DOMAIN held = 0..Total /\ DOMAIN <<>> = {}
    BY <2>2 DEF SumInv
  <2>7. held[Total][0] \in SUBSET Nat /\ visited \in SUBSET Nat
    BY <2>2, <1>4 DEF SumInv
  <2>. QED
    BY <2>2, <2>5, <2>6, <2>7
<1>7. ~Reduces => held = <<>>
  BY <1>1 DEF HeldInv
<1>8. /\ Outcome.places = {Place(e) : e \in visited}
      /\ Outcome.terms = IF held = <<>> THEN {} ELSE {Place(e) : e \in held[Total][0]}
      /\ Outcome.rooted = Rooted
  BY DEF Outcome
<1>9. Reduces => Outcome.terms = Outcome.places
  BY <1>6, <1>8
<1>10. Outcome.places = {Position(call, e) : e \in start..(start + size - 1)}
  <2>1. ASSUME NEW e \in 0..(size - 1)
        PROVE  Place(e) = Position(call, start + e) /\ start + e \in start..(start + size - 1)
    BY <1>4, <1>5
  <2>2. ASSUME NEW e \in start..(start + size - 1)
        PROVE  e - start \in 0..(size - 1) /\ Position(call, e) = Place(e - start)
    <3>1. e - start \in 0..(size - 1) /\ start + (e - start) = e
      BY <1>4
    <3>. QED
      BY <3>1, <1>5
  <2>. QED
    BY <1>4, <1>8, <2>1, <2>2
<1>11. Rooted <=> call.routine \in Norms
  BY <1>1 DEF Rooted, CallInv, KernelOK, HasRoot
<1>12. Outcome \in Results
  <2>1. Outcome.places \in SUBSET (Int \X Int)
    BY <1>4, <1>5, <1>8
  <2>2. Outcome.terms \in SUBSET (Int \X Int)
    BY <1>6, <1>7, <1>8, <2>1
  <2>3. Rooted \in BOOLEAN
    BY DEF Rooted
  <2>. QED
    BY <2>1, <2>2, <2>3, <1>8 DEF Outcome, Results
<1>. QED
  BY <1>8, <1>9, <1>10, <1>11, <1>12

LEMMA ReturnKeeps ==
  ASSUME Inv, KernelReturn
  PROVE  Inv'
<1>. DEFINE m == Len(results)
            new == start + size
<1>1. pc = "kernel" /\ KernelInv /\ ResultsInv /\ ip > Len(Code) /\ call' = call
  BY DEF KernelReturn, Inv, Code
<1>2. CallInv /\ ShareInv /\ CallInv' /\ (Reduces' <=> Reduces) /\ twice' = FALSE
  BY <1>1, SameCall DEF KernelInv, KernelReturn
<1>3. /\ Outcome \in Results
      /\ Outcome.places = {Position(call, e) : e \in start..(start + size - 1)}
      /\ Reduces => Outcome.terms = Outcome.places
      /\ Outcome.rooted <=> call.routine \in Norms
  BY <1>1, ShareOutcome
<1>4. /\ results \in Seq(Results) /\ m = part - 1 /\ m \in Nat
      /\ UNION {results[q].places : q \in 1..m} = Stretch(call, start)
  BY <1>1 DEF ResultsInv, Count, Reached
<1>5. results' = Append(results, Outcome)
  BY DEF KernelReturn
<1>. DEFINE out == Outcome
<1>. HIDE DEF m, out
<1>6. /\ results' \in Seq(Results) /\ Len(results') = m + 1
      /\ 1..(m + 1) = 1..m \cup {m + 1}
      /\ \A q \in 1..m : results'[q] = results[q]
      /\ results'[m + 1] = out
  BY <1>3, <1>4, <1>5 DEF m, out
<1>7. /\ start \in Nat /\ size \in Nat /\ part \in 1..call.threads
      /\ call.threads \in Nat
      /\ new <= call.n /\ call.n \in Nat /\ (part = call.threads => new = call.n)
  BY <1>2 DEF ShareInv, CallInv
<1>8. Stretch(call, new) = Stretch(call, start) \cup out.places
  <2>1. 0..(new - 1) = 0..(start - 1) \cup start..(start + size - 1)
    BY <1>7
  <2>. QED
    BY <2>1, <1>3 DEF Stretch, out
<1>9. Stretch(call, start) \cap out.places = {}
  <2>1. SUFFICES ASSUME NEW d \in 0..(start - 1), NEW e \in start..(start + size - 1),
                        Position(call, d) = Position(call, e)
                 PROVE  FALSE
    BY <1>3 DEF Stretch, out
  <2>2. d = e
    BY <1>2, <2>1, PositionsDiffer
  <2>. QED
    BY <2>2, <1>7
<1>10. UNION {results'[q].places : q \in 1..(m + 1)} = Stretch(call, new)
  <2>1. UNION {results'[q].places : q \in 1..(m + 1)}
          = (UNION {results[q].places : q \in 1..m}) \cup out.places
    BY <1>6
  <2>. QED
    BY <2>1, <1>4, <1>8
<1>11. ASSUME NEW q \in 1..(m + 1), NEW r \in 1..(m + 1), q # r
       PROVE  results'[q].places \cap results'[r].places = {}
  <2>1. \A s \in 1..m : results[s].places \subseteq Stretch(call, start)
    BY <1>4
  <2>2. CASE q \in 1..m /\ r \in 1..m
    BY <2>2, <1>1, <1>6, <1>11 DEF ResultsInv, m
  <2>3. CASE q = m + 1 /\ r \in 1..m
    BY <2>1, <2>3, <1>6, <1>9
  <2>4. CASE q \in 1..m /\ r = m + 1
    BY <2>1, <2>4, <1>6, <1>9
  <2>. QED
    BY <2>2, <2>3, <2>4, <1>6, <1>11
<1>12. /\ Reduces => \A q \in 1..(m + 1) : results'[q].terms = results'[q].places
       /\ \A q \in 1..(m + 1) : results'[q].rooted <=> call.routine \in Norms
  BY <1>1, <1>3, <1>6 DEF ResultsInv, m, out
<1>13. ASSUME Len(results') = Count', Stretch(call, new) = Stretch(call, Reached')
       PROVE  ResultsInv'
  BY <1>1, <1>2, <1>6, <1>10, <1>11, <1>12, <1>13 DEF ResultsInv
<1>14. ip' = 1 /\ i' = 0 /\ visited' = {} /\ held' = Accumulators(call'.kernel)
  BY <1>1 DEF KernelReturn
<1>15. CASE part < call.threads
  <2>1. /\ pc' = "kernel" /\ part' = part + 1 /\ start' = new
        /\ size' = partition_size(call.n - new, call.threads - part)
    BY <1>1, <1>15 DEF KernelReturn
  <2>2. call.n - new \in Nat /\ call.threads - part \in Nat \ {0}
    BY <1>7, <1>15
  <2>3. size' \in 0..(call.n - new) /\ (call.threads - part = 1 => size' = call.n - new)
    BY <2>1, <2>2, ShareOfRest
  <2>4. ShareInv'
    BY <1>1, <1>7, <1>15, <2>1, <2>2, <2>3 DEF ShareInv
  <2>5. LoopInv' /\ HeldInv'
    BY <1>2, <1>14, <2>2, <2>3, FreshShare
  <2>6. ResultsInv'
    BY <1>4, <1>6, <1>7, <1>13, <2>1 DEF Count, Reached
  <2>. QED
    BY <1>2, <2>1, <2>4, <2>5, <2>6 DEF Inv, KernelInv
<1>16. CASE part = call.threads
  <2>1. pc' = "done"
    BY <1>7, <1>16 DEF KernelReturn
  <2>2. ResultsInv'
    BY <1>1, <1>4, <1>6, <1>7, <1>13, <1>16, <2>1 DEF Count, Reached
  <2>. QED
    BY <1>2, <1>14, <2>1, <2>2 DEF Inv
<1>. QED
  BY <1>7, <1>15, <1>16

(* The invariant of the specification. *)
THEOREM Level1Invariant == Spec => []Inv
<1>1. Init => Inv
  BY DEF Init, Inv
<1>2. Inv /\ [Next]_vars => Inv'
  <2>. SUFFICES ASSUME Inv, [Next]_vars
                PROVE  Inv'
    OBVIOUS
  <2>1. CASE AnyCall
    BY <2>1, CallStarts
  <2>2. ASSUME KernelInv', pc = "kernel",
               UNCHANGED <<pc, call, part, start, results>>
        PROVE  Inv'
    <3>1. ResultsInv'
      BY <2>2 DEF Inv, ResultsInv, Count, Reached, Stretch, Position, Reduces
    <3>. QED
      BY <2>2, <3>1 DEF Inv
  <2>3. CASE Iterate
    BY <2>2, <2>3, IterateKeeps DEF Inv, Iterate, InKernel
  <2>4. CASE LeaveLoop
    BY <2>2, <2>4, LeaveLoopKeeps DEF Inv, LeaveLoop, InKernel
  <2>5. CASE AddAccumulators
    BY <2>2, <2>5, AddKeeps DEF Inv, AddAccumulators, InKernel
  <2>6. CASE HalveRegister
    BY <2>2, <2>6, HalveKeeps DEF Inv, HalveRegister, InKernel
  <2>7. CASE SumRegister
    BY <2>2, <2>7, SumKeeps DEF Inv, SumRegister, InKernel
  <2>8. CASE TakeRoot
    BY <2>2, <2>8, TakeRootKeeps DEF Inv, TakeRoot, InKernel
  <2>9. CASE KernelReturn
    BY <2>9, ReturnKeeps
  <2>10. CASE Return
    BY <2>10 DEF Return, Inv
  <2>11. CASE UNCHANGED vars
    <3>1. UNCHANGED <<pc, call, part, start, size, ip, i, visited, twice,
                      held, results>>
      BY <2>11 DEF vars
    <3>2. Code' = Code /\ Trace' = Trace /\ Lanes' = Lanes /\ (Reduces' <=> Reduces)
      BY <3>1 DEF Code, Trace, Lanes, Reduces
    <3>3. CallInv' <=> CallInv
      BY <3>1 DEF CallInv
    <3>4. ShareInv' <=> ShareInv
      BY <3>1 DEF ShareInv
    <3>5. LoopInv' <=> LoopInv
      BY <3>1, <3>2 DEF LoopInv
    <3>6. HeldInv' <=> HeldInv
      BY <3>1, <3>2 DEF HeldInv, SumInv
    <3>7. ResultsInv' <=> ResultsInv
      BY <3>1, <3>2 DEF ResultsInv, Count, Reached
    <3>. QED
      BY <3>1, <3>3, <3>4, <3>5, <3>6, <3>7 DEF Inv, KernelInv
  <2>. QED
    BY <2>1, <2>3, <2>4, <2>5, <2>6, <2>7, <2>8, <2>9, <2>10, <2>11 DEF Next
<1>. QED
  BY <1>1, <1>2, PTL DEF Spec

(* InBounds (Level1): no kernel reads or writes behind the end of its       *)
(* share, whatever the length and the number of threads.                    *)
THEOREM SharesStayInBounds == Spec => []InBounds
<1>1. Inv => InBounds
  BY DEF Inv, KernelInv, LoopInv, ShareInv, InBounds
<1>. QED
  BY <1>1, Level1Invariant, PTL

(* EachElementOnce (Level1): when a call returns every element has been     *)
(* processed once, at the place its stride gives it, by one share.          *)
THEOREM ElementsOnce == Spec => []EachElementOnce
<1>1. Inv => EachElementOnce
  <2>. SUFFICES ASSUME Inv, pc = "done"
                PROVE  /\ ~twice
                       /\ UNION {results[r].places : r \in DOMAIN results} = Whole
                       /\ \A q, r \in DOMAIN results :
                            q # r => results[q].places \cap results[r].places = {}
    BY DEF EachElementOnce
  <2>1. ResultsInv /\ twice = FALSE /\ DOMAIN results = 1..Len(results)
    BY DEF Inv, ResultsInv
  <2>2. Stretch(call, Reached) = Whole
    BY DEF Reached, Stretch, Position, Whole
  <2>. QED
    BY <2>1, <2>2 DEF ResultsInv
<1>. QED
  BY <1>1, Level1Invariant, PTL

(* SumsEverything (Level1): a reduction has added up each element once, no  *)
(* summand is left in a lane or added again, and only a norm takes the      *)
(* root.                                                                    *)
THEOREM ReductionsSumEverything == Spec => []SumsEverything
<1>1. Inv => SumsEverything
  <2>. SUFFICES ASSUME Inv, pc = "done", Drivers[call.routine].result
                PROVE  /\ ~twice
                       /\ UNION {results[r].terms : r \in DOMAIN results} = Whole
                       /\ \A q, r \in DOMAIN results :
                            q # r => results[q].terms \cap results[r].terms = {}
                       /\ \A r \in DOMAIN results : results[r].rooted <=> call.routine \in Norms
    BY DEF SumsEverything
  <2>1. ResultsInv /\ twice = FALSE /\ DOMAIN results = 1..Len(results)
    BY DEF Inv, ResultsInv
  <2>2. Stretch(call, Reached) = Whole
    BY DEF Reached, Stretch, Position, Whole
  <2>3. \A q \in 1..Len(results) : results[q].terms = results[q].places
    BY <2>1 DEF ResultsInv, Reduces
  <2>. QED
    BY <2>1, <2>2, <2>3 DEF ResultsInv
<1>. QED
  BY <1>1, Level1Invariant, PTL
===========================================================================

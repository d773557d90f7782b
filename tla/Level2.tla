------------------------------- MODULE Level2 -------------------------------
(****************************************************************************)
(* Calls of cblas_?gemv and cblas_?ger: the driver turns layout and         *)
(* transposition into one of two forms over the stored matrix, splits rows  *)
(* or columns among the threads, and the kernel walks its share by passes   *)
(* and column loops.  The products that reach the result are recorded by    *)
(* the addresses of their three operands.                                   *)
(*                                                                          *)
(* The stored matrix has rows and columns; one operand vector runs along    *)
(* the rows, the other along the columns.  Shares run one after the other:  *)
(* they write disjoint parts of the result.                                 *)
(****************************************************************************)
EXTENDS MatrixKernels, FiniteSets

CONSTANTS
  Routines,   \* those that are called
  Cpus, Systems,
  Ms, Ns,     \* numbers of rows and columns of A as the caller gives them
  Pads,       \* lda beyond its minimum
  Strides,    \* incx and incy
  Threads,
  GEMV_T_BLOCK,              \* columns of a block of the axpy form
  GER_BLOCK_SIZE,            \* rows of a block of the plain GER loops
  CBLAS_GEMV_T_MT_MIN_COLS   \* columns that make the axpy form worth a split

ASSUME Level2Assumption ==
  /\ Routines \subseteq {"sgemv", "dgemv", "sger", "dger"}
  /\ Ms \subseteq Nat \ {0} /\ Ns \subseteq Nat \ {0} /\ Pads \subseteq Nat
  /\ Strides \subseteq Nat \ {0} /\ Threads \subseteq Nat \ {0}
  /\ GEMV_T_BLOCK \in Nat \ {0} /\ GER_BLOCK_SIZE \in Nat \ {0}

VARIABLES
  pc,       \* "idle", "enter", "sweep", "return" or "done"
  call,     \* the caller's arguments and what the driver made of them
  part,     \* the share that is being processed
  args,     \* its m rows and n columns and where they start
  block,    \* the cache block: rows r0..r1-1 and columns c0..c1-1
  pass, row, loop, col,   \* where the kernel is
  held,     \* products in registers (dot form)
  added,    \* products that reached the result
  scaled,   \* addresses of y that were multiplied by beta or cleared
  again,    \* one of them a second time, or after something was added
  unset     \* y was read for beta = 0 before it was cleared

walk == <<block, pass, row, loop, col>>
vars == <<pc, call, part, args, walk, held, added, scaled, again, unset>>

Min2(a, b) == IF a < b THEN a ELSE b
CeilDiv(a, b) == (a + b - 1) \div b

Hosts == {Host(cpu, os) : cpu \in Cpus, os \in Systems}

Gemv == {"sgemv", "dgemv"}

(* 64 / element_size *)
Align(routine) == IF routine \in {"sgemv", "sger"} THEN 16 ELSE 8

-----------------------------------------------------------------------------
(* The drivers. *)

\* Mutant: the layout is not looked at.
DotFormByTrans(layout, trans) == trans = "no"

(* A row-major transposed A is a column-major A and vice versa. *)
DotForm(layout, trans) ==
  (trans = "no" /\ layout = "row") \/ (trans = "yes" /\ layout = "col")

(* The caller's arguments and what the driver makes of them. *)
Driven(c, kernel, rows, cols, ld, along, split, threads) ==
  [routine |-> c.routine, layout |-> c.layout, trans |-> c.trans, m |-> c.m, n |-> c.n,
   lda |-> c.lda, incx |-> c.incx, incy |-> c.incy, alpha |-> c.alpha, beta |-> c.beta,
   kernel |-> kernel, rows |-> rows, cols |-> cols, ld |-> ld, along |-> along,
   split |-> split, threads |-> threads]

(* cblas_?gemv: `above' is m * n > CBLAS_MT_GEMV. *)
GemvCall(f, c, above, t) ==
  LET dot  == DotForm(c.layout, c.trans)
      rows == IF c.layout = "row" THEN c.m ELSE c.n
      cols == IF c.layout = "row" THEN c.n ELSE c.m
      mt   == above /\ t > 1 /\ (dot \/ cols >= CBLAS_GEMV_T_MT_MIN_COLS)
      name == IF dot THEN c.routine
              ELSE IF c.routine = "sgemv" THEN "sgemv_t" ELSE "dgemv_t"
  IN  Driven(c, MatrixKernelsOf(f)[name], rows, cols, c.lda, IF dot THEN "y" ELSE "x",
             IF ~mt THEN "none" ELSE IF dot THEN "rows" ELSE "cols", IF mt THEN t ELSE 1)

(* The loops of the driver for a column-major A.  They take no stride: x, y *)
(* and the columns of A are contiguous for them (see Contiguous).           *)
ger_colmajor(routine) ==
  [Kernel(routine, "base", "ger", {}, <<Pass(1, <<Block(1)>>)>>)
     EXCEPT !.rblock = TRUE]

(* cblas_?ger: `above' is m * n > CBLAS_MT_GER. *)
GerCall(f, c, above, t) ==
  LET mt == above /\ t > 1 /\ c.layout = "row"
  IN  IF c.layout = "row"
      THEN Driven(c, MatrixKernelsOf(f)[c.routine], c.m, c.n, c.lda, "x",
                  IF mt THEN "rows" ELSE "none", IF mt THEN t ELSE 1)
      ELSE Driven(c, ger_colmajor(c.routine), c.n, c.m, c.m, "y", "none", 1)

(* The early returns. *)
Nothing(c) ==
  c.alpha = "zero" /\ (c.routine \in Gemv => c.beta = "one")

-----------------------------------------------------------------------------
(* The dispatcher.  Rows evenly over the threads left; columns in widths of *)
(* whole cache lines.                                                       *)
RowShare(c, p, first) ==
  [row |-> first, m |-> CeilDiv(c.rows - first, c.threads - p + 1),
   col |-> 0, n |-> c.cols]

ColumnWidth(c) ==
  LET align == Align(c.routine)
  IN  CeilDiv(CeilDiv(c.cols, c.threads), align) * align

ColumnShare(c, first) ==
  [row |-> 0, m |-> c.rows,
   col |-> first, n |-> Min2(ColumnWidth(c), c.cols - first)]

ShareFrom(c, p, row0, col0) ==
  IF c.split = "cols" THEN ColumnShare(c, col0) ELSE RowShare(c, p, row0)

Shares(c) ==
  IF c.split = "cols" THEN CeilDiv(c.cols, ColumnWidth(c)) ELSE c.threads

NoCall == [routine |-> "none", threads |-> 0]
NoArgs == [row |-> 0, m |-> 0, col |-> 0, n |-> 0]
NoBlock == [r0 |-> 0, r1 |-> 0, c0 |-> 0, c1 |-> 0]

Init ==
  /\ pc = "idle" /\ call = NoCall /\ part = 0 /\ args = NoArgs
  /\ block = NoBlock /\ pass = 1 /\ row = 0 /\ loop = 1 /\ col = 0
  /\ held = <<>> /\ added = <<>>
  /\ scaled = {} /\ again = FALSE /\ unset = FALSE

Begin(c) ==
  /\ call' = c
  /\ IF Nothing(c)
     THEN pc' = "done" /\ UNCHANGED <<part, args>>
     ELSE pc' = "enter" /\ part' = 1 /\ args' = ShareFrom(c, 1, 0, 0)
  /\ UNCHANGED <<walk, held, added, scaled, again, unset>>

(* What the input checks let through: m, n > 0, lda at least its minimum.   *)
Arguments(routine) ==
  LET Call(layout, trans, m, n, pad, incx, incy, alpha, beta) ==
        [routine |-> routine, layout |-> layout, trans |-> trans,
         m |-> m, n |-> n, lda |-> (IF layout = "row" THEN n ELSE m) + pad,
         incx |-> incx, incy |-> incy, alpha |-> alpha, beta |-> beta]
  IN  {Call(l, t, m, n, p, ix, iy, al, be) :
         l \in {"row", "col"},
         t \in IF routine \in Gemv THEN {"no", "yes"} ELSE {"no"},
         m \in Ms, n \in Ns, p \in Pads, ix \in Strides, iy \in Strides,
         al \in {"zero", "one", "other"},
         be \in IF routine \in Gemv THEN {"zero", "one", "other"} ELSE {"one"}}

cblas_gemv ==
  /\ pc = "idle"
  /\ \E r \in Routines \cap Gemv : \E host \in Hosts, c \in Arguments(r),
        above \in BOOLEAN, t \in Threads :
       Begin(GemvCall(host.features, c, above, t))

cblas_ger ==
  /\ pc = "idle"
  /\ \E r \in Routines \ Gemv : \E host \in Hosts, c \in Arguments(r),
        above \in BOOLEAN, t \in Threads :
       Begin(GerCall(host.features, c, above, t))

-----------------------------------------------------------------------------
(* The kernel on the current share. *)

K == call.kernel

(* GER's loops for a column-major A read x[row] and y[col]. *)
Contiguous == call.routine \notin Gemv /\ call.layout = "col"

RowStride == IF Contiguous THEN 1 ELSE IF call.along = "x" THEN call.incx ELSE call.incy
ColStride == IF Contiguous THEN 1 ELSE IF call.along = "x" THEN call.incy ELSE call.incx

(* The condition of the vectorised passes. *)
Fast ==
  /\ "alpha" \in K.fast => call.alpha = "one"
  /\ "row" \in K.fast => RowStride = 1
  /\ "col" \in K.fast => ColStride = 1

Passes == IF Fast THEN K.passes ELSE Plain

(* The cache block that starts at row r, column c of the share. *)
BlockFrom(r, c) ==
  [r0 |-> r,
   r1 |-> IF K.rblock /\ (Fast => K.fast = {}) /\ args.m > 2 * GER_BLOCK_SIZE
          THEN Min2(r + GER_BLOCK_SIZE, args.m) ELSE args.m,
   c0 |-> c,
   c1 |-> IF K.cblock /\ Fast THEN Min2(c + GEMV_T_BLOCK, args.n) ELSE args.n]

EnterBlock(r, c) ==
  /\ block' = BlockFrom(r, c)
  /\ row' = r /\ pass' = 1 /\ loop' = 1 /\ col' = 0

(* Products, by the addresses of a row's and a column's vector element.     *)
Along(p, q)  == p.row0 * RowStride + p.row * RowStride
                + q * (IF p.rowAs = "inc" THEN RowStride ELSE 1)
Across(p, l) == p.col0 * ColStride
                + (p.col + l) * (IF p.colAs = "inc" THEN ColStride ELSE 1)

YOf(p) == IF call.along = "y" THEN {Along(p, q) : q \in 0..(p.rows - 1)}
          ELSE {Across(p, l) : l \in 0..(p.cols - 1)}

YTouched(products) == UNION {YOf(products[j]) : j \in DOMAIN products}

\* Mutants: beta applied by every share to all of y; the stride forgotten.
ScaledPlacesAll == {l * ColStride : l \in 0..(call.cols - 1)}
ScaledPlacesUnit == {args.col * ColStride + l : l \in 0..(args.n - 1)}

(* The part of y that the axpy form scales before it adds anything. *)
ScaledPlaces == {(args.col + l) * ColStride : l \in 0..(args.n - 1)}

Scale(places) ==
  /\ scaled' = scaled \cup places
  /\ again' = (again \/ places \cap (scaled \cup YTouched(added)) # {})

Enter ==
  /\ pc = "enter"
  /\ IF K.form = "axpy" /\ call.beta # "one"
     THEN Scale(ScaledPlaces)
     ELSE UNCHANGED <<scaled, again>>
  /\ IF K.form = "axpy" /\ K.stopsAtZero /\ call.alpha = "zero"
     THEN pc' = "return" /\ UNCHANGED walk
     ELSE pc' = "sweep" /\ EnterBlock(0, 0)
  /\ UNCHANGED <<call, part, args, held, added, unset>>

(* Where a column loop leaves col, for n columns. *)
Swept(l, n) ==
  LET end == (n \div l.step) * l.step
  IN  CASE l.until = "rounded" ->
             IF col < end THEN col + CeilDiv(end - col, l.step) * l.step ELSE col
        [] l.until = "fits" ->
             IF col + l.step <= n THEN col + ((n - col) \div l.step) * l.step ELSE col
        [] l.until = "once" ->
             IF col + l.step <= n THEN col + l.step ELSE col

InPass == pc = "sweep" /\ pass <= Len(Passes) /\ row + Passes[pass].rows <= block.r1

(* One column loop over the rows of the pass. *)
SweepColumns ==
  /\ InPass /\ loop <= Len(Passes[pass].loops)
  /\ LET l   == Passes[pass].loops[loop]
         end == Swept(l, block.c1 - block.c0)
         p   == [row0 |-> args.row, row |-> row, rows |-> Passes[pass].rows,
                 rowAs |-> l.row, col0 |-> args.col, col |-> block.c0 + col,
                 cols |-> end - col, colAs |-> l.col]
     IN  /\ col' = end
         /\ IF end = col THEN UNCHANGED <<held, added, unset>>
            ELSE IF K.form = "dot"
            THEN held' = Append(held, p) /\ UNCHANGED <<added, unset>>
            ELSE /\ added' = Append(added, p)
                 /\ unset' = (unset \/ (/\ K.form = "axpy" /\ call.beta = "zero"
                                       /\ ~(YOf(p) \subseteq scaled)))
                 /\ UNCHANGED held
  /\ loop' = loop + 1
  /\ UNCHANGED <<pc, call, part, args, block, pass, row, scaled, again>>

(* The pass is over its columns: the dot form writes the rows of y. *)
StoreRows ==
  /\ InPass /\ loop > Len(Passes[pass].loops)
  /\ IF K.form = "dot"
     THEN /\ Scale({(args.row + row + q) * RowStride : q \in 0..(Passes[pass].rows - 1)})
          /\ added' = added \o held /\ held' = <<>>
          /\ unset' = (unset \/ (K.scale = "always" /\ call.beta = "zero"))
     ELSE UNCHANGED <<held, added, scaled, again, unset>>
  /\ row' = row + Passes[pass].rows /\ loop' = 1 /\ col' = 0
  /\ UNCHANGED <<pc, call, part, args, block, pass>>

NextPass ==
  /\ pc = "sweep" /\ pass <= Len(Passes) /\ ~InPass
  /\ pass' = pass + 1
  /\ UNCHANGED <<pc, call, part, args, block, row, loop, col, held, added,
                 scaled, again, unset>>

NextBlock ==
  /\ pc = "sweep" /\ pass > Len(Passes)
  /\ IF block.r1 < args.m THEN EnterBlock(block.r1, 0) /\ UNCHANGED pc
     ELSE IF block.c1 < args.n THEN EnterBlock(0, block.c1) /\ UNCHANGED pc
     ELSE pc' = "return" /\ UNCHANGED walk
  /\ UNCHANGED <<call, part, args, held, added, scaled, again, unset>>

NextShare ==
  /\ pc = "return"
  /\ IF part < Shares(call)
     THEN /\ pc' = "enter" /\ part' = part + 1
          /\ args' = ShareFrom(call, part + 1, args.row + args.m, args.col + args.n)
     ELSE pc' = "done" /\ UNCHANGED <<part, args>>
  /\ UNCHANGED <<call, walk, held, added, scaled, again, unset>>

Return ==
  /\ pc = "done"
  /\ pc' = "idle" /\ call' = NoCall /\ part' = 0 /\ args' = NoArgs
  /\ block' = NoBlock /\ pass' = 1 /\ row' = 0 /\ loop' = 1 /\ col' = 0
  /\ held' = <<>> /\ added' = <<>>
  /\ scaled' = {} /\ again' = FALSE /\ unset' = FALSE

Next ==
  \/ cblas_gemv \/ cblas_ger
  \/ Enter \/ SweepColumns \/ StoreRows \/ NextPass \/ NextBlock
  \/ NextShare \/ Return

Spec == Init /\ [][Next]_vars

-----------------------------------------------------------------------------
(* Properties. *)

(* The products as addresses in A, x and y. *)
Product(p, q, l) ==
  LET a == (p.row0 + p.row + q) * call.ld + p.col0 + p.col + l
  IN  IF call.along = "x" THEN <<a, Along(p, q), Across(p, l)>>
      ELSE <<a, Across(p, l), Along(p, q)>>

Products(p) == {Product(p, q, l) : q \in 0..(p.rows - 1), l \in 0..(p.cols - 1)}

(* Those of the operation, straight from its definition. *)
Wanted ==
  LET A(i, j) == IF call.layout = "row" THEN i * call.lda + j ELSE j * call.lda + i
      Of(i, j) == IF call.routine \notin Gemv \/ call.trans = "yes"
                  THEN <<A(i, j), i * call.incx, j * call.incy>>
                  ELSE <<A(i, j), j * call.incx, i * call.incy>>
  IN  {Of(i, j) : i \in 0..(call.m - 1), j \in 0..(call.n - 1)}

(* Every product of the operation reached the result, and no other; none a  *)
(* second time: the products of one loop are those of different rows and    *)
(* columns.                                                                 *)
Exact ==
  /\ UNION {Products(added[j]) : j \in DOMAIN added} = Wanted
  /\ \A i, j \in DOMAIN added : i < j => Products(added[i]) \cap Products(added[j]) = {}

(* y = alpha op(A) x + beta y: for every layout, transposition, stride,     *)
(* leading dimension, kernel and split among threads, each product of a row *)
(* and x is added to the right element of y exactly once.                   *)
GemvExact ==
  pc = "done" /\ call.routine \in Gemv /\ call.alpha # "zero" => Exact

(* Each element of y is multiplied by beta exactly once, and before         *)
(* anything is added to it, however the work is cut.                        *)
BetaOnce ==
  pc = "done" /\ call.routine \in Gemv /\ call.beta # "one" =>
    /\ ~again
    /\ scaled = {i * call.incy :
                   i \in 0..((IF call.trans = "no" THEN call.m ELSE call.n) - 1)}

(* beta = 0 clears y and never reads it, as it need not be set              *)
(* (kernels/gemv_k_x86.h:71).  The base kernels of the dot form multiply.   *)
BetaZeroClears ==
  pc = "done" /\ call.routine \in Gemv /\ ~Nothing(call)
    /\ ~(K.form = "dot" /\ K.isa = "base") => ~unset

UnitStrides == call.incx = 1 /\ call.incy = 1

(* A = alpha x y^T + A, on what the code supports: strides only without the *)
(* neighbouring loads of the 128-bit kernels, and a column-major A only     *)
(* with unit strides and no padding.                                        *)
GerExact ==
  pc = "done" /\ call.routine \in {"sger", "dger"} /\ call.alpha # "zero"
    /\ (\/ UnitStrides
        \/ call.layout = "row" /\ (call.alpha # "one" \/ K.isa \in {"base", "avx2", "avx512"}))
    /\ (call.layout = "col" => call.lda = call.m)
  => Exact

(* The same as cblas.h documents it: any stride, any lda >= m. *)
GerAsDocumented ==
  pc = "done" /\ call.routine \in {"sger", "dger"} /\ call.alpha # "zero" => Exact
=============================================================================

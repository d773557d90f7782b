------------------------------- MODULE Level1 -------------------------------
(****************************************************************************)
(* A call of a level-1 routine from end to end: the driver picks a kernel   *)
(* from the table the CPU detection filled, decides whether to use the      *)
(* worker threads, the kernel runs over each share, instruction by          *)
(* instruction, and the driver combines the partial results.                *)
(*                                                                          *)
(* The shares are run one after the other: they are disjoint (module        *)
(* Partition) and the hand-over to the threads is module ThreadServer's.    *)
(****************************************************************************)
EXTENDS VectorKernels, FiniteSets

CONSTANTS
  Routines,   \* the routines that are called
  Cpus,       \* processors, as the sets of flags they report
  Systems,    \* operating systems, as [osxsave, xcr0]
  Rounds,     \* a call is at most this many rounds of the first loop long
  Threads,    \* thread counts
  Strides     \* values of incx and incy

ASSUME Level1Assumption ==
  /\ Routines \subseteq DOMAIN StridedKernels
  /\ Rounds \in Nat \ {0}
  /\ Threads \subseteq Nat \ {0}
  /\ Strides \subseteq Nat \ {0}

VARIABLES
  pc,        \* "idle", "kernel" or "done"
  call,      \* routine, n, strides, kernel, shares and instructions that run
  part,      \* the share that is being processed
  start,     \* its first element
  size,      \* and its length, args->n
  ip, i,     \* instruction of the kernel and its loop counter
  visited,   \* elements of the share some loop has processed
  twice,     \* an element was processed, or a summand added, a second time
  held,      \* held[acc][lane]: the elements summed up there
  results    \* thread_partial_sums, or the single result

vars == <<pc, call, part, start, size, ip, i, visited, twice, held, results>>

-----------------------------------------------------------------------------
(* The drivers.  operands: 1 if only x has a stride.  result: the kernel    *)
(* writes a sum to args->c.  threaded: above its threshold the driver uses  *)
(* cblas_level1_exec or its _result twin.                                   *)
Driver(operands, result, threaded) ==
  [operands |-> operands, result |-> result, threaded |-> threaded]

cblas_sdot == Driver(2, TRUE, TRUE)
cblas_ddot == Driver(2, TRUE, TRUE)
cblas_snrm2 == Driver(1, TRUE, TRUE)
cblas_dnrm2 == Driver(1, TRUE, TRUE)
(* mt_used is the constant 0. *)
cblas_sasum == Driver(1, TRUE, FALSE)
cblas_dasum == Driver(1, TRUE, FALSE)
cblas_scopy == Driver(2, FALSE, TRUE)
cblas_dcopy == Driver(2, FALSE, TRUE)
cblas_sswap == Driver(2, FALSE, TRUE)
cblas_dswap == Driver(2, FALSE, TRUE)
(* Called with n, x and v only: the stride is 1. *)
cblas_ssetv == Driver(0, FALSE, TRUE)
cblas_dsetv == Driver(0, FALSE, TRUE)
(* mt_used is computed and then set to 0. *)
cblas_srot == Driver(2, FALSE, FALSE)
cblas_drot == Driver(2, FALSE, FALSE)
(* alpha = 1 returns before anything is done; that call is not one here. *)
cblas_sscal == Driver(1, FALSE, TRUE)
cblas_dscal == Driver(1, FALSE, TRUE)
cblas_saxpy == Driver(2, FALSE, TRUE)
cblas_daxpy == Driver(2, FALSE, TRUE)
cblas_saxpby == Driver(2, FALSE, TRUE)
cblas_daxpby == Driver(2, FALSE, TRUE)

Drivers == [
  sdot  |-> cblas_sdot,  ddot  |-> cblas_ddot,
  snrm2 |-> cblas_snrm2, dnrm2 |-> cblas_dnrm2,
  sasum |-> cblas_sasum, dasum |-> cblas_dasum,
  scopy |-> cblas_scopy, dcopy |-> cblas_dcopy,
  sswap |-> cblas_sswap, dswap |-> cblas_dswap,
  ssetv |-> cblas_ssetv, dsetv |-> cblas_dsetv,
  srot  |-> cblas_srot,  drot  |-> cblas_drot,
  sscal |-> cblas_sscal, dscal |-> cblas_dscal,
  saxpy |-> cblas_saxpy, daxpy |-> cblas_daxpy,
  saxpby |-> cblas_saxpby, daxpby |-> cblas_daxpby]

\* Mutant: the second stride is not looked at.
ChosenUnitX(routine, f, incx, incy) ==
  IF incx = 1 THEN UnitKernels(f)[routine] ELSE StridedKernels[routine]

(* The special case for no increments, on every stride the routine has. *)
Chosen(routine, f, incx, incy) ==
  LET d == Drivers[routine]
  IN  IF (d.operands >= 1 => incx = 1) /\ (d.operands = 2 => incy = 1)
      THEN UnitKernels(f)[routine]
      ELSE StridedKernels[routine]

(* partition_size of the dispatchers: what is left over the threads left.   *)
partition_size(left, threads) == (left + threads - 1) \div threads

Hosts == {Host(cpu, os) : cpu \in Cpus, os \in Systems}

StridesOf(routine, operand) ==
  IF Drivers[routine].operands < operand THEN {1} ELSE Strides

NoCall == [routine |-> "none", n |-> 0, incx |-> 1, incy |-> 1,
           kernel |-> Strided("none", <<>>), threads |-> 0, runs |-> {}]

(* Zeroed accumulators, as wide as the widest vector of the kernel. *)
Accumulators(k) ==
  LET loops == {k.code[j] : j \in {c \in DOMAIN k.code : k.code[c].do = "loop"}}
      width == CHOOSE w \in {l.lanes : l \in loops} : \A l \in loops : l.lanes <= w
  IN  IF Drivers[k.routine].result
      THEN [a \in 0..Total |-> [l \in 0..(width - 1) |-> {}]]
      ELSE <<>>

Init ==
  /\ pc = "idle" /\ call = NoCall
  /\ part = 0 /\ start = 0 /\ size = 0
  /\ ip = 1 /\ i = 0 /\ visited = {} /\ twice = FALSE /\ held = <<>>
  /\ results = <<>>

(* Bound on the lengths: some rounds of the first loop and every remainder. *)
Lengths(k) == 1..((Rounds + 1) * k.code[1].step + 3)

(* A driver: the host selects the kernels, the strides one of them; n is    *)
(* above the routine's threshold or not (a variable that can be set to      *)
(* anything), and t is the thread count.                                    *)
Call(routine, host, incx, incy) ==
  LET k == Chosen(routine, host.features, incx, incy)
  IN  \E n \in Lengths(k), t \in Threads, above \in BOOLEAN :
        LET mt     == Drivers[routine].threaded /\ above /\ t > 1
            shares == IF mt THEN t ELSE 1
        IN  /\ call' = [routine |-> routine, n |-> n, incx |-> incx, incy |-> incy,
                        kernel |-> k, threads |-> shares, runs |-> host.runs]
            /\ held' = Accumulators(k)
            /\ part' = 1 /\ start' = 0 /\ size' = partition_size(n, shares)
            /\ pc' = "kernel"
            /\ UNCHANGED <<ip, i, visited, twice, results>>

-----------------------------------------------------------------------------
(* The kernel on the current share. *)
Instr == call.kernel.code[ip]

InKernel(what) ==
  /\ pc = "kernel" /\ ip <= Len(call.kernel.code) /\ Instr.do = what

\* Mutants: an unrolled loop runs while its first element exists; the rounded
\* end is the next multiple.
ContinuesLoosely(loop, n) ==
  CASE loop.until = "fits"    -> i + loop.step <= n + loop.step - 1
    [] loop.until = "below"   -> i + loop.step < n
    [] loop.until = "rounded" -> i < (n \div loop.step) * loop.step

(* The condition of a for loop. *)
Continues(loop, n) ==
  CASE loop.until = "fits"    -> i + loop.step <= n
    [] loop.until = "below"   -> i + loop.step < n
    [] loop.until = "rounded" -> i < (n \div loop.step) * loop.step

Vector(loop, v) == {i + loop.at[v] + l : l \in 0..(loop.lanes - 1)}
Taken(loop)     == UNION {Vector(loop, v) : v \in DOMAIN loop.at}

(* What one iteration adds to a lane of an accumulator. *)
Lane(loop, a, l) ==
  IF l < loop.lanes
  THEN {i + loop.at[v] + l : v \in {w \in DOMAIN loop.at : loop.into[w] = a}}
  ELSE {}

(* One iteration: loads, the arithmetic, stores or accumulation, i += step. *)
Iterate ==
  /\ InKernel("loop") /\ Continues(Instr, size)
  /\ visited' = visited \cup Taken(Instr)
  /\ twice' = (twice \/ visited \cap Taken(Instr) # {})
  /\ held' = IF held = <<>> THEN held
             ELSE [a \in 0..Total |-> [l \in DOMAIN held[a] |->
                     held[a][l] \cup Lane(Instr, a, l)]]
  /\ i' = i + Instr.step
  /\ UNCHANGED <<pc, call, part, start, size, ip, results>>

LeaveLoop ==
  /\ InKernel("loop") /\ ~Continues(Instr, size)
  /\ ip' = ip + 1
  /\ UNCHANGED <<pc, call, part, start, size, i, visited, twice, held, results>>

(* (sum0 + sum1) + (sum2 + sum3), lane by lane, into the first accumulator. *)
AddAccumulators ==
  /\ InKernel("add")
  /\ held' = [held EXCEPT ![0] =
       [l \in DOMAIN @ |-> UNION {held[a][l] : a \in 0..3}]]
  /\ twice' = (twice \/ \E a, b \in 0..3, l \in DOMAIN held[0] :
                           a # b /\ held[a][l] \cap held[b][l] # {})
  /\ ip' = ip + 1
  /\ UNCHANGED <<pc, call, part, start, size, i, visited, results>>

(* The two halves of a register added: lane l takes lane l + lanes / 2.     *)
HalveRegister ==
  /\ InKernel("halve")
  /\ LET half == Instr.lanes \div 2
     IN  /\ held' = [held EXCEPT ![0] =
              [l \in DOMAIN @ |-> IF l < half THEN @[l] \cup @[l + half] ELSE {}]]
         /\ twice' = (twice \/ \E l \in 0..(half - 1) :
                                  held[0][l] \cap held[0][l + half] # {})
  /\ ip' = ip + 1
  /\ UNCHANGED <<pc, call, part, start, size, i, visited, results>>

(* The horizontal sum of the first accumulator into the scalar. *)
SumRegister ==
  /\ InKernel("sum")
  /\ LET lanes == 0..(Instr.lanes - 1)
     IN  /\ held' = [held EXCEPT ![Total][0] = UNION {held[0][l] : l \in lanes}]
         /\ twice' = (twice \/ \E l, m \in lanes :
                                  l # m /\ held[0][l] \cap held[0][m] # {})
  /\ ip' = ip + 1
  /\ UNCHANGED <<pc, call, part, start, size, i, visited, results>>

TakeRoot ==
  /\ InKernel("root")
  /\ ip' = ip + 1
  /\ UNCHANGED <<pc, call, part, start, size, i, visited, twice, held, results>>

Rooted == \E j \in DOMAIN call.kernel.code : call.kernel.code[j].do = "root"

(* Where the pointers of the kernel are after `e' elements of the share:    *)
(* the share starts start * inc in, and the kernel walks by 1 or by inc.    *)
Place(e) ==
  LET x == IF call.kernel.strides = "unit" THEN 1 ELSE call.incx
      y == IF call.kernel.strides = "unit" THEN 1 ELSE call.incy
  IN  <<start * call.incx + e * x, start * call.incy + e * y>>

(* What a share leaves behind: the places it processed and, for a sum, the  *)
(* places it added up and whether a root was taken of them.                 *)
Outcome ==
  [places |-> {Place(e) : e \in visited},
   terms  |-> IF held = <<>> THEN {} ELSE {Place(e) : e \in held[Total][0]},
   rooted |-> Rooted]

(* The kernel stored its result; the next share starts where this one ends. *)
KernelReturn ==
  /\ pc = "kernel" /\ ip > Len(call.kernel.code)
  /\ results' = Append(results, Outcome)
  /\ ip' = 1 /\ i' = 0 /\ visited' = {}
  /\ held' = Accumulators(call.kernel)
  /\ IF part < call.threads
     THEN LET next == start + size
          IN  /\ part' = part + 1 /\ start' = next
              /\ size' = partition_size(call.n - next, call.threads - part)
              /\ UNCHANGED pc
     ELSE pc' = "done" /\ UNCHANGED <<part, start, size>>
  /\ UNCHANGED <<call, twice>>

(* The driver adds up the partial results, if any, and returns. *)
Return ==
  /\ pc = "done"
  /\ pc' = "idle" /\ call' = NoCall
  /\ part' = 0 /\ start' = 0 /\ size' = 0
  /\ results' = <<>> /\ held' = <<>> /\ twice' = FALSE
  /\ UNCHANGED <<ip, i, visited>>

AnyCall ==
  /\ pc = "idle"
  /\ \E host \in Hosts, r \in Routines :
       \E incx \in StridesOf(r, 1), incy \in StridesOf(r, 2) :
         Call(r, host, incx, incy)

Next ==
  \/ AnyCall
  \/ Iterate \/ LeaveLoop
  \/ AddAccumulators \/ HalveRegister \/ SumRegister \/ TakeRoot
  \/ KernelReturn
  \/ Return

Spec == Init /\ [][Next]_vars

-----------------------------------------------------------------------------
(* Properties. *)

Norms == {"snrm2", "dnrm2"}

(* Where the elements of the operands are. *)
Whole == {<<e * call.incx, e * call.incy>> : e \in 0..(call.n - 1)}

(* No kernel reads or writes behind the end of its share, whatever the      *)
(* length leaves over for the loops after the unrolled one.                 *)
InBounds == pc = "kernel" => \A e \in visited : e < size

(* When a call returns every element of the operands has been processed     *)
(* exactly once, at the place its stride gives it: no loop repeats or skips *)
(* what another one did, the unit-stride kernels run on unit strides only,  *)
(* and the shares of the threads do not overlap.                            *)
EachElementOnce ==
  pc = "done" =>
    /\ ~twice
    /\ UNION {results[r].places : r \in DOMAIN results} = Whole
    /\ \A q, r \in DOMAIN results :
         q # r => results[q].places \cap results[r].places = {}

(* A reduction returns the sum of exactly the summands of its operands:     *)
(* none is left in an upper half, in an accumulator or in a lane, none is   *)
(* added again by a horizontal sum; the root belongs to the norms.          *)
SumsEverything ==
  pc = "done" /\ Drivers[call.routine].result =>
    /\ ~twice
    /\ UNION {results[r].terms : r \in DOMAIN results} = Whole
    /\ \A q, r \in DOMAIN results :
         q # r => results[q].terms \cap results[r].terms = {}
    /\ \A r \in DOMAIN results : results[r].rooted <=> call.routine \in Norms

(* The kernel a call ends up with is one of its own routine, and the file   *)
(* it is in holds no instruction that faults on this processor under this   *)
(* operating system.                                                        *)
KernelRuns ==
  pc = "kernel" =>
    /\ call.kernel.routine = call.routine
    /\ Needs(call.kernel.isa) \subseteq call.runs

(* The Euclidean norm is the root of the sum over the whole vector (cblas.h *)
(* on cblas_snrm2 and cblas_dnrm2).                                         *)
NormIsRootOfSum ==
  pc = "done" /\ call.routine \in Norms =>
    \E r \in DOMAIN results : results[r].rooted /\ results[r].terms = Whole
=============================================================================

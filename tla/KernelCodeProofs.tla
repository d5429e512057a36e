-------------------------- MODULE KernelCodeProofs --------------------------
(***************************************************************************)
(* The code that the contexts of Kernel have still to execute, as a        *)
(* sequence of micro-operations: which operations come before which, how   *)
(* such orders carry over to sequences put together and taken apart, and   *)
(* that they hold of every piece of code the kernel runs (the handlers,    *)
(* the system calls, the bodies of the tasks and kernel_main).  KernelInv, *)
(* in KernelStepProofs, is stated in these terms.                          *)
(***************************************************************************)
EXTENDS Kernel, SequenceTheorems, TLAPS

\* A task or the idle task calls nothing of the initialisation.
TaskOps == {"nop", "hlt", "halted", "print", "lock", "unlock", "or_panic", "sti", "iret",
            "switch", "int80", "exception", "die", "lapic_eoi", "end_of_interrupt", "set_triggered",
            "start_timer_one_shot"}
BootOps == {"init", "pit", "lapic_replace", "lapic_enable", "pic_disable", "wait_triggered",
            "frequency", "install_scheduler", "deref_scheduler", "scheduler_made",
            "start_process", "shell_initialized"}

OpNames == TaskOps \cup BootOps
Args == Locks \cup {""}
MicroOps == OpNames \X Args

\* The operations of a sequence of micro-operations, without arguments.
Ops(s) == {s[i][1] : i \in 1 .. Len(s)}

\* No operation of A comes before one of B.
NoneBefore(s, A, B) ==
    \A i, j \in 1 .. Len(s) : i < j /\ s[i][1] \in A => s[j][1] \notin B

\* Before every operation of B there is one of A.
EachAfter(s, A, B) ==
    \A j \in 1 .. Len(s) : s[j][1] \in B => \E i \in 1 .. Len(s) : i < j /\ s[i][1] \in A

\* At most two operations of s end a handler.
Ends == {"iret", "switch"}
AtMostOne(s) == NoneBefore(s, Ends, Ends)
AtMostTwo(s) ==
    \A i, j, k \in 1 .. Len(s) :
        ~(i < j /\ j < k /\ s[i][1] \in Ends /\ s[j][1] \in Ends /\ s[k][1] \in Ends)

\* The lock l is given back before anything else happens than taking and
\* giving back other locks.
Releases(s, l) ==
    \E j \in 1 .. Len(s) :
        /\ s[j] = Unlock(l)
        /\ \A m \in 1 .. Len(s) : m < j => s[m][1] \in {"lock", "unlock"} /\ s[m] # Lock(l)

\* Every lock that will be taken is then given back in that way.
WellLocked(s) ==
    \A i \in 1 .. Len(s) : s[i][1] = "lock" =>
        \E j \in 1 .. Len(s) :
            /\ i < j /\ s[j] = Unlock(s[i][2])
            /\ \A m \in 1 .. Len(s) :
                  i < m /\ m < j => s[m][1] \in {"lock", "unlock"} /\ s[m] # s[i]

\* What is only executed while interrupts are off: kernel_main takes its own
\* locks with interrupts on, a task does not.
Masked(c) == {"lapic_eoi", "end_of_interrupt", "set_triggered", "switch", "sti", "init"}
             \cup (IF c = BOOT THEN {} ELSE {"lock", "unlock"})

\* What ends a stretch with interrupts off.
Returning == {"init", "sti", "iret", "switch", "die"}

\* The code s that the context c has ahead, if the interrupt flag is flag when
\* it runs.
CodeOK(c, s, flag) ==
    /\ s \in Seq(MicroOps)
    /\ NoneBefore(s, Enabling, Masked(c))
    /\ flag => Ops(s) \cap Masked(c) = {}
    /\ ~flag => Ops(s) \cap Returning # {}
    /\ NoneBefore(s, {"int80", "exception"}, OpNames)
    /\ AtMostTwo(s)
    /\ flag \/ "sti" \in Ops(s) \/ "init" \in Ops(s) => AtMostOne(s)
    /\ c # BOOT => Ops(s) \subseteq TaskOps /\ WellLocked(s)

-----------------------------------------------------------------------------
(* Sequences of micro-operations that are put together and taken apart.    *)

\* Where the operations of r \o t come from.
LEMMA ConcatShape ==
    ASSUME NEW r \in Seq(MicroOps), NEW t \in Seq(MicroOps)
    PROVE  /\ r \o t \in Seq(MicroOps)
           /\ Len(r) \in Nat /\ Len(t) \in Nat
           /\ Len(r \o t) = Len(r) + Len(t)
           /\ \A i \in 1 .. Len(r) : (r \o t)[i] = r[i]
           /\ \A i \in 1 .. Len(r \o t) : i > Len(r) => /\ i - Len(r) \in 1 .. Len(t)
                                                       /\ (r \o t)[i] = t[i - Len(r)]
           /\ \A i \in 1 .. Len(t) : (r \o t)[i + Len(r)] = t[i]
  OBVIOUS

\* Where the operations of Tail(s) come from.
LEMMA TailShape ==
    ASSUME NEW s \in Seq(MicroOps), s # <<>>
    PROVE  /\ Tail(s) \in Seq(MicroOps)
           /\ Len(s) \in Nat /\ Len(s) > 0
           /\ Len(Tail(s)) = Len(s) - 1
           /\ \A i \in 1 .. Len(Tail(s)) : Tail(s)[i] = s[i + 1]
  OBVIOUS

\* Every operation has a name.
LEMMA OpsAreNames ==
    ASSUME NEW s \in Seq(MicroOps)
    PROVE  /\ \A i \in 1 .. Len(s) : s[i] \in MicroOps /\ s[i][1] \in OpNames
           /\ Ops(s) \subseteq OpNames
  BY DEF Ops, MicroOps

\* The operations of r \o t are those of r and those of t.
LEMMA OpsConcat ==
    ASSUME NEW r \in Seq(MicroOps), NEW t \in Seq(MicroOps)
    PROVE  Ops(r \o t) = Ops(r) \cup Ops(t)
  <1> DEFINE u == r \o t
  <1>1. ASSUME NEW x \in Ops(u) PROVE x \in Ops(r) \cup Ops(t)
    <2>1. PICK i \in 1 .. Len(u) : x = u[i][1]
      BY DEF Ops
    <2> QED
      BY <2>1, ConcatShape DEF Ops
  <1>2. ASSUME NEW x \in Ops(r) PROVE x \in Ops(u)
    <2>1. PICK i \in 1 .. Len(r) : x = r[i][1]
      BY DEF Ops
    <2>2. i \in 1 .. Len(u) /\ u[i] = r[i]
      BY ConcatShape
    <2> QED
      BY <2>1, <2>2 DEF Ops
  <1>3. ASSUME NEW x \in Ops(t) PROVE x \in Ops(u)
    <2>1. PICK i \in 1 .. Len(t) : x = t[i][1]
      BY DEF Ops
    <2>2. i + Len(r) \in 1 .. Len(u) /\ u[i + Len(r)] = t[i]
      BY ConcatShape
    <2> QED
      BY <2>1, <2>2 DEF Ops
  <1> QED
    BY <1>1, <1>2, <1>3

\* The operations of s are the first one and those behind it.
LEMMA OpsTail ==
    ASSUME NEW s \in Seq(MicroOps), s # <<>>
    PROVE  Ops(s) = {s[1][1]} \cup Ops(Tail(s))
  <1>1. ASSUME NEW x \in Ops(s) PROVE x \in {s[1][1]} \cup Ops(Tail(s))
    <2>1. PICK i \in 1 .. Len(s) : x = s[i][1]
      BY DEF Ops
    <2>2. CASE i = 1
      BY <2>1, <2>2
    <2>3. CASE i # 1
      <3>1. i - 1 \in 1 .. Len(Tail(s)) /\ Tail(s)[i - 1] = s[i]
        BY <2>3, TailShape
      <3> QED
        BY <2>1, <3>1, Zenon DEF Ops
    <2> QED
      BY <2>2, <2>3
  <1>2. s[1][1] \in Ops(s)
    BY TailShape DEF Ops
  <1>3. ASSUME NEW x \in Ops(Tail(s)) PROVE x \in Ops(s)
    <2>1. PICK i \in 1 .. Len(Tail(s)) : x = Tail(s)[i][1]
      BY DEF Ops
    <2>2. i + 1 \in 1 .. Len(s) /\ Tail(s)[i] = s[i + 1]
      BY TailShape
    <2> QED
      BY <2>1, <2>2 DEF Ops
  <1> QED
    BY <1>1, <1>2, <1>3

\* NoneBefore of r \o t: of each part, and across.
LEMMA NoneBeforeConcat ==
    ASSUME NEW r \in Seq(MicroOps), NEW t \in Seq(MicroOps), NEW A, NEW B,
           NoneBefore(r, A, B), NoneBefore(t, A, B),
           Ops(r) \cap A = {} \/ Ops(t) \cap B = {}
    PROVE  NoneBefore(r \o t, A, B)
  <1> DEFINE u == r \o t
  <1> SUFFICES ASSUME NEW i \in 1 .. Len(u), NEW j \in 1 .. Len(u), i < j, u[i][1] \in A
               PROVE  u[j][1] \notin B
    BY DEF NoneBefore
  <1>1. CASE j <= Len(r)
    <2>1. i \in 1 .. Len(r) /\ j \in 1 .. Len(r) /\ u[i] = r[i] /\ u[j] = r[j]
      BY <1>1, ConcatShape
    <2> QED
      BY <2>1 DEF NoneBefore
  <1>2. CASE i > Len(r)
    <2>1. /\ i - Len(r) \in 1 .. Len(t) /\ j - Len(r) \in 1 .. Len(t)
          /\ u[i] = t[i - Len(r)] /\ u[j] = t[j - Len(r)]
          /\ i - Len(r) < j - Len(r)
      BY <1>2, ConcatShape
    <2> QED
      BY <2>1 DEF NoneBefore
  <1>3. CASE i <= Len(r) /\ j > Len(r)
    <2>1. u[i][1] \in Ops(r) /\ u[j][1] \in Ops(t)
      BY <1>3, ConcatShape DEF Ops
    <2> QED
      BY <2>1
  <1> QED
    BY <1>1, <1>2, <1>3, ConcatShape

\* NoneBefore of s: of what is behind the first operation, and of that one.
LEMMA NoneBeforeTail ==
    ASSUME NEW s \in Seq(MicroOps), s # <<>>, NEW A, NEW B, NoneBefore(s, A, B)
    PROVE  /\ NoneBefore(Tail(s), A, B)
           /\ s[1][1] \in A => Ops(Tail(s)) \cap B = {}
  <1>1. NoneBefore(Tail(s), A, B)
    <2> SUFFICES ASSUME NEW i \in 1 .. Len(Tail(s)), NEW j \in 1 .. Len(Tail(s)),
                        i < j, Tail(s)[i][1] \in A
                 PROVE  Tail(s)[j][1] \notin B
      BY DEF NoneBefore
    <2>1. /\ i + 1 \in 1 .. Len(s) /\ j + 1 \in 1 .. Len(s) /\ i + 1 < j + 1
          /\ Tail(s)[i] = s[i + 1] /\ Tail(s)[j] = s[j + 1]
      BY TailShape
    <2> QED
      BY <2>1 DEF NoneBefore
  <1>2. ASSUME s[1][1] \in A, NEW x \in Ops(Tail(s)) PROVE x \notin B
    <2>1. PICK j \in 1 .. Len(Tail(s)) : x = Tail(s)[j][1]
      BY DEF Ops
    <2>2. 1 \in 1 .. Len(s) /\ j + 1 \in 1 .. Len(s) /\ 1 < j + 1 /\ Tail(s)[j] = s[j + 1]
      BY TailShape
    <2> QED
      BY <1>2, <2>1, <2>2 DEF NoneBefore
  <1> QED
    BY <1>1, <1>2

\* A sequence without operations of A, or without operations of B.
LEMMA NoneBeforeFree ==
    ASSUME NEW s, NEW A, NEW B, Ops(s) \cap A = {} \/ Ops(s) \cap B = {}
    PROVE  NoneBefore(s, A, B)
  BY DEF NoneBefore, Ops

\* EachAfter of r \o t: what is in r counts for t.
LEMMA EachAfterConcat ==
    ASSUME NEW r \in Seq(MicroOps), NEW t \in Seq(MicroOps), NEW A, NEW B,
           EachAfter(r, A, B),
           Ops(r) \cap A # {} \/ EachAfter(t, A, B)
    PROVE  EachAfter(r \o t, A, B)
  <1> DEFINE u == r \o t
  <1> SUFFICES ASSUME NEW j \in 1 .. Len(u), u[j][1] \in B
               PROVE  \E i \in 1 .. Len(u) : i < j /\ u[i][1] \in A
    BY DEF EachAfter
  <1>1. CASE j <= Len(r)
    <2>1. j \in 1 .. Len(r) /\ u[j] = r[j]
      BY <1>1, ConcatShape
    <2>2. PICK i \in 1 .. Len(r) : i < j /\ r[i][1] \in A
      BY <2>1 DEF EachAfter
    <2>3. i \in 1 .. Len(u) /\ u[i] = r[i]
      BY ConcatShape
    <2> QED
      BY <2>2, <2>3
  <1>2. CASE j > Len(r) /\ Ops(r) \cap A # {}
    <2>1. PICK i \in 1 .. Len(r) : r[i][1] \in A
      BY <1>2 DEF Ops
    <2>2. i \in 1 .. Len(u) /\ u[i] = r[i] /\ i < j
      BY <1>2, ConcatShape
    <2> QED
      BY <2>1, <2>2
  <1>3. CASE j > Len(r) /\ EachAfter(t, A, B)
    <2>1. j - Len(r) \in 1 .. Len(t) /\ u[j] = t[j - Len(r)]
      BY <1>3, ConcatShape
    <2>2. PICK i \in 1 .. Len(t) : i < j - Len(r) /\ t[i][1] \in A
      BY <1>3, <2>1 DEF EachAfter
    <2>3. i + Len(r) \in 1 .. Len(u) /\ u[i + Len(r)] = t[i] /\ i + Len(r) < j
      BY <2>2, ConcatShape
    <2> QED
      BY <2>2, <2>3
  <1> QED
    BY <1>1, <1>2, <1>3, ConcatShape

\* EachAfter of s: the first operation is not of B, and if it is not of A
\* either the others are still in order.
LEMMA EachAfterTail ==
    ASSUME NEW s \in Seq(MicroOps), s # <<>>, NEW A, NEW B, EachAfter(s, A, B)
    PROVE  /\ s[1][1] \notin B
           /\ s[1][1] \notin A => EachAfter(Tail(s), A, B)
  <1>1. s[1][1] \notin B
    BY TailShape DEF EachAfter
  <1>2. ASSUME s[1][1] \notin A, NEW j \in 1 .. Len(Tail(s)), Tail(s)[j][1] \in B
        PROVE  \E i \in 1 .. Len(Tail(s)) : i < j /\ Tail(s)[i][1] \in A
    <2>1. j + 1 \in 1 .. Len(s) /\ Tail(s)[j] = s[j + 1]
      BY TailShape
    <2>2. PICK i \in 1 .. Len(s) : i < j + 1 /\ s[i][1] \in A
      BY <1>2, <2>1 DEF EachAfter
    <2>3. i # 1
      BY <1>2, <2>2
    <2>4. i - 1 \in 1 .. Len(Tail(s)) /\ Tail(s)[i - 1] = s[i] /\ i - 1 < j
      BY <2>2, <2>3, TailShape
    <2> QED
      BY <2>2, <2>4, Zenon
  <1> QED
    BY <1>1, <1>2 DEF EachAfter

\* A sequence without operations of B.
LEMMA EachAfterFree ==
    ASSUME NEW s, NEW A, NEW B, Ops(s) \cap B = {}
    PROVE  EachAfter(s, A, B)
  BY DEF EachAfter, Ops

\* One handler on top of code with at most one.
LEMMA OneOnOne ==
    ASSUME NEW r \in Seq(MicroOps), NEW t \in Seq(MicroOps), AtMostOne(r), AtMostOne(t)
    PROVE  AtMostTwo(r \o t)
  <1> DEFINE u == r \o t
  <1> SUFFICES ASSUME NEW i \in 1 .. Len(u), NEW j \in 1 .. Len(u), NEW k \in 1 .. Len(u),
                      i < j, j < k, u[i][1] \in Ends, u[j][1] \in Ends, u[k][1] \in Ends
               PROVE  FALSE
    BY DEF AtMostTwo
  <1>1. CASE j <= Len(r)
    <2>1. i \in 1 .. Len(r) /\ j \in 1 .. Len(r) /\ u[i] = r[i] /\ u[j] = r[j]
      BY <1>1, ConcatShape
    <2> QED
      BY <2>1 DEF AtMostOne, NoneBefore
  <1>2. CASE j > Len(r)
    <2>1. /\ j - Len(r) \in 1 .. Len(t) /\ k - Len(r) \in 1 .. Len(t)
          /\ u[j] = t[j - Len(r)] /\ u[k] = t[k - Len(r)]
          /\ j - Len(r) < k - Len(r)
      BY <1>2, ConcatShape
    <2> QED
      BY <2>1 DEF AtMostOne, NoneBefore
  <1> QED
    BY <1>1, <1>2, ConcatShape

\* Code without a handler on top of code with at most two.
LEMMA NoneOnTwo ==
    ASSUME NEW r \in Seq(MicroOps), NEW t \in Seq(MicroOps), Ops(r) \cap Ends = {}, AtMostTwo(t)
    PROVE  AtMostTwo(r \o t)
  <1> DEFINE u == r \o t
  <1> SUFFICES ASSUME NEW i \in 1 .. Len(u), NEW j \in 1 .. Len(u), NEW k \in 1 .. Len(u),
                      i < j, j < k, u[i][1] \in Ends, u[j][1] \in Ends, u[k][1] \in Ends
               PROVE  FALSE
    BY DEF AtMostTwo
  <1>1. i > Len(r)
    <2> SUFFICES ASSUME i <= Len(r) PROVE FALSE
      BY ConcatShape
    <2>1. i \in 1 .. Len(r) /\ u[i] = r[i]
      BY ConcatShape
    <2> QED
      BY <2>1 DEF Ops
  <1>2. /\ i - Len(r) \in 1 .. Len(t) /\ j - Len(r) \in 1 .. Len(t) /\ k - Len(r) \in 1 .. Len(t)
        /\ u[i] = t[i - Len(r)] /\ u[j] = t[j - Len(r)] /\ u[k] = t[k - Len(r)]
        /\ i - Len(r) < j - Len(r) /\ j - Len(r) < k - Len(r)
    BY <1>1, ConcatShape
  <1> QED
    BY <1>2 DEF AtMostTwo

\* What is behind the first operation has as few handlers; one fewer if the
\* first operation ends one.
LEMMA AtMostTwoTail ==
    ASSUME NEW s \in Seq(MicroOps), s # <<>>, AtMostTwo(s)
    PROVE  /\ AtMostTwo(Tail(s))
           /\ s[1][1] \in Ends => AtMostOne(Tail(s))
  <1>1. AtMostTwo(Tail(s))
    <2> SUFFICES ASSUME NEW i \in 1 .. Len(Tail(s)), NEW j \in 1 .. Len(Tail(s)),
                        NEW k \in 1 .. Len(Tail(s)), i < j, j < k, Tail(s)[i][1] \in Ends,
                        Tail(s)[j][1] \in Ends, Tail(s)[k][1] \in Ends
                 PROVE  FALSE
      BY DEF AtMostTwo
    <2>1. /\ i + 1 \in 1 .. Len(s) /\ j + 1 \in 1 .. Len(s) /\ k + 1 \in 1 .. Len(s)
          /\ Tail(s)[i] = s[i + 1] /\ Tail(s)[j] = s[j + 1] /\ Tail(s)[k] = s[k + 1]
          /\ i + 1 < j + 1 /\ j + 1 < k + 1
      BY TailShape
    <2> QED
      BY <2>1 DEF AtMostTwo
  <1>2. ASSUME s[1][1] \in Ends, NEW i \in 1 .. Len(Tail(s)), NEW j \in 1 .. Len(Tail(s)),
               i < j, Tail(s)[i][1] \in Ends, Tail(s)[j][1] \in Ends
        PROVE  FALSE
    <2>1. /\ 1 \in 1 .. Len(s) /\ i + 1 \in 1 .. Len(s) /\ j + 1 \in 1 .. Len(s)
          /\ Tail(s)[i] = s[i + 1] /\ Tail(s)[j] = s[j + 1]
          /\ 1 < i + 1 /\ i + 1 < j + 1
      BY <1>2, TailShape
    <2> QED
      BY <1>2, <2>1 DEF AtMostTwo
  <1> QED
    BY <1>1, <1>2 DEF AtMostOne, NoneBefore

\* At most one is at most two.
LEMMA OneIsAtMostTwo ==
    ASSUME NEW s, AtMostOne(s)
    PROVE  AtMostTwo(s)
  BY DEF AtMostOne, NoneBefore, AtMostTwo

\* Locks that are given back in r are given back in r \o t.
LEMMA WellLockedConcat ==
    ASSUME NEW r \in Seq(MicroOps), NEW t \in Seq(MicroOps), WellLocked(r), WellLocked(t)
    PROVE  WellLocked(r \o t)
  <1> DEFINE u == r \o t
             Returned(v, i, j) ==
                 /\ i < j /\ v[j] = Unlock(v[i][2])
                 /\ \A m \in 1 .. Len(v) :
                       i < m /\ m < j => v[m][1] \in {"lock", "unlock"} /\ v[m] # v[i]
  <1> SUFFICES ASSUME NEW i \in 1 .. Len(u), u[i][1] = "lock"
               PROVE  \E j \in 1 .. Len(u) : Returned(u, i, j)
    BY Zenon DEF WellLocked
  <1>1. CASE i <= Len(r)
    <2>1. i \in 1 .. Len(r) /\ u[i] = r[i]
      BY <1>1, ConcatShape
    <2>2. PICK j \in 1 .. Len(r) : Returned(r, i, j)
      BY <2>1 DEF WellLocked
    <2>3. j \in 1 .. Len(u) /\ u[j] = r[j]
      BY ConcatShape
    <2>4. ASSUME NEW m \in 1 .. Len(u), i < m, m < j
          PROVE  u[m][1] \in {"lock", "unlock"} /\ u[m] # u[i]
      <3>1. m \in 1 .. Len(r) /\ u[m] = r[m]
        BY <2>4, ConcatShape
      <3> QED
        BY <2>1, <2>2, <2>4, <3>1
    <2> QED
      BY <2>1, <2>2, <2>3, <2>4
  <1>2. CASE i > Len(r)
    <2> DEFINE n == Len(r)
               a == i - n
    <2>1. n \in Nat /\ a \in 1 .. Len(t) /\ u[i] = t[a]
      BY <1>2, ConcatShape
    <2>2. PICK b \in 1 .. Len(t) : Returned(t, a, b)
      BY <2>1 DEF WellLocked
    <2>3. b + n \in 1 .. Len(u) /\ u[b + n] = t[b] /\ i < b + n
      BY <2>1, <2>2, ConcatShape
    <2>4. ASSUME NEW m \in 1 .. Len(u), i < m, m < b + n
          PROVE  u[m][1] \in {"lock", "unlock"} /\ u[m] # u[i]
      <3>1. m - n \in 1 .. Len(t) /\ u[m] = t[m - n] /\ a < m - n /\ m - n < b
        BY <1>2, <2>1, <2>4, ConcatShape
      <3> QED
        BY <2>1, <2>2, <3>1
    <2> QED
      BY <2>1, <2>2, <2>3, <2>4, Zenon
  <1>3. i <= Len(r) \/ i > Len(r)
    BY ConcatShape
  <1> QED
    BY <1>1, <1>2, <1>3, Zenon

\* What is behind the first operation is well locked, and gives back the lock
\* that the first operation takes.
LEMMA WellLockedTail ==
    ASSUME NEW s \in Seq(MicroOps), s # <<>>, WellLocked(s)
    PROVE  /\ WellLocked(Tail(s))
           /\ \A l : s[1] = Lock(l) => Releases(Tail(s), l)
  <1>0. /\ Tail(s) \in Seq(MicroOps) /\ Len(s) \in Nat /\ Len(s) > 0
        /\ Len(Tail(s)) = Len(s) - 1
        /\ \A i \in 1 .. Len(Tail(s)) : Tail(s)[i] = s[i + 1]
    BY TailShape
  <1>1. ASSUME NEW i \in 1 .. Len(Tail(s)), Tail(s)[i][1] = "lock"
        PROVE  \E j \in 1 .. Len(Tail(s)) :
                  /\ i < j /\ Tail(s)[j] = Unlock(Tail(s)[i][2])
                  /\ \A m \in 1 .. Len(Tail(s)) : i < m /\ m < j =>
                        Tail(s)[m][1] \in {"lock", "unlock"} /\ Tail(s)[m] # Tail(s)[i]
    <2>1. i + 1 \in 1 .. Len(s) /\ Tail(s)[i] = s[i + 1]
      BY <1>0
    <2>2. PICK b \in 1 .. Len(s) :
             /\ i + 1 < b /\ s[b] = Unlock(s[i + 1][2])
             /\ \A m \in 1 .. Len(s) :
                   i + 1 < m /\ m < b => s[m][1] \in {"lock", "unlock"} /\ s[m] # s[i + 1]
      BY <1>1, <2>1 DEF WellLocked
    <2>3. b - 1 \in 1 .. Len(Tail(s)) /\ Tail(s)[b - 1] = s[b] /\ i < b - 1
      BY <1>0, <2>2
    <2>4. ASSUME NEW m \in 1 .. Len(Tail(s)), i < m, m < b - 1
          PROVE  Tail(s)[m][1] \in {"lock", "unlock"} /\ Tail(s)[m] # Tail(s)[i]
      <3>1. m + 1 \in 1 .. Len(s) /\ Tail(s)[m] = s[m + 1] /\ i + 1 < m + 1 /\ m + 1 < b
        BY <1>0, <2>4
      <3> QED
        BY <2>1, <2>2, <3>1
    <2> QED
      BY <2>1, <2>2, <2>3, <2>4, Zenon
  <1>2. ASSUME NEW l, s[1] = Lock(l) PROVE Releases(Tail(s), l)
    <2>1. 1 \in 1 .. Len(s) /\ s[1][1] = "lock" /\ s[1][2] = l
      BY <1>0, <1>2 DEF Lock
    <2>2. PICK b \in 1 .. Len(s) :
             /\ 1 < b /\ s[b] = Unlock(l)
             /\ \A m \in 1 .. Len(s) :
                   1 < m /\ m < b => s[m][1] \in {"lock", "unlock"} /\ s[m] # s[1]
      BY <2>1 DEF WellLocked
    <2>3. b - 1 \in 1 .. Len(Tail(s)) /\ Tail(s)[b - 1] = s[b]
      BY <1>0, <2>2
    <2>4. ASSUME NEW m \in 1 .. Len(Tail(s)), m < b - 1
          PROVE  Tail(s)[m][1] \in {"lock", "unlock"} /\ Tail(s)[m] # Lock(l)
      <3>1. m + 1 \in 1 .. Len(s) /\ Tail(s)[m] = s[m + 1] /\ 1 < m + 1 /\ m + 1 < b
        BY <1>0, <2>4
      <3> QED
        BY <1>2, <2>2, <3>1
    <2> QED
      BY <2>2, <2>3, <2>4, Zenon DEF Releases
  <1> QED
    BY <1>1, <1>2 DEF WellLocked

\* Code without locks.
LEMMA WellLockedFree ==
    ASSUME NEW s, "lock" \notin Ops(s)
    PROVE  WellLocked(s)
  BY DEF WellLocked, Ops

\* Code that gives back l starts with an operation on a lock, and not with
\* taking l; once that operation is done, l is still given back, unless it was
\* the one that did.
LEMMA ReleasesTail ==
    ASSUME NEW s \in Seq(MicroOps), NEW l, Releases(s, l)
    PROVE  /\ s # <<>>
           /\ s[1][1] \in {"lock", "unlock"} /\ s[1] # Lock(l)
           /\ "unlock" \in Ops(s)
           /\ s[1] = Unlock(l) \/ Releases(Tail(s), l)
  <1>1. PICK j \in 1 .. Len(s) :
           /\ s[j] = Unlock(l)
           /\ \A m \in 1 .. Len(s) : m < j => s[m][1] \in {"lock", "unlock"} /\ s[m] # Lock(l)
    BY DEF Releases
  <1>2. s # <<>> /\ 1 \in 1 .. Len(s) /\ Len(s) \in Nat
    BY <1>1
  <1>3. "unlock" \in Ops(s)
    BY <1>1 DEF Ops, Unlock
  <1>4. CASE j = 1
    BY <1>1, <1>2, <1>3, <1>4 DEF Unlock, Lock
  <1>5. CASE j # 1
    <2>1. s[1][1] \in {"lock", "unlock"} /\ s[1] # Lock(l)
      BY <1>1, <1>2, <1>5
    <2>2. j - 1 \in 1 .. Len(Tail(s)) /\ Tail(s)[j - 1] = s[j]
      BY <1>2, <1>5, TailShape
    <2>3. ASSUME NEW m \in 1 .. Len(Tail(s)), m < j - 1
          PROVE  Tail(s)[m][1] \in {"lock", "unlock"} /\ Tail(s)[m] # Lock(l)
      <3>1. m + 1 \in 1 .. Len(s) /\ Tail(s)[m] = s[m + 1] /\ m + 1 < j
        BY <1>2, <2>3, TailShape
      <3> QED
        BY <1>1, <3>1
    <2> QED
      BY <1>1, <1>2, <1>3, <2>1, <2>2, <2>3, Zenon DEF Releases
  <1> QED
    BY <1>4, <1>5

\* No code at all.
LEMMA EmptyCode ==
    /\ <<>> \in Seq(MicroOps)
    /\ Ops(<<>>) = {}
    /\ \A t \in Seq(MicroOps) : <<>> \o t = t /\ t \o <<>> = t
    /\ \A A, B : NoneBefore(<<>>, A, B) /\ EachAfter(<<>>, A, B)
    /\ WellLocked(<<>>)
  BY DEF Ops, NoneBefore, EachAfter, WellLocked

\* One operation.
LEMMA OneOp ==
    ASSUME NEW op \in OpNames, NEW arg \in Args
    PROVE  /\ <<<<op, arg>>>> \in Seq(MicroOps)
           /\ Ops(<<<<op, arg>>>>) = {op}
           /\ \A A, B : NoneBefore(<<<<op, arg>>>>, A, B)
  <1> DEFINE x == <<op, arg>>
  <1>1. x \in MicroOps /\ x[1] = op
    BY DEF MicroOps
  <1> HIDE DEF x
  <1>2. <<x>> \in Seq(MicroOps) /\ Len(<<x>>) = 1 /\ <<x>>[1] = x
    BY <1>1
  <1>3. Ops(<<x>>) = {x[1]}
    BY <1>2 DEF Ops
  <1>4. \A A, B : NoneBefore(<<x>>, A, B)
    BY <1>2 DEF NoneBefore
  <1> QED
    BY <1>1, <1>2, <1>3, <1>4 DEF x
-----------------------------------------------------------------------------
(* What a step does to the code a context has ahead.                       *)

\* Operations that neither turn interrupts on nor rely on their being off, and
\* after which more may come.
Plain(c) == OpNames \ (Enabling \cup Masked(c) \cup {"int80", "exception"})

\* The first operation, which does not turn interrupts on or which fails, is
\* replaced by r, and the interrupt flag stays as it is.
LEMMA SpliceCode ==
    ASSUME NEW c, NEW s, NEW flag \in BOOLEAN, CodeOK(c, s, flag), s # <<>>,
           NEW r \in Seq(MicroOps), Ops(r) \subseteq Plain(c),
           s[1][1] \notin Returning \/ "die" \in Ops(r),
           c # BOOT => Ops(r) \subseteq TaskOps
    PROVE  CodeOK(c, r \o Tail(s), flag)
  <1> DEFINE t == Tail(s)
             u == r \o t
  <1>1. s \in Seq(MicroOps) /\ t \in Seq(MicroOps)
    BY TailShape DEF CodeOK
  <1>2. u \in Seq(MicroOps) /\ Ops(u) = Ops(r) \cup Ops(t) /\ Ops(s) = {s[1][1]} \cup Ops(t)
    BY <1>1, ConcatShape, OpsConcat, OpsTail, Zenon
  <1>3. NoneBefore(u, Enabling, Masked(c))
    <2>1. NoneBefore(t, Enabling, Masked(c))
      BY <1>1, NoneBeforeTail DEF CodeOK
    <2>2. Ops(r) \cap Enabling = {}
      BY DEF Plain
    <2>3. NoneBefore(r, Enabling, Masked(c))
      BY <2>2, NoneBeforeFree
    <2> QED
      BY <1>1, <2>1, <2>2, <2>3, NoneBeforeConcat, Zenon
  <1>4. flag => Ops(u) \cap Masked(c) = {}
    BY <1>2 DEF CodeOK, Plain
  <1>5. ~flag => Ops(u) \cap Returning # {}
    <2>1. "die" \in Returning
      BY DEF Returning
    <2> QED
      BY <1>2, <2>1 DEF CodeOK
  <1>6. NoneBefore(u, {"int80", "exception"}, OpNames)
    <2>1. NoneBefore(t, {"int80", "exception"}, OpNames)
      BY <1>1, NoneBeforeTail DEF CodeOK
    <2>2. Ops(r) \cap {"int80", "exception"} = {}
      BY DEF Plain
    <2>3. NoneBefore(r, {"int80", "exception"}, OpNames)
      BY <2>2, NoneBeforeFree
    <2> QED
      BY <1>1, <2>1, <2>2, <2>3, NoneBeforeConcat, Zenon
  <1>7. Ops(r) \cap Ends = {}
    BY DEF Plain, Enabling, Ends
  <1>8. AtMostTwo(u)
    <2>1. AtMostTwo(t)
      BY <1>1, AtMostTwoTail DEF CodeOK
    <2> QED
      BY <1>1, <1>7, <2>1, NoneOnTwo, Zenon
  <1>9. flag \/ "sti" \in Ops(u) \/ "init" \in Ops(u) => AtMostOne(u)
    <2> SUFFICES ASSUME flag \/ "sti" \in Ops(u) \/ "init" \in Ops(u)
                 PROVE  NoneBefore(u, Ends, Ends)
      BY DEF AtMostOne
    <2>1. flag \/ "sti" \in Ops(s) \/ "init" \in Ops(s)
      BY <1>2 DEF Plain, Enabling
    <2>2. NoneBefore(t, Ends, Ends)
      BY <1>1, <2>1, NoneBeforeTail DEF CodeOK, AtMostOne
    <2>3. NoneBefore(r, Ends, Ends)
      BY <1>7, NoneBeforeFree
    <2> QED
      BY <1>1, <1>7, <2>2, <2>3, NoneBeforeConcat, Zenon
  <1>10. ASSUME c # BOOT PROVE Ops(u) \subseteq TaskOps /\ WellLocked(u)
    <2>1. "lock" \notin Ops(r)
      BY <1>10 DEF Plain, Masked
    <2>2. WellLocked(r)
      BY <2>1, WellLockedFree
    <2>3. WellLocked(t)
      BY <1>1, <1>10, WellLockedTail DEF CodeOK
    <2>4. WellLocked(u)
      BY <1>1, <2>2, <2>3, WellLockedConcat, Zenon
    <2> QED
      BY <1>2, <1>10, <2>4 DEF CodeOK
  <1> HIDE DEF u
  <1>11. CodeOK(c, u, flag)
    BY <1>2, <1>3, <1>4, <1>5, <1>6, <1>8, <1>9, <1>10 DEF CodeOK
  <1> QED
    BY <1>11 DEF u

\* without_interrupts: the first operation is replaced by one that works on
\* locks with interrupts off, and turns them on again if they were on.
LEMMA MaskedCode ==
    ASSUME NEW c, NEW s, NEW flag \in BOOLEAN, CodeOK(c, s, flag), s # <<>>,
           s[1][1] \notin Returning,
           NEW body \in Seq(MicroOps), Ops(body) \subseteq {"lock", "unlock"}, WellLocked(body)
    PROVE  CodeOK(c, (body \o (IF flag THEN <<Do("sti")>> ELSE <<>>)) \o Tail(s), FALSE)
  <1> DEFINE t == Tail(s)
             on == IF flag THEN <<Do("sti")>> ELSE <<>>
             r == body \o on
             u == r \o t
  <1>1. s \in Seq(MicroOps) /\ t \in Seq(MicroOps)
    BY TailShape DEF CodeOK
  <1>2. /\ on \in Seq(MicroOps) /\ Ops(on) = IF flag THEN {"sti"} ELSE {}
        /\ NoneBefore(on, Enabling, Masked(c))
    <2> DEFINE sti == <<<<"sti", "">>>>
    <2>1. sti \in Seq(MicroOps) /\ Ops(sti) = {"sti"} /\ NoneBefore(sti, Enabling, Masked(c))
      <3>1. "sti" \in OpNames /\ "" \in Args
        BY DEF OpNames, TaskOps, Args
      <3> QED
        BY <3>1, OneOp, Zenon
    <2>2. <<>> \in Seq(MicroOps) /\ Ops(<<>>) = {} /\ NoneBefore(<<>>, Enabling, Masked(c))
      BY EmptyCode, Zenon
    <2>3. on = IF flag THEN sti ELSE <<>>
      BY DEF Do
    <2> HIDE DEF sti, on
    <2>4. CASE flag
      BY <2>1, <2>3, <2>4
    <2>5. CASE ~flag
      BY <2>2, <2>3, <2>5
    <2> QED
      BY <2>4, <2>5
  <1> HIDE DEF on
  <1>3. r \in Seq(MicroOps) /\ Ops(r) = Ops(body) \cup Ops(on)
    BY <1>2, ConcatShape, OpsConcat
  <1>4. "lock" \notin Ops(on) /\ WellLocked(on)
    BY <1>2, WellLockedFree
  <1>5. WellLocked(r)
    BY <1>2, <1>4, WellLockedConcat
  <1>6. NoneBefore(r, Enabling, Masked(c))
    <2>1. Ops(body) \cap Enabling = {}
      BY DEF Enabling
    <2>2. NoneBefore(body, Enabling, Masked(c))
      BY <2>1, NoneBeforeFree
    <2> QED
      BY <1>2, <2>1, <2>2, NoneBeforeConcat
  <1> HIDE DEF r
  <1>7. u \in Seq(MicroOps) /\ Ops(u) = Ops(r) \cup Ops(t) /\ Ops(s) = {s[1][1]} \cup Ops(t)
    BY <1>1, <1>3, ConcatShape, OpsConcat, OpsTail, Zenon
  <1>8. NoneBefore(u, Enabling, Masked(c))
    <2>1. NoneBefore(t, Enabling, Masked(c))
      BY <1>1, NoneBeforeTail DEF CodeOK
    <2>2. Ops(r) \cap Enabling = {} \/ Ops(t) \cap Masked(c) = {}
      BY <1>2, <1>3, <1>7 DEF Enabling, CodeOK
    <2> QED
      BY <1>1, <1>3, <1>6, <2>1, <2>2, NoneBeforeConcat, Zenon
  <1>9. Ops(u) \cap Returning # {}
    BY <1>2, <1>3, <1>7, Zenon DEF CodeOK, Returning
  <1>10. NoneBefore(u, {"int80", "exception"}, OpNames)
    <2>1. NoneBefore(t, {"int80", "exception"}, OpNames)
      BY <1>1, NoneBeforeTail DEF CodeOK
    <2>2. Ops(r) \cap {"int80", "exception"} = {}
      BY <1>2, <1>3
    <2>3. NoneBefore(r, {"int80", "exception"}, OpNames)
      BY <2>2, NoneBeforeFree
    <2> QED
      BY <1>1, <1>3, <2>1, <2>2, <2>3, NoneBeforeConcat, Zenon
  <1>11. Ops(r) \cap Ends = {}
    BY <1>2, <1>3 DEF Ends
  <1>12. AtMostTwo(u)
    <2>1. AtMostTwo(t)
      BY <1>1, AtMostTwoTail DEF CodeOK
    <2> QED
      BY <1>1, <1>3, <1>11, <2>1, NoneOnTwo, Zenon
  <1>13. "sti" \in Ops(u) \/ "init" \in Ops(u) => AtMostOne(u)
    <2> SUFFICES ASSUME "sti" \in Ops(u) \/ "init" \in Ops(u)
                 PROVE  NoneBefore(u, Ends, Ends)
      BY DEF AtMostOne
    <2>1. flag \/ "sti" \in Ops(s) \/ "init" \in Ops(s)
      BY <1>2, <1>3, <1>7
    <2>2. NoneBefore(t, Ends, Ends)
      BY <1>1, <2>1, NoneBeforeTail DEF CodeOK, AtMostOne
    <2>3. NoneBefore(r, Ends, Ends)
      BY <1>11, NoneBeforeFree
    <2> QED
      BY <1>1, <1>3, <1>11, <2>2, <2>3, NoneBeforeConcat, Zenon
  <1>14. ASSUME c # BOOT PROVE Ops(u) \subseteq TaskOps /\ WellLocked(u)
    <2>1. WellLocked(t)
      BY <1>1, <1>14, WellLockedTail DEF CodeOK
    <2>2. WellLocked(u)
      BY <1>1, <1>3, <1>5, <2>1, WellLockedConcat, Zenon
    <2> QED
      BY <1>2, <1>3, <1>7, <1>14, <2>2 DEF CodeOK, TaskOps
  <1> HIDE DEF u
  <1>15. CodeOK(c, u, FALSE)
    BY <1>7, <1>8, <1>9, <1>10, <1>12, <1>13, <1>14 DEF CodeOK
  <1> QED
    BY <1>15, Zenon DEF u, r, on

\* sti, iret or a switch: from here on interrupts are on.
LEMMA EnableCode ==
    ASSUME NEW c, NEW s, NEW flag \in BOOLEAN, CodeOK(c, s, flag), s # <<>>,
           s[1][1] \in Enabling
    PROVE  CodeOK(c, Tail(s), TRUE)
  <1> DEFINE t == Tail(s)
  <1>1. s \in Seq(MicroOps) /\ t \in Seq(MicroOps) /\ Ops(s) = {s[1][1]} \cup Ops(t)
    BY TailShape, OpsTail DEF CodeOK
  <1>2. NoneBefore(t, Enabling, Masked(c)) /\ Ops(t) \cap Masked(c) = {}
    BY <1>1, NoneBeforeTail DEF CodeOK
  <1>3. NoneBefore(t, {"int80", "exception"}, OpNames)
    BY <1>1, NoneBeforeTail DEF CodeOK
  <1>4. AtMostOne(t)
    <2>1. CASE s[1][1] \in Ends
      BY <1>1, <2>1, AtMostTwoTail DEF CodeOK
    <2>2. CASE s[1][1] \notin Ends
      <3>1. NoneBefore(s, Ends, Ends)
        BY <1>1, <2>2 DEF CodeOK, AtMostOne, Enabling, Ends
      <3> QED
        BY <1>1, <3>1, NoneBeforeTail DEF AtMostOne
    <2> QED
      BY <2>1, <2>2
  <1>5. AtMostTwo(t)
    BY <1>4, OneIsAtMostTwo
  <1>6. c # BOOT => Ops(t) \subseteq TaskOps /\ WellLocked(t)
    BY <1>1, WellLockedTail DEF CodeOK
  <1> HIDE DEF t
  <1> QED
    BY <1>1, <1>2, <1>3, <1>4, <1>5, <1>6 DEF CodeOK, t

\* The code of a handler: it ends with iretq or a panic, sends its EOI before,
\* and takes no locks but those of println.
HandlerOK(r) ==
    /\ r \in Seq(MicroOps)
    /\ NoneBefore(r, {"iret", "switch"}, {"lapic_eoi", "end_of_interrupt", "set_triggered", "switch"})
    /\ AtMostOne(r)
    /\ Ops(r) \subseteq {"print", "die", "lapic_eoi", "end_of_interrupt", "set_triggered",
                         "start_timer_one_shot", "switch", "iret"}
    /\ Ops(r) \cap {"iret", "switch", "die"} # {}

\* A handler starts on top of code that is executed with interrupts on.
LEMMA DeliverCode ==
    ASSUME NEW c, NEW t, CodeOK(c, t, TRUE), NEW r, HandlerOK(r)
    PROVE  CodeOK(c, r \o t, FALSE)
  <1> DEFINE u == r \o t
  <1>1. r \in Seq(MicroOps) /\ t \in Seq(MicroOps)
    BY DEF CodeOK, HandlerOK
  <1>2. u \in Seq(MicroOps) /\ Ops(u) = Ops(r) \cup Ops(t)
    BY <1>1, ConcatShape, OpsConcat
  <1>3. NoneBefore(u, Enabling, Masked(c))
    <2>1. NoneBefore(t, Enabling, Masked(c)) /\ Ops(t) \cap Masked(c) = {}
      BY DEF CodeOK
    <2>2. NoneBefore(r, Enabling, Masked(c))
      <3> SUFFICES ASSUME NEW i \in 1 .. Len(r), NEW j \in 1 .. Len(r), i < j,
                          r[i][1] \in Enabling, r[j][1] \in Masked(c)
                   PROVE  FALSE
        BY DEF NoneBefore
      <3>1. r[i][1] \in Ops(r) /\ r[j][1] \in Ops(r)
        BY DEF Ops
      <3>2. r[i][1] \in {"iret", "switch"}
        BY <3>1 DEF HandlerOK, Enabling
      <3>3. r[j][1] \in {"lapic_eoi", "end_of_interrupt", "set_triggered", "switch"}
        BY <3>1 DEF HandlerOK, Masked
      <3> QED
        BY <3>2, <3>3 DEF HandlerOK, NoneBefore
    <2> QED
      BY <1>1, <2>1, <2>2, NoneBeforeConcat
  <1>4. Ops(u) \cap Returning # {}
    BY <1>2 DEF HandlerOK, Returning
  <1>5. NoneBefore(u, {"int80", "exception"}, OpNames)
    <2>1. NoneBefore(t, {"int80", "exception"}, OpNames)
      BY DEF CodeOK
    <2>2. Ops(r) \cap {"int80", "exception"} = {}
      BY DEF HandlerOK
    <2>3. NoneBefore(r, {"int80", "exception"}, OpNames)
      BY <2>2, NoneBeforeFree
    <2> QED
      BY <1>1, <2>1, <2>2, <2>3, NoneBeforeConcat
  <1>6. AtMostTwo(u)
    BY <1>1, OneOnOne DEF HandlerOK, CodeOK
  <1>7. "sti" \notin Ops(u) /\ "init" \notin Ops(u)
    BY <1>2 DEF HandlerOK, CodeOK, Masked
  <1>8. ASSUME c # BOOT PROVE Ops(u) \subseteq TaskOps /\ WellLocked(u)
    <2>1. "lock" \notin Ops(r)
      BY DEF HandlerOK
    <2>2. WellLocked(r)
      BY <2>1, WellLockedFree
    <2>3. WellLocked(t) /\ Ops(t) \subseteq TaskOps
      BY <1>8 DEF CodeOK
    <2>4. WellLocked(u)
      BY <1>1, <2>2, <2>3, WellLockedConcat
    <2>5. Ops(r) \subseteq TaskOps
      BY DEF HandlerOK, TaskOps
    <2> QED
      BY <1>2, <2>3, <2>4, <2>5
  <1> HIDE DEF u
  <1>9. CodeOK(c, u, FALSE)
    BY <1>2, <1>3, <1>4, <1>5, <1>6, <1>7, <1>8 DEF CodeOK
  <1> QED
    BY <1>9, Zenon DEF u

\* Code without operations is empty.
LEMMA NoOpsNoCode ==
    ASSUME NEW t \in Seq(MicroOps), Ops(t) = {}
    PROVE  t = <<>>
  <1>1. ASSUME NEW i \in 1 .. Len(t) PROVE FALSE
    <2>1. t[i][1] \in Ops(t)
      BY DEF Ops
    <2> QED
      BY <2>1
  <1>2. Len(t) \in Nat
    OBVIOUS
  <1>3. Len(t) = 0
    BY <1>1, <1>2
  <1> QED
    BY <1>3

\* int 0x80 and exceptions are the last thing a function does before its next
\* round.
LEMMA NothingBehind ==
    ASSUME NEW c, NEW s, NEW flag, CodeOK(c, s, flag), s # <<>>,
           s[1][1] \in {"int80", "exception"}
    PROVE  Tail(s) = <<>>
  <1>1. s \in Seq(MicroOps) /\ Tail(s) \in Seq(MicroOps)
    BY TailShape DEF CodeOK
  <1>2. Ops(Tail(s)) \cap OpNames = {}
    BY <1>1, NoneBeforeTail DEF CodeOK
  <1>3. Ops(Tail(s)) \subseteq OpNames
    BY <1>1, OpsAreNames, Zenon
  <1>4. Ops(Tail(s)) = {}
    BY <1>2, <1>3
  <1> QED
    BY <1>1, <1>4, NoOpsNoCode, Zenon
-----------------------------------------------------------------------------
(* The pieces of code.                                                     *)

\* Micro-operations without and with an argument.
LEMMA DoOp ==
    ASSUME NEW op \in OpNames
    PROVE  Do(op) \in MicroOps /\ Do(op)[1] = op
  BY Zenon DEF Do, MicroOps, Args

\* Taking and releasing a lock are micro-operations.
LEMMA LockOp ==
    ASSUME NEW l \in Locks
    PROVE  /\ Lock(l) \in MicroOps /\ Lock(l)[1] = "lock" /\ Lock(l)[2] = l
           /\ Unlock(l) \in MicroOps /\ Unlock(l)[1] = "unlock"
  BY Zenon DEF Lock, Unlock, MicroOps, Args, OpNames, TaskOps

\* One to five micro-operations.
LEMMA Code1 ==
    ASSUME NEW a \in MicroOps
    PROVE  /\ <<a>> \in Seq(MicroOps)
           /\ Ops(<<a>>) = {a[1]}
  BY DEF Ops

\* The operations of a code of two,
LEMMA Code2 ==
    ASSUME NEW a \in MicroOps, NEW b \in MicroOps
    PROVE  /\ <<a, b>> \in Seq(MicroOps)
           /\ Ops(<<a, b>>) = {a[1], b[1]}
  BY DEF Ops

\* of three,
LEMMA Code3 ==
    ASSUME NEW a \in MicroOps, NEW b \in MicroOps, NEW c \in MicroOps
    PROVE  /\ <<a, b, c>> \in Seq(MicroOps)
           /\ Ops(<<a, b, c>>) = {a[1], b[1], c[1]}
  BY DEF Ops

\* of four
LEMMA Code4 ==
    ASSUME NEW a \in MicroOps, NEW b \in MicroOps, NEW c \in MicroOps, NEW d \in MicroOps
    PROVE  /\ <<a, b, c, d>> \in Seq(MicroOps)
           /\ Ops(<<a, b, c, d>>) = {a[1], b[1], c[1], d[1]}
  BY DEF Ops

\* and of five.
LEMMA Code5 ==
    ASSUME NEW a \in MicroOps, NEW b \in MicroOps, NEW c \in MicroOps, NEW d \in MicroOps,
           NEW e \in MicroOps
    PROVE  /\ <<a, b, c, d, e>> \in Seq(MicroOps)
           /\ Ops(<<a, b, c, d, e>>) = {a[1], b[1], c[1], d[1], e[1]}
  BY DEF Ops

\* apic_timer_handler.
LEMMA ApicTimerHandlerCode ==
    /\ HandlerOK(ApicTimerHandler)
    /\ Ops(ApicTimerHandler) = {"lapic_eoi", "start_timer_one_shot", "switch"}
    /\ EachAfter(ApicTimerHandler, {"start_timer_one_shot"}, {"switch"})
  <1> DEFINE a == <<Do("lapic_eoi"), Do("start_timer_one_shot")>>
             b == <<Do("switch")>>
             x == {"iret", "switch"}
             y == {"lapic_eoi", "end_of_interrupt", "set_triggered", "switch"}
             st == {"start_timer_one_shot"}
             sw == {"switch"}
  <1>1. ApicTimerHandler = a \o b
    BY DEF ApicTimerHandler, RestartApic
  <1>2. /\ Do("lapic_eoi") \in MicroOps /\ Do("lapic_eoi")[1] = "lapic_eoi"
        /\ Do("start_timer_one_shot") \in MicroOps
        /\ Do("start_timer_one_shot")[1] = "start_timer_one_shot"
        /\ Do("switch") \in MicroOps /\ Do("switch")[1] = "switch"
    BY DoOp DEF OpNames, TaskOps
  <1>3. a \in Seq(MicroOps) /\ Ops(a) = {"lapic_eoi", "start_timer_one_shot"}
    BY <1>2, Code2
  <1>4. b \in Seq(MicroOps) /\ Ops(b) = {"switch"} /\ Len(b) = 1
    BY <1>2, Code1
  <1> HIDE DEF a, b
  <1>5. a \o b \in Seq(MicroOps) /\ Ops(a \o b) = Ops(a) \cup Ops(b)
    BY <1>3, <1>4, ConcatShape, OpsConcat
  <1>6. /\ Ops(a) \cap x = {} /\ Ops(a) \cap Ends = {} /\ Ops(a) \cap st # {}
        /\ Ops(a) \cap sw = {}
    BY <1>3 DEF Ends
  <1> HIDE DEF x, y, st, sw
  <1>7. NoneBefore(a, x, y) /\ NoneBefore(a, Ends, Ends) /\ EachAfter(a, st, sw)
    BY <1>6, NoneBeforeFree, EachAfterFree
  <1>8. NoneBefore(b, x, y) /\ NoneBefore(b, Ends, Ends)
    BY <1>4 DEF NoneBefore
  <1>9. NoneBefore(a \o b, x, y)
    BY <1>3, <1>4, <1>6, <1>7, <1>8, NoneBeforeConcat
  <1>10. NoneBefore(a \o b, Ends, Ends)
    BY <1>3, <1>4, <1>6, <1>7, <1>8, NoneBeforeConcat
  <1>11. EachAfter(a \o b, st, sw)
    BY <1>3, <1>4, <1>6, <1>7, EachAfterConcat
  <1> QED
    BY <1>1, <1>3, <1>4, <1>5, <1>9, <1>10, <1>11 DEF HandlerOK, AtMostOne, x, y, st, sw

\* timer_interrupt_handler.
LEMMA TimerInterruptHandlerCode ==
    /\ HandlerOK(TimerInterruptHandler)
    /\ Ops(TimerInterruptHandler) = {"end_of_interrupt", "iret"}
  <1> DEFINE r == <<Do("end_of_interrupt"), Do("iret")>>
  <1>1. TimerInterruptHandler = r
    BY DEF TimerInterruptHandler
  <1>2. /\ Do("end_of_interrupt") \in MicroOps /\ Do("end_of_interrupt")[1] = "end_of_interrupt"
        /\ Do("iret") \in MicroOps /\ Do("iret")[1] = "iret"
    BY DoOp DEF OpNames, TaskOps
  <1>3. r \in Seq(MicroOps) /\ Ops(r) = {"end_of_interrupt", "iret"}
    BY <1>2, Code2
  <1>4. Len(r) = 2 /\ r[1][1] = "end_of_interrupt" /\ r[2][1] = "iret"
    BY <1>2
  <1> HIDE DEF r
  <1>5. NoneBefore(r, {"iret", "switch"}, {"lapic_eoi", "end_of_interrupt", "set_triggered", "switch"})
    BY <1>4 DEF NoneBefore
  <1>6. AtMostOne(r)
    BY <1>4 DEF AtMostOne, NoneBefore, Ends
  <1> QED
    BY <1>1, <1>3, <1>5, <1>6 DEF HandlerOK

\* apic_error_handler and apic_spurious_handler.
LEMMA ApicNoticeHandlerCode ==
    /\ HandlerOK(ApicNoticeHandler)
    /\ Ops(ApicNoticeHandler) = {"print", "lapic_eoi", "iret"}
  <1> DEFINE r == <<Do("print"), Do("lapic_eoi"), Do("iret")>>
  <1>1. ApicNoticeHandler = r
    BY DEF ApicNoticeHandler
  <1>2. /\ Do("print") \in MicroOps /\ Do("print")[1] = "print"
        /\ Do("lapic_eoi") \in MicroOps /\ Do("lapic_eoi")[1] = "lapic_eoi"
        /\ Do("iret") \in MicroOps /\ Do("iret")[1] = "iret"
    BY DoOp DEF OpNames, TaskOps
  <1>3. r \in Seq(MicroOps) /\ Ops(r) = {"print", "lapic_eoi", "iret"}
    BY <1>2, Code3
  <1>4. Len(r) = 3 /\ r[1][1] = "print" /\ r[2][1] = "lapic_eoi" /\ r[3][1] = "iret"
    BY <1>2
  <1> HIDE DEF r
  <1>5. NoneBefore(r, {"iret", "switch"}, {"lapic_eoi", "end_of_interrupt", "set_triggered", "switch"})
    BY <1>4 DEF NoneBefore
  <1>6. AtMostOne(r)
    BY <1>4 DEF AtMostOne, NoneBefore, Ends
  <1> QED
    BY <1>1, <1>3, <1>5, <1>6 DEF HandlerOK

\* A panic and the page fault handler.
LEMMA PanicCode ==
    /\ Panic \in Seq(MicroOps) /\ Ops(Panic) = {"print", "die"}
    /\ PageFaultHandler \in Seq(MicroOps) /\ Ops(PageFaultHandler) = {"print", "die"}
  <1>1. /\ Do("print") \in MicroOps /\ Do("print")[1] = "print"
        /\ Do("die") \in MicroOps /\ Do("die")[1] = "die"
    BY DoOp DEF OpNames, TaskOps
  <1>2. Panic \in Seq(MicroOps) /\ Ops(Panic) = {"print", "die"}
    BY <1>1, Code2 DEF Panic
  <1>3. PageFaultHandler \in Seq(MicroOps) /\ Ops(PageFaultHandler) = {"print", "die"}
    BY <1>1, Code5 DEF PageFaultHandler
  <1> QED
    BY <1>2, <1>3

\* apic_timer_config_handler: an EOI if there is a local APIC, else a panic.
LEMMA ConfigHandlerCode ==
    ASSUME LAPIC \in BOOLEAN
    PROVE  /\ HandlerOK(ApicTimerConfigHandler)
           /\ Ops(ApicTimerConfigHandler) = IF LAPIC THEN {"set_triggered", "lapic_eoi", "iret"}
                                            ELSE {"set_triggered", "print", "die"}
  <1> DEFINE a == <<Do("set_triggered")>>
             b == <<Do("lapic_eoi"), Do("iret")>>
             x == {"iret", "switch"}
             y == {"lapic_eoi", "end_of_interrupt", "set_triggered", "switch"}
  <1>1. /\ Do("set_triggered") \in MicroOps /\ Do("set_triggered")[1] = "set_triggered"
        /\ Do("lapic_eoi") \in MicroOps /\ Do("lapic_eoi")[1] = "lapic_eoi"
        /\ Do("iret") \in MicroOps /\ Do("iret")[1] = "iret"
    BY DoOp DEF OpNames, TaskOps
  <1>2. a \in Seq(MicroOps) /\ Ops(a) = {"set_triggered"}
    BY <1>1, Code1
  <1>3. b \in Seq(MicroOps) /\ Ops(b) = {"lapic_eoi", "iret"}
    BY <1>1, Code2
  <1>4. Len(b) = 2 /\ b[1][1] = "lapic_eoi" /\ b[2][1] = "iret"
    BY <1>1
  <1>5. ApicTimerConfigHandler = a \o (IF LAPIC THEN b ELSE Panic)
    BY DEF ApicTimerConfigHandler
  <1> HIDE DEF a, b
  <1>6. NoneBefore(b, x, y) /\ NoneBefore(b, Ends, Ends)
    BY <1>4 DEF NoneBefore, Ends
  <1>7. NoneBefore(a, x, y) /\ NoneBefore(a, Ends, Ends)
    BY <1>2, NoneBeforeFree DEF Ends
  <1>8. NoneBefore(Panic, x, y) /\ NoneBefore(Panic, Ends, Ends)
    BY PanicCode, NoneBeforeFree DEF Ends
  <1>9. Ops(a) \cap x = {} /\ Ops(a) \cap Ends = {}
    BY <1>2 DEF Ends
  <1> HIDE DEF x, y
  <1>10. CASE LAPIC
    <2>1. a \o b \in Seq(MicroOps) /\ Ops(a \o b) = Ops(a) \cup Ops(b)
      BY <1>2, <1>3, ConcatShape, OpsConcat
    <2>2. NoneBefore(a \o b, x, y)
      BY <1>2, <1>3, <1>6, <1>7, <1>9, NoneBeforeConcat
    <2>3. NoneBefore(a \o b, Ends, Ends)
      BY <1>2, <1>3, <1>6, <1>7, <1>9, NoneBeforeConcat
    <2>4. ApicTimerConfigHandler = a \o b
      BY <1>5, <1>10
    <2> QED
      BY <1>2, <1>3, <1>10, <2>1, <2>2, <2>3, <2>4 DEF HandlerOK, AtMostOne, x, y
  <1>11. CASE ~LAPIC
    <2>1. a \o Panic \in Seq(MicroOps) /\ Ops(a \o Panic) = Ops(a) \cup Ops(Panic)
      BY <1>2, PanicCode, ConcatShape, OpsConcat, Zenon
    <2>2. NoneBefore(a \o Panic, x, y)
      BY <1>2, PanicCode, <1>7, <1>8, <1>9, NoneBeforeConcat
    <2>3. NoneBefore(a \o Panic, Ends, Ends)
      BY <1>2, PanicCode, <1>7, <1>8, <1>9, NoneBeforeConcat
    <2>4. ApicTimerConfigHandler = a \o Panic
      BY <1>5, <1>11
    <2> QED
      BY <1>2, PanicCode, <1>11, <2>1, <2>2, <2>3, <2>4, Zenon DEF HandlerOK, AtMostOne, x, y
  <1> QED
    BY <1>10, <1>11

\* The handler of vector ApicTimer.
LEMMA VectorCode ==
    ASSUME LAPIC \in BOOLEAN
    PROVE  /\ HandlerOK(Vector33)
           /\ IDT33 = "sched" =>
                 /\ Ops(Vector33) = {"lapic_eoi", "start_timer_one_shot", "switch"}
                 /\ EachAfter(Vector33, {"start_timer_one_shot"}, {"switch"})
           /\ IDT33 = "config" => Ops(Vector33) = IF LAPIC
                                                  THEN {"set_triggered", "lapic_eoi", "iret"}
                                                  ELSE {"set_triggered", "print", "die"}
  <1>1. CASE IDT33 = "config"
    BY <1>1, ConfigHandlerCode DEF Vector33
  <1>2. CASE IDT33 # "config"
    BY <1>2, ApicTimerHandlerCode DEF Vector33
  <1> QED
    BY <1>1, <1>2

\* A deallocation.
LEMMA DeallocCode ==
    Dealloc \in Seq(MicroOps) /\ Ops(Dealloc) = {"lock", "unlock"} /\ WellLocked(Dealloc)
  <1> DEFINE a == Lock("ALLOCATOR")
             b == Unlock("ALLOCATOR")
  <1>1. a \in MicroOps /\ b \in MicroOps /\ a[1] = "lock" /\ b[1] = "unlock" /\ a[2] = "ALLOCATOR"
    BY LockOp DEF Locks
  <1>2. Dealloc = <<a, b>>
    BY DEF Dealloc
  <1>3. b = Unlock(a[2])
    BY <1>1
  <1> HIDE DEF a, b
  <1>4. <<a, b>> \in Seq(MicroOps) /\ Ops(<<a, b>>) = {"lock", "unlock"}
    BY <1>1, Code2
  <1>5. WellLocked(<<a, b>>)
    BY <1>1, <1>3 DEF WellLocked
  <1> QED
    BY <1>2, <1>4, <1>5

\* What may panic.
LEMMA OrPanicCode ==
    LET p == <<Do("or_panic")>>
    IN  p \in Seq(MicroOps) /\ Ops(p) = {"or_panic"} /\ WellLocked(p)
  <1> DEFINE p == <<Do("or_panic")>>
  <1>1. Do("or_panic") \in MicroOps /\ Do("or_panic")[1] = "or_panic"
    BY DoOp DEF OpNames, TaskOps
  <1>2. p \in Seq(MicroOps) /\ Ops(p) = {"or_panic"}
    BY <1>1, Code1
  <1> HIDE DEF p
  <1>3. WellLocked(p)
    BY <1>2, WellLockedFree
  <1> QED
    BY <1>2, <1>3, Zenon DEF p

\* An allocation and memory::setup do with the lock what a deallocation does.
LEMMA AllocParts ==
    Alloc = Dealloc \o <<Do("or_panic")>> /\ MemorySetup = <<Do("or_panic")>> \o Dealloc
  BY DEF Alloc, Dealloc, MemorySetup

LEMMA AllocCode ==
    /\ Alloc \in Seq(MicroOps) /\ Ops(Alloc) = {"lock", "unlock", "or_panic"} /\ WellLocked(Alloc)
    /\ MemorySetup \in Seq(MicroOps) /\ Ops(MemorySetup) = {"lock", "unlock", "or_panic"}
  <1> DEFINE p == <<Do("or_panic")>>
  <1>1. p \in Seq(MicroOps) /\ Ops(p) = {"or_panic"} /\ WellLocked(p)
    BY OrPanicCode, Zenon
  <1>2. Alloc = Dealloc \o p /\ MemorySetup = p \o Dealloc
    BY AllocParts
  <1> HIDE DEF p
  <1>3. Dealloc \o p \in Seq(MicroOps) /\ Ops(Dealloc \o p) = {"lock", "unlock", "or_panic"}
    BY <1>1, DeallocCode, ConcatShape, OpsConcat
  <1>4. p \o Dealloc \in Seq(MicroOps) /\ Ops(p \o Dealloc) = {"lock", "unlock", "or_panic"}
    BY <1>1, DeallocCode, ConcatShape, OpsConcat
  <1>5. WellLocked(Dealloc \o p)
    BY <1>1, DeallocCode, WellLockedConcat, Zenon
  <1> QED
    BY <1>2, <1>3, <1>4, <1>5, Zenon

\* The locks of _print.
LEMMA PrintBodyCode ==
    ASSUME INITIALIZED \in BOOLEAN
    PROVE  /\ PrintBody \in Seq(MicroOps)
           /\ Ops(PrintBody) \subseteq {"lock", "unlock"}
           /\ WellLocked(PrintBody)
  <1> DEFINE a == Lock("SHELL")
             b == Lock("WRITER")
             c == Unlock("WRITER")
             d == Unlock("SHELL")
  <1>1. /\ a \in MicroOps /\ a[1] = "lock" /\ a[2] = "SHELL"
        /\ b \in MicroOps /\ b[1] = "lock" /\ b[2] = "WRITER"
        /\ c \in MicroOps /\ c[1] = "unlock"
        /\ d \in MicroOps /\ d[1] = "unlock"
    BY LockOp DEF Locks
  <1>2. PrintBody = IF INITIALIZED THEN <<a, b, c, d>> ELSE <<b, c>>
    BY DEF PrintBody
  <1>3. d = Unlock(a[2]) /\ c = Unlock(b[2]) /\ a # b
    BY <1>1
  <1> HIDE DEF a, b, c, d
  <1>4. <<b, c>> \in Seq(MicroOps) /\ Ops(<<b, c>>) = {"lock", "unlock"}
    BY <1>1, Code2
  <1>5. WellLocked(<<b, c>>)
    BY <1>1, <1>3 DEF WellLocked
  <1>6. <<a, b, c, d>> \in Seq(MicroOps) /\ Ops(<<a, b, c, d>>) = {"lock", "unlock"}
    BY <1>1, Code4
  <1>7. WellLocked(<<a, b, c, d>>)
    <2> DEFINE s == <<a, b, c, d>>
    <2>1. Len(s) = 4 /\ s[1] = a /\ s[2] = b /\ s[3] = c /\ s[4] = d
      OBVIOUS
    <2> HIDE DEF s
    <2> DEFINE Back(i, j) ==
            /\ i < j /\ s[j] = Unlock(s[i][2])
            /\ \A m \in 1 .. Len(s) :
                  i < m /\ m < j => s[m][1] \in {"lock", "unlock"} /\ s[m] # s[i]
    <2>2. \A m \in 1 .. Len(s) : m = 1 \/ m = 2 \/ m = 3 \/ m = 4
      BY <2>1
    <2>3. \A m \in 1 .. Len(s) : s[m][1] \in {"lock", "unlock"}
      BY <1>1, <2>1, <2>2
    <2>4. c # a
      BY <1>1
    <2>5. Back(1, 4)
      BY <1>3, <2>1, <2>2, <2>3, <2>4
    <2>6. Back(2, 3)
      BY <1>3, <2>1
    <2>7. ASSUME NEW i \in 1 .. Len(s), s[i][1] = "lock"
          PROVE  \E j \in 1 .. Len(s) : Back(i, j)
      <3>1. i = 1 \/ i = 2
        BY <1>1, <2>1, <2>2, <2>7
      <3>2. 3 \in 1 .. Len(s) /\ 4 \in 1 .. Len(s)
        BY <2>1
      <3> QED
        BY <2>5, <2>6, <3>1, <3>2
    <2>8. WellLocked(s)
      BY <2>7 DEF WellLocked
    <2> QED
      BY <2>8 DEF s
  <1> QED
    BY <1>2, <1>4, <1>5, <1>6, <1>7

\* A system call: whatever it does first, it sends the EOI before it turns
\* interrupts on.
LEMMA CallCode ==
    ASSUME NEW c, NEW h \in Seq(MicroOps), WellLocked(h),
           Ops(h) \subseteq {"lock", "unlock", "or_panic", "print", "die"}
    PROVE  LET e == <<Do("end_of_interrupt"), Do("sti"), Do("iret")>>
           IN  CodeOK(c, h \o e, FALSE) /\ Ops(h \o e) = Ops(h) \cup {"end_of_interrupt", "sti", "iret"}
  <1> DEFINE e == <<Do("end_of_interrupt"), Do("sti"), Do("iret")>>
             u == h \o e
             I == {"int80", "exception"}
  <1>1. /\ Do("end_of_interrupt") \in MicroOps /\ Do("end_of_interrupt")[1] = "end_of_interrupt"
        /\ Do("sti") \in MicroOps /\ Do("sti")[1] = "sti"
        /\ Do("iret") \in MicroOps /\ Do("iret")[1] = "iret"
    BY DoOp DEF OpNames, TaskOps
  <1>2. e \in Seq(MicroOps) /\ Ops(e) = {"end_of_interrupt", "sti", "iret"}
    BY <1>1, Code3
  <1>3. Len(e) = 3 /\ e[1][1] = "end_of_interrupt" /\ e[2][1] = "sti" /\ e[3][1] = "iret"
    BY <1>1
  <1> HIDE DEF e, I
  <1>4. u \in Seq(MicroOps) /\ Ops(u) = Ops(h) \cup Ops(e)
    BY <1>2, ConcatShape, OpsConcat
  <1>5. Ops(h) \cap Enabling = {} /\ Ops(h) \cap Ends = {} /\ Ops(h) \cap I = {}
    BY DEF Enabling, Ends, I
  <1>6. NoneBefore(u, Enabling, Masked(c))
    <2>1. NoneBefore(e, Enabling, Masked(c))
      BY <1>3 DEF NoneBefore, Enabling, Masked
    <2>2. NoneBefore(h, Enabling, Masked(c))
      BY <1>5, NoneBeforeFree
    <2> QED
      BY <1>2, <1>5, <2>1, <2>2, NoneBeforeConcat
  <1>7. NoneBefore(u, Ends, Ends)
    <2>1. NoneBefore(e, Ends, Ends)
      BY <1>3 DEF NoneBefore, Ends
    <2>2. NoneBefore(h, Ends, Ends)
      BY <1>5, NoneBeforeFree
    <2> QED
      BY <1>2, <1>5, <2>1, <2>2, NoneBeforeConcat
  <1>8. Ops(u) \cap I = {}
    BY <1>2, <1>4, <1>5 DEF I
  <1>9. NoneBefore(u, I, OpNames)
    BY <1>8, NoneBeforeFree
  <1>10. WellLocked(u)
    <2>1. "lock" \notin Ops(e)
      BY <1>2
    <2>2. WellLocked(e)
      BY <2>1, WellLockedFree
    <2> QED
      BY <1>2, <2>2, WellLockedConcat
  <1> HIDE DEF u
  <1>11. AtMostOne(u) /\ AtMostTwo(u)
    BY <1>7, OneIsAtMostTwo DEF AtMostOne
  <1>12. Ops(u) \subseteq TaskOps /\ Ops(u) \cap Returning # {}
    BY <1>2, <1>4 DEF TaskOps, Returning
  <1>13. CodeOK(c, u, FALSE)
    BY <1>4, <1>6, <1>9, <1>10, <1>11, <1>12 DEF CodeOK, I
  <1> QED
    BY <1>2, <1>4, <1>13, Zenon DEF u, e

\* syscall_handler, for the system calls tasks make.
LEMMA SyscallCode ==
    ASSUME NEW c, NEW k \in {"write", "badfd", "nosys"}
    PROVE  /\ CodeOK(c, SyscallHandler(k), FALSE)
           /\ Ops(SyscallHandler(k)) \subseteq {"lock", "unlock", "or_panic", "print", "die",
                                                "end_of_interrupt", "sti", "iret"}
  <1> DEFINE h == HandleSyscall(k)
             p == <<Do("print")>>
  <1>1. p \in Seq(MicroOps) /\ Ops(p) = {"print"}
    <2>1. Do("print") \in MicroOps /\ Do("print")[1] = "print"
      BY DoOp DEF OpNames, TaskOps
    <2> QED
      BY <2>1, Code1
  <1>2. WellLocked(p)
    BY <1>1, WellLockedFree
  <1> HIDE DEF p
  <1>3. /\ Alloc \o p \in Seq(MicroOps)
        /\ Ops(Alloc \o p) = {"lock", "unlock", "or_panic", "print"}
        /\ WellLocked(Alloc \o p)
    <2>1. Alloc \o p \in Seq(MicroOps)
      BY <1>1, AllocCode, ConcatShape
    <2>2. Ops(Alloc \o p) = {"lock", "unlock", "or_panic", "print"}
      <3>1. Ops(Alloc \o p) = Ops(Alloc) \cup Ops(p)
        BY <1>1, AllocCode, OpsConcat, Zenon
      <3> QED
        BY <3>1, <1>1, AllocCode
    <2>3. WellLocked(Alloc \o p)
      BY <1>1, <1>2, AllocCode, WellLockedConcat, Zenon
    <2> QED
      BY <2>1, <2>2, <2>3
  <1>4. /\ HandleWrite \in Seq(MicroOps) /\ WellLocked(HandleWrite)
        /\ Ops(HandleWrite) = {"lock", "unlock", "or_panic", "print"}
    <2>1. HandleWrite = (Alloc \o p) \o Dealloc
      BY DEF HandleWrite, p
    <2>2. (Alloc \o p) \o Dealloc \in Seq(MicroOps)
      BY <1>3, DeallocCode, ConcatShape
    <2>3. Ops((Alloc \o p) \o Dealloc) = {"lock", "unlock", "or_panic", "print"}
      BY <1>3, DeallocCode, OpsConcat, Zenon
    <2>4. WellLocked((Alloc \o p) \o Dealloc)
      BY <1>3, DeallocCode, WellLockedConcat, Zenon
    <2> QED
      BY <2>1, <2>2, <2>3, <2>4
  <1>5. WellLocked(Panic)
    BY PanicCode, WellLockedFree
  <1>6. /\ h \in Seq(MicroOps) /\ WellLocked(h)
        /\ Ops(h) \subseteq {"lock", "unlock", "or_panic", "print", "die"}
    <2>1. CASE k = "write"
      BY <1>4, <2>1 DEF HandleSyscall
    <2>2. CASE k = "badfd"
      BY EmptyCode, <2>2 DEF HandleSyscall
    <2>3. CASE k = "nosys"
      BY <1>5, PanicCode, <2>3 DEF HandleSyscall
    <2> QED
      BY <2>1, <2>2, <2>3
  <1> HIDE DEF h
  <1>7. SyscallHandler(k) = h \o <<Do("end_of_interrupt"), Do("sti"), Do("iret")>>
    BY DEF SyscallHandler, h
  <1> DEFINE e == <<Do("end_of_interrupt"), Do("sti"), Do("iret")>>
  <1>8. CodeOK(c, h \o e, FALSE) /\ Ops(h \o e) = Ops(h) \cup {"end_of_interrupt", "sti", "iret"}
    BY <1>6, CallCode, Zenon
  <1>9. SyscallHandler(k) = h \o e
    BY <1>7
  <1> HIDE DEF e
  <1> QED
    BY <1>6, <1>8, <1>9, Zenon

\* A panic, whether interrupts are on or off, and the exception handlers.
LEMMA ExceptionCode ==
    ASSUME NEW c, NEW h \in ExceptionHandlers, NEW flag \in BOOLEAN
    PROVE  CodeOK(c, h, flag) /\ Ops(h) = {"print", "die"}
  <1>1. h \in Seq(MicroOps) /\ Ops(h) = {"print", "die"}
    BY PanicCode DEF ExceptionHandlers
  <1>2. /\ Ops(h) \cap Enabling = {} /\ Ops(h) \cap Ends = {} /\ "lock" \notin Ops(h)
        /\ Ops(h) \cap {"int80", "exception"} = {} /\ Ops(h) \subseteq TaskOps
        /\ Ops(h) \cap Returning # {} /\ Ops(h) \cap Masked(c) = {}
    BY <1>1 DEF Enabling, Ends, TaskOps, Returning, Masked
  <1>3. NoneBefore(h, Enabling, Masked(c))
    BY <1>2, NoneBeforeFree
  <1>4. NoneBefore(h, {"int80", "exception"}, OpNames)
    BY <1>2, NoneBeforeFree
  <1>5. AtMostOne(h)
    BY <1>2, NoneBeforeFree DEF AtMostOne
  <1>6. AtMostTwo(h) /\ WellLocked(h)
    BY <1>2, <1>5, OneIsAtMostTwo, WellLockedFree
  <1> QED
    BY <1>1, <1>2, <1>3, <1>4, <1>5, <1>6 DEF CodeOK

\* One operation that is executed with interrupts on.
LEMMA SingleCode ==
    ASSUME NEW c, NEW op \in {"hlt", "nop", "print", "exception", "int80"}
    PROVE  CodeOK(c, <<Do(op)>>, TRUE) /\ Ops(<<Do(op)>>) = {op}
  <1> DEFINE s == <<Do(op)>>
  <1>1. Do(op) \in MicroOps /\ Do(op)[1] = op
    BY DoOp DEF OpNames, TaskOps
  <1>2. s \in Seq(MicroOps) /\ Ops(s) = {op} /\ Len(s) = 1
    BY <1>1, Code1
  <1> HIDE DEF s
  <1>3. \A A, B : NoneBefore(s, A, B)
    BY <1>2 DEF NoneBefore
  <1>4. NoneBefore(s, Enabling, Masked(c)) /\ NoneBefore(s, {"int80", "exception"}, OpNames)
        /\ AtMostOne(s)
    BY <1>3 DEF AtMostOne
  <1>5. AtMostTwo(s) /\ WellLocked(s)
    BY <1>2, <1>4, OneIsAtMostTwo, WellLockedFree
  <1>6. Ops(s) \cap Masked(c) = {} /\ Ops(s) \subseteq TaskOps
    BY <1>2 DEF Masked, TaskOps
  <1>7. CodeOK(c, s, TRUE)
    BY <1>2, <1>4, <1>5, <1>6 DEF CodeOK
  <1> QED
    BY <1>2, <1>7, Zenon DEF s

\* What a context does when it has nothing left to do.
LEMMA LoopCode ==
    ASSUME NEW c
    PROVE  /\ CodeOK(c, LoopBody(c), TRUE)
           /\ Ops(LoopBody(c)) \subseteq {"hlt", "nop", "print", "die", "exception", "int80"}
           /\ "int80" \in Ops(LoopBody(c)) =>
                 c \notin {BOOT, IDLE} /\ kind[c] \notin {"spin", "print", "panic", "fault"}
  <1>1. ASSUME NEW op \in {"hlt", "nop", "print", "exception", "int80"},
               LoopBody(c) = <<Do(op)>>
        PROVE  CodeOK(c, LoopBody(c), TRUE) /\ Ops(LoopBody(c)) = {op}
    BY <1>1, SingleCode, Zenon
  <1>2. CASE c \in {BOOT, IDLE}
    <2>1. LoopBody(c) = <<Do("hlt")>>
      BY <1>2 DEF LoopBody
    <2>2. CodeOK(c, LoopBody(c), TRUE) /\ Ops(LoopBody(c)) = {"hlt"}
      BY <1>1, <2>1, Zenon
    <2> QED
      BY <2>2, Zenon
  <1>3. CASE c \notin {BOOT, IDLE} /\ kind[c] = "panic"
    <2>1. LoopBody(c) = Panic
      BY <1>3 DEF LoopBody
    <2>2. Panic \in ExceptionHandlers
      BY Zenon DEF ExceptionHandlers
    <2>3. CodeOK(c, LoopBody(c), TRUE) /\ Ops(LoopBody(c)) = {"print", "die"}
      BY <2>1, <2>2, ExceptionCode, Zenon
    <2> QED
      BY <2>3, Zenon
  <1>4. CASE c \notin {BOOT, IDLE} /\ kind[c] \in {"spin", "print", "fault"}
    <2>1. \/ LoopBody(c) = <<Do("nop")>>
          \/ LoopBody(c) = <<Do("print")>>
          \/ LoopBody(c) = <<Do("exception")>>
      BY <1>4 DEF LoopBody
    <2>2. CodeOK(c, LoopBody(c), TRUE) /\ (\/ Ops(LoopBody(c)) = {"nop"}
                                           \/ Ops(LoopBody(c)) = {"print"}
                                           \/ Ops(LoopBody(c)) = {"exception"})
      BY <1>1, <2>1, Zenon
    <2> QED
      BY <2>2, Zenon
  <1>5. CASE c \notin {BOOT, IDLE} /\ kind[c] \notin {"spin", "print", "panic", "fault"}
    <2>1. LoopBody(c) = <<Do("int80")>>
      BY <1>5 DEF LoopBody
    <2>2. CodeOK(c, LoopBody(c), TRUE) /\ Ops(LoopBody(c)) = {"int80"}
      BY <1>1, <2>1, Zenon
    <2> QED
      BY <1>5, <2>2, Zenon
  <1>6. \/ c \in {BOOT, IDLE}
        \/ c \notin {BOOT, IDLE} /\ kind[c] = "panic"
        \/ c \notin {BOOT, IDLE} /\ kind[c] \in {"spin", "print", "fault"}
        \/ c \notin {BOOT, IDLE} /\ kind[c] \notin {"spin", "print", "panic", "fault"}
    OBVIOUS
  <1> QED
    BY <1>2, <1>3, <1>4, <1>5, <1>6, Zenon

\* The initialisation of SCHEDULER.
LEMMA MakeSchedulerCode ==
    /\ MakeScheduler \in Seq(MicroOps)
    /\ Ops(MakeScheduler) = {"lock", "unlock", "or_panic", "scheduler_made"}
  <1> DEFINE a == <<Lock("ONCE")>>
             b == <<Do("scheduler_made"), Unlock("ONCE")>>
  <1>1. /\ Lock("ONCE") \in MicroOps /\ Lock("ONCE")[1] = "lock"
        /\ Unlock("ONCE") \in MicroOps /\ Unlock("ONCE")[1] = "unlock"
    BY LockOp DEF Locks
  <1>2. Do("scheduler_made") \in MicroOps /\ Do("scheduler_made")[1] = "scheduler_made"
    BY DoOp DEF OpNames, BootOps
  <1>3. a \in Seq(MicroOps) /\ Ops(a) = {"lock"}
    BY <1>1, Code1
  <1>4. b \in Seq(MicroOps) /\ Ops(b) = {"scheduler_made", "unlock"}
    BY <1>1, <1>2, Code2
  <1>5. MakeScheduler = (a \o Alloc) \o b
    BY DEF MakeScheduler
  <1> HIDE DEF a, b
  <1>6. a \o Alloc \in Seq(MicroOps) /\ Ops(a \o Alloc) = {"lock", "unlock", "or_panic"}
    <2>1. a \o Alloc \in Seq(MicroOps)
      BY <1>3, AllocCode, ConcatShape
    <2>2. Ops(a \o Alloc) = {"lock", "unlock", "or_panic"}
      BY <1>3, AllocCode, OpsConcat, Zenon
    <2> QED
      BY <2>1, <2>2
  <1>7. (a \o Alloc) \o b \in Seq(MicroOps)
    BY <1>4, <1>6, ConcatShape
  <1>8. Ops((a \o Alloc) \o b) = {"lock", "unlock", "or_panic", "scheduler_made"}
    BY <1>4, <1>6, OpsConcat, Zenon
  <1> QED
    BY <1>5, <1>7, <1>8

\* What kernel_main calls, and the order of what matters of it.
BootCode == {"print", "lock", "unlock", "or_panic", "pit", "lapic_replace", "lapic_enable",
             "pic_disable", "wait_triggered", "frequency", "start_timer_one_shot", "deref_scheduler", "start_process",
             "shell_initialized"}

BootPart(u) ==
    /\ u \in Seq(MicroOps)
    /\ Ops(u) \subseteq BootCode \cup {"init", "install_scheduler"}
    /\ {"init", "lapic_replace"} \subseteq Ops(u)
    /\ NoneBefore(u, Enabling, Masked(BOOT))
    /\ NoneBefore(u, {"install_scheduler", "start_timer_one_shot"}, {"install_scheduler"})
    /\ EachAfter(u, {"lapic_replace"},
                 {"lapic_enable", "install_scheduler", "start_timer_one_shot"})

\* After init_apic, kernel_main may go on with anything but another init_apic.
LEMMA BootAppend ==
    ASSUME NEW u, BootPart(u), NEW t \in Seq(MicroOps), Ops(t) \subseteq BootCode
    PROVE  BootPart(u \o t) /\ Ops(u \o t) = Ops(u) \cup Ops(t)
  <1> DEFINE v == u \o t
             LR == {"lapic_replace"}
             X == {"lapic_enable", "install_scheduler", "start_timer_one_shot"}
             IS == {"install_scheduler", "start_timer_one_shot"}
             I == {"install_scheduler"}
  <1>0. u \in Seq(MicroOps)
    BY DEF BootPart
  <1>1. v \in Seq(MicroOps) /\ Ops(v) = Ops(u) \cup Ops(t)
    BY <1>0, ConcatShape, OpsConcat
  <1>2. /\ Ops(t) \cap Masked(BOOT) = {} /\ Ops(t) \cap I = {} /\ Ops(u) \cap LR # {}
        /\ Ops(v) \subseteq BootCode \cup {"init", "install_scheduler"}
        /\ {"init", "lapic_replace"} \subseteq Ops(v)
    BY <1>1 DEF BootPart, BootCode, Masked
  <1>3. /\ NoneBefore(u, Enabling, Masked(BOOT)) /\ NoneBefore(u, IS, I)
        /\ EachAfter(u, LR, X)
    BY DEF BootPart
  <1> HIDE DEF LR, X, IS, I
  <1>4. NoneBefore(v, Enabling, Masked(BOOT))
    <2>1. NoneBefore(t, Enabling, Masked(BOOT))
      BY <1>2, NoneBeforeFree
    <2> QED
      BY <1>0, <1>2, <1>3, <2>1, NoneBeforeConcat
  <1>5. NoneBefore(v, IS, I)
    <2>1. NoneBefore(t, IS, I)
      BY <1>2, NoneBeforeFree
    <2> QED
      BY <1>0, <1>2, <1>3, <2>1, NoneBeforeConcat
  <1>6. EachAfter(v, LR, X)
    BY <1>0, <1>2, <1>3, EachAfterConcat
  <1> HIDE DEF v
  <1>7. BootPart(v)
    BY <1>1, <1>2, <1>4, <1>5, <1>6 DEF BootPart, LR, X, IS, I
  <1> QED
    BY <1>1, <1>7 DEF v

\* init_apic: the handler is installed at the end, and everything comes after
\* LAPIC has been replaced.
LEMMA InitApicCode ==
    /\ InitApic \in Seq(MicroOps)
    /\ Ops(InitApic) = {"or_panic", "lapic_replace", "pit", "lapic_enable", "pic_disable",
                        "wait_triggered", "print", "frequency", "install_scheduler"}
    /\ NoneBefore(InitApic, {"install_scheduler", "start_timer_one_shot"}, {"install_scheduler"})
    /\ EachAfter(InitApic, {"lapic_replace"},
                 {"lapic_enable", "install_scheduler", "start_timer_one_shot"})
  <1> DEFINE a == <<Do("or_panic"), Do("lapic_replace")>>
             q == <<Do("lapic_enable"), Do("pic_disable"), Do("wait_triggered"), Do("pit"),
                    Do("print"), Do("frequency"), Do("install_scheduler")>>
             LR == {"lapic_replace"}
             X == {"lapic_enable", "install_scheduler", "start_timer_one_shot"}
             IS == {"install_scheduler", "start_timer_one_shot"}
             I == {"install_scheduler"}
  <1>1. \A op \in OpNames : Do(op) \in MicroOps /\ Do(op)[1] = op
    BY DoOp
  <1>2. /\ Do("or_panic") \in MicroOps /\ Do("or_panic")[1] = "or_panic"
        /\ Do("lapic_replace") \in MicroOps /\ Do("lapic_replace")[1] = "lapic_replace"
        /\ Do("pit") \in MicroOps /\ Do("pit")[1] = "pit"
        /\ Do("lapic_enable") \in MicroOps /\ Do("lapic_enable")[1] = "lapic_enable"
        /\ Do("pic_disable") \in MicroOps /\ Do("pic_disable")[1] = "pic_disable"
        /\ Do("wait_triggered") \in MicroOps /\ Do("wait_triggered")[1] = "wait_triggered"
        /\ Do("print") \in MicroOps /\ Do("print")[1] = "print"
        /\ Do("frequency") \in MicroOps /\ Do("frequency")[1] = "frequency"
        /\ Do("install_scheduler") \in MicroOps
        /\ Do("install_scheduler")[1] = "install_scheduler"
    BY <1>1 DEF OpNames, TaskOps, BootOps
  <1>3. a \in Seq(MicroOps) /\ Ops(a) = {"or_panic", "lapic_replace"}
    BY <1>2, Code2
  <1>4. PitWrite \in Seq(MicroOps) /\ Ops(PitWrite) = {"pit"}
    BY <1>2, Code2 DEF PitWrite
  <1>5. /\ q \in Seq(MicroOps)
        /\ Ops(q) = {"lapic_enable", "pic_disable", "wait_triggered", "pit", "print",
                     "frequency", "install_scheduler"}
    <2>1. /\ q \in Seq(MicroOps)
          /\ Ops(q) = {Do("lapic_enable")[1], Do("pic_disable")[1], Do("wait_triggered")[1],
                       Do("pit")[1], Do("print")[1], Do("frequency")[1],
                       Do("install_scheduler")[1]}
      BY <1>2 DEF Ops
    <2> QED
      BY <1>2, <2>1
  <1>6. NoneBefore(q, IS, I)
    <2>1. /\ Len(q) = 7 /\ q[1][1] = "lapic_enable" /\ q[2][1] = "pic_disable"
          /\ q[3][1] = "wait_triggered" /\ q[4][1] = "pit" /\ q[5][1] = "print"
          /\ q[6][1] = "frequency"
      BY <1>2
    <2> HIDE DEF q
    <2>2. ASSUME NEW i \in 1 .. 7, q[i][1] \in IS PROVE i = 7
      <3>1. i = 1 \/ i = 2 \/ i = 3 \/ i = 4 \/ i = 5 \/ i = 6 \/ i = 7
        OBVIOUS
      <3> QED
        BY <2>1, <2>2, <3>1
    <2> QED
      BY <2>1, <2>2 DEF NoneBefore
  <1>7. InitApic = (a \o PitWrite) \o q
    BY DEF InitApic
  <1> DEFINE b == a \o PitWrite
  <1> HIDE DEF a, q
  <1>8. b \in Seq(MicroOps) /\ Ops(b) = {"or_panic", "lapic_replace", "pit"}
    BY <1>3, <1>4, ConcatShape, OpsConcat
  <1> HIDE DEF b
  <1>9. Ops(b) \cap IS = {} /\ Ops(b) \cap I = {} /\ Ops(b) \cap X = {} /\ Ops(b) \cap LR # {}
    BY <1>8
  <1> HIDE DEF LR, X, IS, I
  <1>10. NoneBefore(b, IS, I) /\ EachAfter(b, LR, X)
    BY <1>9, NoneBeforeFree, EachAfterFree
  <1>11. NoneBefore(b \o q, IS, I)
    BY <1>5, <1>6, <1>8, <1>9, <1>10, NoneBeforeConcat
  <1>12. EachAfter(b \o q, LR, X)
    BY <1>5, <1>8, <1>9, <1>10, EachAfterConcat
  <1>13. b \o q \in Seq(MicroOps) /\ Ops(b \o q) = Ops(b) \cup Ops(q)
    BY <1>5, <1>8, ConcatShape, OpsConcat
  <1>14. InitApic = b \o q
    BY <1>7 DEF b
  <1> QED
    BY <1>5, <1>8, <1>11, <1>12, <1>13, <1>14 DEF LR, X, IS, I

\* The pieces of kernel_main.
LEMMA KernelMainPieces ==
    /\ PitWrite \in Seq(MicroOps) /\ Ops(PitWrite) \subseteq BootCode
    /\ StartProc \in Seq(MicroOps) /\ Ops(StartProc) \subseteq BootCode
    /\ ShellInit \in Seq(MicroOps) /\ Ops(ShellInit) \subseteq BootCode
    /\ InitKbHandler \in Seq(MicroOps) /\ Ops(InitKbHandler) \subseteq BootCode
    /\ <<Do("print")>> \in Seq(MicroOps) /\ Ops(<<Do("print")>>) \subseteq BootCode
    /\ /\ <<Do("start_timer_one_shot")>> \in Seq(MicroOps)
       /\ Ops(<<Do("start_timer_one_shot")>>) = {"start_timer_one_shot"}
  <1>1. /\ Do("pit") \in MicroOps /\ Do("pit")[1] = "pit"
        /\ Do("print") \in MicroOps /\ Do("print")[1] = "print"
        /\ Do("start_timer_one_shot") \in MicroOps
        /\ Do("start_timer_one_shot")[1] = "start_timer_one_shot"
        /\ Do("deref_scheduler") \in MicroOps /\ Do("deref_scheduler")[1] = "deref_scheduler"
        /\ Do("start_process") \in MicroOps /\ Do("start_process")[1] = "start_process"
        /\ Do("shell_initialized") \in MicroOps
        /\ Do("shell_initialized")[1] = "shell_initialized"
    BY DoOp DEF OpNames, TaskOps, BootOps
  <1>2. \A l \in {"SCHEDULER", "SHELL", "WRITER", "EVENT_HANDLERS"} :
            /\ Lock(l) \in MicroOps /\ Lock(l)[1] = "lock"
            /\ Unlock(l) \in MicroOps /\ Unlock(l)[1] = "unlock"
    BY LockOp DEF Locks
  <1>3. PitWrite \in Seq(MicroOps) /\ Ops(PitWrite) \subseteq BootCode
    BY <1>1, Code2 DEF PitWrite, BootCode
  <1>4. StartProc \in Seq(MicroOps) /\ Ops(StartProc) \subseteq BootCode
    <2> DEFINE a == <<Do("deref_scheduler"), Lock("SCHEDULER")>>
               b == <<Do("start_process"), Unlock("SCHEDULER")>>
    <2>1. a \in Seq(MicroOps) /\ Ops(a) = {"deref_scheduler", "lock"}
      BY <1>1, <1>2, Code2
    <2>2. b \in Seq(MicroOps) /\ Ops(b) = {"start_process", "unlock"}
      BY <1>1, <1>2, Code2
    <2>3. StartProc = (a \o Alloc) \o b
      BY DEF StartProc
    <2> HIDE DEF a, b
    <2>4. a \o Alloc \in Seq(MicroOps) /\ Ops(a \o Alloc) = Ops(a) \cup Ops(Alloc)
      BY <2>1, AllocCode, ConcatShape, OpsConcat
    <2>5. (a \o Alloc) \o b \in Seq(MicroOps) /\ Ops((a \o Alloc) \o b) = Ops(a \o Alloc) \cup Ops(b)
      BY <2>2, <2>4, ConcatShape, OpsConcat, Zenon
    <2> QED
      BY <2>1, <2>2, <2>3, <2>4, <2>5, AllocCode DEF BootCode
  <1>5. ShellInit \in Seq(MicroOps) /\ Ops(ShellInit) \subseteq BootCode
    <2> DEFINE a == <<Lock("SHELL"), Lock("WRITER"), Do("shell_initialized"),
                      Unlock("WRITER"), Unlock("SHELL")>>
    <2>1. a \in Seq(MicroOps) /\ Ops(a) = {"lock", "shell_initialized", "unlock"}
      <3> DEFINE ls == Lock("SHELL")
                 lw == Lock("WRITER")
                 si == Do("shell_initialized")
                 uw == Unlock("WRITER")
                 us == Unlock("SHELL")
      <3>1. /\ ls \in MicroOps /\ ls[1] = "lock" /\ lw \in MicroOps /\ lw[1] = "lock"
            /\ uw \in MicroOps /\ uw[1] = "unlock" /\ us \in MicroOps /\ us[1] = "unlock"
            /\ si \in MicroOps /\ si[1] = "shell_initialized" /\ a = <<ls, lw, si, uw, us>>
        BY <1>1, <1>2
      <3> HIDE DEF a, ls, lw, si, uw, us
      <3>2. a \in Seq(MicroOps) /\ Ops(a) = {ls[1], lw[1], si[1], uw[1], us[1]}
        BY <3>1, Code5
      <3> QED
        BY <3>1, <3>2
    <2>2. ShellInit = Alloc \o a
      BY DEF ShellInit
    <2> HIDE DEF a
    <2>3. Alloc \o a \in Seq(MicroOps) /\ Ops(Alloc \o a) = Ops(Alloc) \cup Ops(a)
      BY <2>1, AllocCode, ConcatShape, OpsConcat
    <2> QED
      BY <2>1, <2>2, <2>3, AllocCode DEF BootCode
  <1>6. InitKbHandler \in Seq(MicroOps) /\ Ops(InitKbHandler) \subseteq BootCode
    <2> DEFINE a == <<Lock("EVENT_HANDLERS")>>
               b == <<Unlock("EVENT_HANDLERS")>>
    <2>1. a \in Seq(MicroOps) /\ Ops(a) = {"lock"}
      BY <1>2, Code1
    <2>2. b \in Seq(MicroOps) /\ Ops(b) = {"unlock"}
      BY <1>2, Code1
    <2>3. InitKbHandler = (a \o Alloc) \o b
      BY DEF InitKbHandler
    <2> HIDE DEF a, b
    <2>4. a \o Alloc \in Seq(MicroOps) /\ Ops(a \o Alloc) = Ops(a) \cup Ops(Alloc)
      BY <2>1, AllocCode, ConcatShape, OpsConcat, Zenon
    <2>5. (a \o Alloc) \o b \in Seq(MicroOps) /\ Ops((a \o Alloc) \o b) = Ops(a \o Alloc) \cup Ops(b)
      BY <2>2, <2>4, ConcatShape, OpsConcat, Zenon
    <2> QED
      BY <2>1, <2>2, <2>3, <2>4, <2>5, AllocCode DEF BootCode
  <1>7. <<Do("print")>> \in Seq(MicroOps) /\ Ops(<<Do("print")>>) \subseteq BootCode
    BY <1>1, Code1 DEF BootCode
  <1>8. /\ <<Do("start_timer_one_shot")>> \in Seq(MicroOps)
        /\ Ops(<<Do("start_timer_one_shot")>>) = {"start_timer_one_shot"}
    BY <1>1, Code1
  <1> QED
    BY <1>3, <1>4, <1>5, <1>6, <1>7, <1>8

\* kernel_main up to and with init_apic.
LEMMA BootStart ==
    BootPart(((<<Do("print"), Do("init"), Do("print")>> \o MemorySetup) \o Alloc) \o InitApic)
  <1> DEFINE a == <<Do("print"), Do("init"), Do("print")>>
             LR == {"lapic_replace"}
             X == {"lapic_enable", "install_scheduler", "start_timer_one_shot"}
             IS == {"install_scheduler", "start_timer_one_shot"}
             I == {"install_scheduler"}
             M == Masked(BOOT)
  <1>1. /\ Do("print") \in MicroOps /\ Do("print")[1] = "print"
        /\ Do("init") \in MicroOps /\ Do("init")[1] = "init"
    BY DoOp DEF OpNames, TaskOps, BootOps
  <1>2. a \in Seq(MicroOps) /\ Ops(a) = {"print", "init"}
    BY <1>1, Code3
  <1>3. NoneBefore(a, Enabling, M)
    <2>1. Len(a) = 3 /\ a[1][1] = "print" /\ a[2][1] = "init" /\ a[3][1] = "print"
      BY <1>1
    <2> HIDE DEF a
    <2> QED
      BY <2>1 DEF NoneBefore, Enabling, Masked
  <1> HIDE DEF a, M
  <1>4. Ops(Alloc) \cap M = {} /\ Ops(MemorySetup) \cap M = {}
    BY AllocCode DEF M, Masked
  <1>5. NoneBefore(Alloc, Enabling, M) /\ NoneBefore(MemorySetup, Enabling, M)
    BY <1>4, NoneBeforeFree
  <1> DEFINE b == a \o MemorySetup
             d == b \o Alloc
             u == d \o InitApic
  <1>6. b \in Seq(MicroOps) /\ Ops(b) = {"print", "init", "lock", "unlock", "or_panic"}
    <2>1. b \in Seq(MicroOps)
      BY <1>2, AllocCode, ConcatShape
    <2>2. Ops(b) = {"print", "init", "lock", "unlock", "or_panic"}
      <3>1. Ops(b) = Ops(a) \cup Ops(MemorySetup)
        BY <1>2, AllocCode, OpsConcat, Zenon
      <3> QED
        BY <3>1, <1>2, AllocCode
    <2> QED
      BY <2>1, <2>2
  <1>7. NoneBefore(b, Enabling, M)
    BY <1>2, <1>3, <1>4, <1>5, AllocCode, NoneBeforeConcat
  <1> HIDE DEF b
  <1>8. d \in Seq(MicroOps) /\ Ops(d) = {"print", "init", "lock", "unlock", "or_panic"}
    BY <1>6, AllocCode, ConcatShape, OpsConcat
  <1>9. NoneBefore(d, Enabling, M)
    BY <1>4, <1>5, <1>6, <1>7, AllocCode, NoneBeforeConcat
  <1> HIDE DEF d
  <1>10. u \in Seq(MicroOps) /\ Ops(u) = Ops(d) \cup Ops(InitApic)
    BY <1>8, InitApicCode, ConcatShape, OpsConcat
  <1>11. NoneBefore(u, Enabling, M)
    <2>1. Ops(InitApic) \cap M = {}
      BY InitApicCode DEF M, Masked
    <2>2. NoneBefore(InitApic, Enabling, M)
      BY <2>1, NoneBeforeFree
    <2> QED
      BY <1>8, <1>9, <2>1, <2>2, InitApicCode, NoneBeforeConcat
  <1>12. Ops(d) \cap IS = {} /\ Ops(d) \cap I = {} /\ Ops(d) \cap X = {}
    BY <1>8
  <1>13. NoneBefore(InitApic, IS, I) /\ EachAfter(InitApic, LR, X)
    BY InitApicCode
  <1> HIDE DEF LR, X, IS, I
  <1>14. NoneBefore(u, IS, I)
    <2>1. NoneBefore(d, IS, I)
      BY <1>12, NoneBeforeFree
    <2> QED
      BY <1>8, <1>12, <1>13, <2>1, InitApicCode, NoneBeforeConcat
  <1>15. EachAfter(u, LR, X)
    <2>1. EachAfter(d, LR, X)
      BY <1>12, EachAfterFree
    <2> QED
      BY <1>8, <1>13, <2>1, InitApicCode, EachAfterConcat
  <1> HIDE DEF u
  <1>16. BootPart(u)
    BY <1>8, <1>10, <1>11, <1>14, <1>15, InitApicCode DEF BootPart, BootCode, LR, X, IS, I, M
  <1> QED
    BY <1>16 DEF u, d, b, a

\* kernel_main.
LEMMA KernelMainCode ==
    BootPart(KernelMain) /\ "start_timer_one_shot" \in Ops(KernelMain)
  <1> DEFINE u0 == ((<<Do("print"), Do("init"), Do("print")>> \o MemorySetup) \o Alloc) \o InitApic
             u1 == u0 \o PitWrite
             u2 == u1 \o <<Do("start_timer_one_shot")>>
             u3 == u2 \o StartProc
             u4 == u3 \o StartProc
             u5 == u4 \o <<Do("print")>>
             u6 == u5 \o ShellInit
             u7 == u6 \o InitKbHandler
  <1>1. KernelMain = u7
    BY DEF KernelMain
  <1>2. BootPart(u0)
    BY BootStart
  <1> HIDE DEF u0
  <1>3. BootPart(u1)
    BY <1>2, KernelMainPieces, BootAppend
  <1> HIDE DEF u1
  <1>4. BootPart(u2) /\ "start_timer_one_shot" \in Ops(u2)
    BY <1>3, KernelMainPieces, BootAppend, Zenon DEF BootCode
  <1> HIDE DEF u2
  <1>5. BootPart(u3) /\ "start_timer_one_shot" \in Ops(u3)
    BY <1>4, KernelMainPieces, BootAppend
  <1> HIDE DEF u3
  <1>6. BootPart(u4) /\ "start_timer_one_shot" \in Ops(u4)
    BY <1>5, KernelMainPieces, BootAppend
  <1> HIDE DEF u4
  <1>7. BootPart(u5) /\ "start_timer_one_shot" \in Ops(u5)
    BY <1>6, KernelMainPieces, BootAppend, Zenon
  <1> HIDE DEF u5
  <1>8. BootPart(u6) /\ "start_timer_one_shot" \in Ops(u6)
    BY <1>7, KernelMainPieces, BootAppend
  <1> HIDE DEF u6
  <1>9. BootPart(u7) /\ "start_timer_one_shot" \in Ops(u7)
    BY <1>8, KernelMainPieces, BootAppend
  <1> QED
    BY <1>1, <1>9
-----------------------------------------------------------------------------
(* The locks of kernel_main, which it takes with interrupts on.            *)

\* The operation m takes the lock l, gives it back, or, as the first use of
\* SCHEDULER does, both.
Makes(m, l) == m[1] = "deref_scheduler" /\ l \in {"ONCE", "ALLOCATOR"}
Takes(m, l) == m = Lock(l) \/ Makes(m, l)
Gives(m, l) == m = Unlock(l) \/ Makes(m, l)

\* A lock that is taken is given back before it is taken again.
InTurn(s) ==
    \A l \in Locks : \A i \in 1 .. Len(s) : Takes(s[i], l) =>
        \E j \in 1 .. Len(s) :
            /\ i <= j /\ Gives(s[j], l)
            /\ \A m \in 1 .. Len(s) : i < m /\ m <= j => ~Takes(s[m], l)

\* Before s takes a lock of H, which it holds already, it gives it back; or it
\* comes to the lock with interrupts off, if they are off now.
Available(s, H, off) ==
    \A l \in H : \A i \in 1 .. Len(s) : Takes(s[i], l) =>
        \/ \E j \in 1 .. Len(s) : j < i /\ Gives(s[j], l)
        \/ /\ off /\ s[i][1] = "lock"
           /\ \A m \in 1 .. Len(s) : m < i => s[m][1] \notin Enabling

\* Only these operations take and give back.
LEMMA TakesOps ==
    /\ \A m, l : Takes(m, l) => m[1] \in {"lock", "deref_scheduler"}
    /\ \A m, l : Gives(m, l) => m[1] \in {"unlock", "deref_scheduler"}
  BY DEF Takes, Gives, Makes, Lock, Unlock

\* A sequence that takes nothing.
LEMMA InTurnFree ==
    ASSUME NEW s, Ops(s) \cap {"lock", "deref_scheduler"} = {}
    PROVE  InTurn(s) /\ \A H, off : Available(s, H, off)
  <1>1. ASSUME NEW l, NEW i \in 1 .. Len(s) PROVE ~Takes(s[i], l)
    <2>1. s[i][1] \in Ops(s)
      BY DEF Ops
    <2> QED
      BY <2>1, TakesOps
  <1> QED
    BY <1>1, Zenon DEF InTurn, Available

\* What is put together of sequences that take their locks in turn does so.
LEMMA InTurnConcat ==
    ASSUME NEW r \in Seq(MicroOps), NEW t \in Seq(MicroOps), InTurn(r), InTurn(t)
    PROVE  InTurn(r \o t)
  <1> DEFINE u == r \o t
             Back(v, l, i, j) ==
                 /\ i <= j /\ Gives(v[j], l)
                 /\ \A m \in 1 .. Len(v) : i < m /\ m <= j => ~Takes(v[m], l)
  <1> SUFFICES ASSUME NEW l \in Locks, NEW i \in 1 .. Len(u), Takes(u[i], l)
               PROVE  \E j \in 1 .. Len(u) : Back(u, l, i, j)
    BY Zenon DEF InTurn
  <1>1. CASE i <= Len(r)
    <2>1. i \in 1 .. Len(r) /\ u[i] = r[i]
      BY <1>1, ConcatShape
    <2>2. PICK j \in 1 .. Len(r) : Back(r, l, i, j)
      BY <2>1, Zenon DEF InTurn
    <2>3. j \in 1 .. Len(u) /\ u[j] = r[j]
      BY ConcatShape
    <2>4. ASSUME NEW m \in 1 .. Len(u), i < m, m <= j PROVE ~Takes(u[m], l)
      <3>1. m \in 1 .. Len(r) /\ u[m] = r[m]
        BY <2>4, ConcatShape
      <3> QED
        BY <2>2, <2>4, <3>1, Zenon
    <2> QED
      BY <2>2, <2>3, <2>4, Zenon
  <1>2. CASE i > Len(r)
    <2> DEFINE n == Len(r)
               a == i - n
    <2>1. n \in Nat /\ a \in 1 .. Len(t) /\ u[i] = t[a]
      BY <1>2, ConcatShape
    <2>2. PICK b \in 1 .. Len(t) : Back(t, l, a, b)
      BY <2>1, Zenon DEF InTurn
    <2>3. b + n \in 1 .. Len(u) /\ u[b + n] = t[b] /\ i <= b + n
      <3>1. a <= b
        BY <2>2
      <3> QED
        BY <2>1, <3>1, ConcatShape
    <2>4. ASSUME NEW m \in 1 .. Len(u), i < m, m <= b + n PROVE ~Takes(u[m], l)
      <3>1. m - n \in 1 .. Len(t) /\ u[m] = t[m - n] /\ a < m - n /\ m - n <= b
        BY <1>2, <2>1, <2>4, ConcatShape
      <3> QED
        BY <2>2, <3>1, Zenon
    <2> QED
      BY <2>2, <2>3, <2>4, Zenon
  <1>3. i <= Len(r) \/ i > Len(r)
    BY ConcatShape
  <1> QED
    BY <1>1, <1>2, <1>3, Zenon

\* What is behind the first operation takes its locks in turn; a lock that the
\* first operation takes is available again.
LEMMA InTurnTail ==
    ASSUME NEW s \in Seq(MicroOps), s # <<>>, InTurn(s)
    PROVE  /\ InTurn(Tail(s))
           /\ \A l \in Locks : s[1] = Lock(l) => \A off : Available(Tail(s), {l}, off)
  <1> DEFINE t == Tail(s)
             Back(v, l, i, j) ==
                 /\ i <= j /\ Gives(v[j], l)
                 /\ \A m \in 1 .. Len(v) : i < m /\ m <= j => ~Takes(v[m], l)
  <1>0. /\ t \in Seq(MicroOps) /\ Len(s) \in Nat /\ Len(s) > 0 /\ Len(t) = Len(s) - 1
        /\ \A i \in 1 .. Len(t) : t[i] = s[i + 1]
    BY TailShape
  <1>1. ASSUME NEW l \in Locks, NEW i \in 1 .. Len(t), Takes(t[i], l)
        PROVE  \E j \in 1 .. Len(t) : Back(t, l, i, j)
    <2>1. i + 1 \in 1 .. Len(s) /\ t[i] = s[i + 1]
      BY <1>0
    <2>2. PICK b \in 1 .. Len(s) : Back(s, l, i + 1, b)
      BY <1>1, <2>1, Zenon DEF InTurn
    <2>3. b - 1 \in 1 .. Len(t) /\ t[b - 1] = s[b] /\ i <= b - 1
      <3>1. i + 1 <= b
        BY <2>2
      <3> QED
        BY <1>0, <3>1
    <2>4. ASSUME NEW m \in 1 .. Len(t), i < m, m <= b - 1 PROVE ~Takes(t[m], l)
      <3>1. m + 1 \in 1 .. Len(s) /\ t[m] = s[m + 1] /\ i + 1 < m + 1 /\ m + 1 <= b
        BY <1>0, <2>4
      <3> QED
        BY <2>2, <3>1, Zenon
    <2> QED
      BY <2>2, <2>3, <2>4, Zenon
  <1>2. ASSUME NEW l \in Locks, s[1] = Lock(l), NEW i \in 1 .. Len(t), Takes(t[i], l)
        PROVE  \E j \in 1 .. Len(t) : j < i /\ Gives(t[j], l)
    <2>1. 1 \in 1 .. Len(s) /\ Takes(s[1], l) /\ ~Gives(s[1], l)
      BY <1>0, <1>2 DEF Takes, Gives, Makes, Lock, Unlock
    <2>2. PICK b \in 1 .. Len(s) : Back(s, l, 1, b)
      BY <2>1, Zenon DEF InTurn
    <2>3. i + 1 \in 1 .. Len(s) /\ t[i] = s[i + 1] /\ 1 < i + 1
      BY <1>0
    <2>4. ~(i + 1 <= b)
      BY <1>2, <2>2, <2>3, Zenon
    <2>5. b # 1
      BY <2>1, <2>2
    <2>6. b - 1 \in 1 .. Len(t) /\ t[b - 1] = s[b] /\ b - 1 < i
      BY <1>0, <2>3, <2>4, <2>5
    <2> QED
      BY <2>2, <2>6, Zenon
  <1>3. InTurn(t)
    BY <1>1, Zenon DEF InTurn
  <1> QED
    BY <1>2, <1>3, Zenon DEF Available

\* r, put before t, may spoil what t relies on only by turning interrupts on.
LEMMA AvailableConcat ==
    ASSUME NEW r \in Seq(MicroOps), NEW t \in Seq(MicroOps), NEW H, NEW off, NEW was,
           Available(r, H, off), Available(t, H, was),
           was => off /\ Ops(r) \cap Enabling = {}
    PROVE  Available(r \o t, H, off)
  <1> DEFINE u == r \o t
             n == Len(r)
             Back(v, l, i) == \E j \in 1 .. Len(v) : j < i /\ Gives(v[j], l)
             Off(v, i) == /\ v[i][1] = "lock"
                          /\ \A m \in 1 .. Len(v) : m < i => v[m][1] \notin Enabling
  <1> SUFFICES ASSUME NEW l \in H, NEW i \in 1 .. Len(u), Takes(u[i], l)
               PROVE  Back(u, l, i) \/ (off /\ Off(u, i))
    BY Zenon DEF Available
  <1>1. CASE i <= n
    <2>1. i \in 1 .. n /\ u[i] = r[i]
      BY <1>1, ConcatShape
    <2>2. Back(r, l, i) \/ (off /\ Off(r, i))
      BY <2>1, Zenon DEF Available
    <2>3. ASSUME Back(r, l, i) PROVE Back(u, l, i)
      <3>1. PICK j \in 1 .. n : j < i /\ Gives(r[j], l)
        BY <2>3
      <3>2. j \in 1 .. Len(u) /\ u[j] = r[j]
        BY ConcatShape
      <3> QED
        BY <3>1, <3>2, Zenon
    <2>4. ASSUME Off(r, i) PROVE Off(u, i)
      <3>1. ASSUME NEW m \in 1 .. Len(u), m < i PROVE u[m][1] \notin Enabling
        <4>1. m \in 1 .. n /\ u[m] = r[m]
          BY <1>1, <3>1, ConcatShape
        <4> QED
          BY <2>4, <3>1, <4>1, Zenon
      <3> QED
        BY <2>1, <2>4, <3>1, Zenon
    <2> QED
      BY <2>2, <2>3, <2>4, Zenon
  <1>2. CASE i > n
    <2> DEFINE a == i - n
    <2>1. n \in Nat /\ a \in 1 .. Len(t) /\ u[i] = t[a]
      BY <1>2, ConcatShape
    <2>2. Back(t, l, a) \/ (was /\ Off(t, a))
      BY <2>1, Zenon DEF Available
    <2>3. ASSUME Back(t, l, a) PROVE Back(u, l, i)
      <3>1. PICK j \in 1 .. Len(t) : j < a /\ Gives(t[j], l)
        BY <2>3
      <3>2. j + n \in 1 .. Len(u) /\ u[j + n] = t[j] /\ j + n < i
        BY <2>1, <3>1, ConcatShape
      <3> QED
        BY <3>1, <3>2, Zenon
    <2>4. ASSUME was, Off(t, a) PROVE Off(u, i)
      <3>1. ASSUME NEW m \in 1 .. Len(u), m < i PROVE u[m][1] \notin Enabling
        <4>1. CASE m <= n
          <5>1. m \in 1 .. n /\ u[m] = r[m]
            BY <4>1, ConcatShape
          <5>2. u[m][1] \in Ops(r)
            BY <5>1 DEF Ops
          <5> QED
            BY <2>4, <5>2
        <4>2. CASE m > n
          <5>1. m - n \in 1 .. Len(t) /\ u[m] = t[m - n] /\ m - n < a
            BY <2>1, <3>1, <4>2, ConcatShape
          <5> QED
            BY <2>4, <5>1, Zenon
        <4>3. m <= n \/ m > n
          BY <2>1
        <4> QED
          BY <4>1, <4>2, <4>3, Zenon
      <3> QED
        BY <2>1, <2>4, <3>1, Zenon
    <2> QED
      BY <2>2, <2>3, <2>4, Zenon
  <1>3. i <= n \/ i > n
    BY ConcatShape
  <1> QED
    BY <1>1, <1>2, <1>3, Zenon

\* The first operation gives back none of the locks of H that are still held.
LEMMA AvailableTail ==
    ASSUME NEW s \in Seq(MicroOps), s # <<>>, NEW H, NEW K, NEW off, NEW was,
           Available(s, H, was), K \subseteq H, \A l \in K : ~Gives(s[1], l),
           was /\ s[1][1] \notin Enabling => off
    PROVE  Available(Tail(s), K, off)
  <1> DEFINE t == Tail(s)
  <1> SUFFICES ASSUME NEW l \in K, NEW i \in 1 .. Len(t), Takes(t[i], l)
               PROVE  \/ \E j \in 1 .. Len(t) : j < i /\ Gives(t[j], l)
                      \/ /\ off /\ t[i][1] = "lock"
                         /\ \A m \in 1 .. Len(t) : m < i => t[m][1] \notin Enabling
    BY Zenon DEF Available
  <1>0. /\ t \in Seq(MicroOps) /\ Len(s) \in Nat /\ Len(s) > 0 /\ Len(t) = Len(s) - 1
        /\ \A k \in 1 .. Len(t) : t[k] = s[k + 1]
    BY TailShape
  <1>1. i + 1 \in 1 .. Len(s) /\ t[i] = s[i + 1]
    BY <1>0
  <1>2. \/ \E j \in 1 .. Len(s) : j < i + 1 /\ Gives(s[j], l)
        \/ /\ was /\ s[i + 1][1] = "lock"
           /\ \A m \in 1 .. Len(s) : m < i + 1 => s[m][1] \notin Enabling
    BY <1>1, Zenon DEF Available
  <1>3. ASSUME NEW j \in 1 .. Len(s), j < i + 1, Gives(s[j], l)
        PROVE  \E k \in 1 .. Len(t) : k < i /\ Gives(t[k], l)
    <2>1. j # 1
      BY <1>3
    <2>2. j - 1 \in 1 .. Len(t) /\ t[j - 1] = s[j] /\ j - 1 < i
      BY <1>0, <1>1, <1>3, <2>1
    <2> QED
      BY <1>3, <2>2, Zenon
  <1>4. ASSUME was, s[i + 1][1] = "lock",
               \A m \in 1 .. Len(s) : m < i + 1 => s[m][1] \notin Enabling
        PROVE  /\ off /\ t[i][1] = "lock"
               /\ \A m \in 1 .. Len(t) : m < i => t[m][1] \notin Enabling
    <2>1. 1 \in 1 .. Len(s) /\ 1 < i + 1
      BY <1>0
    <2>2. off
      BY <1>4, <2>1, Zenon
    <2>3. ASSUME NEW m \in 1 .. Len(t), m < i PROVE t[m][1] \notin Enabling
      <3>1. m + 1 \in 1 .. Len(s) /\ m + 1 < i + 1 /\ t[m] = s[m + 1]
        BY <1>0, <2>3
      <3> QED
        BY <1>4, <3>1, Zenon
    <2> QED
      BY <1>1, <1>4, <2>2, <2>3, Zenon
  <1> QED
    BY <1>2, <1>3, <1>4, Zenon

\* Locks that are well locked are taken in turn, and taken with interrupts off
\* if they are off before.
LEMMA WellLockedInTurn ==
    ASSUME NEW s \in Seq(MicroOps), Ops(s) \subseteq {"lock", "unlock"}, WellLocked(s)
    PROVE  InTurn(s) /\ \A H : Available(s, H, TRUE)
  <1>0. \A i \in 1 .. Len(s) : s[i] \in MicroOps /\ s[i][1] \in {"lock", "unlock"}
    BY OpsAreNames, Zenon DEF Ops
  <1>1. ASSUME NEW l \in Locks, NEW i \in 1 .. Len(s), Takes(s[i], l)
        PROVE  \E j \in 1 .. Len(s) :
                  /\ i <= j /\ Gives(s[j], l)
                  /\ \A m \in 1 .. Len(s) : i < m /\ m <= j => ~Takes(s[m], l)
    <2>1. s[i] = Lock(l) /\ s[i][1] = "lock" /\ s[i][2] = l
      BY <1>0, <1>1 DEF Takes, Makes, Lock
    <2>2. PICK j \in 1 .. Len(s) :
             /\ i < j /\ s[j] = Unlock(s[i][2])
             /\ \A m \in 1 .. Len(s) :
                   i < m /\ m < j => s[m][1] \in {"lock", "unlock"} /\ s[m] # s[i]
      BY <2>1 DEF WellLocked
    <2>3. Gives(s[j], l) /\ ~Takes(s[j], l)
      BY <2>1, <2>2 DEF Gives, Takes, Makes, Lock, Unlock
    <2>4. ASSUME NEW m \in 1 .. Len(s), i < m, m <= j PROVE ~Takes(s[m], l)
      <3>1. m = j \/ m < j
        BY <2>4
      <3>2. CASE m < j
        BY <1>0, <2>1, <2>2, <2>4, <3>2 DEF Takes, Makes
      <3> QED
        BY <2>3, <3>1, <3>2, Zenon
    <2>5. i <= j
      BY <2>2
    <2> QED
      BY <2>3, <2>4, <2>5, Zenon
  <1>2. ASSUME NEW H, NEW l \in H, NEW i \in 1 .. Len(s), Takes(s[i], l)
        PROVE  /\ s[i][1] = "lock"
               /\ \A m \in 1 .. Len(s) : m < i => s[m][1] \notin Enabling
    BY <1>0, <1>2, TakesOps DEF Enabling
  <1> QED
    BY <1>1, <1>2, Zenon DEF InTurn, Available

\* Code that takes no lock but with its first two operations.
LEMMA NestedTakes ==
    ASSUME NEW s, NEW a, NEW b, s[1] = Lock(a), s[2] = Lock(b),
           \A m \in 1 .. Len(s) : 2 < m => s[m][1] \notin {"lock", "deref_scheduler"},
           NEW l, NEW i \in 1 .. Len(s), Takes(s[i], l), Len(s) \in Nat
    PROVE  (i = 1 /\ l = a) \/ (i = 2 /\ l = b)
  <1>1. i = 1 \/ i = 2 \/ 2 < i
    OBVIOUS
  <1>2. ~(2 < i)
    BY TakesOps, Zenon
  <1>3. \A k : Lock(k)[1] # "deref_scheduler" /\ Lock(k)[2] = k
    BY DEF Lock
  <1>4. s[i] = Lock(l)
    BY <1>1, <1>2, <1>3 DEF Takes, Makes
  <1> QED
    BY <1>1, <1>2, <1>3, <1>4

\* The lock b is taken inside the lock a.
Nested(s, a, b, p, n) ==
    /\ p \in Nat /\ n \in Nat /\ n = Len(s) /\ 2 < p /\ p < n
    /\ a \in Locks /\ b \in Locks /\ a # b
    /\ s[1] = Lock(a) /\ s[2] = Lock(b) /\ s[p] = Unlock(b) /\ s[n] = Unlock(a)
    /\ \A m \in 1 .. n : 2 < m => s[m][1] \notin {"lock", "deref_scheduler"}

\* Both are taken in turn.
LEMMA NestedInTurn ==
    ASSUME NEW s \in Seq(MicroOps), NEW a, NEW b, NEW p, NEW n, Nested(s, a, b, p, n)
    PROVE  InTurn(s)
  <1> USE DEF Nested
  <1>1. ASSUME NEW l, NEW i \in 1 .. n, Takes(s[i], l)
        PROVE  (i = 1 /\ l = a) \/ (i = 2 /\ l = b)
    BY <1>1, NestedTakes, Zenon
  <1>2. ASSUME NEW l \in Locks, NEW i \in 1 .. n, Takes(s[i], l)
        PROVE  \E j \in 1 .. n :
                  /\ i <= j /\ Gives(s[j], l)
                  /\ \A m \in 1 .. n : i < m /\ m <= j => ~Takes(s[m], l)
    <2>1. CASE i = 1 /\ l = a
      <3>1. n \in 1 .. n /\ i <= n /\ Gives(s[n], l)
        BY <2>1 DEF Gives
      <3>2. ASSUME NEW m \in 1 .. n, i < m PROVE ~Takes(s[m], l)
        <4>1. m # 1
          BY <2>1, <3>2
        <4> QED
          BY <1>1, <2>1, <4>1, Zenon
      <3> QED
        BY <3>1, <3>2, Zenon
    <2>2. CASE i = 2 /\ l = b
      <3>1. p \in 1 .. n /\ i <= p /\ Gives(s[p], l)
        BY <2>2 DEF Gives
      <3>2. ASSUME NEW m \in 1 .. n, i < m PROVE ~Takes(s[m], l)
        <4>1. m # 2
          BY <2>2, <3>2
        <4> QED
          BY <1>1, <2>2, <4>1, Zenon
      <3> QED
        BY <3>1, <3>2, Zenon
    <2> QED
      BY <1>1, <1>2, <2>1, <2>2, Zenon
  <1> QED
    BY <1>1, <1>2, Zenon DEF InTurn

\* Neither giving back a lock nor what has no argument takes one.
LEMMA FirstOp ==
    /\ \A l : Unlock(l)[1] = "unlock" /\ Lock(l)[1] = "lock"
    /\ \A op : Do(op)[1] = op
  BY Zenon DEF Unlock, Lock, Do

\* An allocation, a deallocation and memory::setup.
LEMMA AllocTurn == InTurn(Dealloc) /\ InTurn(Alloc) /\ InTurn(MemorySetup)
  <1> DEFINE p == <<Do("or_panic")>>
  <1>1. InTurn(Dealloc)
    BY DeallocCode, WellLockedInTurn, Zenon
  <1>2. p \in Seq(MicroOps) /\ Ops(p) = {"or_panic"}
    BY OrPanicCode, Zenon
  <1>3. Alloc = Dealloc \o p /\ MemorySetup = p \o Dealloc
    BY AllocParts
  <1> HIDE DEF p
  <1>4. InTurn(p)
    <2>1. Ops(p) \cap {"lock", "deref_scheduler"} = {}
      BY <1>2
    <2> QED
      BY <2>1, InTurnFree
  <1> QED
    BY <1>1, <1>2, <1>3, <1>4, DeallocCode, InTurnConcat, Zenon

\* The initialisation of SCHEDULER allocates under ONCE.
LEMMA MakeSchedulerTurn ==
    /\ InTurn(MakeScheduler)
    /\ \A l : \A i \in 1 .. Len(MakeScheduler) :
          Takes(MakeScheduler[i], l) => l \in {"ONCE", "ALLOCATOR"}
  <1> DEFINE s == MakeScheduler
  <1>2. /\ Len(s) = 6 /\ s[1] = Lock("ONCE") /\ s[2] = Lock("ALLOCATOR")
        /\ s[3] = Unlock("ALLOCATOR") /\ s[4] = Do("or_panic") /\ s[5] = Do("scheduler_made")
        /\ s[6] = Unlock("ONCE")
    BY DEF MakeScheduler, Alloc
  <1>3. s \in Seq(MicroOps)
    BY MakeSchedulerCode
  <1> HIDE DEF s
  <1>4. \A m \in 1 .. 6 : 2 < m => s[m][1] \notin {"lock", "deref_scheduler"}
    <2>1. \A m \in 1 .. Len(s) : m = 1 \/ m = 2 \/ m = 3 \/ m = 4 \/ m = 5 \/ m = 6
      BY <1>2
    <2> QED
      BY <1>2, <2>1, FirstOp
  <1>5. "ONCE" \in Locks /\ "ALLOCATOR" \in Locks
    BY DEF Locks
  <1>6. Nested(s, "ONCE", "ALLOCATOR", 3, 6)
    BY <1>2, <1>4, <1>5 DEF Nested
  <1>7. InTurn(s)
    BY <1>3, <1>6, NestedInTurn
  <1>8. ASSUME NEW l, NEW i \in 1 .. Len(s), Takes(s[i], l)
        PROVE  l \in {"ONCE", "ALLOCATOR"}
    <2> DEFINE a == "ONCE"
               b == "ALLOCATOR"
    <2>1. /\ s[1] = Lock(a) /\ s[2] = Lock(b) /\ Len(s) \in Nat
          /\ \A m \in 1 .. Len(s) : 2 < m => s[m][1] \notin {"lock", "deref_scheduler"}
      BY <1>2, <1>4
    <2> HIDE DEF a, b
    <2>2. (i = 1 /\ l = a) \/ (i = 2 /\ l = b)
      BY <1>8, <2>1, NestedTakes, Zenon
    <2> QED
      BY <2>2 DEF a, b
  <1> QED
    BY <1>7, <1>8 DEF s

\* start_proc, Shell::init and init_kb_handler.
LEMMA BootLocksTurn == InTurn(StartProc) /\ InTurn(ShellInit) /\ InTurn(InitKbHandler)
  <1>0. {"ALLOCATOR", "SCHEDULER", "SHELL", "WRITER", "EVENT_HANDLERS"} \subseteq Locks
    BY DEF Locks
  <1>1. InTurn(StartProc)
    <2> DEFINE d == <<Do("deref_scheduler")>>
               s == <<Lock("SCHEDULER"), Lock("ALLOCATOR"), Unlock("ALLOCATOR"),
                      Do("or_panic"), Do("start_process"), Unlock("SCHEDULER")>>
    <2>1. StartProc = d \o s
      BY DEF StartProc, Alloc
    <2>2. /\ Do("deref_scheduler") \in MicroOps /\ Do("start_process") \in MicroOps
          /\ Do("or_panic") \in MicroOps
      BY DoOp DEF OpNames, TaskOps, BootOps
    <2>3. \A l \in Locks : Lock(l) \in MicroOps /\ Unlock(l) \in MicroOps
      BY LockOp
    <2>4. d \in Seq(MicroOps) /\ s \in Seq(MicroOps)
      BY <1>0, <2>2, <2>3
    <2>5. InTurn(d)
      <3>1. Len(d) = 1 /\ d[1] = Do("deref_scheduler")
        OBVIOUS
      <3> HIDE DEF d
      <3>2. ASSUME NEW l, Takes(d[1], l) PROVE Gives(d[1], l)
        BY <3>1, <3>2, FirstOp DEF Takes, Gives
      <3>3. \A i \in 1 .. Len(d) : i = 1 /\ i <= 1
        BY <3>1
      <3>4. \A i, m \in 1 .. Len(d) : ~(i < m)
        BY <3>1
      <3> QED
        BY <3>2, <3>3, <3>4, Zenon DEF InTurn
    <2>6. /\ Len(s) = 6 /\ s[1] = Lock("SCHEDULER") /\ s[2] = Lock("ALLOCATOR")
          /\ s[3] = Unlock("ALLOCATOR") /\ s[4] = Do("or_panic")
          /\ s[5] = Do("start_process") /\ s[6] = Unlock("SCHEDULER")
      OBVIOUS
    <2> HIDE DEF d, s
    <2>7. \A m \in 1 .. 6 : 2 < m => s[m][1] \notin {"lock", "deref_scheduler"}
      <3>1. \A m \in 1 .. Len(s) : m = 1 \/ m = 2 \/ m = 3 \/ m = 4 \/ m = 5 \/ m = 6
        BY <2>6
      <3> QED
        BY <2>6, <3>1, FirstOp
    <2>8. InTurn(s)
      <3>1. Nested(s, "SCHEDULER", "ALLOCATOR", 3, 6)
        BY <1>0, <2>6, <2>7 DEF Nested
      <3> QED
        BY <2>4, <3>1, NestedInTurn
    <2> QED
      BY <2>1, <2>4, <2>5, <2>8, InTurnConcat
  <1>2. InTurn(ShellInit)
    <2> DEFINE s == <<Lock("SHELL"), Lock("WRITER"), Do("shell_initialized"),
                      Unlock("WRITER"), Unlock("SHELL")>>
    <2>1. ShellInit = Alloc \o s
      BY DEF ShellInit
    <2>2. Do("shell_initialized") \in MicroOps
      BY DoOp DEF OpNames, BootOps
    <2>3. \A l \in Locks : Lock(l) \in MicroOps /\ Unlock(l) \in MicroOps
      BY LockOp
    <2>4. s \in Seq(MicroOps)
      BY <1>0, <2>2, <2>3
    <2>5. /\ Len(s) = 5 /\ s[1] = Lock("SHELL") /\ s[2] = Lock("WRITER")
          /\ s[3] = Do("shell_initialized") /\ s[4] = Unlock("WRITER")
          /\ s[5] = Unlock("SHELL")
      OBVIOUS
    <2> HIDE DEF s
    <2>6. \A m \in 1 .. 5 : 2 < m => s[m][1] \notin {"lock", "deref_scheduler"}
      <3>1. \A m \in 1 .. Len(s) : m = 1 \/ m = 2 \/ m = 3 \/ m = 4 \/ m = 5
        BY <2>5
      <3> QED
        BY <2>5, <3>1, FirstOp
    <2>7. InTurn(s)
      <3>1. Nested(s, "SHELL", "WRITER", 4, 5)
        BY <1>0, <2>5, <2>6 DEF Nested
      <3> QED
        BY <2>4, <3>1, NestedInTurn
    <2> QED
      BY <2>1, <2>4, <2>7, AllocCode, AllocTurn, InTurnConcat, Zenon
  <1>3. InTurn(InitKbHandler)
    <2> DEFINE s == InitKbHandler
    <2>1. /\ Len(s) = 5 /\ s[1] = Lock("EVENT_HANDLERS") /\ s[2] = Lock("ALLOCATOR")
          /\ s[3] = Unlock("ALLOCATOR") /\ s[4] = Do("or_panic") /\ s[5] = Unlock("EVENT_HANDLERS")
      BY DEF InitKbHandler, Alloc
    <2>2. s \in Seq(MicroOps)
      BY KernelMainPieces
    <2> HIDE DEF s
    <2>3. \A m \in 1 .. 5 : 2 < m => s[m][1] \notin {"lock", "deref_scheduler"}
      <3>1. \A m \in 1 .. Len(s) : m = 1 \/ m = 2 \/ m = 3 \/ m = 4 \/ m = 5
        BY <2>1
      <3> QED
        BY <2>1, <3>1, FirstOp
    <2>4. InTurn(s)
      <3>1. Nested(s, "EVENT_HANDLERS", "ALLOCATOR", 3, 5)
        BY <1>0, <2>1, <2>3 DEF Nested
      <3> QED
        BY <2>2, <3>1, NestedInTurn
    <2> QED
      BY <2>4 DEF s
  <1> QED
    BY <1>1, <1>2, <1>3

\* kernel_main takes every lock in turn.
LEMMA KernelMainTurn == InTurn(KernelMain)
  <1> DEFINE a == <<Do("print"), Do("init"), Do("print")>>
             u0 == (a \o MemorySetup) \o Alloc
             u1 == u0 \o InitApic
             u2 == u1 \o PitWrite
             u3 == u2 \o <<Do("start_timer_one_shot")>>
             u4 == u3 \o StartProc
             u5 == u4 \o StartProc
             u6 == u5 \o <<Do("print")>>
             u7 == u6 \o ShellInit
             u8 == u7 \o InitKbHandler
             Good(u) == u \in Seq(MicroOps) /\ InTurn(u)
  <1>1. KernelMain = u8
    BY DEF KernelMain
  <1>2. ASSUME NEW r, NEW t, Good(r), Good(t) PROVE Good(r \o t)
    BY <1>2, InTurnConcat, ConcatShape
  <1>3. ASSUME NEW u \in Seq(MicroOps), Ops(u) \cap {"lock", "deref_scheduler"} = {} PROVE Good(u)
    BY <1>3, InTurnFree
  <1>4. Good(a)
    <2>1. /\ Do("print") \in MicroOps /\ Do("print")[1] = "print"
          /\ Do("init") \in MicroOps /\ Do("init")[1] = "init"
      BY DoOp DEF OpNames, TaskOps, BootOps
    <2>2. a \in Seq(MicroOps) /\ Ops(a) = {"print", "init"}
      BY <2>1, Code3
    <2> HIDE DEF a, Good
    <2> QED
      BY <1>3, <2>2
  <1>5. Good(MemorySetup) /\ Good(Alloc)
    BY AllocCode, AllocTurn
  <1>6. Good(InitApic) /\ Good(PitWrite)
    <2>1. Do("pit") \in MicroOps /\ Do("pit")[1] = "pit"
      BY DoOp DEF OpNames, BootOps
    <2>2. PitWrite \in Seq(MicroOps) /\ Ops(PitWrite) = {"pit"}
      BY <2>1, Code2 DEF PitWrite
    <2> HIDE DEF Good
    <2> QED
      BY <1>3, <2>2, InitApicCode
  <1>7. Good(<<Do("start_timer_one_shot")>>) /\ Good(<<Do("print")>>)
    <2>1. /\ Do("print") \in MicroOps /\ Do("print")[1] = "print"
          /\ Do("start_timer_one_shot") \in MicroOps
          /\ Do("start_timer_one_shot")[1] = "start_timer_one_shot"
      BY DoOp DEF OpNames, TaskOps
    <2>2. /\ <<Do("print")>> \in Seq(MicroOps) /\ Ops(<<Do("print")>>) = {"print"}
          /\ <<Do("start_timer_one_shot")>> \in Seq(MicroOps)
          /\ Ops(<<Do("start_timer_one_shot")>>) = {"start_timer_one_shot"}
      BY <2>1, Code1
    <2> HIDE DEF Good
    <2> QED
      BY <1>3, <2>2, Zenon
  <1>8. Good(StartProc) /\ Good(ShellInit) /\ Good(InitKbHandler)
    BY BootLocksTurn, KernelMainPieces
  <1> HIDE DEF Good, a
  <1>9. Good(u0)
    BY <1>2, <1>4, <1>5, Zenon
  <1> HIDE DEF u0
  <1>10. Good(u3)
    BY <1>2, <1>6, <1>7, <1>9, Zenon
  <1> HIDE DEF u3
  <1>11. Good(u6)
    BY <1>2, <1>7, <1>8, <1>10, Zenon
  <1> HIDE DEF u6
  <1>12. Good(u8)
    BY <1>2, <1>8, <1>11, Zenon
  <1> QED
    BY <1>1, <1>12 DEF Good
=============================================================================

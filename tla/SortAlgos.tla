----------------------------- MODULE SortAlgos ------------------------------
(***************************************************************************)
(* The sorting functions of practice_srcs/sort_algo: bubble, selection,    *)
(* insertion and shell sort, which sort downwards, and two quick sorts     *)
(* with a stack of ranges of their own, which sort upwards.  One step is   *)
(* one round of the outer loop, of the partition loop for the quick sorts. *)
(* Arrays are indexed from 0, as in C; a function is called with any array *)
(* (quick sorts: that is not empty), not only with the one in its main.    *)
(***************************************************************************)
EXTENDS Integers, Sequences, FiniteSetsExt

CONSTANTS
    MaxCnt,        \* the length of the longest array: a bound
    Elem           \* the integers in the arrays

ASSUME ElemAssumption == MaxCnt \in Nat /\ Elem \subseteq Int

VARIABLES
    algo,          \* the function that was called
    input, a,      \* the array as it was, and as it is
    i,             \* the index of the outer loop
    gap,           \* of lc_shell_sort
    stack,         \* of the quick sorts: range[0] to range[stack_top - 1]
    cur            \* the range being divided, << >> if none, its key, left and right

sortVars == <<algo, input, a, i, gap, stack, cur>>

Cnt == Cardinality(DOMAIN a)
Quick == {"lc_quick_sort", "quick_sort"}
Algo == Quick \cup {"lc_bubble_sort", "lc_selection_sort", "lc_insert_sort", "lc_shell_sort"}

SortInit ==
    /\ algo \in Algo
    /\ \E n \in 0..MaxCnt : (algo \in Quick => n > 0) /\ a \in [0..(n - 1) -> Elem]
    /\ input = a
    /\ i = IF algo = "lc_insert_sort" THEN 1 ELSE 0
    /\ gap = Cnt \div 2
    /\ stack = IF algo \in Quick THEN <<[start |-> 0, end |-> Cnt - 1]>> ELSE << >>
    /\ cur = << >>

Swap(b, x, y) == [b EXCEPT ![x] = b[y], ![y] = b[x]]

-----------------------------------------------------------------------------
(* The simple sorts                                                        *)

\* One pass over the first n pairs.
BubblePass(n) ==
    LET after[p \in 0..n] ==
          IF p = 0 THEN a
          ELSE LET b == after[p - 1] IN IF b[p - 1] < b[p] THEN Swap(b, p - 1, p) ELSE b
    IN  after[n]

BubbleSort ==
    /\ algo = "lc_bubble_sort"
    /\ i < Cnt - 2
    /\ a' = BubblePass(Cnt - i - 1)
    /\ i' = i + 1
    /\ UNCHANGED <<algo, input, gap, stack, cur>>

\* The first of the largest elements from i on.
Largest == Min({x \in i..(Cnt - 1) : \A y \in i..(Cnt - 1) : a[x] >= a[y]})

SelectionSort ==
    /\ algo = "lc_selection_sort"
    /\ i < Cnt - 1
    /\ a' = Swap(a, i, Largest)
    /\ i' = i + 1
    /\ UNCHANGED <<algo, input, gap, stack, cur>>

\* Mutant: the inner loop stops before it compares with the first element.
SiftShort(x, g) ==
    LET n == Max({m \in 0..(x \div g) : \A s \in 1..m : x - s * g > 0 /\ a[x - s * g] < a[x]})
        shifted == {x - s * g : s \in 0..(n - 1)}
    IN  [y \in DOMAIN a |-> IF y = x - n * g THEN a[x] ELSE IF y \in shifted THEN a[y - g] ELSE a[y]]

\* The element at x moves down in steps of g past the n smaller ones before it.
Sift(x, g) ==
    LET n == Max({m \in 0..(x \div g) : \A s \in 1..m : a[x - s * g] < a[x]})
        shifted == {x - s * g : s \in 0..(n - 1)}
    IN  [y \in DOMAIN a |-> IF y = x - n * g THEN a[x] ELSE IF y \in shifted THEN a[y - g] ELSE a[y]]

InsertSort ==
    /\ algo = "lc_insert_sort"
    /\ i < Cnt
    /\ a' = Sift(i, 1)
    /\ i' = i + 1
    /\ UNCHANGED <<algo, input, gap, stack, cur>>

ShellSort ==
    /\ algo = "lc_shell_sort"
    /\ gap > 0
    /\ IF i < Cnt THEN a' = Sift(i, gap) /\ i' = i + 1 /\ UNCHANGED gap
                  ELSE i' = 0 /\ gap' = gap \div 2 /\ UNCHANGED a
    /\ UNCHANGED <<algo, input, stack, cur>>

-----------------------------------------------------------------------------
(* The quick sorts                                                         *)

\* A range is popped; one that is empty or has one element is dropped.
Pop ==
    /\ algo \in Quick /\ cur = << >> /\ stack # << >>
    /\ LET r == stack[Len(stack)]
           key == IF algo = "lc_quick_sort" THEN a[r.start] ELSE a[(r.start + r.end) \div 2]
           left == IF algo = "lc_quick_sort" THEN r.start + 1 ELSE r.start
       IN  cur' = IF r.start >= r.end THEN << >>
                  ELSE <<[start |-> r.start, end |-> r.end, key |-> key, left |-> left, right |-> r.end]>>
    /\ stack' = SubSeq(stack, 1, Len(stack) - 1)
    /\ UNCHANGED <<algo, input, a, i, gap>>

\* lc_quick_sort: left and right move towards each other and never past.
LcPartition ==
    /\ algo = "lc_quick_sort" /\ cur # << >> /\ cur[1].left < cur[1].right
    /\ LET c == cur[1]
           l == Min({x \in c.left..c.right : x = c.right \/ a[x] >= c.key})
           r == Max({x \in l..c.right : x = l \/ a[x] < c.key})
       IN  a' = Swap(a, l, r) /\ cur' = <<[c EXCEPT !.left = l, !.right = r]>>
    /\ UNCHANGED <<algo, input, i, gap, stack>>

Push(s, from, to) == IF from < to THEN Append(s, [start |-> from, end |-> to]) ELSE s

\* The key goes between the two parts, which are pushed.
LcSplit ==
    /\ algo = "lc_quick_sort" /\ cur # << >> /\ cur[1].left >= cur[1].right
    /\ LET c == cur[1]
           p == IF a[c.left] < c.key THEN c.left ELSE c.left - 1
       IN  /\ a' = Swap(a, p, c.start)
           /\ stack' = Push(Push(stack, c.start, p - 1), p + 1, c.end)
    /\ cur' = << >>
    /\ UNCHANGED <<algo, input, i, gap>>

\* quick_sort: the inner loops have no bound of their own; they stop at the key
\* or at what an earlier round has put behind it.
Partition ==
    /\ algo = "quick_sort" /\ cur # << >> /\ cur[1].left <= cur[1].right
    /\ LET c == cur[1]
           l == Min({x \in DOMAIN a : x >= c.left /\ a[x] >= c.key})
           r == Max({x \in DOMAIN a : x <= c.right /\ a[x] <= c.key})
       IN  IF l <= r THEN a' = Swap(a, l, r) /\ cur' = <<[c EXCEPT !.left = l + 1, !.right = r - 1]>>
                     ELSE cur' = <<[c EXCEPT !.left = l, !.right = r]>> /\ UNCHANGED a
    /\ UNCHANGED <<algo, input, i, gap, stack>>

Split ==
    /\ algo = "quick_sort" /\ cur # << >> /\ cur[1].left > cur[1].right
    /\ stack' = Push(Push(stack, cur[1].start, cur[1].right), cur[1].left, cur[1].end)
    /\ cur' = << >>
    /\ UNCHANGED <<algo, input, a, i, gap>>

Finished ==
    CASE algo = "lc_bubble_sort" -> i >= Cnt - 2
      [] algo = "lc_selection_sort" -> i >= Cnt - 1
      [] algo = "lc_insert_sort" -> i >= Cnt
      [] algo = "lc_shell_sort" -> gap = 0
      [] algo \in Quick -> stack = << >> /\ cur = << >>

SortStep ==
    BubbleSort \/ SelectionSort \/ InsertSort \/ ShellSort \/ Pop \/ LcPartition \/ LcSplit
    \/ Partition \/ Split

SortNext == SortStep \/ (Finished /\ UNCHANGED sortVars)

-----------------------------------------------------------------------------
Occurrences(b, e) == Cardinality({x \in DOMAIN b : b[x] = e})

\* b holds the elements of input, each element before those it must precede.
Ordered(b, Before(_, _)) ==
    /\ DOMAIN b = DOMAIN input
    /\ \A e \in Elem : Occurrences(b, e) = Occurrences(input, e)
    /\ \A x, y \in DOMAIN b : x < y => Before(x, y)

\* Every function returns its array in order, and the ranges of a quick sort
\* fit in its array of Cnt ranges.  lc_bubble_sort makes one pass too few: the
\* two largest elements, at 0 and 1, may be the wrong way round.
\* (bubble_sort.c:10-18, insert_sort.c:9-15, selection_sort.c:11-23,
\* shell_sort.c:10-18, quick_sort.c:36-73, test.c:28-55)
Sorts ==
    /\ Len(stack) <= Cnt
    /\ Finished => Ordered(a, LAMBDA x, y : IF algo \in Quick THEN a[x] <= a[y]
                                             ELSE a[x] >= a[y] \/ (algo = "lc_bubble_sort" /\ y = 1))

=============================================================================

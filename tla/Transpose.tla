----------------------------- MODULE Transpose ------------------------------
(***************************************************************************)
(* The transpose functions of trans.c for an N x M matrix A and its         *)
(* transpose B, as the accesses they make.  A function is its innermost     *)
(* loops over the columns from .. to-1 of one row, in the order they run.   *)
(* B is the set of its elements, each by its index j*N+i.                   *)
(***************************************************************************)
EXTENDS Integers, Sequences, SequencesExt, FiniteSetsExt

(* How the loop asks whether the elements of A and B share a line of the cache. *)
Row(i, from, to, skew) == [i |-> i, from |-> from, to |-> to, skew |-> skew]

(* the loop over the rows from .. to-1 *)
RowLoop(from, to, Body(_)) == [k \in 1 .. to - from |-> Body(from + k - 1)]
Nest(from, to, Body(_)) == FlattenSeq(RowLoop(from, to, Body))

(* Blocks of n1 rows and m1 columns, and what is left below and beside them.
   n1 is 0 for less than four rows, and then the function dies. *)
transpose_submit(M, N) ==
    LET n1 == N \div 4
        m1 == 64 \div n1
        right == (M \div m1) * m1
        below == (N \div n1) * n1
    IN  Nest(0, N \div n1, LAMBDA n :
            Nest(0, M \div m1, LAMBDA m :
                RowLoop(n * n1, (n + 1) * n1, LAMBDA i : Row(i, m * m1, (m + 1) * m1, "MN")))
            \o RowLoop(n * n1, (n + 1) * n1, LAMBDA i : Row(i, right, M, "none")))
        \o Nest(0, M \div m1, LAMBDA m :
               RowLoop(below, N, LAMBDA i : Row(i, m * m1, (m + 1) * m1, "none")))
        \o RowLoop(below, N, LAMBDA i : Row(i, right, M, "none"))

(* The loop over a row is cut in pieces of 8 columns. *)
trans(M, N) ==
    Nest(0, N, LAMBDA i :
        RowLoop(0, (M + 7) \div 8, LAMBDA k : Row(i, 8 * k, Min({8 * k + 8, M}), "none")))

transpose_1(M, N) ==
    Nest(0, N \div 8, LAMBDA n :
        Nest(0, M \div 4, LAMBDA m :
            RowLoop(8 * n, 8 * n + 8, LAMBDA i : Row(i, 4 * m, 4 * m + 4, "64"))))

-----------------------------------------------------------------------------
(* mutant: nothing is deferred *)
DeferredNever(M, N, row) == {}

(* the columns whose element is taken from A and not stored in B at once *)
Deferred(M, N, row) ==
    LET line(n) == (n \div 8) % 32
        width == IF row.skew = "64" THEN 64 ELSE M
        height == IF row.skew = "64" THEN 64 ELSE N
    IN  {j \in row.from .. row.to - 1 :
            row.skew # "none" /\ line(row.i * width + j) = line(j * height + row.i)}

(* There is one place to keep an element, and the last one is stored at the
   end of the loop. *)
Kept(M, N, row) ==
    LET deferred == Deferred(M, N, row) IN IF deferred = {} THEN {} ELSE {Max(deferred)}

Stored(M, N, row) ==
    {j * N + row.i : j \in ((row.from .. row.to - 1) \ Deferred(M, N, row)) \cup Kept(M, N, row)}

(* The blocks of memory the loop touches, in order: B lies 8192 blocks of 32
   bytes behind A. *)
BlockA(M, i, j) == (i * M + j) \div 8
BlockB(N, i, j) == 8192 + ((j * N + i) \div 8)
Accesses(M, N, row) ==
    LET deferred == Deferred(M, N, row)
    IN  FlattenSeq([k \in 1 .. row.to - row.from |->
            LET j == row.from + k - 1
            IN  IF j \in deferred THEN <<BlockA(M, row.i, j)>>
                ELSE <<BlockA(M, row.i, j), BlockB(N, row.i, j)>>])
        \o SetToSeq({BlockB(N, row.i, j) : j \in Kept(M, N, row)})

(* the reference simulator with 32 lines in as many sets *)
NoLines == [set \in 0 .. 31 |-> -1]
Simulated(initial, blocks) ==
    LET after[k \in 0 .. Len(blocks)] ==
            IF k = 0 THEN [lines |-> initial, misses |-> 0]
            ELSE LET before == after[k - 1]
                     set == blocks[k] % 32
                 IN  IF before.lines[set] = blocks[k] THEN before
                     ELSE [lines |-> [before.lines EXCEPT ![set] = blocks[k]],
                           misses |-> before.misses + 1]
    IN  after[Len(blocks)]

=============================================================================

----------------------------- MODULE LabsProofs -----------------------------
(***************************************************************************)
(* Theorems about the programs that rate the labs: mdriver's evaluation of  *)
(* a malloc package (Evaluate), the K-best timer (Fcyc) and test-trans      *)
(* (TestTrans).                                                             *)
(***************************************************************************)
EXTENDS Evaluate, Fcyc, TestTrans, WellOrder, FiniteSetTheorems, SequenceTheorems

-----------------------------------------------------------------------------
(* Sequences *)

(* A part of a sequence. *)
LEMMA Part ==
    ASSUME NEW S, NEW r \in Seq(S), NEW m \in 1 .. Len(r) + 1, NEW n \in m - 1 .. Len(r)
    PROVE  /\ SubSeq(r, m, n) \in Seq(S) /\ Len(SubSeq(r, m, n)) = n - m + 1
           /\ \A k \in 1 .. n - m + 1 : SubSeq(r, m, n)[k] = r[m + k - 1]
<1>1. Len(r) \in Nat /\ m \in Int /\ n \in Int
  BY LenProperties
<1>2. \A k \in m .. n : r[k] \in S
  BY <1>1, ElementOfSeq
<1>3. /\ SubSeq(r, m, n) \in Seq(S) /\ Len(SubSeq(r, m, n)) = IF m <= n THEN n - m + 1 ELSE 0
      /\ \A k \in 1 .. n - m + 1 : SubSeq(r, m, n)[k] = r[m + k - 1]
  BY <1>1, <1>2, SubSeqProperties
<1>. QED  BY <1>1, <1>3

(* RemoveAt takes one element out and keeps the order of the others. *)
LEMMA Removed ==
    ASSUME NEW S, NEW r \in Seq(S), NEW n \in 1 .. Len(r)
    PROVE  /\ RemoveAt(r, n) \in Seq(S) /\ Len(RemoveAt(r, n)) = Len(r) - 1
           /\ \A k \in 1 .. Len(r) - 1 :
                 RemoveAt(r, n)[k] = IF k < n THEN r[k] ELSE r[k + 1]
<1>. DEFINE front == SubSeq(r, 1, n - 1)
            back == SubSeq(r, n + 1, Len(r))
            rest == front \o back
<1>1. Len(r) \in Nat /\ n \in Nat /\ 1 <= n /\ n <= Len(r)
  BY LenProperties
<1>2. front \in Seq(S) /\ Len(front) = n - 1 /\ \A k \in 1 .. n - 1 : front[k] = r[k]
  <2>1. 1 \in 1 .. Len(r) + 1 /\ n - 1 \in 1 - 1 .. Len(r)
    BY <1>1
  <2>2. /\ front \in Seq(S) /\ Len(front) = (n - 1) - 1 + 1
        /\ \A k \in 1 .. (n - 1) - 1 + 1 : front[k] = r[1 + k - 1]
    BY <2>1, Part
  <2>. HIDE DEF front
  <2>. QED  BY <1>1, <2>2
<1>3. /\ back \in Seq(S) /\ Len(back) = Len(r) - n
      /\ \A k \in 1 .. Len(r) - n : back[k] = r[n + k]
  <2>1. n + 1 \in 1 .. Len(r) + 1 /\ Len(r) \in (n + 1) - 1 .. Len(r)
    BY <1>1
  <2>2. /\ back \in Seq(S) /\ Len(back) = Len(r) - (n + 1) + 1
        /\ \A k \in 1 .. Len(r) - (n + 1) + 1 : back[k] = r[(n + 1) + k - 1]
    BY <2>1, Part
  <2>. HIDE DEF back
  <2>. QED  BY <1>1, <2>2
<1>. HIDE DEF front, back
<1>4. /\ rest \in Seq(S) /\ Len(rest) = Len(front) + Len(back)
      /\ \A k \in 1 .. Len(front) + Len(back) :
            rest[k] = IF k <= Len(front) THEN front[k] ELSE back[k - Len(front)]
  BY <1>2, <1>3, ConcatProperties
<1>5. rest = RemoveAt(r, n)
  BY DEF front, back, RemoveAt
<1>. HIDE DEF rest
<1>6. Len(rest) = Len(r) - 1
  BY <1>1, <1>2, <1>3, <1>4
<1>7. ASSUME NEW k \in 1 .. Len(r) - 1
      PROVE  rest[k] = IF k < n THEN r[k] ELSE r[k + 1]
  <2>1. k \in 1 .. Len(front) + Len(back)
    BY <1>1, <1>2, <1>3
  <2>2. CASE k < n
    <3>1. k \in 1 .. n - 1 /\ k <= Len(front)
      BY <1>1, <1>2, <2>2
    <3>. QED  BY <1>2, <1>4, <2>1, <2>2, <3>1
  <2>3. CASE ~(k < n)
    <3>1. k - (n - 1) \in 1 .. Len(r) - n /\ ~(k <= Len(front)) /\ n + (k - (n - 1)) = k + 1
      BY <1>1, <1>2, <2>3
    <3>. QED  BY <1>2, <1>3, <1>4, <2>1, <2>3, <3>1
  <2>. QED  BY <2>2, <2>3
<1>. QED  BY <1>4, <1>5, <1>6, <1>7

-----------------------------------------------------------------------------
(* mdriver: the range list *)

Payloads == [lo : Int, hi : Int]
Listed == ranges \in Seq(Payloads)

(* The list without one payload is still one of payloads that are apart, or the
   older inside the newer. *)
ApartIn(list) ==
    \A k \in DOMAIN list : \A l \in k + 1 .. Len(list) :
        Apart(list[k], list[l]) \/ Encloses(list[k], list[l])

(* remove_range leaves the other payloads in their order. *)
LEMMA RemoveKeeps ==
    ASSUME Listed, ApartIn(ranges), NEW lo
    PROVE  RemoveRange(lo) \in Seq(Payloads) /\ ApartIn(RemoveRange(lo))
<1>. DEFINE I == {i \in 1 .. Len(ranges) : ranges[i].lo = lo}
            place == SelectInSeq(ranges, LAMBDA r : r.lo = lo)
            rest == RemoveAt(ranges, place)
<1>1. Len(ranges) \in Nat /\ DOMAIN ranges = 1 .. Len(ranges)
  BY LenProperties DEF Listed
<1>2. CASE I = {}
  <2>1. place = 0
    BY <1>2 DEF SelectInSeq
  <2>. QED  BY <2>1 DEF RemoveRange, Listed
<1>3. CASE I # {}
  <2>1. I \in SUBSET Nat
    BY <1>1
  <2>2. \E m \in I : \A n \in I : m <= n
    BY <1>3, <2>1, LeastNatural
  <2>3. Min(I) \in I
    BY <2>2 DEF Min
  <2>4. place = Min(I)
    BY <1>3 DEF SelectInSeq
  <2>5. place \in 1 .. Len(ranges)
    BY <2>3, <2>4
  <2>6. RemoveRange(lo) = rest
    BY <1>1, <2>5 DEF RemoveRange
  <2>. HIDE DEF place
  <2>7. /\ rest \in Seq(Payloads) /\ Len(rest) = Len(ranges) - 1
        /\ \A k \in 1 .. Len(ranges) - 1 :
              rest[k] = IF k < place THEN ranges[k] ELSE ranges[k + 1]
    BY <2>5, Removed DEF Listed
  <2>8. DOMAIN rest = 1 .. Len(ranges) - 1
    BY <2>7, LenProperties
  <2>. HIDE DEF rest
  <2>9. ASSUME NEW k \in DOMAIN rest, NEW l \in k + 1 .. Len(rest)
        PROVE  Apart(rest[k], rest[l]) \/ Encloses(rest[k], rest[l])
    <3>1. k \in 1 .. Len(ranges) - 1 /\ l \in 1 .. Len(ranges) - 1 /\ k < l
      BY <1>1, <2>7, <2>8, <2>9
    <3>2. PICK i, j \in 1 .. Len(ranges) : i < j /\ rest[k] = ranges[i] /\ rest[l] = ranges[j]
      <4>1. (k < place /\ l < place) \/ (k < place /\ ~(l < place)) \/ (~(k < place) /\ ~(l < place))
        BY <1>1, <2>5, <3>1
      <4>2. /\ k \in 1 .. Len(ranges) /\ k + 1 \in 1 .. Len(ranges) /\ l \in 1 .. Len(ranges)
            /\ l + 1 \in 1 .. Len(ranges) /\ k < l /\ k < l + 1 /\ k + 1 < l + 1
        BY <1>1, <3>1
      <4>. QED  BY <2>7, <3>1, <4>1, <4>2
    <3>3. i \in DOMAIN ranges /\ j \in i + 1 .. Len(ranges)
      BY <1>1, <3>2
    <3>. QED  BY <3>2, <3>3 DEF ApartIn
  <2>. QED  BY <2>6, <2>7, <2>9 DEF ApartIn
<1>. QED  BY <1>2, <1>3

(* A payload that passes the test of add_range is apart from each one in the list,
   or encloses it. *)
LEMMA AddKeeps ==
    ASSUME NEW list \in Seq(Payloads), ApartIn(list), NEW r \in Payloads, r.lo <= r.hi, NEW top,
           AddRangeOk(r, list, top)
    PROVE  <<r>> \o list \in Seq(Payloads) /\ ApartIn(<<r>> \o list)
<1>. DEFINE new == <<r>> \o list
<1>1. Len(list) \in Nat /\ DOMAIN list = 1 .. Len(list) /\ \A k \in 1 .. Len(list) : list[k] \in Payloads
  BY LenProperties, ElementOfSeq
<1>2. <<r>> \in Seq(Payloads) /\ Len(<<r>>) = 1 /\ <<r>>[1] = r
  OBVIOUS
<1>3. /\ new \in Seq(Payloads) /\ Len(new) = 1 + Len(list)
      /\ \A k \in 1 .. 1 + Len(list) : new[k] = IF k <= 1 THEN <<r>>[k] ELSE list[k - 1]
  BY <1>2, ConcatProperties
<1>4. DOMAIN new = 1 .. 1 + Len(list)
  BY <1>3, LenProperties
<1>. HIDE DEF new
<1>5. new[1] = r /\ \A k \in 1 .. Len(list) : new[k + 1] = list[k]
  BY <1>1, <1>2, <1>3
<1>6. ASSUME NEW k \in 1 .. Len(list)
      PROVE  Apart(r, list[k]) \/ Encloses(r, list[k])
  <2>1. ~Overlaps(r, list[k])
    BY <1>1 DEF AddRangeOk
  <2>2. r.lo \in Int /\ r.hi \in Int /\ list[k].lo \in Int /\ list[k].hi \in Int
    BY <1>1 DEF Payloads
  <2>. QED  BY <2>1, <2>2 DEF Overlaps, Within, Apart, Encloses
<1>7. ASSUME NEW k \in DOMAIN new, NEW l \in k + 1 .. Len(new)
      PROVE  Apart(new[k], new[l]) \/ Encloses(new[k], new[l])
  <2>1. l - 1 \in 1 .. Len(list) /\ new[l] = list[l - 1]
    <3>1. l - 1 \in 1 .. Len(list) /\ (l - 1) + 1 = l
      BY <1>1, <1>3, <1>4
    <3>. QED  BY <1>5, <3>1
  <2>2. CASE k = 1
    BY <1>5, <1>6, <2>1, <2>2
  <2>3. CASE k # 1
    <3>1. k - 1 \in 1 .. Len(list) /\ (k - 1) + 1 = k /\ l - 1 \in (k - 1) + 1 .. Len(list)
      BY <1>1, <1>3, <1>4, <2>3
    <3>2. new[k] = list[k - 1]
      BY <1>5, <3>1
    <3>. QED  BY <1>1, <2>1, <3>1, <3>2 DEF ApartIn
  <2>. QED  BY <2>2, <2>3
<1>. QED  BY <1>3, <1>7 DEF ApartIn, new

(* What follows an answer leaves payloads that are apart, or the older inside. *)
LEMMA AnsweredKeeps ==
    ASSUME Listed, ApartIn(ranges), NEW id, NEW size \in Nat, NEW p \in Answers, NEW top,
           NEW others \in Seq(Payloads), ApartIn(others), NEW kept,
           ~(size = 0 /\ p # Null), Answered(id, size, p, top, others, kept)
    PROVE  Listed' /\ ApartIn(ranges')
<1>. DEFINE r == Payload(p, size)
<1>1. CASE p = Null
  BY <1>1 DEF Answered, Listed
<1>2. CASE p # Null
  <2>1. p \in Int /\ size > 0
    BY <1>2, EvaluateAssumption DEF Answers, Null
  <2>2. r \in Payloads /\ r.lo <= r.hi
    BY <2>1 DEF Payload, Payloads
  <2>3. CASE AddRangeOk(r, others, top)
    <3>1. ranges' = <<r>> \o others
      BY <1>2, <2>3 DEF Answered
    <3>. QED  BY <2>2, <2>3, <3>1, AddKeeps DEF Listed
  <2>4. CASE ~AddRangeOk(r, others, top)
    BY <1>2, <2>4 DEF Answered, Listed
  <2>. QED  BY <2>3, <2>4
<1>. QED  BY <1>1, <1>2

(* The program is between two traces, or in one of those of the run. *)
EvalPhases == {"libc", "read", "init", "valid", "util", "speed", "done", "exit"}
EvalTyped ==
    /\ files \in [1 .. NumFiles -> Files]
    /\ job \in [phase : EvalPhases, i : 1 .. NumFiles + 1, pos : Nat]
    /\ job.phase \in {"libc", "init", "valid", "util", "speed"} => job.i <= NumFiles

(* A request of a trace has a size. *)
LEMMA RequestSize ==
    ASSUME EvalTyped, NEW type, Requests(type)
    PROVE  Request.size \in Nat
<1>1. job.i \in 1 .. NumFiles /\ job.pos \in Nat /\ files[job.i] \in Files
  BY EvaluateAssumption DEF EvalTyped, Requests, Phase
<1>2. Trace \in Seq([type : {"malloc", "realloc", "free"}, id : Nat, size : Nat])
  BY <1>1, EvaluateAssumption DEF Trace
<1>3. job.pos + 1 \in 1 .. Len(Trace)
  <2>1. Len(Trace) \in Nat
    BY <1>2, LenProperties
  <2>. QED  BY <1>1, <2>1 DEF Requests
<1>4. Request \in [type : {"malloc", "realloc", "free"}, id : Nat, size : Nat]
  BY <1>2, <1>3, ElementOfSeq DEF Request
<1>. QED  BY <1>4

(* What each step of the evaluation may do to its place in the run. *)
LEMMA EvalTypedStep == EvalTyped /\ [EvalNext]_evalVars => EvalTyped'
<1>. SUFFICES ASSUME EvalTyped, [EvalNext]_evalVars PROVE EvalTyped'
  OBVIOUS
<1>. USE DEF EvalTyped, EvalPhases, Phase
<1>0. job = [phase |-> job.phase, i |-> job.i, pos |-> job.pos] /\ NumFiles \in Nat /\ NumFiles > 0
  BY EvaluateAssumption
<1>1. ASSUME files' = files, job' = job PROVE EvalTyped'
  BY <1>1
<1>2. ASSUME NEW phase \in EvalPhases, NEW i \in 1 .. NumFiles + 1, NEW pos \in Nat,
             files' = files, job' = [phase |-> phase, i |-> i, pos |-> pos],
             phase \in {"libc", "init", "valid", "util", "speed"} => i <= NumFiles
      PROVE  EvalTyped'
  BY <1>2
<1>3. ASSUME Exit PROVE EvalTyped'
  <2>1. job' = [phase |-> "exit", i |-> job.i, pos |-> job.pos] /\ files' = files
    BY <1>0, <1>3 DEF Exit
  <2>. QED  BY <1>2, <2>1
<1>4. ASSUME Invalid, Phase("init") \/ Phase("valid") PROVE EvalTyped'
  <2>1. job' = [phase |-> "read", i |-> job.i + 1, pos |-> 0] /\ files' = files
    BY <1>4 DEF Invalid
  <2>2. job.i + 1 \in 1 .. NumFiles + 1
    BY <1>0, <1>4
  <2>. QED  BY <1>2, <2>1, <2>2
<1>5. ASSUME NEW id, NEW size, NEW p, NEW top, NEW others, NEW kept, Phase("valid"),
             Answered(id, size, p, top, others, kept)
      PROVE  EvalTyped'
  <2>1. CASE Invalid
    BY <1>4, <1>5, <2>1
  <2>2. CASE files' = files /\ job' = [job EXCEPT !.pos = @ + 1]
    <3>1. job' = [phase |-> "valid", i |-> job.i, pos |-> job.pos + 1]
      BY <1>0, <1>5, <2>2
    <3>2. job.pos + 1 \in Nat /\ job.i <= NumFiles
      BY <1>5
    <3>. QED  BY <1>2, <2>2, <3>1, <3>2
  <2>. QED  BY <1>5, <2>1, <2>2 DEF Answered
<1>6. CASE ReadTrace
  <2>1. CASE Exit
    BY <1>3, <2>1
  <2>2. CASE files' = files /\ job' = [job EXCEPT !.phase = "init"]
    <3>1. job' = [phase |-> "init", i |-> job.i, pos |-> job.pos] /\ job.i <= NumFiles
      BY <1>0, <1>6, <2>2 DEF ReadTrace
    <3>. QED  BY <1>2, <2>2, <3>1
  <2>. QED  BY <1>6, <2>1, <2>2 DEF ReadTrace
<1>7. CASE EvalLibc
  <2>1. CASE Exit
    BY <1>3, <2>1
  <2>2. CASE ~Exit
    <3>1. files' = files /\ job.i \in 1 .. NumFiles
      BY <1>7, <2>2 DEF EvalLibc
    <3>2. CASE job.i = NumFiles
      <4>1. job' = [phase |-> "read", i |-> 1, pos |-> job.pos]
        BY <1>0, <1>7, <2>2, <3>2 DEF EvalLibc
      <4>2. 1 \in 1 .. NumFiles + 1
        BY <1>0
      <4>. QED  BY <1>2, <3>1, <4>1, <4>2
    <3>3. CASE job.i # NumFiles
      <4>1. job' = [phase |-> "libc", i |-> job.i + 1, pos |-> job.pos]
        BY <1>0, <1>7, <2>2, <3>3 DEF EvalLibc
      <4>2. job.i + 1 \in 1 .. NumFiles + 1 /\ job.i + 1 <= NumFiles
        BY <1>0, <3>1, <3>3
      <4>. QED  BY <1>2, <3>1, <4>1, <4>2
    <3>. QED  BY <3>2, <3>3
  <2>. QED  BY <2>1, <2>2
<1>8. CASE EvalInitHeap
  <2>1. CASE Invalid
    BY <1>4, <1>8, <2>1 DEF EvalInitHeap
  <2>2. CASE files' = files /\ job' = [job EXCEPT !.phase = "valid", !.pos = 0]
    <3>1. job' = [phase |-> "valid", i |-> job.i, pos |-> 0] /\ job.i <= NumFiles
      BY <1>0, <1>8, <2>2 DEF EvalInitHeap
    <3>. QED  BY <1>2, <2>2, <3>1
  <2>. QED  BY <1>8, <2>1, <2>2 DEF EvalInitHeap
<1>9. CASE EvalMalloc
  <2>1. PICK p \in Answers, top \in brk .. MaxHeap :
            Exit \/ Answered(Request.id, Request.size, p, top, ranges, TRUE)
    BY <1>9 DEF EvalMalloc
  <2>. QED  BY <1>3, <1>5, <1>9, <2>1 DEF EvalMalloc, Requests
<1>10. CASE EvalRealloc
  <2>1. PICK p \in Answers, top \in brk .. MaxHeap, kept \in BOOLEAN :
            Exit \/ Answered(Request.id, Request.size, p, top,
                             RemoveRange(table.blocks[Request.id]), kept)
    BY <1>10 DEF EvalRealloc
  <2>. QED  BY <1>3, <1>5, <1>10, <2>1 DEF EvalRealloc, Requests
<1>11. CASE EvalFree
  <2>1. job' = [phase |-> "valid", i |-> job.i, pos |-> job.pos + 1] /\ files' = files
    BY <1>0, <1>11 DEF EvalFree, Requests
  <2>2. job.pos + 1 \in Nat /\ job.i <= NumFiles
    BY <1>11 DEF EvalFree, Requests
  <2>. QED  BY <1>2, <2>1, <2>2
<1>12. CASE EvalValid
  <2>1. job' = [phase |-> "util", i |-> job.i, pos |-> job.pos] /\ files' = files /\ job.i <= NumFiles
    BY <1>0, <1>12 DEF EvalValid
  <2>. QED  BY <1>2, <2>1
<1>13. CASE EvalUtil
  <2>1. job' = [phase |-> "speed", i |-> job.i, pos |-> job.pos] /\ files' = files /\ job.i <= NumFiles
    BY <1>0, <1>13 DEF EvalUtil
  <2>. QED  BY <1>2, <2>1
<1>14. CASE EvalSpeed
  <2>1. job' = [phase |-> "read", i |-> job.i + 1, pos |-> 0] /\ files' = files
    BY <1>14 DEF EvalSpeed
  <2>2. job.i + 1 \in 1 .. NumFiles + 1
    BY <1>0, <1>14 DEF EvalSpeed
  <2>. QED  BY <1>2, <2>1, <2>2
<1>15. CASE EvalReport
  <2>1. job' = [phase |-> "done", i |-> job.i, pos |-> job.pos] /\ files' = files
    BY <1>0, <1>15 DEF EvalReport
  <2>. QED  BY <1>2, <2>1
<1>16. CASE UNCHANGED evalVars
  BY <1>1, <1>16 DEF evalVars
<1>. QED  BY <1>6, <1>7, <1>8, <1>9, <1>10, <1>11, <1>12, <1>13, <1>14, <1>15, <1>16 DEF EvalNext

(* The run starts in one of the two passes. *)
LEMMA EvalTypedInit == EvalInit => EvalTyped
  BY EvaluateAssumption DEF EvalInit, EvalTyped, EvalPhases

(* The list of payloads after each step. *)
LEMMA ApartStep ==
    EvalTyped /\ Listed /\ ApartIn(ranges) /\ [EvalNext]_evalVars => Listed' /\ ApartIn(ranges')
<1>. SUFFICES ASSUME EvalTyped, Listed, ApartIn(ranges), [EvalNext]_evalVars
              PROVE  Listed' /\ ApartIn(ranges')
  OBVIOUS
<1>1. ASSUME ranges' = ranges PROVE Listed' /\ ApartIn(ranges')
  BY <1>1 DEF Listed
<1>2. ASSUME ranges' = <<>> PROVE Listed' /\ ApartIn(ranges')
  BY <1>2 DEF Listed, ApartIn
<1>3. CASE EvalMalloc
  <2>1. Request.size \in Nat
    BY <1>3, RequestSize DEF EvalMalloc
  <2>2. PICK p \in Answers, top \in brk .. MaxHeap :
            IF Request.size = 0 /\ p # Null THEN Exit
            ELSE Answered(Request.id, Request.size, p, top, ranges, TRUE)
    BY <1>3 DEF EvalMalloc
  <2>3. CASE Request.size = 0 /\ p # Null
    BY <1>1, <2>2, <2>3 DEF Exit
  <2>4. CASE ~(Request.size = 0 /\ p # Null)
    <3>1. Answered(Request.id, Request.size, p, top, ranges, TRUE)
      BY <2>2, <2>4
    <3>. QED  BY <2>1, <2>4, <3>1, AnsweredKeeps DEF Listed
  <2>. QED  BY <2>3, <2>4
<1>4. CASE EvalRealloc
  <2>1. Request.size \in Nat
    BY <1>4, RequestSize DEF EvalRealloc
  <2>2. PICK p \in Answers, top \in brk .. MaxHeap, kept \in BOOLEAN :
            IF Request.size = 0 /\ p # Null THEN Exit
            ELSE Answered(Request.id, Request.size, p, top,
                          RemoveRange(table.blocks[Request.id]), kept)
    BY <1>4 DEF EvalRealloc
  <2>3. CASE Request.size = 0 /\ p # Null
    BY <1>1, <2>2, <2>3 DEF Exit
  <2>4. CASE ~(Request.size = 0 /\ p # Null)
    <3>. DEFINE others == RemoveRange(table.blocks[Request.id])
    <3>1. others \in Seq(Payloads) /\ ApartIn(others)
      BY RemoveKeeps
    <3>2. Answered(Request.id, Request.size, p, top, others, kept)
      BY <2>2, <2>4
    <3>. HIDE DEF others
    <3>. QED  BY <2>1, <2>4, <3>1, <3>2, AnsweredKeeps
  <2>. QED  BY <2>3, <2>4
<1>5. CASE EvalFree
  BY <1>5, RemoveKeeps DEF EvalFree, Listed
<1>6. CASE EvalInitHeap
  BY <1>2, <1>6 DEF EvalInitHeap
<1>7. CASE ReadTrace \/ EvalLibc \/ EvalValid \/ EvalUtil \/ EvalSpeed \/ EvalReport
  BY <1>1, <1>7 DEF ReadTrace, EvalLibc, EvalValid, EvalUtil, EvalSpeed, EvalReport, Exit
<1>8. CASE UNCHANGED evalVars
  BY <1>1, <1>8 DEF evalVars
<1>. QED  BY <1>3, <1>4, <1>5, <1>6, <1>7, <1>8 DEF EvalNext

(* Of two payloads that mdriver holds for in use the older is apart from the newer
   one or strictly inside it, whatever the package answers, for any traces, heap and
   alignment ("The payload must not overlap any other payloads", mdriver.c:407). *)
THEOREM PayloadsApart == EvalSpec => []AcceptedApart
<1>. DEFINE Held == EvalTyped /\ Listed /\ AcceptedApart
<1>1. EvalInit => Held
  BY EvalTypedInit DEF EvalInit, Listed, AcceptedApart
<1>2. Held /\ [EvalNext]_evalVars => Held'
  <2>1. ApartIn(ranges) <=> AcceptedApart
    BY DEF ApartIn, AcceptedApart
  <2>2. ApartIn(ranges') <=> AcceptedApart'
    BY DEF ApartIn, AcceptedApart
  <2>. QED  BY <2>1, <2>2, EvalTypedStep, ApartStep
<1>3. Held => AcceptedApart
  OBVIOUS
<1>. QED  BY <1>1, <1>2, <1>3, PTL DEF EvalSpec

-----------------------------------------------------------------------------
(* mdriver: the verdicts *)

(* The traces up to the n-th that were not found valid. *)
Failed(n) == {i \in 1 .. n : ~stats[i].valid}

(* A trace is valid from the end of its eval_mm_valid on; those still to come are
   not, and each that failed was counted. *)
Counted ==
    /\ DOMAIN stats = 1 .. NumFiles /\ \A i \in 1 .. NumFiles : "valid" \in DOMAIN stats[i]
    /\ job.phase \in {"libc", "read", "init", "valid"} =>
           \A i \in 1 .. NumFiles : i >= job.i \/ job.phase = "libc" => ~stats[i].valid
    /\ job.phase \in {"util", "speed"} =>
           stats[job.i].valid /\ \A i \in 1 .. NumFiles : i > job.i => ~stats[i].valid
    /\ errors \in Nat
    /\ job.phase = "libc" => errors = 0
    /\ job.phase \notin {"libc", "exit"} => errors = Cardinality(Failed(job.i - 1))
    /\ job.phase = "done" => job.i = NumFiles + 1
    /\ job.phase # "done" => index = NoIndex
    /\ index > 0 => errors = 0

(* The traces that failed are finitely many. *)
LEMMA FailedFinite ==
    ASSUME NEW n \in Nat PROVE IsFiniteSet(Failed(n)) /\ IsFiniteSet(1 .. n)
<1>1. IsFiniteSet(1 .. n)
  BY FS_Interval
<1>2. Failed(n) \subseteq 1 .. n
  BY DEF Failed
<1>. QED  BY <1>1, <1>2, FS_Subset

(* The next trace is one more that failed, or not. *)
LEMMA FailedNext ==
    ASSUME NEW n \in Nat
    PROVE  /\ Failed(0) = {} /\ Cardinality({}) = 0
           /\ stats[n + 1].valid => Failed(n + 1) = Failed(n)
           /\ ~stats[n + 1].valid => Cardinality(Failed(n + 1)) = Cardinality(Failed(n)) + 1
<1>1. Failed(0) = {} /\ Cardinality({}) = 0
  BY FS_EmptySet DEF Failed
<1>2. 1 .. n + 1 = (1 .. n) \cup {n + 1} /\ n + 1 \notin 1 .. n
  OBVIOUS
<1>3. ASSUME stats[n + 1].valid PROVE Failed(n + 1) = Failed(n)
  BY <1>2, <1>3 DEF Failed
<1>4. ASSUME ~stats[n + 1].valid PROVE Cardinality(Failed(n + 1)) = Cardinality(Failed(n)) + 1
  <2>1. Failed(n + 1) = Failed(n) \cup {n + 1} /\ n + 1 \notin Failed(n)
    BY <1>2, <1>4 DEF Failed
  <2>. QED  BY <2>1, FailedFinite, FS_AddElement
<1>. QED  BY <1>1, <1>3, <1>4

(* A step that leaves the verdicts and stays with the trace. *)
LEMMA SameVerdict ==
    ASSUME EvalTyped, Counted, stats' = stats, errors' = errors, index' = index,
           job'.i = job.i, job'.phase # "done", job.phase # "done",
           \/ job'.phase = "exit"
           \/ job.phase = job'.phase
           \/ job.phase \in {"read", "init", "valid"} /\ job'.phase \in {"read", "init", "valid"}
           \/ job.phase \in {"util", "speed"} /\ job'.phase \in {"util", "speed"}
    PROVE  Counted'
  BY DEF Counted, Failed

(* malloc_error counts the trace that fails. *)
LEMMA InvalidCounted ==
    ASSUME EvalTyped, Counted, Invalid, Phase("init") \/ Phase("valid")
    PROVE  Counted'
<1>1. /\ job'.phase = "read" /\ job'.i = job.i + 1 /\ stats' = stats /\ errors' = errors + 1
      /\ index' = index /\ job.phase \in {"init", "valid"}
  BY DEF Invalid, Phase
<1>2. job.i \in 1 .. NumFiles /\ NumFiles \in Nat /\ ~stats[job.i].valid
  BY <1>1, EvaluateAssumption DEF EvalTyped, Counted
<1>3. errors' = Cardinality(Failed(job.i)) /\ errors' \in Nat
  <2>1. job.i - 1 \in Nat /\ (job.i - 1) + 1 = job.i
    BY <1>2
  <2>2. Cardinality(Failed(job.i)) = Cardinality(Failed(job.i - 1)) + 1
    BY <1>2, <2>1, FailedNext
  <2>3. errors = Cardinality(Failed(job.i - 1)) /\ errors \in Nat
    BY <1>1 DEF Counted
  <2>. QED  BY <1>1, <2>2, <2>3
<1>4. errors' = Cardinality(Failed(job.i - 1))' /\ index = NoIndex
  <2>1. job'.i - 1 = job.i
    BY <1>1, <1>2
  <2>2. Failed(job.i - 1)' = Failed(job.i)
    BY <1>1, <2>1 DEF Failed
  <2>. QED  BY <1>1, <1>3, <2>2 DEF Counted
<1>5. \A i \in 1 .. NumFiles : i >= job.i + 1 => ~stats[i].valid
  BY <1>1, <1>2 DEF Counted
<1>6. errors' = Cardinality(Failed(job.i - 1))' /\ ~(index > 0)
  BY <1>4 DEF NoIndex
<1>. QED  BY <1>1, <1>3, <1>5, <1>6 DEF Counted

(* Each step of the evaluation. *)
LEMMA CountedStep == EvalTyped /\ Counted /\ [EvalNext]_evalVars => Counted'
<1>. SUFFICES ASSUME EvalTyped, Counted, [EvalNext]_evalVars PROVE Counted'
  OBVIOUS
<1>0. /\ job = [phase |-> job.phase, i |-> job.i, pos |-> job.pos] /\ NumFiles \in Nat /\ NumFiles > 0
      /\ job.i \in 1 .. NumFiles + 1 /\ job.phase \in EvalPhases
  BY EvaluateAssumption DEF EvalTyped
<1>1. ASSUME Exit, Phase("libc") \/ Phase("read") \/ Phase("valid") PROVE Counted'
  <2>1. job'.phase = "exit" /\ job'.i = job.i /\ stats' = stats /\ errors' = errors /\ index' = index
    BY <1>0, <1>1 DEF Exit
  <2>. QED  BY <1>1, <2>1, SameVerdict DEF Phase
<1>2. ASSUME NEW id, NEW size, NEW p, NEW top, NEW others, NEW kept, Phase("valid"),
             Answered(id, size, p, top, others, kept)
      PROVE  Counted'
  <2>1. CASE Invalid
    BY <1>2, <2>1, InvalidCounted
  <2>2. CASE stats' = stats /\ errors' = errors /\ index' = index /\ job' = [job EXCEPT !.pos = @ + 1]
    <3>1. job'.phase = "valid" /\ job'.i = job.i
      BY <1>0, <1>2, <2>2 DEF Phase
    <3>. QED  BY <1>2, <2>2, <3>1, SameVerdict DEF Phase
  <2>. QED  BY <1>2, <2>1, <2>2 DEF Answered
<1>3. CASE ReadTrace
  <2>1. CASE Exit
    BY <1>1, <1>3, <2>1 DEF ReadTrace
  <2>2. CASE stats' = stats /\ errors' = errors /\ index' = index /\ job' = [job EXCEPT !.phase = "init"]
    <3>1. job'.phase = "init" /\ job'.i = job.i
      BY <1>0, <2>2
    <3>. QED  BY <1>3, <2>2, <3>1, SameVerdict DEF ReadTrace, Phase
  <2>. QED  BY <1>3, <2>1, <2>2 DEF ReadTrace
<1>4. CASE EvalLibc
  <2>1. CASE Exit
    BY <1>1, <1>4, <2>1 DEF EvalLibc
  <2>2. CASE ~Exit
    <3>1. stats' = stats /\ errors' = errors /\ index' = index /\ job.phase = "libc"
      BY <1>4, <2>2 DEF EvalLibc, Phase
    <3>2. CASE job.i = NumFiles
      <4>1. job'.phase = "read" /\ job'.i = 1
        BY <1>0, <1>4, <2>2, <3>2 DEF EvalLibc
      <4>2. errors' = 0 /\ (\A i \in 1 .. NumFiles : ~stats[i].valid) /\ index = NoIndex
        BY <3>1 DEF Counted
      <4>3. Cardinality(Failed(job.i - 1))' = 0
        <5>1. Failed(job.i - 1)' = {}
          BY <4>1 DEF Failed
        <5>. QED  BY <5>1, FS_EmptySet
      <4>. QED  BY <3>1, <4>1, <4>2, <4>3 DEF Counted
    <3>3. CASE job.i # NumFiles
      <4>1. job'.phase = "libc"
        BY <1>0, <1>4, <2>2, <3>3 DEF EvalLibc, Phase
      <4>. QED  BY <3>1, <4>1 DEF Counted
    <3>. QED  BY <3>2, <3>3
  <2>. QED  BY <2>1, <2>2
<1>5. CASE EvalInitHeap
  <2>1. CASE Invalid
    BY <1>5, <2>1, InvalidCounted DEF EvalInitHeap
  <2>2. CASE stats' = stats /\ errors' = errors /\ index' = index /\ job' = [job EXCEPT !.phase = "valid", !.pos = 0]
    <3>1. job'.phase = "valid" /\ job'.i = job.i
      BY <1>0, <2>2
    <3>. QED  BY <1>5, <2>2, <3>1, SameVerdict DEF EvalInitHeap, Phase
  <2>. QED  BY <1>5, <2>1, <2>2 DEF EvalInitHeap
<1>6. CASE EvalMalloc
  <2>1. PICK p \in Answers, top \in brk .. MaxHeap :
            Exit \/ Answered(Request.id, Request.size, p, top, ranges, TRUE)
    BY <1>6 DEF EvalMalloc
  <2>. QED  BY <1>1, <1>2, <1>6, <2>1 DEF EvalMalloc, Requests
<1>7. CASE EvalRealloc
  <2>1. PICK p \in Answers, top \in brk .. MaxHeap, kept \in BOOLEAN :
            Exit \/ Answered(Request.id, Request.size, p, top,
                             RemoveRange(table.blocks[Request.id]), kept)
    BY <1>7 DEF EvalRealloc
  <2>. QED  BY <1>1, <1>2, <1>7, <2>1 DEF EvalRealloc, Requests
<1>8. CASE EvalFree
  <2>1. /\ stats' = stats /\ errors' = errors /\ index' = index /\ job.phase = "valid"
        /\ job'.phase = "valid" /\ job'.i = job.i
    BY <1>0, <1>8 DEF EvalFree, Requests, Phase
  <2>. QED  BY <2>1, SameVerdict
<1>9. CASE EvalValid
  <2>1. /\ job.phase = "valid" /\ job'.phase = "util" /\ job'.i = job.i /\ errors' = errors
        /\ index' = index /\ stats' = [stats EXCEPT ![job.i].valid = TRUE]
    BY <1>0, <1>9 DEF EvalValid, Phase
  <2>2. job.i \in 1 .. NumFiles /\ "valid" \in DOMAIN stats[job.i]
    BY <1>0, <2>1 DEF EvalTyped, Counted
  <2>3. /\ DOMAIN stats' = 1 .. NumFiles
        /\ \A i \in 1 .. NumFiles : i # job.i => stats'[i] = stats[i]
        /\ stats'[job.i] = [stats[job.i] EXCEPT !.valid = TRUE]
    BY <2>1, <2>2 DEF Counted
  <2>4. stats'[job.i].valid /\ DOMAIN stats'[job.i] = DOMAIN stats[job.i]
    BY <2>2, <2>3
  <2>5. Failed(job.i - 1)' = Failed(job.i - 1)
    BY <1>0, <2>1, <2>2, <2>3 DEF Failed
  <2>. QED  BY <1>0, <2>1, <2>2, <2>3, <2>4, <2>5 DEF Counted
<1>10. CASE EvalUtil
  <2>1. /\ job.phase = "util" /\ job'.phase = "speed" /\ job'.i = job.i /\ errors' = errors
        /\ index' = index
    BY <1>0, <1>10 DEF EvalUtil, Phase
  <2>2. job.i \in 1 .. NumFiles
    BY <1>0, <2>1 DEF EvalTyped
  <2>3. PICK u : stats' = [stats EXCEPT ![job.i].util = u]
    BY <1>10 DEF EvalUtil
  <2>4. /\ DOMAIN stats' = 1 .. NumFiles
        /\ \A i \in 1 .. NumFiles : i # job.i => stats'[i] = stats[i]
        /\ stats'[job.i] = [stats[job.i] EXCEPT !.util = u]
    BY <2>2, <2>3 DEF Counted
  <2>5. stats'[job.i].valid = stats[job.i].valid /\ DOMAIN stats'[job.i] = DOMAIN stats[job.i]
    BY <2>2, <2>4 DEF Counted
  <2>6. Failed(job.i - 1)' = Failed(job.i - 1)
    BY <1>0, <2>1, <2>2, <2>4 DEF Failed
  <2>. QED  BY <1>0, <2>1, <2>2, <2>4, <2>5, <2>6 DEF Counted
<1>11. CASE EvalSpeed
  <2>1. /\ job.phase = "speed" /\ job'.phase = "read" /\ job'.i = job.i + 1 /\ errors' = errors
        /\ index' = index /\ stats' = stats
    BY <1>11 DEF EvalSpeed, Phase
  <2>2. job.i \in 1 .. NumFiles /\ stats[job.i].valid
    BY <1>0, <2>1 DEF EvalTyped, Counted
  <2>3. Cardinality(Failed(job.i - 1))' = Cardinality(Failed(job.i - 1))
    <3>1. job.i - 1 \in Nat /\ (job.i - 1) + 1 = job.i /\ job'.i - 1 = job.i
      BY <2>1, <2>2
    <3>2. Failed(job.i) = Failed(job.i - 1)
      BY <2>2, <3>1, FailedNext
    <3>3. Failed(job.i - 1)' = Failed(job.i)
      BY <2>1, <3>1 DEF Failed
    <3>. QED  BY <3>2, <3>3
  <2>4. \A i \in 1 .. NumFiles : i >= job.i + 1 => ~stats[i].valid
    BY <2>1, <2>2 DEF Counted
  <2>. QED  BY <2>1, <2>3, <2>4 DEF Counted
<1>12. CASE EvalReport
  <2>1. /\ job.phase = "read" /\ job'.phase = "done" /\ job'.i = job.i /\ errors' = errors
        /\ stats' = stats /\ job.i = NumFiles + 1
    BY <1>0, <1>12 DEF EvalReport, Phase
  <2>2. index' > 0 => errors = 0
    BY <1>12 DEF EvalReport, Prints
  <2>3. Failed(job.i - 1)' = Failed(job.i - 1)
    BY <2>1 DEF Failed
  <2>. QED  BY <2>1, <2>2, <2>3 DEF Counted
<1>13. CASE UNCHANGED evalVars
  BY <1>13 DEF evalVars, Counted, Failed
<1>. QED  BY <1>3, <1>4, <1>5, <1>6, <1>7, <1>8, <1>9, <1>10, <1>11, <1>12, <1>13 DEF EvalNext

(* Before the first trace none has failed. *)
LEMMA CountedInit == EvalInit => Counted
<1>. SUFFICES ASSUME EvalInit PROVE Counted
  OBVIOUS
<1>1. /\ DOMAIN stats = 1 .. NumFiles
      /\ \A i \in 1 .. NumFiles : ~stats[i].valid /\ "valid" \in DOMAIN stats[i]
  BY DEF EvalInit
<1>2. job.phase \in {"libc", "read"} /\ job.i = 1 /\ errors = 0 /\ index = NoIndex
  BY DEF EvalInit
<1>3. Cardinality(Failed(job.i - 1)) = 0
  BY <1>2, FS_EmptySet DEF Failed
<1>. QED  BY <1>1, <1>2, <1>3 DEF Counted, NoIndex

(* An index is printed only for a package that no trace found wrong, and each error
   is the verdict on one trace, for any traces and whatever the package answers
   ("if (errors == 0)" of mdriver.c's main). *)
THEOREM VerdictsCounted == EvalSpec => []IndexHonest
<1>1. EvalTyped /\ Counted => IndexHonest
  <2>. SUFFICES ASSUME EvalTyped, Counted PROVE IndexHonest
    OBVIOUS
  <2>1. job.phase \notin {"libc", "exit"} => errors = Cardinality(Failed(job.i - 1))
    BY DEF Counted
  <2>2. ASSUME index > 0, NEW i \in 1 .. NumFiles PROVE stats[i].valid
    <3>1. job.phase = "done" /\ errors = 0 /\ job.i = NumFiles + 1 /\ NumFiles \in Nat
      BY <2>2, EvaluateAssumption DEF Counted, NoIndex
    <3>2. Cardinality(Failed(NumFiles)) = 0
      <4>1. job.i - 1 = NumFiles
        BY <3>1
      <4>. QED  BY <2>1, <3>1, <4>1
    <3>3. Failed(NumFiles) = {}
      BY <3>1, <3>2, FailedFinite, FS_EmptySet
    <3>. QED  BY <2>2, <3>3 DEF Failed
  <2>3. DOMAIN stats = 1 .. NumFiles
    BY DEF Counted
  <2>. QED  BY <2>1, <2>2, <2>3 DEF IndexHonest, Failed
<1>. QED  BY <1>1, CountedInit, CountedStep, EvalTypedInit, EvalTypedStep, PTL DEF EvalSpec

-----------------------------------------------------------------------------
(* The cycle counter *)

(* A quotient and a remainder are those of the division. *)
LEMMA Divided ==
    ASSUME NEW d \in Nat \ {0}, NEW q \in Int, NEW r \in 0 .. d - 1
    PROVE  ((q * d) + r) \div d = q /\ ((q * d) + r) % d = r
<1>. DEFINE n == (q * d) + r
            x == n \div d
            y == n % d
<1>1. n \in Int /\ q * d \in Int
  OBVIOUS
<1>. HIDE DEF n
<1>2. x \in Int /\ y \in 0 .. d - 1 /\ n = (x * d) + y /\ x * d \in Int
  BY <1>1
<1>. HIDE DEF x, y
<1>3. (q * d) + r = (x * d) + y
  BY <1>2 DEF n
<1>4. ~(q < x)
  <2>1. SUFFICES ASSUME q + 1 <= x PROVE FALSE
    BY <1>2
  <2>2. (q + 1) * d <= x * d /\ (q + 1) * d = (q * d) + d
    BY <1>2, <2>1
  <2>. QED  BY <1>1, <1>2, <1>3, <2>2
<1>5. ~(x < q)
  <2>1. SUFFICES ASSUME x + 1 <= q PROVE FALSE
    BY <1>2
  <2>2. (x + 1) * d <= q * d /\ (x + 1) * d = (x * d) + d
    BY <1>2, <2>1
  <2>. QED  BY <1>1, <1>2, <1>3, <2>2
<1>6. x = q
  BY <1>2, <1>4, <1>5
<1>7. y = r
  BY <1>1, <1>2, <1>3, <1>6
<1>. QED  BY <1>6, <1>7 DEF x, y, n

(* A number below the square of d has two digits. *)
LEMMA Digits ==
    ASSUME NEW d \in Nat \ {0}, NEW t \in 0 .. d * d - 1
    PROVE  \E q, r \in 0 .. d - 1 : t = (q * d) + r
<1>. DEFINE q == t \div d
            r == t % d
<1>1. t \in Nat /\ t < d * d
  OBVIOUS
<1>2. q \in Nat /\ r \in 0 .. d - 1 /\ t = (q * d) + r /\ q * d \in Nat
  BY <1>1
<1>. HIDE DEF q, r
<1>3. ~(d <= q)
  <2>1. SUFFICES ASSUME d <= q PROVE FALSE
    OBVIOUS
  <2>2. d * d <= q * d
    BY <1>2, <2>1
  <2>. QED  BY <1>1, <1>2, <2>2
<1>. QED  BY <1>2, <1>3

(* The two words of the counter at a time. *)
LEMMA CounterWords ==
    ASSUME NEW q \in 0 .. 2 * Unsigned - 1, NEW r \in 0 .. Unsigned - 1,
           NEW t, t = (q * Unsigned) + r
    PROVE  /\ Counter(t).hi = IF q < Unsigned THEN q ELSE q - Unsigned
           /\ Counter(t).lo = r
<1>1. Unsigned \in Nat \ {0} /\ q \in Int
  BY FcycAssumption
<1>2. ((q * Unsigned) + r) \div Unsigned = q /\ ((q * Unsigned) + r) % Unsigned = r
  BY <1>1, Divided
<1>3. q % Unsigned = IF q < Unsigned THEN q ELSE q - Unsigned
  <2>1. CASE q < Unsigned
    <3>1. q \in 0 .. Unsigned - 1 /\ 0 \in Int /\ (0 * Unsigned) + q = q
      BY <1>1, <2>1
    <3>2. ((0 * Unsigned) + q) % Unsigned = q
      BY <1>1, <3>1, Divided
    <3>. QED  BY <2>1, <3>1, <3>2
  <2>2. CASE ~(q < Unsigned)
    <3>1. q - Unsigned \in 0 .. Unsigned - 1 /\ (1 * Unsigned) + (q - Unsigned) = q /\ 1 \in Int
      BY <1>1, <2>2
    <3>2. ((1 * Unsigned) + (q - Unsigned)) % Unsigned = q - Unsigned
      BY <1>1, <3>1, Divided
    <3>. QED  BY <2>2, <3>1, <3>2
  <2>. QED  BY <2>1, <2>2
<1>. QED  BY <1>2, <1>3 DEF Counter

(* The difference of two words, as unsigned numbers. *)
LEMMA WordDifference ==
    ASSUME NEW x \in -Unsigned .. Unsigned - 1
    PROVE  x % Unsigned = IF x < 0 THEN x + Unsigned ELSE x
<1>1. Unsigned \in Nat \ {0} /\ x \in Int
  BY FcycAssumption
<1>2. CASE x < 0
  <2>1. x + Unsigned \in 0 .. Unsigned - 1 /\ (-1 * Unsigned) + (x + Unsigned) = x /\ -1 \in Int
    BY <1>1, <1>2
  <2>2. ((-1 * Unsigned) + (x + Unsigned)) % Unsigned = x + Unsigned
    BY <1>1, <2>1, Divided
  <2>. QED  BY <1>2, <2>1, <2>2
<1>3. CASE ~(x < 0)
  <2>1. x \in 0 .. Unsigned - 1 /\ (0 * Unsigned) + x = x /\ 0 \in Int
    BY <1>1, <1>3
  <2>2. ((0 * Unsigned) + x) % Unsigned = x
    BY <1>1, <2>1, Divided
  <2>. QED  BY <1>3, <2>1, <2>2
<1>. QED  BY <1>2, <1>3

(* The timer returns what a run took, if it took less than the counter can hold,
   whenever it started: the borrow is taken exactly when the low word has wrapped. *)
LEMMA DifferenceExact ==
    ASSUME NEW t \in 0 .. Unsigned * Unsigned - 1, NEW cycles \in 0 .. Unsigned * Unsigned - 1
    PROVE  Difference(Counter(t), Counter(t + cycles)) = cycles
<1>1. Unsigned \in Nat \ {0}
  BY FcycAssumption
<1>2. PICK a, l \in 0 .. Unsigned - 1 : t = (a * Unsigned) + l
  BY <1>1, Digits
<1>3. PICK x, y \in 0 .. Unsigned - 1 : cycles = (x * Unsigned) + y
  BY <1>1, Digits
<1>. DEFINE carry == IF l + y < Unsigned THEN 0 ELSE 1
            hi == a + x + carry
            lo == (l + y) - carry * Unsigned
            top == IF hi < Unsigned THEN hi ELSE hi - Unsigned
            old == Counter(t)
            new == Counter(t + cycles)
<1>4. carry \in 0 .. 1 /\ hi \in 0 .. 2 * Unsigned - 1 /\ lo \in 0 .. Unsigned - 1
  BY <1>1
<1>5. t + cycles = (hi * Unsigned) + lo
  <2>1. (a + x + carry) * Unsigned = (a * Unsigned) + (x * Unsigned) + carry * Unsigned
    BY <1>1, <1>4
  <2>2. a * Unsigned \in Int /\ x * Unsigned \in Int /\ carry * Unsigned \in Int
    BY <1>1, <1>4
  <2>. QED  BY <1>1, <1>2, <1>3, <2>1, <2>2
<1>6. old.hi = a /\ old.lo = l
  <2>1. a \in 0 .. 2 * Unsigned - 1 /\ a < Unsigned
    BY <1>1
  <2>. HIDE DEF carry, hi, lo, top, new
  <2>2. Counter(t).hi = a /\ Counter(t).lo = l
    BY <1>2, <2>1, CounterWords
  <2>. QED  BY <2>2
<1>7. new.hi = top /\ new.lo = lo
  <2>. HIDE DEF hi, lo
  <2>1. /\ Counter(t + cycles).hi = IF hi < Unsigned THEN hi ELSE hi - Unsigned
        /\ Counter(t + cycles).lo = lo
    BY <1>4, <1>5, CounterWords
  <2>. QED  BY <2>1
<1>8. (lo - l) % Unsigned = y
  <2>1. lo - l \in -Unsigned .. Unsigned - 1
    BY <1>1, <1>4
  <2>2. (IF lo - l < 0 THEN lo - l + Unsigned ELSE lo - l) = y
    <3>1. CASE l + y < Unsigned
      BY <1>1, <3>1
    <3>2. CASE ~(l + y < Unsigned)
      BY <1>1, <3>2
    <3>. QED  BY <3>1, <3>2
  <2>. HIDE DEF lo
  <2>. QED  BY <2>1, <2>2, WordDifference
<1>9. (IF y > lo THEN 1 ELSE 0) = carry
  <2>1. CASE l + y < Unsigned
    BY <1>1, <2>1
  <2>2. CASE ~(l + y < Unsigned)
    BY <1>1, <2>2
  <2>. QED  BY <2>1, <2>2
<1>10. (top - a - carry) % Unsigned = x
  <2>1. top - a - carry \in -Unsigned .. Unsigned - 1
    BY <1>1, <1>4
  <2>2. (IF top - a - carry < 0 THEN top - a - carry + Unsigned ELSE top - a - carry) = x
    BY <1>1, <1>4
  <2>. HIDE DEF top, carry
  <2>. QED  BY <2>1, <2>2, WordDifference
<1>. HIDE DEF carry, hi, lo, top, old, new
<1>11. Difference(old, new) = x * Unsigned + y
  BY <1>6, <1>7, <1>8, <1>9, <1>10 DEF Difference
<1>. QED  BY <1>3, <1>11 DEF old, new

-----------------------------------------------------------------------------
(* The K best samples *)

(* InsertSorted puts a value behind the k-th, the last one that is not larger. *)
InsertedAt(s, v, k, new) ==
    /\ k \in 0 .. Len(s) /\ Len(new) = Len(s) + 1
    /\ \A i \in 1 .. Len(s) + 1 :
           new[i] = IF i <= k THEN s[i] ELSE IF i = k + 1 THEN v ELSE s[i - 1]
    /\ k # 0 => s[k] <= v
    /\ \A i \in 1 .. Len(s) : i > k => s[i] > v

(* The insertion sort of add_sample. *)
LEMMA Inserted ==
    ASSUME NEW s \in Seq(Nat), NEW v \in Nat
    PROVE  /\ InsertSorted(s, v) \in Seq(Nat)
           /\ \E k \in 0 .. Len(s) : InsertedAt(s, v, k, InsertSorted(s, v))
<1>. DEFINE I == {i \in 0 .. Len(s) : i = 0 \/ s[i] <= v}
            J == {j \in Nat : \E i \in I : j = Len(s) - i}
            k == Max(I)
            front == SubSeq(s, 1, k)
            back == SubSeq(s, k + 1, Len(s))
            part == front \o <<v>>
            new == part \o back
<1>1. Len(s) \in Nat /\ \A i \in 1 .. Len(s) : s[i] \in Nat
  BY LenProperties, ElementOfSeq
<1>2. \E m \in I : \A n \in I : m >= n
  <2>1. J \in SUBSET Nat /\ Len(s) \in J
    BY <1>1
  <2>2. PICK j \in J : \A n \in J : j <= n
    BY <2>1, LeastNatural
  <2>3. PICK m \in I : j = Len(s) - m
    BY <2>2
  <2>4. ASSUME NEW n \in I PROVE m >= n
    <3>1. Len(s) - n \in J
      BY <1>1
    <3>2. j <= Len(s) - n
      BY <2>2, <3>1
    <3>. QED  BY <1>1, <2>3, <3>2
  <2>. QED  BY <2>4
<1>3. k \in I /\ \A n \in I : k >= n
  BY <1>2 DEF Max
<1>. HIDE DEF k
<1>4. k \in 0 .. Len(s) /\ (k # 0 => s[k] <= v)
  BY <1>3
<1>5. ASSUME NEW i \in 1 .. Len(s), i > k PROVE s[i] > v
  <2>1. i \notin I /\ s[i] \in Nat
    BY <1>1, <1>3, <1>4, <1>5
  <2>. QED  BY <2>1
<1>6. front \in Seq(Nat) /\ Len(front) = k /\ \A i \in 1 .. k : front[i] = s[i]
  <2>1. 1 \in 1 .. Len(s) + 1 /\ k \in 1 - 1 .. Len(s)
    BY <1>1, <1>4
  <2>2. /\ front \in Seq(Nat) /\ Len(front) = k - 1 + 1
        /\ \A i \in 1 .. k - 1 + 1 : front[i] = s[1 + i - 1]
    BY <2>1, Part
  <2>. HIDE DEF front
  <2>. QED  BY <1>4, <2>2
<1>7. /\ back \in Seq(Nat) /\ Len(back) = Len(s) - k
      /\ \A i \in 1 .. Len(s) - k : back[i] = s[k + i]
  <2>1. k + 1 \in 1 .. Len(s) + 1 /\ Len(s) \in (k + 1) - 1 .. Len(s)
    BY <1>1, <1>4
  <2>2. /\ back \in Seq(Nat) /\ Len(back) = Len(s) - (k + 1) + 1
        /\ \A i \in 1 .. Len(s) - (k + 1) + 1 : back[i] = s[(k + 1) + i - 1]
    BY <2>1, Part
  <2>. HIDE DEF back
  <2>. QED  BY <1>1, <1>4, <2>2
<1>. HIDE DEF front, back
<1>8. <<v>> \in Seq(Nat) /\ Len(<<v>>) = 1 /\ <<v>>[1] = v
  OBVIOUS
<1>9. /\ part \in Seq(Nat) /\ Len(part) = Len(front) + 1
      /\ \A i \in 1 .. Len(front) + 1 :
            part[i] = IF i <= Len(front) THEN front[i] ELSE <<v>>[i - Len(front)]
  BY <1>6, <1>8, ConcatProperties
<1>. HIDE DEF part
<1>10. /\ new \in Seq(Nat) /\ Len(new) = Len(part) + Len(back)
       /\ \A i \in 1 .. Len(part) + Len(back) :
             new[i] = IF i <= Len(part) THEN part[i] ELSE back[i - Len(part)]
  BY <1>7, <1>9, ConcatProperties
<1>11. new = InsertSorted(s, v)
  <2>1. (k + 1) - 1 = k
    BY <1>1, <1>4
  <2>2. InsertSorted(s, v) = InsertAt(s, k + 1, v)
    BY DEF InsertSorted, k, I
  <2>. QED  BY <2>1, <2>2 DEF InsertAt, new, part, front, back
<1>. HIDE DEF new
<1>12. Len(new) = Len(s) + 1
  BY <1>1, <1>4, <1>6, <1>7, <1>9, <1>10
<1>13. ASSUME NEW i \in 1 .. Len(s) + 1
       PROVE  new[i] = IF i <= k THEN s[i] ELSE IF i = k + 1 THEN v ELSE s[i - 1]
  <2>1. i \in 1 .. Len(part) + Len(back) /\ Len(part) = k + 1 /\ i \in Int /\ k \in Int
    BY <1>1, <1>4, <1>6, <1>7, <1>9
  <2>2. CASE i <= k
    <3>1. i \in 1 .. Len(front) + 1 /\ i <= Len(front) /\ i <= Len(part) /\ i \in 1 .. k
      BY <1>6, <2>1, <2>2
    <3>. QED  BY <1>6, <1>9, <1>10, <2>1, <2>2, <3>1
  <2>3. CASE i = k + 1
    <3>1. i \in 1 .. Len(front) + 1 /\ ~(i <= Len(front)) /\ i <= Len(part) /\ i - Len(front) = 1 /\ ~(i <= k)
      BY <1>6, <2>1, <2>3
    <3>. QED  BY <1>8, <1>9, <1>10, <2>1, <2>3, <3>1
  <2>4. CASE i > k + 1
    <3>1. /\ ~(i <= Len(part)) /\ i - Len(part) \in 1 .. Len(s) - k /\ k + (i - Len(part)) = i - 1
          /\ ~(i <= k) /\ i # k + 1
      BY <1>1, <1>4, <2>1, <2>4
    <3>. QED  BY <1>7, <1>10, <2>1, <3>1
  <2>. QED  BY <2>1, <2>2, <2>3, <2>4
<1>14. InsertedAt(s, v, k, new)
  BY <1>4, <1>5, <1>12, <1>13 DEF InsertedAt
<1>. QED  BY <1>4, <1>10, <1>11, <1>14

Sorted(s) == \A i, j \in 1 .. Len(s) : i <= j => s[i] <= s[j]

(* A value inserted into a list in order leaves it in order. *)
LEMMA StaysSorted ==
    ASSUME NEW s \in Seq(Nat), Sorted(s), NEW v \in Nat, NEW k \in 0 .. Len(s), NEW new \in Seq(Nat),
           InsertedAt(s, v, k, new)
    PROVE  Sorted(new)
<1>1. Len(s) \in Nat /\ \A i \in 1 .. Len(s) : s[i] \in Nat
  BY LenProperties, ElementOfSeq
<1>2. Len(new) = Len(s) + 1
  BY DEF InsertedAt
<1>3. ASSUME NEW i \in 1 .. Len(s), i <= k PROVE s[i] <= v
  <2>1. k \in 1 .. Len(s) /\ s[k] <= v /\ s[i] <= s[k]
    BY <1>1, <1>3 DEF InsertedAt, Sorted
  <2>. QED  BY <1>1, <2>1
<1>4. ASSUME NEW i \in 1 .. Len(s) + 1, NEW j \in 1 .. Len(s) + 1, i <= j
      PROVE  new[i] <= new[j]
  <2>1. /\ new[i] = IF i <= k THEN s[i] ELSE IF i = k + 1 THEN v ELSE s[i - 1]
        /\ new[j] = IF j <= k THEN s[j] ELSE IF j = k + 1 THEN v ELSE s[j - 1]
    BY DEF InsertedAt
  <2>2. i \in Int /\ j \in Int /\ k \in Int
    BY <1>1
  <2>3. CASE j <= k
    <3>1. i <= k /\ i \in 1 .. Len(s) /\ j \in 1 .. Len(s)
      BY <1>1, <1>4, <2>2, <2>3
    <3>. QED  BY <1>4, <2>1, <2>3, <3>1 DEF Sorted
  <2>4. CASE j = k + 1 /\ i <= k
    <3>1. i \in 1 .. Len(s) /\ ~(j <= k)
      BY <1>1, <2>2, <2>4
    <3>. QED  BY <1>3, <2>1, <2>4, <3>1
  <2>5. CASE j = k + 1 /\ i = k + 1
    BY <1>1, <2>1, <2>2, <2>5
  <2>6. CASE j > k + 1 /\ i <= k
    <3>1. i \in 1 .. Len(s) /\ j - 1 \in 1 .. Len(s) /\ i <= j - 1 /\ ~(j <= k) /\ j # k + 1
      BY <1>1, <2>2, <2>6
    <3>. QED  BY <2>1, <2>6, <3>1 DEF Sorted
  <2>7. CASE j > k + 1 /\ i = k + 1
    <3>1. j - 1 \in 1 .. Len(s) /\ j - 1 > k /\ ~(j <= k) /\ j # k + 1 /\ ~(i <= k)
      BY <1>1, <2>2, <2>7
    <3>2. s[j - 1] > v
      BY <3>1 DEF InsertedAt
    <3>. QED  BY <1>1, <2>1, <2>7, <3>1, <3>2
  <2>8. CASE j > k + 1 /\ i > k + 1
    <3>1. /\ i - 1 \in 1 .. Len(s) /\ j - 1 \in 1 .. Len(s) /\ i - 1 <= j - 1
          /\ ~(j <= k) /\ j # k + 1 /\ ~(i <= k) /\ i # k + 1
      BY <1>1, <1>4, <2>2, <2>8
    <3>. QED  BY <2>1, <3>1 DEF Sorted
  <2>. QED  BY <1>4, <2>2, <2>3, <2>4, <2>5, <2>6, <2>7, <2>8
<1>. QED  BY <1>2, <1>4 DEF Sorted

(* The first of a list. *)
Prefixed(vals, s) ==
    /\ vals \in Seq(Nat) /\ Len(vals) <= Len(s)
    /\ \A i \in 1 .. Len(vals) : vals[i] = s[i]

(* A value goes to the same place among the first of a list as in the whole of it,
   unless it goes behind them. *)
LEMMA SamePlace ==
    ASSUME NEW s \in Seq(Nat), Sorted(s), NEW vals, Prefixed(vals, s), NEW v \in Nat,
           NEW k \in 0 .. Len(s), NEW new \in Seq(Nat), InsertedAt(s, v, k, new),
           NEW m \in 0 .. Len(vals), NEW first \in Seq(Nat), InsertedAt(vals, v, m, first),
           k <= Len(vals)
    PROVE  Prefixed(first, new)
<1>1. /\ Len(s) \in Nat /\ Len(vals) \in Nat /\ \A i \in 1 .. Len(s) : s[i] \in Nat
      /\ Len(vals) <= Len(s) /\ \A i \in 1 .. Len(vals) : vals[i] = s[i]
  BY LenProperties, ElementOfSeq DEF Prefixed
<1>2. ~(m < k)
  <2>1. SUFFICES ASSUME m < k PROVE FALSE
    OBVIOUS
  <2>2. k \in 1 .. Len(vals) /\ k > m /\ k # 0 /\ k \in 1 .. Len(s)
    BY <1>1, <2>1
  <2>3. vals[k] > v /\ s[k] <= v /\ vals[k] = s[k] /\ s[k] \in Nat
    BY <1>1, <2>2 DEF InsertedAt
  <2>. QED  BY <2>3
<1>3. ~(k < m)
  <2>1. SUFFICES ASSUME k < m PROVE FALSE
    OBVIOUS
  <2>2. m \in 1 .. Len(s) /\ m > k /\ m # 0 /\ m \in 1 .. Len(vals)
    BY <1>1, <2>1
  <2>3. s[m] > v /\ vals[m] <= v /\ vals[m] = s[m] /\ s[m] \in Nat
    BY <1>1, <2>2 DEF InsertedAt
  <2>. QED  BY <2>3
<1>4. k = m
  BY <1>1, <1>2, <1>3
<1>5. Len(first) = Len(vals) + 1 /\ Len(new) = Len(s) + 1
  BY DEF InsertedAt
<1>6. ASSUME NEW i \in 1 .. Len(vals) + 1 PROVE first[i] = new[i]
  <2>1. i \in 1 .. Len(s) + 1
    BY <1>1
  <2>2. /\ first[i] = IF i <= k THEN vals[i] ELSE IF i = k + 1 THEN v ELSE vals[i - 1]
        /\ new[i] = IF i <= k THEN s[i] ELSE IF i = k + 1 THEN v ELSE s[i - 1]
    BY <1>4, <2>1 DEF InsertedAt
  <2>3. i <= k => i \in 1 .. Len(vals)
    BY <1>1
  <2>4. ~(i <= k) /\ i # k + 1 => i - 1 \in 1 .. Len(vals)
    BY <1>1
  <2>. QED  BY <1>1, <2>2, <2>3, <2>4
<1>. QED  BY <1>1, <1>5, <1>6 DEF Prefixed

(* The samples are those of the runs, and the array holds the first of them. *)
Sampled ==
    /\ taken \in Seq(Nat) /\ Sorted(taken) /\ Prefixed(values, taken)
    /\ samplecount \in Nat /\ Len(taken) = samplecount /\ samplecount <= MaxSamples
    /\ Len(values) = IF samplecount < KBest THEN samplecount ELSE KBest
    /\ fcycResult = NoResult => samplecount < MaxSamples
    /\ fcycResult # NoResult => samplecount > 0 /\ fcycResult = taken[1]

(* add_sample takes over a sample as it would into a list of all of them. *)
LEMMA AddedKeeps ==
    ASSUME Sampled, NEW v \in Nat
    PROVE  LET all == InsertSorted(taken, v)
           IN  /\ all \in Seq(Nat) /\ Sorted(all) /\ Len(all) = samplecount + 1
               /\ Prefixed(Added(v), all)
               /\ Len(Added(v)) = IF samplecount + 1 < KBest THEN samplecount + 1 ELSE KBest
<1>. DEFINE all == InsertSorted(taken, v)
            best == Added(v)
<1>1. PICK k \in 0 .. Len(taken) : all \in Seq(Nat) /\ InsertedAt(taken, v, k, all)
  BY Inserted DEF Sampled
<1>2. Sorted(all) /\ Len(all) = samplecount + 1
  BY <1>1, StaysSorted DEF Sampled, InsertedAt
<1>3. /\ taken \in Seq(Nat) /\ values \in Seq(Nat) /\ Len(taken) = samplecount /\ samplecount \in Nat
      /\ Len(values) \in Nat /\ KBest \in Nat /\ KBest > 0
      /\ \A i \in 1 .. Len(values) : values[i] = taken[i]
      /\ \A i \in 1 .. Len(taken) : taken[i] \in Nat
      /\ Len(values) = IF samplecount < KBest THEN samplecount ELSE KBest
  BY FcycAssumption, LenProperties, ElementOfSeq DEF Sampled, Prefixed
<1>4. CASE samplecount < KBest
  <2>1. best = InsertSorted(values, v)
    BY <1>4 DEF Added
  <2>2. PICK m \in 0 .. Len(values) : best \in Seq(Nat) /\ InsertedAt(values, v, m, best)
    BY <1>3, <2>1, Inserted
  <2>3. Len(values) = Len(taken) /\ k <= Len(values)
    BY <1>3, <1>4
  <2>. HIDE DEF best, all
  <2>4. Prefixed(best, all)
    BY <1>1, <1>3, <2>2, <2>3, SamePlace DEF Sampled
  <2>5. Len(best) = samplecount + 1 /\ samplecount + 1 <= KBest
    BY <1>3, <1>4, <2>2, <2>3 DEF InsertedAt
  <2>6. Len(best) = IF samplecount + 1 < KBest THEN samplecount + 1 ELSE KBest
    BY <1>3, <2>5
  <2>. QED  BY <1>1, <1>2, <2>4, <2>6 DEF best, all
<1>5. CASE ~(samplecount < KBest)
  <2>1. /\ Len(values) = KBest /\ KBest \in 1 .. Len(values) /\ KBest \in 1 .. Len(taken)
        /\ values[KBest] = taken[KBest] /\ ~(samplecount + 1 < KBest)
    BY <1>3, <1>5
  <2>2. CASE v < values[KBest]
    <3>. DEFINE front == Front(values)
    <3>1. /\ front \in Seq(Nat) /\ Len(front) = KBest - 1
          /\ \A i \in 1 .. KBest - 1 : front[i] = values[i]
      <4>1. 1 \in 1 .. Len(values) + 1 /\ KBest - 1 \in 1 - 1 .. Len(values)
        BY <1>3, <2>1
      <4>2. /\ SubSeq(values, 1, KBest - 1) \in Seq(Nat)
            /\ Len(SubSeq(values, 1, KBest - 1)) = (KBest - 1) - 1 + 1
            /\ \A i \in 1 .. (KBest - 1) - 1 + 1 : SubSeq(values, 1, KBest - 1)[i] = values[1 + i - 1]
        BY <1>3, <4>1, Part
      <4>3. front = SubSeq(values, 1, KBest - 1)
        BY <2>1 DEF Front
      <4>. HIDE DEF front
      <4>. QED  BY <1>3, <4>2, <4>3
    <3>2. best = InsertSorted(front, v)
      BY <1>5, <2>2 DEF Added
    <3>. HIDE DEF front, all, best
    <3>3. PICK m \in 0 .. Len(front) : best \in Seq(Nat) /\ InsertedAt(front, v, m, best)
      BY <3>1, <3>2, Inserted
    <3>4. Prefixed(front, taken)
      BY <1>3, <2>1, <3>1 DEF Prefixed
    <3>5. k <= Len(front)
      <4>1. SUFFICES ASSUME KBest <= k PROVE FALSE
        BY <1>3, <3>1
      <4>2. k \in 1 .. Len(taken) /\ k # 0
        BY <1>3, <4>1
      <4>3. taken[KBest] <= taken[k] /\ taken[k] <= v
        BY <1>1, <2>1, <4>1, <4>2 DEF Sampled, Sorted, InsertedAt
      <4>. QED  BY <1>3, <2>1, <2>2, <4>2, <4>3
    <3>6. Prefixed(best, all)
      BY <1>1, <1>3, <3>1, <3>3, <3>4, <3>5, SamePlace DEF Sampled
    <3>7. Len(best) = KBest
      BY <1>3, <3>1, <3>3 DEF InsertedAt
    <3>. QED  BY <1>1, <1>2, <2>1, <3>6, <3>7 DEF best, all
  <2>3. CASE ~(v < values[KBest])
    <3>1. best = values
      BY <1>5, <2>3 DEF Added
    <3>2. KBest <= k
      <4>1. SUFFICES ASSUME k < KBest PROVE FALSE
        BY <1>3
      <4>2. taken[KBest] > v
        BY <1>1, <2>1, <4>1 DEF InsertedAt
      <4>. QED  BY <1>3, <2>1, <2>3, <4>2
    <3>3. \A i \in 1 .. Len(values) : all[i] = values[i]
      <4>1. \A i \in 1 .. Len(values) : i <= k /\ i \in 1 .. Len(taken) + 1
        BY <1>3, <2>1, <3>2
      <4>. HIDE DEF all
      <4>. QED  BY <1>1, <1>3, <4>1 DEF InsertedAt
    <3>4. Len(values) <= Len(all)
      BY <1>2, <1>3
    <3>5. Prefixed(values, all)
      BY <1>3, <3>3, <3>4 DEF Prefixed
    <3>. HIDE DEF all, best
    <3>. QED  BY <1>1, <1>2, <2>1, <3>1, <3>5 DEF best, all
  <2>. QED  BY <2>2, <2>3
<1>. QED  BY <1>4, <1>5

(* A run of the function is sampled. *)
LEMMA SampledStep == Sampled /\ [FcycNext]_fcycVars => Sampled'
<1>. SUFFICES ASSUME Sampled, [FcycNext]_fcycVars PROVE Sampled'
  OBVIOUS
<1>1. CASE UNCHANGED fcycVars
  BY <1>1 DEF fcycVars, Sampled
<1>2. CASE Sample
  <2>1. PICK t \in 0 .. Unsigned * Unsigned - 1, cycles \in Times :
            /\ values' = Added(Difference(Counter(t), Counter(t + cycles)))
            /\ taken' = InsertSorted(taken, cycles)
    BY <1>2 DEF Sample
  <2>2. cycles \in 0 .. Unsigned * Unsigned - 1 /\ cycles \in Nat
    BY FcycAssumption
  <2>3. values' = Added(cycles)
    BY <2>1, <2>2, DifferenceExact
  <2>4. /\ taken' \in Seq(Nat) /\ Sorted(taken') /\ Len(taken') = samplecount + 1
        /\ Prefixed(values', taken')
        /\ Len(values') = IF samplecount + 1 < KBest THEN samplecount + 1 ELSE KBest
    BY <2>1, <2>2, <2>3, AddedKeeps
  <2>5. /\ samplecount' = samplecount + 1 /\ samplecount \in Nat /\ samplecount < MaxSamples
        /\ KBest \in Nat /\ KBest > 0 /\ MaxSamples \in Nat
        /\ fcycResult' = IF HasConverged(values', samplecount') \/ samplecount' >= MaxSamples
                         THEN values'[1] ELSE NoResult
    BY <1>2, FcycAssumption DEF Sample, Sampled
  <2>6. 1 \in 1 .. Len(values') /\ values'[1] = taken'[1] /\ values'[1] \in Nat
    <3>1. 1 \in 1 .. Len(values')
      BY <2>4, <2>5
    <3>. QED  BY <2>4, <3>1, ElementOfSeq DEF Prefixed
  <2>7. values'[1] # NoResult
    BY <2>6 DEF NoResult
  <2>. QED  BY <2>4, <2>5, <2>6, <2>7 DEF Sampled
<1>. QED  BY <1>1, <1>2 DEF FcycNext

(* The array of values always holds the smallest of the times that the runs took, in
   order, and fcyc returns the smallest of all, for any K, any running times that the
   counter can tell and whenever it was started (add_sample of fcyc.c, get_counter of
   clock.c). *)
THEOREM BestAreKept == FcycSpec => []KBestKept
<1>1. FcycInit => Sampled
  BY FcycAssumption DEF FcycInit, Sampled, Sorted, Prefixed, NoResult
<1>2. Sampled => KBestKept
  <2>. SUFFICES ASSUME Sampled PROVE KBestKept
    OBVIOUS
  <2>1. /\ Len(values) \in Nat /\ Len(taken) \in Nat /\ taken \in Seq(Nat) /\ values \in Seq(Nat)
        /\ Len(values) <= Len(taken) /\ \A i \in 1 .. Len(values) : values[i] = taken[i]
    BY LenProperties DEF Sampled, Prefixed
  <2>2. /\ SubSeq(taken, 1, Len(values)) \in Seq(Nat)
        /\ Len(SubSeq(taken, 1, Len(values))) = Len(values)
        /\ \A i \in 1 .. Len(values) : SubSeq(taken, 1, Len(values))[i] = taken[i]
    <3>1. 1 \in 1 .. Len(taken) + 1 /\ Len(values) \in 1 - 1 .. Len(taken)
      BY <2>1
    <3>2. /\ SubSeq(taken, 1, Len(values)) \in Seq(Nat)
          /\ Len(SubSeq(taken, 1, Len(values))) = Len(values) - 1 + 1
          /\ \A i \in 1 .. Len(values) - 1 + 1 :
                SubSeq(taken, 1, Len(values))[i] = taken[1 + i - 1]
      BY <2>1, <3>1, Part
    <3>. QED  BY <2>1, <3>2
  <2>3. values = SubSeq(taken, 1, Len(values))
    BY <2>1, <2>2, SeqEqual
  <2>. QED  BY <2>3 DEF Sampled, KBestKept
<1>. QED  BY <1>1, <1>2, SampledStep, PTL DEF FcycSpec

-----------------------------------------------------------------------------
(* test-trans *)

(* test-trans and the function it is at.  The functions to come have no result yet;
   while one runs, all of B is wrong but what it has stored. *)
RecordKept ==
    /\ DOMAIN func_list = 1 .. 3 /\ DOMAIN truth = 1 .. 3
    /\ \A fn \in 1 .. 3 : /\ {"correct", "misses"} \subseteq DOMAIN func_list[fn]
                          /\ {"unwritten", "misses", "died", "stale"} \subseteq DOMAIN truth[fn]
    /\ {"phase", "fn", "rows"} = DOMAIN step /\ step.fn \in 1 .. 3
    /\ \A fn \in 1 .. 3 :
           fn > step.fn \/ (fn = step.fn /\ step.phase \in {"main", "system", "rows"}) =>
               ~func_list[fn].correct /\ func_list[fn].misses = 0
    /\ step.phase = "simulate" => func_list[step.fn].correct /\ func_list[step.fn].misses = 0
    /\ task.program = "test-trans" /\ step.phase = "rows" => wrong = All /\ unwritten \subseteq All
    /\ CorrectIsWhole

(* Three functions are registered. *)
LEMMA ThreeFunctions == DOMAIN Registered = 1 .. 3 /\ Len(Registered) = 3
  BY DEF Registered

(* A step to another phase. *)
LEMMA PhaseGoes ==
    ASSUME DOMAIN step = {"phase", "fn", "rows"}, NEW phase, Become(phase)
    PROVE  step'.phase = phase /\ step'.fn = step.fn /\ DOMAIN step' = {"phase", "fn", "rows"}
  BY DEF Become

(* The step to the next function. *)
LEMMA FunctionGoes ==
    ASSUME RecordKept, NextFunction
    PROVE  /\ DOMAIN step' = {"phase", "fn", "rows"}
           /\ \/ step'.phase = "print" /\ step'.fn = step.fn
              \/ step'.phase = "system" /\ step'.fn = step.fn + 1 /\ step'.fn \in 1 .. 3
<1>1. CASE step.fn = 3
  BY <1>1, ThreeFunctions DEF RecordKept, NextFunction
<1>2. CASE step.fn # 3
  <2>1. step' = [phase |-> "system", fn |-> step.fn + 1, rows |-> 0]
    BY <1>2, ThreeFunctions DEF NextFunction
  <2>2. step.fn + 1 \in 1 .. 3
    BY <1>2 DEF RecordKept
  <2>. QED  BY <2>1, <2>2
<1>. QED  BY <1>1, <1>2

(* A step that leaves the results, and starts no function. *)
LEMMA ResultsStay ==
    ASSUME RecordKept, task' = task, func_list' = func_list, truth' = truth,
           DOMAIN step' = {"phase", "fn", "rows"}, step'.fn \in 1 .. 3,
           \/ step'.fn = step.fn + 1 /\ step'.phase = "system"
           \/ /\ step'.fn = step.fn
              /\ \/ step'.phase \in {"refused", "print", "printed", "failed", "aborted"}
                 \/ step.phase \in {"main", "system", "rows"} /\ step'.phase \in {"main", "system"}
                 \/ /\ step.phase \in {"system", "rows"} /\ step'.phase = "rows"
                    /\ task.program = "test-trans" => wrong' = All /\ unwritten' \subseteq All
    PROVE  RecordKept'
<1>1. All' = All
  BY DEF All
<1>2. CorrectIsWhole'
  BY DEF RecordKept, CorrectIsWhole
<1>3. \A fn \in 1 .. 3 :
           fn > step'.fn \/ (fn = step'.fn /\ step'.phase \in {"main", "system", "rows"}) =>
               ~func_list[fn].correct /\ func_list[fn].misses = 0
  BY DEF RecordKept
<1>. QED  BY <1>1, <1>2, <1>3 DEF RecordKept

(* What test-trans notes when a function has run. *)
LEMMA TruthNoted ==
    ASSUME RecordKept, NEW died \in BOOLEAN, Truth(died)
    PROVE  /\ DOMAIN truth' = 1 .. 3
           /\ \A fn \in 1 .. 3 : fn # step.fn => truth'[fn] = truth[fn]
           /\ truth'[step.fn].unwritten = unwritten /\ truth'[step.fn].died = died
           /\ {"unwritten", "misses", "died", "stale"} \subseteq DOMAIN truth'[step.fn]
<1>1. step.fn \in 1 .. 3 /\ DOMAIN truth = 1 .. 3
      /\ {"unwritten", "misses", "died", "stale"} \subseteq DOMAIN truth[step.fn]
  BY DEF RecordKept
<1>2. truth' = [truth EXCEPT ![step.fn] = [truth[step.fn] EXCEPT !.unwritten = unwritten, !.died = died]]
  BY <1>1 DEF Truth
<1>3. truth'[step.fn] = [truth[step.fn] EXCEPT !.unwritten = unwritten, !.died = died]
  BY <1>1, <1>2
<1>. QED  BY <1>1, <1>2, <1>3

(* A function that ran and is not taken for correct. *)
LEMMA NotTaken ==
    ASSUME RecordKept, NEW died \in BOOLEAN, Truth(died), In("rows"), task' = task,
           func_list' = func_list, NextFunction \/ Become("failed")
    PROVE  RecordKept'
<1>1. /\ DOMAIN step' = {"phase", "fn", "rows"} /\ step'.fn \in 1 .. 3
      /\ \/ step'.phase = "print" /\ step'.fn = step.fn
         \/ step'.phase = "system" /\ step'.fn = step.fn + 1
         \/ step'.phase = "failed" /\ step'.fn = step.fn
  BY FunctionGoes, PhaseGoes DEF RecordKept
<1>2. ~func_list[step.fn].correct /\ func_list[step.fn].misses = 0
  BY DEF RecordKept, In
<1>3. CorrectIsWhole'
  <2>1. \A fn \in 1 .. 3 : fn # step.fn => truth'[fn] = truth[fn]
    BY TruthNoted
  <2>. QED  BY <1>2, <2>1, ThreeFunctions DEF RecordKept, CorrectIsWhole
<1>4. /\ DOMAIN truth' = 1 .. 3
      /\ \A fn \in 1 .. 3 : {"unwritten", "misses", "died", "stale"} \subseteq DOMAIN truth'[fn]
  BY TruthNoted DEF RecordKept
<1>5. \A fn \in 1 .. 3 :
           fn > step'.fn \/ (fn = step'.fn /\ step'.phase \in {"main", "system", "rows"}) =>
               ~func_list[fn].correct /\ func_list[fn].misses = 0
  BY <1>1 DEF RecordKept
<1>. QED  BY <1>1, <1>3, <1>4, <1>5 DEF RecordKept

(* A function is taken for correct that stored all of B, or died. *)
LEMMA Taken ==
    ASSUME RecordKept, NEW died \in BOOLEAN, Truth(died), In("rows"), task' = task,
           TakenForCorrect, unwritten = {} \/ died
    PROVE  RecordKept'
<1>1. step'.phase = "simulate" /\ step'.fn = step.fn /\ DOMAIN step' = {"phase", "fn", "rows"}
  BY PhaseGoes DEF RecordKept, TakenForCorrect
<1>2. step.fn \in 1 .. 3 /\ func_list[step.fn].misses = 0 /\ DOMAIN func_list = 1 .. 3
      /\ {"correct", "misses"} \subseteq DOMAIN func_list[step.fn]
  BY DEF RecordKept, In
<1>3. func_list' = [func_list EXCEPT ![step.fn] = [func_list[step.fn] EXCEPT !.correct = TRUE]]
  BY <1>2 DEF TakenForCorrect
<1>4. /\ DOMAIN func_list' = 1 .. 3
      /\ \A fn \in 1 .. 3 : fn # step.fn => func_list'[fn] = func_list[fn]
      /\ func_list'[step.fn] = [func_list[step.fn] EXCEPT !.correct = TRUE]
  BY <1>2, <1>3
<1>5. /\ func_list'[step.fn].correct /\ func_list'[step.fn].misses = 0
      /\ {"correct", "misses"} \subseteq DOMAIN func_list'[step.fn]
  BY <1>2, <1>4
<1>6. CorrectIsWhole'
  <2>1. \A fn \in 1 .. 3 : fn # step.fn => truth'[fn] = truth[fn]
    BY TruthNoted
  <2>2. truth'[step.fn].unwritten = unwritten /\ truth'[step.fn].died = died
    BY TruthNoted
  <2>. QED  BY <1>2, <1>4, <1>5, <2>1, <2>2, ThreeFunctions DEF RecordKept, CorrectIsWhole
<1>7. /\ DOMAIN truth' = 1 .. 3
      /\ \A fn \in 1 .. 3 : {"unwritten", "misses", "died", "stale"} \subseteq DOMAIN truth'[fn]
  BY TruthNoted DEF RecordKept
<1>8. \A fn \in 1 .. 3 : {"correct", "misses"} \subseteq DOMAIN func_list'[fn]
  BY <1>4, <1>5 DEF RecordKept
<1>9. \A fn \in 1 .. 3 : fn > step'.fn => ~func_list'[fn].correct /\ func_list'[fn].misses = 0
  BY <1>1, <1>2, <1>4 DEF RecordKept
<1>. QED  BY <1>1, <1>2, <1>4, <1>5, <1>6, <1>7, <1>8, <1>9 DEF RecordKept

(* The misses are collected that csim-ref counted, or those of an old file. *)
LEMMA CollectKeeps ==
    ASSUME RecordKept, In("simulate"), task' = task, Collect,
           \/ /\ csim_results' = sim.misses
              /\ truth' = [truth EXCEPT ![step.fn].misses = sim.misses]
           \/ truth' = [truth EXCEPT ![step.fn].misses = sim.misses, ![step.fn].stale = TRUE]
    PROVE  RecordKept'
<1>1. /\ DOMAIN step' = {"phase", "fn", "rows"} /\ step'.fn \in 1 .. 3
      /\ \/ step'.phase = "print" /\ step'.fn = step.fn
         \/ step'.phase = "system" /\ step'.fn = step.fn + 1
  BY FunctionGoes DEF RecordKept, Collect
<1>2. /\ step.fn \in 1 .. 3 /\ DOMAIN func_list = 1 .. 3 /\ DOMAIN truth = 1 .. 3
      /\ func_list[step.fn].correct
      /\ {"correct", "misses"} \subseteq DOMAIN func_list[step.fn]
      /\ {"unwritten", "misses", "died", "stale"} \subseteq DOMAIN truth[step.fn]
  BY DEF RecordKept, In
<1>3. func_list' = [func_list EXCEPT ![step.fn] = [func_list[step.fn] EXCEPT !.misses = csim_results']]
  BY <1>2 DEF Collect
<1>4. /\ DOMAIN func_list' = 1 .. 3
      /\ \A fn \in 1 .. 3 : fn # step.fn => func_list'[fn] = func_list[fn]
      /\ func_list'[step.fn] = [func_list[step.fn] EXCEPT !.misses = csim_results']
  BY <1>2, <1>3
<1>5. /\ func_list'[step.fn].correct /\ func_list'[step.fn].misses = csim_results'
      /\ {"correct", "misses"} \subseteq DOMAIN func_list'[step.fn]
  BY <1>2, <1>4
<1>6. /\ DOMAIN truth' = 1 .. 3
      /\ \A fn \in 1 .. 3 : fn # step.fn => truth'[fn] = truth[fn]
      /\ {"unwritten", "misses", "died", "stale"} \subseteq DOMAIN truth'[step.fn]
      /\ truth'[step.fn].unwritten = truth[step.fn].unwritten /\ truth'[step.fn].died = truth[step.fn].died
      /\ csim_results' = truth'[step.fn].misses \/ truth'[step.fn].stale
  <2>1. CASE csim_results' = sim.misses /\ truth' = [truth EXCEPT ![step.fn].misses = sim.misses]
    <3>1. truth' = [truth EXCEPT ![step.fn] = [truth[step.fn] EXCEPT !.misses = sim.misses]]
      BY <1>2, <2>1
    <3>2. truth'[step.fn] = [truth[step.fn] EXCEPT !.misses = sim.misses]
      BY <1>2, <3>1
    <3>. QED  BY <1>2, <2>1, <3>1, <3>2
  <2>2. CASE truth' = [truth EXCEPT ![step.fn].misses = sim.misses, ![step.fn].stale = TRUE]
    <3>1. truth' = [truth EXCEPT ![step.fn] = [truth[step.fn] EXCEPT !.misses = sim.misses, !.stale = TRUE]]
      BY <1>2, <2>2
    <3>2. truth'[step.fn] = [truth[step.fn] EXCEPT !.misses = sim.misses, !.stale = TRUE]
      BY <1>2, <3>1
    <3>. QED  BY <1>2, <3>1, <3>2
  <2>. QED  BY <2>1, <2>2
<1>7. CorrectIsWhole'
  BY <1>2, <1>4, <1>5, <1>6, ThreeFunctions DEF RecordKept, CorrectIsWhole
<1>8. /\ \A fn \in 1 .. 3 : {"correct", "misses"} \subseteq DOMAIN func_list'[fn]
      /\ \A fn \in 1 .. 3 : {"unwritten", "misses", "died", "stale"} \subseteq DOMAIN truth'[fn]
  BY <1>4, <1>5, <1>6 DEF RecordKept
<1>9. \A fn \in 1 .. 3 :
           fn > step'.fn \/ (fn = step'.fn /\ step'.phase \in {"main", "system", "rows"}) =>
               ~func_list'[fn].correct /\ func_list'[fn].misses = 0
  BY <1>1, <1>2, <1>4 DEF RecordKept
<1>. QED  BY <1>1, <1>4, <1>6, <1>7, <1>8, <1>9 DEF RecordKept

(* The simulation, with its file or without. *)
LEMMA SimulateKeeps ==
    ASSUME RecordKept, Simulate
    PROVE  RecordKept'
<1>1. In("simulate") /\ task' = task
  BY DEF Simulate
<1>2. CASE /\ Collect
           /\ \/ /\ csim_results' = sim.misses
                 /\ truth' = [truth EXCEPT ![step.fn].misses = sim.misses]
              \/ truth' = [truth EXCEPT ![step.fn].misses = sim.misses, ![step.fn].stale = TRUE]
  BY <1>1, <1>2, CollectKeeps
<1>3. CASE Become("aborted") /\ func_list' = func_list /\ truth' = truth
  BY <1>1, <1>3, PhaseGoes, ResultsStay DEF RecordKept
<1>. QED  BY <1>2, <1>3 DEF Simulate

(* Each step of test-trans, tracegen and driver.py. *)
LEMMA RecordStep == RecordKept /\ [TransNext]_transVars => RecordKept'
<1>. SUFFICES ASSUME RecordKept, [TransNext]_transVars PROVE RecordKept'
  OBVIOUS
<1>0. DOMAIN step = {"phase", "fn", "rows"} /\ step.fn \in 1 .. 3
  BY DEF RecordKept
<1>1. CASE StartTrans
  <2>1. task' = task /\ func_list' = func_list /\ truth' = truth
        /\ (Become("refused") \/ Become("system")) /\ step.phase = "main"
    BY <1>1 DEF StartTrans, In
  <2>. QED  BY <1>0, <2>1, PhaseGoes, ResultsStay
<1>2. CASE StartTracegen
  <2>1. /\ task' = task /\ func_list' = func_list /\ truth' = truth /\ Become("rows")
        /\ step.phase = "system" /\ unwritten' = All
    BY <1>2 DEF StartTracegen, In
  <2>2. task.program = "test-trans" => wrong' = All
    BY <1>2 DEF StartTracegen, Filled
  <2>. QED  BY <1>0, <2>1, <2>2, PhaseGoes, ResultsStay
<1>3. CASE NoValgrind
  <2>1. task' = task /\ func_list' = func_list /\ truth' = truth /\ NextFunction
    BY <1>3 DEF NoValgrind
  <2>. QED  BY <1>0, <2>1, FunctionGoes, ResultsStay
<1>4. CASE DoRow
  <2>1. /\ task' = task /\ func_list' = func_list /\ truth' = truth /\ wrong' = wrong
        /\ step.phase = "rows"
    BY <1>4 DEF DoRow, In
  <2>2. unwritten' \subseteq unwritten
    BY <1>4 DEF DoRow
  <2>3. step' = [step EXCEPT !.rows = @ + 1]
    BY <1>4 DEF DoRow
  <2>4. step'.phase = "rows" /\ step'.fn = step.fn /\ DOMAIN step' = {"phase", "fn", "rows"}
    BY <1>0, <2>1, <2>3
  <2>5. task.program = "test-trans" => wrong' = All /\ unwritten' \subseteq All
    BY <2>1, <2>2 DEF RecordKept
  <2>. QED  BY <1>0, <2>1, <2>4, <2>5, ResultsStay
<1>5. CASE Validate
  <2>1. task' = task /\ Truth(FALSE) /\ In("rows")
    BY <1>5 DEF Validate
  <2>2. CASE func_list' = func_list /\ (NextFunction \/ Become("failed"))
    BY <2>1, <2>2, NotTaken
  <2>3. CASE TakenForCorrect /\ wrong \cap unwritten = {} /\ task.program = "test-trans"
    <3>1. wrong = All /\ unwritten \subseteq All
      BY <2>1, <2>3 DEF RecordKept, In
    <3>2. unwritten = {}
      BY <2>3, <3>1
    <3>. QED  BY <2>1, <2>3, <3>2, Taken
  <2>. QED  BY <1>5, <2>2, <2>3 DEF Validate
<1>6. CASE Die
  <2>1. task' = task /\ Truth(TRUE) /\ In("rows")
    BY <1>6 DEF Die
  <2>2. CASE func_list' = func_list /\ (NextFunction \/ Become("failed"))
    BY <2>1, <2>2, NotTaken
  <2>3. CASE TakenForCorrect
    BY <2>1, <2>3, Taken
  <2>. QED  BY <1>6, <2>2, <2>3 DEF Die
<1>7. CASE Simulate
  BY <1>7, SimulateKeeps
<1>8. CASE TransAlarm
  <2>1. task' = task /\ func_list' = func_list /\ truth' = truth /\ Become("print")
    BY <1>8 DEF TransAlarm
  <2>. QED  BY <1>0, <2>1, PhaseGoes, ResultsStay
<1>9. CASE PrintResults
  <2>1. task' = task /\ func_list' = func_list /\ truth' = truth /\ Become("printed")
    BY <1>9 DEF PrintResults
  <2>. QED  BY <1>0, <2>1, PhaseGoes, ResultsStay
<1>10. CASE UNCHANGED transVars
  BY <1>10 DEF transVars, RecordKept, CorrectIsWhole, All
<1>. QED  BY <1>1, <1>2, <1>3, <1>4, <1>5, <1>6, <1>7, <1>8, <1>9, <1>10 DEF TransNext

(* What test-trans takes for correct stored every element of B, for any size of the
   matrix, or died where the shell hides it; and the misses it reports are those of
   that function's trace unless the simulator failed (eval_perf of test-trans.c). *)
THEOREM CorrectStoresAll == TransSpec => []CorrectIsWhole
<1>1. TransInit => RecordKept
  BY ThreeFunctions DEF TransInit, RecordKept, CorrectIsWhole
<1>2. RecordKept => CorrectIsWhole
  BY DEF RecordKept
<1>. QED  BY <1>1, <1>2, RecordStep, PTL DEF TransSpec

=============================================================================

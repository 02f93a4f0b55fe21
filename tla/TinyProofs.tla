----------------------------- MODULE TinyProofs -----------------------------
(***************************************************************************)
(* Theorems about the I/O package and the web server over it.              *)
(***************************************************************************)
EXTENDS Tiny, WellOrder, SequenceTheorems

(* What is on the wires. *)
Words == Methods \cup {"200", "403", "404", "501", "html", "gif", "png", "jpeg", "plain",
                      "junk", "log"}
Element == STRING \cup Words \cup {NL} \cup Paths
Stream == Seq(Element)

-----------------------------------------------------------------------------
(* The first elements of a sequence and the rest. *)

(* A sequence cut in two. *)
LEMMA Cut ==
    ASSUME NEW S, NEW q \in Seq(S), NEW k \in 0 .. Len(q)
    PROVE  /\ First(k, q) \in Seq(S) /\ Len(First(k, q)) = k
           /\ \A i \in 1 .. k : First(k, q)[i] = q[i]
           /\ Rest(k, q) \in Seq(S) /\ Len(Rest(k, q)) = Len(q) - k
           /\ \A i \in 1 .. Len(q) - k : Rest(k, q)[i] = q[k + i]
<1>. DEFINE f == SubSeq(q, 1, k)
            r == SubSeq(q, k + 1, Len(q))
<1>0. Len(q) \in Nat /\ k \in Nat /\ k <= Len(q) /\ k \in Int /\ k + 1 \in Int /\ Len(q) \in Int /\ 1 \in Int
  BY LenProperties
<1>1. (\A i \in 1 .. k : q[i] \in S) /\ (\A i \in k + 1 .. Len(q) : q[i] \in S)
  BY <1>0, ElementOfSeq
<1>2. /\ f \in Seq(S) /\ Len(f) = IF 1 <= k THEN k - 1 + 1 ELSE 0
      /\ \A i \in 1 .. k - 1 + 1 : f[i] = q[1 + i - 1]
  BY <1>0, <1>1, SubSeqProperties
<1>3. /\ r \in Seq(S) /\ Len(r) = IF k + 1 <= Len(q) THEN Len(q) - (k + 1) + 1 ELSE 0
      /\ \A i \in 1 .. Len(q) - (k + 1) + 1 : r[i] = q[(k + 1) + i - 1]
  BY <1>0, <1>1, SubSeqProperties
<1>. HIDE DEF f, r
<1>4. Len(f) = k /\ \A i \in 1 .. k : f[i] = q[i]
  BY <1>0, <1>2
<1>5. Len(r) = Len(q) - k /\ \A i \in 1 .. Len(q) - k : r[i] = q[k + i]
  BY <1>0, <1>3
<1>6. f = First(k, q) /\ r = Rest(k, q)
  BY DEF f, r, First, Rest
<1>. QED  BY <1>2, <1>3, <1>4, <1>5, <1>6

(* The two parts make up the sequence. *)
LEMMA Joined ==
    ASSUME NEW S, NEW q \in Seq(S), NEW k \in 0 .. Len(q)
    PROVE  First(k, q) \o Rest(k, q) = q
<1>. DEFINE f == First(k, q)
            r == Rest(k, q)
            t == f \o r
<1>1. /\ f \in Seq(S) /\ Len(f) = k /\ \A i \in 1 .. k : f[i] = q[i]
      /\ r \in Seq(S) /\ Len(r) = Len(q) - k /\ \A i \in 1 .. Len(q) - k : r[i] = q[k + i]
      /\ Len(q) \in Nat
  BY Cut, LenProperties
<1>. HIDE DEF f, r
<1>2. /\ t \in Seq(S) /\ Len(t) = Len(f) + Len(r)
      /\ \A i \in 1 .. Len(f) + Len(r) : t[i] = IF i <= Len(f) THEN f[i] ELSE r[i - Len(f)]
  BY <1>1, ConcatProperties
<1>. HIDE DEF t
<1>3. Len(t) = Len(q)
  BY <1>1, <1>2
<1>4. ASSUME NEW i \in 1 .. Len(t) PROVE t[i] = q[i]
  <2>1. i \in 1 .. Len(f) + Len(r) /\ i \in 1 .. Len(q)
    BY <1>1, <1>2, <1>3
  <2>2. CASE i <= k
    <3>1. t[i] = f[i] /\ i \in 1 .. k
      BY <1>1, <1>2, <2>1, <2>2
    <3>. QED  BY <1>1, <3>1
  <2>3. CASE ~(i <= k)
    <3>1. t[i] = r[i - k] /\ i - k \in 1 .. Len(q) - k /\ k + (i - k) = i
      BY <1>1, <1>2, <2>1, <2>3
    <3>. QED  BY <1>1, <3>1
  <2>. QED  BY <2>2, <2>3
<1>5. t = q
  BY <1>2, <1>3, <1>4, SeqEqual
<1>. QED  BY <1>5 DEF t, f, r

(* Where two sequences were put together they are cut into the same two. *)
LEMMA CutJoined ==
    ASSUME NEW S, NEW p \in Seq(S), NEW q \in Seq(S)
    PROVE  /\ p \o q \in Seq(S) /\ Len(p \o q) = Len(p) + Len(q)
           /\ First(Len(p), p \o q) = p /\ Rest(Len(p), p \o q) = q
<1>. DEFINE t == p \o q
            f == First(Len(p), t)
            r == Rest(Len(p), t)
<1>1. /\ t \in Seq(S) /\ Len(t) = Len(p) + Len(q) /\ Len(p) \in Nat /\ Len(q) \in Nat
      /\ \A i \in 1 .. Len(p) + Len(q) : t[i] = IF i <= Len(p) THEN p[i] ELSE q[i - Len(p)]
  BY ConcatProperties, LenProperties
<1>. HIDE DEF t
<1>2. Len(p) \in 0 .. Len(t)
  BY <1>1
<1>3. /\ f \in Seq(S) /\ Len(f) = Len(p) /\ \A i \in 1 .. Len(p) : f[i] = t[i]
      /\ r \in Seq(S) /\ Len(r) = Len(t) - Len(p) /\ \A i \in 1 .. Len(t) - Len(p) : r[i] = t[Len(p) + i]
  BY <1>1, <1>2, Cut
<1>. HIDE DEF f, r
<1>4. \A i \in 1 .. Len(f) : f[i] = p[i]
  BY <1>1, <1>3
<1>5. Len(r) = Len(q) /\ \A i \in 1 .. Len(r) : r[i] = q[i]
  BY <1>1, <1>3
<1>6. f = p
  BY <1>3, <1>4, SeqEqual
<1>7. r = q
  BY <1>3, <1>5, SeqEqual
<1>. QED  BY <1>1, <1>6, <1>7 DEF t, f, r

(* It does not matter in which order three sequences are put together. *)
LEMMA Associative ==
    ASSUME NEW S, NEW p \in Seq(S), NEW q \in Seq(S), NEW r \in Seq(S)
    PROVE  /\ p \o q \in Seq(S) /\ q \o r \in Seq(S) /\ (p \o q) \o r \in Seq(S)
           /\ (p \o q) \o r = p \o (q \o r)
<1>1. p \o q \in Seq(S)
  BY ConcatProperties
<1>2. q \o r \in Seq(S)
  BY ConcatProperties
<1>3. (p \o q) \o r \in Seq(S)
  BY <1>1, ConcatProperties
<1>4. (p \o q) \o r = p \o (q \o r)
  BY ConcatAssociative
<1>. QED  BY <1>1, <1>2, <1>3, <1>4

(* Cutting off k elements, in two goes. *)
LEMMA RestRest ==
    ASSUME NEW S, NEW q \in Seq(S), NEW j \in Nat, NEW k \in Nat, j + k <= Len(q)
    PROVE  /\ Rest(k, Rest(j, q)) = Rest(j + k, q)
           /\ First(j, q) \o First(k, Rest(j, q)) = First(j + k, q)
<1>. DEFINE r == Rest(j, q)
            a == First(j, q)
            b1 == First(k, r)
            c == Rest(k, r)
<1>1. j \in 0 .. Len(q) /\ j + k \in 0 .. Len(q) /\ Len(q) \in Nat
  BY LenProperties
<1>2. a \in Seq(S) /\ Len(a) = j /\ r \in Seq(S) /\ Len(r) = Len(q) - j /\ a \o r = q
  BY <1>1, Cut, Joined
<1>. HIDE DEF r, a
<1>3. k \in 0 .. Len(r)
  BY <1>1, <1>2
<1>4. b1 \in Seq(S) /\ Len(b1) = k /\ c \in Seq(S) /\ b1 \o c = r
  BY <1>2, <1>3, Cut, Joined
<1>. HIDE DEF b1, c
<1>9. a \in Seq(S) /\ b1 \in Seq(S) /\ c \in Seq(S)
  BY <1>2, <1>4
<1>5. a \o (b1 \o c) = (a \o b1) \o c
  BY <1>9, Associative, SMTT(20)
<1>6. a \o b1 \in Seq(S) /\ Len(a \o b1) = Len(a) + Len(b1)
  <2>1. a \o b1 \in Seq(S)
    BY <1>9, ConcatProperties
  <2>2. Len(a \o b1) = Len(a) + Len(b1)
    BY <1>9, ConcatProperties
  <2>. QED  BY <2>1, <2>2
<1>10. Len(a \o b1) = j + k
  BY <1>2, <1>4, <1>6
<1>7. (a \o b1) \o c = q
  BY <1>2, <1>4, <1>5
<1>8. First(j + k, q) = a \o b1 /\ Rest(j + k, q) = c
  <2>1. First(Len(a \o b1), (a \o b1) \o c) = a \o b1 /\ Rest(Len(a \o b1), (a \o b1) \o c) = c
    BY <1>6, <1>9, CutJoined, Zenon
  <2>. QED  BY <1>7, <1>10, <2>1
<1>. QED  BY <1>8 DEF r, a, b1, c

(* Nothing before and nothing behind a sequence. *)
LEMMA Nothing ==
    ASSUME NEW S, NEW q \in Seq(S)
    PROVE  /\ << >> \in Seq(S) /\ << >> \o q = q /\ q \o << >> = q
           /\ (Len(q) = 0 <=> q = << >>)
           /\ First(0, q) = << >> /\ Rest(0, q) = q /\ Rest(Len(q), q) = << >>
<1>1. << >> \in Seq(S) /\ << >> \o q = q /\ q \o << >> = q /\ Len(q) \in Nat
  BY EmptySeq, ConcatEmptySeq, LenProperties
<1>2. Len(q) = 0 <=> q = << >>
  BY EmptySeq
<1>3. First(0, q) = << >>
  BY <1>1, Cut, EmptySeq
<1>4. Rest(0, q) = q
  <2>1. 0 \in 0 .. Len(q)
    BY <1>1
  <2>2. Rest(0, q) \in Seq(S) /\ First(0, q) \o Rest(0, q) = q
    BY <2>1, Cut, Joined, Zenon
  <2>. QED  BY <1>3, <2>2, ConcatEmptySeq
<1>5. Rest(Len(q), q) = << >>
  <2>1. Len(q) \in 0 .. Len(q)
    BY <1>1
  <2>2. Rest(Len(q), q) \in Seq(S) /\ Len(Rest(Len(q), q)) = Len(q) - Len(q)
    BY <2>1, Cut, Zenon
  <2>3. Len(q) - Len(q) = 0
    BY <1>1
  <2>. QED  BY <2>2, <2>3, EmptySeq
<1>. QED  BY <1>1, <1>2, <1>3, <1>4, <1>5

(* What stands in front of something is a prefix of the two. *)
LEMMA Prefix ==
    ASSUME NEW S, NEW p \in Seq(S), NEW q \in Seq(S)
    PROVE  IsPrefix(p, p \o q)
<1>1. Len(p \o q) = Len(p) + Len(q) /\ Len(p) \in Nat /\ Len(q) \in Nat /\ First(Len(p), p \o q) = p
  BY CutJoined, LenProperties
<1>2. SubSeq(p, 1, Len(p)) = p
  <2>1. Rest(Len(p), p) = << >> /\ Len(p) \in 0 .. Len(p)
    BY <1>1, Nothing
  <2>2. First(Len(p), p) \in Seq(S)
    BY <2>1, Cut
  <2>3. First(Len(p), p) = p
    BY <2>1, <2>2, Joined, ConcatEmptySeq
  <2>. QED  BY <2>3 DEF First
<1>. QED  BY <1>1, <1>2 DEF IsPrefix, First

-----------------------------------------------------------------------------
(* The calls of the package.  A frame is well typed, has not taken more than it
   asked for, has no end of a line before its last element when it reads a line,
   and has something left over in the buffer only when it is complete. *)
Rios == [op : Ops \cup {"none"}, n : Nat, got : Stream, unread : Stream, eof : BOOLEAN]
OneLine(rio) == rio.op = "readlineb" => \A j \in 1 .. Len(rio.got) - 1 : rio.got[j] # NL
Ahead(rio) == rio.unread # << >> => rio.op \in Buffered /\ Complete(rio) /\ ~rio.eof
Sound(rio) == rio \in Rios /\ (rio.op # "none" => Room(rio) \in Nat) /\ OneLine(rio) /\ Ahead(rio)

(* The elements that are on their way to the caller of the package. *)
Coming(rio, pipe) == rio.got \o (rio.unread \o pipe)

(* The first element of a stream that ends a line. *)
LEMMA FirstEnd ==
    ASSUME NEW q \in Stream
    PROVE  LET at == SelectInSeq(q, LAMBDA e : e = NL)
           IN  \/ at = 0 /\ \A j \in 1 .. Len(q) : q[j] # NL
               \/ /\ at \in 1 .. Len(q) /\ q[at] = NL
                  /\ \A j \in 1 .. at - 1 : q[j] # NL
<1>. DEFINE I == {i \in 1 .. Len(q) : q[i] = NL}
            at == SelectInSeq(q, LAMBDA e : e = NL)
<1>1. at = IF I # {} THEN Min(I) ELSE 0
  BY DEF SelectInSeq
<1>2. Len(q) \in Nat
  BY LenProperties DEF Stream
<1>3. CASE I = {}
  <2>1. at = 0
    BY <1>1, <1>3
  <2>2. \A j \in 1 .. Len(q) : q[j] # NL
    BY <1>3
  <2>. QED  BY <2>1, <2>2
<1>4. CASE I # {}
  <2>1. I \in SUBSET Nat
    BY <1>2
  <2>2. \E m \in I : \A k \in I : m <= k
    BY <1>4, <2>1, LeastNatural
  <2>3. Min(I) \in I /\ \A k \in I : Min(I) <= k
    BY <2>2 DEF Min
  <2>4. at = Min(I)
    BY <1>1, <1>4
  <2>. HIDE DEF at
  <2>5. at \in 1 .. Len(q) /\ q[at] = NL /\ \A k \in I : at <= k
    BY <2>3, <2>4
  <2>6. \A j \in 1 .. at - 1 : q[j] # NL
    BY <1>2, <2>5
  <2>. QED  BY <2>5, <2>6 DEF at
<1>. QED  BY <1>3, <1>4

(* What a call takes out of the buffer, when no end of a line came before. *)
LEMMA TakenPart ==
    ASSUME NEW rio, rio.unread \in Stream, Room(rio) \in Nat
    PROVE  LET k == Takes(rio, rio.unread)
           IN  /\ k \in 0 .. Len(rio.unread) /\ k <= Room(rio)
               /\ rio.op = "readlineb" => \A j \in 1 .. k - 1 : rio.unread[j] # NL
               /\ \/ k = Len(rio.unread)
                  \/ k = Room(rio)
                  \/ rio.op = "readlineb" /\ k > 0 /\ rio.unread[k] = NL
<1>. DEFINE u == rio.unread
            m == Least(Room(rio), Len(u))
            at == SelectInSeq(u, LAMBDA e : e = NL)
            k == Takes(rio, u)
<1>1. Len(u) \in Nat /\ u \in Stream
  BY LenProperties DEF Stream
<1>2. /\ m \in 0 .. Len(u) /\ m <= Room(rio) /\ (m = Len(u) \/ m = Room(rio))
  BY <1>1 DEF Least
<1>3. \/ at = 0 /\ \A j \in 1 .. Len(u) : u[j] # NL
      \/ at \in 1 .. Len(u) /\ u[at] = NL /\ \A j \in 1 .. at - 1 : u[j] # NL
  BY <1>1, FirstEnd
<1>4. k = IF rio.op = "readlineb" /\ at \in 1 .. m THEN at ELSE m
  BY DEF Takes
<1>. HIDE DEF at, m, k, u
<1>5. CASE rio.op = "readlineb" /\ at \in 1 .. m
  <2>1. k = at
    BY <1>4, <1>5
  <2>2. k \in 0 .. Len(u) /\ k <= Room(rio) /\ k > 0
    BY <1>1, <1>2, <1>5, <2>1
  <2>3. u[k] = NL /\ \A j \in 1 .. k - 1 : u[j] # NL
    BY <1>3, <1>5, <2>1
  <2>. QED  BY <1>5, <2>2, <2>3 DEF k, u
<1>6. CASE ~(rio.op = "readlineb" /\ at \in 1 .. m)
  <2>1. k = m
    BY <1>4, <1>6
  <2>2. rio.op = "readlineb" => \A j \in 1 .. m - 1 : u[j] # NL
    BY <1>1, <1>2, <1>3, <1>6
  <2>. QED  BY <1>2, <2>1, <2>2 DEF k, u
<1>. QED  BY <1>5, <1>6

(* The elements of two sequences put together. *)
LEMMA JoinedElements ==
    ASSUME NEW S, NEW p \in Seq(S), NEW q \in Seq(S)
    PROVE  /\ p \o q \in Seq(S) /\ Len(p \o q) = Len(p) + Len(q) /\ Len(p) \in Nat /\ Len(q) \in Nat
           /\ \A j \in 1 .. Len(p) : (p \o q)[j] = p[j]
           /\ \A j \in 1 .. Len(q) : (p \o q)[Len(p) + j] = q[j]
<1>. DEFINE t == p \o q
<1>1. /\ t \in Seq(S) /\ Len(t) = Len(p) + Len(q) /\ Len(p) \in Nat /\ Len(q) \in Nat
      /\ \A j \in 1 .. Len(p) + Len(q) : t[j] = IF j <= Len(p) THEN p[j] ELSE q[j - Len(p)]
  BY ConcatProperties, LenProperties
<1>. HIDE DEF t
<1>2. \A j \in 1 .. Len(p) : t[j] = p[j]
  BY <1>1
<1>3. \A j \in 1 .. Len(q) : t[Len(p) + j] = q[j]
  <2>. TAKE j \in 1 .. Len(q)
  <2>1. Len(p) + j \in 1 .. Len(p) + Len(q) /\ ~(Len(p) + j <= Len(p)) /\ (Len(p) + j) - Len(p) = j
    BY <1>1
  <2>. QED  BY <1>1, <2>1
<1>. QED  BY <1>1, <1>2, <1>3 DEF t

(* rio_read's copy to the caller leaves nothing out and changes no order. *)
LEMMA FedKeeps ==
    ASSUME NEW rio \in Rios, rio.op \in Buffered, Room(rio) \in Nat, ~rio.eof,
           rio.op = "readlineb" => \A j \in 1 .. Len(rio.got) : rio.got[j] # NL
    PROVE  /\ Sound(Fed(rio)) /\ Fed(rio).op = rio.op /\ Fed(rio).n = rio.n /\ Fed(rio).eof = rio.eof
           /\ Fed(rio).got \o Fed(rio).unread = rio.got \o rio.unread
<1>. DEFINE g == rio.got
            u == rio.unread
            k == Takes(rio, u)
            a == First(k, u)
            z == Rest(k, u)
            h == g \o a
            f == Fed(rio)
<1>1. /\ rio = [op |-> rio.op, n |-> rio.n, got |-> g, unread |-> u, eof |-> rio.eof]
      /\ rio.op \in Ops /\ rio.n \in Nat /\ g \in Stream /\ u \in Stream /\ rio.eof \in BOOLEAN
  BY DEF Rios, Buffered, Ops
<1>2. f = [op |-> rio.op, n |-> rio.n, got |-> h, unread |-> z, eof |-> rio.eof]
  <2>1. f = [rio EXCEPT !.got = h, !.unread = z]
    BY DEF Fed
  <2>. HIDE DEF f, h, z, g, u
  <2>. QED  BY <1>1, <2>1
<1>3. /\ k \in 0 .. Len(u) /\ k <= Room(rio)
      /\ rio.op = "readlineb" => \A j \in 1 .. k - 1 : u[j] # NL
      /\ k = Len(u) \/ k = Room(rio) \/ (rio.op = "readlineb" /\ k > 0 /\ u[k] = NL)
  BY <1>1, TakenPart
<1>. HIDE DEF g, u, k
<1>4. /\ a \in Stream /\ Len(a) = k /\ \A j \in 1 .. k : a[j] = u[j]
      /\ z \in Stream /\ Len(z) = Len(u) - k /\ Len(u) \in Nat
  BY <1>1, <1>3, Cut, LenProperties DEF Stream
<1>5. a \o z = u
  BY <1>1, <1>3, Joined DEF Stream
<1>. HIDE DEF a, z
<1>6. /\ h \in Stream /\ Len(h) = Len(g) + k /\ Len(g) \in Nat
      /\ \A j \in 1 .. Len(g) : h[j] = g[j]
      /\ \A j \in 1 .. k : h[Len(g) + j] = a[j]
  <2>1. g \in Seq(Element) /\ a \in Seq(Element)
    BY <1>1, <1>4 DEF Stream
  <2>2. /\ h \in Seq(Element) /\ Len(h) = Len(g) + Len(a) /\ Len(g) \in Nat
        /\ \A j \in 1 .. Len(g) : h[j] = g[j]
        /\ \A j \in 1 .. Len(a) : h[Len(g) + j] = a[j]
    BY <2>1, JoinedElements
  <2>. QED  BY <1>4, <2>2 DEF Stream
<1>7. h \o z = g \o u
  <2>1. g \in Seq(Element) /\ a \in Seq(Element) /\ z \in Seq(Element)
    BY <1>1, <1>4 DEF Stream
  <2>2. h \o z = g \o (a \o z)
    BY <2>1, Associative
  <2>. QED  BY <1>5, <2>2
<1>. HIDE DEF h
<1>. HIDE DEF f
<1>8. f \in Rios /\ f.op = rio.op /\ f.n = rio.n /\ f.got = h /\ f.unread = z /\ f.eof = rio.eof
  BY <1>1, <1>2, <1>4, <1>6 DEF Rios
<1>9. Room(f) = Room(rio) - k /\ Room(f) \in Nat
  <2>1. Room(f) = (IF rio.op = "readlineb" THEN rio.n - 1 ELSE rio.n) - (Len(g) + k)
    BY <1>6, <1>8 DEF Room
  <2>2. Room(rio) = (IF rio.op = "readlineb" THEN rio.n - 1 ELSE rio.n) - Len(g)
    BY DEF Room, g
  <2>. QED  BY <1>1, <1>3, <1>6, <2>1, <2>2
<1>10. OneLine(f)
  <2>. SUFFICES ASSUME rio.op = "readlineb", NEW j \in 1 .. Len(h) - 1
                PROVE  h[j] # NL
    BY <1>8 DEF OneLine
  <2>1. CASE j <= Len(g)
    <3>1. j \in 1 .. Len(g) /\ h[j] = g[j]
      BY <1>6, <2>1
    <3>. QED  BY <3>1 DEF g
  <2>2. CASE ~(j <= Len(g))
    <3>1. j - Len(g) \in 1 .. k /\ j - Len(g) \in 1 .. k - 1 /\ Len(g) + (j - Len(g)) = j
      BY <1>3, <1>6, <2>2
    <3>2. h[j] = a[j - Len(g)] /\ a[j - Len(g)] = u[j - Len(g)]
      BY <1>4, <1>6, <3>1
    <3>. QED  BY <1>3, <3>1, <3>2
  <2>. QED  BY <2>1, <2>2
<1>11. z # << >> => Complete(f)
  <2>. SUFFICES ASSUME z # << >> PROVE Complete(f)
    OBVIOUS
  <2>1. k # Len(u)
    BY <1>4, EmptySeq DEF Stream
  <2>2. CASE k = Room(rio)
    BY <1>1, <1>3, <1>9, <2>2 DEF Complete
  <2>3. CASE rio.op = "readlineb" /\ k > 0 /\ u[k] = NL
    <3>1. k \in 1 .. k /\ Len(h) = Len(g) + k
      BY <1>3, <1>6, <2>3
    <3>2. h[Len(g) + k] = NL
      BY <1>4, <1>6, <2>3, <3>1
    <3>3. Len(h) # 0
      BY <1>3, <1>6, <2>3
    <3>4. h # << >>
      BY <1>6, <3>3, EmptySeq
    <3>. QED  BY <1>8, <2>3, <3>1, <3>2, <3>4 DEF Complete
  <2>. QED  BY <1>3, <2>1, <2>2, <2>3
<1>12. Ahead(f)
  BY <1>8, <1>11 DEF Ahead
<1>13. Sound(f)
  BY <1>8, <1>9, <1>10, <1>12 DEF Sound
<1>. QED  BY <1>7, <1>8, <1>13 DEF f, g, u

(* Two streams put together are a stream. *)
LEMMA Put ==
    ASSUME NEW p \in Stream, NEW q \in Stream
    PROVE  p \o q \in Stream
BY ConcatProperties DEF Stream

(* It does not matter in which order three streams are put together. *)
LEMMA Streams ==
    ASSUME NEW p \in Stream, NEW q \in Stream, NEW r \in Stream
    PROVE  (p \o q) \o r = p \o (q \o r)
<1>1. p \in Seq(Element) /\ q \in Seq(Element) /\ r \in Seq(Element)
  BY DEF Stream
<1>. QED  BY <1>1, Associative

(* An empty stream makes no difference. *)
LEMMA EmptyStream ==
    /\ << >> \in Stream /\ Len(<< >>) = 0
    /\ \A p \in Stream : /\ p \o << >> = p /\ << >> \o p = p
                        /\ Len(p) \in Nat /\ (Len(p) = 0 <=> p = << >>)
<1>1. << >> \in Stream /\ Len(<< >>) = 0
  BY EmptySeq DEF Stream
<1>2. ASSUME NEW p \in Stream
      PROVE  p \o << >> = p /\ << >> \o p = p /\ Len(p) \in Nat /\ (Len(p) = 0 <=> p = << >>)
  BY EmptySeq, ConcatEmptySeq, LenProperties DEF Stream
<1>. QED  BY <1>1, <1>2

(* The types of a frame. *)
LEMMA FrameType ==
    ASSUME NEW rio \in Rios
    PROVE  /\ rio = [op |-> rio.op, n |-> rio.n, got |-> rio.got, unread |-> rio.unread,
                     eof |-> rio.eof]
           /\ rio.op \in Ops \cup {"none"} /\ rio.n \in Nat /\ rio.eof \in BOOLEAN
           /\ rio.got \in Stream /\ rio.unread \in Stream
BY DEF Rios

(* What is coming is a stream, and what is written meanwhile comes after it. *)
LEMMA ComingMore ==
    ASSUME NEW rio \in Rios, NEW pipe \in Stream, NEW more \in Stream
    PROVE  /\ Coming(rio, pipe) \in Stream /\ rio.unread \o pipe \in Stream
           /\ pipe \o more \in Stream
           /\ Coming(rio, pipe \o more) = Coming(rio, pipe) \o more
<1>. DEFINE g == rio.got
            u == rio.unread
<1>1. g \in Stream /\ u \in Stream /\ pipe \in Stream /\ more \in Stream
  BY FrameType
<1>. HIDE DEF g, u
<1>2. u \o pipe \in Stream /\ pipe \o more \in Stream
  BY <1>1, Put
<1>5. (u \o pipe) \o more = u \o (pipe \o more)
  BY <1>1, Streams, Zenon
<1>. DEFINE v == u \o pipe
<1>. HIDE DEF v
<1>3. v \in Stream
  BY <1>2 DEF v
<1>4. g \o v \in Stream
  BY <1>1, <1>3, Put
<1>6. (g \o v) \o more = g \o (v \o more)
  BY <1>1, <1>3, Streams, Zenon
<1>. QED  BY <1>2, <1>4, <1>5, <1>6 DEF Coming, v, g, u

(* A call begins with what the earlier ones have read ahead. *)
LEMMA BegunKeeps ==
    ASSUME NEW rio, Sound(rio), NEW op \in Ops, NEW n \in Nat \ {0},
           op = "readn" => rio.unread = << >>
    PROVE  /\ Sound(Begun(rio, op, n)) /\ Begun(rio, op, n).op = op
           /\ ~Begun(rio, op, n).eof
           /\ \A pipe \in Stream : Coming(Begun(rio, op, n), pipe) = rio.unread \o pipe
<1>. DEFINE f == [op |-> op, n |-> n, got |-> << >>, unread |-> rio.unread, eof |-> FALSE]
            u == rio.unread
            b == Begun(rio, op, n)
<1>1. /\ rio \in Rios /\ u \in Stream /\ << >> \in Stream /\ Len(<< >>) = 0
  BY FrameType, EmptyStream DEF Sound
<1>. HIDE DEF u
<1>3. b = IF op \in Buffered THEN Fed(f) ELSE f
  BY DEF Begun
<1>. HIDE DEF f, b
<1>4. /\ f \in Rios /\ f.op = op /\ f.n = n /\ f.got = << >> /\ f.unread = u /\ f.eof = FALSE
  BY <1>1 DEF Rios, f, u
<1>5. Room(f) \in Nat
  BY <1>1, <1>4 DEF Room
<1>6. << >> \o u = u
  BY <1>1, EmptyStream
<1>7. Sound(b) /\ b.op = op /\ b.eof = FALSE /\ b.got \o b.unread = u
  <2>1. CASE op \in Buffered
    <3>1. b = Fed(f)
      BY <1>3, <2>1
    <3>2. f.op = "readlineb" => \A j \in 1 .. Len(f.got) : f.got[j] # NL
      BY <1>1, <1>4
    <3>3. Sound(Fed(f)) /\ Fed(f).op = f.op /\ Fed(f).eof = f.eof
          /\ Fed(f).got \o Fed(f).unread = f.got \o f.unread
      BY <1>4, <1>5, <2>1, <3>2, FedKeeps
    <3>. QED  BY <1>4, <1>6, <3>1, <3>3
  <2>2. CASE op \notin Buffered
    <3>1. b = f /\ op = "readn" /\ u = << >>
      BY <1>3, <2>2 DEF Ops, Buffered, u
    <3>2. Sound(f)
      BY <1>4, <1>5, <3>1 DEF Sound, OneLine, Ahead
    <3>. QED  BY <1>4, <1>6, <3>1, <3>2
  <2>. QED  BY <2>1, <2>2
<1>8. ASSUME NEW pipe \in Stream PROVE Coming(b, pipe) = u \o pipe
  <2>1. b.got \in Stream /\ b.unread \in Stream /\ pipe \in Stream
    BY <1>7, FrameType DEF Sound
  <2>2. (b.got \o b.unread) \o pipe = b.got \o (b.unread \o pipe)
    BY <2>1, Streams
  <2>. QED  BY <1>7, <2>2 DEF Coming
<1>. QED  BY <1>7, <1>8 DEF b, u

(* A call that still reads has used up the buffer, and has not met the end. *)
LEMMA StillReads ==
    ASSUME NEW rio, Sound(rio), Reads(rio)
    PROVE  /\ rio.unread = << >> /\ rio.eof = FALSE /\ rio.op \in Ops /\ Room(rio) \in Nat
           /\ rio.op = "readlineb" => \A j \in 1 .. Len(rio.got) : rio.got[j] # NL
<1>1. /\ rio \in Rios /\ rio.op \in Ops /\ rio.eof = FALSE /\ ~Complete(rio) /\ Room(rio) \in Nat
      /\ rio.unread = << >>
  BY FrameType DEF Sound, Reads, Returned, Ahead
<1>2. ASSUME rio.op = "readlineb", NEW j \in 1 .. Len(rio.got) PROVE rio.got[j] # NL
  <2>1. Len(rio.got) \in Nat /\ rio.got \in Stream
    BY <1>1, FrameType, EmptyStream
  <2>2. CASE j \in 1 .. Len(rio.got) - 1
    BY <1>2, <2>2 DEF Sound, OneLine
  <2>3. CASE j \notin 1 .. Len(rio.got) - 1
    <3>1. j = Len(rio.got) /\ Len(rio.got) # 0
      BY <2>1, <2>3
    <3>2. rio.got # << >>
      BY <2>1, <3>1, EmptyStream
    <3>. QED  BY <1>1, <1>2, <3>1, <3>2 DEF Complete
  <2>. QED  BY <2>2, <2>3
<1>. QED  BY <1>1, <1>2

(* A read of any part of what it might deliver loses and reorders nothing. *)
LEMMA AfterKeeps ==
    ASSUME NEW rio, Sound(rio), Reads(rio), NEW pipe \in Stream, NEW chunk \in Chunks(rio, pipe)
    PROVE  /\ Sound(After(rio, chunk)) /\ After(rio, chunk).op = rio.op
           /\ After(rio, chunk).eof = FALSE
           /\ Len(chunk) \in 1 .. Len(pipe) /\ chunk = First(Len(chunk), pipe)
           /\ Rest(Len(chunk), pipe) \in Stream
           /\ Coming(After(rio, chunk), Rest(Len(chunk), pipe)) = Coming(rio, pipe)
<1>. DEFINE g == rio.got
            k == Len(chunk)
            z == Rest(k, pipe)
            a == After(rio, chunk)
<1>1. /\ rio \in Rios /\ rio.unread = << >> /\ rio.eof = FALSE /\ rio.op \in Ops /\ Room(rio) \in Nat
      /\ rio.op = "readlineb" => \A j \in 1 .. Len(rio.got) : rio.got[j] # NL
  BY StillReads DEF Sound
<1>2. /\ rio = [op |-> rio.op, n |-> rio.n, got |-> g, unread |-> << >>, eof |-> FALSE]
      /\ rio.n \in Nat /\ g \in Stream /\ pipe \in Stream /\ Len(g) \in Nat
      /\ Len(pipe) \in Nat
  BY <1>1, FrameType, EmptyStream
<1>3. PICK m \in 1 .. Least(Asks(rio), Len(pipe)) : chunk = First(m, pipe)
  BY DEF Chunks
<1>4. m \in 0 .. Len(pipe) /\ m \in 1 .. Len(pipe) /\ m <= Asks(rio)
  BY <1>1, <1>2, <1>3, RioAssumption DEF Least, Asks
<1>5. chunk \in Stream /\ Len(chunk) = m
  BY <1>2, <1>3, <1>4, Cut DEF Stream
<1>6. z \in Stream /\ chunk \o z = pipe
  BY <1>2, <1>3, <1>4, <1>5, Cut, Joined DEF Stream
<1>. HIDE DEF z, g
<1>7. Sound(a) /\ a.op = rio.op /\ a.eof = FALSE /\ a.got \o a.unread = g \o chunk
  <2>1. CASE rio.op \in Buffered
    <3>. DEFINE f == [rio EXCEPT !.unread = chunk]
    <3>1. f = [op |-> rio.op, n |-> rio.n, got |-> g, unread |-> chunk, eof |-> FALSE]
      <4>. DEFINE r == [op |-> rio.op, n |-> rio.n, got |-> g, unread |-> << >>, eof |-> FALSE]
      <4>1. f = [r EXCEPT !.unread = chunk]
        BY <1>2
      <4>. HIDE DEF f
      <4>. QED  BY <4>1
    <3>2. a = Fed(f)
      BY <2>1 DEF After
    <3>. HIDE DEF f, a
    <3>3. f \in Rios /\ f.op = rio.op /\ f.n = rio.n /\ f.got = g /\ f.unread = chunk /\ f.eof = FALSE
      BY <1>1, <1>2, <1>5, <3>1 DEF Rios
    <3>4. Room(f) = Room(rio)
      BY <3>3 DEF Room, g
    <3>5. f.op = "readlineb" => \A j \in 1 .. Len(f.got) : f.got[j] # NL
      BY <1>1, <3>3 DEF g
    <3>6. Sound(Fed(f)) /\ Fed(f).op = f.op /\ Fed(f).eof = f.eof
          /\ Fed(f).got \o Fed(f).unread = f.got \o f.unread
      BY <1>1, <2>1, <3>3, <3>4, <3>5, FedKeeps
    <3>. QED  BY <3>2, <3>3, <3>6
  <2>2. CASE rio.op \notin Buffered
    <3>1. a = [rio EXCEPT !.got = g \o chunk]
      BY <2>2 DEF After, g
    <3>2. g \o chunk \in Stream /\ Len(g \o chunk) = Len(g) + m
      BY <1>2, <1>5, JoinedElements DEF Stream
    <3>. DEFINE h == g \o chunk
    <3>. HIDE DEF h, a
    <3>3. a = [op |-> rio.op, n |-> rio.n, got |-> h, unread |-> << >>, eof |-> FALSE]
      <4>1. a = [rio EXCEPT !.got = h]
        BY <3>1 DEF h
      <4>. DEFINE r == [op |-> rio.op, n |-> rio.n, got |-> g, unread |-> << >>, eof |-> FALSE]
      <4>2. a = [r EXCEPT !.got = h]
        BY <1>2, <4>1
      <4>. QED  BY <4>2
    <3>4. /\ a \in Rios /\ a.op = rio.op /\ a.n = rio.n /\ a.got = h /\ a.unread = << >> /\ a.eof = FALSE
      BY <1>1, <1>2, <3>2, <3>3, EmptyStream DEF Rios, h
    <3>5. rio.op = "readn" /\ Asks(rio) = Room(rio)
      BY <1>1, <2>2 DEF Ops, Buffered, Asks
    <3>6. Room(a) \in Nat
      <4>1. Room(a) = rio.n - (Len(g) + m)
        BY <3>2, <3>4, <3>5 DEF Room, h
      <4>2. Room(rio) = rio.n - Len(g)
        BY <3>5 DEF Room, g
      <4>. QED  BY <1>1, <1>2, <1>4, <3>5, <4>1, <4>2
    <3>7. Sound(a)
      BY <3>4, <3>5, <3>6 DEF Sound, OneLine, Ahead
    <3>8. h \o << >> = h
      BY <3>2, EmptyStream DEF h
    <3>. QED  BY <3>4, <3>7, <3>8 DEF h
  <2>. QED  BY <2>1, <2>2
<1>. HIDE DEF a
<1>8. Coming(a, z) = Coming(rio, pipe)
  <2>1. a.got \in Stream /\ a.unread \in Stream
    BY <1>7, FrameType DEF Sound
  <2>2. (a.got \o a.unread) \o z = a.got \o (a.unread \o z)
    BY <1>6, <2>1, Streams, Zenon
  <2>3. (g \o chunk) \o z = g \o (chunk \o z)
    BY <1>2, <1>5, <1>6, Streams, Zenon
  <2>4. rio.unread \o pipe = pipe
    BY <1>1, <1>2, EmptyStream
  <2>. QED  BY <1>6, <1>7, <2>2, <2>3, <2>4 DEF Coming, g
<1>. QED  BY <1>3, <1>4, <1>5, <1>6, <1>7, <1>8 DEF a, z

(* The end of the stream changes nothing but that the call returns. *)
LEMMA EofKeeps ==
    ASSUME NEW rio, Sound(rio), Reads(rio)
    PROVE  /\ Sound(AtEof(rio)) /\ AtEof(rio).op = rio.op /\ rio.unread = << >>
           /\ \A pipe : Coming(AtEof(rio), pipe) = Coming(rio, pipe)
<1>. DEFINE a == AtEof(rio)
<1>1. /\ rio \in Rios /\ rio.unread = << >> /\ rio.op \in Ops /\ Room(rio) \in Nat
  BY StillReads DEF Sound
<1>2. a \in Rios /\ a.op = rio.op /\ a.n = rio.n /\ a.got = rio.got /\ a.unread = rio.unread
  BY <1>1 DEF Rios, AtEof
<1>3. Room(a) = Room(rio) /\ OneLine(a)
  BY <1>2 DEF Room, OneLine, Sound
<1>4. Sound(a)
  BY <1>1, <1>2, <1>3 DEF Sound, Ahead
<1>. QED  BY <1>1, <1>2, <1>4 DEF Coming

(* A call that has returned has what it promises of what was coming. *)
LEMMA Promised ==
    ASSUME NEW rio, Sound(rio), Returned(rio), NEW pipe \in Stream, rio.eof => pipe = << >>
    PROVE  KeepsPromise(rio, Coming(rio, pipe))
<1>. DEFINE g == rio.got
            v == rio.unread \o pipe
<1>1. /\ rio \in Rios /\ rio.op \in Ops /\ Room(rio) \in Nat /\ OneLine(rio) /\ rio.n \in Nat
      /\ g \in Stream /\ rio.unread \in Stream /\ pipe \in Stream /\ Len(g) \in Nat
  BY FrameType, EmptyStream DEF Sound, Returned
<1>2. v \in Stream
  BY <1>1, Put
<1>. HIDE DEF v
<1>3. IsPrefix(g, g \o v)
  BY <1>1, <1>2, Prefix DEF Stream
<1>4. Coming(rio, pipe) = g \o v
  BY DEF Coming, v
<1>5. \/ Len(g) = rio.n - (IF rio.op = "readlineb" THEN 1 ELSE 0)
      \/ rio.op = "readlineb" /\ g # << >> /\ g[Len(g)] = NL
      \/ rio.eof /\ g = g \o v
  <2>1. CASE rio.eof
    <3>1. rio.unread = << >> /\ pipe = << >>
      BY <2>1 DEF Sound, Ahead
    <3>2. v = << >>
      BY <1>1, <3>1, EmptyStream DEF v
    <3>3. g \o v = g
      BY <1>1, <3>2, EmptyStream
    <3>. QED  BY <2>1, <3>3
  <2>2. CASE Room(rio) = 0
    <3>. DEFINE l == Len(g)
                m == rio.n
    <3>1. (IF rio.op = "readlineb" THEN m - 1 ELSE m) - l = 0 /\ m \in Nat /\ l \in Nat
      BY <1>1, <2>2 DEF Room
    <3>. HIDE DEF l, m
    <3>2. l = m - (IF rio.op = "readlineb" THEN 1 ELSE 0)
      BY <3>1
    <3>. QED  BY <3>2 DEF l, m
  <2>3. CASE rio.op = "readlineb" /\ g # << >> /\ g[Len(g)] = NL
    BY <2>3
  <2>. QED  BY <2>1, <2>2, <2>3 DEF Returned, Complete
<1>. QED  BY <1>1, <1>3, <1>4, <1>5 DEF KeepsPromise, OneLine

-----------------------------------------------------------------------------
(* What a client sends. *)

(* The sequences put one behind the other, up to the i-th. *)
Flattens(f, qs, n) == f = [i \in 1 .. n |-> IF i = 1 THEN qs[i] ELSE f[i - 1] \o qs[i]]

(* Such a function exists. *)
LEMMA FlattensExists ==
    ASSUME NEW qs, NEW n \in Nat \ {0}
    PROVE  \E f : Flattens(f, qs, n)
<1>. DEFINE Bad == {m \in Nat \ {0} : ~\E f : Flattens(f, qs, m)}
<1>1. SUFFICES ASSUME Bad # {} PROVE FALSE
  OBVIOUS
<1>2. PICK m \in Bad : \A k \in Bad : m <= k
  BY <1>1, LeastNatural
<1>3. CASE m = 1
  <2>. DEFINE f == [i \in 1 .. 1 |-> qs[i]]
  <2>1. f = [i \in 1 .. 1 |-> IF i = 1 THEN qs[i] ELSE f[i - 1] \o qs[i]]
    OBVIOUS
  <2>2. Flattens(f, qs, m)
    BY <1>3, <2>1 DEF Flattens
  <2>. QED  BY <1>2, <2>2
<1>4. CASE m # 1
  <2>1. m \in Nat /\ m - 1 \in Nat \ {0} /\ m - 1 \notin Bad
    BY <1>2, <1>4
  <2>2. PICK f : Flattens(f, qs, m - 1)
    BY <2>1
  <2>. DEFINE g == [i \in 1 .. m |-> IF i = m THEN f[m - 1] \o qs[m] ELSE f[i]]
              h == [i \in 1 .. m |-> IF i = 1 THEN qs[i] ELSE g[i - 1] \o qs[i]]
  <2>6. /\ \A i \in 1 .. m : g[i] = IF i = m THEN f[m - 1] \o qs[m] ELSE f[i]
        /\ g = [i \in 1 .. m |-> g[i]]
    OBVIOUS
  <2>. HIDE DEF g
  <2>7. /\ \A i \in 1 .. m : h[i] = IF i = 1 THEN qs[i] ELSE g[i - 1] \o qs[i]
        /\ h = [i \in 1 .. m |-> h[i]]
    OBVIOUS
  <2>8. h = [i \in 1 .. m |-> IF i = 1 THEN qs[i] ELSE g[i - 1] \o qs[i]]
    OBVIOUS
  <2>. HIDE DEF h
  <2>3. ASSUME NEW i \in 1 .. m PROVE g[i] = h[i]
    <3>1. CASE i = m
      <4>1. m \in 1 .. m /\ m - 1 \in 1 .. m /\ m - 1 # m
        BY <2>1
      <4>2. g[m] = f[m - 1] \o qs[m] /\ g[m - 1] = f[m - 1]
        BY <2>6, <4>1
      <4>3. h[m] = g[m - 1] \o qs[m]
        BY <1>4, <2>7, <4>1
      <4>. QED  BY <3>1, <4>2, <4>3
    <3>2. CASE i # m
      <4>5. i \in 1 .. m - 1
        BY <2>1, <3>2
      <4>6. g[i] = f[i]
        BY <2>6, <3>2
      <4>1. i \in 1 .. m - 1 /\ g[i] = f[i]
        BY <4>5, <4>6
      <4>2. f[i] = IF i = 1 THEN qs[i] ELSE f[i - 1] \o qs[i]
        BY <2>2, <4>1 DEF Flattens
      <4>3. CASE i = 1
        BY <2>7, <4>1, <4>2, <4>3
      <4>4. CASE i # 1
        <5>1. i - 1 \in 1 .. m /\ i - 1 # m
          BY <2>1, <4>1, <4>4
        <5>2. g[i - 1] = f[i - 1]
          BY <2>6, <5>1
        <5>3. h[i] = g[i - 1] \o qs[i]
          BY <2>7, <4>4
        <5>. QED  BY <4>1, <4>2, <4>4, <5>2, <5>3
      <4>. QED  BY <4>3, <4>4
    <3>. QED  BY <3>1, <3>2
  <2>4. g = h
    BY <2>3, <2>6, <2>7
  <2>5. Flattens(g, qs, m)
    BY <2>4, <2>8 DEF Flattens
  <2>. QED  BY <1>2, <2>5
<1>. QED  BY <1>3, <1>4

(* Streams put one behind the other are a stream. *)
LEMMA FlattenStream ==
    ASSUME NEW qs \in Seq(Stream)
    PROVE  FlattenSeq(qs) \in Stream
<1>. DEFINE n == Len(qs)
<1>1. n \in Nat /\ \A i \in 1 .. n : qs[i] \in Stream
  BY LenProperties, ElementOfSeq
<1>2. CASE n = 0
  BY <1>2, EmptySeq, EmptyStream DEF FlattenSeq
<1>3. CASE n # 0
  <2>. DEFINE f == CHOOSE f : Flattens(f, qs, n)
  <2>1. FlattenSeq(qs) = f[n]
    BY <1>3 DEF FlattenSeq, Flattens
  <2>2. Flattens(f, qs, n)
    BY <1>1, <1>3, FlattensExists
  <2>. HIDE DEF f, n
  <2>3. \A i \in 1 .. n : f[i] = IF i = 1 THEN qs[i] ELSE f[i - 1] \o qs[i]
    BY <2>2 DEF Flattens
  <2>. DEFINE Bad == {i \in 1 .. n : f[i] \notin Stream}
  <2>4. ASSUME Bad # {} PROVE FALSE
    <3>1. Bad \in SUBSET Nat
      BY <1>1
    <3>2. PICK m \in Bad : \A k \in Bad : m <= k
      BY <2>4, <3>1, LeastNatural
    <3>3. m \in 1 .. n /\ qs[m] \in Stream
      BY <1>1, <3>2
    <3>4. CASE m = 1
      BY <2>3, <3>2, <3>3, <3>4
    <3>5. CASE m # 1
      <4>1. m - 1 \in 1 .. n /\ m - 1 \notin Bad
        BY <1>1, <3>2, <3>3, <3>5
      <4>2. f[m - 1] \in Stream /\ f[m] = f[m - 1] \o qs[m]
        BY <2>3, <3>3, <3>5, <4>1
      <4>. QED  BY <3>2, <3>3, <4>2, Put
    <3>. QED  BY <3>4, <3>5
  <2>5. n \in 1 .. n
    BY <1>1, <1>3
  <2>. QED  BY <2>1, <2>4, <2>5
<1>. QED  BY <1>2, <1>3

(* What a client sends is a stream. *)
LEMMA ScriptIsStream ==
    ASSUME NEW r \in AnyRequest
    PROVE  Script(r) \in Stream
<1>. DEFINE lines == [i \in DOMAIN r.headers |-> r.headers[i] \o <<NL>>]
<1>1. <<NL>> \in Stream /\ <<r.method, NL>> \in Stream
  BY DEF Stream, Element, Words, AnyRequest
<1>2. r.headers \in Seq(Seq(STRING))
  BY DEF AnyRequest
<1>3. DOMAIN r.headers = 1 .. Len(r.headers) /\ Len(r.headers) \in Nat
  BY <1>2, LenProperties
<1>4. \A i \in 1 .. Len(r.headers) : r.headers[i] \o <<NL>> \in Stream
  <2>. TAKE i \in 1 .. Len(r.headers)
  <2>1. r.headers[i] \in Seq(STRING)
    BY <1>2, <1>3, ElementOfSeq
  <2>2. r.headers[i] \in Stream
    BY <2>1, SeqDef DEF Stream, Element
  <2>. QED  BY <1>1, <2>2, Put
<1>5. lines \in [1 .. Len(r.headers) -> Stream]
  BY <1>3, <1>4
<1>6. lines \in Seq(Stream)
  BY <1>3, <1>5
<1>. HIDE DEF lines
<1>7. FlattenSeq(lines) \in Stream
  BY <1>6, FlattenStream
<1>8. RequestLine(r) \in Stream
  BY <1>1 DEF RequestLine
<1>9. RequestLine(r) \o FlattenSeq(lines) \in Stream
  BY <1>7, <1>8, Put
<1>10. (RequestLine(r) \o FlattenSeq(lines)) \o <<NL>> \in Stream
  BY <1>1, <1>9, Put
<1>. QED  BY <1>10 DEF Script, lines

-----------------------------------------------------------------------------
(* The invariant *)

Links == {"none", "queued", "served", "closed"}
ClientPcs == {"idle", "up", "failed", "done", "reset", "left"}
ClientStates == [pc : ClientPcs, link : Links, request : AnyRequest, todo : Stream, seen : Stream,
                 unread : BOOLEAN]
Serving == {"request", "headers", "stat", "write", "open", "fork", "wait", "close"}
ServerPcs == Serving \cup {"start", "accept", "dead"}
ServerStates == [pc : ServerPcs, conn : Clients \cup {NoClient}, line : Stream, path : Paths,
                 todo : Stream, then : {"close", "open", "fork"}, took : Nat, whole : BOOLEAN]
Typed ==
    /\ backlog \in Seq(Clients) /\ client \in [Clients -> ClientStates]
    /\ up \in [Clients -> Stream] /\ down \in [Clients -> Stream] /\ wrote \in [Clients -> Stream]
    /\ crio \in [Clients -> Rios] /\ srio \in Rios
    /\ server \in ServerStates
    /\ child \in [pc : {"none", "runs", "zombie"}, todo : Stream]

SentOf(cl) == First(Len(Script(cl.request)) - Len(cl.todo), Script(cl.request))

(* The connection of a client: a request goes out in order, nothing is on the
   way before the server's kernel knows of the client, and all that was sent
   waits until the server accepts. *)
LinkedAs(cl, rio, u) ==
    /\ cl.pc = "idle" => cl.link = "none" /\ rio.op = "none" /\ cl.seen = << >>
    /\ cl.link = "none" => cl.pc \in {"idle", "failed"} /\ u = << >>
    /\ \E k \in 0 .. Len(Script(cl.request)) : cl.todo = Rest(k, Script(cl.request))
    /\ cl.link = "queued" => u = SentOf(cl)
Linked(c) == LinkedAs(client[c], crio[c], up[c])

(* The reader of a client: it has seen, has in its buffers or has in its
   connection all that was written to it, in this order. *)
AnsweredAs(cl, rio, d, w) ==
    /\ Sound(rio) /\ rio.op \in {"none", cl.request.op}
    /\ w = cl.seen \o Coming(rio, d)
    /\ rio.eof => cl.link = "closed" /\ d = << >>
Answered(c) == AnsweredAs(client[c], crio[c], down[c], wrote[c])
AllLinked == \A c \in Clients : Linked(c) /\ Answered(c)

(* The connections that wait are those in the backlog, each of them once. *)
Waiting ==
    /\ \A i \in 1 .. Len(backlog) : client[backlog[i]].link = "queued"
    /\ \A i, j \in 1 .. Len(backlog) : i # j => backlog[i] # backlog[j]

(* The server is busy with one connection, and its child with the same. *)
Busy ==
    /\ server.pc \in Serving => server.conn \in Clients /\ client[server.conn].link = "served"
    /\ child.pc = "runs" => server.pc = "wait"

(* While the server reads a request, what it has not yet taken of what the
   client has sent is in its buffers or in the connection. *)
AskedAs(cl, rio, took, u) ==
    /\ took \in 0 .. Len(SentOf(cl))
    /\ Rest(took, SentOf(cl)) = Coming(rio, u)
    /\ rio.eof => cl.pc = "left" /\ u = << >>
Asked ==
    /\ Sound(srio) /\ srio.op \in {"none", "readlineb"}
    /\ server.pc \in {"request", "headers"} =>
           AskedAs(client[server.conn], srio, server.took, up[server.conn])

IInv == Typed /\ AllLinked /\ Waiting /\ Busy /\ Asked

-----------------------------------------------------------------------------
(* What stays *)

(* Nothing happens to the connection of client c. *)
SameFor(c) == /\ client'[c] = client[c] /\ crio'[c] = crio[c]
              /\ up'[c] = up[c] /\ down'[c] = down[c] /\ wrote'[c] = wrote[c]

(* A client to which nothing happens is linked and answered as before. *)
LEMMA Stays ==
    ASSUME AllLinked, NEW c \in Clients, SameFor(c)
    PROVE  Linked(c)' /\ Answered(c)'
BY DEF AllLinked, Linked, Answered, SameFor

(* The request the server reads stays as it was if nothing happens to the server
   and to what the client has sent. *)
LEMMA AskedStays ==
    ASSUME Asked, UNCHANGED <<server, srio>>,
           server.pc \in {"request", "headers"} =>
               /\ client'[server.conn] = client[server.conn]
               /\ up'[server.conn] = up[server.conn]
    PROVE  Asked'
<1>1. Sound(srio)' /\ srio'.op \in {"none", "readlineb"}
  BY DEF Asked
<1>2. ASSUME server'.pc \in {"request", "headers"}
      PROVE  AskedAs(client'[server'.conn], srio', server'.took, up'[server'.conn])
  BY <1>2 DEF Asked
<1>. QED  BY <1>1, <1>2 DEF Asked

(* Where the server does not read a request nothing is asked of its counts. *)
LEMMA AskedNot ==
    ASSUME Sound(srio'), srio'.op \in {"none", "readlineb"}, server'.pc \notin {"request", "headers"}
    PROVE  Asked'
BY DEF Asked

(* What has been sent of a request, and what remains of it. *)
LEMMA SentPart ==
    ASSUME NEW cl \in ClientStates, NEW k \in 0 .. Len(Script(cl.request)),
           cl.todo = Rest(k, Script(cl.request))
    PROVE  /\ SentOf(cl) = First(k, Script(cl.request)) /\ SentOf(cl) \in Stream
           /\ Len(SentOf(cl)) = k /\ Script(cl.request) \in Stream
           /\ Len(cl.todo) = Len(Script(cl.request)) - k /\ Len(Script(cl.request)) \in Nat
<1>. DEFINE q == Script(cl.request)
<1>1. q \in Stream /\ Len(q) \in Nat
  BY ScriptIsStream, EmptyStream DEF ClientStates
<1>. HIDE DEF q
<1>2. k \in 0 .. Len(q) /\ cl.todo = Rest(k, q)
  BY DEF q
<1>3. Len(cl.todo) = Len(q) - k /\ First(k, q) \in Stream /\ Len(First(k, q)) = k
  BY <1>1, <1>2, Cut DEF Stream
<1>4. Len(q) - Len(cl.todo) = k
  BY <1>1, <1>2, <1>3
<1>5. SentOf(cl) = First(k, q)
  BY <1>4 DEF SentOf, q
<1>. QED  BY <1>1, <1>3, <1>5 DEF q

(* The next part of the request goes out. *)
LEMMA SentMore ==
    ASSUME NEW cl \in ClientStates, NEW cm \in ClientStates,
           \E k \in 0 .. Len(Script(cl.request)) : cl.todo = Rest(k, Script(cl.request)),
           NEW j \in 0 .. Len(cl.todo), cm.request = cl.request, cm.todo = Rest(j, cl.todo)
    PROVE  /\ SentOf(cm) = SentOf(cl) \o First(j, cl.todo)
           /\ SentOf(cl) \in Stream /\ First(j, cl.todo) \in Stream
           /\ \E k \in 0 .. Len(Script(cm.request)) : cm.todo = Rest(k, Script(cm.request))
<1>. DEFINE q == Script(cl.request)
<1>1. PICK k \in 0 .. Len(q) : cl.todo = Rest(k, q)
  OBVIOUS
<1>2. /\ SentOf(cl) = First(k, q) /\ SentOf(cl) \in Stream /\ q \in Stream
      /\ Len(cl.todo) = Len(q) - k /\ Len(q) \in Nat
  BY <1>1, SentPart
<1>. HIDE DEF q
<1>3. j \in Nat /\ k \in Nat /\ k + j <= Len(q) /\ k + j \in 0 .. Len(q)
  BY <1>2
<1>4. Rest(j, cl.todo) = Rest(k + j, q) /\ First(k, q) \o First(j, cl.todo) = First(k + j, q)
  <2>1. q \in Seq(Element) /\ k \in Nat /\ j \in Nat /\ k + j <= Len(q)
    BY <1>2, <1>3 DEF Stream
  <2>2. /\ Rest(j, Rest(k, q)) = Rest(k + j, q)
        /\ First(k, q) \o First(j, Rest(k, q)) = First(k + j, q)
    BY <2>1, RestRest
  <2>. QED  BY <1>1, <2>2
<1>5. SentOf(cm) = First(k + j, q)
  BY <1>3, <1>4, SentPart DEF q
<1>6. First(j, cl.todo) \in Stream
  BY Cut DEF Stream, ClientStates
<1>. QED  BY <1>2, <1>3, <1>4, <1>5, <1>6 DEF q

(* What the client sends meanwhile comes after what is on the way already. *)
LEMMA AskedMore ==
    ASSUME NEW cl, NEW cm, NEW rio \in Rios, NEW took \in Nat, NEW u \in Stream, NEW x \in Stream,
           AskedAs(cl, rio, took, u), cl.pc # "left", SentOf(cl) \in Stream,
           SentOf(cm) = SentOf(cl) \o x
    PROVE  AskedAs(cm, rio, took, u \o x)
<1>. DEFINE s == SentOf(cl)
            f == First(took, s)
            r == Rest(took, s)
            v == Coming(rio, u)
            t == s \o x
<1>1. took \in 0 .. Len(s) /\ r = v /\ s \in Stream /\ Len(s) \in Nat /\ ~rio.eof
  BY EmptyStream DEF AskedAs
<1>2. v \in Stream /\ Coming(rio, u \o x) = v \o x
  BY ComingMore
<1>. HIDE DEF s
<1>3. f \in Stream /\ Len(f) = took /\ f \o r = s
  BY <1>1, Cut, Joined DEF Stream
<1>. HIDE DEF f, r, v
<1>4. s \o x = f \o (r \o x) /\ r \o x \in Stream
  <2>1. r \in Stream
    BY <1>1, <1>2
  <2>2. (f \o r) \o x = f \o (r \o x)
    BY <1>3, <2>1, Streams, Zenon
  <2>. QED  BY <1>3, <2>1, <2>2, Put
<1>5. Rest(Len(f), f \o (r \o x)) = r \o x
  BY <1>3, <1>4, CutJoined DEF Stream
<1>6. Len(s \o x) = Len(s) + Len(x) /\ Len(x) \in Nat
  BY <1>1, JoinedElements DEF Stream
<1>7. took \in 0 .. Len(s \o x)
  BY <1>1, <1>6
<1>8. Rest(took, s \o x) = Coming(rio, u \o x)
  BY <1>1, <1>2, <1>3, <1>4, <1>5
<1>. QED  BY <1>1, <1>7, <1>8 DEF AskedAs, s

-----------------------------------------------------------------------------
(* The steps of the clients *)

(* A step that concerns one client, in which neither the server nor its child
   moves, and the connection, if it is the one the server is busy with, is as
   AskedAs has it. *)
LEMMA OneClient ==
    ASSUME IInv, NEW c \in Clients, Typed',
           UNCHANGED <<server, child, srio>>, \A d \in Clients \ {c} : SameFor(d),
           Linked(c)', Answered(c)', client'[c].link = client[c].link,
           client[c].link = "served" /\ AskedAs(client[c], srio, server.took, up[c])
               => AskedAs(client'[c], srio, server.took, up'[c]),
           UNCHANGED backlog
    PROVE  IInv'
<1>1. AllLinked'
  BY Stays DEF IInv, AllLinked
<1>2. \A d \in Clients : client'[d].link = client[d].link
  BY DEF SameFor
<1>3. Waiting'
  <2>1. \A i \in 1 .. Len(backlog) : backlog[i] \in Clients
    BY ElementOfSeq, LenProperties DEF IInv, Typed
  <2>2. \A i \in 1 .. Len(backlog) : client'[backlog[i]].link = "queued"
    BY <1>2, <2>1 DEF IInv, Waiting
  <2>. QED  BY <2>2 DEF IInv, Waiting
<1>4. Busy'
  BY <1>2 DEF IInv, Busy
<1>5. Asked'
  <2>1. Sound(srio') /\ srio'.op \in {"none", "readlineb"}
    BY DEF IInv, Asked
  <2>2. ASSUME server.pc \in {"request", "headers"}
        PROVE  AskedAs(client'[server.conn], srio, server.took, up'[server.conn])
    <3>1. /\ server.conn \in Clients /\ client[server.conn].link = "served"
          /\ AskedAs(client[server.conn], srio, server.took, up[server.conn])
      BY <2>2 DEF IInv, Busy, Serving, Asked
    <3>2. CASE server.conn = c
      BY <3>1, <3>2
    <3>3. CASE server.conn # c
      BY <3>1, <3>3 DEF SameFor
    <3>. QED  BY <3>2, <3>3
  <2>. QED  BY <2>1, <2>2 DEF Asked
<1>. QED  BY <1>1, <1>3, <1>4, <1>5 DEF IInv

(* The types of a client's state. *)
LEMMA ClientType ==
    ASSUME Typed, NEW c \in Clients
    PROVE  /\ client[c] \in ClientStates /\ client[c].pc \in ClientPcs /\ client[c].link \in Links
           /\ client[c].request \in AnyRequest /\ client[c].request.op \in Ops
           /\ client[c].todo \in Stream /\ client[c].seen \in Stream /\ client[c].unread \in BOOLEAN
           /\ client[c] = [pc |-> client[c].pc, link |-> client[c].link,
                           request |-> client[c].request, todo |-> client[c].todo,
                           seen |-> client[c].seen, unread |-> client[c].unread]
           /\ up[c] \in Stream /\ down[c] \in Stream /\ wrote[c] \in Stream /\ crio[c] \in Rios
<1>1. client[c] \in ClientStates
  BY DEF Typed
<1>. QED  BY <1>1 DEF Typed, ClientStates, AnyRequest

(* An empty part of a stream. *)
LEMMA EmptyPart ==
    ASSUME NEW q \in Stream
    PROVE  /\ First(0, q) = << >> /\ Rest(0, q) = q /\ Rest(Len(q), q) = << >>
           /\ 0 \in 0 .. Len(q) /\ Len(q) \in 0 .. Len(q)
BY Nothing, EmptyStream DEF Stream

(* The fields make up the state of a client. *)
LEMMA ClientState ==
    ASSUME NEW pc \in ClientPcs, NEW link \in Links, NEW request \in AnyRequest, NEW todo \in Stream,
           NEW seen \in Stream, NEW unread \in BOOLEAN
    PROVE  [pc |-> pc, link |-> link, request |-> request, todo |-> todo, seen |-> seen,
            unread |-> unread] \in ClientStates
BY DEF ClientStates

(* The state of a client with one field changed. *)
LEMMA WithPc ==
    ASSUME NEW cl \in ClientStates, NEW pc \in ClientPcs
    PROVE  LET new == [cl EXCEPT !.pc = pc]
           IN  /\ new \in ClientStates /\ new.pc = pc /\ new.link = cl.link
               /\ new.request = cl.request /\ new.todo = cl.todo /\ new.seen = cl.seen
               /\ new.unread = cl.unread
BY DEF ClientStates

(* The same for the state of the connection. *)
LEMMA WithLink ==
    ASSUME NEW cl \in ClientStates, NEW link \in Links
    PROVE  LET new == [cl EXCEPT !.link = link]
           IN  /\ new \in ClientStates /\ new.pc = cl.pc /\ new.link = link
               /\ new.request = cl.request /\ new.todo = cl.todo /\ new.seen = cl.seen
               /\ new.unread = cl.unread
BY DEF ClientStates

(* The same for what remains of the request. *)
LEMMA WithTodo ==
    ASSUME NEW cl \in ClientStates, NEW todo \in Stream
    PROVE  LET new == [cl EXCEPT !.todo = todo]
           IN  /\ new \in ClientStates /\ new.pc = cl.pc /\ new.link = cl.link
               /\ new.request = cl.request /\ new.todo = todo /\ new.seen = cl.seen
               /\ new.unread = cl.unread
BY DEF ClientStates

(* The same for what the client has seen of the answer. *)
LEMMA WithSeen ==
    ASSUME NEW cl \in ClientStates, NEW seen \in Stream
    PROVE  LET new == [cl EXCEPT !.seen = seen]
           IN  /\ new \in ClientStates /\ new.pc = cl.pc /\ new.link = cl.link
               /\ new.request = cl.request /\ new.todo = cl.todo /\ new.seen = seen
               /\ new.unread = cl.unread
BY DEF ClientStates

(* The same for the data that the kernel has not delivered. *)
LEMMA WithUnread ==
    ASSUME NEW cl \in ClientStates, NEW unread \in BOOLEAN
    PROVE  LET new == [cl EXCEPT !.unread = unread]
           IN  /\ new \in ClientStates /\ new.pc = cl.pc /\ new.link = cl.link
               /\ new.request = cl.request /\ new.todo = cl.todo /\ new.seen = cl.seen
               /\ new.unread = unread
BY DEF ClientStates

(* A request is in the queue as soon as the client is connected. *)
LEMMA ConnectStep ==
    ASSUME IInv, NEW c \in Clients, Connect(c)
    PROVE  IInv'
<1>1. /\ client[c].pc = "idle" /\ client[c].link = "none" /\ crio[c].op = "none" /\ up[c] = << >>
      /\ client[c].seen = << >>
      /\ UNCHANGED <<crio, srio, up, down, wrote, server, child>>
  BY DEF Connect, wires, IInv, AllLinked, Linked, LinkedAs
<1>2. client \in [Clients -> ClientStates] /\ client[c] \in ClientStates
  BY DEF IInv, Typed
<1>3. ASSUME NEW r \in Requests[c],
             client' = [client EXCEPT ![c] =
                 [pc |-> "up", link |-> "queued", request |-> r, todo |-> Script(r),
                  seen |-> << >>, unread |-> FALSE]],
             backlog' = Append(backlog, c)
      PROVE  IInv'
  <2>. DEFINE s == Script(r)
              new == [pc |-> "up", link |-> "queued", request |-> r, todo |-> s,
                      seen |-> << >>, unread |-> FALSE]
  <2>1. r \in AnyRequest
    BY RequestAssumption
  <2>2. s \in Stream /\ Len(s) \in Nat
    BY <2>1, ScriptIsStream, EmptyStream
  <2>3. client' = [client EXCEPT ![c] = new]
    BY <1>3, Zenon
  <2>4. new \in ClientStates
    <3>1. "queued" \in Links /\ s \in Stream /\ << >> \in Stream
      BY <2>2, EmptyStream DEF Links
    <3>2. "up" \in ClientPcs /\ FALSE \in BOOLEAN
      BY DEF ClientPcs
    <3>. HIDE DEF s
    <3>. QED  BY <2>1, <3>1, <3>2, ClientState, Zenon
  <2>5. new.pc = "up" /\ new.link = "queued" /\ new.request = r /\ new.todo = s /\ new.seen = << >>
    OBVIOUS
  <2>. HIDE DEF s, new
  <2>6. client' \in [Clients -> ClientStates] /\ client'[c] = new
        /\ \A d \in Clients \ {c} : client'[d] = client[d]
    BY <1>2, <2>3, <2>4
  <2>7. SentOf(new) = << >> /\ LinkedAs(new, crio[c], up[c])
    <3>1. First(Len(s) - Len(s), s) = << >> /\ 0 \in 0 .. Len(s) /\ s = Rest(0, s)
      BY <2>2, EmptyPart
    <3>2. SentOf(new) = << >>
      BY <2>5, <3>1 DEF SentOf, s
    <3>3. \E k \in 0 .. Len(Script(new.request)) : new.todo = Rest(k, Script(new.request))
      BY <2>5, <3>1 DEF s
    <3>. QED  BY <1>1, <2>5, <3>2, <3>3 DEF LinkedAs
  <2>8. AnsweredAs(new, crio[c], down[c], wrote[c])
    <3>1. AnsweredAs(client[c], crio[c], down[c], wrote[c])
      BY DEF IInv, AllLinked, Answered
    <3>. QED  BY <1>1, <2>5, <3>1 DEF AnsweredAs, Links
  <2>9. AllLinked'
    <3>1. Linked(c)' /\ Answered(c)'
      BY <1>1, <2>6, <2>7, <2>8 DEF Linked, Answered
    <3>2. \A d \in Clients \ {c} : SameFor(d)
      BY <1>1, <2>6 DEF SameFor
    <3>. QED  BY <3>1, <3>2, Stays DEF IInv, AllLinked
  <2>10. backlog \in Seq(Clients) /\ Len(backlog) \in Nat
    BY LenProperties DEF IInv, Typed
  <2>11. /\ backlog' \in Seq(Clients) /\ Len(backlog') = Len(backlog) + 1
         /\ \A i \in 1 .. Len(backlog) : backlog'[i] = backlog[i]
         /\ backlog'[Len(backlog) + 1] = c
    BY <1>3, <2>10, AppendProperties
  <2>12. \A i \in 1 .. Len(backlog) : backlog[i] \in Clients /\ backlog[i] # c
                                      /\ client[backlog[i]].link = "queued"
    BY <1>1, <2>10, ElementOfSeq DEF IInv, Waiting
  <2>13. Waiting'
    <3>1. ASSUME NEW i \in 1 .. Len(backlog') PROVE client'[backlog'[i]].link = "queued"
      <4>1. CASE i = Len(backlog) + 1
        BY <2>5, <2>6, <2>11, <4>1
      <4>2. CASE i # Len(backlog) + 1
        <5>1. i \in 1 .. Len(backlog)
          BY <2>10, <2>11, <4>2
        <5>. QED  BY <2>6, <2>11, <2>12, <5>1
      <4>. QED  BY <4>1, <4>2
    <3>2. ASSUME NEW i \in 1 .. Len(backlog'), NEW j \in 1 .. Len(backlog'), i # j
          PROVE  backlog'[i] # backlog'[j]
      BY <2>10, <2>11, <2>12, <3>2 DEF IInv, Waiting
    <3>. QED  BY <3>1, <3>2 DEF Waiting
  <2>14. server.pc \in Serving => server.conn \in Clients \ {c}
    BY <1>1 DEF IInv, Busy
  <2>15. Busy'
    BY <1>1, <2>6, <2>14 DEF IInv, Busy
  <2>16. Asked'
    BY <1>1, <2>6, <2>14, AskedStays DEF IInv, Serving
  <2>17. Typed'
    BY <1>1, <2>6, <2>11 DEF IInv, Typed
  <2>. QED  BY <2>9, <2>13, <2>15, <2>16, <2>17 DEF IInv
<1>4. ASSUME client' = [client EXCEPT ![c].pc = "failed"], UNCHANGED backlog
      PROVE  IInv'
  <2>. DEFINE new == [client[c] EXCEPT !.pc = "failed"]
  <2>1. client' = [client EXCEPT ![c] = new]
    BY <1>4
  <2>2. /\ new \in ClientStates /\ new.pc = "failed" /\ new.link = client[c].link
        /\ new.request = client[c].request /\ new.todo = client[c].todo /\ new.seen = client[c].seen
    <3>1. "failed" \in ClientPcs
      BY DEF ClientPcs
    <3>. QED  BY <1>2, <3>1, WithPc, Zenon
  <2>. HIDE DEF new
  <2>3. client' \in [Clients -> ClientStates] /\ client'[c] = new
        /\ \A d \in Clients \ {c} : client'[d] = client[d]
    BY <1>2, <2>1, <2>2
  <2>4. LinkedAs(client[c], crio[c], up[c]) /\ AnsweredAs(client[c], crio[c], down[c], wrote[c])
    BY DEF IInv, AllLinked, Linked, Answered
  <2>5. LinkedAs(new, crio[c], up[c]) /\ AnsweredAs(new, crio[c], down[c], wrote[c])
    BY <1>1, <2>2, <2>4 DEF LinkedAs, AnsweredAs
  <2>6. Linked(c)' /\ Answered(c)'
    BY <1>1, <2>3, <2>5 DEF Linked, Answered
  <2>7. \A d \in Clients \ {c} : SameFor(d)
    BY <1>1, <2>3 DEF SameFor
  <2>8. Typed'
    BY <1>1, <1>4, <2>3 DEF IInv, Typed
  <2>9. AskedAs(client[c], srio, server.took, up[c]) => AskedAs(client'[c], srio, server.took, up'[c])
    BY <1>1, <2>2, <2>3 DEF AskedAs, SentOf
  <2>. QED  BY <1>1, <1>4, <2>2, <2>3, <2>6, <2>7, <2>8, <2>9, OneClient
<1>. QED  BY <1>3, <1>4 DEF Connect

(* What the invariant says of one client. *)
LEMMA ClientInvariant ==
    ASSUME IInv, NEW c \in Clients
    PROVE  /\ LinkedAs(client[c], crio[c], up[c])
           /\ AnsweredAs(client[c], crio[c], down[c], wrote[c])
           /\ client \in [Clients -> ClientStates] /\ client[c] \in ClientStates
           /\ crio \in [Clients -> Rios] /\ up \in [Clients -> Stream]
           /\ down \in [Clients -> Stream] /\ wrote \in [Clients -> Stream]
BY DEF IInv, Typed, AllLinked, Linked, Answered

(* A write takes a first part of what is to be written. *)
LEMMA Accepted ==
    ASSUME NEW q \in Stream, NEW p \in Stream, NEW k \in Accepts(q, p)
    PROVE  k \in 0 .. Len(q) /\ First(k, q) \in Stream /\ Rest(k, q) \in Stream
           /\ First(k, q) \o Rest(k, q) = q /\ Len(Rest(k, q)) = Len(q) - k /\ k > 0
<1>1. Len(q) \in Nat /\ Len(p) \in Nat /\ PipeCap \in Nat
  BY EmptyStream, RioAssumption
<1>2. k \in 0 .. Len(q) /\ k > 0
  BY <1>1 DEF Accepts, Least
<1>. QED  BY <1>2, Cut, Joined DEF Stream

(* What a client sends goes behind what is on the way, or is lost after the close. *)
LEMMA SendStep ==
    ASSUME IInv, NEW c \in Clients, Send(c)
    PROVE  IInv'
<1>. DEFINE cl == client[c]
            u == up[c]
<1>1. /\ cl.pc = "up"
      /\ UNCHANGED <<backlog, crio, srio, down, wrote, server, child>>
  BY DEF Send
<1>2. /\ LinkedAs(cl, crio[c], u) /\ AnsweredAs(cl, crio[c], down[c], wrote[c])
      /\ client \in [Clients -> ClientStates] /\ cl \in ClientStates
      /\ up \in [Clients -> Stream] /\ u \in Stream /\ cl.todo \in Stream
  BY ClientInvariant, ClientType DEF IInv
<1>3. ASSUME cl.link # "closed", NEW k \in Accepts(cl.todo, u),
             up' = [up EXCEPT ![c] = u \o First(k, cl.todo)],
             client' = [client EXCEPT ![c].todo = Rest(k, cl.todo)]
      PROVE  IInv'
  <2>. DEFINE new == [cl EXCEPT !.todo = Rest(k, cl.todo)]
              x == First(k, cl.todo)
  <2>1. k \in 0 .. Len(cl.todo) /\ x \in Stream /\ Rest(k, cl.todo) \in Stream
    BY <1>2, Accepted
  <2>2. /\ new \in ClientStates /\ new.pc = cl.pc /\ new.link = cl.link
        /\ new.request = cl.request /\ new.todo = Rest(k, cl.todo) /\ new.seen = cl.seen
    BY <1>2, <2>1, WithTodo, Zenon
  <2>3. client' = [client EXCEPT ![c] = new]
    BY <1>3
  <2>. HIDE DEF new, x
  <2>4. client' \in [Clients -> ClientStates] /\ client'[c] = new
        /\ \A d \in Clients \ {c} : client'[d] = client[d]
    BY <1>2, <2>2, <2>3
  <2>5. u \o x \in Stream
    BY <1>2, <2>1, Put
  <2>6. up' \in [Clients -> Stream] /\ up'[c] = u \o x
        /\ \A d \in Clients \ {c} : up'[d] = up[d]
    BY <1>2, <1>3, <2>5 DEF x
  <2>7. /\ SentOf(new) = SentOf(cl) \o x /\ SentOf(cl) \in Stream
        /\ \E j \in 0 .. Len(Script(new.request)) : new.todo = Rest(j, Script(new.request))
    BY <1>2, <2>1, <2>2, SentMore DEF LinkedAs, x
  <2>8. LinkedAs(new, crio[c], u \o x)
    BY <1>1, <1>2, <2>2, <2>7 DEF LinkedAs
  <2>9. AnsweredAs(new, crio[c], down[c], wrote[c])
    BY <1>2, <2>2 DEF AnsweredAs
  <2>10. Linked(c)' /\ Answered(c)'
    BY <1>1, <2>4, <2>6, <2>8, <2>9 DEF Linked, Answered
  <2>11. \A d \in Clients \ {c} : SameFor(d)
    BY <1>1, <2>4, <2>6 DEF SameFor
  <2>12. Typed'
    BY <1>1, <2>4, <2>6 DEF IInv, Typed
  <2>13. ASSUME AskedAs(cl, srio, server.took, u) PROVE AskedAs(new, srio, server.took, u \o x)
    <3>1. srio \in Rios /\ server.took \in Nat
      BY DEF IInv, Typed, ServerStates
    <3>2. cl.pc # "left"
      BY <1>1
    <3>. QED  BY <1>2, <2>1, <2>7, <2>13, <3>1, <3>2, AskedMore
  <2>14. client[c].link = "served" /\ AskedAs(client[c], srio, server.took, up[c])
             => AskedAs(client'[c], srio, server.took, up'[c])
    BY <2>4, <2>6, <2>13
  <2>. QED  BY <1>1, <2>2, <2>4, <2>10, <2>11, <2>12, <2>14, OneClient
<1>4. ASSUME cl.link = "closed", UNCHANGED up,
             client' = [client EXCEPT ![c].todo = << >>, ![c].unread = TRUE]
      PROVE  IInv'
  <2>. DEFINE mid == [cl EXCEPT !.todo = << >>]
              new == [mid EXCEPT !.unread = TRUE]
  <2>1. << >> \in Stream /\ TRUE \in BOOLEAN
    BY EmptyStream
  <2>2. /\ mid \in ClientStates /\ mid.pc = cl.pc /\ mid.link = cl.link
        /\ mid.request = cl.request /\ mid.todo = << >> /\ mid.seen = cl.seen
    BY <1>2, <2>1, WithTodo, Zenon
  <2>3. client' = [client EXCEPT ![c] = new]
    BY <1>4, Zenon
  <2>. HIDE DEF mid
  <2>4. /\ new \in ClientStates /\ new.pc = mid.pc /\ new.link = mid.link
        /\ new.request = mid.request /\ new.todo = mid.todo /\ new.seen = mid.seen
    BY <2>1, <2>2, WithUnread, Zenon
  <2>. HIDE DEF new
  <2>5. client' \in [Clients -> ClientStates] /\ client'[c] = new
        /\ \A d \in Clients \ {c} : client'[d] = client[d]
    BY <1>2, <2>3, <2>4
  <2>6. \E j \in 0 .. Len(Script(new.request)) : new.todo = Rest(j, Script(new.request))
    <3>1. Script(new.request) \in Stream
      BY <1>2, <2>2, <2>4, ScriptIsStream DEF ClientStates
    <3>2. Rest(Len(Script(new.request)), Script(new.request)) = << >>
          /\ Len(Script(new.request)) \in 0 .. Len(Script(new.request))
      BY <3>1, EmptyPart
    <3>. QED  BY <2>2, <2>4, <3>2
  <2>7. LinkedAs(new, crio[c], u) /\ AnsweredAs(new, crio[c], down[c], wrote[c])
    BY <1>1, <1>2, <1>4, <2>2, <2>4, <2>6 DEF LinkedAs, AnsweredAs
  <2>8. Linked(c)' /\ Answered(c)'
    BY <1>1, <1>4, <2>5, <2>7 DEF Linked, Answered
  <2>9. \A d \in Clients \ {c} : SameFor(d)
    BY <1>1, <1>4, <2>5 DEF SameFor
  <2>10. Typed'
    BY <1>1, <1>4, <2>5 DEF IInv, Typed
  <2>. QED  BY <1>1, <1>4, <2>2, <2>4, <2>5, <2>8, <2>9, <2>10, OneClient
<1>. QED  BY <1>3, <1>4 DEF Send

(* A client begins its next call with what it has read ahead, or is done. *)
LEMMA StartReadStep ==
    ASSUME IInv, NEW c \in Clients, StartRead(c)
    PROVE  IInv'
<1>. DEFINE cl == client[c]
            u == up[c]
            g == crio[c].got
<1>1. /\ cl.pc = "up"
      /\ UNCHANGED <<backlog, srio, up, down, wrote, server, child>>
  BY DEF StartRead, wires
<1>2. /\ LinkedAs(cl, crio[c], u) /\ AnsweredAs(cl, crio[c], down[c], wrote[c])
      /\ client \in [Clients -> ClientStates] /\ cl \in ClientStates
      /\ crio \in [Clients -> Rios] /\ crio[c] \in Rios /\ down[c] \in Stream
      /\ cl.seen \in Stream /\ cl.request.op \in Ops
  BY ClientInvariant, ClientType DEF IInv
<1>3. ASSUME client' = [client EXCEPT ![c].pc = "done"], UNCHANGED crio
      PROVE  IInv'
  <2>. DEFINE new == [cl EXCEPT !.pc = "done"]
  <2>1. "done" \in ClientPcs
    BY DEF ClientPcs
  <2>2. /\ new \in ClientStates /\ new.pc = "done" /\ new.link = cl.link
        /\ new.request = cl.request /\ new.todo = cl.todo /\ new.seen = cl.seen
    BY <1>2, <2>1, WithPc, Zenon
  <2>3. client' = [client EXCEPT ![c] = new]
    BY <1>3
  <2>. HIDE DEF new
  <2>4. client' \in [Clients -> ClientStates] /\ client'[c] = new
        /\ \A d \in Clients \ {c} : client'[d] = client[d]
    BY <1>2, <2>2, <2>3
  <2>5. LinkedAs(new, crio[c], u) /\ AnsweredAs(new, crio[c], down[c], wrote[c])
    BY <1>1, <1>2, <2>2 DEF LinkedAs, AnsweredAs, SentOf
  <2>6. Linked(c)' /\ Answered(c)'
    BY <1>1, <1>3, <2>4, <2>5 DEF Linked, Answered
  <2>7. \A d \in Clients \ {c} : SameFor(d)
    BY <1>1, <1>3, <2>4 DEF SameFor
  <2>8. Typed'
    BY <1>1, <1>3, <2>4 DEF IInv, Typed
  <2>9. AskedAs(cl, srio, server.took, u) => AskedAs(new, srio, server.took, u)
    BY <1>1, <2>2 DEF AskedAs, SentOf
  <2>10. client[c].link = "served" /\ AskedAs(client[c], srio, server.took, up[c])
             => AskedAs(client'[c], srio, server.took, up'[c])
    BY <1>1, <2>4, <2>9
  <2>. QED  BY <1>1, <2>2, <2>4, <2>6, <2>7, <2>8, <2>10, OneClient
<1>4. ASSUME client' = [client EXCEPT ![c].seen = cl.seen \o g],
             crio' = [crio EXCEPT ![c] = Begun(crio[c], cl.request.op, MaxLine)]
      PROVE  IInv'
  <2>. DEFINE new == [cl EXCEPT !.seen = cl.seen \o g]
              b == Begun(crio[c], cl.request.op, MaxLine)
              d0 == down[c]
  <2>1. g \in Stream /\ crio[c].unread \in Stream
    BY <1>2, FrameType
  <2>2. cl.seen \o g \in Stream
    BY <1>2, <2>1, Put
  <2>3. /\ new \in ClientStates /\ new.pc = cl.pc /\ new.link = cl.link
        /\ new.request = cl.request /\ new.todo = cl.todo /\ new.seen = cl.seen \o g
    BY <1>2, <2>2, WithSeen, Zenon
  <2>4. client' = [client EXCEPT ![c] = new]
    BY <1>4
  <2>. HIDE DEF new
  <2>5. client' \in [Clients -> ClientStates] /\ client'[c] = new
        /\ \A d \in Clients \ {c} : client'[d] = client[d]
    BY <1>2, <2>3, <2>4
  <2>6. /\ Sound(crio[c]) /\ MaxLine \in Nat \ {0}
        /\ cl.request.op = "readn" => crio[c].unread = << >>
    BY <1>2, DiskAssumption DEF AnsweredAs, Sound, Ahead, Buffered
  <2>7. Sound(b) /\ b.op = cl.request.op /\ ~b.eof
        /\ \A pipe \in Stream : Coming(b, pipe) = crio[c].unread \o pipe
    BY <1>2, <2>6, BegunKeeps
  <2>. HIDE DEF b
  <2>8. b \in Rios
    BY <2>7 DEF Sound
  <2>9. crio' \in [Clients -> Rios] /\ crio'[c] = b
        /\ \A d \in Clients \ {c} : crio'[d] = crio[d]
    BY <1>2, <1>4, <2>8 DEF b
  <2>10. wrote[c] = new.seen \o Coming(b, d0)
    <3>. DEFINE v == crio[c].unread \o d0
    <3>1. v \in Stream
      BY <1>2, <2>1, Put
    <3>2. wrote[c] = cl.seen \o (g \o v) /\ Coming(b, d0) = v
      BY <1>2, <2>7 DEF AnsweredAs, Coming
    <3>. HIDE DEF v, g, cl
    <3>3. (cl.seen \o g) \o v = cl.seen \o (g \o v)
      BY <1>2, <2>1, <3>1, Streams, Zenon
    <3>. QED  BY <2>3, <3>2, <3>3
  <2>11. LinkedAs(new, b, u) /\ AnsweredAs(new, b, d0, wrote[c])
    BY <1>1, <1>2, <2>3, <2>7, <2>10 DEF LinkedAs, AnsweredAs, SentOf
  <2>12. Linked(c)' /\ Answered(c)'
    BY <1>1, <2>5, <2>9, <2>11 DEF Linked, Answered
  <2>13. \A d \in Clients \ {c} : SameFor(d)
    BY <1>1, <2>5, <2>9 DEF SameFor
  <2>14. Typed'
    BY <1>1, <2>5, <2>9 DEF IInv, Typed
  <2>15. AskedAs(cl, srio, server.took, u) => AskedAs(new, srio, server.took, u)
    BY <1>1, <2>3 DEF AskedAs, SentOf
  <2>16. client[c].link = "served" /\ AskedAs(client[c], srio, server.took, up[c])
             => AskedAs(client'[c], srio, server.took, up'[c])
    BY <1>1, <2>5, <2>15
  <2>. QED  BY <1>1, <2>3, <2>5, <2>12, <2>13, <2>14, <2>16, OneClient
<1>. QED  BY <1>3, <1>4 DEF StartRead

(* A read of a client moves a part of what is on the way to its buffer or to its
   caller, and meets the end only when the connection is closed and empty. *)
LEMMA ReadStep ==
    ASSUME IInv, NEW c \in Clients, Read(c)
    PROVE  IInv'
<1>. DEFINE cl == client[c]
<1>1. /\ cl.pc = "up" /\ Reads(crio[c])
      /\ UNCHANGED <<backlog, client, srio, up, wrote, server, child>>
  BY DEF Read
<1>2. /\ LinkedAs(cl, crio[c], up[c]) /\ AnsweredAs(cl, crio[c], down[c], wrote[c])
      /\ crio \in [Clients -> Rios] /\ crio[c] \in Rios /\ Sound(crio[c])
      /\ down \in [Clients -> Stream] /\ down[c] \in Stream
  BY ClientInvariant, ClientType DEF IInv, AnsweredAs
<1>3. ASSUME NEW rio, NEW d0 \in Stream, Sound(rio), rio.op = crio[c].op,
             Coming(rio, d0) = Coming(crio[c], down[c]),
             rio.eof => cl.link = "closed" /\ d0 = << >>,
             crio' = [crio EXCEPT ![c] = rio], down' = [down EXCEPT ![c] = d0]
      PROVE  IInv'
  <2>1. /\ crio' \in [Clients -> Rios] /\ crio'[c] = rio
        /\ down' \in [Clients -> Stream] /\ down'[c] = d0
        /\ \A d \in Clients \ {c} : crio'[d] = crio[d] /\ down'[d] = down[d]
    BY <1>2, <1>3 DEF Sound
  <2>2. LinkedAs(cl, rio, up[c]) /\ AnsweredAs(cl, rio, d0, wrote[c])
    BY <1>1, <1>2, <1>3 DEF LinkedAs, AnsweredAs
  <2>3. Linked(c)' /\ Answered(c)'
    BY <1>1, <2>1, <2>2 DEF Linked, Answered
  <2>4. \A d \in Clients \ {c} : SameFor(d)
    BY <1>1, <2>1 DEF SameFor
  <2>5. Typed'
    BY <1>1, <2>1 DEF IInv, Typed
  <2>6. client'[c].link = client[c].link /\ UNCHANGED <<server, child, srio, backlog>>
        /\ (client[c].link = "served" /\ AskedAs(client[c], srio, server.took, up[c])
               => AskedAs(client'[c], srio, server.took, up'[c]))
    BY <1>1
  <2>. QED  BY <2>3, <2>4, <2>5, <2>6, OneClient
<1>4. ASSUME NEW chunk \in Chunks(crio[c], down[c]),
             crio' = [crio EXCEPT ![c] = After(crio[c], chunk)],
             down' = [down EXCEPT ![c] = Rest(Len(chunk), down[c])]
      PROVE  IInv'
  <2>1. /\ Sound(After(crio[c], chunk)) /\ After(crio[c], chunk).op = crio[c].op
        /\ After(crio[c], chunk).eof = FALSE /\ Rest(Len(chunk), down[c]) \in Stream
        /\ Coming(After(crio[c], chunk), Rest(Len(chunk), down[c])) = Coming(crio[c], down[c])
    BY <1>1, <1>2, AfterKeeps
  <2>. QED  BY <1>3, <1>4, <2>1
<1>5. ASSUME down[c] = << >>, cl.link = "closed",
             crio' = [crio EXCEPT ![c] = AtEof(crio[c])], UNCHANGED down
      PROVE  IInv'
  <2>1. /\ Sound(AtEof(crio[c])) /\ AtEof(crio[c]).op = crio[c].op
        /\ Coming(AtEof(crio[c]), down[c]) = Coming(crio[c], down[c])
    BY <1>1, <1>2, EofKeeps
  <2>2. down' = [down EXCEPT ![c] = down[c]]
    BY <1>2, <1>5
  <2>. QED  BY <1>2, <1>3, <1>5, <2>1, <2>2
<1>. QED  BY <1>4, <1>5 DEF Read

(* A client that ends forgets what it has read. *)
LEMMA EndsStep ==
    ASSUME IInv, NEW c \in Clients, Reset(c) \/ Leave(c)
    PROVE  IInv'
<1>. DEFINE cl == client[c]
<1>1. PICK how \in {"reset", "left"} : Ends(c, how)
  BY DEF Reset, Leave
<1>2. /\ cl.pc = "up"
      /\ UNCHANGED <<backlog, srio, up, server, child>>
  BY DEF Reset, Leave
<1>3. /\ LinkedAs(cl, crio[c], up[c]) /\ AnsweredAs(cl, crio[c], down[c], wrote[c])
      /\ client \in [Clients -> ClientStates] /\ cl \in ClientStates
      /\ crio \in [Clients -> Rios] /\ down \in [Clients -> Stream] /\ wrote \in [Clients -> Stream]
  BY ClientInvariant
<1>. DEFINE mid == [cl EXCEPT !.pc = how]
            new == [mid EXCEPT !.seen = << >>]
<1>4. how \in ClientPcs /\ << >> \in Stream
  BY EmptyStream DEF ClientPcs
<1>5. /\ mid \in ClientStates /\ mid.pc = how /\ mid.link = cl.link
      /\ mid.request = cl.request /\ mid.todo = cl.todo
  BY <1>3, <1>4, WithPc, Zenon
<1>6. client' = [client EXCEPT ![c] = new]
  BY <1>1, Zenon DEF Ends
<1>. HIDE DEF mid
<1>7. /\ new \in ClientStates /\ new.pc = mid.pc /\ new.link = mid.link
      /\ new.request = mid.request /\ new.todo = mid.todo /\ new.seen = << >>
  BY <1>4, <1>5, WithSeen, Zenon
<1>. HIDE DEF new
<1>8. client' \in [Clients -> ClientStates] /\ client'[c] = new
      /\ \A d \in Clients \ {c} : client'[d] = client[d]
  BY <1>3, <1>6, <1>7
<1>9. /\ Sound(ReadInitB) /\ ReadInitB \in Rios /\ ReadInitB.op = "none" /\ ~ReadInitB.eof
      /\ ReadInitB.got = << >> /\ ReadInitB.unread = << >>
  BY EmptyStream DEF ReadInitB, Sound, Rios, OneLine, Ahead
<1>10. /\ crio' \in [Clients -> Rios] /\ crio'[c] = ReadInitB
       /\ down' \in [Clients -> Stream] /\ down'[c] = << >>
       /\ wrote' \in [Clients -> Stream] /\ wrote'[c] = << >>
       /\ \A d \in Clients \ {c} :
              crio'[d] = crio[d] /\ down'[d] = down[d] /\ wrote'[d] = wrote[d]
  BY <1>1, <1>3, <1>4, <1>9 DEF Ends
<1>11. LinkedAs(new, ReadInitB, up[c])
  BY <1>1, <1>2, <1>3, <1>5, <1>7 DEF LinkedAs, SentOf
<1>12. AnsweredAs(new, ReadInitB, << >>, << >>)
  <2>1. << >> \o << >> = << >>
    BY EmptyStream
  <2>2. << >> = new.seen \o Coming(ReadInitB, << >>)
    BY <1>7, <1>9, <2>1 DEF Coming
  <2>. QED  BY <1>9, <2>2 DEF AnsweredAs
<1>13. Linked(c)' /\ Answered(c)'
  BY <1>2, <1>8, <1>10, <1>11, <1>12 DEF Linked, Answered
<1>14. \A d \in Clients \ {c} : SameFor(d)
  BY <1>2, <1>8, <1>10 DEF SameFor
<1>15. Typed'
  BY <1>2, <1>8, <1>10 DEF IInv, Typed
<1>16. AskedAs(cl, srio, server.took, up[c]) => AskedAs(new, srio, server.took, up[c])
  BY <1>2, <1>5, <1>7 DEF AskedAs, SentOf
<1>17. client[c].link = "served" /\ AskedAs(client[c], srio, server.took, up[c])
           => AskedAs(client'[c], srio, server.took, up'[c])
  BY <1>2, <1>8, <1>16
<1>. QED  BY <1>2, <1>5, <1>7, <1>8, <1>13, <1>14, <1>15, <1>17, OneClient

-----------------------------------------------------------------------------
(* The steps of the server *)

(* Its state at the start of a connection. *)
LEMMA NoServerType ==
    /\ NoServer \in ServerStates /\ NoServer.pc = "accept" /\ NoServer.took = 0
    /\ NoServer.todo = << >> /\ NoServer.then = "close" /\ ~NoServer.whole
<1>1. NoRequest.path \in Paths
  BY DiskAssumption DEF NoRequest
<1>2. << >> \in Stream /\ "accept" \in ServerPcs
  BY EmptyStream DEF ServerPcs
<1>. QED  BY <1>1, <1>2 DEF NoServer, ServerStates

(* The server moves and nothing happens to the connections. *)
LEMMA ServerOnly ==
    ASSUME IInv, UNCHANGED <<backlog, client, crio, up, down, wrote, child>>,
           server' \in ServerStates, Busy', Asked'
    PROVE  IInv'
<1>1. srio' \in Rios
  BY DEF Asked, Sound
<1>2. Typed'
  BY <1>1 DEF IInv, Typed
<1>3. AllLinked'
  BY Stays DEF IInv, AllLinked, SameFor
<1>4. Waiting'
  BY DEF IInv, Waiting
<1>. QED  BY <1>2, <1>3, <1>4 DEF IInv

(* Busy and Asked of the server where it is after a step that keeps the
   connection and reads nothing. *)
LEMMA GoesOn ==
    ASSUME IInv, UNCHANGED <<client, srio, child>>, server.pc \in Serving \ {"wait"},
           server'.conn = server.conn, server'.pc \in Serving \ {"request", "headers"}
    PROVE  Busy' /\ Asked'
<1>1. child.pc # "runs"
  BY DEF IInv, Busy
<1>2. Busy'
  BY <1>1 DEF IInv, Busy
<1>3. Asked'
  BY AskedNot DEF IInv, Asked, Serving
<1>. QED  BY <1>2, <1>3

(* The server starts to listen, or ends. *)
LEMMA OpenListenfdStep ==
    ASSUME IInv, OpenListenfd
    PROVE  IInv'
<1>1. PICK pc \in {"accept", "dead"} : server' = [server EXCEPT !.pc = pc]
  BY DEF OpenListenfd, GoTo
<1>2. server.pc = "start" /\ UNCHANGED <<backlog, client, crio, srio, up, down, wrote, child>>
  BY DEF OpenListenfd, At, wires
<1>3. server \in ServerStates /\ pc \in ServerPcs /\ pc \notin Serving /\ pc # "wait"
  BY DEF IInv, Typed, ServerPcs, Serving
<1>4. server' \in ServerStates /\ server'.pc = pc
  BY <1>1, <1>3 DEF ServerStates
<1>5. child.pc # "runs"
  BY <1>2 DEF IInv, Busy
<1>6. Busy'
  BY <1>2, <1>3, <1>4, <1>5 DEF Busy
<1>7. Asked'
  BY <1>2, <1>3, <1>4, AskedNot DEF IInv, Asked, Serving
<1>. QED  BY <1>2, <1>4, <1>6, <1>7, ServerOnly

(* The server takes the connection that has waited longest, with all that the
   client has sent. *)
LEMMA AcceptStep ==
    ASSUME IInv, Accept
    PROVE  IInv'
<1>2. backlog \in Seq(Clients) /\ Len(backlog) \in Nat /\ Len(backlog) # 0
  BY LenProperties, EmptySeq DEF IInv, Typed, Accept
<1>0. PICK c \in Clients : c = Head(backlog)
  BY <1>2, HeadTailProperties, EmptySeq
<1>. DEFINE cl == client[c]
            new == [cl EXCEPT !.link = "served"]
            rio == Begun(ReadInitB, "readlineb", MaxLine)
            sv == [NoServer EXCEPT !.pc = "request", !.conn = c]
<1>1. /\ server.pc = "accept" /\ backlog # << >> /\ server' = sv
      /\ client' = [client EXCEPT ![c].link = "served"] /\ backlog' = Tail(backlog)
      /\ srio' = rio /\ UNCHANGED <<crio, up, down, wrote, child>>
  BY <1>0 DEF Accept, At, wires
<1>3. /\ c \in Clients /\ c = backlog[1] /\ backlog' \in Seq(Clients)
      /\ Len(backlog') = Len(backlog) - 1
      /\ \A i \in 1 .. Len(backlog') : backlog'[i] = backlog[i + 1]
  BY <1>0, <1>1, <1>2, HeadTailProperties
<1>4. /\ LinkedAs(cl, crio[c], up[c]) /\ AnsweredAs(cl, crio[c], down[c], wrote[c])
      /\ client \in [Clients -> ClientStates] /\ cl \in ClientStates /\ up[c] \in Stream
  BY <1>3, ClientInvariant, ClientType DEF IInv
<1>5. cl.link = "queued"
  <2>1. 1 \in 1 .. Len(backlog)
    BY <1>2
  <2>. QED  BY <1>3, <2>1 DEF IInv, Waiting
<1>6. /\ new \in ClientStates /\ new.pc = cl.pc /\ new.link = "served"
      /\ new.request = cl.request /\ new.todo = cl.todo /\ new.seen = cl.seen
  <2>1. "served" \in Links
    BY DEF Links
  <2>. QED  BY <1>4, <2>1, WithLink, Zenon
<1>7. client' = [client EXCEPT ![c] = new]
  BY <1>1
<1>8. sv \in ServerStates /\ sv.pc = "request" /\ sv.conn = c /\ sv.took = 0
  <2>1. "request" \in ServerPcs
    BY DEF ServerPcs, Serving
  <2>. QED  BY <1>3, <2>1, NoServerType DEF ServerStates
<1>. HIDE DEF new, sv
<1>9. client' \in [Clients -> ClientStates] /\ client'[c] = new
      /\ \A d \in Clients \ {c} : client'[d] = client[d]
  BY <1>3, <1>4, <1>6, <1>7
<1>10. LinkedAs(new, crio[c], up[c]) /\ AnsweredAs(new, crio[c], down[c], wrote[c])
       /\ SentOf(new) = SentOf(cl)
  BY <1>4, <1>5, <1>6 DEF LinkedAs, AnsweredAs, SentOf
<1>11. AllLinked'
  <2>1. Linked(c)' /\ Answered(c)'
    BY <1>1, <1>9, <1>10 DEF Linked, Answered
  <2>2. \A d \in Clients \ {c} : SameFor(d)
    BY <1>1, <1>9 DEF SameFor
  <2>. QED  BY <2>1, <2>2, Stays DEF IInv, AllLinked
<1>12. Waiting'
  <2>1. ASSUME NEW i \in 1 .. Len(backlog')
        PROVE  /\ i + 1 \in 1 .. Len(backlog) /\ 1 \in 1 .. Len(backlog) /\ i + 1 # 1
               /\ backlog'[i] = backlog[i + 1] /\ backlog[i + 1] \in Clients \ {c}
    <3>1. i + 1 \in 1 .. Len(backlog) /\ 1 \in 1 .. Len(backlog) /\ i + 1 # 1
      BY <1>2, <1>3
    <3>. QED  BY <1>2, <1>3, <3>1, ElementOfSeq DEF IInv, Waiting
  <2>2. ASSUME NEW i \in 1 .. Len(backlog') PROVE client'[backlog'[i]].link = "queued"
    BY <1>9, <2>1 DEF IInv, Waiting
  <2>3. ASSUME NEW i \in 1 .. Len(backlog'), NEW j \in 1 .. Len(backlog'), i # j
        PROVE  backlog'[i] # backlog'[j]
    <3>1. i + 1 # j + 1
      BY <1>2, <1>3, <2>3
    <3>. QED  BY <2>1, <3>1 DEF IInv, Waiting
  <2>. QED  BY <2>2, <2>3 DEF Waiting
<1>13. child.pc # "runs"
  BY <1>1 DEF IInv, Busy
<1>14. Busy'
  BY <1>1, <1>3, <1>6, <1>8, <1>9, <1>13 DEF Busy
<1>15. /\ Sound(rio) /\ rio.op = "readlineb" /\ ~rio.eof
       /\ \A pipe \in Stream : Coming(rio, pipe) = ReadInitB.unread \o pipe
  <2>1. Sound(ReadInitB)
    BY EmptyStream DEF ReadInitB, Sound, Rios, OneLine, Ahead
  <2>2. "readlineb" \in Ops /\ MaxLine \in Nat \ {0} /\ "readlineb" # "readn"
    BY DiskAssumption DEF Ops
  <2>. QED  BY <2>1, <2>2, BegunKeeps
<1>. HIDE DEF rio
<1>16. AskedAs(new, rio, 0, up[c])
  <2>1. SentOf(new) = up[c]
    BY <1>4, <1>5, <1>10 DEF LinkedAs
  <2>2. Coming(rio, up[c]) = up[c]
    BY <1>4, <1>15, EmptyStream DEF ReadInitB
  <2>3. Rest(0, up[c]) = up[c] /\ 0 \in 0 .. Len(up[c])
    BY <1>4, EmptyPart
  <2>. QED  BY <1>15, <2>1, <2>2, <2>3 DEF AskedAs
<1>17. Asked'
  BY <1>1, <1>8, <1>9, <1>15, <1>16 DEF Asked
<1>18. Typed'
  BY <1>1, <1>3, <1>8, <1>9, <1>15 DEF IInv, Typed, Sound
<1>. QED  BY <1>11, <1>12, <1>14, <1>17, <1>18 DEF IInv

(* A connection that is closed. *)
LEMMA ClosedKeeps ==
    ASSUME IInv, NEW c \in Clients, client[c].link \in {"queued", "served"}
    PROVE  /\ Closed(c) \in ClientStates /\ Closed(c).link = "closed"
           /\ Closed(c).pc = client[c].pc /\ Closed(c).seen = client[c].seen
           /\ Closed(c).request = client[c].request
           /\ LinkedAs(Closed(c), crio[c], up[c])
           /\ AnsweredAs(Closed(c), crio[c], down[c], wrote[c])
<1>. DEFINE cl == client[c]
            un == cl.unread \/ up[c] # << >>
            mid == [cl EXCEPT !.link = "closed"]
            new == [mid EXCEPT !.unread = un]
<1>1. /\ LinkedAs(cl, crio[c], up[c]) /\ AnsweredAs(cl, crio[c], down[c], wrote[c])
      /\ cl \in ClientStates
  BY ClientInvariant
<1>2. "closed" \in Links /\ un \in BOOLEAN
  BY <1>1 DEF Links, ClientStates
<1>3. /\ mid \in ClientStates /\ mid.pc = cl.pc /\ mid.link = "closed"
      /\ mid.request = cl.request /\ mid.todo = cl.todo /\ mid.seen = cl.seen
  BY <1>1, <1>2, WithLink, Zenon
<1>4. Closed(c) = new
  BY Zenon DEF Closed
<1>. HIDE DEF mid, un
<1>5. /\ new \in ClientStates /\ new.pc = mid.pc /\ new.link = mid.link
      /\ new.request = mid.request /\ new.todo = mid.todo /\ new.seen = mid.seen
  BY <1>2, <1>3, WithUnread, Zenon
<1>. HIDE DEF new
<1>6. LinkedAs(new, crio[c], up[c]) /\ AnsweredAs(new, crio[c], down[c], wrote[c])
  BY <1>1, <1>3, <1>5 DEF LinkedAs, AnsweredAs, SentOf
<1>. QED  BY <1>3, <1>4, <1>5, <1>6

(* The server dies, and all its connections are closed. *)
LEMMA DiesStep ==
    ASSUME IInv, Dies, server.pc # "wait", UNCHANGED <<crio, srio, up, down, wrote, child>>
    PROVE  IInv'
<1>1. /\ server' = [NoServer EXCEPT !.pc = "dead"] /\ backlog' = << >>
      /\ client' = [c \in Clients |->
             IF client[c].link \in {"queued", "served"} THEN Closed(c) ELSE client[c]]
  BY DEF Dies
<1>2. server' \in ServerStates /\ server'.pc = "dead"
  BY <1>1, NoServerType DEF ServerStates, ServerPcs
<1>3. ASSUME NEW c \in Clients
      PROVE  client'[c] \in ClientStates /\ Linked(c)' /\ Answered(c)'
  <2>1. client'[c] = IF client[c].link \in {"queued", "served"} THEN Closed(c) ELSE client[c]
    BY <1>1
  <2>2. CASE client[c].link \in {"queued", "served"}
    BY <2>1, <2>2, ClosedKeeps DEF Linked, Answered
  <2>3. CASE ~(client[c].link \in {"queued", "served"})
    BY <2>1, <2>3, ClientInvariant DEF Linked, Answered
  <2>. QED  BY <2>2, <2>3
<1>4. client' \in [Clients -> ClientStates]
  BY <1>1, <1>3
<1>5. backlog' \in Seq(Clients) /\ Len(backlog') = 0
  BY <1>1, EmptySeq
<1>6. Typed'
  BY <1>2, <1>4, <1>5 DEF IInv, Typed
<1>7. Waiting'
  BY <1>5 DEF Waiting
<1>8. Busy'
  BY <1>2 DEF IInv, Busy, Serving
<1>9. Asked'
  BY <1>2, AskedNot DEF IInv, Asked
<1>. QED  BY <1>3, <1>6, <1>7, <1>8, <1>9 DEF IInv, AllLinked

(* The server closes the connection. *)
LEMMA CloseStep ==
    ASSUME IInv, Close
    PROVE  IInv'
<1>1. /\ server.pc = "close" /\ server' = NoServer
      /\ client' = [client EXCEPT ![server.conn] = Closed(server.conn)]
      /\ UNCHANGED <<backlog, crio, srio, up, down, wrote, child>>
  BY DEF Close, At, wires
<1>2. PICK c \in Clients : c = server.conn /\ client[c].link = "served"
  BY <1>1 DEF IInv, Busy, Serving
<1>3. /\ Closed(c) \in ClientStates /\ LinkedAs(Closed(c), crio[c], up[c])
      /\ AnsweredAs(Closed(c), crio[c], down[c], wrote[c])
  BY <1>2, ClosedKeeps
<1>4. client' \in [Clients -> ClientStates] /\ client'[c] = Closed(c)
      /\ \A d \in Clients \ {c} : client'[d] = client[d]
  BY <1>1, <1>2, <1>3 DEF IInv, Typed
<1>5. AllLinked'
  <2>1. Linked(c)' /\ Answered(c)'
    BY <1>1, <1>3, <1>4 DEF Linked, Answered
  <2>2. \A d \in Clients \ {c} : SameFor(d)
    BY <1>1, <1>4 DEF SameFor
  <2>. QED  BY <2>1, <2>2, Stays DEF IInv, AllLinked
<1>6. Typed'
  BY <1>1, <1>4, NoServerType DEF IInv, Typed
<1>7. Waiting'
  <2>1. \A i \in 1 .. Len(backlog) : backlog[i] \in Clients \ {c}
    BY <1>2, ElementOfSeq DEF IInv, Typed, Waiting
  <2>. QED  BY <1>1, <1>4, <2>1 DEF IInv, Waiting
<1>8. child.pc # "runs"
  BY <1>1 DEF IInv, Busy
<1>9. Busy'
  BY <1>1, <1>8, NoServerType DEF Busy, Serving
<1>10. Asked'
  BY <1>1, NoServerType, AskedNot DEF IInv, Asked
<1>. QED  BY <1>5, <1>6, <1>7, <1>9, <1>10 DEF IInv

(* What the invariant says of the request that the server reads. *)
LEMMA ReadingServer ==
    ASSUME IInv, server.pc \in {"request", "headers"}
    PROVE  /\ server.conn \in Clients /\ client[server.conn].link = "served"
           /\ AskedAs(client[server.conn], srio, server.took, up[server.conn])
           /\ Sound(srio) /\ srio \in Rios /\ srio.op \in {"none", "readlineb"}
           /\ server \in ServerStates /\ server.took \in Nat
           /\ up[server.conn] \in Stream /\ up \in [Clients -> Stream]
           /\ child.pc # "runs"
<1>1. server.conn \in Clients /\ client[server.conn].link = "served" /\ child.pc # "runs"
  BY DEF IInv, Busy, Serving
<1>. QED  BY <1>1 DEF IInv, Asked, Sound, Typed, ServerStates

(* A read of the server moves a part of what the client has sent to its buffer,
   meets the end when the client has left, or is the server's last. *)
LEMMA ServerReadStep ==
    ASSUME IInv, ServerRead
    PROVE  IInv'
<1>1. server.pc \in {"request", "headers"} /\ Reads(srio)
      /\ UNCHANGED <<crio, down, wrote, child>>
  BY DEF ServerRead
<1>2. PICK c \in Clients : c = server.conn
  BY <1>1, ReadingServer
<1>3. /\ AskedAs(client[c], srio, server.took, up[c]) /\ client[c].link = "served"
      /\ Sound(srio) /\ srio \in Rios /\ srio.op \in {"none", "readlineb"}
      /\ up[c] \in Stream /\ up \in [Clients -> Stream]
  BY <1>1, <1>2, ReadingServer
<1>4. ASSUME NEW rio, NEW u \in Stream, Sound(rio), rio.op = srio.op,
             Coming(rio, u) = Coming(srio, up[c]),
             rio.eof => client[c].pc = "left" /\ u = << >>,
             srio' = rio, up' = [up EXCEPT ![c] = u],
             UNCHANGED <<backlog, client, server>>
      PROVE  IInv'
  <2>1. /\ up' \in [Clients -> Stream] /\ up'[c] = u
        /\ \A d \in Clients \ {c} : up'[d] = up[d]
    BY <1>3, <1>4
  <2>2. AllLinked'
    <3>1. LinkedAs(client[c], crio[c], up[c])
      BY ClientInvariant
    <3>2. LinkedAs(client[c], crio[c], u)
      BY <1>3, <3>1 DEF LinkedAs
    <3>3. Linked(c)' /\ Answered(c)'
      BY <1>1, <1>4, <2>1, <3>2 DEF Linked, Answered, IInv, AllLinked
    <3>4. \A d \in Clients \ {c} : SameFor(d)
      BY <1>1, <1>4, <2>1 DEF SameFor
    <3>. QED  BY <3>3, <3>4, Stays DEF IInv, AllLinked
  <2>3. AskedAs(client[c], rio, server.took, u)
    BY <1>3, <1>4 DEF AskedAs
  <2>4. Asked'
    BY <1>2, <1>3, <1>4, <2>1, <2>3 DEF Asked
  <2>5. Typed'
    BY <1>1, <1>4, <2>1 DEF IInv, Typed, Sound
  <2>6. Waiting' /\ Busy'
    BY <1>1, <1>4 DEF IInv, Waiting, Busy
  <2>. QED  BY <2>2, <2>4, <2>5, <2>6 DEF IInv
<1>5. ASSUME NEW chunk \in Chunks(srio, up[c]), srio' = After(srio, chunk),
             up' = [up EXCEPT ![c] = Rest(Len(chunk), up[c])],
             UNCHANGED <<backlog, client, server>>
      PROVE  IInv'
  <2>1. /\ Sound(After(srio, chunk)) /\ After(srio, chunk).op = srio.op
        /\ After(srio, chunk).eof = FALSE /\ Rest(Len(chunk), up[c]) \in Stream
        /\ Coming(After(srio, chunk), Rest(Len(chunk), up[c])) = Coming(srio, up[c])
    BY <1>1, <1>3, AfterKeeps
  <2>. QED  BY <1>4, <1>5, <2>1
<1>6. ASSUME Left(c), up[c] = << >>, srio' = AtEof(srio), UNCHANGED <<backlog, client, up, server>>
      PROVE  IInv'
  <2>1. /\ Sound(AtEof(srio)) /\ AtEof(srio).op = srio.op
        /\ Coming(AtEof(srio), up[c]) = Coming(srio, up[c])
    BY <1>1, <1>3, EofKeeps
  <2>2. up' = [up EXCEPT ![c] = up[c]]
    BY <1>3, <1>6
  <2>. QED  BY <1>3, <1>4, <1>6, <2>1, <2>2 DEF Left
<1>7. ASSUME Dies, UNCHANGED <<srio, up>> PROVE IInv'
  BY <1>1, <1>7, DiesStep
<1>. QED  BY <1>2, <1>5, <1>6, <1>7 DEF ServerRead

(* The server takes what the call has returned and reads the next line. *)
LEMMA ReadsNext ==
    ASSUME IInv, server.pc \in {"request", "headers"}, ReadNext,
           UNCHANGED <<client, up, child>>, server' \in ServerStates,
           server'.pc = "headers", server'.conn = server.conn, server'.took = Took
    PROVE  Busy' /\ Asked'
<1>1. PICK c \in Clients : c = server.conn
  BY ReadingServer
<1>. DEFINE cl == client[c]
            s == SentOf(cl)
            g == srio.got
            v == srio.unread \o up[c]
            k == server.took
            rio == Begun(srio, "readlineb", MaxLine)
<1>2. /\ AskedAs(cl, srio, k, up[c]) /\ cl.link = "served" /\ child.pc # "runs"
      /\ Sound(srio) /\ srio \in Rios /\ up[c] \in Stream /\ k \in Nat
  BY <1>1, ReadingServer
<1>3. s \in Stream
  <2>1. LinkedAs(cl, crio[c], up[c]) /\ cl \in ClientStates
    BY ClientInvariant
  <2>. QED  BY <2>1, SentPart DEF LinkedAs
<1>4. /\ g \in Stream /\ srio.unread \in Stream /\ v \in Stream /\ Len(g) \in Nat /\ Len(v) \in Nat
      /\ Len(s) \in Nat
  BY <1>2, <1>3, FrameType, Put, EmptyStream
<1>5. /\ Sound(rio) /\ rio.op = "readlineb" /\ ~rio.eof /\ Coming(rio, up[c]) = v
  <2>1. "readlineb" \in Ops /\ MaxLine \in Nat \ {0} /\ "readlineb" # "readn"
    BY DiskAssumption DEF Ops
  <2>. QED  BY <1>2, <2>1, BegunKeeps, ZenonT(30)
<1>6. k \in 0 .. Len(s) /\ Rest(k, s) = g \o v
  BY <1>2 DEF AskedAs, Coming
<1>7. srio' = rio /\ server'.took = k + Len(g)
  BY DEF ReadNext, Took
<1>. HIDE DEF s, g, v, rio
<1>8. Len(Rest(k, s)) = Len(s) - k /\ Len(g \o v) = Len(g) + Len(v)
  BY <1>3, <1>4, <1>6, Cut, JoinedElements DEF Stream
<1>9. k + Len(g) \in 0 .. Len(s) /\ k + Len(g) <= Len(s)
  BY <1>2, <1>4, <1>6, <1>8
<1>10. Rest(k + Len(g), s) = v
  <2>1. s \in Seq(Element)
    BY <1>3 DEF Stream
  <2>2. Rest(Len(g), Rest(k, s)) = Rest(k + Len(g), s)
    BY <1>2, <1>4, <1>9, <2>1, RestRest
  <2>3. Rest(Len(g), g \o v) = v
    BY <1>4, CutJoined DEF Stream
  <2>. QED  BY <1>6, <2>2, <2>3
<1>11. AskedAs(cl, rio, k + Len(g), up[c])
  BY <1>5, <1>9, <1>10 DEF AskedAs, s
<1>12. Asked'
  BY <1>1, <1>5, <1>7, <1>11 DEF Asked
<1>13. Busy'
  BY <1>1, <1>2 DEF Busy
<1>. QED  BY <1>12, <1>13

(* The texts that the server writes are streams. *)
LEMMA Texts ==
    /\ \A number \in Words : ErrorPage(number) \in Stream
    /\ \A name \in Paths : /\ StaticHeader(name) \in Stream /\ Body(name) \in Stream
                           /\ Output(name) \in Stream
    /\ DynamicHeader \in Stream /\ << >> \in Stream /\ <<"log">> \in Stream
<1>1. \A number \in Words : ErrorPage(number) \in Stream
  BY DEF ErrorPage, Stream, Element
<1>2. ASSUME NEW name \in Paths
      PROVE  StaticHeader(name) \in Stream /\ Body(name) \in Stream /\ Output(name) \in Stream
  <2>1. FileType(name) \in Words
    BY DEF FileType, Words
  <2>2. "200" \in Words
    BY DEF Words
  <2>. QED  BY <2>1, <2>2 DEF StaticHeader, Body, Output, Stream, Element
<1>3. DynamicHeader \in Stream /\ << >> \in Stream /\ <<"log">> \in Stream
  BY EmptyStream DEF DynamicHeader, Stream, Element, Words
<1>. QED  BY <1>1, <1>2, <1>3

(* What the server has taken is counted in naturals. *)
LEMMA TookType ==
    ASSUME IInv
    PROVE  Took \in Nat /\ srio.got \in Stream /\ server \in ServerStates
BY FrameType, EmptyStream DEF IInv, Typed, ServerStates, Took

(* The server reads the request line, and goes on to the headers or refuses it. *)
LEMMA RequestStep ==
    ASSUME IInv, Request
    PROVE  IInv'
<1>1. server.pc = "request" /\ UNCHANGED <<backlog, client, crio, up, down, wrote, child>>
  BY DEF Request, At, wires
<1>2. Took \in Nat /\ server \in ServerStates
  BY TookType
<1>. DEFINE r == client[server.conn].request
<1>3. r.path \in Paths
  BY <1>1, ReadingServer, ClientType DEF IInv, AnyRequest
<1>4. CASE GoTo("close") /\ UNCHANGED srio
  <2>1. server' = [server EXCEPT !.pc = "close"]
    BY <1>4 DEF GoTo
  <2>2. server' \in ServerStates /\ server'.pc = "close" /\ server'.conn = server.conn
    BY <1>2, <2>1 DEF ServerStates, ServerPcs, Serving
  <2>3. Busy' /\ Asked'
    BY <1>1, <1>4, <2>2, GoesOn DEF Serving
  <2>. QED  BY <1>1, <2>2, <2>3, ServerOnly
<1>5. CASE server' = Writes(ErrorPage("501"), "close") /\ UNCHANGED srio
  <2>. DEFINE page == ErrorPage("501")
  <2>1. page \in Stream
    BY Texts DEF Words
  <2>. HIDE DEF page
  <2>2. server' = [server EXCEPT !.pc = "write", !.todo = page, !.then = "close", !.took = Took]
    BY <1>5 DEF Writes, page
  <2>3. server' \in ServerStates /\ server'.pc = "write" /\ server'.conn = server.conn
    BY <1>2, <2>1, <2>2 DEF ServerStates, ServerPcs, Serving
  <2>4. Busy' /\ Asked'
    BY <1>1, <1>5, <2>3, GoesOn DEF Serving
  <2>. QED  BY <1>1, <2>3, <2>4, ServerOnly
<1>6. ASSUME NEW path \in Paths,
             server' = [server EXCEPT !.pc = "headers", !.path = path, !.took = Took], ReadNext
      PROVE  IInv'
  <2>1. /\ server' \in ServerStates /\ server'.pc = "headers" /\ server'.conn = server.conn
        /\ server'.took = Took
    BY <1>2, <1>6 DEF ServerStates, ServerPcs, Serving
  <2>2. Busy' /\ Asked'
    BY <1>1, <1>6, <2>1, ReadsNext
  <2>. QED  BY <1>1, <2>1, <2>2, ServerOnly
<1>7. ASSUME NEW path \in IF srio.got = <<NL>> THEN Paths ELSE {r.path}
      PROVE  path \in Paths
  BY <1>3
<1>. QED  BY <1>4, <1>5, <1>6, <1>7 DEF Request

(* The server reads a header line, the last or another one. *)
LEMMA HeadersStep ==
    ASSUME IInv, Headers
    PROVE  IInv'
<1>1. server.pc = "headers" /\ UNCHANGED <<backlog, client, crio, up, down, wrote, child>>
  BY DEF Headers, At, wires
<1>2. Took \in Nat /\ server \in ServerStates /\ srio.got \in Stream /\ server.line \in Stream
  BY TookType DEF ServerStates
<1>. DEFINE line == IF srio.got # << >> THEN srio.got ELSE server.line
            whole == srio.got # << >>
            next == IF line = << >> THEN <<"junk">> ELSE line
<1>6. <<NL>> \in Stream /\ <<"junk">> \in Stream
  BY DEF Stream, Element, Words
<1>7. line \in Stream /\ next \in Stream
  BY <1>2, <1>6
<1>8. whole \in BOOLEAN
  OBVIOUS
<1>3. <<NL>> \in Stream /\ whole \in BOOLEAN /\ next \in Stream
  BY <1>6, <1>7, <1>8
<1>. HIDE DEF whole, next
<1>4. CASE /\ server' = [server EXCEPT !.pc = "stat", !.line = <<NL>>, !.took = Took, !.whole = whole]
           /\ UNCHANGED srio
  <2>1. server' \in ServerStates /\ server'.pc = "stat" /\ server'.conn = server.conn
    BY <1>2, <1>3, <1>4 DEF ServerStates, ServerPcs, Serving
  <2>2. Busy' /\ Asked'
    BY <1>1, <1>4, <2>1, GoesOn DEF Serving
  <2>. QED  BY <1>1, <2>1, <2>2, ServerOnly
<1>5. CASE server' = [server EXCEPT !.line = next, !.took = Took] /\ ReadNext
  <2>1. /\ server' \in ServerStates /\ server'.pc = "headers" /\ server'.conn = server.conn
        /\ server'.took = Took
    BY <1>1, <1>2, <1>3, <1>5 DEF ServerStates
  <2>2. Busy' /\ Asked'
    BY <1>1, <1>5, <2>1, ReadsNext
  <2>. QED  BY <1>1, <2>1, <2>2, ServerOnly
<1>. QED  BY <1>4, <1>5 DEF Headers, whole, next

(* The server looks for the file and chooses the head of the answer. *)
LEMMA LocateStep ==
    ASSUME IInv, Locate
    PROVE  IInv'
<1>1. server.pc = "stat" /\ UNCHANGED <<backlog, client, crio, srio, up, down, wrote, child>>
  BY DEF Locate, At, wires
<1>. DEFINE name == Filename(server.path)
<1>2. server \in ServerStates /\ name \in Paths
  BY DiskAssumption DEF IInv, Typed, ServerStates, Filename
<1>3. ASSUME NEW todo \in Stream, NEW then \in {"close", "open", "fork"},
             server' = [server EXCEPT !.pc = "write", !.path = name, !.todo = todo, !.then = then]
      PROVE  IInv'
  <2>. HIDE DEF name
  <2>1. server' \in ServerStates /\ server'.pc = "write" /\ server'.conn = server.conn
    BY <1>2, <1>3 DEF ServerStates, ServerPcs, Serving
  <2>2. Busy' /\ Asked'
    BY <1>1, <2>1, GoesOn DEF Serving
  <2>. QED  BY <1>1, <2>1, <2>2, ServerOnly
<1>4. /\ ErrorPage("404") \in Stream /\ ErrorPage("403") \in Stream
      /\ StaticHeader(name) \in Stream /\ DynamicHeader \in Stream
  BY <1>2, Texts DEF Words
<1>5. PICK todo \in {ErrorPage("404"), ErrorPage("403"), StaticHeader(name), DynamicHeader},
           then \in {"close", "open", "fork"} :
          server' = [server EXCEPT !.pc = "write", !.path = name, !.todo = todo, !.then = then]
  BY DEF Locate
<1>. QED  BY <1>3, <1>4, <1>5

(* What is written to a client behind what is on the way already. *)
LEMMA WritesMore ==
    ASSUME IInv, NEW c \in Clients, client[c].link = "served", NEW x \in Stream,
           down' = [down EXCEPT ![c] = down[c] \o x], wrote' = [wrote EXCEPT ![c] = wrote[c] \o x],
           UNCHANGED <<backlog, client, crio, srio, up>>,
           server' \in ServerStates, child' \in [pc : {"none", "runs", "zombie"}, todo : Stream],
           Busy', Asked'
    PROVE  IInv'
<1>. DEFINE cl == client[c]
<1>1. /\ LinkedAs(cl, crio[c], up[c]) /\ AnsweredAs(cl, crio[c], down[c], wrote[c])
      /\ down \in [Clients -> Stream] /\ wrote \in [Clients -> Stream]
      /\ down[c] \in Stream /\ wrote[c] \in Stream /\ crio[c] \in Rios /\ cl.seen \in Stream
  BY ClientInvariant, ClientType DEF IInv
<1>2. down[c] \o x \in Stream /\ wrote[c] \o x \in Stream
  BY <1>1, Put
<1>3. /\ down' \in [Clients -> Stream] /\ down'[c] = down[c] \o x
      /\ wrote' \in [Clients -> Stream] /\ wrote'[c] = wrote[c] \o x
      /\ \A d \in Clients \ {c} : down'[d] = down[d] /\ wrote'[d] = wrote[d]
  BY <1>1, <1>2
<1>4. wrote[c] \o x = cl.seen \o Coming(crio[c], down[c] \o x)
  <2>. DEFINE v == Coming(crio[c], down[c])
              s == cl.seen
  <2>1. v \in Stream /\ Coming(crio[c], down[c] \o x) = v \o x
    BY <1>1, ComingMore
  <2>2. wrote[c] = s \o v /\ s \in Stream
    BY <1>1 DEF AnsweredAs
  <2>. HIDE DEF v, s
  <2>3. (s \o v) \o x = s \o (v \o x)
    BY <2>1, <2>2, Streams, Zenon
  <2>. QED  BY <2>1, <2>2, <2>3 DEF s
<1>5. AnsweredAs(cl, crio[c], down[c] \o x, wrote[c] \o x)
  BY <1>1, <1>4 DEF AnsweredAs
<1>6. AllLinked'
  <2>1. Linked(c)' /\ Answered(c)'
    BY <1>1, <1>3, <1>5 DEF Linked, Answered
  <2>2. \A d \in Clients \ {c} : SameFor(d)
    BY <1>3 DEF SameFor
  <2>. QED  BY <2>1, <2>2, Stays DEF IInv, AllLinked
<1>7. Typed' /\ Waiting'
  BY <1>3 DEF IInv, Typed, Waiting
<1>. QED  BY <1>6, <1>7 DEF IInv

(* A write of the server. *)
LEMMA WriteStep ==
    ASSUME IInv, Write
    PROVE  IInv'
<1>1. server.pc = "write" /\ UNCHANGED <<crio, srio, up, child>>
  BY DEF Write, At
<1>2. PICK c \in Clients : c = server.conn /\ client[c].link = "served"
  BY <1>1 DEF IInv, Busy, Serving
<1>3. /\ server \in ServerStates /\ server.todo \in Stream /\ server.then \in {"close", "open", "fork"}
      /\ down[c] \in Stream /\ child \in [pc : {"none", "runs", "zombie"}, todo : Stream]
  BY DEF IInv, Typed, ServerStates
<1>4. ASSUME NEW k \in 0 .. Len(server.todo), server' = Wrote(k), UNCHANGED client
      PROVE  server' \in ServerStates /\ Busy' /\ Asked'
  <2>1. << >> \in Stream /\ Rest(k, server.todo) \in Stream
    BY <1>3, <1>4, Cut, EmptyStream DEF Stream
  <2>2. CASE server' = [server EXCEPT !.todo = << >>, !.pc = server.then]
    <3>1. server.then \in Serving \ {"request", "headers"} /\ server.then \in ServerPcs
      BY <1>3 DEF Serving, ServerPcs
    <3>2. server' \in ServerStates /\ server'.pc = server.then /\ server'.conn = server.conn
      BY <1>3, <2>1, <2>2, <3>1 DEF ServerStates
    <3>3. Busy' /\ Asked'
      BY <1>1, <1>4, <3>1, <3>2, GoesOn DEF Serving
    <3>. QED  BY <3>2, <3>3
  <2>3. CASE server' = [server EXCEPT !.todo = Rest(k, server.todo)]
    <3>1. server' \in ServerStates /\ server'.pc = "write" /\ server'.conn = server.conn
      BY <1>1, <1>3, <2>1, <2>3 DEF ServerStates
    <3>2. Busy' /\ Asked'
      BY <1>1, <1>4, <3>1, GoesOn DEF Serving
    <3>. QED  BY <3>1, <3>2
  <2>. QED  BY <1>4, <2>2, <2>3 DEF Wrote
<1>5. ASSUME NEW k \in Accepts(server.todo, down[c]), server' = Wrote(k),
             down' = [down EXCEPT ![c] = down[c] \o First(k, server.todo)],
             wrote' = [wrote EXCEPT ![c] = wrote[c] \o First(k, server.todo)],
             UNCHANGED <<backlog, client>>
      PROVE  IInv'
  <2>1. k \in 0 .. Len(server.todo) /\ First(k, server.todo) \in Stream
    BY <1>3, Accepted
  <2>2. server' \in ServerStates /\ Busy' /\ Asked'
    BY <1>4, <1>5, <2>1
  <2>. QED  BY <1>1, <1>2, <1>3, <1>5, <2>1, <2>2, WritesMore
<1>6. ASSUME server' = Wrote(Len(server.todo)), UNCHANGED <<backlog, client, down, wrote>>
      PROVE  IInv'
  <2>1. Len(server.todo) \in 0 .. Len(server.todo)
    BY <1>3, EmptyStream
  <2>2. server' \in ServerStates /\ Busy' /\ Asked'
    BY <1>4, <1>6, <2>1
  <2>. QED  BY <1>1, <1>6, <2>2, ServerOnly
<1>7. ASSUME Dies, UNCHANGED <<down, wrote>> PROVE IInv'
  BY <1>1, <1>7, DiesStep
<1>. QED  BY <1>2, <1>5, <1>6, <1>7 DEF Write

(* The server opens the file, or finds that it has gone and dies. *)
LEMMA OpenStep ==
    ASSUME IInv, Open
    PROVE  IInv'
<1>1. server.pc = "open" /\ UNCHANGED <<crio, srio, up, down, wrote, child>>
  BY DEF Open, At, wires
<1>2. CASE /\ server' = [server EXCEPT !.pc = "write", !.todo = Body(server.path), !.then = "close"]
           /\ UNCHANGED <<client, backlog>>
  <2>1. server \in ServerStates /\ Body(server.path) \in Stream
    BY Texts DEF IInv, Typed, ServerStates
  <2>2. server' \in ServerStates /\ server'.pc = "write" /\ server'.conn = server.conn
    BY <1>2, <2>1 DEF ServerStates, ServerPcs, Serving
  <2>3. Busy' /\ Asked'
    BY <1>1, <1>2, <2>2, GoesOn DEF Serving
  <2>. QED  BY <1>1, <1>2, <2>2, <2>3, ServerOnly
<1>3. CASE Dies
  BY <1>1, <1>3, DiesStep
<1>. QED  BY <1>2, <1>3 DEF Open

(* The child and the server that waits for it move, and nothing happens to the
   connections. *)
LEMMA ChildOnly ==
    ASSUME IInv, UNCHANGED <<backlog, client, crio, srio, up, down, wrote>>,
           server.pc \in {"fork", "wait"}, server' \in ServerStates, server'.conn = server.conn,
           server'.pc \in {"wait", "close"}, child' \in [pc : {"none", "runs", "zombie"}, todo : Stream],
           child'.pc = "runs" => server'.pc = "wait"
    PROVE  IInv'
<1>1. Typed' /\ Waiting'
  BY DEF IInv, Typed, Waiting
<1>2. AllLinked'
  BY Stays DEF IInv, AllLinked, SameFor
<1>3. Busy'
  BY DEF IInv, Busy, Serving
<1>4. Asked'
  BY AskedNot DEF IInv, Asked
<1>. QED  BY <1>1, <1>2, <1>3, <1>4 DEF IInv

(* The steps around the CGI program. *)
LEMMA ChildSteps ==
    ASSUME IInv, Fork \/ ChildWrites \/ ChildExits \/ Wait
    PROVE  IInv'
<1>1. /\ server \in ServerStates /\ server.path \in Paths /\ child.todo \in Stream
      /\ child \in [pc : {"none", "runs", "zombie"}, todo : Stream]
  BY DEF IInv, Typed, ServerStates
<1>2. CASE Fork
  <2>1. /\ server.pc = "fork" /\ server' = [server EXCEPT !.pc = "wait"]
        /\ UNCHANGED <<backlog, client, crio, srio, up, down, wrote>>
    BY <1>2 DEF Fork, At, GoTo, wires
  <2>2. PICK todo \in {Output(server.path), << >>, <<"log">>} : child' = [pc |-> "runs", todo |-> todo]
    BY <1>2 DEF Fork
  <2>3. todo \in Stream
    BY <1>1, Texts
  <2>4. child' \in [pc : {"none", "runs", "zombie"}, todo : Stream] /\ child'.pc = "runs"
    BY <2>2, <2>3
  <2>5. server' \in ServerStates /\ server'.pc = "wait" /\ server'.conn = server.conn
    BY <1>1, <2>1 DEF ServerStates, ServerPcs, Serving
  <2>. QED  BY <2>1, <2>4, <2>5, ChildOnly
<1>3. CASE ChildWrites
  <2>1. /\ child.pc = "runs" /\ server.pc = "wait"
        /\ UNCHANGED <<backlog, client, crio, srio, up, server>>
    BY <1>3 DEF ChildWrites, IInv, Busy
  <2>2. PICK c \in Clients : c = server.conn /\ client[c].link = "served"
    BY <2>1 DEF IInv, Busy, Serving
  <2>3. ASSUME NEW todo \in Stream, child' = [child EXCEPT !.todo = todo]
        PROVE  /\ child' \in [pc : {"none", "runs", "zombie"}, todo : Stream]
               /\ child'.pc = "runs"
    BY <1>1, <2>1, <2>3
  <2>4. ASSUME NEW k \in Accepts(child.todo, down[c]),
               down' = [down EXCEPT ![c] = down[c] \o First(k, child.todo)],
               wrote' = [wrote EXCEPT ![c] = wrote[c] \o First(k, child.todo)],
               child' = [child EXCEPT !.todo = Rest(k, child.todo)]
        PROVE  IInv'
    <3>1. down[c] \in Stream
      BY DEF IInv, Typed
    <3>2. First(k, child.todo) \in Stream /\ Rest(k, child.todo) \in Stream
      BY <1>1, <3>1, Accepted
    <3>3. child' \in [pc : {"none", "runs", "zombie"}, todo : Stream] /\ child'.pc = "runs"
      BY <2>3, <2>4, <3>2
    <3>4. Busy'
      BY <2>1, <2>2, <3>3 DEF IInv, Busy
    <3>5. Asked'
      BY <2>1, AskedNot DEF IInv, Asked
    <3>. QED  BY <1>1, <2>1, <2>2, <2>4, <3>2, <3>3, <3>4, <3>5, WritesMore
  <2>5. ASSUME child' = [child EXCEPT !.todo = << >>], UNCHANGED <<down, wrote>>
        PROVE  IInv'
    <3>1. child' \in [pc : {"none", "runs", "zombie"}, todo : Stream] /\ child'.pc = "runs"
      BY <2>3, <2>5, EmptyStream
    <3>. QED  BY <1>1, <2>1, <2>5, <3>1, ChildOnly
  <2>. QED  BY <1>3, <2>2, <2>4, <2>5 DEF ChildWrites
<1>4. CASE ChildExits
  <2>1. /\ child.pc = "runs" /\ child' = [child EXCEPT !.pc = "zombie"] /\ server.pc = "wait"
        /\ UNCHANGED <<backlog, client, crio, srio, up, down, wrote, server>>
    BY <1>4 DEF ChildExits, wires, IInv, Busy
  <2>2. child' \in [pc : {"none", "runs", "zombie"}, todo : Stream] /\ child'.pc = "zombie"
    BY <1>1, <2>1
  <2>. QED  BY <1>1, <2>1, <2>2, ChildOnly
<1>5. CASE Wait
  <2>1. /\ child' = [child EXCEPT !.pc = "none"] /\ server.pc = "wait"
        /\ server' = [server EXCEPT !.pc = "close"]
        /\ UNCHANGED <<backlog, client, crio, srio, up, down, wrote>>
    BY <1>5 DEF Wait, At, GoTo, wires
  <2>2. child' \in [pc : {"none", "runs", "zombie"}, todo : Stream] /\ child'.pc = "none"
    BY <1>1, <2>1
  <2>3. server' \in ServerStates /\ server'.pc = "close" /\ server'.conn = server.conn
    BY <1>1, <2>1 DEF ServerStates, ServerPcs, Serving
  <2>. QED  BY <2>1, <2>2, <2>3, ChildOnly
<1>. QED  BY <1>2, <1>3, <1>4, <1>5

-----------------------------------------------------------------------------
(* The theorem *)

(* The invariant holds at the start. *)
LEMMA IInvInit ==
    ASSUME Init
    PROVE  IInv
<1>. DEFINE cl == [pc |-> "idle", link |-> "none", request |-> NoRequest, todo |-> << >>,
                   seen |-> << >>, unread |-> FALSE]
<1>1. /\ backlog = << >> /\ client = [c \in Clients |-> cl]
      /\ crio = [c \in Clients |-> ReadInitB] /\ srio = ReadInitB
      /\ up = [c \in Clients |-> << >>] /\ down = up /\ wrote = up
      /\ server = [NoServer EXCEPT !.pc = "start"] /\ child = [pc |-> "none", todo |-> << >>]
  BY DEF Init
<1>2. << >> \in Stream /\ << >> \o << >> = << >>
  BY EmptyStream
<1>3. NoRequest \in AnyRequest
  <2>1. NoRequest.path \in Paths /\ << >> \in Seq(Seq(STRING))
    BY DiskAssumption, EmptySeq DEF NoRequest
  <2>. QED  BY <2>1 DEF NoRequest, AnyRequest, Methods, Ops
<1>4. cl \in ClientStates
  <2>1. "idle" \in ClientPcs /\ "none" \in Links /\ FALSE \in BOOLEAN
    BY DEF ClientPcs, Links
  <2>. QED  BY <1>2, <1>3, <2>1, ClientState, Zenon
<1>5. cl.pc = "idle" /\ cl.link = "none" /\ cl.request = NoRequest /\ cl.todo = << >> /\ cl.seen = << >>
  OBVIOUS
<1>6. /\ Sound(ReadInitB) /\ ReadInitB \in Rios /\ ReadInitB.op = "none" /\ ~ReadInitB.eof
      /\ ReadInitB.got = << >> /\ ReadInitB.unread = << >>
  BY EmptyStream DEF ReadInitB, Sound, Rios, OneLine, Ahead
<1>7. server \in ServerStates /\ server.pc = "start"
  BY <1>1, NoServerType DEF ServerStates, ServerPcs
<1>. HIDE DEF cl
<1>8. Typed
  BY <1>1, <1>2, <1>4, <1>6, <1>7, EmptySeq DEF Typed
<1>9. LinkedAs(cl, ReadInitB, << >>)
  <2>1. Script(NoRequest) \in Stream
    BY <1>3, ScriptIsStream
  <2>2. /\ Len(Script(NoRequest)) \in 0 .. Len(Script(NoRequest))
        /\ Rest(Len(Script(NoRequest)), Script(NoRequest)) = << >>
    BY <2>1, EmptyPart
  <2>. QED  BY <1>5, <1>6, <2>2 DEF LinkedAs
<1>10. AnsweredAs(cl, ReadInitB, << >>, << >>)
  <2>1. << >> = cl.seen \o Coming(ReadInitB, << >>)
    BY <1>2, <1>5, <1>6 DEF Coming
  <2>. QED  BY <1>6, <2>1 DEF AnsweredAs
<1>11. AllLinked
  BY <1>1, <1>9, <1>10 DEF AllLinked, Linked, Answered
<1>12. Waiting /\ Busy /\ Asked
  BY <1>1, <1>6, <1>7, EmptySeq DEF Waiting, Busy, Asked, Serving
<1>. QED  BY <1>8, <1>11, <1>12 DEF IInv

(* No step breaks the invariant. *)
LEMMA IInvStep ==
    ASSUME IInv, [Next]_vars
    PROVE  IInv'
<1>1. CASE UNCHANGED vars
  <2>1. UNCHANGED <<backlog, client, crio, srio, up, down, wrote, server, child>>
    BY <1>1 DEF vars
  <2>2. AllLinked'
    BY <2>1, Stays DEF IInv, AllLinked, SameFor
  <2>3. Asked'
    BY <2>1, AskedStays DEF IInv
  <2>. QED  BY <2>1, <2>2, <2>3 DEF IInv, Typed, Waiting, Busy
<1>2. ASSUME NEW p, Unlink(p) PROVE IInv'
  <2>1. UNCHANGED <<backlog, client, crio, srio, up, down, wrote, server, child>>
    BY <1>2 DEF Unlink, wires
  <2>2. AllLinked'
    BY <2>1, Stays DEF IInv, AllLinked, SameFor
  <2>3. Asked'
    BY <2>1, AskedStays DEF IInv
  <2>. QED  BY <2>1, <2>2, <2>3 DEF IInv, Typed, Waiting, Busy
<1>3. CASE ServerStep
  BY <1>3, OpenListenfdStep, AcceptStep, ServerReadStep, RequestStep, HeadersStep, LocateStep,
     WriteStep, OpenStep, ChildSteps, CloseStep DEF ServerStep
<1>4. CASE ChildStep
  BY <1>4, ChildSteps DEF ChildStep
<1>5. ASSUME NEW c \in Clients, Connect(c) \/ Transfers(c) \/ Reset(c) \/ Leave(c)
      PROVE  IInv'
  BY <1>5, ConnectStep, SendStep, StartReadStep, ReadStep, EndsStep DEF Transfers
<1>. QED  BY <1>1, <1>2, <1>3, <1>4, <1>5 DEF Next

(* The invariant gives what the calls promise. *)
LEMMA InvariantIsEnough ==
    ASSUME IInv
    PROVE  CallsKeepPromise
<1>1. ASSUME server.pc \in {"request", "headers"}, Returned(srio)
      PROVE  KeepsPromise(srio, Rest(server.took, Sent(server.conn)))
  <2>1. /\ AskedAs(client[server.conn], srio, server.took, up[server.conn])
        /\ Sound(srio) /\ up[server.conn] \in Stream
    BY <1>1, ReadingServer
  <2>2. Rest(server.took, Sent(server.conn)) = Coming(srio, up[server.conn])
    BY <2>1 DEF AskedAs, Sent, SentOf
  <2>3. KeepsPromise(srio, Coming(srio, up[server.conn]))
    BY <1>1, <2>1, Promised DEF AskedAs
  <2>. QED  BY <2>2, <2>3
<1>2. ASSUME NEW c \in Clients, client[c].pc = "up", Returned(crio[c])
      PROVE  KeepsPromise(crio[c], Rest(Len(client[c].seen), wrote[c]))
  <2>1. /\ AnsweredAs(client[c], crio[c], down[c], wrote[c]) /\ down[c] \in Stream
        /\ crio[c] \in Rios /\ client[c].seen \in Stream
    BY ClientInvariant, ClientType DEF IInv
  <2>2. KeepsPromise(crio[c], Coming(crio[c], down[c]))
    BY <1>2, <2>1, Promised DEF AnsweredAs
  <2>3. Coming(crio[c], down[c]) \in Stream
    BY <2>1, ComingMore
  <2>4. Rest(Len(client[c].seen), wrote[c]) = Coming(crio[c], down[c])
    BY <2>1, <2>3, CutJoined DEF AnsweredAs, Stream
  <2>. QED  BY <2>2, <2>4
<1>. QED  BY <1>1, <1>2 DEF CallsKeepPromise

(* Each call of the I/O package returns what it promises of the stream the other
   side wrote, however the transfers were cut up and whatever was read ahead
   (rio_readn, rio_read, rio_readnb, rio_readlineb and rio_writen of csapp.c under
   tiny.c), for any clients, requests, buffer sizes and files. *)
THEOREM PromisesKept == Spec => []CallsKeepPromise
<1>1. Init => IInv
  BY IInvInit
<1>2. IInv /\ [Next]_vars => IInv'
  BY IInvStep
<1>3. IInv => CallsKeepPromise
  BY InvariantIsEnough
<1>. QED  BY <1>1, <1>2, <1>3, PTL DEF Spec

-----------------------------------------------------------------------------
(* What a client reads is the answer to its request. *)

(* What begins with a stream is that stream and another behind it. *)
LEMMA PrefixPart ==
    ASSUME NEW p \in Stream, NEW w \in Stream, IsPrefix(p, w)
    PROVE  \E q \in Stream : w = p \o q
<1>. DEFINE k == Len(p)
<1>1. k \in Nat /\ Len(w) \in Nat /\ k <= Len(w) /\ k \in 0 .. Len(w)
  BY EmptyStream DEF IsPrefix
<1>2. First(k, p) = p
  <2>1. p \in Seq(Element) /\ << >> \in Seq(Element)
    BY EmptyStream DEF Stream
  <2>2. p \o << >> = p
    BY EmptyStream
  <2>3. First(Len(p), p \o << >>) = p
    BY <2>1, CutJoined
  <2>. QED  BY <2>2, <2>3
<1>3. First(k, w) = p
  BY <1>2 DEF IsPrefix, First
<1>4. Rest(k, w) \in Stream /\ First(k, w) \o Rest(k, w) = w
  BY <1>1, Cut, Joined DEF Stream
<1>. QED  BY <1>3, <1>4

(* A stream begins with each of its parts, and with what those begin with. *)
LEMMA Begins ==
    ASSUME NEW w \in Stream, NEW x \in Stream
    PROVE  /\ IsPrefix(w, w \o x) /\ IsPrefix(<< >>, w)
           /\ \A p \in Stream : IsPrefix(p, w) => IsPrefix(p, w \o x)
<1>1. IsPrefix(w, w \o x)
  BY Prefix DEF Stream
<1>2. IsPrefix(<< >>, w)
  <2>1. << >> \o w = w /\ << >> \in Seq(Element) /\ w \in Seq(Element)
    BY EmptyStream DEF Stream
  <2>2. IsPrefix(<< >>, << >> \o w)
    BY <2>1, Prefix
  <2>. QED  BY <2>1, <2>2
<1>3. ASSUME NEW p \in Stream, IsPrefix(p, w) PROVE IsPrefix(p, w \o x)
  <2>1. PICK q \in Stream : w = p \o q
    BY <1>3, PrefixPart
  <2>2. (p \o q) \o x = p \o (q \o x)
    BY Streams, Zenon
  <2>3. q \o x \in Stream
    BY Put
  <2>4. IsPrefix(p, p \o (q \o x))
    BY <2>3, Prefix DEF Stream
  <2>. QED  BY <2>1, <2>2, <2>4
<1>. QED  BY <1>1, <1>2, <1>3

(* The first two elements of a request. *)
LEMMA ScriptBegins ==
    ASSUME NEW r \in AnyRequest
    PROVE  /\ r.method = "blank" => Script(r)[1] = NL
           /\ r.method # "blank" => Script(r)[1] = r.method /\ Script(r)[2] = NL
<1>. DEFINE lines == [i \in DOMAIN r.headers |-> r.headers[i] \o <<NL>>]
            l == RequestLine(r)
            f == FlattenSeq(lines)
<1>1. <<NL>> \in Stream /\ <<r.method, NL>> \in Stream
  BY DEF Stream, Element, Words, AnyRequest
<1>2. r.headers \in Seq(Seq(STRING))
  BY DEF AnyRequest
<1>3. DOMAIN r.headers = 1 .. Len(r.headers) /\ Len(r.headers) \in Nat
  BY <1>2, LenProperties
<1>4. \A i \in 1 .. Len(r.headers) : r.headers[i] \o <<NL>> \in Stream
  <2>. TAKE i \in 1 .. Len(r.headers)
  <2>1. r.headers[i] \in Seq(STRING)
    BY <1>2, <1>3, ElementOfSeq
  <2>2. r.headers[i] \in Stream
    BY <2>1, SeqDef DEF Stream, Element
  <2>. QED  BY <1>1, <2>2, Put
<1>5. lines \in Seq(Stream)
  BY <1>3, <1>4
<1>. HIDE DEF lines
<1>6. f \in Stream /\ l \in Stream
  BY <1>1, <1>5, FlattenStream DEF RequestLine
<1>7. Script(r) = (l \o f) \o <<NL>>
  BY DEF Script, lines
<1>8. l = IF r.method = "blank" THEN <<NL>> ELSE <<r.method, NL>>
  BY DEF RequestLine
<1>. HIDE DEF l, f
<1>9. l \o f \in Seq(Element) /\ <<NL>> \in Seq(Element) /\ l \in Seq(Element) /\ f \in Seq(Element)
  BY <1>1, <1>6, Put DEF Stream
<1>10. /\ Len(l \o f) = Len(l) + Len(f) /\ Len(l) \in Nat /\ Len(f) \in Nat
       /\ \A i \in 1 .. Len(l) + Len(f) : (l \o f)[i] = IF i <= Len(l) THEN l[i] ELSE f[i - Len(l)]
       /\ \A i \in 1 .. Len(l \o f) + Len(<<NL>>) :
              Script(r)[i] = IF i <= Len(l \o f) THEN (l \o f)[i] ELSE <<NL>>[i - Len(l \o f)]
  BY <1>7, <1>9, ConcatProperties, LenProperties
<1>11. \A i \in 1 .. Len(l) : Script(r)[i] = l[i]
  <2>. TAKE i \in 1 .. Len(l)
  <2>1. Len(<<NL>>) \in Nat
    BY <1>9, LenProperties
  <2>2. i \in 1 .. Len(l \o f) + Len(<<NL>>) /\ i <= Len(l \o f) /\ i \in 1 .. Len(l) + Len(f)
    BY <1>10, <2>1
  <2>. QED  BY <1>10, <2>2
<1>12. CASE r.method = "blank"
  BY <1>8, <1>11, <1>12
<1>13. CASE r.method # "blank"
  BY <1>8, <1>11, <1>13
<1>. QED  BY <1>12, <1>13

(* Something is answered to every request, and every answer is a stream. *)
LEMMA AnswersExist ==
    /\ \A path \in Paths : AnswerFor(path) \subseteq Stream /\ ErrorPage("404") \in AnswerFor(path)
    /\ \A r \in AnyRequest : Answers(r) \subseteq Stream /\ \E answer \in Answers(r) : TRUE
<1>1. ASSUME NEW path \in Paths
      PROVE  AnswerFor(path) \subseteq Stream /\ ErrorPage("404") \in AnswerFor(path)
  <2>. DEFINE name == Filename(path)
  <2>1. name \in Paths
    BY DiskAssumption DEF Filename
  <2>2. /\ ErrorPage("404") \in Stream /\ ErrorPage("403") \in Stream
        /\ StaticHeader(name) \in Stream /\ DynamicHeader \in Stream
        /\ Body(name) \in Stream /\ Output(name) \in Stream
    BY <2>1, Texts DEF Words
  <2>. HIDE DEF name
  <2>3. StaticHeader(name) \o Body(name) \in Stream /\ DynamicHeader \o Output(name) \in Stream
    BY <2>2, Put
  <2>. QED  BY <2>2, <2>3 DEF AnswerFor, name
<1>2. ASSUME NEW r \in AnyRequest
      PROVE  Answers(r) \subseteq Stream /\ \E answer \in Answers(r) : TRUE
  <2>1. r.path \in Paths /\ r.method \in Methods
    BY DEF AnyRequest
  <2>2. ErrorPage("501") \in Stream
    BY Texts DEF Words
  <2>3. CASE r.method = "GET"
    BY <1>1, <2>1, <2>3 DEF Answers
  <2>4. CASE r.method = "blank"
    BY <1>1, <2>2, <2>4 DEF Answers
  <2>5. CASE r.method \notin {"GET", "blank"}
    BY <2>2, <2>5 DEF Answers
  <2>. QED  BY <2>3, <2>4, <2>5
<1>. QED  BY <1>1, <1>2

-----------------------------------------------------------------------------
(* What is answered *)

(* The CGI program of some path was removed. *)
Removed == \E p \in Dynamic : Disk[p] = "program" /\ disk[p] = "missing"

(* What has been written to a client when its connection is closed. *)
WholeAs(r, w) == w \in Answers(r) \/ (Removed /\ IsPrefix(DynamicHeader, w))
EndedAs(r, w) ==
    \/ WholeAs(r, w)
    \/ server.pc = "dead" /\ \E answer \in Answers(r) : IsPrefix(w, answer)

(* Nothing is written to a client before its connection is accepted, a whole
   answer before it is closed, and a client that is done has seen it. *)
AnswerAs(cl, w) ==
    /\ cl.link \in {"none", "queued"} => w = << >>
    /\ cl.pc = "done" => cl.link = "closed" /\ cl.seen = w
    /\ cl.pc \in {"up", "done"} /\ cl.link = "closed" => EndedAs(cl.request, w)

(* How far the server sv and its child ch are with the answer to request r, of
   which w was written: what it writes next completes a part of the answer. *)
Stage(sv) == IF sv.pc = "write" THEN sv.then ELSE sv.pc
ServedAs(sv, ch, r, w) ==
    /\ Stage(sv) \in {"request", "headers", "stat"} => w = << >>
    /\ Stage(sv) \in {"headers", "stat"} => AnswerFor(sv.path) \subseteq Answers(r)
    /\ Stage(sv) = "open" =>
           /\ w \o sv.todo = StaticHeader(sv.path)
           /\ StaticHeader(sv.path) \o Body(sv.path) \in Answers(r)
    /\ Stage(sv) \in {"fork", "wait"} =>
           /\ sv.path \in Dynamic /\ Disk[sv.path] = "program"
           /\ DynamicHeader \o Output(sv.path) \in Answers(r)
    /\ Stage(sv) = "fork" => w \o sv.todo = DynamicHeader
    /\ Stage(sv) = "wait" => \/ w \o ch.todo = DynamicHeader \o Output(sv.path)
                             \/ Removed /\ IsPrefix(DynamicHeader, w)
    /\ Stage(sv) = "close" => WholeAs(r, w \o sv.todo)

Files == \A p \in Paths : disk[p] \in {Disk[p], "missing"}
OneServed == \A c \in Clients : client[c].link = "served" => server.pc \in Serving /\ c = server.conn
Fresh ==
    /\ server.pc # "write" => server.todo = << >>
    /\ server.pc = "request" => server.took = 0 /\ srio.n = MaxLine
    /\ child.pc = "zombie" => child.todo = << >>
AllAnswered == \A c \in Clients : AnswerAs(client[c], wrote[c])
Answering ==
    server.pc \in Serving /\ client[server.conn].pc = "up" =>
        ServedAs(server, child, client[server.conn].request, wrote[server.conn])

Owed == Files /\ OneServed /\ Fresh /\ AllAnswered /\ Answering

(* What a client was answered stays an answer. *)
LEMMA AnswerStays ==
    ASSUME Removed => Removed', server.pc = "dead" => server'.pc = "dead",
           NEW cl, NEW w, AnswerAs(cl, w)
    PROVE  AnswerAs(cl, w)'
<1>1. \A r : WholeAs(r, w) => WholeAs(r, w)'
  BY DEF WholeAs
<1>2. \A r : EndedAs(r, w) => EndedAs(r, w)'
  BY <1>1 DEF EndedAs
<1>. QED  BY <1>2 DEF AnswerAs

(* And so does what the server is about to write. *)
LEMMA ServedStays ==
    ASSUME Removed => Removed', NEW sv, NEW ch, NEW r, NEW w, ServedAs(sv, ch, r, w)
    PROVE  ServedAs(sv, ch, r, w)'
<1>1. WholeAs(r, w \o sv.todo) => WholeAs(r, w \o sv.todo)'
  BY DEF WholeAs
<1>2. Stage(sv)' = Stage(sv)
  BY DEF Stage
<1>. QED  BY <1>1, <1>2 DEF ServedAs

(* The files stay. *)
LEMMA FilesStay ==
    ASSUME UNCHANGED disk
    PROVE  (Files => Files') /\ (Removed <=> Removed')
BY DEF Files, Removed

(* One client moves, and the server does not. *)
LEMMA ClientMoves ==
    ASSUME IInv, Owed, NEW c \in Clients, UNCHANGED <<server, child, srio, disk>>,
           \A d \in Clients \ {c} : client'[d] = client[d] /\ wrote'[d] = wrote[d],
           AnswerAs(client'[c], wrote'[c]), client'[c].link = "served" => client[c].link = "served",
           client[c].link = "served" /\ client'[c].pc = "up" =>
               /\ client[c].pc = "up" /\ client'[c].request = client[c].request
               /\ wrote'[c] = wrote[c]
    PROVE  Owed'
<1>1. Files' /\ Fresh' /\ (Removed <=> Removed')
  BY FilesStay DEF Owed, Fresh
<1>2. OneServed'
  BY DEF Owed, OneServed
<1>3. \A d \in Clients : AnswerAs(client'[d], wrote'[d])
  BY DEF Owed, AllAnswered
<1>4. AllAnswered'
  <2>. SUFFICES ASSUME NEW d \in Clients PROVE AnswerAs(client[d], wrote[d])'
    BY DEF AllAnswered
  <2>1. PICK cl, w : cl = client'[d] /\ w = wrote'[d]
    OBVIOUS
  <2>2. AnswerAs(cl, w)'
    BY <1>1, <1>3, <2>1, AnswerStays
  <2>. QED  BY <2>1, <2>2 DEF AnswerAs, EndedAs, WholeAs
<1>5. Answering'
  <2>. SUFFICES ASSUME server.pc \in Serving, client'[server.conn].pc = "up"
                PROVE  ServedAs(server, child, client[server.conn].request, wrote[server.conn])'
    BY DEF Answering
  <2>1. server.conn \in Clients /\ client[server.conn].link = "served"
    BY DEF IInv, Busy
  <2>2. PICK sv, ch, r, w : sv = server /\ ch = child /\ r = client[server.conn].request
                            /\ w = wrote[server.conn]
    OBVIOUS
  <2>3. client[server.conn].pc = "up" /\ r = client'[server.conn].request /\ w = wrote'[server.conn]
    BY <2>1, <2>2
  <2>4. ServedAs(sv, ch, r, w)
    BY <2>2, <2>3 DEF Owed, Answering
  <2>5. ServedAs(sv, ch, r, w)'
    BY <1>1, <2>4, ServedStays
  <2>. QED  BY <2>2, <2>3, <2>5 DEF ServedAs, WholeAs, Stage
<1>. QED  BY <1>1, <1>2, <1>4, <1>5 DEF Owed

(* The server or its child moves, and no other connection than the one it is
   busy with. *)
LEMMA ServerMoves ==
    ASSUME IInv, Owed, server.pc \in Serving, server'.pc \in Serving, server'.conn = server.conn,
           UNCHANGED <<client, disk>>,
           \A d \in Clients \ {server.conn} : wrote'[d] = wrote[d], Fresh',
           client[server.conn].pc = "up" =>
               ServedAs(server', child', client[server.conn].request, wrote'[server.conn])
    PROVE  Owed'
<1>1. Files' /\ (Removed <=> Removed')
  BY FilesStay DEF Owed
<1>2. OneServed'
  BY DEF Owed, OneServed
<1>3. server.conn \in Clients /\ client[server.conn].link = "served" /\ server.pc # "dead"
  BY DEF IInv, Busy, Serving
<1>4. AllAnswered'
  <2>. SUFFICES ASSUME NEW d \in Clients PROVE AnswerAs(client[d], wrote[d])'
    BY DEF AllAnswered
  <2>1. PICK cl, w : cl = client[d] /\ w = wrote'[d]
    OBVIOUS
  <2>2. AnswerAs(cl, w)
    <3>1. AnswerAs(client[d], wrote[d])
      BY DEF Owed, AllAnswered
    <3>2. CASE d = server.conn
      BY <1>3, <2>1, <3>1, <3>2 DEF AnswerAs
    <3>3. CASE d # server.conn
      BY <2>1, <3>1, <3>3
    <3>. QED  BY <3>2, <3>3
  <2>3. AnswerAs(cl, w)'
    BY <1>1, <1>3, <2>2, AnswerStays
  <2>. QED  BY <2>1, <2>3 DEF AnswerAs, EndedAs, WholeAs
<1>5. Answering'
  <2>. SUFFICES ASSUME client[server.conn].pc = "up"
                PROVE  ServedAs(server, child, client[server.conn].request, wrote[server.conn])'
    BY DEF Answering
  <2>1. PICK sv, ch, r, w : sv = server' /\ ch = child' /\ r = client[server.conn].request
                            /\ w = wrote'[server.conn]
    OBVIOUS
  <2>2. ServedAs(sv, ch, r, w)
    BY <2>1
  <2>3. ServedAs(sv, ch, r, w)'
    BY <1>1, <2>2, ServedStays
  <2>. QED  BY <2>1, <2>3 DEF ServedAs, WholeAs, Stage
<1>. QED  BY <1>1, <1>2, <1>4, <1>5 DEF Owed

(* The server dies with part of an answer written. *)
LEMMA DiesOwed ==
    ASSUME IInv, Owed, Dies, server.pc \in Serving, UNCHANGED <<disk, wrote, child>>,
           client[server.conn].pc = "up" =>
               \E answer \in Answers(client[server.conn].request) :
                   IsPrefix(wrote[server.conn], answer)
    PROVE  Owed'
<1>1. Files' /\ (Removed <=> Removed')
  BY FilesStay DEF Owed
<1>2. /\ server' = [NoServer EXCEPT !.pc = "dead"]
      /\ client' = [c \in Clients |->
             IF client[c].link \in {"queued", "served"} THEN Closed(c) ELSE client[c]]
  BY DEF Dies
<1>3. server'.pc = "dead" /\ server'.todo = << >> /\ server.pc # "dead"
  BY <1>2, NoServerType DEF ServerStates, Serving
<1>4. \A c \in Clients : client[c].link \in {"queued", "served"} =>
          /\ client'[c].link = "closed" /\ client'[c].pc = client[c].pc
          /\ client'[c].request = client[c].request
  BY <1>2, ClosedKeeps
<1>5. OneServed'
  <2>1. ASSUME NEW c \in Clients PROVE client'[c].link # "served"
    BY <1>2, <1>4
  <2>. QED  BY <2>1 DEF OneServed
<1>6. Fresh'
  BY <1>3 DEF Owed, Fresh
<1>7. Answering'
  BY <1>3 DEF Answering, Serving
<1>8. ASSUME NEW c \in Clients PROVE AnswerAs(client[c], wrote[c])'
  <2>1. PICK cl, w : cl = client'[c] /\ w = wrote[c]
    OBVIOUS
  <2>2. AnswerAs(client[c], w)
    BY <2>1 DEF Owed, AllAnswered
  <2>3. client[c].request \in AnyRequest
    BY ClientType DEF IInv
  <2>4. CASE client[c].link \in {"queued", "served"}
    <3>1. /\ cl.link = "closed" /\ cl.pc = client[c].pc /\ cl.request = client[c].request
          /\ cl.pc # "done"
      BY <1>4, <2>1, <2>2, <2>4 DEF AnswerAs
    <3>2. ASSUME cl.pc = "up" PROVE \E answer \in Answers(cl.request) : IsPrefix(w, answer)
      <4>1. CASE client[c].link = "served"
        BY <2>1, <3>1, <3>2, <4>1 DEF Owed, OneServed
      <4>2. CASE client[c].link = "queued"
        <5>1. w = << >>
          BY <2>2, <4>2 DEF AnswerAs
        <5>2. PICK answer \in Answers(cl.request) : answer \in Stream
          BY <2>3, <3>1, AnswersExist
        <5>. QED  BY <5>1, <5>2, Begins
      <4>. QED  BY <2>4, <4>1, <4>2
    <3>3. AnswerAs(cl, w)'
      BY <1>3, <3>1, <3>2 DEF AnswerAs, EndedAs
    <3>. QED  BY <2>1, <3>3 DEF AnswerAs, EndedAs, WholeAs
  <2>5. CASE client[c].link \notin {"queued", "served"}
    <3>1. cl = client[c]
      BY <1>2, <2>1, <2>5
    <3>2. AnswerAs(cl, w)'
      BY <1>1, <1>3, <2>2, <3>1, AnswerStays
    <3>. QED  BY <2>1, <3>2 DEF AnswerAs, EndedAs, WholeAs
  <2>. QED  BY <2>4, <2>5
<1>. QED  BY <1>1, <1>5, <1>6, <1>7, <1>8 DEF Owed, AllAnswered

(* The steps of a client: it connects, sends its request, reads what was written
   to it, or ends. *)
LEMMA ClientsOwed ==
    ASSUME IInv, Owed, NEW c \in Clients, Connect(c) \/ Transfers(c) \/ Reset(c) \/ Leave(c)
    PROVE  Owed'
<1>. DEFINE cl == client[c]
            w == wrote[c]
<1>1. /\ LinkedAs(cl, crio[c], up[c]) /\ AnsweredAs(cl, crio[c], down[c], w)
      /\ client \in [Clients -> ClientStates] /\ cl \in ClientStates
      /\ wrote \in [Clients -> Stream] /\ AnswerAs(cl, w)
  BY ClientInvariant DEF Owed, AllAnswered
<1>2. CASE Connect(c)
  <2>1. /\ cl.pc = "idle" /\ cl.link = "none" /\ UNCHANGED <<server, child, srio, disk, wrote>>
        /\ w = << >>
    BY <1>1, <1>2 DEF Connect, wires, LinkedAs, AnswerAs
  <2>2. ASSUME NEW new \in ClientStates, client' = [client EXCEPT ![c] = new],
               AnswerAs(new, w), new.link # "served"
        PROVE  Owed'
    BY <1>1, <2>1, <2>2, ClientMoves
  <2>3. ASSUME NEW r \in Requests[c],
               client' = [client EXCEPT ![c] =
                   [pc |-> "up", link |-> "queued", request |-> r, todo |-> Script(r),
                    seen |-> << >>, unread |-> FALSE]]
        PROVE  Owed'
    <3>. DEFINE s == Script(r)
                new == [pc |-> "up", link |-> "queued", request |-> r, todo |-> s,
                        seen |-> << >>, unread |-> FALSE]
    <3>1. r \in AnyRequest /\ s \in Stream /\ << >> \in Stream
      BY RequestAssumption, ScriptIsStream, EmptyStream
    <3>2. "up" \in ClientPcs /\ "queued" \in Links /\ FALSE \in BOOLEAN
      BY DEF ClientPcs, Links
    <3>3. client' = [client EXCEPT ![c] = new]
      BY <2>3, Zenon
    <3>4. new.pc = "up" /\ new.link = "queued"
      OBVIOUS
    <3>. HIDE DEF s
    <3>5. new \in ClientStates
      BY <3>1, <3>2, ClientState, Zenon
    <3>. HIDE DEF new
    <3>6. AnswerAs(new, w)
      BY <2>1, <3>4 DEF AnswerAs
    <3>. QED  BY <2>2, <3>3, <3>4, <3>5, <3>6
  <2>4. ASSUME client' = [client EXCEPT ![c].pc = "failed"] PROVE Owed'
    <3>. DEFINE new == [cl EXCEPT !.pc = "failed"]
    <3>1. "failed" \in ClientPcs
      BY DEF ClientPcs
    <3>2. new \in ClientStates /\ new.pc = "failed" /\ new.link = cl.link
      BY <1>1, <3>1, WithPc, Zenon
    <3>3. client' = [client EXCEPT ![c] = new]
      BY <2>4
    <3>. HIDE DEF new
    <3>4. AnswerAs(new, w) /\ new.link # "served"
      BY <2>1, <3>2 DEF AnswerAs
    <3>. QED  BY <2>2, <3>2, <3>3, <3>4
  <2>. QED  BY <1>2, <2>3, <2>4 DEF Connect
<1>3. ASSUME NEW new \in ClientStates, client' = [client EXCEPT ![c] = new],
             UNCHANGED <<server, child, srio, disk, wrote>>, cl.pc = "up",
             new.link = cl.link, new.request = cl.request, AnswerAs(new, w)
      PROVE  Owed'
  <2>1. client'[c] = new /\ \A d \in Clients \ {c} : client'[d] = client[d]
    BY <1>1, <1>3
  <2>. QED  BY <1>3, <2>1, ClientMoves
<1>4. CASE Send(c)
  <2>1. cl.pc = "up" /\ UNCHANGED <<server, child, srio, disk, wrote>>
    BY <1>4 DEF Send
  <2>2. cl.todo \in Stream /\ up[c] \in Stream /\ << >> \in Stream /\ TRUE \in BOOLEAN
    BY ClientType, EmptyStream DEF IInv
  <2>3. ASSUME NEW k \in Accepts(cl.todo, up[c]), client' = [client EXCEPT ![c].todo = Rest(k, @)]
        PROVE  Owed'
    <3>. DEFINE todo == Rest(k, cl.todo)
                new == [cl EXCEPT !.todo = todo]
    <3>1. todo \in Stream
      BY <2>2, Accepted
    <3>2. client' = [client EXCEPT ![c] = new]
      BY <2>3
    <3>. HIDE DEF todo
    <3>3. /\ new \in ClientStates /\ new.pc = cl.pc /\ new.link = cl.link
          /\ new.request = cl.request /\ new.seen = cl.seen
      BY <1>1, <3>1, WithTodo, Zenon
    <3>. HIDE DEF new
    <3>4. AnswerAs(new, w)
      BY <1>1, <3>3 DEF AnswerAs
    <3>. QED  BY <1>3, <2>1, <3>2, <3>3, <3>4
  <2>4. ASSUME client' = [client EXCEPT ![c].todo = << >>, ![c].unread = TRUE] PROVE Owed'
    <3>. DEFINE mid == [cl EXCEPT !.todo = << >>]
                new == [mid EXCEPT !.unread = TRUE]
    <3>1. client' = [client EXCEPT ![c] = new]
      BY <1>1, <2>4
    <3>2. /\ mid \in ClientStates /\ mid.pc = cl.pc /\ mid.link = cl.link
          /\ mid.request = cl.request /\ mid.seen = cl.seen
      BY <1>1, <2>2, WithTodo, Zenon
    <3>. HIDE DEF mid
    <3>3. /\ new \in ClientStates /\ new.pc = cl.pc /\ new.link = cl.link
          /\ new.request = cl.request /\ new.seen = cl.seen
      BY <2>2, <3>2, WithUnread, Zenon
    <3>. HIDE DEF new
    <3>4. AnswerAs(new, w)
      BY <1>1, <3>3 DEF AnswerAs
    <3>. QED  BY <1>3, <2>1, <3>1, <3>3, <3>4
  <2>. QED  BY <1>4, <2>3, <2>4 DEF Send
<1>5. CASE StartRead(c)
  <2>1. cl.pc = "up" /\ UNCHANGED <<server, child, srio, disk, wrote>>
    BY <1>5 DEF StartRead, wires
  <2>2. ASSUME crio[c].eof, crio[c].got = << >>, client' = [client EXCEPT ![c].pc = "done"]
        PROVE  Owed'
    <3>. DEFINE new == [cl EXCEPT !.pc = "done"]
    <3>1. "done" \in ClientPcs /\ cl.seen \in Stream
      BY ClientType DEF IInv, ClientPcs
    <3>2. /\ new \in ClientStates /\ new.pc = "done" /\ new.link = cl.link
          /\ new.request = cl.request /\ new.seen = cl.seen
      BY <1>1, <3>1, WithPc, Zenon
    <3>3. client' = [client EXCEPT ![c] = new]
      BY <2>2
    <3>. HIDE DEF new
    <3>4. crio[c].unread = << >> /\ down[c] = << >> /\ cl.link = "closed"
      BY <1>1, <2>2 DEF AnsweredAs, Sound, Ahead
    <3>5. w = cl.seen
      <4>1. w = cl.seen \o (<< >> \o (<< >> \o << >>))
        BY <1>1, <2>2, <3>4 DEF AnsweredAs, Coming
      <4>2. << >> \o << >> = << >> /\ cl.seen \o << >> = cl.seen
        BY <3>1, EmptyStream
      <4>. QED  BY <4>1, <4>2
    <3>6. AnswerAs(new, w)
      BY <1>1, <2>1, <3>2, <3>4, <3>5 DEF AnswerAs
    <3>. QED  BY <1>3, <2>1, <3>2, <3>3, <3>6
  <2>3. ASSUME client' = [client EXCEPT ![c].seen = @ \o crio[c].got] PROVE Owed'
    <3>. DEFINE seen == cl.seen \o crio[c].got
                new == [cl EXCEPT !.seen = seen]
    <3>1. seen \in Stream
      <4>1. cl.seen \in Stream /\ crio[c] \in Rios
        BY ClientType DEF IInv
      <4>2. crio[c].got \in Stream
        BY <4>1, FrameType
      <4>. QED  BY <4>1, <4>2, Put
    <3>2. client' = [client EXCEPT ![c] = new]
      BY <2>3
    <3>. HIDE DEF seen
    <3>3. /\ new \in ClientStates /\ new.pc = cl.pc /\ new.link = cl.link
          /\ new.request = cl.request
      BY <1>1, <3>1, WithSeen, Zenon
    <3>. HIDE DEF new
    <3>4. AnswerAs(new, w)
      BY <1>1, <2>1, <3>3 DEF AnswerAs
    <3>. QED  BY <1>3, <2>1, <3>2, <3>3, <3>4
  <2>. QED  BY <1>5, <2>2, <2>3 DEF StartRead
<1>6. CASE Read(c)
  <2>1. cl.pc = "up" /\ UNCHANGED <<client, server, child, srio, disk, wrote>>
    BY <1>6 DEF Read
  <2>2. client' = [client EXCEPT ![c] = cl]
    BY <1>1, <2>1
  <2>. QED  BY <1>1, <1>3, <2>1, <2>2
<1>7. CASE Reset(c) \/ Leave(c)
  <2>1. PICK how \in {"reset", "left"} : Ends(c, how)
    BY <1>7 DEF Reset, Leave
  <2>2. UNCHANGED <<server, child, srio, disk>>
    BY <1>7 DEF Reset, Leave
  <2>. DEFINE mid == [cl EXCEPT !.pc = how]
              new == [mid EXCEPT !.seen = << >>]
  <2>3. how \in ClientPcs /\ << >> \in Stream
    BY EmptyStream DEF ClientPcs
  <2>4. mid \in ClientStates /\ mid.pc = how /\ mid.link = cl.link
    BY <1>1, <2>3, WithPc, Zenon
  <2>5. client' = [client EXCEPT ![c] = new]
    BY <2>1, Zenon DEF Ends
  <2>. HIDE DEF mid
  <2>6. new \in ClientStates /\ new.pc = mid.pc /\ new.link = mid.link
    BY <2>3, <2>4, WithSeen, Zenon
  <2>. HIDE DEF new
  <2>7. client'[c] = new /\ \A d \in Clients \ {c} : client'[d] = client[d]
    BY <1>1, <2>5
  <2>8. wrote'[c] = << >> /\ \A d \in Clients \ {c} : wrote'[d] = wrote[d]
    BY <1>1, <2>1 DEF Ends
  <2>9. AnswerAs(client'[c], wrote'[c]) /\ client'[c].pc # "up" /\ client'[c].link = cl.link
    BY <2>4, <2>6, <2>7, <2>8 DEF AnswerAs
  <2>. QED  BY <2>2, <2>7, <2>8, <2>9, ClientMoves
<1>. QED  BY <1>2, <1>4, <1>5, <1>6, <1>7 DEF Transfers

(* Neither reading nor the end of the stream changes what a call asks for. *)
LEMMA FrameSize ==
    ASSUME NEW rio \in Rios, NEW op, NEW m, NEW chunk
    PROVE  Begun(rio, op, m).n = m /\ After(rio, chunk).n = rio.n /\ AtEof(rio).n = rio.n
<1>1. \A f \in [op : {op}, n : {m}, got : {<< >>}, unread : {rio.unread}, eof : {FALSE}] : Fed(f).n = m
  BY DEF Fed
<1>2. Begun(rio, op, m).n = m
  BY <1>1 DEF Begun
<1>3. AtEof(rio).n = rio.n
  BY DEF AtEof, Rios
<1>4. After(rio, chunk).n = rio.n
  <2>1. CASE rio.op \in Buffered
    <3>. DEFINE mid == [rio EXCEPT !.unread = chunk]
    <3>1. mid.n = rio.n /\ mid \in [op : {mid.op}, n : {rio.n}, got : {mid.got}, unread : {chunk}, eof : {mid.eof}]
      BY DEF Rios
    <3>. HIDE DEF mid
    <3>2. Fed(mid).n = rio.n
      BY <3>1 DEF Fed
    <3>. QED  BY <2>1, <3>2 DEF After, mid
  <2>2. CASE rio.op \notin Buffered
    BY <2>2 DEF After, Rios
  <2>. QED  BY <2>1, <2>2
<1>. QED  BY <1>2, <1>3, <1>4

(* The first line of a client that is still there is that of its request. *)
LEMMA FirstLine ==
    ASSUME IInv, Owed, server.pc = "request", Returned(srio), client[server.conn].pc = "up"
    PROVE  /\ srio.got # << >>
           /\ srio.got = <<NL>> <=> client[server.conn].request.method = "blank"
<1>. DEFINE c == server.conn
            cl == client[c]
            g == srio.got
            v == srio.unread \o up[c]
            q == Script(cl.request)
<1>1. /\ c \in Clients /\ AskedAs(cl, srio, server.took, up[c]) /\ Sound(srio) /\ srio \in Rios
      /\ server.took = 0 /\ srio.n = MaxLine /\ up[c] \in Stream /\ srio.op = "readlineb"
  BY ReadingServer DEF Owed, Fresh, Returned
<1>2. ~srio.eof /\ Rest(0, SentOf(cl)) = g \o v
  BY <1>1 DEF AskedAs, Coming
<1>3. LinkedAs(cl, crio[c], up[c]) /\ cl \in ClientStates /\ cl.request \in AnyRequest
  BY <1>1, ClientInvariant, ClientType DEF IInv
<1>4. PICK k \in 0 .. Len(q) : cl.todo = Rest(k, q)
  BY <1>3 DEF LinkedAs
<1>5. SentOf(cl) = First(k, q) /\ SentOf(cl) \in Stream /\ q \in Stream /\ Len(q) \in Nat
  BY <1>3, <1>4, SentPart
<1>6. g \in Stream /\ srio.unread \in Stream /\ v \in Stream /\ Len(g) \in Nat /\ Len(v) \in Nat
  BY <1>1, FrameType, Put, EmptyStream
<1>7. g \o v = First(k, q)
  BY <1>2, <1>5, EmptyPart
<1>8. \/ (MaxLine - 1) - Len(g) = 0
      \/ g # << >> /\ g[Len(g)] = NL
  BY <1>1, <1>2 DEF Returned, Complete, Room
<1>9. \A j \in 1 .. Len(g) - 1 : g[j] # NL
  BY <1>1 DEF Sound, OneLine
<1>10. /\ cl.request.method = "blank" => q[1] = NL
       /\ cl.request.method # "blank" => q[1] = cl.request.method /\ q[2] = NL
       /\ cl.request.method # NL
  BY <1>3, ScriptBegins, RequestAssumption DEF AnyRequest
<1>. HIDE DEF cl, g, v, q
<1>11. \A i \in 1 .. Len(g) : g[i] = q[i]
  <2>1. /\ g \in Seq(Element) /\ v \in Seq(Element) /\ q \in Seq(Element)
        /\ \A i \in 1 .. k : First(k, q)[i] = q[i]
        /\ Len(First(k, q)) = k
    BY <1>5, <1>6, Cut DEF Stream
  <2>2. /\ Len(g \o v) = Len(g) + Len(v)
        /\ \A i \in 1 .. Len(g) + Len(v) : (g \o v)[i] = IF i <= Len(g) THEN g[i] ELSE v[i - Len(g)]
    BY <2>1, ConcatProperties
  <2>3. ASSUME NEW i \in 1 .. Len(g) PROVE g[i] = q[i]
    <3>1. i \in 1 .. Len(g) + Len(v) /\ i <= Len(g) /\ i \in 1 .. k
      BY <1>6, <1>7, <2>1, <2>2
    <3>. QED  BY <1>7, <2>1, <2>2, <3>1
  <2>. QED  BY <2>3
<1>12. Len(g) = 0 <=> g = << >>
  BY <1>6, EmptyStream
<1>13. MaxLine \in Nat /\ MaxLine > 2
  BY DiskAssumption
<1>14. Len(g) >= 1
  BY <1>6, <1>8, <1>12, <1>13
<1>15. g = <<NL>> <=> Len(g) = 1 /\ g[1] = NL
  <2>1. ASSUME Len(g) = 1, g[1] = NL PROVE g = <<NL>>
    <3>1. g \in Seq(Element)
      BY <1>6 DEF Stream
    <3>2. <<NL>> \in Seq(Element) /\ Len(<<NL>>) = 1 /\ <<NL>>[1] = NL
      BY DEF Element
    <3>3. \A i \in 1 .. Len(g) : g[i] = <<NL>>[i]
      BY <2>1
    <3>. QED  BY <2>1, <3>1, <3>2, <3>3, SeqEqual
  <2>. QED  BY <2>1
<1>16. CASE cl.request.method = "blank"
  <2>1. g[1] = NL
    BY <1>6, <1>10, <1>11, <1>14, <1>16
  <2>2. Len(g) = 1
    <3>1. \A n \in Nat : n >= 1 /\ 1 \notin 1 .. n - 1 => n = 1
      OBVIOUS
    <3>2. 1 \notin 1 .. Len(g) - 1
      BY <1>9, <2>1
    <3>. QED  BY <1>6, <1>14, <3>1, <3>2
  <2>. QED  BY <1>12, <1>14, <1>15, <1>16, <2>1, <2>2 DEF cl, g
<1>17. CASE cl.request.method # "blank"
  <2>1. g[1] # NL
    BY <1>6, <1>10, <1>11, <1>14, <1>17
  <2>. QED  BY <1>12, <1>14, <1>15, <1>17, <2>1 DEF cl, g
<1>. QED  BY <1>16, <1>17

-----------------------------------------------------------------------------
(* The steps of the server, as far as the answers go. *)

(* It starts to listen, or takes a connection, or closes the one it has. *)
LEMMA TurnsOwed ==
    ASSUME IInv, Owed, OpenListenfd \/ Accept \/ Close
    PROVE  Owed'
<1>1. /\ UNCHANGED <<disk, wrote, child>> /\ Files' /\ (Removed <=> Removed')
  BY FilesStay DEF Owed, OpenListenfd, Accept, Close, wires
<1>2. CASE OpenListenfd
  <2>1. PICK pc \in {"accept", "dead"} : server' = [server EXCEPT !.pc = pc]
    BY <1>2 DEF OpenListenfd, GoTo
  <2>2. server.pc = "start" /\ UNCHANGED <<srio, client>> /\ server \in ServerStates
    BY <1>2 DEF OpenListenfd, At, IInv, Typed
  <2>3. server'.pc = pc /\ server'.todo = server.todo /\ pc \notin Serving
    BY <2>1, <2>2 DEF ServerStates, Serving
  <2>4. AllAnswered'
    <3>. SUFFICES ASSUME NEW d \in Clients PROVE AnswerAs(client[d], wrote[d])'
      BY DEF AllAnswered
    <3>1. PICK cl, w : cl = client[d] /\ w = wrote[d]
      OBVIOUS
    <3>2. AnswerAs(cl, w)'
      BY <1>1, <2>2, <3>1, AnswerStays DEF Owed, AllAnswered
    <3>. QED  BY <1>1, <2>2, <3>1, <3>2 DEF AnswerAs, EndedAs, WholeAs
  <2>5. OneServed' /\ Fresh' /\ Answering'
    BY <1>1, <2>1, <2>2, <2>3 DEF Owed, OneServed, Fresh, Answering, Serving
  <2>. QED  BY <1>1, <2>4, <2>5 DEF Owed
<1>3. CASE Accept
  <2>1. backlog \in Seq(Clients) /\ Len(backlog) \in Nat /\ Len(backlog) # 0
    BY <1>3, LenProperties, EmptySeq DEF IInv, Typed, Accept
  <2>2. PICK c \in Clients : c = Head(backlog) /\ c = backlog[1]
    BY <2>1, HeadTailProperties, EmptySeq
  <2>. DEFINE cl == client[c]
              new == [cl EXCEPT !.link = "served"]
              sv == [NoServer EXCEPT !.pc = "request", !.conn = c]
  <2>3. /\ server.pc = "accept" /\ server' = sv
        /\ client' = [client EXCEPT ![c] = new]
        /\ srio' = Begun(ReadInitB, "readlineb", MaxLine)
    BY <1>3, <2>2 DEF Accept, At
  <2>4. cl.link = "queued"
    <3>1. 1 \in 1 .. Len(backlog)
      BY <2>1
    <3>. QED  BY <2>2, <3>1 DEF IInv, Waiting
  <2>5. wrote[c] = << >> /\ cl.pc # "done"
    BY <2>4 DEF Owed, AllAnswered, AnswerAs
  <2>6. new.pc = cl.pc /\ new.link = "served"
    <3>1. "served" \in Links /\ cl \in ClientStates
      BY ClientInvariant DEF Links
    <3>. QED  BY <3>1, WithLink, Zenon
  <2>7. sv.pc = "request" /\ sv.conn = c /\ sv.took = 0 /\ sv.todo = << >>
    BY NoServerType DEF ServerStates
  <2>. HIDE DEF new, sv
  <2>8. client'[c] = new /\ \A d \in Clients \ {c} : client'[d] = client[d]
    BY <2>3 DEF IInv, Typed
  <2>9. srio'.n = MaxLine
    <3>1. ReadInitB \in Rios
      BY EmptyStream DEF ReadInitB, Rios
    <3>. QED  BY <2>3, <3>1, FrameSize
  <2>10. OneServed'
    BY <2>3, <2>7, <2>8 DEF Owed, OneServed, Serving
  <2>11. Fresh'
    BY <1>1, <2>3, <2>7, <2>9 DEF Owed, Fresh
  <2>12. AllAnswered'
    <3>. SUFFICES ASSUME NEW d \in Clients PROVE AnswerAs(client[d], wrote[d])'
      BY DEF AllAnswered
    <3>1. PICK dl, w : dl = client'[d] /\ w = wrote[d]
      OBVIOUS
    <3>2. AnswerAs(dl, w)
      <4>1. CASE d = c
        BY <2>5, <2>6, <2>8, <3>1, <4>1 DEF AnswerAs
      <4>2. CASE d # c
        BY <2>8, <3>1, <4>2 DEF Owed, AllAnswered
      <4>. QED  BY <4>1, <4>2
    <3>3. AnswerAs(dl, w)'
      BY <1>1, <2>3, <3>2, AnswerStays
    <3>. QED  BY <1>1, <3>1, <3>3 DEF AnswerAs, EndedAs, WholeAs
  <2>13. Answering'
    <3>1. Stage(server') = "request" /\ server'.conn = c
      BY <2>3, <2>7 DEF Stage
    <3>2. wrote'[c] = << >>
      BY <1>1, <2>5
    <3>. QED  BY <3>1, <3>2 DEF Answering, ServedAs, Stage
  <2>. QED  BY <1>1, <2>10, <2>11, <2>12, <2>13 DEF Owed
<1>4. CASE Close
  <2>1. /\ server.pc = "close" /\ server' = NoServer /\ UNCHANGED srio
        /\ client' = [client EXCEPT ![server.conn] = Closed(server.conn)]
    BY <1>4 DEF Close, At
  <2>2. PICK c \in Clients : c = server.conn /\ client[c].link = "served"
    BY <2>1 DEF IInv, Busy, Serving
  <2>. DEFINE cl == client[c]
              new == Closed(c)
  <2>3. new.link = "closed" /\ new.pc = cl.pc /\ new.request = cl.request
    BY <2>2, ClosedKeeps
  <2>. HIDE DEF new
  <2>4. client'[c] = new /\ \A d \in Clients \ {c} : client'[d] = client[d]
    BY <2>1, <2>2 DEF IInv, Typed, new
  <2>5. cl.pc # "done"
    BY <2>2 DEF Owed, AllAnswered, AnswerAs
  <2>6. cl.pc = "up" => WholeAs(cl.request, wrote[c])
    <3>. SUFFICES ASSUME cl.pc = "up" PROVE WholeAs(cl.request, wrote[c])
      OBVIOUS
    <3>1. WholeAs(cl.request, wrote[c] \o server.todo)
      BY <2>1, <2>2 DEF Owed, Answering, ServedAs, Stage, Serving
    <3>2. server.todo = << >>
      BY <2>1 DEF Owed, Fresh
    <3>3. wrote[c] \o << >> = wrote[c]
      BY ClientType, EmptyStream DEF IInv
    <3>. QED  BY <3>1, <3>2, <3>3
  <2>7. AnswerAs(new, wrote[c])
    BY <2>3, <2>5, <2>6 DEF AnswerAs, EndedAs
  <2>8. OneServed'
    BY <2>2, <2>3, <2>4 DEF Owed, OneServed
  <2>9. Fresh' /\ Answering'
    BY <1>1, <2>1, NoServerType DEF Owed, Fresh, Answering, Serving
  <2>10. AllAnswered'
    <3>. SUFFICES ASSUME NEW d \in Clients PROVE AnswerAs(client[d], wrote[d])'
      BY DEF AllAnswered
    <3>1. PICK dl, w : dl = client'[d] /\ w = wrote[d]
      OBVIOUS
    <3>2. AnswerAs(dl, w)
      BY <2>4, <2>7, <3>1 DEF Owed, AllAnswered
    <3>3. AnswerAs(dl, w)'
      BY <1>1, <2>1, <3>2, AnswerStays
    <3>. QED  BY <1>1, <3>1, <3>3 DEF AnswerAs, EndedAs, WholeAs
  <2>. QED  BY <1>1, <2>8, <2>9, <2>10 DEF Owed
<1>. QED  BY <1>2, <1>3, <1>4

(* It reads. *)
LEMMA ReadOwed ==
    ASSUME IInv, Owed, ServerRead
    PROVE  Owed'
<1>1. /\ server.pc \in {"request", "headers"} /\ Reads(srio) /\ UNCHANGED <<disk, wrote, child>>
      /\ server.pc \in Serving /\ srio \in Rios
  BY ReadingServer DEF ServerRead, Serving
<1>2. CASE UNCHANGED <<client, server>> /\ srio'.n = srio.n
  <2>1. Fresh'
    BY <1>1, <1>2 DEF Owed, Fresh
  <2>. QED  BY <1>1, <1>2, <2>1, ServerMoves DEF Owed, Answering
<1>3. CASE Left(server.conn) /\ Dies
  BY <1>1, <1>3, DiesOwed DEF Left
<1>. QED  BY <1>1, <1>2, <1>3, FrameSize DEF ServerRead

(* It takes the request line, and refuses the method or goes on. *)
LEMMA RequestOwed ==
    ASSUME IInv, Owed, Request
    PROVE  Owed'
<1>. DEFINE c == server.conn
            r == client[c].request
            w == wrote[c]
            blank == srio.got = <<NL>>
<1>1. /\ server.pc = "request" /\ server.pc \in Serving /\ Returned(srio)
      /\ UNCHANGED <<disk, client, wrote, child>>
  BY DEF Request, At, wires, Serving
<1>2. /\ server \in ServerStates /\ server.todo = << >> /\ c \in Clients /\ r \in AnyRequest
  BY <1>1, TookType, ReadingServer, ClientType DEF Owed, Fresh, IInv
<1>3. ASSUME client[c].pc = "up"
      PROVE  /\ ServedAs(server, child, r, w) /\ w = << >> /\ srio.got # << >>
             /\ blank <=> r.method = "blank"
  <2>1. ServedAs(server, child, r, w) /\ Stage(server) = "request"
    BY <1>1, <1>3 DEF Owed, Answering, Stage
  <2>. QED  BY <1>1, <1>3, <2>1, FirstLine DEF ServedAs
<1>4. ASSUME NEW sv, server' = sv, sv.pc \in {"headers", "write", "close"}, sv.conn = c,
             sv.pc # "write" => sv.todo = << >>,
             client[c].pc = "up" => ServedAs(sv, child, r, w)
      PROVE  Owed'
  <2>1. Fresh'
    BY <1>1, <1>4 DEF Owed, Fresh
  <2>2. sv.pc \in Serving
    BY <1>4 DEF Serving
  <2>. QED  BY <1>1, <1>4, <2>1, <2>2, ServerMoves
<1>5. CASE srio.got = << >> /\ GoTo("close")
  <2>. DEFINE sv == [server EXCEPT !.pc = "close"]
  <2>1. sv.pc = "close" /\ sv.conn = c /\ sv.todo = << >>
    BY <1>2 DEF ServerStates
  <2>2. server' = sv
    BY <1>5 DEF GoTo
  <2>. HIDE DEF sv
  <2>. QED  BY <1>3, <1>4, <1>5, <2>1, <2>2
<1>6. CASE (r.method # "GET" \/ blank) /\ server' = Writes(ErrorPage("501"), "close")
  <2>. DEFINE page == ErrorPage("501")
              sv == [server EXCEPT !.pc = "write", !.todo = page, !.then = "close", !.took = Took]
  <2>1. server' = sv
    BY <1>6 DEF Writes
  <2>2. page \in Stream
    BY Texts DEF Words
  <2>. HIDE DEF page
  <2>3. sv.pc = "write" /\ sv.conn = c /\ sv.todo = page /\ sv.then = "close"
    BY <1>2 DEF ServerStates
  <2>. HIDE DEF sv
  <2>4. ASSUME client[c].pc = "up" PROVE ServedAs(sv, child, r, w)
    <3>1. Stage(sv) = "close"
      BY <2>3 DEF Stage
    <3>2. r.method # "GET" /\ w = << >>
      BY <1>3, <1>6, <2>4
    <3>3. page \in Answers(r)
      BY <3>2 DEF Answers, page
    <3>4. w \o sv.todo = page
      BY <2>2, <2>3, <3>2, EmptyStream
    <3>. QED  BY <3>1, <3>3, <3>4 DEF ServedAs, WholeAs
  <2>. QED  BY <1>4, <2>1, <2>3, <2>4
<1>7. ASSUME NEW path \in IF blank THEN Paths ELSE {r.path}, r.method = "GET" \/ blank,
             server' = [server EXCEPT !.pc = "headers", !.path = path, !.took = Took]
      PROVE  Owed'
  <2>. DEFINE sv == [server EXCEPT !.pc = "headers", !.path = path, !.took = Took]
  <2>1. sv.pc = "headers" /\ sv.conn = c /\ sv.todo = << >> /\ sv.path = path
    BY <1>2 DEF ServerStates
  <2>2. server' = sv
    BY <1>7
  <2>. HIDE DEF sv
  <2>3. ASSUME client[c].pc = "up" PROVE ServedAs(sv, child, r, w)
    <3>1. Stage(sv) = "headers"
      BY <2>1 DEF Stage
    <3>2. AnswerFor(path) \subseteq Answers(r)
      <4>1. CASE blank
        <5>1. r.method = "blank" /\ path \in Paths
          BY <1>3, <1>7, <2>3, <4>1
        <5>. HIDE DEF r
        <5>. QED  BY <5>1 DEF Answers
      <4>2. CASE ~blank
        <5>1. r.method = "GET" /\ path = r.path
          BY <1>7, <4>2
        <5>. HIDE DEF r
        <5>. QED  BY <5>1 DEF Answers
      <4>. QED  BY <4>1, <4>2
    <3>. QED  BY <1>3, <2>1, <2>3, <3>1, <3>2 DEF ServedAs
  <2>. QED  BY <1>4, <2>1, <2>2, <2>3
<1>. QED  BY <1>5, <1>6, <1>7 DEF Request

(* It takes a header line. *)
LEMMA HeadersOwed ==
    ASSUME IInv, Owed, Headers
    PROVE  Owed'
<1>. DEFINE c == server.conn
            r == client[c].request
            w == wrote[c]
<1>1. /\ server.pc = "headers" /\ server.pc \in Serving /\ server \in ServerStates
      /\ UNCHANGED <<disk, client, wrote, child>> /\ server.todo = << >>
  BY TookType DEF Headers, At, wires, Serving, Owed, Fresh
<1>2. ASSUME NEW sv, server' = sv, sv.pc \in {"headers", "stat"}, sv.conn = c,
             sv.todo = << >>, sv.path = server.path
      PROVE  Owed'
  <2>1. Fresh' /\ sv.pc \in Serving
    BY <1>1, <1>2 DEF Owed, Fresh, Serving
  <2>2. ASSUME client[c].pc = "up" PROVE ServedAs(sv, child, r, w)
    <3>1. ServedAs(server, child, r, w)
      BY <1>1, <2>2 DEF Owed, Answering
    <3>2. Stage(server) = "headers" /\ Stage(sv) \in {"headers", "stat"}
      BY <1>1, <1>2 DEF Stage
    <3>. QED  BY <1>2, <3>1, <3>2 DEF ServedAs
  <2>. QED  BY <1>1, <1>2, <2>1, <2>2, ServerMoves
<1>3. ASSUME NEW whole, server' = [server EXCEPT !.pc = "stat", !.line = <<NL>>, !.took = Took,
                                                 !.whole = whole]
      PROVE  Owed'
  <2>. DEFINE sv == [server EXCEPT !.pc = "stat", !.line = <<NL>>, !.took = Took, !.whole = whole]
  <2>1. sv.pc = "stat" /\ sv.conn = c /\ sv.todo = << >> /\ sv.path = server.path
    BY <1>1 DEF ServerStates
  <2>2. server' = sv
    BY <1>3
  <2>. HIDE DEF sv
  <2>. QED  BY <1>2, <2>1, <2>2
<1>4. ASSUME NEW line, server' = [server EXCEPT !.line = line, !.took = Took]
      PROVE  Owed'
  <2>. DEFINE sv == [server EXCEPT !.line = line, !.took = Took]
  <2>1. sv.pc = "headers" /\ sv.conn = c /\ sv.todo = << >> /\ sv.path = server.path
    BY <1>1 DEF ServerStates
  <2>2. server' = sv
    BY <1>4
  <2>. HIDE DEF sv
  <2>. QED  BY <1>2, <2>1, <2>2
<1>. QED  BY <1>3, <1>4 DEF Headers

(* It looks for the file. *)
LEMMA LocateOwed ==
    ASSUME IInv, Owed, Locate
    PROVE  Owed'
<1>. DEFINE c == server.conn
            r == client[c].request
            w == wrote[c]
            path == server.path
            name == Filename(path)
            kind == disk[name]
<1>1. /\ server.pc = "stat" /\ server.pc \in Serving /\ server \in ServerStates
      /\ UNCHANGED <<disk, client, wrote, child>>
  BY DEF Locate, At, wires, Serving, IInv, Typed
<1>2. path \in Paths /\ name \in Paths /\ (path \in Dynamic => name = path)
  BY <1>1, DiskAssumption DEF ServerStates, Filename, IsStatic
<1>3. kind \in {Disk[name], "missing"} /\ Disk[name] \in FileKinds
  BY <1>2, DiskAssumption DEF Owed, Files
<1>4. ASSUME client[c].pc = "up"
      PROVE  w = << >> /\ AnswerFor(path) \subseteq Answers(r)
  <2>1. ServedAs(server, child, r, w) /\ Stage(server) = "stat"
    BY <1>1, <1>4 DEF Owed, Answering, Stage
  <2>. QED  BY <2>1 DEF ServedAs
<1>5. ASSUME NEW todo \in Stream, NEW then \in {"close", "open", "fork"},
             server' = [server EXCEPT !.pc = "write", !.path = name, !.todo = todo, !.then = then],
             then = "close" => todo \in AnswerFor(path),
             then = "open" => /\ todo = StaticHeader(name)
                              /\ StaticHeader(name) \o Body(name) \in AnswerFor(path),
             then = "fork" => /\ todo = DynamicHeader /\ name \in Dynamic /\ Disk[name] = "program"
                              /\ DynamicHeader \o Output(name) \in AnswerFor(path)
      PROVE  Owed'
  <2>. DEFINE sv == [server EXCEPT !.pc = "write", !.path = name, !.todo = todo, !.then = then]
  <2>1. server' = sv
    BY <1>5
  <2>2. sv.pc = "write" /\ sv.conn = c /\ sv.todo = todo /\ sv.then = then /\ sv.path = name
    BY <1>1 DEF ServerStates
  <2>. HIDE DEF sv
  <2>3. Fresh' /\ sv.pc \in Serving
    BY <1>1, <2>1, <2>2 DEF Owed, Fresh, Serving
  <2>4. ASSUME client[c].pc = "up" PROVE ServedAs(sv, child, r, w)
    <3>1. Stage(sv) = then
      BY <2>2 DEF Stage
    <3>2. w \o sv.todo = todo
      BY <1>4, <1>5, <2>2, <2>4, EmptyStream
    <3>3. CASE then = "close"
      BY <1>4, <1>5, <2>4, <3>1, <3>2, <3>3 DEF ServedAs, WholeAs
    <3>4. CASE then = "open"
      <4>1. StaticHeader(name) \o Body(name) \in Answers(r) /\ todo = StaticHeader(name)
        BY <1>4, <1>5, <2>4, <3>4
      <4>. QED  BY <2>2, <3>1, <3>2, <3>4, <4>1 DEF ServedAs
    <3>5. CASE then = "fork"
      <4>1. DynamicHeader \o Output(name) \in Answers(r) /\ todo = DynamicHeader
        BY <1>4, <1>5, <2>4, <3>5
      <4>. QED  BY <1>5, <2>2, <3>1, <3>2, <3>5, <4>1 DEF ServedAs
    <3>. QED  BY <1>5, <3>3, <3>4, <3>5
  <2>. QED  BY <1>1, <2>1, <2>2, <2>3, <2>4, ServerMoves
<1>6. /\ ErrorPage("404") \in Stream /\ ErrorPage("403") \in Stream
      /\ StaticHeader(name) \in Stream /\ DynamicHeader \in Stream
  BY <1>2, Texts DEF Words
<1>7. ErrorPage("404") \in AnswerFor(path)
  BY DEF AnswerFor
<1>8. IsStatic(path) \/ path \in Dynamic
  BY DEF IsStatic
<1>9. ASSUME kind # "missing"
      PROVE  /\ IsStatic(path) /\ kind = "forbidden" => ErrorPage("403") \in AnswerFor(path)
             /\ IsStatic(path) /\ kind # "forbidden" =>
                    StaticHeader(name) \o Body(name) \in AnswerFor(path)
             /\ ~IsStatic(path) /\ kind # "program" => ErrorPage("403") \in AnswerFor(path)
             /\ ~IsStatic(path) /\ kind = "program" =>
                    /\ DynamicHeader \o Output(name) \in AnswerFor(path)
                    /\ name \in Dynamic /\ Disk[name] = "program"
  <2>1. Disk[name] = kind /\ kind \in {"page", "empty", "program", "forbidden"}
    BY <1>3, <1>9 DEF FileKinds
  <2>. HIDE DEF kind
  <2>. QED  BY <1>2, <1>8, <1>9, <2>1 DEF AnswerFor
<1>. HIDE DEF name, kind
<1>. QED  BY <1>5, <1>6, <1>7, <1>9 DEF Locate, name, kind

(* It writes the next part of what it has to write. *)
LEMMA WriteOwed ==
    ASSUME IInv, Owed, Write
    PROVE  Owed'
<1>. DEFINE c == server.conn
            r == client[c].request
            w == wrote[c]
            todo == server.todo
            then == server.then
<1>1. /\ server.pc = "write" /\ server.pc \in Serving /\ server \in ServerStates
      /\ UNCHANGED <<disk, child>> /\ todo \in Stream /\ then \in {"close", "open", "fork"}
      /\ c \in Clients /\ w \in Stream /\ down[c] \in Stream /\ wrote \in [Clients -> Stream]
  BY ClientType DEF Write, At, Serving, IInv, Typed, Busy, ServerStates
<1>2. ASSUME NEW k \in 0 .. Len(todo), server' = Wrote(k), UNCHANGED client,
             \A d \in Clients \ {c} : wrote'[d] = wrote[d],
             client[c].pc = "up" => wrote'[c] = w \o First(k, todo)
      PROVE  Owed'
  <2>1. /\ First(k, todo) \in Stream /\ Rest(k, todo) \in Stream
        /\ First(k, todo) \o Rest(k, todo) = todo /\ Rest(Len(todo), todo) = << >>
    BY <1>1, Cut, Joined, EmptyPart DEF Stream
  <2>2. PICK sv : sv = server'
    OBVIOUS
  <2>3. /\ sv.conn = c /\ sv.path = server.path /\ sv.then = then /\ sv.todo = Rest(k, todo)
        /\ sv.pc = "write" \/ (sv.pc = then /\ sv.todo = << >>)
    BY <1>1, <1>2, <2>1, <2>2 DEF Wrote, ServerStates
  <2>4. Stage(sv) = then /\ Stage(server) = then
    BY <1>1, <2>3 DEF Stage
  <2>5. Fresh' /\ sv.pc \in Serving
    BY <1>1, <2>2, <2>3 DEF Owed, Fresh, Serving
  <2>6. ASSUME client[c].pc = "up" PROVE ServedAs(sv, child, r, w \o First(k, todo))
    <3>1. ServedAs(server, child, r, w)
      BY <1>1, <2>6 DEF Owed, Answering
    <3>2. (w \o First(k, todo)) \o sv.todo = w \o todo
      <4>1. (w \o First(k, todo)) \o Rest(k, todo) = w \o (First(k, todo) \o Rest(k, todo))
        BY <1>1, <2>1, Streams, Zenon
      <4>. QED  BY <2>1, <2>3, <4>1
    <3>. HIDE DEF r, w
    <3>3. CASE then = "close"
      BY <2>4, <3>1, <3>2, <3>3 DEF ServedAs
    <3>4. CASE then = "open"
      BY <2>3, <2>4, <3>1, <3>2, <3>4 DEF ServedAs
    <3>5. CASE then = "fork"
      BY <2>3, <2>4, <3>1, <3>2, <3>5 DEF ServedAs
    <3>. QED  BY <1>1, <3>3, <3>4, <3>5
  <2>. QED  BY <1>1, <1>2, <2>2, <2>3, <2>5, <2>6, ServerMoves
<1>3. ASSUME NEW k \in Accepts(todo, down[c]), server' = Wrote(k), UNCHANGED client,
             wrote' = [wrote EXCEPT ![c] = w \o First(k, todo)]
      PROVE  Owed'
  <2>1. k \in 0 .. Len(todo)
    BY <1>1, Accepted
  <2>2. wrote'[c] = w \o First(k, todo) /\ \A d \in Clients \ {c} : wrote'[d] = wrote[d]
    BY <1>1, <1>3
  <2>. QED  BY <1>2, <1>3, <2>1, <2>2
<1>4. ASSUME Left(c), server' = Wrote(Len(todo)), UNCHANGED <<client, wrote>> PROVE Owed'
  <2>1. Len(todo) \in 0 .. Len(todo) /\ client[c].pc # "up"
    BY <1>1, <1>4, EmptyStream DEF Left
  <2>. QED  BY <1>2, <1>4, <2>1
<1>5. ASSUME Left(c), Dies, UNCHANGED wrote PROVE Owed'
  BY <1>1, <1>5, DiesOwed DEF Left
<1>. QED  BY <1>3, <1>4, <1>5 DEF Write

(* It opens the file, or dies with the head of the answer written. *)
LEMMA OpenOwed ==
    ASSUME IInv, Owed, Open
    PROVE  Owed'
<1>. DEFINE c == server.conn
            r == client[c].request
            w == wrote[c]
            path == server.path
<1>1. /\ server.pc = "open" /\ server.pc \in Serving /\ server \in ServerStates /\ path \in Paths
      /\ UNCHANGED <<disk, child, wrote>> /\ server.todo = << >> /\ c \in Clients /\ w \in Stream
  BY ClientType DEF Open, At, wires, Serving, IInv, Typed, Busy, Owed, Fresh, ServerStates
<1>2. ASSUME client[c].pc = "up"
      PROVE  w = StaticHeader(path) /\ w \o Body(path) \in Answers(r)
  <2>1. ServedAs(server, child, r, w) /\ Stage(server) = "open"
    BY <1>1, <1>2 DEF Owed, Answering, Stage
  <2>2. w \o << >> = w
    BY <1>1, EmptyStream
  <2>. QED  BY <1>1, <2>1, <2>2 DEF ServedAs
<1>3. ASSUME server' = [server EXCEPT !.pc = "write", !.todo = Body(path), !.then = "close"],
             UNCHANGED client
      PROVE  Owed'
  <2>. DEFINE body == Body(path)
              sv == [server EXCEPT !.pc = "write", !.todo = body, !.then = "close"]
  <2>1. server' = sv
    BY <1>3
  <2>. HIDE DEF body
  <2>2. sv.pc = "write" /\ sv.conn = c /\ sv.todo = body /\ sv.then = "close"
    BY <1>1 DEF ServerStates
  <2>. HIDE DEF sv
  <2>3. Fresh' /\ sv.pc \in Serving /\ Stage(sv) = "close"
    BY <1>1, <2>1, <2>2 DEF Owed, Fresh, Serving, Stage
  <2>4. ASSUME client[c].pc = "up" PROVE ServedAs(sv, child, r, w)
    BY <1>2, <2>2, <2>3, <2>4 DEF ServedAs, WholeAs, body
  <2>. QED  BY <1>1, <1>3, <2>1, <2>2, <2>3, <2>4, ServerMoves
<1>4. ASSUME Dies PROVE Owed'
  <2>1. Body(path) \in Stream
    BY <1>1, Texts
  <2>2. IsPrefix(w, w \o Body(path))
    BY <1>1, <2>1, Begins
  <2>. QED  BY <1>1, <1>2, <1>4, <2>2, DiesOwed
<1>. QED  BY <1>3, <1>4 DEF Open

(* It starts the CGI program, the program writes and ends, and the server waits
   for it. *)
LEMMA ChildOwed ==
    ASSUME IInv, Owed, Fork \/ ChildWrites \/ ChildExits \/ Wait
    PROVE  Owed'
<1>. DEFINE c == server.conn
            r == client[c].request
            w == wrote[c]
            path == server.path
            Whole == DynamicHeader \o Output(path)
<1>1. /\ server \in ServerStates /\ path \in Paths /\ child.todo \in Stream
      /\ child \in [pc : {"none", "runs", "zombie"}, todo : Stream]
      /\ server.pc \in {"fork", "wait"} /\ server.pc \in Serving /\ server.todo = << >>
      /\ UNCHANGED <<disk, client, srio>>
  BY DEF Fork, ChildWrites, ChildExits, Wait, At, wires, Serving, IInv, Typed, Busy, ServerStates,
         Owed, Fresh
<1>2. c \in Clients /\ w \in Stream /\ down[c] \in Stream /\ wrote \in [Clients -> Stream]
  BY <1>1, ClientType DEF IInv, Typed, Busy
<1>3. ASSUME client[c].pc = "up"
      PROVE  /\ path \in Dynamic /\ Disk[path] = "program" /\ Whole \in Answers(r)
             /\ server.pc = "fork" => w = DynamicHeader
             /\ server.pc = "wait" => w \o child.todo = Whole
                                      \/ (Removed /\ IsPrefix(DynamicHeader, w))
  <2>1. ServedAs(server, child, r, w) /\ Stage(server) = server.pc
    BY <1>1, <1>3 DEF Owed, Answering, Stage
  <2>2. w \o << >> = w
    BY <1>2, EmptyStream
  <2>. QED  BY <1>1, <2>1, <2>2 DEF ServedAs
<1>. HIDE DEF Whole
<1>4. ASSUME NEW ch, child' = ch, ch.pc = "zombie" => ch.todo = << >>,
             server'.pc = "wait", server'.conn = c, server'.path = path, server'.todo = << >>,
             \A d \in Clients \ {c} : wrote'[d] = wrote[d],
             client[c].pc = "up" => \/ wrote'[c] \o ch.todo = Whole
                                    \/ Removed /\ IsPrefix(DynamicHeader, wrote'[c])
      PROVE  Owed'
  <2>1. Fresh' /\ server'.pc \in Serving
    BY <1>4 DEF Fresh, Serving
  <2>2. ASSUME client[c].pc = "up" PROVE ServedAs(server', ch, r, wrote'[c])
    <3>1. Stage(server') = "wait"
      BY <1>4 DEF Stage
    <3>. QED  BY <1>3, <1>4, <2>2, <3>1 DEF ServedAs, Whole
  <2>. QED  BY <1>1, <1>4, <2>1, <2>2, ServerMoves
<1>5. CASE Fork
  <2>1. server.pc = "fork" /\ server' = [server EXCEPT !.pc = "wait"] /\ UNCHANGED wrote
    BY <1>5 DEF Fork, At, GoTo, wires
  <2>2. PICK todo \in IF disk[path] = "program" THEN {Output(path)} ELSE {<< >>, <<"log">>} :
            child' = [pc |-> "runs", todo |-> todo]
    BY <1>5 DEF Fork
  <2>3. /\ server'.pc = "wait" /\ server'.conn = c /\ server'.path = path
        /\ server'.todo = << >>
    BY <1>1, <2>1 DEF ServerStates
  <2>4. ASSUME client[c].pc = "up"
        PROVE  w \o todo = Whole \/ (Removed /\ IsPrefix(DynamicHeader, w))
    <3>1. w = DynamicHeader /\ path \in Dynamic /\ Disk[path] = "program"
      BY <1>3, <2>1, <2>4
    <3>2. CASE disk[path] = "program"
      BY <2>2, <3>1, <3>2 DEF Whole
    <3>3. CASE disk[path] # "program"
      <4>1. Removed
        BY <1>1, <3>1, <3>3 DEF Owed, Files, Removed
      <4>2. IsPrefix(w, w \o << >>) /\ w \o << >> = w
        BY <1>2, EmptyStream, Begins
      <4>. QED  BY <3>1, <4>1, <4>2
    <3>. QED  BY <3>2, <3>3
  <2>5. child'.pc = "runs" /\ child'.todo = todo
    BY <2>2
  <2>. QED  BY <1>4, <2>1, <2>3, <2>4, <2>5
<1>6. CASE ChildWrites
  <2>1. /\ child.pc = "runs" /\ server.pc = "wait" /\ UNCHANGED server
    BY <1>6 DEF ChildWrites, IInv, Busy
  <2>2. ASSUME NEW k \in Accepts(child.todo, down[c]),
               wrote' = [wrote EXCEPT ![c] = w \o First(k, child.todo)],
               child' = [child EXCEPT !.todo = Rest(k, child.todo)]
        PROVE  Owed'
    <3>. DEFINE x == First(k, child.todo)
                y == Rest(k, child.todo)
    <3>1. x \in Stream /\ y \in Stream /\ x \o y = child.todo
      BY <1>1, <1>2, Accepted
    <3>2. child'.pc = "runs" /\ child'.todo = y
      BY <1>1, <2>1, <2>2
    <3>3. wrote'[c] = w \o x /\ \A d \in Clients \ {c} : wrote'[d] = wrote[d]
      BY <1>2, <2>2
    <3>. HIDE DEF x, y
    <3>4. (w \o x) \o y = w \o (x \o y)
      BY <1>2, <3>1, Streams, Zenon
    <3>5. DynamicHeader \in Stream
      BY Texts
    <3>6. IsPrefix(DynamicHeader, w) => IsPrefix(DynamicHeader, w \o x)
      BY <1>2, <3>1, <3>5, Begins
    <3>7. client[c].pc = "up" => \/ wrote'[c] \o child'.todo = Whole
                                 \/ Removed /\ IsPrefix(DynamicHeader, wrote'[c])
      BY <1>3, <2>1, <3>1, <3>2, <3>3, <3>4, <3>6
    <3>. QED  BY <1>1, <1>4, <2>1, <3>2, <3>3, <3>7
  <2>3. ASSUME Left(c), child' = [child EXCEPT !.todo = << >>], UNCHANGED wrote
        PROVE  Owed'
    <3>1. child'.todo = << >> /\ client[c].pc # "up"
      BY <1>1, <2>3 DEF Left
    <3>. QED  BY <1>1, <1>4, <2>1, <2>3, <3>1
  <2>. QED  BY <1>6, <2>2, <2>3 DEF ChildWrites
<1>7. CASE ChildExits
  <2>1. /\ child.todo = << >> /\ child' = [child EXCEPT !.pc = "zombie"] /\ server.pc = "wait"
        /\ UNCHANGED <<server, wrote>>
    BY <1>7 DEF ChildExits, wires, IInv, Busy
  <2>2. child'.todo = child.todo
    BY <1>1, <2>1
  <2>. QED  BY <1>1, <1>3, <1>4, <2>1, <2>2
<1>8. CASE Wait
  <2>1. /\ child.pc = "zombie" /\ child' = [child EXCEPT !.pc = "none"] /\ server.pc = "wait"
        /\ server' = [server EXCEPT !.pc = "close"] /\ UNCHANGED wrote
    BY <1>8 DEF Wait, At, GoTo, wires
  <2>2. child.todo = << >> /\ child'.pc = "none"
    BY <1>1, <2>1 DEF Owed, Fresh
  <2>3. /\ server'.pc = "close" /\ server'.conn = c /\ server'.todo = << >>
    BY <1>1, <2>1 DEF ServerStates
  <2>4. Fresh' /\ server'.pc \in Serving
    BY <2>2, <2>3 DEF Fresh, Serving
  <2>5. ASSUME client[c].pc = "up" PROVE ServedAs(server', child', r, wrote'[c])
    <3>1. Stage(server') = "close"
      BY <2>3 DEF Stage
    <3>2. w \o << >> = w
      BY <1>2, EmptyStream
    <3>3. WholeAs(r, w)
      BY <1>3, <2>1, <2>2, <2>5, <3>2 DEF WholeAs
    <3>. QED  BY <2>1, <2>3, <3>1, <3>2, <3>3 DEF ServedAs
  <2>. QED  BY <1>1, <2>1, <2>3, <2>4, <2>5, ServerMoves
<1>. QED  BY <1>5, <1>6, <1>7, <1>8

-----------------------------------------------------------------------------
(* The theorem about the answers *)

(* Nothing moves but perhaps a file, which may go. *)
LEMMA FilesOwed ==
    ASSUME IInv, Owed, UNCHANGED <<client, srio, wrote, server, child>>,
           \/ UNCHANGED disk
           \/ \E p : disk = Disk /\ disk' = [disk EXCEPT ![p] = "missing"]
    PROVE  Owed'
<1>1. Files' /\ (Removed => Removed')
  <2>1. CASE UNCHANGED disk
    BY <2>1, FilesStay DEF Owed
  <2>2. ASSUME NEW p, disk = Disk, disk' = [disk EXCEPT ![p] = "missing"]
        PROVE  Files' /\ (Removed => Removed')
    <3>1. \A q \in Paths : disk'[q] \in {Disk[q], "missing"} /\ (disk[q] = "missing" => disk'[q] = "missing")
      BY <2>2, DiskAssumption
    <3>. QED  BY <3>1, DiskAssumption DEF Files, Removed
  <2>. QED  BY <2>1, <2>2
<1>2. OneServed' /\ Fresh'
  BY DEF Owed, OneServed, Fresh
<1>3. AllAnswered'
  <2>. SUFFICES ASSUME NEW d \in Clients PROVE AnswerAs(client[d], wrote[d])'
    BY DEF AllAnswered
  <2>1. PICK cl, w : cl = client[d] /\ w = wrote[d]
    OBVIOUS
  <2>2. AnswerAs(cl, w)'
    BY <1>1, <2>1, AnswerStays DEF Owed, AllAnswered
  <2>. QED  BY <2>1, <2>2 DEF AnswerAs, EndedAs, WholeAs
<1>4. Answering'
  <2>. SUFFICES ASSUME server.pc \in Serving, client[server.conn].pc = "up"
                PROVE  ServedAs(server, child, client[server.conn].request, wrote[server.conn])'
    BY DEF Answering
  <2>1. PICK sv, ch, r, w : sv = server /\ ch = child /\ r = client[server.conn].request
                            /\ w = wrote[server.conn]
    OBVIOUS
  <2>2. ServedAs(sv, ch, r, w)
    BY <2>1 DEF Owed, Answering
  <2>3. ServedAs(sv, ch, r, w)'
    BY <1>1, <2>2, ServedStays
  <2>. QED  BY <2>1, <2>3 DEF ServedAs, WholeAs, Stage
<1>. QED  BY <1>1, <1>2, <1>3, <1>4 DEF Owed

(* At the start nothing is owed to anybody. *)
LEMMA OwedInit ==
    ASSUME Init
    PROVE  Owed
<1>. DEFINE cl == [pc |-> "idle", link |-> "none", request |-> NoRequest, todo |-> << >>,
                   seen |-> << >>, unread |-> FALSE]
<1>1. /\ disk = Disk /\ client = [c \in Clients |-> cl] /\ wrote = [c \in Clients |-> << >>]
      /\ server = [NoServer EXCEPT !.pc = "start"] /\ child = [pc |-> "none", todo |-> << >>]
  BY DEF Init
<1>2. cl.pc = "idle" /\ cl.link = "none"
  OBVIOUS
<1>. HIDE DEF cl
<1>3. server.pc = "start" /\ server.todo = << >>
  BY <1>1, NoServerType DEF ServerStates
<1>4. Files /\ OneServed /\ Fresh /\ Answering
  BY <1>1, <1>2, <1>3 DEF Files, OneServed, Fresh, Answering, Serving
<1>5. AllAnswered
  BY <1>1, <1>2 DEF AllAnswered, AnswerAs
<1>. QED  BY <1>4, <1>5 DEF Owed

(* No step leaves a client with less than it is owed. *)
LEMMA OwedStep ==
    ASSUME IInv, Owed, [Next]_vars
    PROVE  Owed'
<1>1. CASE UNCHANGED vars
  BY <1>1, FilesOwed DEF vars
<1>2. ASSUME NEW p, Unlink(p) PROVE Owed'
  BY <1>2, FilesOwed DEF Unlink, wires
<1>3. CASE ServerStep
  BY <1>3, TurnsOwed, ReadOwed, RequestOwed, HeadersOwed, LocateOwed, WriteOwed, OpenOwed,
     ChildOwed DEF ServerStep
<1>4. CASE ChildStep
  BY <1>4, ChildOwed DEF ChildStep
<1>5. ASSUME NEW c \in Clients, Connect(c) \/ Transfers(c) \/ Reset(c) \/ Leave(c)
      PROVE  Owed'
  BY <1>5, ClientsOwed
<1>. QED  BY <1>1, <1>2, <1>3, <1>4, <1>5 DEF Next

(* A client that has read to the end has one whole answer of tiny.c to its own
   request, whatever the other clients do, however the writes were cut up and
   whichever files go meanwhile; less only if the server died (unix_error, SIGPIPE)
   or the CGI program was removed between stat and execve. *)
THEOREM AnswersWhole == Spec => []AnswerIntact
<1>1. Init => IInv /\ Owed
  BY IInvInit, OwedInit
<1>2. IInv /\ Owed /\ [Next]_vars => (IInv /\ Owed)'
  BY IInvStep, OwedStep
<1>3. IInv /\ Owed => AnswerIntact
  <2>. SUFFICES ASSUME Owed, NEW c \in Clients, client[c].pc = "done"
                PROVE  \/ client[c].seen \in Answers(client[c].request)
                       \/ /\ server.pc = "dead"
                          /\ \E answer \in Answers(client[c].request) : IsPrefix(client[c].seen, answer)
                       \/ /\ \E p \in Dynamic : Disk[p] = "program" /\ disk[p] = "missing"
                          /\ IsPrefix(DynamicHeader, client[c].seen)
    BY DEF AnswerIntact
  <2>1. AnswerAs(client[c], wrote[c])
    BY DEF Owed, AllAnswered
  <2>2. client[c].seen = wrote[c] /\ EndedAs(client[c].request, wrote[c])
    BY <2>1 DEF AnswerAs
  <2>. QED  BY <2>2 DEF EndedAs, WholeAs, Removed
<1>. QED  BY <1>1, <1>2, <1>3, PTL DEF Spec

-----------------------------------------------------------------------------
(* All of an ordinary request is read before it is answered: the lines of it, and
   how the calls of the server cut them up. *)

(* The elements of two streams put together. *)
LEMMA JoinedStreams ==
    ASSUME NEW p \in Stream, NEW q \in Stream, NEW t, t = p \o q
    PROVE  /\ t \in Stream /\ Len(t) = Len(p) + Len(q) /\ Len(p) \in Nat /\ Len(q) \in Nat
           /\ Len(p) <= Len(t) /\ Len(t) \in Nat
           /\ \A j \in 1 .. Len(p) : t[j] = p[j]
           /\ \A j \in 1 .. Len(q) : t[Len(p) + j] = q[j]
           /\ \A j \in 1 .. Len(q) : Len(p) + j \in 1 .. Len(t)
<1>1. p \in Seq(Element) /\ q \in Seq(Element)
  BY DEF Stream
<1>2. /\ p \o q \in Seq(Element) /\ Len(p \o q) = Len(p) + Len(q) /\ Len(p) \in Nat /\ Len(q) \in Nat
      /\ \A j \in 1 .. Len(p) : (p \o q)[j] = p[j]
      /\ \A j \in 1 .. Len(q) : (p \o q)[Len(p) + j] = q[j]
  BY <1>1, JoinedElements
<1>3. /\ t \in Seq(Element) /\ Len(t) = Len(p) + Len(q) /\ Len(p) \in Nat /\ Len(q) \in Nat
      /\ \A j \in 1 .. Len(p) : t[j] = p[j]
      /\ \A j \in 1 .. Len(q) : t[Len(p) + j] = q[j]
  BY <1>2, Zenon
<1>4. t \in Stream
  BY <1>3 DEF Stream
<1>. QED  BY <1>3, <1>4

(* Streams put one behind the other: where each of them ends, and what is there. *)
LEMMA FlattenParts ==
    ASSUME NEW qs \in Seq(Stream)
    PROVE  \E e \in [0 .. Len(qs) -> Nat] :
               /\ e[0] = 0 /\ e[Len(qs)] = Len(FlattenSeq(qs))
               /\ \A i \in 1 .. Len(qs) :
                      /\ e[i] = e[i - 1] + Len(qs[i]) /\ e[i] <= Len(FlattenSeq(qs))
                      /\ \A j \in 1 .. Len(qs[i]) : FlattenSeq(qs)[e[i - 1] + j] = qs[i][j]
<1>. DEFINE n == Len(qs)
<1>1. n \in Nat /\ \A i \in 1 .. n : qs[i] \in Stream /\ Len(qs[i]) \in Nat
  BY LenProperties, ElementOfSeq, EmptyStream
<1>2. CASE n = 0
  <2>1. FlattenSeq(qs) = << >> /\ Len(<< >>) = 0
    BY <1>2, EmptySeq DEF FlattenSeq
  <2>. DEFINE e == [i \in 0 .. Len(qs) |-> 0]
  <2>2. e \in [0 .. Len(qs) -> Nat] /\ e[0] = 0 /\ 1 .. Len(qs) = {}
    BY <1>2
  <2>. QED  BY <1>2, <2>1, <2>2
<1>3. CASE n # 0
  <2>. DEFINE f == CHOOSE f : Flattens(f, qs, n)
  <2>1. FlattenSeq(qs) = f[n]
    BY <1>3 DEF FlattenSeq, Flattens
  <2>2. Flattens(f, qs, n)
    BY <1>1, <1>3, FlattensExists
  <2>. HIDE DEF f, n
  <2>3. \A i \in 1 .. n : f[i] = IF i = 1 THEN qs[i] ELSE f[i - 1] \o qs[i]
    BY <2>2 DEF Flattens
  <2>. DEFINE Kept(m) ==
                  /\ f[m] \in Stream
                  /\ \A i \in 1 .. m : /\ Len(f[i]) \in Nat /\ Len(f[i]) <= Len(f[m])
                                       /\ \A j \in 1 .. Len(f[i]) : f[m][j] = f[i][j]
              Bad == {m \in 1 .. n : ~Kept(m)}
  <2>4. ASSUME Bad # {} PROVE FALSE
    <3>1. Bad \in SUBSET Nat
      BY <1>1
    <3>2. PICK m \in Bad : \A k \in Bad : m <= k
      BY <2>4, <3>1, LeastNatural
    <3>3. m \in 1 .. n /\ qs[m] \in Stream /\ ~Kept(m)
      BY <1>1, <3>2
    <3>4. CASE m = 1
      <4>1. f[1] \in Stream
        BY <2>3, <3>3, <3>4
      <4>2. Len(f[1]) \in Nat
        BY <4>1, EmptyStream
      <4>. QED  BY <3>3, <3>4, <4>1, <4>2
    <3>5. CASE m # 1
      <4>1. m - 1 \in 1 .. n /\ m - 1 \notin Bad /\ 1 .. m = (1 .. m - 1) \cup {m}
        BY <1>1, <3>2, <3>3, <3>5
      <4>2. Kept(m - 1) /\ m - 1 \in 1 .. m - 1
        BY <1>1, <3>3, <3>5, <4>1
      <4>3. f[m] = f[m - 1] \o qs[m]
        BY <2>3, <3>3, <3>5
      <4>4. PICK p, q, t : p = f[m - 1] /\ q = qs[m] /\ t = f[m]
        OBVIOUS
      <4>5. p \in Stream /\ q \in Stream /\ t = p \o q
        BY <3>3, <4>2, <4>3, <4>4
      <4>9. /\ t \in Stream /\ Len(p) <= Len(t) /\ Len(t) \in Nat /\ Len(p) \in Nat
        BY <4>5, JoinedStreams
      <4>10. \A j \in 1 .. Len(p) : t[j] = p[j]
        BY <4>5, JoinedStreams
      <4>6. /\ t \in Stream /\ Len(p) <= Len(t) /\ Len(t) \in Nat /\ Len(p) \in Nat
            /\ \A j \in 1 .. Len(p) : t[j] = p[j]
        BY <4>9, <4>10
      <4>8. ASSUME NEW i \in 1 .. m - 1
            PROVE  /\ Len(f[i]) \in Nat /\ Len(f[i]) <= Len(t)
                   /\ \A j \in 1 .. Len(f[i]) : t[j] = f[i][j]
        <5>1. PICK x : x = f[i]
          OBVIOUS
        <5>2. /\ Len(x) \in Nat /\ Len(x) <= Len(p)
              /\ \A j \in 1 .. Len(x) : p[j] = x[j]
          BY <4>2, <4>4, <5>1
        <5>3. \A j \in 1 .. Len(x) : j \in 1 .. Len(p)
          BY <4>6, <5>2
        <5>4. Len(x) <= Len(t) /\ \A j \in 1 .. Len(x) : t[j] = x[j]
          BY <4>6, <5>2, <5>3
        <5>. QED  BY <5>1, <5>2, <5>4
      <4>7. Kept(m)
        BY <4>1, <4>4, <4>6, <4>8
      <4>. QED  BY <3>3, <4>7
    <3>. QED  BY <3>4, <3>5
  <2>5. n \in 1 .. n /\ 0 \in 0 .. n
    BY <1>1, <1>3
  <2>6. \A m \in 1 .. n : Kept(m)
    BY <2>4
  <2>. DEFINE e == [i \in 0 .. n |-> IF i = 0 THEN 0 ELSE Len(f[i])]
              t == f[n]
  <2>7. /\ t \in Stream
        /\ \A i \in 1 .. n : /\ Len(f[i]) \in Nat /\ Len(f[i]) <= Len(t) /\ f[i] \in Stream
                             /\ \A j \in 1 .. Len(f[i]) : t[j] = f[i][j]
    BY <2>5, <2>6
  <2>. HIDE DEF Kept, Bad, t
  <2>8. /\ e \in [0 .. n -> Nat] /\ e[0] = 0 /\ e[n] = Len(t)
        /\ \A i \in 1 .. n : e[i] = Len(f[i]) /\ i \in 0 .. n
    BY <1>1, <1>3, <2>5, <2>7 DEF t
  <2>. HIDE DEF e
  <2>9. ASSUME NEW i \in 1 .. n
        PROVE  /\ e[i] = e[i - 1] + Len(qs[i]) /\ e[i] <= Len(t)
               /\ \A j \in 1 .. Len(qs[i]) : t[e[i - 1] + j] = qs[i][j]
    <3>1. e[i] = Len(f[i]) /\ Len(f[i]) \in Nat /\ Len(f[i]) <= Len(t) /\ Len(qs[i]) \in Nat
          /\ qs[i] \in Stream
      BY <1>1, <2>7, <2>8
    <3>2. CASE i = 1
      <4>1. f[i] = qs[i] /\ e[i - 1] = 0
        BY <2>3, <2>8, <3>2
      <4>2. \A j \in 1 .. Len(qs[i]) : 0 + j = j /\ t[j] = qs[i][j]
        BY <2>7, <4>1
      <4>. QED  BY <3>1, <4>1, <4>2
    <3>3. CASE i # 1
      <4>1. i - 1 \in 1 .. n
        BY <1>1, <3>3
      <4>2. PICK p, q, x, k : p = f[i - 1] /\ q = qs[i] /\ x = f[i] /\ k = e[i - 1]
        OBVIOUS
      <4>3. p \in Stream /\ q \in Stream /\ x = p \o q /\ k = Len(p)
        BY <2>3, <2>7, <2>8, <3>1, <3>3, <4>1, <4>2
      <4>4. /\ Len(x) = k + Len(q) /\ k \in Nat
            /\ \A j \in 1 .. Len(q) : x[k + j] = q[j]
            /\ \A j \in 1 .. Len(q) : k + j \in 1 .. Len(x)
        BY <4>3, JoinedStreams, Zenon
      <4>5. \A j \in 1 .. Len(x) : t[j] = x[j]
        BY <2>7, <4>2
      <4>6. \A j \in 1 .. Len(q) : t[k + j] = q[j]
        BY <4>4, <4>5
      <4>. QED  BY <3>1, <4>2, <4>4, <4>6
    <3>. QED  BY <3>2, <3>3
  <2>10. FlattenSeq(qs) = t
    BY <2>1 DEF t
  <2>. HIDE DEF t
  <2>. QED  BY <2>8, <2>9, <2>10 DEF n
<1>. QED  BY <1>2, <1>3

(* The ends of the lines in what a client sends for an ordinary request: n header
   lines behind the request line, and the empty line. *)
LEMMA ScriptLines ==
    ASSUME NEW r \in AnyRequest, r.method = "GET"
    PROVE  \E b \in [0 .. Len(r.headers) -> Nat] :
               /\ Len(r.headers) \in Nat /\ r.headers \in Seq(Seq(STRING))
               /\ DOMAIN r.headers = 1 .. Len(r.headers)
               /\ b[0] = 2 /\ Script(r)[2] = NL /\ Script(r)[1] # NL
               /\ Len(Script(r)) = b[Len(r.headers)] + 1
               /\ \A i \in 1 .. Len(r.headers) :
                      /\ Len(r.headers[i]) \in Nat
                      /\ b[i] = b[i - 1] + Len(r.headers[i]) + 1 /\ Script(r)[b[i]] = NL
                      /\ \A x \in b[i - 1] + 1 .. b[i] - 1 : Script(r)[x] # NL
<1>. DEFINE h == r.headers
            n == Len(h)
            lines == [i \in DOMAIN h |-> h[i] \o <<NL>>]
            l == RequestLine(r)
            f == FlattenSeq(lines)
            q == Script(r)
<1>1. <<NL>> \in Stream /\ <<r.method, NL>> \in Stream
  BY DEF Stream, Element, Words, AnyRequest
<1>2. h \in Seq(Seq(STRING))
  BY DEF AnyRequest
<1>3. DOMAIN h = 1 .. n /\ n \in Nat
  BY <1>2, LenProperties
<1>4. ASSUME NEW i \in 1 .. n
      PROVE  /\ h[i] \in Stream /\ h[i] \o <<NL>> \in Stream /\ Len(h[i]) \in Nat
             /\ \A j \in 1 .. Len(h[i]) : h[i][j] # NL
  <2>1. h[i] \in Seq(STRING)
    BY <1>2, <1>3, ElementOfSeq
  <2>2. h[i] \in Stream
    BY <2>1, SeqDef DEF Stream, Element
  <2>3. Len(h[i]) \in Nat
    BY <2>1, LenProperties
  <2>4. ASSUME NEW j \in 1 .. Len(h[i]) PROVE h[i][j] # NL
    <3>1. h[i][j] \in STRING
      BY <2>1, ElementOfSeq
    <3>. QED  BY <3>1, RequestAssumption
  <2>. QED  BY <1>1, <2>2, <2>3, <2>4, Put
<1>5. lines \in Seq(Stream) /\ Len(lines) = n /\ \A i \in 1 .. n : lines[i] = h[i] \o <<NL>>
  BY <1>3, <1>4
<1>. HIDE DEF lines
<1>6. f \in Stream
  BY <1>5, FlattenStream
<1>7. l = <<"GET", NL>> /\ l \in Stream /\ Len(l) = 2
  BY <1>1 DEF RequestLine
<1>8. q = (l \o f) \o <<NL>>
  BY DEF Script, lines
<1>9. PICK e \in [0 .. n -> Nat] :
               /\ e[0] = 0 /\ e[n] = Len(f)
               /\ \A i \in 1 .. n :
                      /\ e[i] = e[i - 1] + Len(lines[i]) /\ e[i] <= Len(f)
                      /\ \A j \in 1 .. Len(lines[i]) : f[e[i - 1] + j] = lines[i][j]
  BY <1>5, FlattenParts, SMTT(20)
<1>. HIDE DEF l, f, q, n
<1>10. PICK t : t = l \o f
  OBVIOUS
<1>11. t \in Stream /\ Len(t) = 2 + Len(f) /\ Len(f) \in Nat
  <2>1. t \in Stream /\ Len(t) = Len(l) + Len(f) /\ Len(f) \in Nat
    BY <1>6, <1>7, <1>10, JoinedStreams, Zenon
  <2>. QED  BY <1>7, <2>1
<1>12. \A j \in 1 .. Len(f) : t[2 + j] = f[j]
  BY <1>6, <1>7, <1>10, JoinedStreams
<1>13. q = t \o <<NL>> /\ Len(<<NL>>) = 1
  BY <1>8, <1>10
<1>14. Len(q) = Len(t) + 1
  BY <1>1, <1>11, <1>13, JoinedStreams
<1>15. \A j \in 1 .. Len(t) : q[j] = t[j]
  BY <1>1, <1>11, <1>13, JoinedStreams
<1>16. \A j \in 1 .. Len(f) : q[2 + j] = f[j]
  BY <1>11, <1>12, <1>15
<1>17. r \in AnyRequest /\ "GET" # NL
  <2>1. "GET" \in Methods
    BY DEF Methods
  <2>. QED  BY <2>1, RequestAssumption
<1>18. q[1] # NL /\ q[2] = NL
  BY <1>17, ScriptBegins DEF q
<1>. DEFINE b == [i \in 0 .. n |-> 2 + e[i]]
<1>19. /\ b \in [0 .. n -> Nat] /\ b[0] = 2 /\ b[n] = 2 + Len(f)
       /\ \A i \in 0 .. n : b[i] = 2 + e[i]
  BY <1>3, <1>9
<1>. HIDE DEF b
<1>20. Len(q) = b[n] + 1
  BY <1>11, <1>14, <1>19
<1>21. ASSUME NEW i \in 1 .. n
       PROVE  /\ Len(h[i]) \in Nat
              /\ b[i] = b[i - 1] + Len(h[i]) + 1 /\ q[b[i]] = NL
              /\ \A x \in b[i - 1] + 1 .. b[i] - 1 : q[x] # NL
  <2>1. i \in 0 .. n /\ i - 1 \in 0 .. n
    BY <1>3
  <2>2. PICK p, z, a, k : p = h[i] /\ z = lines[i] /\ a = e[i - 1] /\ k = Len(h[i])
    OBVIOUS
  <2>3. p \in Stream /\ z = p \o <<NL>> /\ a \in Nat /\ k \in Nat /\ k = Len(p)
    BY <1>4, <1>5, <1>9, <2>1, <2>2
  <2>4. Len(z) = k + 1
    BY <1>1, <1>13, <2>3, JoinedStreams
  <2>5. \A j \in 1 .. k : z[j] = p[j]
    BY <1>1, <2>3, JoinedStreams
  <2>6. z[k + 1] = NL
    <3>1. \A j \in 1 .. 1 : z[k + j] = <<NL>>[j]
      BY <1>1, <1>13, <2>3, JoinedStreams
    <3>. QED  BY <3>1
  <2>7. e[i] = a + k + 1 /\ e[i] <= Len(f) /\ \A j \in 1 .. k + 1 : f[a + j] = z[j]
    <3>1. /\ e[i] = e[i - 1] + Len(lines[i]) /\ e[i] <= Len(f)
          /\ \A j \in 1 .. Len(lines[i]) : f[e[i - 1] + j] = lines[i][j]
      BY <1>9
    <3>2. e[i] = a + Len(z) /\ \A j \in 1 .. Len(z) : f[a + j] = z[j]
      BY <2>2, <3>1, Zenon
    <3>3. 1 .. Len(z) = 1 .. k + 1 /\ a + Len(z) = a + (k + 1)
      BY <2>4
    <3>4. e[i] = a + (k + 1)
      BY <3>2, <3>3, Zenon
    <3>5. \A j \in 1 .. k + 1 : f[a + j] = z[j]
      BY <3>2, <3>3, Zenon
    <3>6. e[i] = a + k + 1
      BY <2>3, <3>4
    <3>. QED  BY <3>1, <3>5, <3>6, Zenon
  <2>8. b[i] = 2 + a + k + 1 /\ b[i - 1] = 2 + a
    <3>1. b[i] = 2 + e[i] /\ b[i - 1] = 2 + e[i - 1]
      BY <1>19, <2>1
    <3>2. b[i - 1] = 2 + a
      BY <2>2, <3>1, Zenon
    <3>. QED  BY <2>3, <2>7, <3>1, <3>2
  <2>9. \A j \in 1 .. k + 1 : q[(2 + a) + j] = z[j]
    <3>1. ASSUME NEW j \in 1 .. k + 1 PROVE q[(2 + a) + j] = z[j]
      <4>1. a + j \in 1 .. Len(f) /\ (2 + a) + j = 2 + (a + j)
        BY <1>11, <2>3, <2>7
      <4>. QED  BY <1>16, <2>7, <4>1
    <3>. QED  BY <3>1
  <2>10. q[b[i]] = NL
    <3>1. k + 1 \in 1 .. k + 1 /\ (2 + a) + (k + 1) = b[i]
      BY <2>3, <2>8
    <3>. QED  BY <2>6, <2>9, <3>1
  <2>11. ASSUME NEW x \in b[i - 1] + 1 .. b[i] - 1 PROVE q[x] # NL
    <3>1. x - (2 + a) \in 1 .. k /\ x - (2 + a) \in 1 .. k + 1 /\ (2 + a) + (x - (2 + a)) = x
      BY <2>3, <2>8
    <3>2. q[x] = p[x - (2 + a)]
      BY <2>5, <2>9, <3>1
    <3>. QED  BY <1>4, <2>2, <3>1, <3>2
  <2>. QED  BY <2>2, <2>3, <2>8, <2>10, <2>11
<1>. QED  BY <1>2, <1>3, <1>18, <1>19, <1>20, <1>21 DEF n, q

(* After t elements of request r the server is at the start of a line or, by whole
   buffers, inside it. *)
AtLine(r, t) ==
    \E s \in 2 .. t, m \in Nat :
        /\ t - s = m * (MaxLine - 1) /\ Script(r)[s] = NL
        /\ \A x \in s + 1 .. t : Script(r)[x] # NL

(* A multiple of a number leaves nothing. *)
LEMMA Multiple ==
    ASSUME NEW d \in Nat \ {0}, NEW m \in Nat
    PROVE  (m * d) % d = 0
OBVIOUS

(* An end of a line that comes first in what the server reads is the empty line
   that ends an ordinary request. *)
LEMMA EmptyLineEnds ==
    ASSUME NEW r \in AnyRequest, Ordinary(r), NEW t \in Nat, AtLine(r, t),
           t + 1 <= Len(Script(r)), Script(r)[t + 1] = NL
    PROVE  t + 1 = Len(Script(r))
<1>. DEFINE h == r.headers
            n == Len(h)
            q == Script(r)
<1>1. r.method = "GET" /\ \A i \in DOMAIN h : Len(h[i]) % (MaxLine - 1) # 0
  BY DEF Ordinary
<1>2. PICK b \in [0 .. n -> Nat] :
               /\ n \in Nat /\ DOMAIN h = 1 .. n /\ b[0] = 2 /\ Len(q) = b[n] + 1
               /\ \A i \in 1 .. n :
                      /\ Len(h[i]) \in Nat
                      /\ b[i] = b[i - 1] + Len(h[i]) + 1 /\ q[b[i]] = NL
                      /\ \A x \in b[i - 1] + 1 .. b[i] - 1 : q[x] # NL
  BY <1>1, ScriptLines
<1>3. PICK s \in 2 .. t, m \in Nat :
               /\ t - s = m * (MaxLine - 1) /\ q[s] = NL
               /\ \A x \in s + 1 .. t : q[x] # NL
  BY DEF AtLine
<1>. HIDE DEF n, q
<1>4. t + 1 <= Len(q) /\ q[t + 1] = NL
  BY DEF q
<1>. DEFINE Reached == {i \in 0 .. n : s <= b[i]}
<1>5. n \in Reached /\ Reached \in SUBSET Nat
  <2>1. n \in 0 .. n /\ b[n] \in Nat
    BY <1>2
  <2>2. s <= b[n]
    BY <1>2, <1>3, <1>4, <2>1
  <2>. QED  BY <2>1, <2>2
<1>6. PICK i \in Reached : \A k \in Reached : i <= k
  BY <1>5, LeastNatural
<1>7. i \in 0 .. n /\ s <= b[i] /\ b[i] \in Nat
  BY <1>6
<1>8. s = b[i]
  <2>1. CASE i = 0
    BY <1>2, <1>3, <1>7, <2>1
  <2>2. CASE i # 0
    <3>1. i \in 1 .. n /\ i - 1 \in 0 .. n /\ i - 1 \notin Reached
      BY <1>2, <1>6, <1>7, <2>2
    <3>2. b[i - 1] < s
      <4>1. b[i - 1] \in Nat /\ ~(s <= b[i - 1])
        BY <3>1
      <4>. QED  BY <1>3, <4>1
    <3>3. ASSUME s # b[i] PROVE FALSE
      <4>1. b[i - 1] \in Nat
        BY <3>1
      <4>2. s \in b[i - 1] + 1 .. b[i] - 1
        BY <1>3, <1>7, <3>2, <3>3, <4>1
      <4>. QED  BY <1>2, <1>3, <3>1, <4>2
    <3>. QED  BY <3>3
  <2>. QED  BY <2>1, <2>2
<1>9. CASE i = n
  BY <1>2, <1>3, <1>4, <1>7, <1>8, <1>9 DEF q
<1>10. CASE i # n
  <2>1. i + 1 \in 1 .. n /\ i + 1 \in 0 .. n /\ (i + 1) - 1 = i
    BY <1>2, <1>7, <1>10
  <2>2. PICK e, k : e = b[i + 1] /\ k = Len(h[i + 1])
    OBVIOUS
  <2>3. /\ e \in Nat /\ k \in Nat /\ e = s + k + 1 /\ q[e] = NL
        /\ \A x \in s + 1 .. e - 1 : q[x] # NL
    BY <1>2, <1>8, <2>1, <2>2
  <2>4. e > t
    <3>1. ASSUME ~(e > t) PROVE FALSE
      <4>1. e \in s + 1 .. t
        BY <1>3, <2>3, <3>1
      <4>. QED  BY <1>3, <2>3, <4>1
    <3>. QED  BY <3>1
  <2>5. t + 1 = e
    <3>1. ASSUME t + 1 # e PROVE FALSE
      <4>1. t + 1 \in s + 1 .. e - 1
        BY <1>3, <2>3, <2>4, <3>1
      <4>. QED  BY <1>4, <2>3, <4>1
    <3>. QED  BY <3>1
  <2>6. k = m * (MaxLine - 1) /\ MaxLine - 1 \in Nat \ {0}
    BY <1>3, <2>3, <2>5, DiskAssumption
  <2>7. k % (MaxLine - 1) = 0
    BY <2>6, Multiple
  <2>8. i + 1 \in DOMAIN h
    BY <1>2, <2>1
  <2>. QED  BY <1>1, <2>2, <2>7, <2>8
<1>. QED  BY <1>9, <1>10

(* What a call of the server returns is the next part of what the client sends:
   a full buffer, a line, or all there is of a client that has left. *)
LEMMA NextLine ==
    ASSUME IInv, server.pc \in {"request", "headers"}, Returned(srio), srio.n = MaxLine,
           NEW cl, cl = client[server.conn], NEW u, u = up[server.conn], NEW g, g = srio.got,
           NEW k, k = server.took, NEW q, q = Script(cl.request)
    PROVE  /\ cl \in ClientStates /\ cl.request \in AnyRequest /\ q \in Stream
           /\ k \in Nat /\ Len(g) \in Nat /\ Len(q) \in Nat /\ Took = k + Len(g)
           /\ Len(SentOf(cl)) \in Nat /\ Took <= Len(SentOf(cl)) /\ Len(SentOf(cl)) <= Len(q)
           /\ \A i \in 1 .. Len(g) : g[i] = q[k + i]
           /\ \A j \in 1 .. Len(g) - 1 : g[j] # NL
           /\ \/ Len(g) = MaxLine - 1
              \/ Len(g) >= 1 /\ g[Len(g)] = NL
              \/ cl.pc = "left" /\ u = << >> /\ Took = Len(SentOf(cl))
           /\ Took = Len(q) => u = << >> /\ cl.todo = << >>
           /\ Len(g) = 0 <=> g = << >>
<1>. DEFINE s == SentOf(cl)
            v == srio.unread \o u
<1>1. /\ AskedAs(cl, srio, k, u) /\ Sound(srio) /\ srio \in Rios /\ u \in Stream
      /\ srio.op = "readlineb" /\ k \in Nat /\ server.conn \in Clients
  BY ReadingServer DEF Returned
<1>2. LinkedAs(cl, crio[server.conn], u) /\ cl \in ClientStates /\ cl.request \in AnyRequest
  BY <1>1, ClientInvariant, ClientType DEF IInv
<1>3. PICK j \in 0 .. Len(q) : cl.todo = Rest(j, q)
  BY <1>2 DEF LinkedAs
<1>4. /\ s = First(j, q) /\ s \in Stream /\ Len(s) = j /\ q \in Stream
      /\ Len(cl.todo) = Len(q) - j /\ Len(q) \in Nat
  BY <1>2, <1>3, SentPart
<1>5. /\ g \in Stream /\ srio.unread \in Stream /\ v \in Stream /\ Len(g) \in Nat /\ Len(v) \in Nat
  BY <1>1, FrameType, Put, EmptyStream
<1>6. k \in 0 .. Len(s) /\ Rest(k, s) = g \o v /\ (srio.eof => cl.pc = "left" /\ u = << >>)
  BY <1>1 DEF AskedAs, Coming
<1>7. \A i \in 1 .. Len(g) - 1 : g[i] # NL
  BY <1>1 DEF Sound, OneLine
<1>8. \/ (MaxLine - 1) - Len(g) = 0
      \/ g # << >> /\ g[Len(g)] = NL
      \/ srio.eof
  BY <1>1 DEF Returned, Complete, Room
<1>9. Len(g) = 0 <=> g = << >>
  BY <1>5, EmptyStream
<1>10. MaxLine \in Nat /\ Took = k + Len(g)
  BY DiskAssumption DEF Took
<1>11. srio.eof => srio.unread = << >> /\ u = << >>
  BY <1>1, <1>6 DEF Sound, Ahead
<1>12. Len(v) = Len(srio.unread) + Len(u) /\ Len(u) \in Nat /\ Len(srio.unread) \in Nat
  BY <1>1, <1>5, JoinedStreams
<1>13. Len(u) = 0 <=> u = << >>
  BY <1>1, EmptyStream
<1>14. cl.todo \in Stream
  BY <1>2 DEF ClientStates
<1>15. Len(cl.todo) = 0 <=> cl.todo = << >>
  BY <1>14, EmptyStream
<1>16. srio.eof => Len(v) = 0
  BY <1>11, <1>12, <1>13, EmptyStream
<1>. HIDE DEF s, v
<1>17. PICK w : w = Rest(k, s)
  OBVIOUS
<1>18. /\ w \in Stream /\ Len(w) = Len(s) - k /\ \A i \in 1 .. Len(s) - k : w[i] = s[k + i]
  <2>1. s \in Seq(Element) /\ k \in 0 .. Len(s)
    BY <1>4, <1>6 DEF Stream
  <2>2. /\ Rest(k, s) \in Seq(Element) /\ Len(Rest(k, s)) = Len(s) - k
        /\ \A i \in 1 .. Len(s) - k : Rest(k, s)[i] = s[k + i]
    BY <2>1, Cut, Zenon
  <2>. QED  BY <1>17, <2>2, Zenon DEF Stream
<1>19. Len(w) = Len(g) + Len(v) /\ \A i \in 1 .. Len(g) : w[i] = g[i]
  BY <1>5, <1>6, <1>17, JoinedStreams
<1>20. \A i \in 1 .. j : s[i] = q[i]
  BY <1>4, Cut DEF Stream
<1>21. k + Len(g) <= Len(s)
  BY <1>1, <1>4, <1>5, <1>18, <1>19
<1>22. ASSUME NEW i \in 1 .. Len(g) PROVE g[i] = q[k + i]
  <2>1. i \in 1 .. Len(s) - k /\ k + i \in 1 .. j
    BY <1>1, <1>4, <1>5, <1>21
  <2>. QED  BY <1>18, <1>19, <1>20, <2>1
<1>23. \/ Len(g) = MaxLine - 1
       \/ Len(g) >= 1 /\ g[Len(g)] = NL
       \/ cl.pc = "left" /\ u = << >> /\ Took = Len(s)
  <2>1. CASE srio.eof
    <3>1. Len(s) = k + Len(g)
      BY <1>1, <1>4, <1>5, <1>16, <1>18, <1>19, <2>1
    <3>. QED  BY <1>6, <1>10, <2>1, <3>1
  <2>2. CASE ~srio.eof
    BY <1>5, <1>8, <1>9, <1>10, <2>2
  <2>. QED  BY <2>1, <2>2
<1>24. ASSUME Took = Len(q) PROVE u = << >> /\ cl.todo = << >>
  <2>1. Len(s) = Len(q) /\ Len(v) = 0
    BY <1>1, <1>4, <1>5, <1>10, <1>18, <1>19, <1>24
  <2>2. Len(u) = 0
    <3>1. \A x, y \in Nat : x + y = 0 => y = 0
      OBVIOUS
    <3>2. Len(srio.unread) + Len(u) = 0
      BY <1>12, <2>1, Zenon
    <3>. QED  BY <1>12, <3>1, <3>2
  <2>3. Len(cl.todo) = 0
    <3>1. \A x \in Nat : x - x = 0
      OBVIOUS
    <3>2. Len(cl.todo) = Len(q) - Len(q)
      BY <1>4, <2>1, Zenon
    <3>. QED  BY <1>4, <3>1, <3>2
  <2>. QED  BY <1>13, <1>15, <2>2, <2>3
<1>25. Len(s) <= Len(q) /\ Len(s) \in Nat
  BY <1>4
<1>26. s = SentOf(cl)
  BY DEF s
<1>. QED  BY <1>1, <1>2, <1>4, <1>5, <1>7, <1>9, <1>10, <1>21, <1>22, <1>23, <1>24, <1>25, <1>26

-----------------------------------------------------------------------------
(* All of a request is read before it is answered. *)

(* Of the request of client cl the server has taken t elements: some lines, or all
   that a client which has left had sent. *)
TakenAs(cl, t) == AtLine(cl.request, t) \/ (cl.pc = "left" /\ t = Len(SentOf(cl)))

(* The line that the server takes first is the request line, or what a client that
   has left had sent of it. *)
LEMMA TakesRequestLine ==
    ASSUME IInv, Owed, server.pc = "request", Returned(srio),
           NEW cl, cl = client[server.conn], Ordinary(cl.request)
    PROVE  /\ srio.got # <<NL>> /\ TakenAs(cl, Took)
           /\ srio.got = << >> => cl.pc = "left" /\ up[server.conn] = << >>
<1>. DEFINE q == Script(cl.request)
            g == srio.got
            u == up[server.conn]
            k == server.took
<1>1. k = 0 /\ srio.n = MaxLine /\ cl.request.method = "GET"
  BY DEF Owed, Fresh, Ordinary
<1>9. server.pc \in {"request", "headers"} /\ srio.n = MaxLine
  BY <1>1
<1>2. /\ cl.request \in AnyRequest /\ Len(g) \in Nat /\ Took = k + Len(g)
      /\ \A i \in 1 .. Len(g) : g[i] = q[k + i]
      /\ \A j \in 1 .. Len(g) - 1 : g[j] # NL
      /\ \/ Len(g) = MaxLine - 1
         \/ Len(g) >= 1 /\ g[Len(g)] = NL
         \/ cl.pc = "left" /\ u = << >> /\ Took = Len(SentOf(cl))
      /\ Len(g) = 0 <=> g = << >>
  BY <1>9, NextLine, SMTT(20)
<1>3. q[2] = NL /\ q[1] # NL
  BY <1>1, <1>2, ScriptLines
<1>4. MaxLine \in Nat /\ MaxLine > 2
  BY DiskAssumption
<1>. HIDE DEF q, g, u, k
<1>8. Took = Len(g) /\ \A i \in 1 .. Len(g) : g[i] = q[i]
  <2>1. \A i \in 1 .. Len(g) : 0 + i = i
    OBVIOUS
  <2>. QED  BY <1>1, <1>2, <2>1
<1>5. g # <<NL>>
  <2>1. ASSUME Len(g) = 1, g[1] = NL PROVE FALSE
    BY <1>3, <1>8, <2>1
  <2>. QED  BY <2>1
<1>6. CASE cl.pc = "left" /\ u = << >> /\ Took = Len(SentOf(cl))
  BY <1>5, <1>6 DEF TakenAs, g, u
<1>7. CASE Len(g) = MaxLine - 1 \/ (Len(g) >= 1 /\ g[Len(g)] = NL)
  <2>1. Len(g) >= 2
    <3>1. CASE Len(g) = MaxLine - 1
      BY <1>2, <1>4, <3>1
    <3>2. CASE Len(g) >= 1 /\ g[Len(g)] = NL
      <4>1. ASSUME Len(g) = 1 PROVE FALSE
        BY <1>3, <1>8, <3>2, <4>1
      <4>2. \A n \in Nat : n >= 1 /\ n # 1 => n >= 2
        OBVIOUS
      <4>. QED  BY <1>2, <3>2, <4>1, <4>2
    <3>. QED  BY <1>7, <3>1, <3>2
  <2>2. Len(g) = 2
    <3>1. ASSUME Len(g) > 2 PROVE FALSE
      <4>1. 2 \in 1 .. Len(g) - 1 /\ 2 \in 1 .. Len(g)
        BY <1>2, <3>1
      <4>2. g[2] = q[2]
        BY <1>8, <4>1
      <4>. QED  BY <1>2, <1>3, <4>1, <4>2
    <3>2. \A n \in Nat : n >= 2 /\ ~(n > 2) => n = 2
      OBVIOUS
    <3>. QED  BY <1>2, <2>1, <3>1, <3>2
  <2>3. Took = 2
    BY <1>8, <2>2
  <2>4. AtLine(cl.request, 2)
    <3>1. 2 \in 2 .. 2 /\ 0 \in Nat /\ 2 - 2 = 0 * (MaxLine - 1) /\ 2 + 1 .. 2 = {}
      BY <1>4
    <3>. QED  BY <1>3, <3>1 DEF AtLine, q
  <2>5. g # << >>
    BY <1>2, <2>2
  <2>. QED  BY <1>5, <2>3, <2>4, <2>5 DEF TakenAs, g
<1>. QED  BY <1>2, <1>6, <1>7

(* A header line leads from the start of a line to that of the next, or by a whole
   buffer into it, and the empty one to the end of the request. *)
LEMMA TakesHeaderLine ==
    ASSUME IInv, server.pc = "headers", Returned(srio), srio.n = MaxLine,
           NEW cl, cl = client[server.conn], Ordinary(cl.request), TakenAs(cl, server.took)
    PROVE  /\ TakenAs(cl, Took)
           /\ srio.got = <<NL>> =>
                  /\ Took = Len(Script(cl.request))
                  /\ up[server.conn] = << >> /\ cl.todo = << >>
           /\ srio.got = << >> => cl.pc = "left" /\ up[server.conn] = << >>
<1>. DEFINE q == Script(cl.request)
            g == srio.got
            u == up[server.conn]
            k == server.took
<1>1. /\ cl.request \in AnyRequest /\ Len(g) \in Nat /\ Took = k + Len(g) /\ k \in Nat
      /\ Len(q) \in Nat
      /\ Len(SentOf(cl)) \in Nat /\ Took <= Len(SentOf(cl)) /\ Len(SentOf(cl)) <= Len(q)
      /\ \A i \in 1 .. Len(g) : g[i] = q[k + i]
      /\ \A j \in 1 .. Len(g) - 1 : g[j] # NL
      /\ \/ Len(g) = MaxLine - 1
         \/ Len(g) >= 1 /\ g[Len(g)] = NL
         \/ cl.pc = "left" /\ u = << >> /\ Took = Len(SentOf(cl))
      /\ Took = Len(q) => u = << >> /\ cl.todo = << >>
      /\ Len(g) = 0 <=> g = << >>
  <2>1. server.pc \in {"request", "headers"}
    OBVIOUS
  <2>2. /\ cl.request \in AnyRequest /\ Len(g) \in Nat /\ Took = k + Len(g) /\ k \in Nat
        /\ Len(q) \in Nat
        /\ Len(SentOf(cl)) \in Nat /\ Took <= Len(SentOf(cl)) /\ Len(SentOf(cl)) <= Len(q)
        /\ \A i \in 1 .. Len(g) : g[i] = q[k + i]
    BY <2>1, NextLine, SMTT(20)
  <2>3. /\ \A j \in 1 .. Len(g) - 1 : g[j] # NL
        /\ \/ Len(g) = MaxLine - 1
           \/ Len(g) >= 1 /\ g[Len(g)] = NL
           \/ cl.pc = "left" /\ u = << >> /\ Took = Len(SentOf(cl))
        /\ Took = Len(q) => u = << >> /\ cl.todo = << >>
        /\ Len(g) = 0 <=> g = << >>
    BY <2>1, NextLine, SMTT(20)
  <2>. QED  BY <2>2, <2>3, Zenon
<1>2. MaxLine \in Nat /\ MaxLine > 2
  BY DiskAssumption
<1>3. AtLine(cl.request, k) \/ (cl.pc = "left" /\ k = Len(SentOf(cl)))
  BY DEF TakenAs
<1>. HIDE DEF q, g, u, k
<1>4. g = << >> => cl.pc = "left" /\ u = << >>
  BY <1>1, <1>2
<1>5. ASSUME g = <<NL>> PROVE Took = Len(q)
  <2>1. Len(g) = 1 /\ g[1] = NL
    BY <1>5
  <2>2. Took = k + 1 /\ q[k + 1] = NL /\ k + 1 <= Len(q)
    BY <1>1, <2>1
  <2>3. AtLine(cl.request, k)
    BY <1>1, <1>3, <2>2
  <2>4. k + 1 = Len(q)
    BY <1>1, <2>2, <2>3, EmptyLineEnds DEF q
  <2>. QED  BY <2>2, <2>4
<1>6. TakenAs(cl, Took)
  <2>1. CASE cl.pc = "left" /\ Took = Len(SentOf(cl))
    BY <2>1 DEF TakenAs
  <2>2. CASE ~(cl.pc = "left" /\ Took = Len(SentOf(cl)))
    <3>1. AtLine(cl.request, k)
      <4>1. ASSUME cl.pc = "left", k = Len(SentOf(cl)) PROVE FALSE
        <5>1. Took = k
          BY <1>1, <4>1
        <5>. QED  BY <2>2, <4>1, <5>1
      <4>. QED  BY <1>3, <4>1
    <3>2. PICK s \in 2 .. k, m \in Nat :
              /\ k - s = m * (MaxLine - 1) /\ q[s] = NL
              /\ \A x \in s + 1 .. k : q[x] # NL
      BY <3>1 DEF AtLine, q
    <3>3. CASE Len(g) >= 1 /\ g[Len(g)] = NL
      <4>1. q[Took] = NL
        <5>1. Len(g) \in 1 .. Len(g)
          BY <1>1, <3>3
        <5>. QED  BY <1>1, <3>3, <5>1
      <4>2. Took \in 2 .. Took /\ 0 \in Nat /\ Took - Took = 0 * (MaxLine - 1) /\ Took + 1 .. Took = {}
        <5>1. \A t \in Nat : t >= 2 => t \in 2 .. t /\ t - t = 0 * (MaxLine - 1) /\ t + 1 .. t = {}
          BY <1>2
        <5>2. Took \in Nat /\ Took >= 2
          BY <1>1, <3>2
        <5>. QED  BY <5>1, <5>2
      <4>. QED  BY <4>1, <4>2 DEF TakenAs, AtLine, q
    <3>4. CASE Len(g) = MaxLine - 1 /\ ~(Len(g) >= 1 /\ g[Len(g)] = NL)
      <4>1. \A j \in 1 .. Len(g) : g[j] # NL
        BY <1>1, <1>2, <3>4
      <4>2. ASSUME NEW x \in s + 1 .. Took PROVE q[x] # NL
        <5>1. CASE x <= k
          BY <1>1, <3>2, <5>1
        <5>2. CASE ~(x <= k)
          <6>1. x - k \in 1 .. Len(g) /\ k + (x - k) = x
            BY <1>1, <3>2, <5>2
          <6>. QED  BY <1>1, <4>1, <6>1
        <5>. QED  BY <5>1, <5>2
      <4>3. m + 1 \in Nat /\ s \in 2 .. Took /\ Took - s = (m + 1) * (MaxLine - 1)
        <5>1. Took - s = m * (MaxLine - 1) + (MaxLine - 1)
          BY <1>1, <1>2, <3>2, <3>4
        <5>2. (m + 1) * (MaxLine - 1) = m * (MaxLine - 1) + (MaxLine - 1)
          BY <1>2
        <5>3. s \in 2 .. Took
          BY <1>1, <3>2
        <5>. QED  BY <5>1, <5>2, <5>3
      <4>4. AtLine(cl.request, Took)
        BY <3>2, <4>2, <4>3 DEF AtLine, q
      <4>. QED  BY <4>4 DEF TakenAs
    <3>. QED  BY <1>1, <2>2, <3>3, <3>4
  <2>. QED  BY <2>1, <2>2
<1>. QED  BY <1>1, <1>4, <1>5, <1>6 DEF g, u, q

(* What the server sv, whose call asks for n elements, has taken of the request of
   client cl, of which u has arrived: all of it when it goes on to the answer. *)
Finishing == {"stat", "write", "open", "fork", "wait", "close"}
ReadAs(sv, n, cl, u) ==
    /\ sv.pc = "headers" => n = MaxLine
    /\ sv.pc = "headers" /\ Ordinary(cl.request) => TakenAs(cl, sv.took)
    /\ sv.pc \in Finishing /\ Ordinary(cl.request) => u = << >> /\ (cl.todo = << >> \/ cl.pc = "left")
    /\ sv.whole /\ Ordinary(cl.request) => sv.took = Len(Script(cl.request))

(* Data of an ordinary request is unread only when the server has died. *)
UnreadAs(cl, dead) ==
    /\ cl.link # "closed" => ~cl.unread
    /\ cl.link = "closed" /\ Ordinary(cl.request) /\ ~dead => ~cl.unread /\ (cl.pc = "up" => cl.todo = << >>)

Reading ==
    server.pc \in Serving => ReadAs(server, srio.n, client[server.conn], up[server.conn])
NoneUnread == \A c \in Clients : UnreadAs(client[c], server.pc = "dead")
AllRead == (server.whole => server.pc \in Finishing) /\ Reading /\ NoneUnread

(* What a client that goes on, ends or leaves still has to send stays the same. *)
LEMMA ClientReadAs ==
    ASSUME NEW cl, NEW cm, cl.pc = "up", cm.request = cl.request, cm.link = cl.link,
           cm.unread = cl.unread, cm.todo = cl.todo
    PROVE  /\ \A dead : UnreadAs(cl, dead) => UnreadAs(cm, dead)
           /\ \A sv, n, u : ReadAs(sv, n, cl, u) => ReadAs(sv, n, cm, u)
<1>1. \A t : TakenAs(cl, t) => TakenAs(cm, t)
  BY DEF TakenAs
<1>2. \A dead : UnreadAs(cl, dead) => UnreadAs(cm, dead)
  BY DEF UnreadAs
<1>3. \A sv, n, u : ReadAs(sv, n, cl, u) => ReadAs(sv, n, cm, u)
  BY <1>1 DEF ReadAs
<1>. QED  BY <1>2, <1>3

(* One client moves, and the server does not. *)
LEMMA ClientReads ==
    ASSUME IInv, AllRead, NEW c \in Clients, UNCHANGED <<server, srio>>,
           \A d \in Clients \ {c} : client'[d] = client[d] /\ up'[d] = up[d],
           UnreadAs(client'[c], server.pc = "dead"),
           client[c].link = "served" /\ ReadAs(server, srio.n, client[c], up[c]) =>
               ReadAs(server, srio.n, client'[c], up'[c])
    PROVE  AllRead'
<1>1. server'.whole => server'.pc \in Finishing
  BY DEF AllRead
<1>2. NoneUnread'
  <2>. SUFFICES ASSUME NEW d \in Clients PROVE UnreadAs(client'[d], server'.pc = "dead")
    BY DEF NoneUnread
  <2>1. UnreadAs(client[d], server.pc = "dead") /\ server' = server
    BY DEF AllRead, NoneUnread
  <2>2. UnreadAs(client'[d], server.pc = "dead")
    <3>1. CASE d = c
      BY <3>1
    <3>2. CASE d # c
      <4>1. client'[d] = client[d]
        BY <3>2
      <4>. QED  BY <2>1, <4>1, Zenon
    <3>. QED  BY <3>1, <3>2
  <2>. QED  BY <2>1, <2>2, Zenon
<1>3. Reading'
  <2>. SUFFICES ASSUME server.pc \in Serving
                PROVE  ReadAs(server', srio'.n, client'[server'.conn], up'[server'.conn])
    BY DEF Reading
  <2>1. /\ server.conn \in Clients /\ client[server.conn].link = "served"
        /\ ReadAs(server, srio.n, client[server.conn], up[server.conn])
    BY DEF IInv, Busy, AllRead, Reading
  <2>2. ReadAs(server, srio.n, client'[server.conn], up'[server.conn])
    <3>1. CASE server.conn = c
      BY <2>1, <3>1
    <3>2. CASE server.conn # c
      <4>1. client'[server.conn] = client[server.conn] /\ up'[server.conn] = up[server.conn]
        BY <2>1, <3>2
      <4>. QED  BY <2>1, <4>1, Zenon
    <3>. QED  BY <3>1, <3>2
  <2>3. server' = server /\ srio' = srio
    OBVIOUS
  <2>. QED  BY <2>2, <2>3, Zenon
<1>. QED  BY <1>1, <1>2, <1>3 DEF AllRead

(* The server moves, and keeps its connection. *)
LEMMA ServerReads ==
    ASSUME IInv, AllRead, server.pc \in Serving, server'.pc \in Serving, server'.conn = server.conn,
           UNCHANGED client, server'.whole => server'.pc \in Finishing,
           ReadAs(server', srio'.n, client[server.conn], up'[server.conn])
    PROVE  AllRead'
<1>1. server.pc # "dead" /\ server'.pc # "dead"
  BY DEF Serving
<1>2. NoneUnread'
  <2>1. (server.pc = "dead") <=> (server'.pc = "dead")
    BY <1>1
  <2>. QED  BY <2>1 DEF AllRead, NoneUnread, UnreadAs
<1>3. Reading'
  BY DEF Reading
<1>. QED  BY <1>2, <1>3 DEF AllRead

(* The server answers, and reads nothing. *)
LEMMA AnswerReads ==
    ASSUME IInv, AllRead, server.pc \in Finishing, server'.pc \in Finishing,
           server'.conn = server.conn, server'.took = server.took, server'.whole = server.whole,
           UNCHANGED <<client, up>>
    PROVE  AllRead'
<1>1. server.pc \in Serving /\ server'.pc \in Serving /\ server'.pc # "headers"
  BY DEF Finishing, Serving
<1>2. ReadAs(server, srio.n, client[server.conn], up[server.conn])
  BY <1>1 DEF AllRead, Reading
<1>3. ReadAs(server', srio'.n, client[server.conn], up'[server.conn])
  BY <1>1, <1>2 DEF ReadAs
<1>. QED  BY <1>1, <1>3, ServerReads

(* The state of a connection that is closed. *)
LEMMA ClosedReads ==
    ASSUME IInv, NEW c \in Clients
    PROVE  /\ Closed(c).link = "closed" /\ Closed(c).pc = client[c].pc
           /\ Closed(c).request = client[c].request /\ Closed(c).todo = client[c].todo
           /\ Closed(c).unread = (client[c].unread \/ up[c] # << >>)
<1>. DEFINE cl == client[c]
            un == cl.unread \/ up[c] # << >>
            mid == [cl EXCEPT !.link = "closed"]
            new == [mid EXCEPT !.unread = un]
<1>1. cl \in ClientStates
  BY ClientInvariant
<1>2. "closed" \in Links /\ un \in BOOLEAN
  BY <1>1 DEF Links, ClientStates
<1>3. /\ mid \in ClientStates /\ mid.pc = cl.pc /\ mid.link = "closed"
      /\ mid.request = cl.request /\ mid.todo = cl.todo
  BY <1>1, <1>2, WithLink, Zenon
<1>4. Closed(c) = new
  BY Zenon DEF Closed
<1>. HIDE DEF mid, un
<1>5. /\ new.pc = mid.pc /\ new.link = mid.link
      /\ new.request = mid.request /\ new.todo = mid.todo /\ new.unread = un
  BY <1>2, <1>3, WithUnread, Zenon
<1>. HIDE DEF new
<1>. QED  BY <1>3, <1>4, <1>5 DEF un

(* The server dies, and only then data may stay unread. *)
LEMMA DiesReads ==
    ASSUME IInv, AllRead, Dies
    PROVE  AllRead'
<1>1. /\ server' = [NoServer EXCEPT !.pc = "dead"]
      /\ client' = [c \in Clients |->
             IF client[c].link \in {"queued", "served"} THEN Closed(c) ELSE client[c]]
  BY DEF Dies
<1>2. server'.pc = "dead" /\ ~server'.whole
  BY <1>1, NoServerType DEF ServerStates
<1>3. ASSUME NEW c \in Clients PROVE UnreadAs(client'[c], server'.pc = "dead")
  <2>1. CASE client[c].link \in {"queued", "served"}
    <3>1. client'[c].link = "closed"
      BY <1>1, <2>1, ClosedReads
    <3>. QED  BY <1>2, <3>1 DEF UnreadAs
  <2>2. CASE client[c].link \notin {"queued", "served"}
    <3>1. client'[c] = client[c]
      BY <1>1, <2>2
    <3>2. UnreadAs(client[c], server.pc = "dead")
      BY DEF AllRead, NoneUnread
    <3>. QED  BY <1>2, <3>1, <3>2 DEF UnreadAs
  <2>. QED  BY <2>1, <2>2
<1>4. NoneUnread'
  BY <1>3 DEF NoneUnread
<1>5. Reading'
  BY <1>2 DEF Reading, Serving
<1>. QED  BY <1>2, <1>4, <1>5 DEF AllRead

(* The steps of a client. *)
LEMMA ClientsRead ==
    ASSUME IInv, AllRead, NEW c \in Clients, Connect(c) \/ Transfers(c) \/ Reset(c) \/ Leave(c)
    PROVE  AllRead'
<1>. DEFINE cl == client[c]
<1>1. /\ LinkedAs(cl, crio[c], up[c]) /\ client \in [Clients -> ClientStates] /\ cl \in ClientStates
      /\ UnreadAs(cl, server.pc = "dead") /\ up \in [Clients -> Stream]
  BY ClientInvariant DEF AllRead, NoneUnread, IInv, Typed
<1>2. CASE Connect(c)
  <2>1. cl.pc = "idle" /\ cl.link = "none" /\ UNCHANGED <<server, srio, up>>
    BY <1>1, <1>2 DEF Connect, wires, LinkedAs
  <2>2. ASSUME NEW new, client' = [client EXCEPT ![c] = new],
               new.link # "closed", ~new.unread
        PROVE  AllRead'
    <3>1. client'[c] = new /\ \A d \in Clients \ {c} : client'[d] = client[d] /\ up'[d] = up[d]
      BY <1>1, <2>1, <2>2
    <3>2. UnreadAs(client'[c], server.pc = "dead")
      BY <2>2, <3>1 DEF UnreadAs
    <3>. QED  BY <2>1, <3>1, <3>2, ClientReads
  <2>3. ASSUME NEW r,
               client' = [client EXCEPT ![c] =
                   [pc |-> "up", link |-> "queued", request |-> r, todo |-> Script(r),
                    seen |-> << >>, unread |-> FALSE]]
        PROVE  AllRead'
    <3>. DEFINE new == [pc |-> "up", link |-> "queued", request |-> r, todo |-> Script(r),
                        seen |-> << >>, unread |-> FALSE]
    <3>1. client' = [client EXCEPT ![c] = new]
      BY <2>3, Zenon
    <3>2. new.link = "queued" /\ ~new.unread
      OBVIOUS
    <3>. HIDE DEF new
    <3>. QED  BY <2>2, <3>1, <3>2
  <2>4. ASSUME client' = [client EXCEPT ![c].pc = "failed"] PROVE AllRead'
    <3>. DEFINE new == [cl EXCEPT !.pc = "failed"]
    <3>1. "failed" \in ClientPcs
      BY DEF ClientPcs
    <3>2. new.link = cl.link /\ new.unread = cl.unread
      BY <1>1, <3>1, WithPc, Zenon
    <3>3. client' = [client EXCEPT ![c] = new]
      BY <2>4
    <3>. HIDE DEF new
    <3>4. ~cl.unread
      BY <1>1, <2>1 DEF UnreadAs
    <3>. QED  BY <2>1, <2>2, <3>2, <3>3, <3>4
  <2>. QED  BY <1>2, <2>3, <2>4 DEF Connect
<1>3. ASSUME NEW new, client' = [client EXCEPT ![c] = new], UNCHANGED <<server, srio, up>>,
             cl.pc = "up", new.request = cl.request, new.link = cl.link, new.todo = cl.todo,
             new.unread = cl.unread
      PROVE  AllRead'
  <2>1. client'[c] = new /\ \A d \in Clients \ {c} : client'[d] = client[d] /\ up'[d] = up[d]
    BY <1>1, <1>3
  <2>2. UnreadAs(new, server.pc = "dead")
    BY <1>1, <1>3, ClientReadAs
  <2>3. ReadAs(server, srio.n, cl, up[c]) => ReadAs(server, srio.n, new, up'[c])
    BY <1>3, ClientReadAs
  <2>. QED  BY <1>3, <2>1, <2>2, <2>3, ClientReads
<1>4. CASE Send(c)
  <2>1. cl.pc = "up" /\ cl.todo # << >> /\ UNCHANGED <<server, srio>>
    BY <1>4 DEF Send
  <2>2. cl.todo \in Stream /\ up[c] \in Stream /\ << >> \in Stream /\ TRUE \in BOOLEAN
    BY ClientType, EmptyStream DEF IInv
  <2>3. ASSUME NEW k \in Accepts(cl.todo, up[c]), client' = [client EXCEPT ![c].todo = Rest(k, @)],
               up' = [up EXCEPT ![c] = @ \o First(k, cl.todo)], cl.link # "closed"
        PROVE  AllRead'
    <3>. DEFINE todo == Rest(k, cl.todo)
                new == [cl EXCEPT !.todo = todo]
    <3>1. todo \in Stream
      BY <2>2, Accepted
    <3>2. client' = [client EXCEPT ![c] = new]
      BY <2>3
    <3>. HIDE DEF todo
    <3>3. /\ new.pc = cl.pc /\ new.link = cl.link /\ new.request = cl.request /\ new.unread = cl.unread
      BY <1>1, <3>1, WithTodo, Zenon
    <3>. HIDE DEF new
    <3>4. client'[c] = new /\ \A d \in Clients \ {c} : client'[d] = client[d] /\ up'[d] = up[d]
      BY <1>1, <2>3, <3>2
    <3>5. UnreadAs(new, server.pc = "dead")
      BY <1>1, <2>3, <3>3 DEF UnreadAs
    <3>6. ASSUME ReadAs(server, srio.n, cl, up[c]) PROVE ReadAs(server, srio.n, new, up'[c])
      <4>1. ~(server.pc \in Finishing /\ Ordinary(cl.request))
        BY <2>1, <3>6 DEF ReadAs
      <4>2. TakenAs(cl, server.took) => TakenAs(new, server.took)
        BY <2>1, <3>3 DEF TakenAs
      <4>. QED  BY <3>3, <3>6, <4>1, <4>2 DEF ReadAs
    <3>. QED  BY <2>1, <3>4, <3>5, <3>6, ClientReads
  <2>4. ASSUME client' = [client EXCEPT ![c].todo = << >>, ![c].unread = TRUE],
               cl.link = "closed", UNCHANGED up
        PROVE AllRead'
    <3>. DEFINE mid == [cl EXCEPT !.todo = << >>]
                new == [mid EXCEPT !.unread = TRUE]
    <3>1. client' = [client EXCEPT ![c] = new]
      BY <1>1, <2>4
    <3>2. /\ mid \in ClientStates /\ mid.pc = cl.pc /\ mid.link = cl.link
          /\ mid.request = cl.request
      BY <1>1, <2>2, WithTodo, Zenon
    <3>. HIDE DEF mid
    <3>3. /\ new.pc = cl.pc /\ new.link = cl.link /\ new.request = cl.request
      BY <2>2, <3>2, WithUnread, Zenon
    <3>. HIDE DEF new
    <3>4. client'[c] = new /\ \A d \in Clients \ {c} : client'[d] = client[d] /\ up'[d] = up[d]
      BY <1>1, <2>4, <3>1
    <3>5. UnreadAs(new, server.pc = "dead")
      BY <1>1, <2>1, <2>4, <3>3 DEF UnreadAs
    <3>6. cl.link # "served"
      BY <2>4
    <3>. QED  BY <2>1, <3>4, <3>5, <3>6, ClientReads
  <2>. QED  BY <1>4, <2>3, <2>4 DEF Send
<1>5. CASE StartRead(c)
  <2>1. cl.pc = "up" /\ UNCHANGED <<server, srio, up>>
    BY <1>5 DEF StartRead, wires
  <2>2. ASSUME client' = [client EXCEPT ![c].pc = "done"] PROVE AllRead'
    <3>. DEFINE new == [cl EXCEPT !.pc = "done"]
    <3>1. "done" \in ClientPcs
      BY DEF ClientPcs
    <3>2. /\ new.link = cl.link /\ new.request = cl.request /\ new.todo = cl.todo
          /\ new.unread = cl.unread
      BY <1>1, <3>1, WithPc, Zenon
    <3>3. client' = [client EXCEPT ![c] = new]
      BY <2>2
    <3>. HIDE DEF new
    <3>. QED  BY <1>3, <2>1, <3>2, <3>3
  <2>3. ASSUME client' = [client EXCEPT ![c].seen = @ \o crio[c].got] PROVE AllRead'
    <3>. DEFINE seen == cl.seen \o crio[c].got
                new == [cl EXCEPT !.seen = seen]
    <3>1. seen \in Stream
      <4>1. cl.seen \in Stream /\ crio[c] \in Rios
        BY ClientType DEF IInv
      <4>2. crio[c].got \in Stream
        BY <4>1, FrameType
      <4>. QED  BY <4>1, <4>2, Put
    <3>2. client' = [client EXCEPT ![c] = new]
      BY <2>3
    <3>. HIDE DEF seen
    <3>3. /\ new.link = cl.link /\ new.request = cl.request /\ new.todo = cl.todo
          /\ new.unread = cl.unread
      BY <1>1, <3>1, WithSeen, Zenon
    <3>. HIDE DEF new
    <3>. QED  BY <1>3, <2>1, <3>2, <3>3
  <2>. QED  BY <1>5, <2>2, <2>3 DEF StartRead
<1>6. CASE Read(c)
  <2>1. cl.pc = "up" /\ UNCHANGED <<client, server, srio, up>>
    BY <1>6 DEF Read
  <2>2. client' = [client EXCEPT ![c] = cl]
    BY <1>1, <2>1
  <2>. QED  BY <1>1, <1>3, <2>1, <2>2
<1>7. CASE Reset(c) \/ Leave(c)
  <2>1. PICK how \in {"reset", "left"} : Ends(c, how)
    BY <1>7 DEF Reset, Leave
  <2>2. cl.pc = "up" /\ UNCHANGED <<server, srio, up>>
    BY <1>7 DEF Reset, Leave
  <2>. DEFINE mid == [cl EXCEPT !.pc = how]
              new == [mid EXCEPT !.seen = << >>]
  <2>3. how \in ClientPcs /\ << >> \in Stream
    BY EmptyStream DEF ClientPcs
  <2>4. /\ mid \in ClientStates /\ mid.link = cl.link /\ mid.request = cl.request
        /\ mid.todo = cl.todo /\ mid.unread = cl.unread
    BY <1>1, <2>3, WithPc, Zenon
  <2>5. client' = [client EXCEPT ![c] = new]
    BY <2>1, Zenon DEF Ends
  <2>. HIDE DEF mid
  <2>6. /\ new.link = cl.link /\ new.request = cl.request /\ new.todo = cl.todo
        /\ new.unread = cl.unread
    BY <2>3, <2>4, WithSeen, Zenon
  <2>. HIDE DEF new
  <2>. QED  BY <1>3, <2>2, <2>5, <2>6
<1>. QED  BY <1>2, <1>4, <1>5, <1>6, <1>7 DEF Transfers

(* The server starts to listen, takes a connection, or closes the one it has. *)
LEMMA TurnsRead ==
    ASSUME IInv, AllRead, OpenListenfd \/ Accept \/ Close
    PROVE  AllRead'
<1>1. CASE OpenListenfd
  <2>1. PICK pc \in {"accept", "dead"} : server' = [server EXCEPT !.pc = pc]
    BY <1>1 DEF OpenListenfd, GoTo
  <2>2. server.pc = "start" /\ UNCHANGED client /\ server \in ServerStates
    BY <1>1 DEF OpenListenfd, At, IInv, Typed
  <2>3. server'.pc = pc /\ server'.whole = server.whole /\ server.pc # "dead"
    BY <2>1, <2>2 DEF ServerStates
  <2>4. NoneUnread'
    BY <2>2, <2>3 DEF AllRead, NoneUnread, UnreadAs
  <2>5. Reading' /\ ~server'.whole
    BY <2>1, <2>2, <2>3 DEF Reading, Serving, AllRead, Finishing
  <2>. QED  BY <2>4, <2>5 DEF AllRead
<1>2. CASE Accept
  <2>1. backlog \in Seq(Clients) /\ Len(backlog) \in Nat /\ Len(backlog) # 0
    BY <1>2, LenProperties, EmptySeq DEF IInv, Typed, Accept
  <2>2. PICK c \in Clients : c = Head(backlog)
    BY <2>1, HeadTailProperties, EmptySeq
  <2>. DEFINE cl == client[c]
              new == [cl EXCEPT !.link = "served"]
              sv == [NoServer EXCEPT !.pc = "request", !.conn = c]
  <2>3. server.pc = "accept" /\ server' = sv /\ client' = [client EXCEPT ![c] = new]
    BY <1>2, <2>2 DEF Accept, At
  <2>4. cl.link = "queued"
    <3>1. 1 \in 1 .. Len(backlog) /\ c = backlog[1]
      BY <2>1, <2>2, HeadTailProperties, EmptySeq
    <3>. QED  BY <3>1 DEF IInv, Waiting
  <2>5. new.link = "served" /\ new.unread = cl.unread
    <3>1. "served" \in Links /\ cl \in ClientStates
      BY ClientInvariant DEF Links
    <3>. QED  BY <3>1, WithLink, Zenon
  <2>6. sv.pc = "request" /\ sv.conn = c /\ ~sv.whole
    BY NoServerType DEF ServerStates
  <2>. HIDE DEF new, sv
  <2>7. client'[c] = new /\ \A d \in Clients \ {c} : client'[d] = client[d]
    BY <2>3 DEF IInv, Typed
  <2>8. NoneUnread'
    <3>. SUFFICES ASSUME NEW d \in Clients PROVE UnreadAs(client'[d], server'.pc = "dead")
      BY DEF NoneUnread
    <3>1. UnreadAs(client[d], server.pc = "dead")
      BY DEF AllRead, NoneUnread
    <3>2. CASE d = c
      BY <2>4, <2>5, <2>7, <3>1, <3>2 DEF UnreadAs
    <3>3. CASE d # c
      BY <2>3, <2>7, <3>1, <3>3 DEF UnreadAs
    <3>. QED  BY <3>2, <3>3
  <2>9. Reading' /\ ~server'.whole
    BY <2>3, <2>6 DEF Reading, ReadAs, Finishing
  <2>. QED  BY <2>8, <2>9 DEF AllRead
<1>3. CASE Close
  <2>1. /\ server.pc = "close" /\ server' = NoServer
        /\ client' = [client EXCEPT ![server.conn] = Closed(server.conn)]
    BY <1>3 DEF Close, At
  <2>2. PICK c \in Clients : c = server.conn /\ client[c].link = "served"
    BY <2>1 DEF IInv, Busy, Serving
  <2>. DEFINE cl == client[c]
              new == Closed(c)
  <2>3. /\ new.link = "closed" /\ new.pc = cl.pc /\ new.request = cl.request
        /\ new.todo = cl.todo /\ new.unread = (cl.unread \/ up[c] # << >>)
    BY <2>2, ClosedReads
  <2>. HIDE DEF new
  <2>4. client'[c] = new /\ \A d \in Clients \ {c} : client'[d] = client[d]
    BY <2>1, <2>2 DEF IInv, Typed, new
  <2>5. Ordinary(cl.request) => up[c] = << >> /\ (cl.todo = << >> \/ cl.pc = "left")
    BY <2>1, <2>2 DEF AllRead, Reading, ReadAs, Finishing, Serving
  <2>6. NoneUnread'
    <3>. SUFFICES ASSUME NEW d \in Clients PROVE UnreadAs(client'[d], server'.pc = "dead")
      BY DEF NoneUnread
    <3>1. UnreadAs(client[d], server.pc = "dead")
      BY DEF AllRead, NoneUnread
    <3>2. CASE d = c
      BY <2>2, <2>3, <2>4, <2>5, <3>1, <3>2 DEF UnreadAs
    <3>3. CASE d # c
      BY <2>1, <2>4, <3>1, <3>3 DEF UnreadAs
    <3>. QED  BY <3>2, <3>3
  <2>7. Reading' /\ ~server'.whole
    BY <2>1, NoServerType DEF Reading, Serving
  <2>. QED  BY <2>6, <2>7 DEF AllRead
<1>. QED  BY <1>1, <1>2, <1>3

(* The server reads. *)
LEMMA ReadsRead ==
    ASSUME IInv, AllRead, ServerRead
    PROVE  AllRead'
<1>1. server.pc \in {"request", "headers"} /\ srio \in Rios /\ server.pc \in Serving
  BY ReadingServer DEF ServerRead, Serving
<1>2. CASE UNCHANGED <<client, server>> /\ srio'.n = srio.n
  <2>1. ReadAs(server, srio.n, client[server.conn], up[server.conn])
    BY <1>1 DEF AllRead, Reading
  <2>2. ReadAs(server', srio'.n, client[server.conn], up'[server.conn])
    BY <1>1, <1>2, <2>1 DEF ReadAs, Finishing
  <2>. QED  BY <1>1, <1>2, <2>2, ServerReads DEF AllRead
<1>3. CASE Dies
  BY <1>3, DiesReads
<1>. QED  BY <1>1, <1>2, <1>3, FrameSize DEF ServerRead

(* It goes on to the headers with the request line taken, or to an answer that
   does not need them. *)
LEMMA RequestReads ==
    ASSUME IInv, Owed, AllRead, Request
    PROVE  AllRead'
<1>. DEFINE c == server.conn
            cl == client[c]
            u == up[c]
            blank == srio.got = <<NL>>
<1>1. /\ server.pc = "request" /\ server.pc \in Serving /\ Returned(srio)
      /\ UNCHANGED <<client, up>> /\ server \in ServerStates /\ srio \in Rios /\ ~server.whole
  BY ReadingServer DEF Request, At, wires, Serving, AllRead, Finishing
<1>2. ASSUME Ordinary(cl.request)
      PROVE  /\ ~blank /\ cl.request.method = "GET" /\ TakenAs(cl, Took)
             /\ srio.got = << >> => u = << >> /\ (cl.todo = << >> \/ cl.pc = "left")
  BY <1>1, <1>2, TakesRequestLine DEF Ordinary
<1>3. ASSUME NEW sv, server' = sv, sv.pc \in {"headers", "write", "close"}, sv.conn = c, ~sv.whole,
             sv.pc = "headers" => srio'.n = MaxLine,
             sv.pc = "headers" => sv.took = Took,
             sv.pc # "headers" => blank \/ cl.request.method # "GET" \/ srio.got = << >>
      PROVE  AllRead'
  <2>1. ReadAs(sv, srio'.n, cl, u)
    <3>. HIDE DEF blank, cl, u
    <3>. QED  BY <1>2, <1>3 DEF ReadAs, Finishing
  <2>2. sv.pc \in Serving
    BY <1>3 DEF Serving
  <2>3. UNCHANGED client /\ UNCHANGED up
    BY <1>1
  <2>. QED  BY <1>1, <1>3, <2>1, <2>2, <2>3, ServerReads
<1>4. CASE srio.got = << >> /\ GoTo("close")
  <2>. DEFINE sv == [server EXCEPT !.pc = "close"]
  <2>1. sv.pc = "close" /\ sv.conn = c /\ ~sv.whole
    BY <1>1 DEF ServerStates
  <2>2. server' = sv
    BY <1>4 DEF GoTo
  <2>. HIDE DEF sv
  <2>. QED  BY <1>3, <1>4, <2>1, <2>2
<1>5. CASE (cl.request.method # "GET" \/ blank) /\ server' = Writes(ErrorPage("501"), "close")
  <2>. DEFINE page == ErrorPage("501")
              sv == [server EXCEPT !.pc = "write", !.todo = page, !.then = "close", !.took = Took]
  <2>1. server' = sv
    BY <1>5 DEF Writes
  <2>. HIDE DEF page
  <2>2. sv.pc = "write" /\ sv.conn = c /\ ~sv.whole
    BY <1>1 DEF ServerStates
  <2>. HIDE DEF sv
  <2>. QED  BY <1>3, <1>5, <2>1, <2>2
<1>6. ASSUME NEW path, ReadNext,
             server' = [server EXCEPT !.pc = "headers", !.path = path, !.took = Took]
      PROVE  AllRead'
  <2>. DEFINE sv == [server EXCEPT !.pc = "headers", !.path = path, !.took = Took]
  <2>1. sv.pc = "headers" /\ sv.conn = c /\ ~sv.whole /\ sv.took = Took
    BY <1>1 DEF ServerStates
  <2>2. server' = sv
    BY <1>6
  <2>3. srio'.n = MaxLine
    BY <1>1, <1>6, FrameSize DEF ReadNext
  <2>. HIDE DEF sv
  <2>. QED  BY <1>3, <2>1, <2>2, <2>3
<1>. QED  BY <1>4, <1>5, <1>6 DEF Request

(* It takes the next header line, and with the empty one it has read everything. *)
LEMMA HeadersRead ==
    ASSUME IInv, AllRead, Headers
    PROVE  AllRead'
<1>. DEFINE c == server.conn
            cl == client[c]
            u == up[c]
            g == srio.got
            line == IF g # << >> THEN g ELSE server.line
<1>1. /\ server.pc = "headers" /\ server.pc \in Serving /\ Returned(srio)
      /\ UNCHANGED <<client, up>> /\ server \in ServerStates /\ srio \in Rios /\ ~server.whole
      /\ srio.n = MaxLine /\ (Ordinary(cl.request) => TakenAs(cl, server.took))
  BY ReadingServer DEF Headers, At, wires, Serving, AllRead, Reading, ReadAs, Finishing
<1>2. ASSUME Ordinary(cl.request)
      PROVE  /\ TakenAs(cl, Took)
             /\ g = <<NL>> => Took = Len(Script(cl.request)) /\ u = << >> /\ cl.todo = << >>
             /\ g = << >> => cl.pc = "left" /\ u = << >>
  BY <1>1, <1>2, TakesHeaderLine
<1>3. ASSUME NEW sv, server' = sv, sv.pc \in Serving, sv.conn = c, sv.whole => sv.pc \in Finishing,
             ReadAs(sv, srio'.n, cl, u)
      PROVE  AllRead'
  <2>1. UNCHANGED client /\ UNCHANGED up
    BY <1>1
  <2>. QED  BY <1>1, <1>3, <2>1, ServerReads
<1>4. ASSUME EmptyLine(line),
             server' = [server EXCEPT !.pc = "stat", !.line = <<NL>>, !.took = Took,
                                      !.whole = g # << >>]
      PROVE  AllRead'
  <2>. DEFINE whole == g # << >>
              sv == [server EXCEPT !.pc = "stat", !.line = <<NL>>, !.took = Took, !.whole = whole]
  <2>1. server' = sv
    BY <1>4
  <2>. HIDE DEF whole
  <2>2. sv.pc = "stat" /\ sv.conn = c /\ sv.took = Took /\ sv.whole = whole
    BY <1>1 DEF ServerStates
  <2>. HIDE DEF sv
  <2>3. g = << >> \/ g = <<NL>>
    BY <1>4 DEF EmptyLine
  <2>4. ReadAs(sv, srio'.n, cl, u)
    <3>1. whole <=> g # << >>
      BY DEF whole
    <3>. HIDE DEF cl, u, g
    <3>. QED  BY <1>2, <2>2, <2>3, <3>1 DEF ReadAs
  <2>5. sv.pc \in Serving /\ sv.pc \in Finishing
    BY <2>2 DEF Serving, Finishing
  <2>. QED  BY <1>3, <2>1, <2>2, <2>4, <2>5
<1>5. ASSUME NEW text, ReadNext, server' = [server EXCEPT !.line = text, !.took = Took]
      PROVE  AllRead'
  <2>. DEFINE sv == [server EXCEPT !.line = text, !.took = Took]
  <2>1. server' = sv
    BY <1>5
  <2>2. sv.pc = "headers" /\ sv.conn = c /\ sv.took = Took /\ ~sv.whole
    BY <1>1 DEF ServerStates
  <2>. HIDE DEF sv
  <2>3. srio'.n = MaxLine
    BY <1>1, <1>5, FrameSize DEF ReadNext
  <2>4. ReadAs(sv, srio'.n, cl, u)
    <3>. HIDE DEF cl, u
    <3>. QED  BY <1>2, <2>2, <2>3 DEF ReadAs, Finishing
  <2>5. sv.pc \in Serving
    BY <2>2 DEF Serving
  <2>. QED  BY <1>3, <2>1, <2>2, <2>4, <2>5
<1>. QED  BY <1>4, <1>5 DEF Headers

(* It looks for the file, writes, opens the file, and starts the CGI program, which
   writes and ends. *)
LEMMA AnswersRead ==
    ASSUME IInv, AllRead,
           Locate \/ Write \/ Open \/ Fork \/ ChildWrites \/ ChildExits \/ Wait
    PROVE  AllRead'
<1>1. server \in ServerStates
  BY DEF IInv, Typed
<1>2. ASSUME NEW sv, server' = sv, server.pc \in Finishing, sv.pc \in Finishing,
             sv.conn = server.conn, sv.took = server.took, sv.whole = server.whole,
             UNCHANGED <<client, up>>
      PROVE  AllRead'
  BY <1>2, AnswerReads
<1>3. CASE Locate
  <2>1. server.pc = "stat" /\ server.pc \in Finishing /\ UNCHANGED <<client, up>>
    BY <1>3 DEF Locate, At, wires, Finishing
  <2>. DEFINE name == Filename(server.path)
              kind == disk[name]
  <2>2. ASSUME NEW todo, NEW then,
               server' = [server EXCEPT !.pc = "write", !.path = name, !.todo = todo, !.then = then]
        PROVE  AllRead'
    <3>. DEFINE sv == [server EXCEPT !.pc = "write", !.path = name, !.todo = todo, !.then = then]
    <3>1. /\ sv.pc = "write" /\ sv.conn = server.conn /\ sv.took = server.took
          /\ sv.whole = server.whole
      BY <1>1 DEF ServerStates
    <3>2. server' = sv
      BY <2>2
    <3>. HIDE DEF sv
    <3>3. sv.pc \in Finishing
      BY <3>1 DEF Finishing
    <3>. QED  BY <1>2, <2>1, <3>1, <3>2, <3>3
  <2>. HIDE DEF name, kind
  <2>. QED  BY <1>3, <2>2 DEF Locate, name, kind
<1>4. CASE Write
  <2>1. server.pc = "write" /\ server.pc \in Finishing /\ UNCHANGED up
    BY <1>4 DEF Write, At, Finishing
  <2>2. ASSUME NEW k, server' = Wrote(k), UNCHANGED client PROVE AllRead'
    <3>. DEFINE sv == Wrote(k)
    <3>1. /\ sv.pc \in Finishing /\ sv.conn = server.conn /\ sv.took = server.took
          /\ sv.whole = server.whole
      BY <1>1, <2>1 DEF Wrote, ServerStates, Finishing
    <3>. HIDE DEF sv
    <3>. QED  BY <1>2, <2>1, <2>2, <3>1 DEF sv
  <2>. QED  BY <1>4, <2>2, DiesReads DEF Write
<1>5. CASE Open
  <2>1. server.pc = "open" /\ server.pc \in Finishing /\ UNCHANGED up
    BY <1>5 DEF Open, At, wires, Finishing
  <2>2. ASSUME server' = [server EXCEPT !.pc = "write", !.todo = Body(server.path),
                                        !.then = "close"],
               UNCHANGED client
        PROVE  AllRead'
    <3>. DEFINE body == Body(server.path)
                sv == [server EXCEPT !.pc = "write", !.todo = body, !.then = "close"]
    <3>1. server' = sv
      BY <2>2
    <3>. HIDE DEF body
    <3>2. /\ sv.pc = "write" /\ sv.conn = server.conn /\ sv.took = server.took
          /\ sv.whole = server.whole
      BY <1>1 DEF ServerStates
    <3>. HIDE DEF sv
    <3>3. sv.pc \in Finishing
      BY <3>2 DEF Finishing
    <3>. QED  BY <1>2, <2>1, <2>2, <3>1, <3>2, <3>3
  <2>. QED  BY <1>5, <2>2, DiesReads DEF Open
<1>6. ASSUME NEW pc \in {"wait", "close"}, GoTo(pc), server.pc \in Finishing,
             UNCHANGED <<client, up>>
      PROVE  AllRead'
  <2>. DEFINE sv == [server EXCEPT !.pc = pc]
  <2>1. /\ sv.pc = pc /\ sv.conn = server.conn /\ sv.took = server.took
        /\ sv.whole = server.whole
    BY <1>1 DEF ServerStates
  <2>2. server' = sv
    BY <1>6 DEF GoTo
  <2>. HIDE DEF sv
  <2>3. sv.pc \in Finishing
    BY <1>6, <2>1 DEF Finishing
  <2>. QED  BY <1>2, <1>6, <2>1, <2>2, <2>3
<1>7. CASE Fork \/ Wait
  BY <1>6, <1>7 DEF Fork, Wait, At, wires, Finishing
<1>8. CASE ChildWrites \/ ChildExits
  <2>1. server.pc = "wait" /\ server.pc \in Finishing /\ UNCHANGED <<server, client, up>>
    BY <1>8 DEF ChildWrites, ChildExits, wires, IInv, Busy, Finishing
  <2>. QED  BY <2>1, AnswerReads
<1>. QED  BY <1>3, <1>4, <1>5, <1>7, <1>8

(* At the start nothing is read. *)
LEMMA AllReadInit ==
    ASSUME Init
    PROVE  AllRead
<1>. DEFINE cl == [pc |-> "idle", link |-> "none", request |-> NoRequest, todo |-> << >>,
                   seen |-> << >>, unread |-> FALSE]
<1>1. client = [c \in Clients |-> cl] /\ server = [NoServer EXCEPT !.pc = "start"]
  BY DEF Init
<1>2. cl.link = "none" /\ ~cl.unread
  OBVIOUS
<1>. HIDE DEF cl
<1>3. server.pc = "start" /\ ~server.whole
  BY <1>1, NoServerType DEF ServerStates
<1>4. Reading
  BY <1>3 DEF Reading, Serving
<1>5. NoneUnread
  BY <1>1, <1>2 DEF NoneUnread, UnreadAs
<1>. QED  BY <1>3, <1>4, <1>5 DEF AllRead

(* No step answers an ordinary request of which something is unread. *)
LEMMA AllReadStep ==
    ASSUME IInv, Owed, AllRead, [Next]_vars
    PROVE  AllRead'
<1>1. ASSUME UNCHANGED <<client, srio, up, server>> PROVE AllRead'
  BY <1>1 DEF AllRead, Reading, NoneUnread
<1>2. CASE UNCHANGED vars
  BY <1>1, <1>2 DEF vars
<1>3. ASSUME NEW p, Unlink(p) PROVE AllRead'
  BY <1>1, <1>3 DEF Unlink, wires
<1>4. CASE ServerStep
  BY <1>4, TurnsRead, ReadsRead, RequestReads, HeadersRead, AnswersRead DEF ServerStep
<1>5. CASE ChildStep
  BY <1>5, AnswersRead DEF ChildStep
<1>6. ASSUME NEW c \in Clients, Connect(c) \/ Transfers(c) \/ Reset(c) \/ Leave(c)
      PROVE  AllRead'
  BY <1>6, ClientsRead
<1>. QED  BY <1>2, <1>3, <1>4, <1>5, <1>6 DEF Next

(* The server has read all of an ordinary request when it answers after its headers,
   and never resets the connection of one by closing it with data unread, unless it
   dies: however the request was cut up, whoever else is connected. *)
THEOREM RequestsWholeRead == Spec => []ReadsWholeRequest
<1>1. Init => IInv /\ Owed /\ AllRead
  BY IInvInit, OwedInit, AllReadInit
<1>2. IInv /\ Owed /\ AllRead /\ [Next]_vars => (IInv /\ Owed /\ AllRead)'
  BY IInvStep, OwedStep, AllReadStep
<1>3. IInv /\ AllRead => ReadsWholeRequest
  <2>. SUFFICES ASSUME IInv, AllRead PROVE ReadsWholeRequest
    OBVIOUS
  <2>1. ASSUME server.whole, Ordinary(client[server.conn].request)
        PROVE  server.took = Len(Script(client[server.conn].request))
    <3>1. server.pc \in Serving
      BY <2>1 DEF AllRead, Finishing, Serving
    <3>. QED  BY <2>1, <3>1 DEF AllRead, Reading, ReadAs
  <2>2. ASSUME NEW c \in Clients, client[c].unread
        PROVE  ~Ordinary(client[c].request) \/ server.pc = "dead"
    BY <2>2 DEF AllRead, NoneUnread, UnreadAs
  <2>. QED  BY <2>1, <2>2 DEF ReadsWholeRequest
<1>. QED  BY <1>1, <1>2, <1>3, PTL DEF Spec

=============================================================================

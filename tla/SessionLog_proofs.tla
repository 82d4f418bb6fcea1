-------------------------- MODULE SessionLog_proofs --------------------------
(* Proofs about SessionLog: for every set of processes, every line width,    *)
(* every bound, and whatever order power losses keep, an acknowledged event  *)
(* stays where it is; and where no write fails, the incremental readers of   *)
(* LogReader hold what the file holds, and the forks of SessionStore keep    *)
(* what they were forked from.                                               *)
EXTENDS SessionStore, SeqSelect_proofs, TLAPS
-----------------------------------------------------------------------------
(* Sequences of cells.                                                       *)

(* The length and the cells of a prefix.                                     *)
LEMMA PrefixFacts ==
    ASSUME NEW S, NEW f \in Seq(S), NEW n \in 0..Len(f)
    PROVE  /\ Prefix(f, n) \in Seq(S)
           /\ Len(Prefix(f, n)) = n
           /\ \A i \in 1..n : Prefix(f, n)[i] = f[i]
  BY DEF Prefix

(* The length and the cells of what is left behind a prefix.                 *)
LEMMA SuffixFacts ==
    ASSUME NEW S, NEW f \in Seq(S), NEW n \in 0..Len(f)
    PROVE  /\ Suffix(f, n) \in Seq(S)
           /\ Len(Suffix(f, n)) = Len(f) - n
           /\ \A i \in 1..(Len(f) - n) : Suffix(f, n)[i] = f[n + i]
  BY DEF Suffix

(* A prefix, by its length and its cells.                                    *)
IsPrefix(g, f, n) == g = Prefix(f, n) /\ Len(g) = n /\ \A i \in 1..n : g[i] = f[i]

(* Every sequence has one of every length up to its own.                     *)
LEMMA PrefixIs ==
    ASSUME NEW S, NEW f \in Seq(S), NEW n \in 0..Len(f)
    PROVE  \E g \in Seq(S) : IsPrefix(g, f, n)
  <1>1. Prefix(f, n) \in Seq(S) /\ Len(Prefix(f, n)) = n
    BY PrefixFacts
  <1>2. \A i \in 1..n : Prefix(f, n)[i] = f[i]
    BY PrefixFacts
  <1> QED BY <1>1, <1>2 DEF IsPrefix

(* What is behind a prefix, by its length and its cells.                     *)
IsSuffix(g, f, n) ==
    /\ g = Suffix(f, n) /\ Len(g) = Len(f) - n
    /\ \A i \in 1..(Len(f) - n) : g[i] = f[n + i]

(* Something is behind every prefix.                                         *)
LEMMA SuffixIs ==
    ASSUME NEW S, NEW f \in Seq(S), NEW n \in 0..Len(f)
    PROVE  \E g \in Seq(S) : IsSuffix(g, f, n)
  <1>1. Suffix(f, n) \in Seq(S) /\ Len(Suffix(f, n)) = Len(f) - n
    BY SuffixFacts
  <1>2. \A i \in 1..(Len(f) - n) : Suffix(f, n)[i] = f[n + i]
    BY SuffixFacts
  <1> QED BY <1>1, <1>2 DEF IsSuffix

(* f \o g, kept folded where only these facts about it matter.               *)
Concat(f, g) == f \o g

(* The length and the cells of a concatenation.                              *)
LEMMA ConcatFacts ==
    ASSUME NEW S, NEW f \in Seq(S), NEW g \in Seq(S)
    PROVE  /\ Concat(f, g) \in Seq(S)
           /\ Len(Concat(f, g)) = Len(f) + Len(g)
           /\ \A i \in 1..Len(f) : Concat(f, g)[i] = f[i]
           /\ \A i \in 1..Len(g) : Concat(f, g)[Len(f) + i] = g[i]
  BY DEF Concat

(* Sequences of one length with the same elements are equal.                 *)
LEMMA SameCells ==
    ASSUME NEW S, NEW f \in Seq(S), NEW g \in Seq(S), Len(f) = Len(g),
           \A i \in 1..Len(f) : f[i] = g[i]
    PROVE  f = g
  OBVIOUS

(* Writing a buffer in two pieces writes the buffer.                         *)
LEMMA SplitWrite ==
    ASSUME NEW S, NEW f \in Seq(S), NEW b \in Seq(S), NEW k \in 0..Len(b)
    PROVE  (f \o Prefix(b, k)) \o Suffix(b, k) = f \o b
  <1>1. PICK p \in Seq(S) : /\ p = Prefix(b, k) /\ Len(p) = k
                            /\ \A i \in 1..k : p[i] = b[i]
    <2>1. \E p \in Seq(S) : IsPrefix(p, b, k)
      BY PrefixIs
    <2> QED BY <2>1 DEF IsPrefix
  <1>2. PICK s \in Seq(S) : /\ s = Suffix(b, k) /\ Len(s) = Len(b) - k
                            /\ \A i \in 1..(Len(b) - k) : s[i] = b[k + i]
    <2>1. \E s \in Seq(S) : IsSuffix(s, b, k)
      BY SuffixIs
    <2> QED BY <2>1 DEF IsSuffix
  <1>3. PICK m \in Seq(S) : /\ m = Concat(f, p) /\ Len(m) = Len(f) + k
                            /\ \A i \in 1..Len(f) : m[i] = f[i]
                            /\ \A i \in 1..k : m[Len(f) + i] = p[i]
    <2>1. Concat(f, p) \in Seq(S) /\ Len(Concat(f, p)) = Len(f) + Len(p)
      BY ConcatFacts
    <2>2. \A i \in 1..Len(f) : Concat(f, p)[i] = f[i]
      BY ConcatFacts
    <2>3. \A i \in 1..Len(p) : Concat(f, p)[Len(f) + i] = p[i]
      BY ConcatFacts
    <2> QED BY <1>1, <2>1, <2>2, <2>3
  <1>4. PICK l \in Seq(S) : /\ l = Concat(m, s) /\ Len(l) = Len(f) + Len(b)
                            /\ \A i \in 1..(Len(f) + k) : l[i] = m[i]
                            /\ \A i \in 1..(Len(b) - k) : l[Len(f) + k + i] = s[i]
    <2>1. Concat(m, s) \in Seq(S) /\ Len(Concat(m, s)) = Len(m) + Len(s)
      BY ConcatFacts
    <2>2. \A i \in 1..Len(m) : Concat(m, s)[i] = m[i]
      BY ConcatFacts
    <2>3. \A i \in 1..Len(s) : Concat(m, s)[Len(m) + i] = s[i]
      BY ConcatFacts
    <2> QED BY <1>2, <1>3, <2>1, <2>2, <2>3
  <1>5. PICK r \in Seq(S) : /\ r = Concat(f, b) /\ Len(r) = Len(f) + Len(b)
                            /\ \A i \in 1..Len(f) : r[i] = f[i]
                            /\ \A i \in 1..Len(b) : r[Len(f) + i] = b[i]
    <2>1. Concat(f, b) \in Seq(S) /\ Len(Concat(f, b)) = Len(f) + Len(b)
      BY ConcatFacts
    <2>2. \A i \in 1..Len(f) : Concat(f, b)[i] = f[i]
      BY ConcatFacts
    <2>3. \A i \in 1..Len(b) : Concat(f, b)[Len(f) + i] = b[i]
      BY ConcatFacts
    <2> QED BY <2>1, <2>2, <2>3
  <1>6. ASSUME NEW i \in 1..Len(l) PROVE l[i] = r[i]
    <2>1. CASE i <= Len(f)
      <3>1. i \in 1..Len(f) /\ i \in 1..(Len(f) + k)
        BY <2>1
      <3> QED BY <3>1, <1>3, <1>4, <1>5
    <2>2. CASE i > Len(f) /\ i <= Len(f) + k
      <3>1. PICK j \in 1..k : i = Len(f) + j
        <4>1. i - Len(f) \in 1..k /\ i = Len(f) + (i - Len(f))
          BY <2>2
        <4> QED BY <4>1
      <3>2. i \in 1..(Len(f) + k) /\ j \in 1..Len(b)
        BY <2>2
      <3>3. l[i] = m[Len(f) + j] /\ m[Len(f) + j] = p[j] /\ p[j] = b[j]
        BY <3>1, <3>2, <1>1, <1>3, <1>4
      <3>4. r[Len(f) + j] = b[j]
        BY <3>2, <1>5
      <3> QED BY <3>1, <3>3, <3>4
    <2>3. CASE i > Len(f) + k
      <3>1. PICK j \in 1..(Len(b) - k) : i = Len(f) + k + j
        <4>1. i - Len(f) - k \in 1..(Len(b) - k) /\ i = Len(f) + k + (i - Len(f) - k)
          BY <2>3, <1>4
        <4> QED BY <4>1
      <3>2. k + j \in 1..Len(b) /\ i = Len(f) + (k + j)
        BY <3>1
      <3>3. l[i] = s[j] /\ s[j] = b[k + j]
        BY <3>1, <1>2, <1>4
      <3>4. r[i] = b[k + j]
        BY <3>2, <1>5
      <3> QED BY <3>3, <3>4
    <2> QED BY <2>1, <2>2, <2>3
  <1>7. l = r
    BY <1>4, <1>5, <1>6, SameCells
  <1> QED BY <1>1, <1>2, <1>3, <1>4, <1>5, <1>7 DEF Concat

(* Whether the line that ends at n is valid depends on the cells up to n.    *)
LEMMA ValidAgree ==
    ASSUME NEW f \in Seq(Cell), NEW g \in Seq(Cell), NEW n \in Nat,
           n <= Len(f), n <= Len(g),
           \A i \in 1..n : f[i] = g[i],
           ValidLine(f, n)
    PROVE  ValidLine(g, n)
  <1>1. n \in 1..Len(f) /\ f[n] = g[n] /\ n \in 1..n
    BY DEF ValidLine
  <1>2. f[n] \in Cell
    BY <1>1
  <1>3. f[n].of \in Nat \ {0}
    BY <1>2 DEF Cell, EventCell, Zero
  <1>3a. f[n].of <= n /\ g[n] = f[n]
    BY <1>1 DEF ValidLine
  <1>4. ASSUME NEW i \in 1..f[n].of
        PROVE  g[n - f[n].of + i] = f[n - f[n].of + i]
    <2>1. n - f[n].of + i \in 1..n
      BY <1>1, <1>3, <1>3a
    <2> QED BY <2>1
  <1>4a. ASSUME NEW i \in 1..f[n].of
         PROVE  f[n - f[n].of + i] = [ev |-> f[n].ev, part |-> i, of |-> f[n].of]
    BY DEF ValidLine
  <1>5. f[n].of = n \/ Newline(g[n - f[n].of])
    BY <1>1, <1>3 DEF ValidLine
  <1>6. \A i \in 1..g[n].of :
           g[n - g[n].of + i] = [ev |-> g[n].ev, part |-> i, of |-> g[n].of]
    BY <1>3a, <1>4, <1>4a
  <1>7. Newline(g[n]) /\ n \in 1..Len(g)
    BY <1>1, <1>3a DEF ValidLine
  <1> QED
    BY <1>3a, <1>5, <1>6, <1>7 DEF ValidLine

(* The cells of one event.                                                   *)
LEMMA CellsFacts ==
    ASSUME NEW e \in Nat \ {0}, NEW w \in Nat \ {0}
    PROVE  /\ Cells(e, w) \in Seq(Cell)
           /\ Len(Cells(e, w)) = w
           /\ \A i \in 1..w : Cells(e, w)[i] = [ev |-> e, part |-> i, of |-> w]
  BY DEF Cells, Cell, EventCell

(* An event written behind a complete line is a valid line.                  *)
LEMMA WriteValid ==
    ASSUME NEW f \in Seq(Cell), Len(f) = 0 \/ Newline(f[Len(f)]),
           NEW e \in Nat \ {0}, NEW w \in Nat \ {0}
    PROVE  ValidLine(f \o Cells(e, w), Len(f) + w)
  <1>1. PICK c \in Seq(Cell) :
          /\ c = Cells(e, w) /\ Len(c) = w
          /\ \A i \in 1..w : c[i] = [ev |-> e, part |-> i, of |-> w]
    BY CellsFacts
  <1>2. PICK g \in Seq(Cell) :
          /\ g = Concat(f, c) /\ Len(g) = Len(f) + w
          /\ \A i \in 1..Len(f) : g[i] = f[i]
          /\ \A i \in 1..w : g[Len(f) + i] = c[i]
    <2>1. Concat(f, c) \in Seq(Cell) /\ Len(Concat(f, c)) = Len(f) + Len(c)
      BY ConcatFacts
    <2>2. \A i \in 1..Len(f) : Concat(f, c)[i] = f[i]
      BY ConcatFacts
    <2>3. \A i \in 1..Len(c) : Concat(f, c)[Len(f) + i] = c[i]
      BY ConcatFacts
    <2> QED BY <1>1, <2>1, <2>2, <2>3
  <1>3. PICK n \in Nat : n = Len(f) + w
    OBVIOUS
  <1>4. g[n] = [ev |-> e, part |-> w, of |-> w]
    BY <1>1, <1>2, <1>3
  <1>5. n \in 1..Len(g) /\ n - w = Len(f) /\ w <= n
    BY <1>2, <1>3
  <1>6. ASSUME NEW i \in 1..w PROVE g[n - w + i] = [ev |-> e, part |-> i, of |-> w]
    BY <1>1, <1>2, <1>5
  <1>7. w = n \/ Newline(g[n - w])
    <2>1. CASE Len(f) = 0
      BY <2>1, <1>3
    <2>2. CASE Len(f) # 0
      <3>1. Len(f) \in 1..Len(f) /\ Newline(f[Len(f)])
        BY <2>2
      <3> QED BY <3>1, <1>2, <1>5
    <2> QED BY <2>1, <2>2
  <1>8. ValidLine(g, n)
    BY <1>4, <1>5, <1>6, <1>7 DEF ValidLine, Newline
  <1> QED BY <1>1, <1>2, <1>3, <1>8 DEF Concat
-----------------------------------------------------------------------------
(* The steps of the log, one lemma per kind of step.                         *)

(* The acknowledged prefix is intact in any file that agrees with it.        *)
LEMMA IntactAgree ==
    ASSUME IInv,
           file' \in Seq(Cell), stable' \in Seq(Cell), committed' = committed,
           committed <= Len(file'), committed <= Len(stable'),
           \A i \in 1..committed : file'[i] = file[i],
           \A i \in 1..committed : stable'[i] = file[i]
    PROVE  CommittedIntact'
  <1>1. committed \in Nat /\ file \in Seq(Cell)
    BY DEF IInv, TypeOK
  <1>2. \A i \in 1..committed' : file'[i] = stable'[i]
    OBVIOUS
  <1>3. ASSUME committed > 0 PROVE committed \in ValidEnds(file')
    <2>1. ValidLine(file, committed) /\ committed <= Len(file)
      BY <1>3 DEF IInv, CommittedIntact, ValidEnds
    <2>2. ValidLine(file', committed)
      BY <2>1, <1>1, ValidAgree
    <2> QED BY <2>2 DEF ValidEnds, LineEnds, ValidLine
  <1> QED BY <1>2, <1>3 DEF CommittedIntact

(* Only the lock holder is past the lock.                                    *)
LEMMA OneHolder ==
    ASSUME IInv, NEW p \in Proc, pc[p] \in Holding
    PROVE  /\ lock = p
           /\ \A q \in Proc : q # p => pc[q] \in {"closed", "created"}
  BY DEF IInv, TypeOK, LockInv, Holding

(* A write starts: what the buffer holds will end with a complete line.      *)
LEMMA BeginWriteBuf ==
    ASSUME IInv, NEW p \in Proc, NEW here, NEW what, BeginWrite(p, here, what),
           AtLine(Len(file))
    PROVE  /\ buf' \in Seq(Cell) /\ buf' # <<>>
           /\ ValidLine(file \o buf', Len(file) + Len(buf'))
           /\ batch' \subseteq Nat /\ nextId' \in Nat \ {0} /\ base' = Len(file)
  <1>1. file \in Seq(Cell) /\ nextId \in Nat \ {0} /\ Width \subseteq Nat \ {0}
    BY ConstantsAssumption DEF IInv, TypeOK
  <1>2. Len(file) = 0 \/ Newline(file[Len(file)])
    BY DEF AtLine, LineEnds
  <1>3. PICK w \in Width :
          \/ /\ buf' = Cells(nextId, w)
             /\ batch' = {nextId}
             /\ nextId' = nextId + 1
          \/ /\ \E w2 \in Width : buf' = Cells(nextId, w) \o Cells(nextId + 1, w2)
             /\ batch' = {nextId, nextId + 1}
             /\ nextId' = nextId + 2
    BY DEF BeginWrite
  <1>4. base' = Len(file)
    BY DEF BeginWrite
  <1>5. CASE buf' = Cells(nextId, w) /\ batch' = {nextId} /\ nextId' = nextId + 1
    <2>1. buf' \in Seq(Cell) /\ Len(buf') = w
      BY <1>1, <1>5, CellsFacts
    <2>2. ValidLine(file \o buf', Len(file) + w)
      BY <1>1, <1>2, <1>5, WriteValid
    <2>3. buf' # <<>>
      BY <1>1, <2>1
    <2>4. batch' \subseteq Nat /\ nextId' \in Nat \ {0}
      BY <1>1, <1>5
    <2> QED BY <1>4, <2>1, <2>2, <2>3, <2>4
  <1>6. CASE /\ \E w2 \in Width : buf' = Cells(nextId, w) \o Cells(nextId + 1, w2)
             /\ batch' = {nextId, nextId + 1} /\ nextId' = nextId + 2
    <2>1. PICK w2 \in Width : buf' = Concat(Cells(nextId, w), Cells(nextId + 1, w2))
      BY <1>6 DEF Concat
    <2>2. PICK c \in Seq(Cell) :
            /\ c = Cells(nextId, w) /\ Len(c) = w
            /\ \A i \in 1..w : c[i] = [ev |-> nextId, part |-> i, of |-> w]
      BY <1>1, CellsFacts
    <2>2a. nextId + 1 \in Nat \ {0} /\ w2 \in Nat \ {0}
      BY <1>1
    <2>3. PICK d \in Seq(Cell) : d = Cells(nextId + 1, w2) /\ Len(d) = w2
      BY <2>2a, CellsFacts
    <2>4. buf' \in Seq(Cell) /\ Len(buf') = w + w2
      BY <2>1, <2>2, <2>3, ConcatFacts
    <2>5. PICK g \in Seq(Cell) : g = Concat(file, c) /\ Len(g) = Len(file) + w
      BY <1>1, <2>2, ConcatFacts
    <2>6. ValidLine(g, Len(g))
      BY <1>1, <1>2, <2>2, <2>5, WriteValid DEF Concat
    <2>7. Newline(g[Len(g)])
      BY <2>6 DEF ValidLine
    <2>8. ValidLine(g \o d, Len(g) + w2)
      BY <2>2a, <2>3, <2>7, WriteValid
    <2>9. g \o d = file \o buf'
      <3>1. Prefix(buf', w) = c /\ Suffix(buf', w) = d
        <4>1. w \in 0..Len(buf') /\ w \in Nat /\ w2 \in Nat
          BY <1>1, <2>4
        <4>2. PICK b \in Seq(Cell) :
                /\ b = Concat(c, d) /\ Len(b) = w + w2
                /\ \A i \in 1..w : b[i] = c[i]
                /\ \A i \in 1..w2 : b[w + i] = d[i]
          <5>1. Concat(c, d) \in Seq(Cell) /\ Len(Concat(c, d)) = Len(c) + Len(d)
            BY ConcatFacts
          <5>2. \A i \in 1..Len(c) : Concat(c, d)[i] = c[i]
            BY ConcatFacts
          <5>3. \A i \in 1..Len(d) : Concat(c, d)[Len(c) + i] = d[i]
            BY ConcatFacts
          <5> QED BY <2>2, <2>3, <5>1, <5>2, <5>3
        <4>3. b = buf'
          BY <2>1, <2>2, <2>3, <4>2
        <4>4. PICK x \in Seq(Cell) : /\ x = Prefix(b, w) /\ Len(x) = w
                                     /\ \A i \in 1..w : x[i] = b[i]
          <5>1. \E x \in Seq(Cell) : IsPrefix(x, b, w)
            BY <4>1, <4>3, PrefixIs
          <5> QED BY <5>1 DEF IsPrefix
        <4>5. x = c
          BY <4>2, <4>4, <2>2, SameCells
        <4>6. PICK y \in Seq(Cell) : /\ y = Suffix(b, w) /\ Len(y) = Len(b) - w
                                     /\ \A i \in 1..(Len(b) - w) : y[i] = b[w + i]
          <5>1. \E y \in Seq(Cell) : IsSuffix(y, b, w)
            BY <4>1, <4>3, SuffixIs
          <5> QED BY <5>1 DEF IsSuffix
        <4>7. Len(y) = w2 /\ \A i \in 1..w2 : y[i] = d[i]
          BY <4>1, <4>2, <4>6
        <4>8. y = d
          BY <4>6, <4>7, <2>3, SameCells
        <4> QED BY <4>3, <4>4, <4>5, <4>6, <4>8
      <3>2. w \in 0..Len(buf')
        BY <1>1, <2>4
      <3> QED BY <1>1, <2>4, <2>5, <3>1, <3>2, SplitWrite DEF Concat
    <2>10. Len(g) + w2 = Len(file) + Len(buf')
      BY <1>1, <2>4, <2>5
    <2>11. buf' # <<>>
      BY <1>1, <2>4
    <2>12. batch' \subseteq Nat /\ nextId' \in Nat \ {0}
      BY <1>1, <1>6
    <2> QED BY <1>4, <2>4, <2>8, <2>9, <2>10, <2>11, <2>12
  <1> QED BY <1>3, <1>5, <1>6

(* The holder p takes a step and keeps the lock: what is left to show of the *)
(* per-process conjuncts is what they say of p.                              *)
LEMMA HolderStep ==
    ASSUME IInv, NEW p \in Proc, NEW there \in Holding, pc[p] \in Holding,
           pc' = [pc EXCEPT ![p] = there], lock' = lock, exists' = exists,
           file # <<>> \/ pc[p] # "checking",
           BaseAt(p)', TailAt(p)'
    PROVE  pc' \in [Proc -> PC] /\ LockInv' /\ CreateInv' /\ BaseInv' /\ TailInv'
  <1>1. pc \in [Proc -> PC] /\ there \in PC
    BY DEF IInv, TypeOK, Holding
  <1>2. lock = p /\ \A q \in Proc : q # p => pc[q] \in {"closed", "created"}
    BY OneHolder
  <1>3. pc'[p] = there /\ \A q \in Proc : q # p => pc'[q] = pc[q]
    BY <1>1
  <1>4. \A q \in Proc : pc[q] # "created"
    BY DEF IInv, CreateInv, Holding
  <1>5. exists
    BY DEF IInv, CreateInv, TypeOK, Holding
  <1>6. \A q \in Proc : q # p => pc'[q] = "closed"
    BY <1>2, <1>3, <1>4
  <1>7. pc' \in [Proc -> PC]
    BY <1>1
  <1>8. LockInv'
    BY <1>2, <1>3, <1>6 DEF LockInv, Holding
  <1>9. CreateInv'
    BY <1>3, <1>5, <1>6 DEF CreateInv, Holding
  <1>10. BaseInv'
    <2>1. ASSUME NEW q \in Proc, q # p PROVE BaseAt(q)'
      BY <1>6, <2>1 DEF BaseAt, Writing
    <2> QED BY <2>1 DEF BaseInv
  <1>11. TailInv'
    <2>1. ASSUME NEW q \in Proc, q # p PROVE TailAt(q)'
      BY <1>6, <2>1 DEF TailAt
    <2> QED BY <2>1 DEF TailInv
  <1> QED BY <1>7, <1>8, <1>9, <1>10, <1>11

(* p gives its handle up and the file stays.                                 *)
LEMMA ReleaseStep ==
    ASSUME IInv, NEW p \in Proc, pc[p] # "closed", Release(p),
           UNCHANGED <<exists, file, base, committed, buf>>
    PROVE  /\ pc' \in [Proc -> PC] /\ lock' \in Proc \cup {None}
           /\ LockInv' /\ CreateInv' /\ BaseInv' /\ TailInv'
  <1>1. pc \in [Proc -> PC] /\ lock \in Proc \cup {None} /\ None \notin Proc
    BY ConstantsAssumption DEF IInv, TypeOK
  <1>2. pc'[p] = "closed" /\ \A q \in Proc : q # p => pc'[q] = pc[q]
    BY <1>1 DEF Release
  <1>3. pc' \in [Proc -> PC] /\ lock' \in Proc \cup {None}
    BY <1>1 DEF Release, PC
  <1>4. LockInv'
    BY <1>1, <1>2 DEF LockInv, Release, Holding, IInv
  <1>5. CreateInv'
    BY <1>2 DEF CreateInv, IInv
  <1>6. ASSUME NEW q \in Proc PROVE BaseAt(q)'
    <2>1. CASE q = p
      BY <1>2, <2>1 DEF BaseAt, Writing
    <2>2. CASE q # p
      BY <1>2, <2>2 DEF BaseAt, IInv, BaseInv, AtLine, LineEnds
    <2> QED BY <2>1, <2>2
  <1>7. ASSUME NEW q \in Proc PROVE TailAt(q)'
    <2>1. CASE q = p
      BY <1>2, <2>1 DEF TailAt
    <2>2. CASE q # p
      BY <1>2, <2>2 DEF TailAt, IInv, TailInv, AtLine, LineEnds
    <2> QED BY <2>1, <2>2
  <1>8. BaseInv' /\ TailInv'
    BY <1>6, <1>7 DEF BaseInv, TailInv
  <1> QED BY <1>3, <1>4, <1>5, <1>8

(* The file and what is acknowledged stay; the disk may hold the file.       *)
LEMMA IntactSame ==
    ASSUME IInv, UNCHANGED <<file, committed>>, stable' \in {stable, file}
    PROVE  CommittedIntact' /\ file' \in Seq(Cell) /\ stable' \in Seq(Cell)
  <1>1. file' \in Seq(Cell) /\ stable' \in Seq(Cell)
    BY DEF IInv, TypeOK
  <1>2. committed <= Len(file') /\ committed <= Len(stable')
    BY DEF IInv, CommittedIntact
  <1>3. /\ \A i \in 1..committed : file'[i] = file[i]
        /\ \A i \in 1..committed : stable'[i] = file[i]
    BY DEF IInv, CommittedIntact
  <1> QED BY <1>1, <1>2, <1>3, IntactAgree

(* WriteSome: the file grows by what the buffer loses.                       *)
LEMMA WriteSomeStep ==
    ASSUME IInv, NEW p \in Proc, WriteSome(p)
    PROVE  IInv'
  <1>1. /\ pc[p] = "writing" /\ pc[p] \in Holding /\ pc[p] \in Writing
        /\ file \in Seq(Cell) /\ buf \in Seq(Cell) /\ base \in Nat /\ committed \in Nat
    BY DEF WriteSome, Holding, Writing, PC, IInv, TypeOK
  <1>2. PICK k \in 1..Len(buf) :
          /\ file' = file \o Prefix(buf, k)
          /\ buf' = Suffix(buf, k)
          /\ pc' = [pc EXCEPT ![p] = IF k = Len(buf) THEN "syncing" ELSE "writing"]
    BY DEF WriteSome
  <1>3. UNCHANGED <<exists, stable, sidecars, lock, base, purpose, batch, nextId,
                    committed, refused>>
    BY DEF WriteSome, history
  <1>4. PICK x \in Seq(Cell) : x = Prefix(buf, k) /\ Len(x) = k
    <2>1. k \in 0..Len(buf)
      BY <1>1
    <2>2. \E x \in Seq(Cell) : IsPrefix(x, buf, k)
      BY <2>1, <1>1, PrefixIs
    <2> QED BY <2>2 DEF IsPrefix
  <1>5. PICK y \in Seq(Cell) : y = Suffix(buf, k) /\ Len(y) = Len(buf) - k
    <2>1. k \in 0..Len(buf)
      BY <1>1
    <2>2. \E y \in Seq(Cell) : IsSuffix(y, buf, k)
      BY <2>1, <1>1, SuffixIs
    <2> QED BY <2>2 DEF IsSuffix
  <1>6. /\ Concat(file, x) \in Seq(Cell)
        /\ Len(Concat(file, x)) = Len(file) + k
        /\ \A i \in 1..Len(file) : Concat(file, x)[i] = file[i]
    BY <1>1, <1>4, ConcatFacts
  <1>7. file' = Concat(file, x) /\ buf' = y
    BY <1>2, <1>4, <1>5 DEF Concat
  <1>8. /\ file' \in Seq(Cell) /\ Len(file') = Len(file) + k /\ k >= 1
        /\ \A i \in 1..Len(file) : file'[i] = file[i]
    BY <1>1, <1>6, <1>7
  <1>9. ValidLine(file' \o buf', Len(file') + Len(buf'))
    <2>1. ValidLine(file \o buf, Len(file) + Len(buf))
      BY <1>1 DEF IInv, TailInv, TailAt
    <2>2. file' \o buf' = file \o buf
      <3>1. k \in 0..Len(buf)
        BY <1>1
      <3> QED BY <3>1, <1>1, <1>2, SplitWrite
    <2>3. Len(file') + Len(buf') = Len(file) + Len(buf)
      <3>1. Len(buf') = Len(buf) - k
        BY <1>5, <1>7
      <3>2. Len(file) \in Nat /\ Len(buf) \in Nat /\ k \in Nat
        BY <1>1
      <3> QED BY <1>8, <3>1, <3>2
    <2> QED BY <2>1, <2>2, <2>3
  <1>10. CASE k = Len(buf)
    <2>1. ValidLine(file', Len(file'))
      <3>1. Len(buf') = 0
        BY <1>1, <1>5, <1>7, <1>10
      <3>2. Concat(file', buf') = file'
        <4>1. PICK g \in Seq(Cell) : g = file'
          BY <1>8
        <4>2. Concat(g, y) \in Seq(Cell) /\ Len(Concat(g, y)) = Len(g) + Len(y)
          BY ConcatFacts
        <4>3. \A i \in 1..Len(g) : Concat(g, y)[i] = g[i]
          BY ConcatFacts
        <4>4. Len(y) = 0
          BY <1>7, <3>1
        <4>5. Len(Concat(g, y)) = Len(g)
          BY <4>2, <4>4
        <4>6. Concat(g, y) = g
          BY <4>2, <4>3, <4>5, SameCells
        <4> QED BY <1>7, <4>1, <4>6
      <3>3. Len(file') + Len(buf') = Len(file')
        BY <1>8, <3>1
      <3> QED BY <1>9, <3>2, <3>3 DEF Concat
    <2>2. pc' = [pc EXCEPT ![p] = "syncing"]
      BY <1>2, <1>10
    <2>3. pc'[p] = "syncing" /\ "syncing" \in Holding
      BY <2>2 DEF IInv, TypeOK, Holding, PC
    <2>4. TailAt(p)'
      BY <2>1, <2>3 DEF TailAt
    <2>5. BaseAt(p)'
      <3>1. committed <= base /\ base <= Len(file) /\ AtLine(base)
        BY <1>1 DEF IInv, BaseInv, BaseAt
      <3>2. base \in LineEnds(file) => base \in LineEnds(file')
        BY <1>1, <1>8 DEF LineEnds
      <3> QED BY <1>1, <1>3, <1>8, <2>3, <3>1, <3>2 DEF BaseAt, AtLine
    <2>6. pc' \in [Proc -> PC] /\ LockInv' /\ CreateInv' /\ BaseInv' /\ TailInv'
      BY <1>1, <1>3, <2>2, <2>3, <2>4, <2>5, HolderStep
    <2>7. CommittedIntact'
      <3>1. /\ committed <= Len(file) /\ committed <= Len(stable)
            /\ \A i \in 1..committed : file[i] = stable[i]
            /\ stable \in Seq(Cell)
        BY DEF IInv, CommittedIntact, TypeOK
      <3> QED BY <1>1, <1>3, <1>8, <3>1, IntactAgree
    <2>8. TypeOK'
      BY <1>3, <1>5, <1>7, <1>8, <2>6 DEF IInv, TypeOK
    <2> QED BY <2>6, <2>7, <2>8 DEF IInv
  <1>11. CASE k # Len(buf)
    <2>1. buf' # <<>>
      BY <1>1, <1>5, <1>7, <1>11
    <2>2. pc' = [pc EXCEPT ![p] = "writing"]
      BY <1>2, <1>11
    <2>3. pc'[p] = "writing" /\ "writing" \in Holding
      BY <2>2 DEF IInv, TypeOK, Holding, PC
    <2>4. TailAt(p)'
      BY <1>9, <2>1, <2>3 DEF TailAt
    <2>5. BaseAt(p)'
      <3>1. committed <= base /\ base <= Len(file) /\ AtLine(base)
        BY <1>1 DEF IInv, BaseInv, BaseAt
      <3>2. base \in LineEnds(file) => base \in LineEnds(file')
        BY <1>1, <1>8 DEF LineEnds
      <3> QED BY <1>1, <1>3, <1>8, <2>3, <3>1, <3>2 DEF BaseAt, AtLine
    <2>6. pc' \in [Proc -> PC] /\ LockInv' /\ CreateInv' /\ BaseInv' /\ TailInv'
      BY <1>1, <1>3, <2>2, <2>3, <2>4, <2>5, HolderStep
    <2>7. CommittedIntact'
      <3>1. /\ committed <= Len(file) /\ committed <= Len(stable)
            /\ \A i \in 1..committed : file[i] = stable[i]
            /\ stable \in Seq(Cell)
        BY DEF IInv, CommittedIntact, TypeOK
      <3> QED BY <1>1, <1>3, <1>8, <3>1, IntactAgree
    <2>8. TypeOK'
      BY <1>3, <1>5, <1>7, <1>8, <2>6 DEF IInv, TypeOK
    <2> QED BY <2>6, <2>7, <2>8 DEF IInv
  <1> QED BY <1>10, <1>11

(* SyncOk: what is acknowledged now ends with the line just written.         *)
LEMMA SyncOkStep ==
    ASSUME IInv, NEW p \in Proc, SyncOk(p)
    PROVE  IInv'
  <1>1. /\ pc[p] = "syncing" /\ pc' = [pc EXCEPT ![p] = "open"]
        /\ pc[p] \in Holding /\ "open" \in Holding /\ pc'[p] = "open"
        /\ file \in Seq(Cell)
    BY DEF SyncOk, Goto, Holding, PC, IInv, TypeOK
  <1>2. /\ UNCHANGED <<exists, file, sidecars, lock, buf, base, purpose, batch,
                       nextId, refused>>
        /\ stable' = file /\ committed' = Len(file)
    BY DEF SyncOk
  <1>3. ValidLine(file, Len(file))
    BY <1>1 DEF IInv, TailInv, TailAt
  <1>4. BaseAt(p)'
    BY <1>1 DEF BaseAt, Writing
  <1>5. TailAt(p)'
    BY <1>1, <1>2, <1>3 DEF TailAt, AtLine, LineEnds, ValidLine
  <1>6. pc' \in [Proc -> PC] /\ LockInv' /\ CreateInv' /\ BaseInv' /\ TailInv'
    BY <1>1, <1>2, <1>4, <1>5, HolderStep
  <1>7. CommittedIntact'
    BY <1>1, <1>2, <1>3 DEF CommittedIntact, ValidEnds, LineEnds, ValidLine
  <1>8. TypeOK'
    BY <1>1, <1>2, <1>6 DEF IInv, TypeOK
  <1> QED BY <1>6, <1>7, <1>8 DEF IInv

(* Steps that leave the file alone and end where nothing is under way.       *)
LEMMA QuietStep ==
    ASSUME IInv, NEW p \in Proc, NEW here \in Holding, NEW there \in Holding,
           Goto(p, here, there),
           UNCHANGED <<exists, file, lock, buf, committed>>,
           stable' \in {stable, file}, file # <<>> \/ here # "checking",
           BaseAt(p)', TailAt(p)'
    PROVE  /\ pc' \in [Proc -> PC] /\ LockInv' /\ CreateInv' /\ BaseInv' /\ TailInv'
           /\ CommittedIntact' /\ file' \in Seq(Cell) /\ stable' \in Seq(Cell)
  <1>1. pc[p] = here /\ pc' = [pc EXCEPT ![p] = there]
    BY DEF Goto
  <1>2. pc' \in [Proc -> PC] /\ LockInv' /\ CreateInv' /\ BaseInv' /\ TailInv'
    BY <1>1, HolderStep
  <1>3. CommittedIntact' /\ file' \in Seq(Cell) /\ stable' \in Seq(Cell)
    BY IntactSame
  <1> QED BY <1>2, <1>3

(* Steps that cut the file behind the acknowledged prefix.                   *)
LEMMA CutStep ==
    ASSUME IInv, NEW p \in Proc, NEW here \in Holding, NEW there \in Holding,
           Goto(p, here, there), here # "checking",
           NEW n \in 0..Len(file), committed <= n, file' = Prefix(file, n),
           UNCHANGED <<exists, stable, lock, committed>>,
           BaseAt(p)', TailAt(p)'
    PROVE  /\ pc' \in [Proc -> PC] /\ LockInv' /\ CreateInv' /\ BaseInv' /\ TailInv'
           /\ CommittedIntact' /\ file' \in Seq(Cell)
  <1>1. pc[p] = here /\ pc' = [pc EXCEPT ![p] = there]
    BY DEF Goto
  <1>2. pc' \in [Proc -> PC] /\ LockInv' /\ CreateInv' /\ BaseInv' /\ TailInv'
    BY <1>1, HolderStep
  <1>3. /\ file \in Seq(Cell) /\ stable \in Seq(Cell) /\ committed \in Nat
        /\ committed <= Len(stable) /\ \A i \in 1..committed : file[i] = stable[i]
    BY DEF IInv, TypeOK, CommittedIntact
  <1>4. /\ file' \in Seq(Cell) /\ Len(file') = n
        /\ \A i \in 1..n : file'[i] = file[i]
    BY <1>3, PrefixFacts
  <1>5. CommittedIntact'
    BY <1>3, <1>4, IntactAgree
  <1> QED BY <1>2, <1>4, <1>5

(* A line end of the file is one of its prefix, if it lies in it.            *)
LEMMA CutEnds ==
    ASSUME NEW f \in Seq(Cell), NEW n \in 0..Len(f), NEW m \in LineEnds(f), m <= n
    PROVE  m \in LineEnds(Prefix(f, n))
  <1>1. PICK g \in Seq(Cell) : /\ g = Prefix(f, n) /\ Len(g) = n
                               /\ \A i \in 1..n : g[i] = f[i]
    <2>1. \E g \in Seq(Cell) : IsPrefix(g, f, n)
      BY PrefixIs
    <2> QED BY <2>1 DEF IsPrefix
  <1>2. m \in 1..n /\ Newline(f[m])
    BY DEF LineEnds
  <1> QED BY <1>1, <1>2 DEF LineEnds

(* RollBack goes back to the line the write started behind.                  *)
LEMMA RollBackStep ==
    ASSUME IInv, NEW p \in Proc, RollBack(p)
    PROVE  IInv'
  <1>1. /\ Goto(p, "rollback", "rbsync") /\ file' = Prefix(file, base)
        /\ UNCHANGED <<exists, stable, sidecars, lock, buf, base, purpose, batch,
                       nextId, committed, refused>>
    BY DEF RollBack, history
  <1>2. /\ pc[p] = "rollback" /\ pc'[p] = "rbsync"
        /\ "rollback" \in Holding /\ "rbsync" \in Holding
    BY <1>1 DEF Goto, Holding, PC, IInv, TypeOK
  <1>3. committed <= base /\ base \in 0..Len(file) /\ AtLine(base) /\ file \in Seq(Cell)
    BY <1>2 DEF IInv, BaseInv, BaseAt, Writing, TypeOK
  <1>4. Len(file') = base
    BY <1>1, <1>3, PrefixFacts
  <1>5. AtLine(base)'
    BY <1>1, <1>3, CutEnds DEF AtLine
  <1>6. BaseAt(p)'
    BY <1>1, <1>2, <1>3, <1>4, <1>5 DEF BaseAt
  <1>7. TailAt(p)'
    BY <1>2 DEF TailAt
  <1>8. /\ pc' \in [Proc -> PC] /\ LockInv' /\ CreateInv' /\ BaseInv' /\ TailInv'
        /\ CommittedIntact' /\ file' \in Seq(Cell)
    BY <1>1, <1>2, <1>3, <1>6, <1>7, CutStep
  <1>9. TypeOK'
    BY <1>1, <1>8 DEF IInv, TypeOK
  <1> QED BY <1>8, <1>9 DEF IInv

(* CutTorn cuts behind the last newline.                                     *)
LEMMA CutTornStep ==
    ASSUME IInv, NEW p \in Proc, CutTorn(p)
    PROVE  IInv'
  <1>1. /\ Goto(p, "healing", "tornsync")
        /\ UNCHANGED <<exists, stable, sidecars, lock, buf, base, purpose, batch,
                       nextId, committed, refused>>
    BY DEF CutTorn, history
  <1>2. PICK n \in LineEnds(file) : IsTornStart(file, n) /\ file' = Prefix(file, n)
    BY DEF CutTorn
  <1>3. /\ pc[p] = "healing" /\ pc'[p] = "tornsync"
        /\ "healing" \in Holding /\ "tornsync" \in Holding
    BY <1>1 DEF Goto, Holding, PC, IInv, TypeOK
  <1>4. committed <= n /\ n \in 0..Len(file) /\ file \in Seq(Cell)
    <2>1. committed = 0 \/ committed \in LineEnds(file)
      BY DEF IInv, TypeOK, CommittedIntact, ValidEnds
    <2> QED BY <1>2, <2>1 DEF IsTornStart, LineEnds, IInv, TypeOK
  <1>5. Len(file') = n
    BY <1>2, <1>4, PrefixFacts
  <1>6. BaseAt(p)'
    BY <1>3 DEF BaseAt, Writing
  <1>7. TailAt(p)'
    <2>1. n \in LineEnds(file')
      BY <1>2, <1>4, CutEnds
    <2> QED BY <1>3, <1>5, <2>1 DEF TailAt, AtLine
  <1>8. /\ pc' \in [Proc -> PC] /\ LockInv' /\ CreateInv' /\ BaseInv' /\ TailInv'
        /\ CommittedIntact' /\ file' \in Seq(Cell)
    BY <1>1, <1>2, <1>3, <1>4, <1>6, <1>7, CutStep
  <1>9. TypeOK'
    BY <1>1, <1>8 DEF IInv, TypeOK
  <1> QED BY <1>8, <1>9 DEF IInv

(* CutRegion cuts behind the last valid line.                                *)
LEMMA CutRegionStep ==
    ASSUME IInv, NEW p \in Proc, CutRegion(p)
    PROVE  IInv'
  <1>1. /\ Goto(p, "cutting", "cutsync") /\ file' = Prefix(file, base)
        /\ UNCHANGED <<exists, stable, lock, buf, base, purpose, batch, nextId,
                       committed, refused>>
        /\ sidecars' = {IF s.id \in batch THEN [s EXCEPT !.cut = TRUE] ELSE s : s \in sidecars}
    BY DEF CutRegion, history
  <1>2. /\ pc[p] = "cutting" /\ pc'[p] = "cutsync"
        /\ "cutting" \in Holding /\ "cutsync" \in Holding
    BY <1>1 DEF Goto, Holding, PC, IInv, TypeOK
  <1>3. committed <= base /\ base \in LineEnds(file) /\ base \in 0..Len(file) /\ file \in Seq(Cell)
    BY <1>2 DEF IInv, BaseInv, BaseAt, TypeOK, LineEnds
  <1>4. Len(file') = base
    BY <1>1, <1>3, PrefixFacts
  <1>5. base \in LineEnds(file')
    BY <1>1, <1>3, CutEnds
  <1>6. BaseAt(p)'
    BY <1>2 DEF BaseAt, Writing
  <1>7. TailAt(p)'
    BY <1>2, <1>4, <1>5 DEF TailAt, AtLine
  <1>8. /\ pc' \in [Proc -> PC] /\ LockInv' /\ CreateInv' /\ BaseInv' /\ TailInv'
        /\ CommittedIntact' /\ file' \in Seq(Cell)
    BY <1>1, <1>2, <1>3, <1>6, <1>7, CutStep
  <1>9. sidecars' \subseteq Sidecar
    BY <1>1 DEF IInv, TypeOK, Sidecar
  <1>10. TypeOK'
    BY <1>1, <1>8, <1>9 DEF IInv, TypeOK
  <1> QED BY <1>8, <1>10 DEF IInv

(* LockNew, AppendBatch and BeginRepair start a write at the end of the file.*)
LEMMA BeginWriteStep ==
    ASSUME IInv, NEW p \in Proc, NEW here, NEW what, BeginWrite(p, here, what),
           AtLine(Len(file)), what \in {"header", "event", "repair"},
           UNCHANGED <<file, committed>>, stable' \in {stable, file}
    PROVE  /\ BaseAt(p)' /\ TailAt(p)' /\ CommittedIntact'
           /\ file' \in Seq(Cell) /\ stable' \in Seq(Cell)
           /\ buf' \in Seq(Cell) /\ base' \in Nat /\ batch' \subseteq Nat
           /\ nextId' \in Nat \ {0} /\ purpose' \in {"header", "event", "repair"}
  <1>1. Goto(p, here, "writing") /\ base' = Len(file) /\ purpose' = what
    BY DEF BeginWrite
  <1>2. pc'[p] = "writing"
    BY <1>1 DEF Goto, IInv, TypeOK
  <1>3. /\ buf' \in Seq(Cell) /\ buf' # <<>>
        /\ ValidLine(file \o buf', Len(file) + Len(buf'))
        /\ batch' \subseteq Nat /\ nextId' \in Nat \ {0}
    BY BeginWriteBuf
  <1>4. CommittedIntact' /\ file' \in Seq(Cell) /\ stable' \in Seq(Cell)
    BY IntactSame
  <1>5. TailAt(p)'
    BY <1>2, <1>3 DEF TailAt
  <1>6. BaseAt(p)'
    <2>1. committed' <= base' /\ base' <= Len(file') /\ base' \in Nat
      BY <1>1 DEF IInv, CommittedIntact, TypeOK
    <2>2. AtLine(base)'
      BY <1>1 DEF AtLine, LineEnds
    <2> QED BY <1>2, <2>1, <2>2 DEF BaseAt
  <1>7. base' \in Nat
    BY <1>1 DEF IInv, TypeOK
  <1> QED BY <1>1, <1>3, <1>4, <1>5, <1>6, <1>7

(* CreateNew: nobody has the log open yet.                                   *)
LEMMA CreateNewStep ==
    ASSUME IInv, NEW p \in Proc, CreateNew(p)
    PROVE  IInv'
  <1>1. /\ ~exists /\ exists' = TRUE /\ pc' = [pc EXCEPT ![p] = "created"]
        /\ UNCHANGED <<file, stable, sidecars, lock, buf, base, purpose, batch,
                       nextId, committed, refused>>
    BY DEF CreateNew, Goto, history
  <1>2. file = <<>> /\ \A q \in Proc : pc[q] = "closed"
    BY <1>1 DEF IInv, CreateInv
  <1>3. /\ pc' \in [Proc -> PC] /\ pc'[p] = "created"
        /\ \A q \in Proc \ {p} : pc'[q] = "closed"
    BY <1>1, <1>2 DEF IInv, TypeOK, PC
  <1>4. LockInv'
    BY <1>1, <1>2, <1>3 DEF IInv, LockInv, Holding
  <1>5. CreateInv'
    BY <1>1, <1>2, <1>3 DEF CreateInv
  <1>6. BaseInv' /\ TailInv'
    BY <1>3 DEF BaseInv, BaseAt, TailInv, TailAt, Writing
  <1>7. CommittedIntact'
    BY <1>1, IntactSame
  <1>8. TypeOK'
    BY <1>1, <1>3 DEF IInv, TypeOK
  <1> QED BY <1>4, <1>5, <1>6, <1>7, <1>8 DEF IInv

(* LockNew: the creator writes the header, or finds the lock taken.          *)
LEMMA LockNewStep ==
    ASSUME IInv, NEW p \in Proc, LockNew(p)
    PROVE  IInv'
  <1>1. /\ pc[p] = "created"
        /\ UNCHANGED <<exists, file, stable, sidecars, committed, refused>>
    BY DEF LockNew, disk, history
  <1>2. file = <<>> /\ \A q \in Proc \ {p} : pc[q] \in {"closed", "checking"}
    BY <1>1 DEF IInv, CreateInv
  <1>3. CASE lock = None /\ lock' = p /\ BeginWrite(p, "created", "header")
    <2>1. AtLine(Len(file))
      BY <1>2 DEF AtLine
    <2>2. /\ BaseAt(p)' /\ TailAt(p)' /\ CommittedIntact'
          /\ file' \in Seq(Cell) /\ stable' \in Seq(Cell)
          /\ buf' \in Seq(Cell) /\ base' \in Nat /\ batch' \subseteq Nat
          /\ nextId' \in Nat \ {0} /\ purpose' \in {"header", "event", "repair"}
      BY <1>1, <1>3, <2>1, BeginWriteStep
    <2>3. \A q \in Proc \ {p} : pc[q] = "closed"
      BY <1>2, <1>3, ConstantsAssumption DEF IInv, LockInv, Holding, PC
    <2>4. /\ pc' \in [Proc -> PC] /\ pc'[p] = "writing"
          /\ \A q \in Proc \ {p} : pc'[q] = "closed"
      BY <1>3, <2>3 DEF BeginWrite, Goto, IInv, TypeOK, PC
    <2>5. LockInv'
      BY <1>3, <2>4 DEF LockInv, Holding, PC
    <2>6. CreateInv'
      BY <1>1, <2>4 DEF CreateInv, IInv
    <2>7. BaseInv'
      <3>1. ASSUME NEW q \in Proc, q # p PROVE BaseAt(q)'
        BY <2>4, <3>1 DEF BaseAt, Writing
      <3> QED BY <2>2, <3>1 DEF BaseInv
    <2>8. TailInv'
      <3>1. ASSUME NEW q \in Proc, q # p PROVE TailAt(q)'
        BY <2>4, <3>1 DEF TailAt
      <3> QED BY <2>2, <3>1 DEF TailInv
    <2>9. TypeOK'
      BY <1>1, <1>3, <2>2, <2>4 DEF IInv, TypeOK
    <2> QED BY <2>2, <2>5, <2>6, <2>7, <2>8, <2>9 DEF IInv
  <1>4. CASE Release(p) /\ UNCHANGED <<buf, base, purpose, batch, nextId>>
    <2>1. /\ pc' \in [Proc -> PC] /\ lock' \in Proc \cup {None}
          /\ LockInv' /\ CreateInv' /\ BaseInv' /\ TailInv'
      BY <1>1, <1>4, ReleaseStep
    <2>2. CommittedIntact'
      BY <1>1, IntactSame
    <2>3. TypeOK'
      BY <1>1, <1>4, <2>1 DEF IInv, TypeOK
    <2> QED BY <2>1, <2>2, <2>3 DEF IInv
  <1> QED BY <1>3, <1>4 DEF LockNew

(* OpenLock: the lock is free, so nobody is past it.                         *)
LEMMA OpenLockStep ==
    ASSUME IInv, NEW p \in Proc, OpenLock(p)
    PROVE  IInv'
  <1>1. /\ exists /\ lock = None /\ lock' = p /\ pc[p] = "closed"
        /\ pc' = [pc EXCEPT ![p] = "checking"]
        /\ UNCHANGED <<exists, file, stable, sidecars, buf, base, purpose, batch,
                       nextId, committed, refused>>
    BY DEF OpenLock, Goto, disk, history
  <1>2. \A q \in Proc : pc[q] \in {"closed", "created"}
    BY <1>1, ConstantsAssumption DEF IInv, LockInv, Holding, TypeOK
  <1>3. /\ pc' \in [Proc -> PC] /\ pc'[p] = "checking"
        /\ \A q \in Proc \ {p} : pc'[q] = pc[q]
    BY <1>1 DEF IInv, TypeOK, PC
  <1>4. LockInv'
    BY <1>1, <1>2, <1>3 DEF LockInv, Holding, PC
  <1>5. CreateInv'
    BY <1>1, <1>2, <1>3 DEF IInv, CreateInv
  <1>6. BaseInv' /\ TailInv'
    BY <1>2, <1>3 DEF BaseInv, BaseAt, TailInv, TailAt, Writing
  <1>7. CommittedIntact'
    BY <1>1, IntactSame
  <1>8. TypeOK'
    BY <1>1, <1>3 DEF IInv, TypeOK
  <1> QED BY <1>4, <1>5, <1>6, <1>7, <1>8 DEF IInv

(* PowerLoss: what survives of the file agrees with the acknowledged prefix. *)
LEMMA PowerLossStep ==
    ASSUME IInv, PowerLoss
    PROVE  /\ IInv'
           /\ committed <= Len(file')
           /\ \A i \in 1..committed : file'[i] = file[i]
  <1>1. /\ exists /\ stable' = file' /\ sidecars' = {s \in sidecars : s.synced}
        /\ lock' = None /\ pc' = [p \in Proc |-> "closed"]
        /\ UNCHANGED <<exists, buf, base, purpose, batch, nextId, committed, refused>>
    BY DEF PowerLoss, history
  <1>2. /\ file \in Seq(Cell) /\ stable \in Seq(Cell) /\ committed \in Nat
        /\ committed <= Len(file) /\ committed <= Len(stable)
        /\ \A i \in 1..committed : file[i] = stable[i]
    BY DEF IInv, TypeOK, CommittedIntact
  <1>3. Zero \in Cell
    BY DEF Cell
  <1>4. /\ file' \in Seq(Cell) /\ committed <= Len(file')
        /\ \A i \in 1..committed : file'[i] = file[i]
    <2>1. CASE file' = stable
      BY <1>2, <2>1
    <2>2. CASE file' = file
      BY <1>2, <2>2
    <2>3. ASSUME NEW n \in (0..Len(file)) \cup {Len(stable)},
                 n >= Len(stable) \/ n >= Len(file),
                 NEW kept \in SUBSET {i \in 1..n : Newer(i) # Older(i)},
                 file' = Mixed(n, kept)
          PROVE  /\ file' \in Seq(Cell) /\ committed <= Len(file')
                 /\ \A i \in 1..committed : file'[i] = file[i]
      <3>1. n \in Nat /\ committed <= n
        BY <1>2, <2>3
      <3>2. ASSUME NEW i \in 1..n
            PROVE  (IF i \in kept THEN Newer(i) ELSE Older(i)) \in Cell
        <4>1. i \in 1..Len(file) \/ i \in 1..Len(stable)
          BY <1>2, <2>3, <3>1
        <4>2. Newer(i) \in Cell
          BY <1>2, <4>1 DEF Newer
        <4>3. Older(i) \in Cell
          BY <1>2, <1>3 DEF Older
        <4> QED BY <4>2, <4>3
      <3>3. Mixed(n, kept) \in [1..n -> Cell]
        BY <3>2 DEF Mixed
      <3>4. file' \in Seq(Cell) /\ Len(file') = n
        BY <2>3, <3>1, <3>3
      <3>5. ASSUME NEW i \in 1..committed PROVE file'[i] = file[i]
        <4>1. i \in 1..n /\ i <= Len(file) /\ i <= Len(stable)
          BY <1>2, <3>1
        <4>2. Newer(i) = file[i] /\ Older(i) = file[i]
          BY <1>2, <4>1 DEF Newer, Older
        <4> QED BY <2>3, <4>1, <4>2 DEF Mixed
      <3> QED BY <3>1, <3>4, <3>5
    <2>4. ASSUME \A i \in 1..Len(stable) : i <= Len(file) /\ file[i] = stable[i],
                 NEW n \in Len(stable)..Len(file),
                 NEW holes \in SUBSET LastLine(n),
                 file' = WithHoles(n, holes)
          PROVE  /\ file' \in Seq(Cell) /\ committed <= Len(file')
                 /\ \A i \in 1..committed : file'[i] = file[i]
      <3>1. n \in Nat /\ committed <= n
        BY <1>2
      <3>2. WithHoles(n, holes) \in [1..n -> Cell]
        BY <1>2, <1>3 DEF WithHoles
      <3>3. file' \in Seq(Cell) /\ Len(file') = n
        BY <2>4, <3>1, <3>2
      <3>4. ASSUME NEW i \in 1..committed PROVE file'[i] = file[i]
        <4>1. i \in 1..n /\ i \notin holes
          BY <1>2, <3>1 DEF LastLine
        <4> QED BY <2>4, <4>1 DEF WithHoles
      <3> QED BY <3>1, <3>3, <3>4
    <2> QED BY <2>1, <2>2, <2>3, <2>4 DEF PowerLoss
  <1>5. CommittedIntact'
    BY <1>1, <1>2, <1>4, IntactAgree
  <1>6. \A p \in Proc : pc'[p] = "closed"
    BY <1>1
  <1>7. LockInv'
    BY <1>1, <1>6, ConstantsAssumption DEF LockInv, Holding
  <1>8. CreateInv' /\ BaseInv' /\ TailInv'
    BY <1>1, <1>6 DEF CreateInv, BaseInv, BaseAt, TailInv, TailAt, Writing
  <1>9. TypeOK'
    <2>1. pc' \in [Proc -> PC]
      BY <1>1 DEF PC
    <2>2. sidecars' \subseteq Sidecar
      BY <1>1 DEF IInv, TypeOK
    <2> QED BY <1>1, <1>4, <2>1, <2>2 DEF IInv, TypeOK
  <1> QED BY <1>4, <1>5, <1>7, <1>8, <1>9 DEF IInv

(* Giving the handle up: Drop, and the error returns of create and open.     *)
LEMMA GiveUpStep ==
    ASSUME IInv, NEW p \in Proc, pc[p] # "closed", Release(p),
           UNCHANGED <<exists, file, sidecars, buf, base, purpose, batch, nextId,
                       committed>>,
           stable' \in {stable, file}, refused' \subseteq Nat
    PROVE  IInv'
  <1>1. /\ pc' \in [Proc -> PC] /\ lock' \in Proc \cup {None}
        /\ LockInv' /\ CreateInv' /\ BaseInv' /\ TailInv'
    BY ReleaseStep
  <1>2. CommittedIntact' /\ file' \in Seq(Cell) /\ stable' \in Seq(Cell)
    BY IntactSame
  <1>3. TypeOK'
    BY <1>1, <1>2 DEF IInv, TypeOK
  <1> QED BY <1>1, <1>2, <1>3 DEF IInv

(* CheckHeader, NoTorn, SyncTorn, NoRegion: open on its way, file untouched. *)
LEMMA OpeningStep ==
    ASSUME IInv, NEW p \in Proc,
           CheckHeader(p) \/ NoTorn(p) \/ SyncTorn(p) \/ NoRegion(p)
    PROVE  IInv'
  <1>1. /\ UNCHANGED <<exists, file, sidecars, buf, base, purpose, batch, nextId,
                       committed, refused>>
        /\ stable' \in {stable, file}
    BY DEF CheckHeader, NoTorn, SyncTorn, NoRegion, disk, history
  <1>2. CASE pc[p] = "checking" /\ Release(p)
    <2>1. refused' \subseteq Nat
      BY <1>1 DEF IInv, TypeOK
    <2> QED BY <1>1, <1>2, <2>1, GiveUpStep
  <1>3. ASSUME NEW here \in Holding, NEW there \in {"healing", "scanning", "open"},
               Goto(p, here, there), UNCHANGED lock,
               file # <<>> \/ here # "checking",
               there # "healing" => AtLine(Len(file))
        PROVE  IInv'
    <2>1. pc'[p] = there /\ there \in Holding
      BY <1>3 DEF Goto, IInv, TypeOK, Holding, PC
    <2>2. BaseAt(p)'
      BY <1>3, <2>1 DEF BaseAt, Writing
    <2>3. TailAt(p)'
      BY <1>1, <1>3, <2>1 DEF TailAt, AtLine, LineEnds
    <2>4. /\ pc' \in [Proc -> PC] /\ LockInv' /\ CreateInv' /\ BaseInv' /\ TailInv'
          /\ CommittedIntact' /\ file' \in Seq(Cell) /\ stable' \in Seq(Cell)
      BY <1>1, <1>3, <2>1, <2>2, <2>3, QuietStep
    <2>5. TypeOK'
      BY <1>1, <1>3, <2>4 DEF IInv, TypeOK
    <2> QED BY <2>4, <2>5 DEF IInv
  <1>4. {"checking", "healing", "tornsync", "scanning", "open"} \subseteq Holding
    BY DEF Holding, PC
  <1>5. CASE CheckHeader(p)
    <2>1. HeaderOk(file) => file # <<>>
      BY DEF HeaderOk, ValidEnds, LineEnds, IInv, TypeOK
    <2> QED BY <1>2, <1>3, <1>4, <1>5, <2>1 DEF CheckHeader, Goto
  <1>6. CASE NoTorn(p)
    <2>1. AtLine(Len(file))
      BY <1>6 DEF NoTorn, Torn, AtLine, LineEnds, IInv, TypeOK
    <2> QED BY <1>3, <1>4, <1>6, <2>1 DEF NoTorn
  <1>7. CASE SyncTorn(p)
    <2>1. AtLine(Len(file))
      BY <1>7 DEF SyncTorn, Goto, IInv, TailInv, TailAt
    <2> QED BY <1>3, <1>4, <1>7, <2>1 DEF SyncTorn
  <1>8. CASE NoRegion(p)
    <2>1. AtLine(Len(file))
      BY <1>8 DEF NoRegion, Goto, IInv, TailInv, TailAt
    <2> QED BY <1>3, <1>4, <1>8, <2>1 DEF NoRegion
  <1> QED BY <1>5, <1>6, <1>7, <1>8

(* WriteSidecar copies what lies behind the last valid line.                 *)
LEMMA WriteSidecarStep ==
    ASSUME IInv, NEW p \in Proc, WriteSidecar(p)
    PROVE  IInv'
  <1>1. /\ Goto(p, "scanning", "sidecar") /\ batch' = {nextId} /\ nextId' = nextId + 1
        /\ UNCHANGED <<exists, file, stable, lock, buf, purpose, committed, refused>>
    BY DEF WriteSidecar, history
  <1>2. PICK n \in ValidEnds(file) :
          /\ IsRegionStart(file, n) /\ n < Len(file) /\ base' = n
          /\ sidecars' = sidecars \cup {[id |-> nextId, cells |-> Suffix(file, n),
                                         synced |-> FALSE, cut |-> FALSE, audit |-> 0]}
    BY DEF WriteSidecar
  <1>3. /\ pc'[p] = "sidecar" /\ "scanning" \in Holding /\ "sidecar" \in Holding
        /\ file \in Seq(Cell) /\ nextId \in Nat \ {0}
    BY <1>1 DEF Goto, IInv, TypeOK, Holding, PC
  <1>4. committed <= n /\ n \in 0..Len(file) /\ n \in LineEnds(file)
    <2>1. committed = 0 \/ committed \in ValidEnds(file)
      BY DEF IInv, TypeOK, CommittedIntact
    <2> QED BY <1>2, <2>1 DEF IsRegionStart, ValidEnds, LineEnds, IInv, TypeOK
  <1>5. BaseAt(p)'
    BY <1>1, <1>2, <1>3, <1>4 DEF BaseAt, Writing, LineEnds
  <1>6. TailAt(p)'
    BY <1>3 DEF TailAt
  <1>7. /\ pc' \in [Proc -> PC] /\ LockInv' /\ CreateInv' /\ BaseInv' /\ TailInv'
        /\ CommittedIntact' /\ file' \in Seq(Cell) /\ stable' \in Seq(Cell)
    BY <1>1, <1>3, <1>5, <1>6, QuietStep
  <1>8. sidecars' \subseteq Sidecar
    <2>1. Suffix(file, n) \in Seq(Cell)
      BY <1>3, <1>4, SuffixFacts
    <2>2. [id |-> nextId, cells |-> Suffix(file, n), synced |-> FALSE,
           cut |-> FALSE, audit |-> 0] \in Sidecar
      BY <1>3, <2>1 DEF Sidecar
    <2>3. sidecars \subseteq Sidecar
      BY DEF IInv, TypeOK
    <2> QED BY <1>2, <2>2, <2>3
  <1>9. TypeOK'
    BY <1>1, <1>2, <1>3, <1>4, <1>7, <1>8 DEF IInv, TypeOK
  <1> QED BY <1>7, <1>9 DEF IInv

(* SyncSidecar makes the copy durable before the cut.                        *)
LEMMA SyncSidecarStep ==
    ASSUME IInv, NEW p \in Proc, SyncSidecar(p)
    PROVE  IInv'
  <1>1. /\ Goto(p, "sidecar", "cutting")
        /\ UNCHANGED <<exists, file, stable, lock, buf, base, purpose, batch, nextId,
                       committed, refused>>
        /\ sidecars' = {IF s.id \in batch THEN [s EXCEPT !.synced = TRUE] ELSE s : s \in sidecars}
    BY DEF SyncSidecar, history
  <1>2. /\ pc[p] = "sidecar" /\ pc'[p] = "cutting"
        /\ "sidecar" \in Holding /\ "cutting" \in Holding
    BY <1>1 DEF Goto, IInv, TypeOK, Holding, PC
  <1>3. committed <= base /\ base \in LineEnds(file)
    BY <1>2 DEF IInv, BaseInv, BaseAt
  <1>4. BaseAt(p)'
    BY <1>1, <1>2, <1>3 DEF BaseAt, Writing, LineEnds
  <1>5. TailAt(p)'
    BY <1>2 DEF TailAt
  <1>6. /\ pc' \in [Proc -> PC] /\ LockInv' /\ CreateInv' /\ BaseInv' /\ TailInv'
        /\ CommittedIntact' /\ file' \in Seq(Cell) /\ stable' \in Seq(Cell)
    BY <1>1, <1>2, <1>4, <1>5, QuietStep
  <1>7. sidecars' \subseteq Sidecar
    BY <1>1 DEF IInv, TypeOK, Sidecar
  <1>8. TypeOK'
    BY <1>1, <1>6, <1>7 DEF IInv, TypeOK
  <1> QED BY <1>6, <1>8 DEF IInv

(* AppendBatch and BeginRepair start a write behind a complete line.         *)
LEMMA AppendStep ==
    ASSUME IInv, NEW p \in Proc, AppendBatch(p) \/ BeginRepair(p)
    PROVE  IInv'
  <1>1. PICK here \in {"open", "cutsync"}, what \in {"event", "repair"} :
          BeginWrite(p, here, what)
    BY DEF AppendBatch, BeginRepair
  <1>2. /\ UNCHANGED <<exists, file, lock, committed, refused>>
        /\ stable' \in {stable, file}
    BY DEF AppendBatch, BeginRepair, disk, history
  <1>3. /\ pc[p] = here /\ pc' = [pc EXCEPT ![p] = "writing"]
        /\ pc[p] \in Holding /\ pc[p] # "checking" /\ "writing" \in Holding
    BY <1>1 DEF BeginWrite, Goto, Holding, PC
  <1>4. AtLine(Len(file))
    BY <1>3 DEF IInv, TailInv, TailAt
  <1>5. /\ BaseAt(p)' /\ TailAt(p)' /\ CommittedIntact'
        /\ file' \in Seq(Cell) /\ stable' \in Seq(Cell)
        /\ buf' \in Seq(Cell) /\ base' \in Nat /\ batch' \subseteq Nat
        /\ nextId' \in Nat \ {0} /\ purpose' \in {"header", "event", "repair"}
    BY <1>1, <1>2, <1>4, BeginWriteStep
  <1>6. pc' \in [Proc -> PC] /\ LockInv' /\ CreateInv' /\ BaseInv' /\ TailInv'
    BY <1>2, <1>3, <1>5, HolderStep
  <1>7. sidecars' \subseteq Sidecar
    <2>1. CASE AppendBatch(p)
      BY <2>1 DEF AppendBatch, disk, IInv, TypeOK
    <2>2. CASE BeginRepair(p)
      BY <2>2 DEF BeginRepair, IInv, TypeOK, Sidecar
    <2> QED BY <2>1, <2>2
  <1>8. TypeOK'
    BY <1>2, <1>5, <1>6, <1>7 DEF IInv, TypeOK
  <1> QED BY <1>5, <1>6, <1>8 DEF IInv

(* WriteFails: the rollback knows where the write started.                   *)
LEMMA WriteFailsStep ==
    ASSUME IInv, NEW p \in Proc, WriteFails(p)
    PROVE  IInv'
  <1>1. PICK here \in {"writing", "syncing"} : Goto(p, here, "rollback")
    BY DEF WriteFails
  <1>2. UNCHANGED <<exists, file, stable, sidecars, lock, buf, base, purpose, batch,
                    nextId, committed, refused>>
    BY DEF WriteFails, disk, history
  <1>3. /\ pc[p] = here /\ pc'[p] = "rollback" /\ pc[p] \in Writing
        /\ here \in Holding /\ "rollback" \in Holding /\ here # "checking"
    BY <1>1 DEF Goto, IInv, TypeOK, Holding, Writing, PC
  <1>4. committed <= base /\ base <= Len(file) /\ AtLine(base)
    BY <1>3 DEF IInv, BaseInv, BaseAt
  <1>5. BaseAt(p)'
    BY <1>2, <1>3, <1>4 DEF BaseAt, AtLine, LineEnds
  <1>6. TailAt(p)'
    BY <1>3 DEF TailAt
  <1>7. /\ pc' \in [Proc -> PC] /\ LockInv' /\ CreateInv' /\ BaseInv' /\ TailInv'
        /\ CommittedIntact' /\ file' \in Seq(Cell) /\ stable' \in Seq(Cell)
    BY <1>1, <1>2, <1>3, <1>5, <1>6, QuietStep
  <1>8. TypeOK'
    BY <1>2, <1>7 DEF IInv, TypeOK
  <1> QED BY <1>7, <1>8 DEF IInv

(* RollBackSynced, RollBackFails: the handle goes back to a complete line,   *)
(* or takes no more appends, or is given up.                                 *)
LEMMA RolledBackStep ==
    ASSUME IInv, NEW p \in Proc, RollBackSynced(p) \/ RollBackFails(p)
    PROVE  IInv'
  <1>1. /\ UNCHANGED <<exists, file, sidecars, buf, base, purpose, batch, nextId,
                       committed>>
        /\ stable' \in {stable, file}
    BY DEF RollBackSynced, RollBackFails, disk, history
  <1>2. refused' \subseteq Nat
    BY DEF RollBackSynced, RollBackFails, history, IInv, TypeOK
  <1>3. pc[p] \in {"rollback", "rbsync"}
    BY DEF RollBackSynced, RollBackFails
  <1>4. CASE Release(p)
    BY <1>1, <1>2, <1>3, <1>4, GiveUpStep
  <1>5. ASSUME NEW there \in {"open", "poisoned"},
               pc' = [pc EXCEPT ![p] = there], UNCHANGED lock,
               there = "open" => pc[p] = "rbsync"
        PROVE  IInv'
    <2>1. /\ pc'[p] = there /\ pc[p] \in Holding /\ there \in Holding
          /\ pc[p] # "checking" /\ Goto(p, pc[p], there) /\ pc[p] \in Writing
      BY <1>3, <1>5 DEF IInv, TypeOK, Holding, PC, Goto, Writing
    <2>2. BaseAt(p)'
      BY <1>5, <2>1 DEF BaseAt, Writing
    <2>3. TailAt(p)'
      BY <1>1, <1>5, <2>1 DEF TailAt, IInv, BaseInv, BaseAt, AtLine, LineEnds
    <2>4. /\ pc' \in [Proc -> PC] /\ LockInv' /\ CreateInv' /\ BaseInv' /\ TailInv'
          /\ CommittedIntact' /\ file' \in Seq(Cell) /\ stable' \in Seq(Cell)
      BY <1>1, <1>5, <2>1, <2>2, <2>3, QuietStep
    <2>5. TypeOK'
      BY <1>1, <1>2, <1>5, <2>4 DEF IInv, TypeOK
    <2> QED BY <2>4, <2>5 DEF IInv
  <1> QED BY <1>4, <1>5 DEF RollBackSynced, RollBackFails, Goto

(* Writeback: the disk catches up with the file.                             *)
LEMMA WritebackStep ==
    ASSUME IInv, Writeback
    PROVE  IInv'
  <1>1. /\ UNCHANGED <<exists, file, sidecars, lock, pc, buf, base, purpose, batch,
                       nextId, committed, refused>>
        /\ stable' = file
    BY DEF Writeback, handle, history
  <1>2. CommittedIntact' /\ file' \in Seq(Cell) /\ stable' \in Seq(Cell)
    BY <1>1, IntactSame
  <1>3. LockInv' /\ CreateInv' /\ BaseInv' /\ TailInv'
    BY <1>1 DEF IInv, LockInv, CreateInv, BaseInv, BaseAt, TailInv, TailAt, AtLine, LineEnds
  <1>4. TypeOK'
    BY <1>1, <1>2 DEF IInv, TypeOK
  <1> QED BY <1>2, <1>3, <1>4 DEF IInv

(* Drop: the handle goes away at any step.                                   *)
LEMMA DropStep ==
    ASSUME IInv, NEW p \in Proc, Drop(p)
    PROVE  IInv'
  <1>1. /\ pc[p] # "closed" /\ Release(p)
        /\ UNCHANGED <<exists, file, stable, sidecars, buf, base, purpose, batch,
                       nextId, committed, refused>>
    BY DEF Drop, disk, history
  <1>2. refused' \subseteq Nat
    BY <1>1 DEF IInv, TypeOK
  <1> QED BY <1>1, <1>2, GiveUpStep
-----------------------------------------------------------------------------
(* The theorems.                                                             *)

(* A log nobody has created has nothing acknowledged.                        *)
LEMMA InitIInv == Init => IInv
  <1> SUFFICES ASSUME Init PROVE IInv
    OBVIOUS
  <1>1. TypeOK
    <2>1. file \in Seq(Cell) /\ stable \in Seq(Cell) /\ buf \in Seq(Cell)
      BY DEF Init
    <2>2. pc \in [Proc -> PC]
      BY DEF Init, PC
    <2>2a. exists \in BOOLEAN
      BY DEF Init
    <2>2b. sidecars \subseteq Sidecar
      BY DEF Init
    <2>3. /\ lock \in Proc \cup {None}
          /\ base \in Nat /\ purpose \in {"header", "event", "repair"} /\ batch \subseteq Nat
          /\ nextId \in Nat \ {0} /\ committed \in Nat /\ refused \subseteq Nat
      BY DEF Init
    <2> QED BY <2>1, <2>2, <2>2a, <2>2b, <2>3 DEF TypeOK
  <1>2. LockInv
    BY ConstantsAssumption DEF Init, LockInv, Holding
  <1>3. CreateInv /\ BaseInv /\ TailInv /\ CommittedIntact
    BY DEF Init, CreateInv, BaseInv, BaseAt, TailInv, TailAt, Writing, CommittedIntact
  <1> QED BY <1>1, <1>2, <1>3 DEF IInv

(* Every step, of a process or of the world, preserves the invariant.        *)
LEMMA NextIInv == IInv /\ [Next]_vars => IInv'
  <1> SUFFICES ASSUME IInv, [Next]_vars PROVE IInv'
    OBVIOUS
  <1>1. CASE Writeback
    BY <1>1, WritebackStep
  <1>2. CASE PowerLoss
    BY <1>2, PowerLossStep
  <1>3. ASSUME NEW p \in Proc, Step(p) PROVE IInv'
    <2>1. CASE CreateNew(p) \/ LockNew(p) \/ OpenLock(p)
      BY <2>1, CreateNewStep, LockNewStep, OpenLockStep
    <2>2. CASE CheckHeader(p) \/ NoTorn(p) \/ SyncTorn(p) \/ NoRegion(p)
      BY <2>2, OpeningStep
    <2>3. CASE CutTorn(p) \/ CutRegion(p) \/ RollBack(p)
      BY <2>3, CutTornStep, CutRegionStep, RollBackStep
    <2>4. CASE WriteSidecar(p) \/ SyncSidecar(p)
      BY <2>4, WriteSidecarStep, SyncSidecarStep
    <2>5. CASE AppendBatch(p) \/ BeginRepair(p)
      BY <2>5, AppendStep
    <2>6. CASE WriteSome(p) \/ SyncOk(p) \/ WriteFails(p)
      BY <2>6, WriteSomeStep, SyncOkStep, WriteFailsStep
    <2>7. CASE RollBackSynced(p) \/ RollBackFails(p)
      BY <2>7, RolledBackStep
    <2>8. CASE Drop(p)
      BY <2>8, DropStep
    <2> QED BY <1>3, <2>1, <2>2, <2>3, <2>4, <2>5, <2>6, <2>7, <2>8 DEF Step
  <1>4. CASE UNCHANGED vars
    <2>1. UNCHANGED <<exists, file, stable, sidecars, lock, pc, buf, base, purpose,
                      batch, nextId, committed, refused>>
      BY <1>4 DEF vars, disk, handle, history
    <2>2. CommittedIntact' /\ file' \in Seq(Cell) /\ stable' \in Seq(Cell)
      BY <2>1, IntactSame
    <2>3. LockInv' /\ CreateInv' /\ BaseInv' /\ TailInv'
      BY <2>1 DEF IInv, LockInv, CreateInv, BaseInv, BaseAt, TailInv, TailAt, AtLine, LineEnds
    <2>4. TypeOK'
      BY <2>1, <2>2 DEF IInv, TypeOK
    <2> QED BY <2>2, <2>3, <2>4 DEF IInv
  <1> QED BY <1>1, <1>2, <1>3, <1>4 DEF Next

(* The inductive invariant holds in every reachable state.                   *)
THEOREM Invariance == Spec => []IInv
  <1> QED BY InitIInv, NextIInv, PTL DEF Spec

(* Every variable stays in its type.                                         *)
THEOREM TypeCorrect == Spec => []TypeOK
  <1>1. IInv => TypeOK
    BY DEF IInv
  <1> QED BY <1>1, Invariance, PTL

(* What an append acknowledged is in the file and on the disk, whatever      *)
(* crash, failed write, rollback or heal follows.                            *)
THEOREM AcknowledgedIntact == Spec => []CommittedIntact
  <1>1. IInv => CommittedIntact
    BY DEF IInv
  <1> QED BY <1>1, Invariance, PTL

(* No step changes a cell of the acknowledged prefix, or cuts into it.       *)
LEMMA StepKeepsPrefix ==
    ASSUME IInv, [Next]_vars
    PROVE  committed <= Len(file') /\ \A i \in 1..committed : file'[i] = file[i]
  <1>1. /\ file \in Seq(Cell) /\ committed \in Nat /\ committed <= Len(file)
        /\ buf \in Seq(Cell) /\ base \in Nat
    BY DEF IInv, TypeOK, CommittedIntact
  <1>2. CASE file' = file
    BY <1>1, <1>2
  <1>3. ASSUME NEW n \in 0..Len(file), committed <= n, file' = Prefix(file, n)
        PROVE  committed <= Len(file') /\ \A i \in 1..committed : file'[i] = file[i]
    <2>1. Len(file') = n /\ \A i \in 1..n : file'[i] = file[i]
      BY <1>1, <1>3, PrefixFacts
    <2> QED BY <1>1, <1>3, <2>1
  <1>4. CASE PowerLoss
    BY <1>4, PowerLossStep
  <1>5. ASSUME NEW p \in Proc, WriteSome(p)
        PROVE  committed <= Len(file') /\ \A i \in 1..committed : file'[i] = file[i]
    <2>1. PICK k \in 1..Len(buf) : file' = Concat(file, Prefix(buf, k))
      BY <1>5 DEF WriteSome, Concat
    <2>2. PICK x \in Seq(Cell) : x = Prefix(buf, k)
      <3>1. k \in 0..Len(buf)
        BY <1>1
      <3> QED BY <1>1, <3>1, PrefixFacts
    <2>3. Len(Concat(file, x)) = Len(file) + Len(x)
      BY <1>1, ConcatFacts
    <2>4. \A i \in 1..Len(file) : Concat(file, x)[i] = file[i]
      BY <1>1, ConcatFacts
    <2>5. Len(x) \in Nat /\ Len(file) \in Nat
      BY <1>1, <2>2
    <2> QED BY <1>1, <2>1, <2>2, <2>3, <2>4, <2>5, SMTT(120)
  <1>6. ASSUME NEW p \in Proc, CutTorn(p)
        PROVE  committed <= Len(file') /\ \A i \in 1..committed : file'[i] = file[i]
    <2>1. PICK n \in LineEnds(file) : IsTornStart(file, n) /\ file' = Prefix(file, n)
      BY <1>6 DEF CutTorn
    <2>2. committed = 0 \/ committed \in LineEnds(file)
      BY <1>1 DEF IInv, CommittedIntact, ValidEnds
    <2>3. n \in 0..Len(file) /\ committed <= n
      BY <1>1, <2>1, <2>2 DEF IsTornStart, LineEnds
    <2> QED BY <1>3, <2>1, <2>3
  <1>7. ASSUME NEW p \in Proc, CutRegion(p) \/ RollBack(p)
        PROVE  committed <= Len(file') /\ \A i \in 1..committed : file'[i] = file[i]
    <2>1. file' = Prefix(file, base) /\ pc[p] \in {"cutting", "rollback"}
      BY <1>7 DEF CutRegion, RollBack, Goto
    <2>2. committed <= base /\ base \in 0..Len(file)
      BY <1>1, <2>1 DEF IInv, BaseInv, BaseAt, Writing, LineEnds
    <2> QED BY <1>3, <2>1, <2>2
  <1>8. ASSUME NEW p \in Proc, Step(p), ~WriteSome(p), ~CutTorn(p), ~CutRegion(p), ~RollBack(p)
        PROVE  file' = file
    BY <1>8 DEF Step, CreateNew, LockNew, OpenLock, CheckHeader, NoTorn, SyncTorn,
                NoRegion, WriteSidecar, SyncSidecar, BeginRepair, AppendBatch, SyncOk,
                WriteFails, RollBackSynced, RollBackFails, Drop, disk
  <1>9. CASE Writeback \/ UNCHANGED vars
    BY <1>2, <1>9 DEF Writeback, vars, disk
  <1> QED BY <1>2, <1>4, <1>5, <1>6, <1>7, <1>8, <1>9 DEF Next

(* Append-only: the acknowledged prefix is never rewritten or shortened.     *)
THEOREM AppendOnly == Spec => CommittedNeverRewritten
  <1>1. IInv /\ [Next]_vars =>
           [/\ committed <= Len(file')
            /\ \A i \in 1..committed : file'[i] = file[i]]_vars
    BY StepKeepsPrefix
  <1> QED BY <1>1, Invariance, PTL DEF Spec, CommittedNeverRewritten
-----------------------------------------------------------------------------
(* Refused events stay away, and lines leave the file into a sidecar only.   *)

(* A cell whose id is handed out and not refused, or a hole.                 *)
Kept(c) == c.ev < nextId /\ c.ev \notin refused

(* A hole carries no id.                                                     *)
LEMMA HoleKept == IInv /\ IdInv => Kept(Zero)
  BY DEF IInv, TypeOK, IdInv, Kept, Zero

(* The cells of the file and of the disk, and what IdInv says of them.       *)
LEMMA AllKept ==
    ASSUME IInv, IdInv
    PROVE  /\ \A i \in 1..Len(file) : Kept(file[i])
           /\ \A i \in 1..Len(stable) : Kept(stable[i])
  BY DEF IdInv, IdsBelow, NoneRefused, Kept

(* A step that only brings cells that were already somewhere.                *)
LEMMA IdsStay ==
    ASSUME IInv, IdInv, UNCHANGED <<nextId, batch, refused>>,
           \A i \in 1..Len(file') : Kept(file'[i]),
           \A i \in 1..Len(stable') : Kept(stable'[i])
    PROVE  IdInv'
  BY DEF IdInv, IdsBelow, NoneRefused, Kept

(* Nobody but the holder of the lock writes or quarantines.                  *)
LEMMA OthersIdle ==
    ASSUME IInv', NEW p \in Proc, lock' \in {p, None}, BatchAt(p)', SidecarAt(p)'
    PROVE  BatchInv' /\ SidecarInv'
  <1>1. ASSUME NEW q \in Proc, q # p PROVE pc'[q] \notin Holding
    BY <1>1, ConstantsAssumption DEF IInv, LockInv
  <1>2. Writing \cup {"sidecar", "cutting"} \subseteq Holding
    BY DEF Writing, Holding, PC
  <1>3. ASSUME NEW q \in Proc PROVE BatchAt(q)' /\ SidecarAt(q)'
    BY <1>1, <1>2 DEF BatchAt, SidecarAt
  <1> QED BY <1>3 DEF BatchInv, SidecarInv

(* Steps that change no cell, no sidecar and no id; the disk may catch up    *)
(* with the file.                                                            *)
LEMMA QuietLine ==
    ASSUME LineInv, UNCHANGED <<file, base, batch, buf, sidecars, refused, nextId>>,
           stable' \in {stable, file},
           \A q \in Proc : \/ pc'[q] = pc[q]
                           \/ pc'[q] \notin Writing \cup {"sidecar", "cutting"}
                           \/ pc[q] \in Writing /\ pc'[q] \in Writing
    PROVE  IdInv' /\ BatchInv' /\ SidecarInv'
  <1>1. IInv /\ IdInv /\ BatchInv /\ SidecarInv
    BY DEF LineInv
  <1>2. IdInv'
    BY <1>1, AllKept, IdsStay
  <1>3. ASSUME NEW q \in Proc PROVE BatchAt(q)'
    BY <1>1 DEF BatchInv, BatchAt
  <1>4. ASSUME NEW q \in Proc PROVE SidecarAt(q)'
    <2>1. Writing \cap {"sidecar", "cutting"} = {}
      BY DEF Writing
    <2> QED BY <1>1, <2>1 DEF SidecarInv, SidecarAt, Suffix
  <1> QED BY <1>2, <1>3, <1>4 DEF BatchInv, SidecarInv

(* Steps that cut the file to its first n cells.                             *)
LEMMA CutLine ==
    ASSUME LineInv, NEW n \in 0..Len(file), file' = Prefix(file, n),
           UNCHANGED <<batch, refused, nextId, stable>>
    PROVE  IdInv' /\ Len(file') = n /\ \A i \in 1..n : file'[i] = file[i]
  <1>1. IInv /\ IdInv /\ file \in Seq(Cell)
    BY DEF LineInv, IInv, TypeOK
  <1>2. Len(file') = n /\ \A i \in 1..n : file'[i] = file[i]
    BY <1>1, PrefixFacts
  <1>3. \A i \in 1..Len(file') : Kept(file'[i])
    BY <1>1, <1>2, AllKept
  <1>4. \A i \in 1..Len(stable') : Kept(stable'[i])
    BY <1>1, AllKept
  <1> QED BY <1>1, <1>2, <1>3, <1>4, IdsStay
(* Ids below one bound are below a later one.                                *)
LEMMA WiderRange ==
    ASSUME NEW a \in Int, NEW b \in Int, a >= 1, a <= b
    PROVE  /\ \A e \in 1..(a - 1) : e \in 1..(b - 1)
           /\ \A e \in a..(b - 1) : e \in 1..(b - 1)
  OBVIOUS

(* Every id in the log is a natural number.                                  *)
LEMMA IdsNat ==
    ASSUME IInv
    PROVE  /\ \A i \in 1..Len(file) : file[i].ev \in Nat
           /\ \A i \in 1..Len(stable) : stable[i].ev \in Nat
  <1>1. file \in Seq(Cell) /\ stable \in Seq(Cell)
    BY DEF IInv, TypeOK
  <1>2. \A c \in Cell : c.ev \in Nat
    BY DEF Cell, EventCell, Zero
  <1> QED BY <1>1, <1>2

(* The cells of one write carry the ids of its batch.                        *)
LEMMA BatchCells ==
    ASSUME IInv, NEW p \in Proc, NEW here, NEW what, BeginWrite(p, here, what)
    PROVE  /\ \A i \in 1..Len(buf') : buf'[i].ev \in batch'
           /\ batch' \subseteq nextId..(nextId' - 1)
           /\ nextId' \in nextId..(MaxId + 1)
  <1>1. nextId \in Nat \ {0} /\ Width \subseteq Nat \ {0} /\ MaxId \in Nat
    BY ConstantsAssumption DEF IInv, TypeOK
  <1>2. PICK w \in Width :
          \/ /\ nextId <= MaxId
             /\ buf' = Cells(nextId, w)
             /\ batch' = {nextId}
             /\ nextId' = nextId + 1
          \/ /\ nextId < MaxId
             /\ \E w2 \in Width : buf' = Cells(nextId, w) \o Cells(nextId + 1, w2)
             /\ batch' = {nextId, nextId + 1}
             /\ nextId' = nextId + 2
    BY DEF BeginWrite
  <1>3. /\ Cells(nextId, w) \in Seq(Cell) /\ Len(Cells(nextId, w)) = w
        /\ \A i \in 1..w : Cells(nextId, w)[i].ev = nextId
    <2>1. w \in Nat \ {0}
      BY <1>1
    <2>2. \A i \in 1..w : Cells(nextId, w)[i] = [ev |-> nextId, part |-> i, of |-> w]
      BY <1>1, <2>1, CellsFacts
    <2>3. ASSUME NEW i \in 1..w PROVE Cells(nextId, w)[i].ev = nextId
      <3>1. Cells(nextId, w)[i] = [ev |-> nextId, part |-> i, of |-> w]
        BY <2>2
      <3> QED BY <3>1
    <2>4. Cells(nextId, w) \in Seq(Cell) /\ Len(Cells(nextId, w)) = w
      BY <1>1, <2>1, CellsFacts
    <2> QED BY <2>3, <2>4
  <1>4. CASE buf' = Cells(nextId, w) /\ batch' = {nextId} /\ nextId' = nextId + 1
             /\ nextId <= MaxId
    BY <1>1, <1>3, <1>4
  <1>5. ASSUME NEW w2 \in Width, buf' = Cells(nextId, w) \o Cells(nextId + 1, w2),
               batch' = {nextId, nextId + 1}, nextId' = nextId + 2, nextId < MaxId
        PROVE  /\ \A i \in 1..Len(buf') : buf'[i].ev \in batch'
               /\ batch' \subseteq nextId..(nextId' - 1)
               /\ nextId' \in nextId..(MaxId + 1)
    <2>1. /\ Cells(nextId + 1, w2) \in Seq(Cell) /\ Len(Cells(nextId + 1, w2)) = w2
          /\ \A i \in 1..w2 : Cells(nextId + 1, w2)[i].ev = nextId + 1
      <3>1. w2 \in Nat \ {0} /\ nextId + 1 \in Nat \ {0}
        BY <1>1
      <3>2. \A i \in 1..w2 : Cells(nextId + 1, w2)[i]
                               = [ev |-> nextId + 1, part |-> i, of |-> w2]
        BY <3>1, CellsFacts
      <3>3. ASSUME NEW i \in 1..w2 PROVE Cells(nextId + 1, w2)[i].ev = nextId + 1
        <4>1. Cells(nextId + 1, w2)[i] = [ev |-> nextId + 1, part |-> i, of |-> w2]
          BY <3>2
        <4> QED BY <4>1
      <3>4. Cells(nextId + 1, w2) \in Seq(Cell) /\ Len(Cells(nextId + 1, w2)) = w2
        BY <3>1, CellsFacts
      <3> QED BY <3>3, <3>4
    <2>2. PICK c \in Seq(Cell) : c = Cells(nextId, w)
      BY <1>3
    <2>3. PICK d \in Seq(Cell) : d = Cells(nextId + 1, w2)
      BY <2>1
    <2>4. /\ Len(c \o d) = Len(c) + Len(d)
          /\ \A i \in 1..Len(c) : (c \o d)[i] = c[i]
          /\ \A i \in 1..Len(d) : (c \o d)[Len(c) + i] = d[i]
      BY ConcatFacts DEF Concat
    <2>5. ASSUME NEW i \in 1..Len(buf') PROVE buf'[i].ev \in batch'
      <3>1. CASE i <= w
        BY <1>1, <1>3, <1>5, <2>2, <2>3, <2>4, <3>1
      <3>2. CASE i > w
        <4>1. Len(c) = w /\ Len(d) = w2 /\ w \in Nat /\ w2 \in Nat
          BY <1>1, <1>3, <2>1, <2>2, <2>3
        <4>2. i - w \in 1..w2 /\ i = w + (i - w)
          BY <1>5, <2>2, <2>3, <2>4, <3>2, <4>1
        <4>3. buf'[i] = d[i - w]
          BY <1>5, <2>2, <2>3, <2>4, <4>1, <4>2
        <4>4. d[i - w].ev = nextId + 1
          BY <2>1, <2>3, <4>2
        <4> QED BY <1>5, <4>3, <4>4
      <3> QED BY <1>1, <3>1, <3>2
    <2>6. batch' \subseteq nextId..(nextId' - 1)
      <3>1. nextId \in nextId..(nextId' - 1) /\ nextId + 1 \in nextId..(nextId' - 1)
        BY <1>1, <1>5
      <3> QED BY <1>5, <3>1
    <2>7. nextId' \in nextId..(MaxId + 1)
      BY <1>1, <1>5
    <2> QED BY <2>5, <2>6, <2>7
  <1> QED BY <1>2, <1>4, <1>5

(* LockNew, AppendBatch, BeginRepair: the ids of the write are new.          *)
LEMMA BeginWriteLine ==
    ASSUME LineInv, IInv', NEW p \in Proc, NEW here, NEW what, BeginWrite(p, here, what),
           UNCHANGED <<file, refused>>, stable' \in {stable, file}, lock' = p
    PROVE  IdInv' /\ BatchInv' /\ SidecarInv'
  <1>1. IInv /\ IdInv /\ nextId \in Nat \ {0} /\ MaxId \in Nat
    BY ConstantsAssumption DEF LineInv, IInv, TypeOK
  <1>2. /\ \A i \in 1..Len(buf') : buf'[i].ev \in batch'
        /\ batch' \subseteq nextId..(nextId' - 1)
        /\ nextId' \in nextId..(MaxId + 1)
    BY <1>1, BatchCells
  <1>3. base' = Len(file) /\ pc'[p] = "writing"
    BY <1>1 DEF BeginWrite, Goto, IInv, TypeOK
  <1>4. /\ \A i \in 1..Len(file) : Kept(file[i])
        /\ \A i \in 1..Len(stable) : Kept(stable[i])
    BY <1>1, AllKept
  <1>5. /\ \A i \in 1..Len(file) : file[i].ev \in Nat
        /\ \A i \in 1..Len(stable) : stable[i].ev \in Nat
    BY <1>1, IdsNat
  <1>6. IdInv'
    <2>0. nextId' <= MaxId + 1
      BY <1>1, <1>2
    <2>1. nextId' >= nextId /\ nextId' \in Int /\ nextId \in Int /\ nextId >= 1
      BY <1>1, <1>2
    <2>2. ASSUME NEW e \in batch' PROVE e \in 1..(nextId' - 1)
      <3>1. e \in nextId..(nextId' - 1)
        BY <1>2
      <3> QED BY <2>1, <3>1, WiderRange
    <2>3. ASSUME NEW e \in refused' PROVE e \in 1..(nextId' - 1)
      <3>1. e \in 1..(nextId - 1)
        BY <1>1 DEF IdInv
      <3> QED BY <2>1, <3>1, WiderRange
    <2>4. \A i \in 1..Len(file) : file[i].ev < nextId' /\ file[i].ev \notin refused'
      BY <1>1, <1>4, <1>5, <2>1 DEF Kept
    <2>5. \A i \in 1..Len(stable) : stable[i].ev < nextId' /\ stable[i].ev \notin refused'
      BY <1>1, <1>4, <1>5, <2>1 DEF Kept
    <2> QED BY <2>0, <2>2, <2>3, <2>4, <2>5 DEF IdInv, IdsBelow, NoneRefused
  <1>7. BatchAt(p)'
    <2>1. ASSUME NEW i \in 1..base' PROVE file'[i].ev \notin batch'
      <3>1. i \in 1..Len(file) /\ file'[i] = file[i]
        BY <1>3
      <3>2. file[i].ev < nextId /\ file[i].ev \in Nat
        BY <1>4, <1>5, <3>1 DEF Kept
      <3>3. file[i].ev \notin nextId..(nextId' - 1)
        BY <1>1, <3>2
      <3> QED BY <1>2, <3>1, <3>3
    <2>2. batch' \cap refused' = {}
      <3>1. batch' \subseteq nextId..(nextId' - 1)
        BY <1>2
      <3>2. refused' \subseteq 1..(nextId - 1) /\ nextId \in Nat
        BY <1>1 DEF IdInv
      <3>3. ASSUME NEW e \in batch' PROVE e \notin refused'
        BY <3>1, <3>2
      <3> QED BY <3>3
    <2> QED BY <1>2, <2>1, <2>2 DEF BatchAt
  <1>8. SidecarAt(p)'
    BY <1>3 DEF SidecarAt
  <1> QED BY <1>6, <1>7, <1>8, OthersIdle

(* WriteSome: what reaches the file carries the ids of the batch.            *)
LEMMA WriteSomeLine ==
    ASSUME LineInv, IInv', NEW p \in Proc, WriteSome(p)
    PROVE  IdInv' /\ BatchInv' /\ SidecarInv'
  <1>1. /\ IInv /\ IdInv /\ BatchAt(p) /\ file \in Seq(Cell) /\ buf \in Seq(Cell)
        /\ pc[p] = "writing" /\ lock \in {p, None} /\ base \in Nat
        /\ base <= Len(file) /\ batch \subseteq 1..(nextId - 1) /\ nextId \in Nat
    BY DEF LineInv, IInv, TypeOK, WriteSome, BatchInv, LockInv, Holding, PC,
           IdInv, BaseInv, BaseAt, Writing
  <1>2. PICK k \in 1..Len(buf) :
          /\ file' = file \o Prefix(buf, k)
          /\ buf' = Suffix(buf, k)
          /\ pc' = [pc EXCEPT ![p] = IF k = Len(buf) THEN "syncing" ELSE "writing"]
    BY DEF WriteSome
  <1>3. UNCHANGED <<stable, sidecars, lock, base, batch, nextId, refused>>
    BY DEF WriteSome, history
  <1>4. pc[p] \in Writing /\ pc'[p] \in Writing /\ pc'[p] \notin {"sidecar", "cutting"}
    BY <1>1, <1>2 DEF IInv, TypeOK, Writing
  <1>5. k \in 0..Len(buf)
    BY <1>1
  <1>6. PICK x \in Seq(Cell) : /\ x = Prefix(buf, k) /\ Len(x) = k
                               /\ \A i \in 1..k : x[i] = buf[i]
    <2>1. \E x \in Seq(Cell) : IsPrefix(x, buf, k)
      BY <1>1, <1>5, PrefixIs
    <2> QED BY <2>1 DEF IsPrefix
  <1>7. PICK y \in Seq(Cell) : /\ y = Suffix(buf, k) /\ Len(y) = Len(buf) - k
                               /\ \A i \in 1..(Len(buf) - k) : y[i] = buf[k + i]
    <2>1. \E y \in Seq(Cell) : IsSuffix(y, buf, k)
      BY <1>1, <1>5, SuffixIs
    <2> QED BY <2>1 DEF IsSuffix
  <1>8. /\ Len(file') = Len(file) + k
        /\ \A i \in 1..Len(file) : file'[i] = file[i]
        /\ \A i \in 1..k : file'[Len(file) + i] = x[i]
    <2>1. Len(Concat(file, x)) = Len(file) + Len(x)
      BY <1>1, ConcatFacts
    <2>2. \A i \in 1..Len(file) : Concat(file, x)[i] = file[i]
      BY <1>1, ConcatFacts
    <2>3. \A i \in 1..Len(x) : Concat(file, x)[Len(file) + i] = x[i]
      BY <1>1, ConcatFacts
    <2> QED BY <1>2, <1>6, <2>1, <2>2, <2>3 DEF Concat
  <1>9. \A i \in 1..Len(buf) : buf[i].ev \in batch
    BY <1>1, <1>4 DEF BatchAt
  <1>10. ASSUME NEW i \in 1..k PROVE Kept(x[i])
    <2>1. batch \cap refused = {}
      BY <1>1, <1>4 DEF BatchAt
    <2>2. i \in 1..Len(buf) /\ x[i] = buf[i]
      BY <1>1, <1>5, <1>6
    <2>3. buf[i].ev \in 1..(nextId - 1) /\ buf[i].ev \notin refused
      BY <1>1, <1>9, <2>1, <2>2
    <2> QED BY <1>1, <2>2, <2>3 DEF Kept
  <1>11. \A i \in 1..Len(file') : Kept(file'[i])
    <2>1. ASSUME NEW i \in 1..Len(file') PROVE Kept(file'[i])
      <3>1. CASE i <= Len(file)
        BY <1>1, <1>8, <3>1, AllKept
      <3>2. CASE i > Len(file)
        <4>1. i - Len(file) \in 1..k /\ i = Len(file) + (i - Len(file))
          BY <1>1, <1>8, <3>2
        <4> QED BY <1>8, <1>10, <4>1
      <3> QED BY <1>1, <3>1, <3>2
    <2> QED BY <2>1
  <1>12. IdInv'
    BY <1>1, <1>3, <1>11, AllKept, IdsStay
  <1>13. BatchAt(p)'
    <2>1. ASSUME NEW i \in 1..Len(buf') PROVE buf'[i].ev \in batch'
      <3>1. buf' = y /\ i \in 1..(Len(buf) - k)
        BY <1>2, <1>7
      <3>2. k + i \in 1..Len(buf)
        BY <1>1, <1>5, <3>1
      <3>3. buf'[i] = buf[k + i]
        BY <1>7, <3>1
      <3> QED BY <1>3, <1>9, <3>2, <3>3
    <2>2. ASSUME NEW i \in 1..base' PROVE file'[i].ev \notin batch'
      <3>1. i \in 1..base /\ i \in 1..Len(file)
        BY <1>1, <1>3
      <3>2. file[i].ev \notin batch /\ file'[i] = file[i]
        BY <1>1, <1>4, <1>8, <3>1 DEF BatchAt
      <3> QED BY <1>3, <3>2
    <2> QED BY <1>1, <1>3, <1>4, <2>1, <2>2 DEF BatchAt
  <1>14. SidecarAt(p)'
    BY <1>4 DEF SidecarAt
  <1> QED BY <1>1, <1>3, <1>12, <1>13, <1>14, OthersIdle

(* RollBack: what is left of the file is what was there before the write.    *)
LEMMA RollBackLine ==
    ASSUME LineInv, IInv', NEW p \in Proc, RollBack(p)
    PROVE  IdInv' /\ BatchInv' /\ SidecarInv'
  <1>1. /\ IInv /\ BatchAt(p) /\ pc[p] = "rollback" /\ lock \in {p, None}
        /\ base \in 0..Len(file)
    BY DEF LineInv, IInv, TypeOK, RollBack, Goto, BatchInv, LockInv, Holding, PC,
           BaseInv, BaseAt, Writing
  <1>2. /\ file' = Prefix(file, base) /\ pc'[p] = "rbsync"
        /\ UNCHANGED <<stable, sidecars, lock, buf, base, batch, nextId, refused>>
    BY <1>1 DEF RollBack, Goto, history, IInv, TypeOK
  <1>3. IdInv' /\ Len(file') = base /\ \A i \in 1..base : file'[i] = file[i]
    BY <1>1, <1>2, CutLine
  <1>4. BatchAt(p)' /\ SidecarAt(p)'
    BY <1>1, <1>2, <1>3 DEF BatchAt, SidecarAt, Writing
  <1> QED BY <1>1, <1>2, <1>3, <1>4, OthersIdle

(* RollBackSynced: the batch is refused, and neither the file nor the disk   *)
(* has a cell of it.                                                         *)
LEMMA RollBackSyncedLine ==
    ASSUME LineInv, IInv', NEW p \in Proc, RollBackSynced(p)
    PROVE  IdInv' /\ BatchInv' /\ SidecarInv'
  <1>1. /\ IInv /\ IdInv /\ BatchAt(p) /\ pc[p] = "rbsync" /\ lock \in {p, None}
        /\ base = Len(file)
    BY DEF LineInv, IInv, TypeOK, RollBackSynced, BatchInv, LockInv, Holding, PC,
           BaseInv, BaseAt
  <1>2. /\ stable' = file /\ refused' = refused \cup batch
        /\ UNCHANGED <<file, sidecars, buf, base, batch, nextId>>
    BY DEF RollBackSynced
  <1>3. pc'[p] \in {"open", "closed"} /\ lock' \in {p, None}
    BY <1>1 DEF RollBackSynced, Goto, Release, IInv, TypeOK
  <1>4. \A i \in 1..Len(file) : file[i].ev \notin batch
    BY <1>1 DEF BatchAt, Writing
  <1>5. IdInv'
    BY <1>1, <1>2, <1>4 DEF IdInv, IdsBelow, NoneRefused
  <1>6. BatchAt(p)' /\ SidecarAt(p)'
    BY <1>3 DEF BatchAt, SidecarAt, Writing
  <1> QED BY <1>3, <1>5, <1>6, OthersIdle
(* CutTorn, CutRegion: nothing is being written.                             *)
LEMMA HealCutLine ==
    ASSUME LineInv, IInv', NEW p \in Proc, CutTorn(p) \/ CutRegion(p)
    PROVE  IdInv' /\ BatchInv' /\ SidecarInv'
  <1>1. /\ IInv /\ file \in Seq(Cell) /\ lock \in {p, None}
        /\ pc[p] \in {"healing", "cutting"}
        /\ pc' = [pc EXCEPT ![p] = IF pc[p] = "healing" THEN "tornsync" ELSE "cutsync"]
    BY DEF LineInv, IInv, TypeOK, CutTorn, CutRegion, Goto, LockInv, Holding, PC
  <1>2. UNCHANGED <<batch, refused, nextId, stable, lock>>
    BY DEF CutTorn, CutRegion, history
  <1>3. pc'[p] \in {"tornsync", "cutsync"}
    BY <1>1 DEF IInv, TypeOK
  <1>4. PICK n \in 0..Len(file) : file' = Prefix(file, n)
    <2>1. CASE CutTorn(p)
      BY <1>1, <2>1 DEF CutTorn, LineEnds
    <2>2. CASE CutRegion(p)
      <3>1. base \in 0..Len(file) /\ file' = Prefix(file, base)
        BY <1>1, <2>2 DEF CutRegion, Goto, IInv, BaseInv, BaseAt, LineEnds, TypeOK
      <3> QED BY <3>1
    <2> QED BY <2>1, <2>2
  <1>5. IdInv'
    BY <1>2, <1>4, CutLine
  <1>6. BatchAt(p)' /\ SidecarAt(p)'
    BY <1>3 DEF BatchAt, SidecarAt, Writing
  <1> QED BY <1>1, <1>2, <1>5, <1>6, OthersIdle

(* WriteSidecar: the sidecar's id is new, and it holds the whole region.     *)
LEMMA WriteSidecarLine ==
    ASSUME LineInv, IInv', NEW p \in Proc, WriteSidecar(p)
    PROVE  IdInv' /\ BatchInv' /\ SidecarInv'
  <1>1. /\ IInv /\ IdInv /\ lock \in {p, None} /\ pc'[p] = "sidecar"
        /\ nextId \in Nat /\ nextId >= 1 /\ MaxId \in Nat /\ nextId <= MaxId
    BY ConstantsAssumption
    DEF LineInv, IInv, TypeOK, WriteSidecar, Goto, LockInv, Holding, PC
  <1>2. /\ UNCHANGED <<file, stable, lock, refused>>
        /\ batch' = {nextId} /\ nextId' = nextId + 1
    BY DEF WriteSidecar, history
  <1>3. /\ \A i \in 1..Len(file) : file[i].ev \in Nat
        /\ \A i \in 1..Len(stable) : stable[i].ev \in Nat
    BY <1>1, IdsNat
  <1>4. IdInv'
    <2>1. refused' \subseteq 1..(nextId' - 1)
      BY <1>1, <1>2, WiderRange DEF IdInv
    <2>2. batch' \subseteq 1..(nextId' - 1) /\ nextId' <= MaxId + 1
      BY <1>1, <1>2
    <2>3. IdsBelow(file)' /\ IdsBelow(stable)'
      BY <1>1, <1>2, <1>3 DEF IdInv, IdsBelow
    <2>4. NoneRefused(file)' /\ NoneRefused(stable)'
      BY <1>1, <1>2 DEF IdInv, NoneRefused
    <2> QED BY <2>1, <2>2, <2>3, <2>4 DEF IdInv
  <1>5. BatchAt(p)'
    BY <1>1 DEF BatchAt, Writing
  <1>6. SidecarAt(p)'
    <2>1. PICK n \in ValidEnds(file) :
            /\ sidecars' = sidecars \cup {[id |-> nextId, cells |-> Suffix(file, n),
                                           synced |-> FALSE, cut |-> FALSE, audit |-> 0]}
            /\ base' = n
      BY DEF WriteSidecar
    <2>2. PICK s : s = [id |-> nextId, cells |-> Suffix(file, n),
                        synced |-> FALSE, cut |-> FALSE, audit |-> 0]
      OBVIOUS
    <2>3. s \in sidecars' /\ s.id \in batch' /\ s.cells = Suffix(file, n)
      BY <1>2, <2>1, <2>2
    <2>4. s.cells = Suffix(file', base')
      BY <1>2, <2>1, <2>3
    <2> QED BY <1>1, <2>3, <2>4 DEF SidecarAt
  <1> QED BY <1>1, <1>2, <1>4, <1>5, <1>6, OthersIdle

(* SyncSidecar: the sidecar of the region is durable.                        *)
LEMMA SyncSidecarLine ==
    ASSUME LineInv, IInv', NEW p \in Proc, SyncSidecar(p)
    PROVE  IdInv' /\ BatchInv' /\ SidecarInv'
  <1>1. /\ IInv /\ IdInv /\ lock \in {p, None} /\ pc[p] = "sidecar" /\ pc'[p] = "cutting"
        /\ SidecarAt(p)
    BY DEF LineInv, IInv, TypeOK, SyncSidecar, Goto, LockInv, Holding, PC, SidecarInv
  <1>2. UNCHANGED <<file, stable, lock, refused, batch, nextId, base>>
    BY DEF SyncSidecar, history
  <1>3. IdInv'
    BY <1>1, <1>2, AllKept, IdsStay
  <1>4. BatchAt(p)'
    BY <1>1 DEF BatchAt, Writing
  <1>5. SidecarAt(p)'
    <2>1. PICK s \in sidecars : s.id \in batch /\ s.cells = Suffix(file, base)
      BY <1>1 DEF SidecarAt
    <2>2. s \in Sidecar
      BY <1>1 DEF IInv, TypeOK
    <2>3. PICK t : t = [s EXCEPT !.synced = TRUE]
      OBVIOUS
    <2>4. t.id = s.id /\ t.cells = s.cells /\ t.synced
      BY <2>2, <2>3 DEF Sidecar
    <2>5. t \in sidecars'
      BY <2>1, <2>3 DEF SyncSidecar
    <2>6. t.cells = Suffix(file', base')
      BY <1>2, <2>1, <2>4
    <2> QED BY <1>2, <2>1, <2>4, <2>5, <2>6 DEF SidecarAt
  <1> QED BY <1>1, <1>2, <1>3, <1>4, <1>5, OthersIdle

(* PowerLoss: what is left are cells of the file and of the disk, and holes. *)
LEMMA PowerLossLine ==
    ASSUME LineInv, PowerLoss
    PROVE  IdInv' /\ BatchInv' /\ SidecarInv'
  <1>1. /\ stable' = file' /\ pc' = [p \in Proc |-> "closed"]
        /\ UNCHANGED <<batch, nextId, refused>>
    BY DEF PowerLoss, history
  <1>2. /\ IInv /\ IdInv /\ file \in Seq(Cell) /\ stable \in Seq(Cell)
    BY DEF LineInv, IInv, TypeOK
  <1>3. /\ \A i \in 1..Len(file) : Kept(file[i])
        /\ \A i \in 1..Len(stable) : Kept(stable[i])
        /\ Kept(Zero)
    BY <1>2, AllKept, HoleKept
  <1>4. \A i \in 1..Len(file') : Kept(file'[i])
    <2>1. CASE file' = stable \/ file' = file
      BY <1>3, <2>1
    <2>2. ASSUME NEW n \in (0..Len(file)) \cup {Len(stable)},
                 n >= Len(stable) \/ n >= Len(file),
                 NEW kept \in SUBSET {i \in 1..n : Newer(i) # Older(i)},
                 file' = Mixed(n, kept)
          PROVE  \A i \in 1..Len(file') : Kept(file'[i])
      <3>1. n \in Nat /\ Len(file) \in Nat /\ Len(stable) \in Nat
        BY <1>2
      <3>2. Len(file') = n
        BY <2>2, <3>1 DEF Mixed
      <3>3. ASSUME NEW i \in 1..n PROVE Kept(Newer(i)) /\ Kept(Older(i))
        <4>1. i \in 1..Len(file) \/ i \in 1..Len(stable)
          BY <2>2, <3>1
        <4>2. Kept(Newer(i))
          BY <1>3, <3>1, <4>1 DEF Newer
        <4>3. Kept(Older(i))
          BY <1>3, <3>1 DEF Older
        <4> QED BY <4>2, <4>3
      <3>4. ASSUME NEW i \in 1..n PROVE Kept(file'[i])
        <4>1. file'[i] = Newer(i) \/ file'[i] = Older(i)
          BY <2>2 DEF Mixed
        <4> QED BY <3>3, <4>1
      <3> QED BY <3>2, <3>4
    <2>3. ASSUME NEW n \in Len(stable)..Len(file), NEW holes \in SUBSET LastLine(n),
                 file' = WithHoles(n, holes)
          PROVE  \A i \in 1..Len(file') : Kept(file'[i])
      <3>1. n \in Nat /\ n <= Len(file)
        BY <1>2
      <3>2. Len(file') = n
        BY <2>3, <3>1 DEF WithHoles
      <3>3. ASSUME NEW i \in 1..n PROVE Kept(file'[i])
        <4>1. file'[i] = Zero \/ file'[i] = file[i]
          BY <2>3 DEF WithHoles
        <4>2. i \in 1..Len(file)
          BY <1>2, <3>1
        <4> QED BY <1>3, <4>1, <4>2
      <3> QED BY <3>2, <3>3
    <2> QED BY <2>1, <2>2, <2>3 DEF PowerLoss
  <1>5. IdInv'
    BY <1>1, <1>2, <1>4, IdsStay
  <1>6. BatchInv' /\ SidecarInv'
    BY <1>1 DEF BatchInv, BatchAt, SidecarInv, SidecarAt, Writing
  <1> QED BY <1>5, <1>6

(* The steps that touch neither the cells nor the ids.                       *)
LEMMA StillLine ==
    ASSUME LineInv, NEW p \in Proc,
           \/ CreateNew(p) \/ OpenLock(p) \/ CheckHeader(p) \/ NoTorn(p)
           \/ SyncTorn(p) \/ NoRegion(p) \/ SyncOk(p) \/ WriteFails(p)
           \/ RollBackFails(p) \/ Drop(p)
    PROVE  IdInv' /\ BatchInv' /\ SidecarInv'
  <1>1. pc \in [Proc -> PC]
    BY DEF LineInv, IInv, TypeOK
  <1>2. /\ UNCHANGED <<file, base, batch, buf, sidecars, refused, nextId>>
        /\ stable' \in {stable, file}
    BY DEF CreateNew, OpenLock, CheckHeader, NoTorn, SyncTorn, NoRegion, SyncOk,
           WriteFails, RollBackFails, Drop, disk, history
  <1>3. \A q \in Proc : \/ pc'[q] = pc[q]
                        \/ pc'[q] \notin Writing \cup {"sidecar", "cutting"}
                        \/ pc[q] \in Writing /\ pc'[q] \in Writing
    <2>1. ASSUME NEW there \in PC, pc' = [pc EXCEPT ![p] = there],
                 \/ there \notin Writing \cup {"sidecar", "cutting"}
                 \/ pc[p] \in Writing /\ there \in Writing
          PROVE  \A q \in Proc : \/ pc'[q] = pc[q]
                                 \/ pc'[q] \notin Writing \cup {"sidecar", "cutting"}
                                 \/ pc[q] \in Writing /\ pc'[q] \in Writing
      BY <1>1, <2>1
    <2>2. \E there \in PC : /\ pc' = [pc EXCEPT ![p] = there]
                            /\ \/ there \notin Writing \cup {"sidecar", "cutting"}
                               \/ pc[p] \in Writing /\ there \in Writing
      BY DEF CreateNew, OpenLock, CheckHeader, NoTorn, SyncTorn, NoRegion, SyncOk,
             WriteFails, RollBackFails, Drop, Goto, Release, PC, Writing
    <2> QED BY <2>1, <2>2
  <1> QED BY <1>2, <1>3, QuietLine
(* Nothing is refused, written or quarantined in the initial state, and      *)
(* every step keeps what the two properties rest on.                         *)
LEMMA InitLineInv == Init => LineInv
  <1> SUFFICES ASSUME Init PROVE LineInv
    OBVIOUS
  <1>1. IInv
    BY InitIInv
  <1>2. IdInv
    BY ConstantsAssumption DEF Init, IdInv, IdsBelow, NoneRefused
  <1>3. BatchInv /\ SidecarInv
    BY DEF Init, BatchInv, BatchAt, SidecarInv, SidecarAt, Writing
  <1> QED BY <1>1, <1>2, <1>3 DEF LineInv

(* Every step of a process or of the world preserves LineInv.                *)
LEMMA NextLineInv == LineInv /\ [Next]_vars => LineInv'
  <1> SUFFICES ASSUME LineInv, [Next]_vars PROVE LineInv'
    OBVIOUS
  <1>1. IInv /\ IInv'
    BY NextIInv DEF LineInv
  <1>2. ASSUME NEW p \in Proc, LockNew(p) \/ AppendBatch(p) \/ BeginRepair(p)
        PROVE  IdInv' /\ BatchInv' /\ SidecarInv'
    <2>1. UNCHANGED <<file, refused>> /\ stable' \in {stable, file}
      BY <1>2 DEF LockNew, AppendBatch, BeginRepair, disk, history
    <2>2. CASE LockNew(p) /\ lock # None
      <3>1. /\ UNCHANGED <<file, base, batch, buf, sidecars, refused, nextId>>
            /\ pc' = [pc EXCEPT ![p] = "closed"]
        BY <2>2 DEF LockNew, BeginWrite, Release, disk, history
      <3>2. \A q \in Proc : \/ pc'[q] = pc[q]
                            \/ pc'[q] \notin Writing \cup {"sidecar", "cutting"}
        BY <1>1, <3>1 DEF IInv, TypeOK, Writing
      <3> QED BY <2>1, <3>1, <3>2, QuietLine
    <2>3. CASE ~(LockNew(p) /\ lock # None)
      <3>1. PICK here, what : BeginWrite(p, here, what)
        BY <1>2, <2>3 DEF LockNew, AppendBatch, BeginRepair
      <3>2. lock' = p
        BY <1>1, <1>2, <2>3
        DEF LockNew, AppendBatch, BeginRepair, BeginWrite, Goto, IInv, LockInv,
            Holding, PC
      <3> QED BY <1>1, <2>1, <3>1, <3>2, BeginWriteLine
    <2> QED BY <2>2, <2>3
  <1>3. ASSUME NEW p \in Proc, Step(p) PROVE IdInv' /\ BatchInv' /\ SidecarInv'
    <2>1. CASE LockNew(p) \/ AppendBatch(p) \/ BeginRepair(p)
      BY <1>2, <2>1
    <2>2. CASE CutTorn(p) \/ CutRegion(p)
      BY <1>1, <2>2, HealCutLine
    <2>3. CASE WriteSidecar(p) \/ SyncSidecar(p)
      BY <1>1, <2>3, WriteSidecarLine, SyncSidecarLine
    <2>4. CASE WriteSome(p)
      BY <1>1, <2>4, WriteSomeLine
    <2>5. CASE RollBack(p) \/ RollBackSynced(p)
      BY <1>1, <2>5, RollBackLine, RollBackSyncedLine
    <2>6. CASE \/ CreateNew(p) \/ OpenLock(p) \/ CheckHeader(p) \/ NoTorn(p)
               \/ SyncTorn(p) \/ NoRegion(p) \/ SyncOk(p) \/ WriteFails(p)
               \/ RollBackFails(p) \/ Drop(p)
      BY <2>6, StillLine
    <2> QED BY <1>3, <2>1, <2>2, <2>3, <2>4, <2>5, <2>6 DEF Step
  <1>4. ASSUME PowerLoss PROVE IdInv' /\ BatchInv' /\ SidecarInv'
    BY <1>4, PowerLossLine
  <1>5. ASSUME Writeback \/ UNCHANGED vars PROVE IdInv' /\ BatchInv' /\ SidecarInv'
    <2>1. /\ UNCHANGED <<file, base, batch, buf, sidecars, refused, nextId, pc>>
          /\ stable' \in {stable, file}
      BY <1>5 DEF Writeback, vars, disk, handle, history
    <2> QED BY <2>1, QuietLine
  <1>6. IdInv' /\ BatchInv' /\ SidecarInv'
    BY <1>3, <1>4, <1>5 DEF Next
  <1> QED BY <1>1, <1>6 DEF LineInv

(* No refused id is in the file, the disk or the batch, and a region is      *)
(* about to be cut only with all of it in a sidecar.                         *)
THEOREM LinesKept == Spec => []LineInv
  <1> QED BY InitLineInv, NextLineInv, PTL DEF Spec

(* An append that returned an error and was rolled back stays away: no event *)
(* of it is read again, whatever crash or heal follows.                      *)
THEOREM RefusedStaysAway == Spec => []RefusedNeverResurfaces
  <1>1. LineInv => RefusedNeverResurfaces
    BY DEF LineInv, IdInv, NoneRefused, RefusedNeverResurfaces, EventsIn, ValidEnds,
           LineEnds
  <1> QED BY <1>1, LinesKept, PTL
(* The first n cells are there in g as they are in f.                        *)
Holds(g, f, n) == n <= Len(g) /\ \A i \in 1..n : g[i] = f[i]

(* A write only appends.                                                     *)
LEMMA WriteSomeHolds ==
    ASSUME IInv, NEW p \in Proc, WriteSome(p), NEW n \in 1..Len(file)
    PROVE  Holds(file', file, n)
  <1>1. file \in Seq(Cell) /\ buf \in Seq(Cell) /\ Len(file) \in Nat
    BY DEF IInv, TypeOK
  <1>2. PICK k \in 1..Len(buf) : file' = Concat(file, Prefix(buf, k))
    BY DEF WriteSome, Concat
  <1>3. PICK x \in Seq(Cell) : x = Prefix(buf, k)
    <2>1. k \in 0..Len(buf)
      BY <1>1
    <2> QED BY <1>1, <2>1, PrefixFacts
  <1>4. Len(Concat(file, x)) = Len(file) + Len(x)
    BY <1>1, ConcatFacts
  <1>5. \A i \in 1..Len(file) : Concat(file, x)[i] = file[i]
    BY <1>1, ConcatFacts
  <1>6. Len(x) \in Nat
    BY <1>3
  <1>7. \A i \in 1..n : i \in 1..Len(file)
    BY <1>1
  <1>8. n <= Len(file')
    BY <1>1, <1>2, <1>3, <1>4, <1>6
  <1>9. \A i \in 1..n : file'[i] = file[i]
    BY <1>2, <1>3, <1>5, <1>7
  <1> QED BY <1>8, <1>9 DEF Holds

(* That is what it is for the prefixes to be equal.                          *)
LEMMA HoldsPrefix ==
    ASSUME NEW f \in Seq(Cell), NEW g \in Seq(Cell), NEW n \in 0..Len(f), Len(g) \in Nat
    PROVE  Holds(g, f, n) <=> n <= Len(g) /\ Prefix(g, n) = Prefix(f, n)
  <1>1. ASSUME Holds(g, f, n) PROVE n <= Len(g) /\ Prefix(g, n) = Prefix(f, n)
    <2>1. n \in 0..Len(g) /\ \A i \in 1..n : g[i] = f[i]
      BY <1>1 DEF Holds
    <2>2. PICK x \in Seq(Cell) : /\ x = Prefix(f, n) /\ Len(x) = n
                                 /\ \A i \in 1..n : x[i] = f[i]
      <3>1. \E x \in Seq(Cell) : IsPrefix(x, f, n)
        BY PrefixIs
      <3> QED BY <3>1 DEF IsPrefix
    <2>3. PICK y \in Seq(Cell) : /\ y = Prefix(g, n) /\ Len(y) = n
                                 /\ \A i \in 1..n : y[i] = g[i]
      <3>1. \E y \in Seq(Cell) : IsPrefix(y, g, n)
        BY <2>1, PrefixIs
      <3> QED BY <3>1 DEF IsPrefix
    <2>4. x = y
      BY <2>1, <2>2, <2>3, SameCells
    <2> QED BY <2>1, <2>2, <2>3, <2>4
  <1>2. ASSUME n <= Len(g), Prefix(g, n) = Prefix(f, n) PROVE Holds(g, f, n)
    <2>1. n \in 0..Len(g)
      BY <1>2
    <2>2. \A i \in 1..n : Prefix(f, n)[i] = f[i]
      BY PrefixFacts
    <2>3. \A i \in 1..n : Prefix(g, n)[i] = g[i]
      BY <2>1, PrefixFacts
    <2> QED BY <1>2, <2>2, <2>3 DEF Holds
  <1> QED BY <1>1, <1>2

(* After a power loss the file still holds every prefix that was on the disk.*)
LEMMA PowerLossHolds ==
    ASSUME IInv, PowerLoss, NEW n \in 1..Len(file), Holds(stable, file, n)
    PROVE  Holds(file', file, n)
  <1>1. /\ file \in Seq(Cell) /\ stable \in Seq(Cell) /\ n \in Nat
        /\ n <= Len(file) /\ n <= Len(stable) /\ \A i \in 1..n : stable[i] = file[i]
        /\ Len(file) \in Nat /\ Len(stable) \in Nat
    BY DEF IInv, TypeOK, Holds
  <1>2. CASE file' = stable \/ file' = file
    BY <1>1, <1>2 DEF Holds
  <1>3. ASSUME NEW m \in (0..Len(file)) \cup {Len(stable)},
               m >= Len(stable) \/ m >= Len(file),
               NEW kept \in SUBSET {i \in 1..m : Newer(i) # Older(i)},
               file' = Mixed(m, kept)
        PROVE  Holds(file', file, n)
    <2>1. m \in Nat /\ n <= m
      BY <1>1, <1>3
    <2>2. Len(file') = m
      BY <1>3, <2>1 DEF Mixed
    <2>3. ASSUME NEW i \in 1..n PROVE file'[i] = file[i]
      <3>1. i \in 1..m /\ i <= Len(file) /\ i <= Len(stable)
        BY <1>1, <2>1
      <3>2. Newer(i) = file[i] /\ Older(i) = file[i]
        BY <1>1, <3>1 DEF Newer, Older
      <3> QED BY <1>3, <3>1, <3>2 DEF Mixed
    <2> QED BY <2>1, <2>2, <2>3 DEF Holds
  <1>4. ASSUME NEW m \in Len(stable)..Len(file), NEW holes \in SUBSET LastLine(m),
               file' = WithHoles(m, holes)
        PROVE  Holds(file', file, n)
    <2>1. m \in Nat /\ n <= m
      BY <1>1
    <2>2. Len(file') = m
      BY <1>4, <2>1 DEF WithHoles
    <2>3. ASSUME NEW i \in 1..n PROVE file'[i] = file[i]
      <3>1. i \in 1..m /\ i \notin holes
        BY <1>1, <2>1 DEF LastLine
      <3> QED BY <1>4, <3>1 DEF WithHoles
    <2> QED BY <2>1, <2>2, <2>3 DEF Holds
  <1> QED BY <1>2, <1>3, <1>4 DEF PowerLoss

(* Where a line may go when the file loses it.                               *)
Accounted(n) ==
    \/ \E p \in Proc : pc[p] = "rollback" /\ n > base
    \/ \E s \in sidecars : s.synced /\ \E m \in 0..(n - 1) : s.cells = Suffix(file, m)

(* A step keeps a line of the disk, or accounts for it.                      *)
LEMMA StepKeepsLines ==
    ASSUME LineInv, [Next]_vars, NEW n \in LineEnds(file), Holds(stable, file, n)
    PROVE  Holds(file', file, n) \/ Accounted(n)
  <1>1. /\ IInv /\ file \in Seq(Cell) /\ buf \in Seq(Cell) /\ base \in Nat
        /\ n \in 1..Len(file) /\ Len(file) \in Nat
    BY DEF LineInv, IInv, TypeOK, LineEnds
  <1>2. ASSUME file' = file PROVE Holds(file', file, n)
    BY <1>1, <1>2 DEF Holds
  <1>3. ASSUME NEW m \in 0..Len(file), file' = Prefix(file, m), n <= m
        PROVE  Holds(file', file, n)
    <2>1. Len(file') = m /\ \A i \in 1..m : file'[i] = file[i]
      BY <1>1, <1>3, PrefixFacts
    <2> QED BY <1>1, <1>3, <2>1 DEF Holds
  <1>4. CASE PowerLoss
    BY <1>1, <1>4, PowerLossHolds
  <1>5. ASSUME NEW p \in Proc, WriteSome(p) PROVE Holds(file', file, n)
    BY <1>1, <1>5, WriteSomeHolds
  <1>6. ASSUME NEW p \in Proc, CutTorn(p) PROVE Holds(file', file, n)
    <2>1. PICK m \in LineEnds(file) : IsTornStart(file, m) /\ file' = Prefix(file, m)
      BY <1>6 DEF CutTorn
    <2>2. m \in 0..Len(file) /\ n <= m
      BY <1>1, <2>1 DEF IsTornStart, LineEnds
    <2> QED BY <1>3, <2>1, <2>2
  <1>7. ASSUME NEW p \in Proc, RollBack(p) PROVE Holds(file', file, n) \/ Accounted(n)
    <2>1. pc[p] = "rollback" /\ file' = Prefix(file, base) /\ base \in 0..Len(file)
      BY <1>1, <1>7 DEF RollBack, Goto, IInv, BaseInv, BaseAt, Writing
    <2>2. CASE n <= base
      BY <1>3, <2>1, <2>2
    <2>3. CASE n > base
      BY <2>1, <2>3 DEF Accounted
    <2> QED BY <1>1, <2>2, <2>3
  <1>8. ASSUME NEW p \in Proc, CutRegion(p) PROVE Holds(file', file, n) \/ Accounted(n)
    <2>1. pc[p] = "cutting" /\ file' = Prefix(file, base) /\ base \in 0..Len(file)
      BY <1>1, <1>8 DEF CutRegion, Goto, IInv, BaseInv, BaseAt, LineEnds
    <2>2. CASE n <= base
      BY <1>3, <2>1, <2>2
    <2>3. CASE n > base
      <3>1. PICK s \in sidecars : s.synced /\ s.cells = Suffix(file, base)
        BY <2>1 DEF LineInv, SidecarInv, SidecarAt
      <3>2. base \in 0..(n - 1)
        BY <1>1, <2>3
      <3> QED BY <3>1, <3>2 DEF Accounted
    <2> QED BY <1>1, <2>2, <2>3
  <1>9. ASSUME NEW p \in Proc, Step(p), ~WriteSome(p), ~CutTorn(p), ~CutRegion(p), ~RollBack(p)
        PROVE  file' = file
    BY <1>9 DEF Step, CreateNew, LockNew, OpenLock, CheckHeader, NoTorn, SyncTorn,
                NoRegion, WriteSidecar, SyncSidecar, BeginRepair, AppendBatch, SyncOk,
                WriteFails, RollBackSynced, RollBackFails, Drop, disk
  <1>10. CASE Writeback \/ UNCHANGED vars
    BY <1>2, <1>10 DEF Writeback, vars, disk
  <1> QED BY <1>2, <1>4, <1>5, <1>6, <1>7, <1>8, <1>9, <1>10 DEF Next

(* A complete line that is on the disk leaves the file only when its own     *)
(* failed append is rolled back, or into a sidecar that is already durable.  *)
THEOREM NothingLostSilently == Spec => NoLineLostSilently
  <1>1. ASSUME LineInv, LineInv', [Next]_vars, NEW n \in LineEnds(file)
        PROVE  \/ n <= Len(file') /\ Prefix(file', n) = Prefix(file, n)
               \/ ~(n <= Len(stable) /\ Prefix(stable, n) = Prefix(file, n))
               \/ \E p \in Proc : pc[p] = "rollback" /\ n > base
               \/ \E s \in sidecars :
                     s.synced /\ \E m \in 0..(n - 1) : s.cells = Suffix(file, m)
    <2>1. /\ file \in Seq(Cell) /\ stable \in Seq(Cell) /\ file' \in Seq(Cell)
          /\ n \in 0..Len(file)
      BY <1>1 DEF LineInv, IInv, TypeOK, LineEnds
    <2>2. Holds(stable, file, n) <=> n <= Len(stable) /\ Prefix(stable, n) = Prefix(file, n)
      BY <2>1, HoldsPrefix
    <2>3. Holds(file', file, n) <=> n <= Len(file') /\ Prefix(file', n) = Prefix(file, n)
      <3>1. PICK g \in Seq(Cell) : g = file'
        BY <2>1
      <3>2. Holds(g, file, n) <=> n <= Len(g) /\ Prefix(g, n) = Prefix(file, n)
        BY <2>1, HoldsPrefix
      <3> QED BY <3>1, <3>2
    <2>4. Holds(stable, file, n) => Holds(file', file, n) \/ Accounted(n)
      BY <1>1, StepKeepsLines
    <2> QED BY <2>2, <2>3, <2>4 DEF Accounted
  <1>2. LineInv /\ LineInv' /\ [Next]_vars =>
          [\A n \in LineEnds(file) :
            \/ n <= Len(file') /\ Prefix(file', n) = Prefix(file, n)
            \/ ~(n <= Len(stable) /\ Prefix(stable, n) = Prefix(file, n))
            \/ \E p \in Proc : pc[p] = "rollback" /\ n > base
            \/ \E s \in sidecars :
                  /\ s.synced
                  /\ \E m \in 0..(n - 1) : s.cells = Suffix(file, m)]_vars
    BY <1>1
  <1> QED BY <1>2, LinesKept, PTL DEF Spec, NoLineLostSilently
-----------------------------------------------------------------------------
(* The log implements DurableLog: what readers see only changes behind what  *)
(* has been acknowledged.                                                    *)

(* What is selected from the first c elements does not depend on the rest,   *)
(* and is where the selection from the whole sequence starts.                *)
LEMMA SelectionStart ==
    ASSUME NEW S, NEW U, NEW s \in Seq(U), NEW t \in Seq(U),
           NEW c \in Nat, c <= Len(s), c <= Len(t), \A i \in 1..c : t[i] = s[i]
    PROVE  /\ Selection(t, S)[c] = Selection(s, S)[c]
           /\ Len(Selection(t, S)[c]) <= Len(Select(t, S))
           /\ SubSeq(Select(t, S), 1, Len(Selection(t, S)[c])) = Selection(t, S)[c]
           /\ Len(Selection(t, S)[c]) \in Nat
  <1>1. PICK u \in Seq(U) : /\ u = Prefix(t, c) /\ Len(u) = c
                            /\ \A i \in 1..c : u[i] = t[i]
    <2>1. c \in 0..Len(t)
      OBVIOUS
    <2>2. \E u \in Seq(U) : IsPrefix(u, t, c)
      BY <2>1, PrefixIs
    <2> QED BY <2>2 DEF IsPrefix
  <1>2. PICK v \in Seq(U) : t = Concat(u, v)
    <2>1. c \in 0..Len(t)
      OBVIOUS
    <2>2. PICK w \in Seq(U) : /\ w = Suffix(t, c) /\ Len(w) = Len(t) - c
                              /\ \A i \in 1..(Len(t) - c) : w[i] = t[c + i]
      <3>1. \E w \in Seq(U) : IsSuffix(w, t, c)
        BY <2>1, SuffixIs
      <3> QED BY <3>1 DEF IsSuffix
    <2>3. PICK r \in Seq(U) : /\ r = Concat(u, w) /\ Len(r) = Len(u) + Len(w)
                              /\ \A i \in 1..Len(u) : r[i] = u[i]
                              /\ \A i \in 1..Len(w) : r[Len(u) + i] = w[i]
      <3>1. Concat(u, w) \in Seq(U) /\ Len(Concat(u, w)) = Len(u) + Len(w)
        BY ConcatFacts
      <3>2. \A i \in 1..Len(u) : Concat(u, w)[i] = u[i]
        BY ConcatFacts
      <3>3. \A i \in 1..Len(w) : Concat(u, w)[Len(u) + i] = w[i]
        BY ConcatFacts
      <3> QED BY <3>1, <3>2, <3>3
    <2>4. ASSUME NEW i \in 1..Len(t) PROVE r[i] = t[i]
      <3>1. CASE i <= c
        BY <1>1, <2>3, <3>1
      <3>2. CASE i > c
        <4>1. i - c \in 1..(Len(t) - c) /\ i = c + (i - c)
          BY <3>2
        <4>2. r[c + (i - c)] = w[i - c]
          BY <1>1, <2>2, <2>3, <4>1
        <4>3. w[i - c] = t[c + (i - c)]
          BY <2>2, <4>1
        <4> QED BY <4>1, <4>2, <4>3
      <3> QED BY <3>1, <3>2
    <2>5. Len(r) = Len(t)
      BY <1>1, <2>2, <2>3
    <2>6. r = t
      BY <2>4, <2>5, SameCells
    <2> QED BY <2>3, <2>6
  <1>3. Selection(t, S)[c] = Select(u, S) /\ Selection(s, S)[c] = Select(u, S)
    <2>1. Selection(t, S)[Len(u)] = Selection(u, S)[Len(u)]
      <3>1. Len(u) <= Len(t) /\ \A i \in 1..Len(u) : t[i] = u[i]
        BY <1>1
      <3> QED BY <3>1, SelectionPrefix
    <2>2. Selection(s, S)[Len(u)] = Selection(u, S)[Len(u)]
      <3>1. Len(u) <= Len(s) /\ \A i \in 1..Len(u) : s[i] = u[i]
        BY <1>1
      <3> QED BY <3>1, SelectionPrefix
    <2> QED BY <1>1, <2>1, <2>2 DEF Select
  <1>4. Select(t, S) = Select(u, S) \o Select(v, S)
    BY <1>2, SelectConcat DEF Concat
  <1>5. PICK a \in Seq(S \cap U) : a = Select(u, S)
    BY SelectType
  <1>6. PICK b \in Seq(S \cap U) : b = Select(v, S)
    BY SelectType
  <1>7. Len(a) <= Len(a \o b) /\ SubSeq(a \o b, 1, Len(a)) = a /\ Len(a) \in Nat
    OBVIOUS
  <1> QED BY <1>3, <1>4, <1>5, <1>6, <1>7

(* A function on an initial segment is a sequence.                           *)
LEMMA CellsOfFunction ==
    ASSUME NEW S, NEW n \in Nat, NEW f \in [1..n -> S]
    PROVE  f \in Seq(S) /\ Len(f) = n
  BY SeqDef

(* The events of a file whose ids are in bounds, cell for cell.              *)
LEMMA EventAtType ==
    ASSUME NEW f \in Seq(Cell), \A i \in 1..Len(f) : f[i].ev \in 0..MaxId
    PROVE  /\ EventAt(f) \in Seq(0..MaxId)
           /\ Len(EventAt(f)) = Len(f)
           /\ \A n \in 1..Len(f) :
                 EventAt(f)[n] = IF ValidLine(f, n) THEN f[n].ev ELSE 0
  <1>1. EventAt(f) \in [1..Len(f) -> 0..MaxId]
    BY ConstantsAssumption DEF EventAt
  <1>2. Len(f) \in Nat
    OBVIOUS
  <1>3. EventAt(f) \in Seq(0..MaxId) /\ Len(EventAt(f)) = Len(f)
    BY <1>1, <1>2, CellsOfFunction
  <1> QED BY <1>3 DEF EventAt

(* Files that agree on their first c cells agree on the events in them.      *)
LEMMA EventAtAgree ==
    ASSUME NEW f \in Seq(Cell), NEW g \in Seq(Cell), NEW c \in Nat,
           c <= Len(f), c <= Len(g), \A i \in 1..c : g[i] = f[i]
    PROVE  \A n \in 1..c : EventAt(g)[n] = EventAt(f)[n]
  <1>1. ASSUME NEW n \in 1..c PROVE EventAt(g)[n] = EventAt(f)[n]
    <2>1. /\ n \in 1..Len(f) /\ n \in 1..Len(g) /\ n \in Nat /\ g[n] = f[n]
          /\ \A i \in 1..n : g[i] = f[i] /\ f[i] = g[i]
      OBVIOUS
    <2>2. ValidLine(f, n) => ValidLine(g, n)
      BY <2>1, ValidAgree
    <2>3. ValidLine(g, n) => ValidLine(f, n)
      BY <2>1, ValidAgree
    <2> QED BY <2>1, <2>2, <2>3 DEF EventAt
  <1> QED BY <1>1

(* Ids below the next one are within the bound.                              *)
LEMMA FileIds ==
    ASSUME NEW f \in Seq(Cell), NEW n \in Nat, n <= MaxId + 1,
           \A i \in 1..Len(f) : f[i].ev < n
    PROVE  \A i \in 1..Len(f) : f[i].ev \in 0..MaxId
  <1>1. MaxId \in Nat
    BY ConstantsAssumption
  <1>2. \A d \in Cell : d.ev \in Nat
    BY DEF Cell, EventCell, Zero
  <1>3. ASSUME NEW i \in 1..Len(f) PROVE f[i].ev \in 0..MaxId
    <2>1. f[i].ev \in Nat /\ f[i].ev < n
      BY <1>2
    <2> QED BY <1>1, <2>1
  <1> QED BY <1>3

(* Only SyncOk acknowledges.                                                 *)
LEMMA CommittedStays ==
    ASSUME [Next]_vars, \A p \in Proc : ~SyncOk(p)
    PROVE  committed' = committed
  BY DEF Next, vars, Step, CreateNew, LockNew, OpenLock, CheckHeader, CutTorn, NoTorn,
         SyncTorn, NoRegion, WriteSidecar, SyncSidecar, CutRegion, BeginRepair,
         AppendBatch, WriteSome, WriteFails, RollBack, RollBackSynced, RollBackFails,
         Drop, Writeback, PowerLoss, disk, handle, history

(* Nothing is visible or acknowledged of a log nobody created.               *)
LEMMA DurableInit == Init => Durable!Init
  <1> SUFFICES ASSUME Init PROVE Durable!Init
    OBVIOUS
  <1>1. file = <<>> /\ committed = 0
    BY DEF Init
  <1>2. <<>> \in Seq(Cell) /\ Len(<<>>) = 0 /\ <<>> \in Seq(0..MaxId)
    OBVIOUS
  <1>3. EventAt(file) = <<>>
    BY <1>1 DEF EventAt
  <1>4. Select(EventAt(file), 1..MaxId) = <<>>
    BY <1>3, SelectEmpty
  <1>5. Visible(committed) = <<>>
    <2>1. Selection(<<>>, 1..MaxId)[0] = <<>>
      BY <1>2, SelectionStep
    <2> QED BY <1>1, <1>2, <1>3, <2>1 DEF Visible
  <1> QED BY <1>2, <1>4, <1>5 DEF Durable!Init

(* Every step is one of DurableLog, or leaves what readers see as it is.     *)
LEMMA DurableStep ==
    ASSUME LineInv, LineInv', [Next]_vars
    PROVE  [Durable!Next]_(Durable!vars)
  <1> DEFINE S == 1..MaxId
             U == 0..MaxId
  <1>1. PICK f \in Seq(Cell) : f = file /\ \A i \in 1..Len(f) : f[i].ev \in U
    <2>1. /\ file \in Seq(Cell) /\ nextId \in Nat /\ nextId <= MaxId + 1
          /\ \A i \in 1..Len(file) : file[i].ev < nextId
      BY DEF LineInv, IInv, TypeOK, IdInv, IdsBelow
    <2> QED BY <2>1, FileIds
  <1>2. PICK g \in Seq(Cell) : g = file' /\ \A i \in 1..Len(g) : g[i].ev \in U
    <2>1. /\ file' \in Seq(Cell) /\ nextId' \in Nat /\ nextId' <= MaxId + 1
          /\ \A i \in 1..Len(file') : file'[i].ev < nextId'
      BY DEF LineInv, IInv, TypeOK, IdInv, IdsBelow
    <2>2. PICK g \in Seq(Cell), n \in Nat : g = file' /\ n = nextId'
      BY <2>1
    <2>3. \A i \in 1..Len(g) : g[i].ev \in U
      BY <2>1, <2>2, FileIds
    <2> QED BY <2>2, <2>3
  <1>3. PICK c \in Nat : c = committed /\ c <= Len(f)
    BY <1>1 DEF LineInv, IInv, TypeOK, CommittedIntact
  <1>4. c <= Len(g) /\ \A i \in 1..c : g[i] = f[i]
    BY <1>1, <1>2, <1>3, StepKeepsPrefix DEF LineInv
  <1>5. PICK s \in Seq(U) : /\ s = EventAt(f) /\ Len(s) = Len(f)
    BY <1>1, EventAtType
  <1>6. PICK t \in Seq(U) : /\ t = EventAt(g) /\ Len(t) = Len(g)
    BY <1>2, EventAtType
  <1>7. \A i \in 1..c : t[i] = s[i]
    BY <1>3, <1>4, <1>5, <1>6, EventAtAgree
  <1>7a. S \cap U = S
    OBVIOUS
  <1>7b. c <= Len(s) /\ c <= Len(t)
    BY <1>3, <1>4, <1>5, <1>6
  <1> HIDE DEF S, U
  <1>8. /\ Selection(t, S)[c] = Selection(s, S)[c]
        /\ Len(Selection(t, S)[c]) <= Len(Select(t, S))
        /\ SubSeq(Select(t, S), 1, Len(Selection(t, S)[c])) = Selection(t, S)[c]
    BY <1>7, <1>7b, SelectionStart, ZenonT(90)
  <1>9. /\ Len(Selection(s, S)[c]) <= Len(Select(s, S))
        /\ SubSeq(Select(s, S), 1, Len(Selection(s, S)[c])) = Selection(s, S)[c]
        /\ Len(Selection(s, S)[c]) \in Nat
    BY <1>7b, SelectionStart
  <1>10. /\ Select(t, S) \in Seq(S) /\ Select(s, S) \in Seq(S)
    BY <1>7a, SelectType
  <1>11. Select(EventAt(file), 1..MaxId) = Select(s, S)
    BY <1>1, <1>5 DEF S
  <1>12. Select(EventAt(file), 1..MaxId)' = Select(t, S)
    BY <1>2, <1>6 DEF S
  <1>13. Len(Visible(committed)) = Len(Selection(s, S)[c])
    BY <1>1, <1>3, <1>5 DEF S, Visible
  <1>14. CASE \A p \in Proc : ~SyncOk(p)
    <2>1. committed' = c
      BY <1>3, <1>14, CommittedStays
    <2>2. Len(Visible(committed))' = Len(Selection(t, S)[c])
      BY <1>2, <1>4, <1>6, <2>1 DEF S, Visible
    <2>3. Durable!ChangeTail
      BY <1>8, <1>9, <1>10, <1>11, <1>12, <1>13, <2>2 DEF Durable!ChangeTail, S
    <2> QED BY <2>3 DEF Durable!Next
  <1>15. ASSUME NEW p \in Proc, SyncOk(p) PROVE [Durable!Next]_(Durable!vars)
    <2>1. file' = file /\ committed' = Len(file)
      BY <1>15 DEF SyncOk
    <2>2. f = g /\ s = t /\ committed' = Len(t)
      BY <1>1, <1>2, <1>5, <1>6, <2>1
    <2>3. Len(Visible(committed))' = Len(Select(s, S))
      <3>1. committed' <= Len(file')
        BY <1>2, <1>6, <2>2
      <3> QED BY <1>2, <1>6, <2>2, <3>1 DEF Select, S, Visible
    <2>4. CASE Len(Selection(s, S)[c]) < Len(Select(s, S))
      BY <1>11, <1>12, <1>13, <2>2, <2>3, <2>4 DEF Durable!Next, Durable!Acknowledge
    <2>5. CASE Len(Selection(s, S)[c]) = Len(Select(s, S))
      BY <1>11, <1>12, <1>13, <2>2, <2>3, <2>5 DEF Durable!vars
    <2>6. Len(Select(s, S)) \in Nat
      BY <1>10
    <2> QED BY <1>9, <2>4, <2>5, <2>6
  <1> QED BY <1>14, <1>15

(* The file, its crashes and its repairs implement the durable log: what a   *)
(* reader sees changes only behind the acknowledged prefix, and that grows   *)
(* to everything visible when an append returns.                             *)
THEOREM Refinement == Spec => ImplementsDurableLog
  <1>1. LineInv /\ LineInv' /\ [Next]_vars => [Durable!Next]_(Durable!vars)
    BY DurableStep
  <1> QED BY <1>1, DurableInit, LinesKept, PTL DEF Spec, ImplementsDurableLog, Durable!Spec
-----------------------------------------------------------------------------
(* The incremental readers, where no write fails.                            *)

(* A step of a writer keeps the file up to every line of it that parses: it  *)
(* appends, or cuts behind all of them.                                      *)
LEMMA StepKeepsValid ==
    ASSUME LineInv, RegionInv, NothingBack, NEW n \in ValidEnds(file),
           Writeback \/ \E p \in Proc : Step(p)
    PROVE  Holds(file', file, n)
  <1>1. /\ IInv /\ file \in Seq(Cell) /\ buf \in Seq(Cell)
        /\ n \in LineEnds(file) /\ n \in 1..Len(file) /\ Len(file) \in Nat
    BY DEF LineInv, IInv, TypeOK, ValidEnds, LineEnds
  <1>2. ASSUME file' = file PROVE Holds(file', file, n)
    BY <1>1, <1>2 DEF Holds
  <1>3. ASSUME NEW m \in 0..Len(file), file' = Prefix(file, m), n <= m
        PROVE  Holds(file', file, n)
    <2>1. Len(file') = m /\ \A i \in 1..m : file'[i] = file[i]
      BY <1>1, <1>3, PrefixFacts
    <2> QED BY <1>1, <1>3, <2>1 DEF Holds
  <1>4. ASSUME NEW p \in Proc, WriteSome(p) PROVE Holds(file', file, n)
    BY <1>1, <1>4, WriteSomeHolds
  <1>5. ASSUME NEW p \in Proc, CutTorn(p) PROVE Holds(file', file, n)
    <2>1. PICK m \in LineEnds(file) : IsTornStart(file, m) /\ file' = Prefix(file, m)
      BY <1>5 DEF CutTorn
    <2>2. m \in 0..Len(file) /\ n <= m
      BY <1>1, <2>1 DEF IsTornStart, LineEnds
    <2> QED BY <1>3, <2>1, <2>2
  <1>6. ASSUME NEW p \in Proc, RollBack(p) PROVE FALSE
    BY <1>6 DEF RollBack, Goto, NothingBack
  <1>7. ASSUME NEW p \in Proc, CutRegion(p) PROVE Holds(file', file, n)
    <2>1. pc[p] = "cutting" /\ file' = Prefix(file, base) /\ base \in 0..Len(file)
      BY <1>1, <1>7 DEF CutRegion, Goto, IInv, BaseInv, BaseAt, LineEnds
    <2>2. n <= base
      BY <2>1 DEF RegionInv, RegionAt
    <2> QED BY <1>3, <2>1, <2>2
  <1>8. ASSUME NEW p \in Proc, Step(p), ~WriteSome(p), ~CutTorn(p), ~CutRegion(p), ~RollBack(p)
        PROVE  file' = file
    BY <1>8 DEF Step, CreateNew, LockNew, OpenLock, CheckHeader, NoTorn, SyncTorn,
                NoRegion, WriteSidecar, SyncSidecar, BeginRepair, AppendBatch, SyncOk,
                WriteFails, RollBackSynced, RollBackFails, Drop, disk
  <1>9. CASE Writeback
    BY <1>2, <1>9 DEF Writeback
  <1> QED BY <1>2, <1>4, <1>5, <1>6, <1>7, <1>8, <1>9

(* A line that parses stays one where the file keeps its cells.              *)
LEMMA ValidStays ==
    ASSUME NEW f \in Seq(Cell), NEW g \in Seq(Cell), NEW n \in ValidEnds(f),
           Holds(g, f, n)
    PROVE  n \in ValidEnds(g)
  <1>1. n \in Nat /\ n <= Len(f) /\ n <= Len(g) /\ ValidLine(f, n)
    BY DEF ValidEnds, LineEnds, Holds
  <1>2. ValidLine(g, n)
    BY <1>1, ValidAgree DEF Holds
  <1> QED BY <1>2 DEF ValidEnds, LineEnds, ValidLine

(* Nobody but p is at the cut of a region.                                   *)
LEMMA OneRegion ==
    ASSUME IInv', NEW p \in Proc, lock' \in {p, None}, RegionAt(p)'
    PROVE  RegionInv'
  <1>1. ASSUME NEW q \in Proc, q # p PROVE pc'[q] \notin Holding
    BY <1>1, ConstantsAssumption DEF IInv, LockInv
  <1>2. {"sidecar", "cutting"} \subseteq Holding
    BY DEF Holding, PC
  <1>3. ASSUME NEW q \in Proc PROVE RegionAt(q)'
    BY <1>1, <1>2 DEF RegionAt
  <1> QED BY <1>3 DEF RegionInv

(* The region of a cut is found behind the last line that parses, and nobody *)
(* else writes before the cut.                                               *)
LEMMA NextRegion ==
    ASSUME IInv, IInv', RegionInv, NothingBack, ~WriteErrors, [Next]_vars
    PROVE  RegionInv' /\ NothingBack'
  <1>1. /\ pc \in [Proc -> PC] /\ pc' \in [Proc -> PC]
        /\ lock \in Proc \cup {None} /\ lock' \in Proc \cup {None} /\ None \notin Proc
        /\ \A q \in Proc : pc[q] \in Holding <=> lock = q
        /\ \A q \in Proc : pc'[q] \in Holding <=> lock' = q
        /\ {"sidecar", "cutting"} \subseteq Holding
    BY ConstantsAssumption DEF IInv, TypeOK, LockInv, Holding, PC
  <1>2. ASSUME UNCHANGED <<file, base>>,
               \A q \in Proc : pc'[q] \in {"sidecar", "cutting"} =>
                                  pc[q] \in {"sidecar", "cutting"}
        PROVE  RegionInv'
    BY <1>2 DEF RegionInv, RegionAt
  <1>3. ASSUME NEW p \in Proc,
               LockNew(p) \/ OpenLock(p) \/ CheckHeader(p) \/ CreateNew(p) \/ Drop(p)
        PROVE  RegionInv'
    <2>1. CASE LockNew(p) /\ lock = None
      <3>1. pc'[p] = "writing" /\ lock' = p
        BY <1>1, <2>1 DEF LockNew, BeginWrite, Goto
      <3>2. RegionAt(p)'
        BY <3>1 DEF RegionAt
      <3> QED BY <3>1, <3>2, OneRegion
    <2>2. CASE ~(LockNew(p) /\ lock = None)
      <3>1. UNCHANGED <<file, base>>
        BY <1>3, <2>2 DEF LockNew, OpenLock, CheckHeader, CreateNew, Drop, disk
      <3>2. \A q \in Proc : pc'[q] = pc[q] \/ pc'[q] \in {"closed", "created", "checking", "healing"}
        BY <1>1, <1>3, <2>2 DEF LockNew, OpenLock, CheckHeader, CreateNew, Drop, Goto, Release
      <3> QED BY <1>2, <3>1, <3>2
    <2> QED BY <2>1, <2>2
  <1>4. ASSUME NEW p \in Proc,
               \/ CutTorn(p) \/ CutRegion(p) \/ BeginRepair(p) \/ AppendBatch(p) \/ WriteSome(p)
               \/ NoTorn(p) \/ SyncTorn(p) \/ NoRegion(p) \/ SyncOk(p)
        PROVE  RegionInv'
    <2>1. pc[p] \in Holding /\ UNCHANGED lock
      BY <1>4 DEF CutTorn, CutRegion, BeginRepair, AppendBatch, BeginWrite, WriteSome, NoTorn,
                  SyncTorn, NoRegion, SyncOk, Goto, Holding, PC
    <2>2. pc'[p] \notin {"sidecar", "cutting"}
      BY <1>1, <1>4 DEF CutTorn, CutRegion, BeginRepair, AppendBatch, BeginWrite, WriteSome,
                        NoTorn, SyncTorn, NoRegion, SyncOk, Goto
    <2>3. lock' = p /\ RegionAt(p)'
      BY <1>1, <2>1, <2>2 DEF RegionAt
    <2> QED BY <2>3, OneRegion
  <1>5. ASSUME NEW p \in Proc, WriteFails(p) \/ RollBack(p) \/ RollBackSynced(p) \/ RollBackFails(p)
        PROVE  FALSE
    BY <1>5 DEF WriteFails, RollBack, RollBackSynced, RollBackFails, Goto, NothingBack
  <1>6. ASSUME NEW p \in Proc, WriteSidecar(p) PROVE RegionInv'
    <2>1. PICK n \in ValidEnds(file) : IsRegionStart(file, n) /\ base' = n /\ file' = file
      BY <1>6 DEF WriteSidecar
    <2>2. \A m \in ValidEnds(file) : m <= n
      BY <2>1 DEF IsRegionStart
    <2>3. RegionAt(p)'
      BY <2>1, <2>2 DEF RegionAt
    <2>4. pc[p] \in Holding /\ UNCHANGED lock
      BY <1>6 DEF WriteSidecar, Goto, Holding, PC
    <2> QED BY <1>1, <2>3, <2>4, OneRegion
  <1>7. ASSUME NEW p \in Proc, SyncSidecar(p) PROVE RegionInv'
    <2>1. UNCHANGED <<file, base>> /\ pc[p] = "sidecar" /\ pc' = [pc EXCEPT ![p] = "cutting"]
      BY <1>7 DEF SyncSidecar, Goto
    <2>2. \A q \in Proc : pc'[q] \in {"sidecar", "cutting"} => pc[q] \in {"sidecar", "cutting"}
      BY <1>1, <2>1
    <2> QED BY <1>2, <2>1, <2>2
  <1>8. ASSUME NEW p \in Proc, Step(p) PROVE RegionInv'
    BY <1>3, <1>4, <1>5, <1>6, <1>7, <1>8 DEF Step
  <1>9. ASSUME PowerLoss PROVE RegionInv'
    BY <1>9 DEF PowerLoss, RegionInv, RegionAt
  <1>10. ASSUME Writeback \/ UNCHANGED vars PROVE RegionInv'
    BY <1>2, <1>10 DEF Writeback, vars, disk, handle
  <1>11. RegionInv'
    BY <1>8, <1>9, <1>10 DEF Next
  <1>12. ASSUME NEW p \in Proc, Step(p) PROVE NothingBack'
    <2>1. \A q \in Proc : pc'[q] = pc[q] \/ pc'[q] \notin {"rollback", "rbsync"}
      BY <1>1, <1>5, <1>12
      DEF Step, CreateNew, LockNew, OpenLock, CheckHeader, CutTorn, NoTorn, SyncTorn,
          NoRegion, WriteSidecar, SyncSidecar, CutRegion, BeginRepair, AppendBatch, BeginWrite,
          WriteSome, SyncOk, Drop, Goto, Release
    <2> QED BY <2>1 DEF NothingBack
  <1>13. NothingBack'
    BY <1>12 DEF Next, NothingBack, PowerLoss, Writeback, handle, vars
  <1> QED BY <1>11, <1>13

(* The cells the file's ids are in, as the readers select from them.         *)
LEMMA ReaderFile ==
    ASSUME LineInv
    PROVE  /\ file \in Seq(Cell)
           /\ \A i \in 1..Len(file) : file[i].ev \in 0..MaxId
  <1>1. /\ file \in Seq(Cell) /\ nextId \in Nat /\ nextId <= MaxId + 1
        /\ \A i \in 1..Len(file) : file[i].ev < nextId
    BY DEF LineInv, IInv, TypeOK, IdInv, IdsBelow
  <1> QED BY <1>1, FileIds

(* The same of the file after a step.                                        *)
LEMMA NextFile ==
    ASSUME LineInv'
    PROVE  \E g \in Seq(Cell) : g = file' /\ \A i \in 1..Len(g) : g[i].ev \in 0..MaxId
  <1>1. /\ file' \in Seq(Cell) /\ nextId' \in Nat /\ nextId' <= MaxId + 1
        /\ \A i \in 1..Len(file') : file'[i].ev < nextId'
    BY DEF LineInv, IInv, TypeOK, IdInv, IdsBelow
  <1>2. PICK g \in Seq(Cell), n \in Nat : g = file' /\ n = nextId'
    BY <1>1
  <1>3. \A i \in 1..Len(g) : g[i].ev \in 0..MaxId
    BY <1>1, <1>2, FileIds
  <1> QED BY <1>2, <1>3

(* The events of the lines behind cell c up to cell d, which follow those up *)
(* to c.                                                                     *)
LEMMA MarksGap ==
    ASSUME NEW f \in Seq(Cell), \A i \in 1..Len(f) : f[i].ev \in 0..MaxId,
           NEW c \in Nat, NEW d \in Nat, c <= d, d <= Len(f),
           NEW ends, ends = {n \in ValidEnds(f) : c < n /\ n <= d}
    PROVE  /\ Selection(EventAt(f), 1..MaxId)[d]
                = Selection(EventAt(f), 1..MaxId)[c] \o Select(Marks(f, ends), 1..MaxId)
           /\ Select(Marks(f, ends), 1..MaxId) \in Seq(1..MaxId)
  <1>1. PICK s \in Seq(0..MaxId) :
          /\ s = EventAt(f) /\ Len(s) = Len(f)
          /\ \A n \in 1..Len(f) : s[n] = IF ValidLine(f, n) THEN f[n].ev ELSE 0
    BY EventAtType
  <1>2. Marks(f, ends) \in [1..Len(f) -> 0..MaxId]
    BY ConstantsAssumption DEF Marks
  <1>3. Len(f) \in Nat
    OBVIOUS
  <1>4. Marks(f, ends) \in Seq(0..MaxId) /\ Len(Marks(f, ends)) = Len(f)
    BY <1>2, <1>3, CellsOfFunction
  <1>5. PICK t \in Seq(0..MaxId) :
          /\ t = Marks(f, ends) /\ Len(t) = Len(f)
          /\ \A n \in 1..Len(f) : t[n] = IF n \in ends THEN f[n].ev ELSE 0
    BY <1>4 DEF Marks
  <1>6. \A n \in 1..Len(f) : n \in ends <=> ValidLine(f, n) /\ c < n /\ n <= d
    BY DEF ValidEnds, LineEnds, ValidLine
  <1>7. \A i \in 1..Len(s) : c < i /\ i <= d => t[i] = s[i]
    BY <1>1, <1>5, <1>6
  <1>8. \A i \in 1..Len(s) : ~(c < i /\ i <= d) => t[i] \notin 1..MaxId
    BY <1>1, <1>5, <1>6, ConstantsAssumption
  <1>9. Len(t) = Len(s) /\ d <= Len(s)
    BY <1>1, <1>5
  <1> DEFINE S == 1..MaxId
             U == 0..MaxId
  <1>10. S \cap U = S
    BY ConstantsAssumption
  <1> HIDE DEF S, U
  <1>11. /\ s \in Seq(U) /\ t \in Seq(U)
         /\ \A i \in 1..Len(s) : ~(c < i /\ i <= d) => t[i] \notin S
    BY <1>8 DEF S, U
  <1>12. Selection(s, S)[d] = Selection(s, S)[c] \o Select(t, S)
    BY <1>7, <1>9, <1>11, SelectionGap
  <1>13. Select(t, S) \in Seq(S \cap U)
    BY <1>11, SelectType
  <1> QED BY <1>1, <1>5, <1>10, <1>12, <1>13 DEF S

(* What the file holds up to cell d.                                         *)
LEMMA MarksUpTo ==
    ASSUME NEW f \in Seq(Cell), \A i \in 1..Len(f) : f[i].ev \in 0..MaxId,
           NEW d \in Nat, d <= Len(f)
    PROVE  /\ Select(Marks(f, {n \in ValidEnds(f) : n <= d}), 1..MaxId)
                = Selection(EventAt(f), 1..MaxId)[d]
           /\ Selection(EventAt(f), 1..MaxId)[d] \in Seq(1..MaxId)
  <1> DEFINE ends == {n \in ValidEnds(f) : n <= d}
             S == 1..MaxId
             U == 0..MaxId
  <1>1. ends = {n \in ValidEnds(f) : 0 < n /\ n <= d}
    BY DEF ValidEnds, LineEnds
  <1>1a. 0 \in Nat /\ 0 <= d
    OBVIOUS
  <1> HIDE DEF ends
  <1>2. /\ Selection(EventAt(f), S)[d] = Selection(EventAt(f), S)[0] \o Select(Marks(f, ends), S)
        /\ Select(Marks(f, ends), S) \in Seq(S)
    BY <1>1, <1>1a, MarksGap, ZenonT(180)
  <1>3. EventAt(f) \in Seq(U)
    BY EventAtType
  <1> HIDE DEF S, U
  <1>4. Selection(EventAt(f), S)[0] = <<>>
    BY <1>3, SelectionStep
  <1>5. <<>> \o Select(Marks(f, ends), S) = Select(Marks(f, ends), S)
    BY <1>2
  <1> QED BY <1>2, <1>4, <1>5, Zenon DEF ends, S

(* Behind a line end a read parses the lines that are valid, and no others.  *)
LEMMA ParsesValid ==
    ASSUME file \in Seq(Cell), NEW o, o = 0 \/ o \in LineEnds(file),
           NEW n \in EndsFrom(o)
    PROVE  ParsesFrom(o, n) <=> ValidLine(file, n)
  <1>1. /\ n \in 1..Len(file) /\ Newline(file[n]) /\ n > o /\ n \in Nat
        /\ file[n] \in Cell /\ o \in Nat
    BY DEF EndsFrom, LineEnds
  <1>2. file[n].of \in Nat \ {0}
    BY <1>1 DEF Cell, EventCell, Zero
  <1>3. PICK w \in Nat \ {0} : w = file[n].of
    BY <1>2
  <1>4. o # 0 => Newline(file[o])
    BY DEF LineEnds
  <1>5. ASSUME ParsesFrom(o, n) PROVE ValidLine(file, n)
    <2>1. w <= n - o /\ \A i \in 1..w : file[n - w + i] = [ev |-> file[n].ev, part |-> i, of |-> w]
      BY <1>3, <1>5 DEF ParsesFrom
    <2>2. n - w = o \/ Newline(file[n - w])
      BY <1>3, <1>5 DEF ParsesFrom
    <2>3. w <= n /\ (w = n \/ Newline(file[n - w]))
      <3>1. CASE n - w = o
        BY <1>1, <1>3, <1>4, <2>1, <3>1
      <3>2. CASE n - w # o
        BY <1>1, <1>3, <2>1, <2>2, <3>2
      <3> QED BY <3>1, <3>2
    <2> QED BY <1>1, <1>3, <2>1, <2>3 DEF ValidLine
  <1>6. ASSUME ValidLine(file, n) PROVE ParsesFrom(o, n)
    <2>1. /\ w <= n /\ \A i \in 1..w : file[n - w + i] = [ev |-> file[n].ev, part |-> i, of |-> w]
          /\ w = n \/ Newline(file[n - w])
      BY <1>3, <1>6 DEF ValidLine
    <2>2. w <= n - o
      <3> SUFFICES ASSUME w > n - o PROVE FALSE
        BY <1>1
      <3>1. o # 0 /\ o - (n - w) \in 1..w /\ o - (n - w) # w /\ n - w + (o - (n - w)) = o
        BY <1>1, <2>1
      <3>2. PICK i \in 1..w : i # w /\ n - w + i = o
        BY <3>1
      <3>3. file[o] = [ev |-> file[n].ev, part |-> i, of |-> w]
        BY <2>1, <3>2
      <3> QED BY <1>4, <3>1, <3>2, <3>3 DEF Newline
    <2>3. n - w = o \/ Newline(file[n - w])
      <3>1. CASE w = n
        BY <1>1, <2>2, <3>1
      <3> QED BY <2>1, <3>1
    <2> QED BY <1>3, <2>1, <2>2, <2>3 DEF ParsesFrom
  <1> QED BY <1>5, <1>6

(* A set of cells has a last one.                                            *)
LEMMA LastOf ==
    ASSUME NEW k \in Nat, NEW T, T \subseteq 1..k, T # {}
    PROVE  \E n \in T : \A m \in T : m <= n
  <1> DEFINE R == {k - n : n \in T}
  <1>1. R \subseteq Nat /\ R # {}
    <2>1. \A n \in T : k - n \in Nat
      OBVIOUS
    <2>2. PICK n \in T : TRUE
      OBVIOUS
    <2>3. k - n \in R
      BY <2>2
    <2> QED BY <2>1, <2>3
  <1> HIDE DEF R
  <1>2. PICK x \in R : \A y \in R : x <= y
    BY <1>1, LeastNat
  <1>3. PICK n \in T : x = k - n
    BY <1>2 DEF R
  <1>4. ASSUME NEW m \in T PROVE m <= n
    <2>1. k - m \in R
      BY DEF R
    <2>2. k - n <= k - m
      BY <1>2, <1>3, <2>1
    <2> QED BY <2>2
  <1> QED BY <1>4

(* What a read from behind a line parses are the valid lines from there up   *)
(* to the last of them, and it ends behind that one.                         *)
LEMMA ReadParses ==
    ASSUME LineInv, NEW o, o = 0 \/ o \in ValidEnds(file)
    PROVE  \E d \in Nat :
              /\ d = CHOOSE n \in ParsedFrom(o) \cup {o} : \A m \in ParsedFrom(o) : m <= n
              /\ o <= d /\ d <= Len(file)
              /\ d = 0 \/ d \in ValidEnds(file)
              /\ ParsedFrom(o) = {n \in ValidEnds(file) : o < n /\ n <= d}
              /\ ParsedFrom(o) = EndsFrom(o) => \A m \in LineEnds(file) : m <= d
  <1>1. file \in Seq(Cell) /\ Len(file) \in Nat
    BY DEF LineInv, IInv, TypeOK
  <1>2. o \in Nat /\ o <= Len(file) /\ (o = 0 \/ o \in LineEnds(file))
    BY <1>1 DEF ValidEnds, LineEnds
  <1> DEFINE P == ParsedFrom(o)
  <1>3. P \subseteq EndsFrom(o) /\ EndsFrom(o) \subseteq 1..Len(file)
    BY DEF ParsedFrom, EndsFrom, LineEnds
  <1>4. \A n \in EndsFrom(o) : n > o /\ n \in LineEnds(file)
    BY DEF EndsFrom
  <1>5. \A n \in P : n \in ValidEnds(file)
    <2>1. ASSUME NEW n \in P PROVE n \in ValidEnds(file)
      <3>1. n \in EndsFrom(o) /\ n <= n /\ n \in Nat
        BY <1>1, <1>3
      <3>2. ParsesFrom(o, n)
        BY <3>1 DEF ParsedFrom
      <3> QED BY <1>1, <1>2, <1>4, <3>1, <3>2, ParsesValid DEF ValidEnds
    <2> QED BY <2>1
  <1>6. \E n \in P \cup {o} : \A m \in P : m <= n
    <2>1. CASE P = {}
      BY <2>1
    <2>2. CASE P # {}
      <3>1. P \subseteq 1..Len(file)
        BY <1>3
      <3> HIDE DEF P
      <3>2. \E n \in P : \A m \in P : m <= n
        BY <1>1, <2>2, <3>1, LastOf
      <3> QED BY <3>2
    <2> QED BY <2>1, <2>2
  <1> DEFINE d == CHOOSE n \in P \cup {o} : \A m \in P : m <= n
  <1>7. d \in P \cup {o} /\ \A m \in P : m <= d
    <2> HIDE DEF P
    <2> QED BY <1>6
  <1> HIDE DEF d
  <1>8. d \in Nat /\ o <= d /\ d <= Len(file) /\ (d = 0 \/ d \in ValidEnds(file))
    <2>1. CASE d = o
      BY <1>2, <2>1
    <2>2. CASE d \in P
      BY <1>1, <1>2, <1>3, <1>4, <1>5, <2>2
    <2> QED BY <1>7, <2>1, <2>2
  <1>9. ASSUME NEW n \in ValidEnds(file), o < n, n <= d PROVE n \in P
    <2>1. d \in P
      BY <1>2, <1>7, <1>8, <1>9 DEF ValidEnds, LineEnds
    <2>2. n \in EndsFrom(o) /\ n \in 1..Len(file)
      BY <1>9 DEF EndsFrom, ValidEnds, LineEnds
    <2>3. ASSUME NEW m \in EndsFrom(o), m <= n PROVE ParsesFrom(o, m)
      <3>1. m <= d
        BY <1>3, <1>8, <1>9, <2>2, <2>3
      <3> QED BY <2>1, <3>1 DEF ParsedFrom
    <2> QED BY <2>2, <2>3 DEF ParsedFrom
  <1>10. P = {n \in ValidEnds(file) : o < n /\ n <= d}
    BY <1>3, <1>4, <1>5, <1>7, <1>9
  <1>11. ASSUME P = EndsFrom(o) PROVE \A m \in LineEnds(file) : m <= d
    <2>1. ASSUME NEW m \in LineEnds(file) PROVE m <= d
      <3>1. m \in Nat
        BY <1>1 DEF LineEnds
      <3>2. CASE m <= o
        BY <1>2, <1>8, <3>1, <3>2
      <3>3. CASE m > o
        BY <1>7, <1>11, <3>3 DEF EndsFrom
      <3> QED BY <1>2, <3>1, <3>2, <3>3
    <2> QED BY <2>1
  <1> QED BY <1>8, <1>10, <1>11 DEF d

(* A read ends behind a valid line, with everything the file holds up to     *)
(* there; when it answers Ok, there is no line behind that one.              *)
LEMMA ReadStep ==
    ASSUME ReaderInv, NEW r \in Reader, Read(r)
    PROVE  \E d \in Nat, events \in Seq(1..MaxId) :
              /\ offset' = [offset EXCEPT ![r] = d]
              /\ cached' = [cached EXCEPT ![r] = events]
              /\ \E a \in {"ok", "corrupt"} : answer' = [answer EXCEPT ![r] = a]
              /\ UNCHANGED vars
              /\ d <= Len(file)
              /\ d = 0 \/ d \in ValidEnds(file)
              /\ events = Selection(EventAt(file), 1..MaxId)[d]
              /\ answer'[r] = "ok" => \A m \in LineEnds(file) : m <= d
  <1>1. /\ LineInv /\ file \in Seq(Cell) /\ \A i \in 1..Len(file) : file[i].ev \in 0..MaxId
        /\ Len(file) \in Nat
        /\ offset \in [Reader -> Nat] /\ cached \in [Reader -> Seq(1..MaxId)]
        /\ answer \in [Reader -> {"none", "ok", "corrupt"}]
    BY ReaderFile DEF ReaderInv, ReaderTypeOK
  <1>2. PICK o \in Nat : o = offset[r] /\ (o = 0 \/ o \in ValidEnds(file)) /\ o <= Len(file)
    BY <1>1 DEF ReaderInv, BehindLine, ValidEnds, LineEnds
  <1>3. PICK d \in Nat :
          /\ d = CHOOSE n \in ParsedFrom(o) \cup {o} : \A m \in ParsedFrom(o) : m <= n
          /\ o <= d /\ d <= Len(file)
          /\ d = 0 \/ d \in ValidEnds(file)
          /\ ParsedFrom(o) = {n \in ValidEnds(file) : o < n /\ n <= d}
          /\ ParsedFrom(o) = EndsFrom(o) => \A m \in LineEnds(file) : m <= d
    BY <1>1, <1>2, ReadParses, ZenonT(180)
  <1>4. ~(Len(file) < o)
    BY <1>1, <1>2
  <1> DEFINE P == ParsedFrom(o)
             before == Selection(EventAt(file), 1..MaxId)[o]
             after == Selection(EventAt(file), 1..MaxId)[d]
             events == cached[r] \o EventsAt(P)
  <1>5. cached[r] = before
    <2>1. cached[r] = EventsAt({n \in ValidEnds(file) : n <= o})
      BY <1>2 DEF ReaderInv, CacheMatchesFile
    <2> QED BY <1>1, <1>2, <2>1, MarksUpTo DEF EventsAt
  <1>6. after = before \o EventsAt(P)
    <2>1. P = {n \in ValidEnds(file) : o < n /\ n <= d}
      BY <1>3
    <2>2. /\ file \in Seq(Cell) /\ \A i \in 1..Len(file) : file[i].ev \in 0..MaxId
          /\ o <= d /\ d <= Len(file)
      BY <1>1, <1>3
    <2> HIDE DEF P
    <2>3. Selection(EventAt(file), 1..MaxId)[d]
            = Selection(EventAt(file), 1..MaxId)[o] \o Select(Marks(file, P), 1..MaxId)
      BY <2>1, <2>2, MarksGap
    <2> QED BY <2>3, Zenon DEF EventsAt
  <1>7. after \in Seq(1..MaxId)
    BY <1>1, <1>3, MarksUpTo, ZenonT(180)
  <1>8. events = after /\ events \in Seq(1..MaxId)
    BY <1>5, <1>6, <1>7, Zenon
  <1>9. /\ offset' = [offset EXCEPT ![r] = d]
        /\ cached' = [cached EXCEPT ![r] = events]
        /\ answer' = [answer EXCEPT ![r] = IF P = EndsFrom(o) /\ events # <<>> THEN "ok"
                                                                              ELSE "corrupt"]
        /\ UNCHANGED vars
    BY <1>2, <1>3, <1>4 DEF Read
  <1>10. answer'[r] = "ok" => P = EndsFrom(o)
    BY <1>1, <1>9
  <1>11. \E a \in {"ok", "corrupt"} : answer' = [answer EXCEPT ![r] = a]
    <2> HIDE DEF P, events
    <2> QED BY <1>9
  <1>12. answer'[r] = "ok" => \A m \in LineEnds(file) : m <= d
    BY <1>3, <1>10
  <1> HIDE DEF P, before, after, events
  <1>13. /\ d \in Nat /\ events \in Seq(1..MaxId)
         /\ offset' = [offset EXCEPT ![r] = d] /\ cached' = [cached EXCEPT ![r] = events]
         /\ UNCHANGED vars /\ d <= Len(file) /\ (d = 0 \/ d \in ValidEnds(file))
         /\ events = Selection(EventAt(file), 1..MaxId)[d]
    BY <1>3, <1>8, <1>9, Zenon DEF after
  <1> QED BY <1>11, <1>12, <1>13

(* A read keeps what the readers rest on.                                    *)
LEMMA ReadKeeps ==
    ASSUME ReaderInv, NEW r \in Reader, Read(r)
    PROVE  ReaderTypeOK' /\ BehindLine' /\ CacheMatchesFile'
  <1>1. PICK d \in Nat, events \in Seq(1..MaxId), a \in {"ok", "corrupt"} :
              /\ offset' = [offset EXCEPT ![r] = d]
              /\ cached' = [cached EXCEPT ![r] = events]
              /\ answer' = [answer EXCEPT ![r] = a]
              /\ UNCHANGED vars
              /\ d <= Len(file)
              /\ d = 0 \/ d \in ValidEnds(file)
              /\ events = Selection(EventAt(file), 1..MaxId)[d]
    BY ReadStep
  <1>2. /\ file \in Seq(Cell) /\ \A i \in 1..Len(file) : file[i].ev \in 0..MaxId
        /\ offset \in [Reader -> Nat] /\ cached \in [Reader -> Seq(1..MaxId)]
        /\ answer \in [Reader -> {"none", "ok", "corrupt"}]
    BY ReaderFile DEF ReaderInv, ReaderTypeOK
  <1>3. file' = file
    BY <1>1 DEF vars, disk
  <1>4. ReaderTypeOK'
    BY <1>1, <1>2 DEF ReaderTypeOK
  <1>5. BehindLine'
    BY <1>1, <1>2, <1>3 DEF ReaderInv, BehindLine
  <1>6. events = EventsAt({n \in ValidEnds(file) : n <= d})
    <2>1. Select(Marks(file, {n \in ValidEnds(file) : n <= d}), 1..MaxId)
            = Selection(EventAt(file), 1..MaxId)[d]
      BY <1>1, <1>2, MarksUpTo, ZenonT(180)
    <2> QED BY <1>1, <2>1, Zenon DEF EventsAt
  <1>7. ASSUME NEW q \in Reader, offset'[q] <= Len(file')
        PROVE  cached'[q] = EventsAt({n \in ValidEnds(file) : n <= offset'[q]})
    <2>1. CASE q = r
      <3>1. cached'[q] = events /\ offset'[q] = d
        BY <1>1, <1>2, <2>1
      <3> QED BY <1>6, <3>1, Zenon
    <2>2. CASE q # r
      <3>1. cached'[q] = cached[q] /\ offset'[q] = offset[q] /\ offset[q] <= Len(file)
        BY <1>1, <1>2, <1>3, <1>7, <2>2
      <3>2. cached[q] = EventsAt({n \in ValidEnds(file) : n <= offset[q]})
        BY <3>1 DEF ReaderInv, CacheMatchesFile
      <3> QED BY <3>1, <3>2, Zenon
    <2> QED BY <2>1, <2>2
  <1>8. CacheMatchesFile'
    <2>1. ASSUME NEW q \in Reader, offset'[q] <= Len(file')
          PROVE  cached'[q] = Select(Marks(file', {n \in ValidEnds(file') : n <= offset'[q]}),
                                     1..MaxId)
      BY <1>3, <1>7, <2>1 DEF EventsAt
    <2> QED BY <2>1 DEF CacheMatchesFile, EventsAt
  <1> QED BY <1>4, <1>5, <1>8

(* Files that agree up to cell o hold the same events up to there.           *)
LEMMA MarksAgree ==
    ASSUME NEW f \in Seq(Cell), \A i \in 1..Len(f) : f[i].ev \in 0..MaxId,
           NEW g \in Seq(Cell), \A i \in 1..Len(g) : g[i].ev \in 0..MaxId,
           NEW o \in Nat, o <= Len(f), o <= Len(g), \A i \in 1..o : g[i] = f[i]
    PROVE  Select(Marks(g, {n \in ValidEnds(g) : n <= o}), 1..MaxId)
             = Select(Marks(f, {n \in ValidEnds(f) : n <= o}), 1..MaxId)
  <1> DEFINE S == 1..MaxId
             U == 0..MaxId
  <1>1. PICK s \in Seq(U) : s = EventAt(f) /\ Len(s) = Len(f)
    BY EventAtType
  <1>2. PICK t \in Seq(U) : t = EventAt(g) /\ Len(t) = Len(g)
    BY EventAtType
  <1>3. \A i \in 1..o : t[i] = s[i]
    BY <1>1, <1>2, EventAtAgree
  <1>4. o <= Len(s) /\ o <= Len(t)
    BY <1>1, <1>2
  <1>5. Select(Marks(f, {n \in ValidEnds(f) : n <= o}), S) = Selection(s, S)[o]
    BY <1>1, MarksUpTo, ZenonT(180)
  <1>6. Select(Marks(g, {n \in ValidEnds(g) : n <= o}), S) = Selection(t, S)[o]
    BY <1>2, MarksUpTo, ZenonT(180)
  <1> HIDE DEF S, U
  <1>7. /\ Selection(t, S)[o] = Selection(s, S)[o]
        /\ Len(Selection(t, S)[o]) <= Len(Select(t, S))
        /\ SubSeq(Select(t, S), 1, Len(Selection(t, S)[o])) = Selection(t, S)[o]
        /\ Len(Selection(t, S)[o]) \in Nat
    BY ONLY <1>3, <1>4, SelectionStart
  <1> QED BY <1>5, <1>6, <1>7, Zenon DEF S

(* A writer's step keeps what the readers rest on.                           *)
LEMMA WriteKeeps ==
    ASSUME ReaderInv, LineInv', Write
    PROVE  ReaderTypeOK' /\ BehindLine' /\ CacheMatchesFile'
  <1>1. /\ LineInv /\ RegionInv /\ NothingBack /\ ReaderTypeOK /\ BehindLine
        /\ CacheMatchesFile /\ UNCHANGED <<offset, cached, answer>>
        /\ Writeback \/ \E p \in Proc : Step(p)
    BY DEF ReaderInv, Write, readerVars
  <1>2. PICK f \in Seq(Cell) : f = file /\ \A i \in 1..Len(f) : f[i].ev \in 0..MaxId
    BY <1>1, ReaderFile
  <1>3. PICK g \in Seq(Cell) : g = file' /\ \A i \in 1..Len(g) : g[i].ev \in 0..MaxId
    BY NextFile
  <1>4. ReaderTypeOK'
    BY <1>1 DEF ReaderTypeOK
  <1>5. ASSUME NEW n \in ValidEnds(file) PROVE Holds(g, f, n) /\ n \in ValidEnds(g)
    <2>1. Holds(g, f, n)
      BY <1>1, <1>2, <1>3, StepKeepsValid
    <2> QED BY <1>2, <2>1, ValidStays
  <1>6. BehindLine'
    BY <1>1, <1>3, <1>5 DEF BehindLine
  <1>7. ASSUME NEW r \in Reader
        PROVE  cached[r] = Select(Marks(g, {n \in ValidEnds(g) : n <= offset[r]}), 1..MaxId)
    <2>1. PICK o \in Nat : o = offset[r] /\ (o = 0 \/ o \in ValidEnds(file))
      BY <1>1 DEF ReaderTypeOK, BehindLine
    <2>2. o <= Len(f) /\ o <= Len(g) /\ \A i \in 1..o : g[i] = f[i]
      <3>1. CASE o = 0
        BY <3>1
      <3>2. CASE o # 0
        BY <1>2, <1>5, <2>1, <3>2 DEF Holds, ValidEnds, LineEnds
      <3> QED BY <3>1, <3>2
    <2>3. cached[r] = Select(Marks(f, {n \in ValidEnds(f) : n <= o}), 1..MaxId)
      BY <1>1, <1>2, <2>1, <2>2 DEF CacheMatchesFile, EventsAt
    <2>4. Select(Marks(g, {n \in ValidEnds(g) : n <= o}), 1..MaxId)
            = Select(Marks(f, {n \in ValidEnds(f) : n <= o}), 1..MaxId)
      BY <1>2, <1>3, <2>2, MarksAgree, ZenonT(180)
    <2> QED BY <2>1, <2>3, <2>4, Zenon
  <1>8. CacheMatchesFile'
    <2>1. ASSUME NEW r \in Reader
          PROVE  cached'[r] = Select(Marks(file', {n \in ValidEnds(file') : n <= offset'[r]}),
                                     1..MaxId)
      BY <1>1, <1>3, <1>7
    <2> QED BY <2>1 DEF CacheMatchesFile, EventsAt
  <1> QED BY <1>4, <1>6, <1>8

(* Of a file of which a reader has read nothing.                             *)
LEMMA NothingRead ==
    ASSUME NEW f \in Seq(Cell), \A i \in 1..Len(f) : f[i].ev \in 0..MaxId
    PROVE  Select(Marks(f, {n \in ValidEnds(f) : n <= 0}), 1..MaxId) = <<>>
  <1> DEFINE S == 1..MaxId
  <1>1. 0 \in Nat /\ 0 <= Len(f)
    OBVIOUS
  <1>2. Select(Marks(f, {n \in ValidEnds(f) : n <= 0}), S) = Selection(EventAt(f), S)[0]
    BY <1>1, MarksUpTo, ZenonT(180)
  <1>3. EventAt(f) \in Seq(0..MaxId)
    BY EventAtType
  <1> HIDE DEF S
  <1>4. Selection(EventAt(f), S)[0] = <<>>
    BY <1>3, SelectionStep
  <1> QED BY <1>2, <1>4, Zenon DEF S

(* At the start, and after a power loss, nobody has read anything.           *)
LEMMA ReadersStart ==
    ASSUME LineInv, offset = [r \in Reader |-> 0], cached = [r \in Reader |-> <<>>],
           answer = [r \in Reader |-> "none"]
    PROVE  ReaderTypeOK /\ BehindLine /\ CacheMatchesFile
  <1>1. file \in Seq(Cell) /\ \A i \in 1..Len(file) : file[i].ev \in 0..MaxId
    BY ReaderFile
  <1>2. ReaderTypeOK /\ BehindLine
    BY DEF ReaderTypeOK, BehindLine
  <1>3. EventsAt({n \in ValidEnds(file) : n <= 0}) = <<>>
    BY <1>1, NothingRead DEF EventsAt
  <1>4. CacheMatchesFile
    BY <1>3 DEF CacheMatchesFile
  <1> QED BY <1>2, <1>4

(* A step of the log under the readers, or a read, is a step of the log.     *)
LEMMA ReaderNextLog ==
    ASSUME [ReaderNext]_allVars
    PROVE  [Next]_vars
  BY DEF ReaderNext, Write, Restart, Read, Next, allVars

(* Every step keeps ReaderInv, if no write fails.                            *)
LEMMA NextReaderInv ==
    ASSUME ~WriteErrors, ReaderInv, [ReaderNext]_allVars
    PROVE  ReaderInv'
  <1>1. LineInv /\ RegionInv /\ NothingBack
    BY DEF ReaderInv
  <1>2. [Next]_vars
    BY ReaderNextLog
  <1>3. LineInv'
    BY <1>1, <1>2, NextLineInv
  <1>4. RegionInv' /\ NothingBack'
    BY <1>1, <1>2, <1>3, NextRegion DEF LineInv
  <1>5. ASSUME Restart PROVE ReaderTypeOK' /\ BehindLine' /\ CacheMatchesFile'
    <2>1. /\ offset' = [r \in Reader |-> 0] /\ cached' = [r \in Reader |-> <<>>]
          /\ answer' = [r \in Reader |-> "none"]
      BY <1>5 DEF Restart
    <2>2. PICK g \in Seq(Cell) : g = file' /\ \A i \in 1..Len(g) : g[i].ev \in 0..MaxId
      BY <1>3, NextFile
    <2>3. Select(Marks(file', {n \in ValidEnds(file') : n <= 0}), 1..MaxId) = <<>>
      BY <2>2, NothingRead
    <2>4. ReaderTypeOK' /\ BehindLine'
      BY <2>1 DEF ReaderTypeOK, BehindLine
    <2>5. CacheMatchesFile'
      BY <2>1, <2>3 DEF CacheMatchesFile, EventsAt
    <2> QED BY <2>4, <2>5
  <1>6. ASSUME UNCHANGED allVars PROVE ReaderTypeOK' /\ BehindLine' /\ CacheMatchesFile'
    BY <1>6 DEF ReaderInv, ReaderTypeOK, BehindLine, CacheMatchesFile, EventsAt, allVars, vars,
                disk, readerVars
  <1>7. ReaderTypeOK' /\ BehindLine' /\ CacheMatchesFile'
    BY <1>3, <1>5, <1>6, WriteKeeps, ReadKeeps DEF ReaderNext
  <1> QED BY <1>3, <1>4, <1>7 DEF ReaderInv

(* Before anything is created, nothing has been read.                        *)
LEMMA InitReaderInv == Init /\ ReaderInit => ReaderInv
  <1> SUFFICES ASSUME Init, ReaderInit PROVE ReaderInv
    OBVIOUS
  <1>1. LineInv
    BY InitLineInv
  <1>2. ReaderTypeOK /\ BehindLine /\ CacheMatchesFile
    BY <1>1, ReadersStart DEF ReaderInit
  <1>3. RegionInv /\ NothingBack
    BY DEF Init, RegionInv, RegionAt, NothingBack
  <1> QED BY <1>1, <1>2, <1>3 DEF ReaderInv

(* Where no write fails, a reader is always behind a complete line that      *)
(* parses, and no such line is cut with a region.                            *)
THEOREM ReadersBehindLines ==
    ASSUME ~WriteErrors
    PROVE  ReaderSpec => []ReaderInv
  <1>1. ReaderInv /\ [ReaderNext]_allVars => ReaderInv'
    BY NextReaderInv
  <1> QED BY <1>1, InitReaderInv, PTL DEF ReaderSpec

(* Where no write fails, what a reader has cached is what the file holds up  *)
(* to its offset, whatever was appended, healed or lost since it was read.   *)
THEOREM CachesMatch ==
    ASSUME ~WriteErrors
    PROVE  ReaderSpec => []CacheMatchesFile
  <1>1. ReaderInv => CacheMatchesFile
    BY DEF ReaderInv
  <1> QED BY <1>1, ReadersBehindLines, PTL

(* The element is in the sequence.                                           *)
Occurs(v, seq) == \E k \in DOMAIN seq : seq[k] = v

(* What is there and of the kind is selected.                                *)
LEMMA SelectionHas ==
    ASSUME NEW S, NEW U, NEW s \in Seq(U), NEW d \in Nat, d <= Len(s),
           NEW i \in 1..d, s[i] \in S
    PROVE  Occurs(s[i], Selection(s, S)[d])
  BY SelectionFinds DEF Occurs

(* A read that answers Ok has every acknowledged event.                      *)
LEMMA ReadHasCommitted ==
    ASSUME ReaderInv, NEW r \in Reader, Read(r), answer'[r] = "ok"
    PROVE  {file[n].ev : n \in EndsBelow(committed)} \subseteq
              {cached'[r][i] : i \in DOMAIN cached'[r]}
  <1>1. PICK d \in Nat, events \in Seq(1..MaxId) :
              /\ cached' = [cached EXCEPT ![r] = events]
              /\ d <= Len(file)
              /\ events = Selection(EventAt(file), 1..MaxId)[d]
              /\ \A m \in LineEnds(file) : m <= d
    BY ReadStep
  <1>2. /\ file \in Seq(Cell) /\ \A i \in 1..Len(file) : file[i].ev \in 0..MaxId
        /\ cached \in [Reader -> Seq(1..MaxId)]
    BY ReaderFile DEF ReaderInv, ReaderTypeOK
  <1>3. PICK s \in Seq(0..MaxId) :
          /\ s = EventAt(file) /\ Len(s) = Len(file)
          /\ \A n \in 1..Len(file) : s[n] = IF ValidLine(file, n) THEN file[n].ev ELSE 0
    BY <1>2, EventAtType
  <1>4. cached'[r] = events
    BY <1>1, <1>2
  <1>5. ASSUME NEW n \in EndsBelow(committed)
        PROVE  \E k \in DOMAIN events : events[k] = file[n].ev
    <2>1. n \in LineEnds(file) /\ n \in 1..Len(file) /\ Newline(file[n]) /\ ValidLine(file, n)
      BY DEF EndsBelow, ValidEnds, LineEnds
    <2>2. file[n].ev \in 1..MaxId
      <3>1. file[n] \in Cell /\ file[n] # Zero
        BY <1>2, <2>1 DEF Newline, Zero
      <3>2. file[n].ev \in Nat \ {0}
        BY <3>1 DEF Cell, EventCell
      <3> QED BY <1>2, <2>1, <3>2, ConstantsAssumption
    <2>3. s[n] = file[n].ev /\ n \in 1..d /\ d <= Len(s)
      BY <1>1, <1>3, <2>1
    <2> DEFINE S == 1..MaxId
    <2>4. s[n] \in S
      BY <2>2, <2>3
    <2> HIDE DEF S
    <2>5. Occurs(s[n], Selection(s, S)[d])
      BY <2>3, <2>4, SelectionHas
    <2> QED BY <1>1, <1>3, <2>3, <2>5 DEF S, Occurs
  <1> QED BY <1>4, <1>5

(* Where no write fails, a read that answers Ok hands out every acknowledged *)
(* event, whatever writers do beside it.                                     *)
THEOREM ReadsComplete ==
    ASSUME ~WriteErrors
    PROVE  ReaderSpec => ReadsSeeCommitted
  <1>1. ReaderInv /\ [ReaderNext]_allVars =>
          [\A r \in Reader : answer'[r] = "ok" /\ Read(r) =>
              {file[n].ev : n \in EndsBelow(committed)} \subseteq
                 {cached'[r][i] : i \in DOMAIN cached'[r]}]_allVars
    BY ReadHasCommitted
  <1> QED BY <1>1, ReadersBehindLines, PTL DEF ReaderSpec, ReadsSeeCommitted
-----------------------------------------------------------------------------
(* Forks.  What is up to an event, in a transcript.                          *)

(* What is behind the first element.                                         *)
LEMMA TailFacts ==
    ASSUME NEW V, NEW s \in Seq(V), s # <<>>
    PROVE  /\ Tail(s) \in Seq(V) /\ Len(Tail(s)) = Len(s) - 1 /\ Len(s) \in Nat \ {0}
           /\ \A j \in 1..(Len(s) - 1) : Tail(s)[j] = s[j + 1]
  OBVIOUS

(* A concatenation, by its length and its elements.                          *)
IsConcat(w, s, t) ==
    /\ w = s \o t
    /\ Len(w) = Len(s) + Len(t)
    /\ \A j \in 1..Len(s) : w[j] = s[j]
    /\ \A j \in 1..Len(t) : w[Len(s) + j] = t[j]

(* Every two sequences have one.                                             *)
LEMMA ConcatIs ==
    ASSUME NEW V, NEW s \in Seq(V), NEW t \in Seq(V)
    PROVE  \E w \in Seq(V) : IsConcat(w, s, t)
  <1>1. Concat(s, t) \in Seq(V) /\ Len(Concat(s, t)) = Len(s) + Len(t)
    BY ConcatFacts
  <1>2. \A j \in 1..Len(s) : Concat(s, t)[j] = s[j]
    BY ConcatFacts
  <1>3. \A j \in 1..Len(t) : Concat(s, t)[Len(s) + j] = t[j]
    BY ConcatFacts
  <1>4. Concat(s, t) = s \o t
    BY DEF Concat
  <1> QED BY <1>1, <1>2, <1>3, <1>4 DEF IsConcat

(* Where an event occurs first.                                              *)
LEMMA FirstAtFacts ==
    ASSUME NEW V, NEW s \in Seq(V), NEW at, at \in Range(s)
    PROVE  /\ FirstAt(s, at) \in 1..Len(s) /\ s[FirstAt(s, at)] = at
           /\ \A j \in 1..(FirstAt(s, at) - 1) : s[j] # at
  <1> DEFINE T == {i \in 1..Len(s) : s[i] = at}
  <1>1. DOMAIN s = 1..Len(s) /\ Len(s) \in Nat
    OBVIOUS
  <1>2. T # {} /\ T \subseteq Nat
    BY <1>1 DEF Range
  <1>3. PICK i \in T : \A j \in T : i <= j
    BY <1>2, LeastNat
  <1>4. \A j \in 1..(i - 1) : s[j] # at
    <2>1. ASSUME NEW j \in 1..(i - 1), s[j] = at PROVE FALSE
      <3>1. j \in T /\ ~(i <= j)
        BY <1>1, <1>3, <2>1
      <3> QED BY <1>3, <3>1
    <2> QED BY <2>1
  <1>5. i \in DOMAIN s /\ s[i] = at
    BY <1>1, <1>3
  <1> HIDE DEF T
  <1>6. \E k \in DOMAIN s : s[k] = at /\ \A j \in 1..(k - 1) : s[j] # at
    BY <1>4, <1>5
  <1>7. /\ FirstAt(s, at) \in DOMAIN s /\ s[FirstAt(s, at)] = at
        /\ \A j \in 1..(FirstAt(s, at) - 1) : s[j] # at
    BY <1>6 DEF FirstAt
  <1> QED BY <1>1, <1>7

(* It is the only place with the event behind others only.                   *)
LEMMA FirstAtIs ==
    ASSUME NEW V, NEW s \in Seq(V), NEW i \in 1..Len(s), \A j \in 1..(i - 1) : s[j] # s[i]
    PROVE  s[i] \in Range(s) /\ FirstAt(s, s[i]) = i
  <1>1. s[i] \in Range(s)
    BY DEF Range
  <1>2. PICK k \in 1..Len(s) : /\ k = FirstAt(s, s[i]) /\ s[k] = s[i]
                               /\ \A j \in 1..(k - 1) : s[j] # s[i]
    BY <1>1, FirstAtFacts
  <1>3. ~(k < i) /\ ~(i < k)
    <2>1. k < i => k \in 1..(i - 1)
      OBVIOUS
    <2>2. i < k => i \in 1..(k - 1)
      OBVIOUS
    <2> QED BY <1>2, <2>1, <2>2
  <1> QED BY <1>1, <1>2, <1>3

(* What is up to an event ends there.                                        *)
LEMMA UpToFacts ==
    ASSUME NEW V, NEW s \in Seq(V), NEW at
    PROVE  /\ UpTo(s, at) \in Seq(V) /\ Len(UpTo(s, at)) <= Len(s)
           /\ \A j \in 1..Len(UpTo(s, at)) : UpTo(s, at)[j] = s[j]
           /\ at \notin Range(s) => UpTo(s, at) = s
           /\ at \in Range(s) => Len(UpTo(s, at)) = FirstAt(s, at)
  <1>1. CASE at \in Range(s)
    <2>1. PICK i \in 1..Len(s) : i = FirstAt(s, at)
      BY <1>1, FirstAtFacts
    <2>2. UpTo(s, at) = SubSeq(s, 1, i)
      BY <1>1, <2>1 DEF UpTo
    <2>3. /\ SubSeq(s, 1, i) \in Seq(V) /\ Len(SubSeq(s, 1, i)) = i
          /\ \A j \in 1..i : SubSeq(s, 1, i)[j] = s[j]
      OBVIOUS
    <2> QED BY <1>1, <2>1, <2>2, <2>3
  <1>2. CASE at \notin Range(s)
    BY <1>2 DEF UpTo
  <1> QED BY <1>1, <1>2

(* Sequences that agree up to where one has the event.                       *)
LEMMA UpToAgree ==
    ASSUME NEW V, NEW s \in Seq(V), NEW t \in Seq(V), NEW i \in 1..Len(s), i <= Len(t),
           \A j \in 1..i : s[j] = t[j]
    PROVE  UpTo(s, s[i]) = UpTo(t, s[i])
  <1> DEFINE at == s[i]
  <1>1. at \in Range(s) /\ at \in Range(t)
    <2>1. i \in DOMAIN s /\ i \in DOMAIN t /\ t[i] = s[i]
      OBVIOUS
    <2> QED BY <2>1 DEF Range
  <1>2. PICK k \in 1..Len(s) : /\ k = FirstAt(s, at) /\ s[k] = at
                               /\ \A j \in 1..(k - 1) : s[j] # at
    BY <1>1, FirstAtFacts
  <1>3. k <= i
    <2>1. i < k => i \in 1..(k - 1)
      OBVIOUS
    <2> QED BY <1>2, <2>1
  <1>4. FirstAt(t, at) = k
    <2>1. k \in 1..Len(t) /\ t[k] = at /\ \A j \in 1..(k - 1) : t[j] # t[k]
      BY <1>2, <1>3
    <2> HIDE DEF at
    <2> QED BY <2>1, FirstAtIs
  <1>5. SubSeq(s, 1, k) = SubSeq(t, 1, k)
    <2>1. /\ SubSeq(s, 1, k) \in Seq(V) /\ Len(SubSeq(s, 1, k)) = k
          /\ \A j \in 1..k : SubSeq(s, 1, k)[j] = s[j]
      BY <1>2
    <2>2. /\ SubSeq(t, 1, k) \in Seq(V) /\ Len(SubSeq(t, 1, k)) = k
          /\ \A j \in 1..k : SubSeq(t, 1, k)[j] = t[j]
      BY <1>2, <1>3
    <2>3. \A j \in 1..k : SubSeq(s, 1, k)[j] = SubSeq(t, 1, k)[j]
      BY <1>3, <2>1, <2>2
    <2> QED BY <2>1, <2>2, <2>3
  <1> HIDE DEF at
  <1> QED BY <1>1, <1>2, <1>4, <1>5 DEF UpTo, at

(* What is up to an event behind a part that does not have it.               *)
LEMMA UpToConcat ==
    ASSUME NEW V, NEW x \in Seq(V), NEW y \in Seq(V), NEW z \in Seq(V), NEW at,
           at \notin Range(x), at \in Range(y)
    PROVE  UpTo((x \o y) \o z, at) = x \o UpTo(y, at)
  <1>1. PICK k \in 1..Len(y) : /\ k = FirstAt(y, at) /\ y[k] = at
                               /\ \A j \in 1..(k - 1) : y[j] # at
    BY FirstAtFacts
  <1>2. PICK n \in Nat : n = Len(x) /\ DOMAIN x = 1..n
    OBVIOUS
  <1>3. PICK s \in Seq(V) :
          /\ s = (x \o y) \o z /\ Len(s) = n + Len(y) + Len(z)
          /\ \A j \in 1..n : s[j] = x[j]
          /\ \A j \in 1..Len(y) : s[n + j] = y[j]
    <2>1. PICK w \in Seq(V) : IsConcat(w, x, y)
      BY ConcatIs
    <2>2. /\ w = x \o y /\ Len(w) = n + Len(y)
          /\ \A j \in 1..n : w[j] = x[j]
          /\ \A j \in 1..Len(y) : w[n + j] = y[j]
      BY <1>2, <2>1 DEF IsConcat
    <2>3. PICK s \in Seq(V) : IsConcat(s, w, z)
      BY ConcatIs
    <2>4. s = w \o z /\ Len(s) = Len(w) + Len(z) /\ \A j \in 1..Len(w) : s[j] = w[j]
      BY <2>3 DEF IsConcat
    <2>5. \A j \in 1..n : s[j] = x[j]
      <3>1. \A j \in 1..n : j \in 1..Len(w)
        BY <1>2, <2>2
      <3> QED BY <2>2, <2>4, <3>1
    <2>6. \A j \in 1..Len(y) : s[n + j] = y[j]
      <3>1. \A j \in 1..Len(y) : n + j \in 1..Len(w)
        BY <1>2, <2>2
      <3> QED BY <2>2, <2>4, <3>1
    <2>7. s = (x \o y) \o z /\ Len(s) = n + Len(y) + Len(z)
      BY <2>1, <2>2, <2>3, <2>4
    <2> QED BY <2>5, <2>6, <2>7
  <1>4. n + k \in 1..Len(s) /\ s[n + k] = at
    BY <1>1, <1>2, <1>3
  <1>5. ASSUME NEW j \in 1..(n + k - 1) PROVE s[j] # at
    <2>1. CASE j <= n
      <3>1. j \in DOMAIN x /\ s[j] = x[j]
        BY <1>2, <1>3, <2>1
      <3> QED BY <3>1 DEF Range
    <2>2. CASE j > n
      <3>1. j - n \in 1..(k - 1) /\ j - n \in 1..Len(y) /\ n + (j - n) = j
        BY <1>1, <2>2
      <3>2. s[n + (j - n)] = y[j - n]
        BY <1>3, <3>1
      <3> QED BY <1>1, <3>1, <3>2
    <2> QED BY <1>2, <2>1, <2>2
  <1>6. at \in Range(s) /\ FirstAt(s, at) = n + k
    <2>1. \A j \in 1..((n + k) - 1) : s[j] # s[n + k]
      BY <1>4, <1>5
    <2>2. s[n + k] \in Range(s) /\ FirstAt(s, s[n + k]) = n + k
      BY <1>4, <2>1, FirstAtIs
    <2> QED BY <1>4, <2>2
  <1>7. PICK u \in Seq(V) : /\ u = UpTo(s, at) /\ Len(u) = n + k
                            /\ \A j \in 1..(n + k) : u[j] = s[j]
    BY <1>6, UpToFacts
  <1>8. PICK v \in Seq(V) : v = UpTo(y, at) /\ Len(v) = k /\ \A j \in 1..k : v[j] = y[j]
    BY <1>1, UpToFacts
  <1>9. PICK w \in Seq(V) : /\ w = x \o v /\ Len(w) = n + k
                            /\ \A j \in 1..n : w[j] = x[j]
                            /\ \A j \in 1..k : w[n + j] = v[j]
    <2>1. PICK w \in Seq(V) : IsConcat(w, x, v)
      BY <1>8, ConcatIs
    <2> QED BY <1>2, <1>8, <2>1 DEF IsConcat
  <1>10. ASSUME NEW j \in 1..(n + k) PROVE u[j] = w[j]
    <2>1. CASE j <= n
      BY <1>3, <1>7, <1>9, <2>1
    <2>2. CASE j > n
      <3>1. j - n \in 1..k /\ j - n \in 1..Len(y) /\ n + (j - n) = j
        BY <1>1, <2>2
      <3>2. s[n + (j - n)] = y[j - n] /\ v[j - n] = y[j - n] /\ w[n + (j - n)] = v[j - n]
        BY <1>3, <1>8, <1>9, <3>1
      <3> QED BY <1>7, <3>1, <3>2
    <2> QED BY <1>2, <2>1, <2>2
  <1>11. u = w
    <2>1. Len(u) = Len(w) /\ \A j \in 1..Len(u) : u[j] = w[j]
      BY <1>7, <1>9, <1>10
    <2> QED BY ONLY <2>1, SameCells
  <1> QED BY <1>3, <1>7, <1>8, <1>9, <1>11

(* What is up to an event that is there before another one.                  *)
LEMMA UpToUpTo ==
    ASSUME NEW V, NEW s \in Seq(V), NEW b, NEW at, at \in Range(UpTo(s, b))
    PROVE  UpTo(UpTo(s, b), at) = UpTo(s, at)
  <1>1. PICK u \in Seq(V) : /\ u = UpTo(s, b) /\ Len(u) <= Len(s)
                            /\ \A j \in 1..Len(u) : u[j] = s[j]
    BY UpToFacts
  <1>2. PICK i \in 1..Len(u) : u[i] = at
    BY <1>1 DEF Range
  <1>3. i <= Len(s) /\ \A j \in 1..i : u[j] = s[j]
    BY <1>1
  <1>4. UpTo(u, u[i]) = UpTo(s, u[i])
    BY <1>3, UpToAgree
  <1> QED BY <1>1, <1>2, <1>4

(* The header goes first, or the fork point: it is the same, unless the fork *)
(* point is the header.                                                      *)
LEMMA TailUpTo ==
    ASSUME NEW V, NEW s \in Seq(V), s # <<>>, NEW b
    PROVE  Tail(UpTo(s, b)) = IF b = s[1] THEN <<>> ELSE UpTo(Tail(s), b)
  <1>1. /\ Tail(s) \in Seq(V) /\ Len(Tail(s)) = Len(s) - 1 /\ Len(s) \in Nat \ {0}
        /\ \A j \in 1..(Len(s) - 1) : Tail(s)[j] = s[j + 1]
        /\ DOMAIN s = 1..Len(s) /\ DOMAIN Tail(s) = 1..(Len(s) - 1)
    OBVIOUS
  <1>2. CASE b = s[1]
    <2>1. 1 \in 1..Len(s) /\ \A j \in 1..(1 - 1) : s[j] # s[1]
      BY <1>1
    <2>2. b \in Range(s) /\ FirstAt(s, b) = 1
      BY <1>2, <2>1, FirstAtIs
    <2>3. UpTo(s, b) \in Seq(V) /\ Len(UpTo(s, b)) = 1
      BY <2>2, UpToFacts
    <2>4. PICK u \in Seq(V) : u = UpTo(s, b) /\ Len(u) = 1
      BY <2>3
    <2>5. Tail(u) \in Seq(V) /\ Len(Tail(u)) = 0
      <3>1. u # <<>>
        <4>1. Len(<<>>) = 0
          OBVIOUS
        <4>2. Len(u) # Len(<<>>)
          BY <2>4, <4>1
        <4> QED BY <4>2, Zenon
      <3>2. Tail(u) \in Seq(V) /\ Len(Tail(u)) = Len(u) - 1
        BY <3>1, TailFacts
      <3> QED BY <2>4, <3>2
    <2>6. Tail(u) = <<>>
      <3>1. PICK v \in Seq(V) : v = Tail(u) /\ Len(v) = 0
        BY <2>5
      <3> QED BY <3>1
    <2> QED BY <1>2, <2>4, <2>6
  <1>3. CASE b # s[1] /\ b \notin Range(s)
    <2>1. b \notin Range(Tail(s))
      BY <1>1, <1>3 DEF Range
    <2> QED BY <1>3, <2>1 DEF UpTo
  <1>4. CASE b # s[1] /\ b \in Range(s)
    <2>1. PICK k \in 1..Len(s) : /\ k = FirstAt(s, b) /\ s[k] = b
                                 /\ \A j \in 1..(k - 1) : s[j] # b
      BY <1>4, FirstAtFacts
    <2>2. PICK t \in Seq(V) : t = Tail(s) /\ Len(t) = Len(s) - 1
                              /\ \A j \in 1..(Len(s) - 1) : t[j] = s[j + 1]
      BY <1>1
    <2>3. k # 1 /\ k - 1 \in 1..Len(t) /\ t[k - 1] = b
      BY <1>1, <1>4, <2>1, <2>2
    <2>4. \A j \in 1..((k - 1) - 1) : t[j] # b
      <3>1. ASSUME NEW j \in 1..((k - 1) - 1) PROVE t[j] # b
        <4>1. j + 1 \in 1..(k - 1) /\ j \in 1..(Len(s) - 1)
          BY <1>1, <2>1
        <4> QED BY <2>1, <2>2, <4>1
      <3> QED BY <3>1
    <2>5. b \in Range(t) /\ FirstAt(t, b) = k - 1
      BY <2>3, <2>4, FirstAtIs
    <2>6. PICK u \in Seq(V) : u = UpTo(s, b) /\ Len(u) = k /\ \A j \in 1..k : u[j] = s[j]
      BY <1>4, <2>1, UpToFacts
    <2>7. PICK v \in Seq(V) : /\ v = UpTo(t, b) /\ Len(v) = k - 1
                              /\ \A j \in 1..(k - 1) : v[j] = t[j]
      BY <2>5, UpToFacts
    <2>8. /\ Tail(u) \in Seq(V) /\ Len(Tail(u)) = k - 1
          /\ \A j \in 1..(k - 1) : Tail(u)[j] = u[j + 1]
      BY <2>3, <2>6
    <2>9. ASSUME NEW j \in 1..(k - 1) PROVE Tail(u)[j] = v[j]
      <3>1. j + 1 \in 1..k /\ j \in 1..(Len(s) - 1)
        BY <2>1
      <3> QED BY <2>2, <2>6, <2>7, <2>8, <3>1
    <2>10. Tail(u) = v
      BY <2>7, <2>8, <2>9
    <2> QED BY <1>4, <2>2, <2>6, <2>7, <2>10
  <1> QED BY <1>2, <1>3, <1>4

-----------------------------------------------------------------------------
(* The way from the root to a session.                                       *)

(* Every session was forked from one of lower rank.                          *)
Ranked(hop, rank, depth) ==
    /\ Root \notin DOMAIN hop
    /\ \A s \in {Root} \cup DOMAIN hop : rank[s] \in 0..depth
    /\ \A c \in DOMAIN hop : /\ hop[c].session \in {Root} \cup DOMAIN hop
                             /\ rank[hop[c].session] < rank[c]
Lineage(hop) == \E depth \in Nat : \E rank : Ranked(hop, rank, depth)

(* What holds of the root, and of a session when it does of the one it was   *)
(* forked from, holds of all.                                                *)
LEMMA LineageInduction ==
    ASSUME NEW hop, Lineage(hop), NEW T, Root \in T,
           \A c \in DOMAIN hop : hop[c].session \in T => c \in T
    PROVE  {Root} \cup DOMAIN hop \subseteq T
  <1>0. PICK depth \in Nat : \E rank : Ranked(hop, rank, depth)
    BY DEF Lineage
  <1>1. PICK rank : Ranked(hop, rank, depth)
    BY <1>0
  <1> DEFINE R == {rank[s] : s \in ({Root} \cup DOMAIN hop) \ T}
  <1> SUFFICES ASSUME ({Root} \cup DOMAIN hop) \ T # {} PROVE FALSE
    OBVIOUS
  <1>2. R # {} /\ R \subseteq Nat
    BY <1>1 DEF Ranked
  <1>3. PICK n \in R : \A m \in R : n <= m
    BY <1>2, LeastNat
  <1>4. PICK c \in ({Root} \cup DOMAIN hop) \ T : rank[c] = n
    BY <1>3
  <1>5. c \in DOMAIN hop /\ hop[c].session \notin T
    BY <1>4
  <1>6. hop[c].session \in ({Root} \cup DOMAIN hop) \ T /\ rank[hop[c].session] < n
    BY <1>1, <1>4, <1>5 DEF Ranked
  <1>7. rank[hop[c].session] \in R /\ n \in Nat
    BY <1>2, <1>3, <1>6
  <1>8. n <= rank[hop[c].session] /\ rank[hop[c].session] \in Nat
    BY <1>2, <1>3, <1>7
  <1> HIDE DEF R
  <1> QED BY <1>6, <1>7, <1>8

IsAlong(f, hop, part) ==
    f = [s \in {Root} \cup DOMAIN hop |-> IF s = Root THEN <<>>
                                          ELSE f[hop[s].session] \o part[s]]

(* Where the ranks are bounded the recursive definition has a solution: as   *)
(* far as rank k for every k, by induction.                                  *)
LEMMA AlongExists ==
    ASSUME NEW hop, NEW part, Lineage(hop)
    PROVE  \E f : IsAlong(f, hop, part)
  <1>0. PICK depth \in Nat : \E rank : Ranked(hop, rank, depth)
    BY DEF Lineage
  <1>1. PICK rank : Ranked(hop, rank, depth)
    BY <1>0
  <1> DEFINE D == {Root} \cup DOMAIN hop
             Value(f, s) == IF s = Root THEN <<>> ELSE f[hop[s].session] \o part[s]
             T == {k \in Nat : \E f : \A s \in D : rank[s] < k => f[s] = Value(f, s)}
  <1>2. \A s \in D : rank[s] \in 0..depth
    BY <1>1 DEF Ranked
  <1>3. \A s \in D : s # Root => hop[s].session \in D /\ rank[hop[s].session] < rank[s]
    BY <1>1 DEF Ranked
  <1> HIDE DEF D
  <1>4. 0 \in T
    <2>1. \A s \in D : ~(rank[s] < 0)
      BY <1>2
    <2> QED BY <2>1
  <1>5. ASSUME NEW k \in T PROVE k + 1 \in T
    <2>1. k \in Nat
      OBVIOUS
    <2>2. PICK f : \A s \in D : rank[s] < k => f[s] = Value(f, s)
      OBVIOUS
    <2> DEFINE g == [s \in D |-> IF rank[s] < k THEN f[s] ELSE Value(f, s)]
    <2>3. ASSUME NEW s \in D, rank[s] < k + 1 PROVE g[s] = Value(g, s)
      <3>1. CASE s = Root
        <4>1. g[s] = IF rank[s] < k THEN f[s] ELSE Value(f, s)
          OBVIOUS
        <4>2. Value(f, s) = <<>> /\ Value(g, s) = <<>>
          BY <3>1
        <4> QED BY <2>2, <4>1, <4>2
      <3>2. CASE s # Root
        <4>1. hop[s].session \in D /\ rank[hop[s].session] < k
          BY <1>2, <1>3, <2>1, <2>3, <3>2
        <4>2. g[hop[s].session] = f[hop[s].session]
          BY <4>1
        <4>3. Value(g, s) = Value(f, s)
          <5> HIDE DEF g
          <5> QED BY <3>2, <4>2, Zenon
        <4>4. g[s] = IF rank[s] < k THEN f[s] ELSE Value(f, s)
          OBVIOUS
        <4> HIDE DEF Value, g
        <4> QED BY <2>2, <4>3, <4>4
      <3> QED BY <3>1, <3>2
    <2> HIDE DEF g, Value
    <2>4. \E h : \A s \in D : rank[s] < k + 1 => h[s] = Value(h, s)
      BY <2>3
    <2> QED BY <2>1, <2>4
  <1>6. depth + 1 \in T
    <2> HIDE DEF T
    <2>1. T = Nat
      BY <1>4, <1>5, InductionOnSet DEF T
    <2> QED BY <2>1
  <1>7. PICK f : \A s \in D : rank[s] < depth + 1 => f[s] = Value(f, s)
    BY <1>6
  <1>8. \A s \in D : f[s] = Value(f, s)
    <2>1. \A s \in D : rank[s] < depth + 1
      BY <1>2
    <2> HIDE DEF Value
    <2> QED BY <1>7, <2>1
  <1> DEFINE g == [s \in D |-> f[s]]
  <1>9. ASSUME NEW s \in D PROVE g[s] = Value(g, s)
    <2>1. CASE s = Root
      BY <1>8, <2>1
    <2>2. CASE s # Root
      <3>1. g[hop[s].session] = f[hop[s].session]
        BY <1>3, <2>2
      <3>2. Value(g, s) = Value(f, s)
        <4> HIDE DEF g
        <4> QED BY <2>2, <3>1, Zenon
      <3> QED BY <1>8, <3>2
    <2> QED BY <2>1, <2>2
  <1>10. g = [s \in D |-> Value(g, s)]
    <2>1. \A s \in D : g[s] = Value(g, s)
      BY <1>9
    <2>2. g = [s \in D |-> g[s]]
      OBVIOUS
    <2> HIDE DEF g, Value
    <2> QED BY <2>1, <2>2
  <1>11. IsAlong(g, hop, part)
    <2> HIDE DEF g
    <2> QED BY <1>10 DEF IsAlong, D
  <1> QED BY <1>11

(* What there is along the way to the root, and to a fork.                   *)
LEMMA AlongSteps ==
    ASSUME NEW hop, NEW part, Lineage(hop)
    PROVE  /\ Along(hop, part)[Root] = <<>>
           /\ \A c \in DOMAIN hop :
                 Along(hop, part)[c] = Along(hop, part)[hop[c].session] \o part[c]
  <1> DEFINE f == Along(hop, part)
  <1>1. f = CHOOSE g : IsAlong(g, hop, part)
    BY DEF Along, IsAlong
  <1> HIDE DEF f
  <1>2. IsAlong(f, hop, part)
    BY <1>1, AlongExists
  <1>3. Root \notin DOMAIN hop
    BY DEF Lineage, Ranked
  <1>4. f = [s \in {Root} \cup DOMAIN hop |-> IF s = Root THEN <<>>
                                              ELSE f[hop[s].session] \o part[s]]
    BY <1>2 DEF IsAlong
  <1>5. f[Root] = <<>>
    BY <1>4
  <1>6. ASSUME NEW c \in DOMAIN hop PROVE f[c] = f[hop[c].session] \o part[c]
    <2>1. c \in {Root} \cup DOMAIN hop /\ c # Root
      BY <1>3
    <2> QED BY <1>4, <2>1
  <1> QED BY <1>5, <1>6 DEF f

(* It is a sequence.                                                         *)
LEMMA AlongType ==
    ASSUME NEW hop, NEW part, Lineage(hop), NEW V, \A c \in DOMAIN hop : part[c] \in Seq(V),
           NEW s \in {Root} \cup DOMAIN hop
    PROVE  Along(hop, part)[s] \in Seq(V)
  <1> DEFINE A == Along(hop, part)
             T == {t \in {Root} \cup DOMAIN hop : A[t] \in Seq(V)}
  <1>1. Root \in T
    <2>1. A[Root] = <<>>
      BY AlongSteps
    <2> HIDE DEF A
    <2>2. A[Root] \in Seq(V)
      BY <2>1
    <2> QED BY <2>2
  <1>2. ASSUME NEW c \in DOMAIN hop, hop[c].session \in T PROVE c \in T
    <2>1. A[c] = A[hop[c].session] \o part[c]
      BY AlongSteps
    <2>2. A[hop[c].session] \in Seq(V) /\ part[c] \in Seq(V)
      BY <1>2
    <2> HIDE DEF A
    <2>3. A[c] \in Seq(V)
      BY <2>1, <2>2
    <2> QED BY <2>3
  <1> HIDE DEF T
  <1>3. {Root} \cup DOMAIN hop \subseteq T
    BY <1>1, <1>2, LineageInduction
  <1> QED BY <1>3 DEF T

(* The hops on the way from the root, one for each fork.                     *)
Way(hop) == Along(hop, [c \in DOMAIN hop |-> <<hop[c]>>])

(* A fork is one hop further than what it was forked from.                   *)
LEMMA WaySteps ==
    ASSUME NEW hop, Lineage(hop)
    PROVE  /\ Range(Way(hop)[Root]) = {}
           /\ \A c \in DOMAIN hop :
                 Range(Way(hop)[c]) = Range(Way(hop)[hop[c].session]) \cup {hop[c]}
  <1> DEFINE H == {hop[c] : c \in DOMAIN hop}
             part == [c \in DOMAIN hop |-> <<hop[c]>>]
             W == Way(hop)
  <1>1. \A c \in DOMAIN hop : part[c] \in Seq(H) /\ part[c] = <<hop[c]>>
    OBVIOUS
  <1>2. W = Along(hop, part)
    BY DEF Way
  <1> HIDE DEF part, W, H
  <1>3. /\ W[Root] = <<>>
        /\ \A c \in DOMAIN hop : W[c] = W[hop[c].session] \o part[c]
    BY <1>2, AlongSteps
  <1>4. \A s \in {Root} \cup DOMAIN hop : W[s] \in Seq(H)
    BY <1>1, <1>2, AlongType
  <1>5. Range(W[Root]) = {}
    <2>1. DOMAIN <<>> = {}
      OBVIOUS
    <2> QED BY <1>3, <2>1 DEF Range
  <1>6. ASSUME NEW c \in DOMAIN hop PROVE Range(W[c]) = Range(W[hop[c].session]) \cup {hop[c]}
    <2>1. hop[c].session \in {Root} \cup DOMAIN hop
      BY DEF Lineage, Ranked
    <2>2. PICK a \in Seq(H) : a = W[hop[c].session]
      BY <1>4, <2>1
    <2>3. PICK b \in Seq(H) : b = part[c]
      BY <1>1
    <2>4. Range(b) = {hop[c]}
      <3>1. b = <<hop[c]>>
        BY <1>1, <2>3
      <3>2. DOMAIN <<hop[c]>> = {1} /\ <<hop[c]>>[1] = hop[c]
        OBVIOUS
      <3> QED BY <3>1, <3>2 DEF Range
    <2>5. Range(a \o b) = Range(a) \cup Range(b)
      BY RangeConcatenation
    <2>6. W[c] = a \o b
      BY <1>3, <2>2, <2>3
    <2> QED BY <2>2, <2>4, <2>5, <2>6
  <1> QED BY <1>5, <1>6 DEF W

(* The hops on the way go down in rank.                                      *)
LEMMA WayRanked ==
    ASSUME NEW hop, NEW depth \in Nat, NEW rank, Ranked(hop, rank, depth),
           NEW s \in {Root} \cup DOMAIN hop, NEW h \in Range(Way(hop)[s])
    PROVE  /\ \E c \in DOMAIN hop : h = hop[c]
           /\ h.session \in {Root} \cup DOMAIN hop
           /\ rank[h.session] < rank[s]
  <1> DEFINE T == {t \in {Root} \cup DOMAIN hop : \A g \in Range(Way(hop)[t]) :
                      (\E c \in DOMAIN hop : g = hop[c]) /\ rank[g.session] < rank[t]}
  <1>0. Lineage(hop)
    BY DEF Lineage
  <1>1. Root \in T
    BY <1>0, WaySteps
  <1>2. ASSUME NEW c \in DOMAIN hop, hop[c].session \in T PROVE c \in T
    <2>1. ASSUME NEW g \in Range(Way(hop)[c])
          PROVE  (\E d \in DOMAIN hop : g = hop[d]) /\ rank[g.session] < rank[c]
      <3>1. g \in Range(Way(hop)[hop[c].session]) \cup {hop[c]}
        BY <1>0, <2>1, WaySteps
      <3>2. /\ rank[hop[c].session] \in Nat /\ rank[c] \in Nat
            /\ rank[hop[c].session] < rank[c]
        BY DEF Ranked
      <3>3. CASE g = hop[c]
        BY <3>2, <3>3
      <3>4. CASE g \in Range(Way(hop)[hop[c].session])
        <4>1. PICK d \in DOMAIN hop : g = hop[d] /\ rank[g.session] < rank[hop[c].session]
          BY <1>2, <3>4
        <4>2. rank[hop[d].session] \in Nat
          BY DEF Ranked
        <4> QED BY <3>2, <4>1, <4>2
      <3> QED BY <3>1, <3>3, <3>4
    <2> QED BY <2>1
  <1> HIDE DEF T
  <1>3. {Root} \cup DOMAIN hop \subseteq T
    BY <1>0, <1>1, <1>2, LineageInduction
  <1>4. (\E c \in DOMAIN hop : h = hop[c]) /\ rank[h.session] < rank[s]
    BY <1>3 DEF T
  <1> QED BY <1>4 DEF Ranked

(* w is x, then y, then something else.                                      *)
Starts(V, w, x, y) == \E z \in Seq(V) : w = (x \o y) \o z

(* What a session inherits starts with what each session on its way does,    *)
(* and that one's part.                                                      *)
LEMMA AlongPrefix ==
    ASSUME NEW hop, NEW part, Lineage(hop), NEW V, \A c \in DOMAIN hop : part[c] \in Seq(V),
           NEW s \in {Root} \cup DOMAIN hop, NEW h \in Range(Way(hop)[s])
    PROVE  \E d \in DOMAIN hop :
              hop[d] = h /\ Starts(V, Along(hop, part)[s], Along(hop, part)[h.session], part[d])
  <1> DEFINE A == Along(hop, part)
             T == {t \in {Root} \cup DOMAIN hop : \A g \in Range(Way(hop)[t]) :
                      \E d \in DOMAIN hop :
                         hop[d] = g /\ Starts(V, A[t], A[g.session], part[d])}
  <1>1. Root \in T
    BY WaySteps
  <1>2. \A t \in {Root} \cup DOMAIN hop : A[t] \in Seq(V)
    BY AlongType
  <1>3. \A c \in DOMAIN hop : hop[c].session \in {Root} \cup DOMAIN hop
    BY DEF Lineage, Ranked
  <1>4. \A c \in DOMAIN hop : A[c] = A[hop[c].session] \o part[c]
    BY AlongSteps
  <1> HIDE DEF A
  <1>5. ASSUME NEW c \in DOMAIN hop, hop[c].session \in T PROVE c \in T
    <2>1. ASSUME NEW g \in Range(Way(hop)[c])
          PROVE  \E d \in DOMAIN hop : hop[d] = g /\ Starts(V, A[c], A[g.session], part[d])
      <3>1. PICK b \in Seq(V) : b = part[c]
        OBVIOUS
      <3>2. CASE g = hop[c]
        <4>1. PICK a \in Seq(V) : a = A[g.session]
          BY <1>2, <1>3, <3>2
        <4>2. (a \o b) \o <<>> = a \o b /\ <<>> \in Seq(V)
          OBVIOUS
        <4>3. A[c] = (A[g.session] \o part[c]) \o <<>>
          BY <1>4, <3>1, <3>2, <4>1, <4>2, Zenon
        <4> QED BY <3>2, <4>2, <4>3 DEF Starts
      <3>3. CASE g \in Range(Way(hop)[hop[c].session])
        <4>0. PICK d \in DOMAIN hop :
                 hop[d] = g /\ Starts(V, A[hop[c].session], A[g.session], part[d])
          BY <1>5, <3>3
        <4>1. PICK z \in Seq(V) : hop[d] = g /\ A[hop[c].session] = (A[g.session] \o part[d]) \o z
          BY <4>0 DEF Starts
        <4>2. A[g.session] \in Seq(V) /\ part[d] \in Seq(V)
          BY <1>2, <1>3, <4>1
        <4>3. PICK a \in Seq(V) : a = A[g.session] \o part[d]
          <5>1. PICK u \in Seq(V), v \in Seq(V) : u = A[g.session] /\ v = part[d]
            BY <4>2
          <5>2. u \o v \in Seq(V)
            OBVIOUS
          <5> QED BY <5>1, <5>2, Zenon
        <4>4. (a \o z) \o b = a \o (z \o b) /\ z \o b \in Seq(V)
          <5>1. z \o b \in Seq(V)
            OBVIOUS
          <5>2. (a \o z) \o b = a \o (z \o b)
            <6>1. a \in Seq(V) /\ z \in Seq(V) /\ b \in Seq(V)
              OBVIOUS
            <6> QED BY ONLY <6>1, ConcatAssociative, Z3T(60)
          <5> QED BY <5>1, <5>2
        <4>5. A[c] = (A[g.session] \o part[d]) \o (z \o b)
          BY <1>4, <3>1, <4>1, <4>3, <4>4, Zenon
        <4> QED BY <4>1, <4>4, <4>5 DEF Starts
      <3>4. g \in Range(Way(hop)[hop[c].session]) \cup {hop[c]}
        BY <2>1, WaySteps
      <3> QED BY <3>2, <3>3, <3>4
    <2> QED BY <2>1
  <1> HIDE DEF T
  <1>6. {Root} \cup DOMAIN hop \subseteq T
    BY <1>1, <1>5, LineageInduction
  <1> QED BY <1>6 DEF T, A

(* All it inherits is in the part of a hop on its way.                       *)
LEMMA AlongParts ==
    ASSUME NEW hop, NEW part, Lineage(hop), NEW V, \A c \in DOMAIN hop : part[c] \in Seq(V),
           NEW s \in {Root} \cup DOMAIN hop, NEW x \in Range(Along(hop, part)[s])
    PROVE  \E d \in DOMAIN hop : hop[d] \in Range(Way(hop)[s]) /\ x \in Range(part[d])
  <1> DEFINE A == Along(hop, part)
             T == {t \in {Root} \cup DOMAIN hop : \A y \in Range(A[t]) :
                      \E d \in DOMAIN hop : hop[d] \in Range(Way(hop)[t]) /\ y \in Range(part[d])}
  <1>1. A[Root] = <<>> /\ \A c \in DOMAIN hop : A[c] = A[hop[c].session] \o part[c]
    BY AlongSteps
  <1>2. \A t \in {Root} \cup DOMAIN hop : A[t] \in Seq(V)
    BY AlongType
  <1>3. \A c \in DOMAIN hop : hop[c].session \in {Root} \cup DOMAIN hop
    BY DEF Lineage, Ranked
  <1> HIDE DEF A
  <1>4. Root \in T
    <2>1. DOMAIN <<>> = {}
      OBVIOUS
    <2>2. Range(A[Root]) = {}
      BY <1>1, <2>1 DEF Range
    <2> QED BY <2>2
  <1>5. ASSUME NEW c \in DOMAIN hop, hop[c].session \in T PROVE c \in T
    <2>1. ASSUME NEW y \in Range(A[c])
          PROVE  \E d \in DOMAIN hop : hop[d] \in Range(Way(hop)[c]) /\ y \in Range(part[d])
      <3>1. PICK a \in Seq(V) : a = A[hop[c].session]
        BY <1>2, <1>3
      <3>2. PICK b \in Seq(V) : b = part[c]
        OBVIOUS
      <3>3. Range(a \o b) = Range(a) \cup Range(b)
        BY RangeConcatenation
      <3>4. A[c] = a \o b
        BY <1>1, <3>1, <3>2
      <3>5. y \in Range(a) \/ y \in Range(b)
        BY <2>1, <3>3, <3>4
      <3>6. Range(Way(hop)[c]) = Range(Way(hop)[hop[c].session]) \cup {hop[c]}
        BY WaySteps
      <3>7. CASE y \in Range(a)
        <4>1. PICK d \in DOMAIN hop : /\ hop[d] \in Range(Way(hop)[hop[c].session])
                                      /\ y \in Range(part[d])
          BY <1>5, <3>1, <3>7
        <4> QED BY <3>6, <4>1
      <3>8. CASE y \in Range(b)
        BY <3>2, <3>6, <3>8
      <3> QED BY <3>5, <3>7, <3>8
    <2> QED BY <2>1
  <1> HIDE DEF T
  <1>6. {Root} \cup DOMAIN hop \subseteq T
    BY <1>4, <1>5, LineageInduction
  <1> QED BY <1>6 DEF T, A

(* A session inherits the same when the parts on its way are the same, other *)
(* forks are made or not.                                                    *)
LEMMA AlongSame ==
    ASSUME NEW hop, NEW part, Lineage(hop), NEW hop2, NEW part2, Lineage(hop2),
           DOMAIN hop \subseteq DOMAIN hop2, \A c \in DOMAIN hop : hop2[c] = hop[c],
           NEW s \in {Root} \cup DOMAIN hop,
           \A c \in DOMAIN hop : hop[c] \in Range(Way(hop)[s]) => part2[c] = part[c]
    PROVE  Along(hop2, part2)[s] = Along(hop, part)[s]
  <1> DEFINE A == Along(hop, part)
             B == Along(hop2, part2)
             Same(t) == \A c \in DOMAIN hop : hop[c] \in Range(Way(hop)[t]) => part2[c] = part[c]
             T == {t \in {Root} \cup DOMAIN hop : Same(t) => B[t] = A[t]}
  <1>1. A[Root] = <<>> /\ \A c \in DOMAIN hop : A[c] = A[hop[c].session] \o part[c]
    BY AlongSteps
  <1>2. B[Root] = <<>> /\ \A c \in DOMAIN hop2 : B[c] = B[hop2[c].session] \o part2[c]
    BY AlongSteps
  <1> HIDE DEF A, B
  <1>3. Root \in T
    BY <1>1, <1>2
  <1>4. ASSUME NEW c \in DOMAIN hop, hop[c].session \in T PROVE c \in T
    <2> SUFFICES ASSUME Same(c) PROVE B[c] = A[c]
      OBVIOUS
    <2>1. Range(Way(hop)[c]) = Range(Way(hop)[hop[c].session]) \cup {hop[c]}
      BY WaySteps
    <2>2. Same(hop[c].session) /\ part2[c] = part[c]
      BY <2>1
    <2>3. B[hop[c].session] = A[hop[c].session]
      BY <1>4, <2>2
    <2>4. c \in DOMAIN hop2 /\ hop2[c] = hop[c]
      OBVIOUS
    <2> HIDE DEF T, Same
    <2> QED BY <1>1, <1>2, <2>2, <2>3, <2>4, Zenon
  <1> HIDE DEF T
  <1>5. {Root} \cup DOMAIN hop \subseteq T
    BY <1>3, <1>4, LineageInduction
  <1> QED BY <1>5 DEF T, A, B

-----------------------------------------------------------------------------
(* What the log has of its events, where no write fails and power losses     *)
(* keep the order of writes.                                                 *)

(* A write brings every id once.                                             *)
LEMMA BufferLines ==
    ASSUME IInv, NEW p \in Proc, NEW here, NEW what, BeginWrite(p, here, what)
    PROVE  /\ \A i \in LineEnds(buf') : buf'[i].ev \in Nat /\ buf'[i].ev >= nextId
           /\ \A i, j \in LineEnds(buf') : buf'[i].ev = buf'[j].ev => i = j
  <1>1. nextId \in Nat \ {0} /\ Width \subseteq Nat \ {0}
    BY ConstantsAssumption DEF IInv, TypeOK
  <1>2. ASSUME NEW e \in Nat \ {0}, NEW w \in Nat \ {0}
        PROVE  \E c \in Seq(Cell) : /\ c = Cells(e, w) /\ Len(c) = w
                                    /\ \A i \in 1..w : c[i].ev = e /\ (Newline(c[i]) <=> i = w)
    <2>1. PICK c \in Seq(Cell) : /\ c = Cells(e, w) /\ Len(c) = w
                                 /\ \A i \in 1..w : c[i] = [ev |-> e, part |-> i, of |-> w]
      BY CellsFacts
    <2>2. ASSUME NEW i \in 1..w PROVE c[i].ev = e /\ (Newline(c[i]) <=> i = w)
      <3>1. c[i] = [ev |-> e, part |-> i, of |-> w]
        BY <2>1
      <3> QED BY <3>1 DEF Newline
    <2> QED BY <2>1, <2>2
  <1>3. PICK w \in Width :
          \/ buf' = Cells(nextId, w)
          \/ \E w2 \in Width : buf' = Cells(nextId, w) \o Cells(nextId + 1, w2)
    BY DEF BeginWrite
  <1>4. PICK c \in Seq(Cell) :
          /\ c = Cells(nextId, w) /\ Len(c) = w
          /\ \A i \in 1..w : c[i].ev = nextId /\ (Newline(c[i]) <=> i = w)
    BY <1>1, <1>2
  <1>5. CASE buf' = Cells(nextId, w)
    <2>1. \A i \in LineEnds(c) : i = w /\ c[i].ev = nextId
      BY <1>4 DEF LineEnds
    <2> QED BY <1>1, <1>4, <1>5, <2>1
  <1>6. ASSUME NEW w2 \in Width, buf' = Cells(nextId, w) \o Cells(nextId + 1, w2)
        PROVE  /\ \A i \in LineEnds(buf') : buf'[i].ev \in Nat /\ buf'[i].ev >= nextId
               /\ \A i, j \in LineEnds(buf') : buf'[i].ev = buf'[j].ev => i = j
    <2>1. PICK d \in Seq(Cell) :
            /\ d = Cells(nextId + 1, w2) /\ Len(d) = w2
            /\ \A i \in 1..w2 : d[i].ev = nextId + 1 /\ (Newline(d[i]) <=> i = w2)
      BY <1>1, <1>2
    <2>2. /\ Len(Concat(c, d)) = Len(c) + Len(d)
          /\ \A i \in 1..Len(c) : Concat(c, d)[i] = c[i]
          /\ \A i \in 1..Len(d) : Concat(c, d)[Len(c) + i] = d[i]
      <3>1. Len(Concat(c, d)) = Len(c) + Len(d)
        BY ConcatFacts
      <3>2. \A i \in 1..Len(c) : Concat(c, d)[i] = c[i]
        BY ConcatFacts
      <3>3. \A i \in 1..Len(d) : Concat(c, d)[Len(c) + i] = d[i]
        BY ConcatFacts
      <3> QED BY <3>1, <3>2, <3>3
    <2>3. PICK b : b = Concat(c, d) /\ buf' = b
      BY <1>4, <1>6, <2>1 DEF Concat
    <2>4. ASSUME NEW i \in LineEnds(b)
          PROVE  \/ i = w /\ b[i].ev = nextId
                 \/ i = w + w2 /\ b[i].ev = nextId + 1
      <3>1. i \in 1..(w + w2) /\ Newline(b[i]) /\ w \in Nat /\ w2 \in Nat
        BY <1>1, <1>4, <2>1, <2>2, <2>3 DEF LineEnds
      <3>2. CASE i <= w
        <4>1. i \in 1..w /\ b[i] = c[i]
          BY <1>4, <2>2, <2>3, <3>1, <3>2
        <4> QED BY <1>4, <3>1, <4>1
      <3>3. CASE i > w
        <4>1. i - w \in 1..w2 /\ w + (i - w) = i
          BY <3>1, <3>3
        <4>2. b[w + (i - w)] = d[i - w]
          BY <1>4, <2>1, <2>2, <2>3, <4>1
        <4>3. Newline(d[i - w])
          BY <3>1, <4>1, <4>2
        <4>4. i - w = w2 /\ d[i - w].ev = nextId + 1
          BY <2>1, <4>1, <4>3
        <4>5. i = w + w2
          BY <3>1, <4>4
        <4> QED BY <4>1, <4>2, <4>4, <4>5
      <3> QED BY <3>1, <3>2, <3>3
    <2>5. nextId \in Nat /\ w \in Nat /\ w2 \in Nat
      BY <1>1
    <2>6. \A i \in LineEnds(b) : b[i].ev \in Nat /\ b[i].ev >= nextId
      BY <2>4, <2>5
    <2>7. \A i, j \in LineEnds(b) : b[i].ev = b[j].ev => i = j
      BY <2>4, <2>5
    <2> QED BY <2>3, <2>6, <2>7
  <1> QED BY <1>3, <1>5, <1>6

(* The lines of a file that agrees with another one up to each of them.      *)
LEMMA OldLines ==
    ASSUME NEW f \in Seq(Cell), NEW g \in Seq(Cell), NEW n \in 1..Len(g),
           n <= Len(f), \A i \in 1..n : g[i] = f[i]
    PROVE  /\ n \in LineEnds(g) <=> n \in LineEnds(f)
           /\ n \in ValidEnds(g) <=> n \in ValidEnds(f)
           /\ g[n] = f[n]
  <1>1. n \in Nat /\ n \in 1..Len(f) /\ g[n] = f[n] /\ \A i \in 1..n : f[i] = g[i]
    OBVIOUS
  <1>2. n \in LineEnds(g) <=> n \in LineEnds(f)
    BY <1>1 DEF LineEnds
  <1>3. ValidLine(g, n) => ValidLine(f, n)
    BY <1>1, ValidAgree
  <1>4. ValidLine(f, n) => ValidLine(g, n)
    BY <1>1, ValidAgree
  <1> QED BY <1>1, <1>2, <1>3, <1>4 DEF ValidEnds

(* What a write brings: lines of the buffer, behind what is there.           *)
LEMMA WriteSomeCells ==
    ASSUME IInv, NEW p \in Proc, WriteSome(p)
    PROVE  \E k \in 1..Len(buf) :
              /\ file' \in Seq(Cell)
              /\ Len(file') = Len(file) + k
              /\ \A i \in 1..Len(file) : file'[i] = file[i]
              /\ \A i \in 1..k : file'[Len(file) + i] = buf[i]
              /\ buf' \in Seq(Cell)
              /\ Len(buf') = Len(buf) - k
              /\ \A i \in 1..(Len(buf) - k) : buf'[i] = buf[k + i]
  <1>1. file \in Seq(Cell) /\ buf \in Seq(Cell)
    BY DEF IInv, TypeOK
  <1>2. PICK k \in 1..Len(buf) : file' = file \o Prefix(buf, k) /\ buf' = Suffix(buf, k)
    BY DEF WriteSome
  <1>3. k \in 0..Len(buf)
    OBVIOUS
  <1>4. PICK x \in Seq(Cell) : /\ x = Prefix(buf, k) /\ Len(x) = k
                               /\ \A i \in 1..k : x[i] = buf[i]
    <2>1. \E x \in Seq(Cell) : IsPrefix(x, buf, k)
      BY <1>1, <1>3, PrefixIs
    <2> QED BY <2>1 DEF IsPrefix
  <1>5. PICK y \in Seq(Cell) : /\ y = Suffix(buf, k) /\ Len(y) = Len(buf) - k
                               /\ \A i \in 1..(Len(buf) - k) : y[i] = buf[k + i]
    <2>1. \E y \in Seq(Cell) : IsSuffix(y, buf, k)
      BY <1>1, <1>3, SuffixIs
    <2> QED BY <2>1 DEF IsSuffix
  <1>6. PICK g \in Seq(Cell) : IsConcat(g, file, x)
    BY <1>1, ConcatIs
  <1>7. /\ file' = g /\ Len(g) = Len(file) + k
        /\ \A i \in 1..Len(file) : g[i] = file[i]
        /\ \A i \in 1..k : g[Len(file) + i] = buf[i]
    BY <1>2, <1>4, <1>6 DEF IsConcat
  <1> QED BY <1>2, <1>5, <1>7

(* What parses of the file after a power loss that keeps the order of writes *)
(* was there before: a hole is in a last line that is not complete.          *)
LEMMA PowerLossLines ==
    ASSUME IInv, IInv', StableInv, ~Reorder, PowerLoss, NEW n \in ValidEnds(file')
    PROVE  n <= Len(file) /\ \A i \in 1..n : file'[i] = file[i]
  <1>1. /\ file \in Seq(Cell) /\ stable \in Seq(Cell) /\ file' \in Seq(Cell)
        /\ Len(file) \in Nat /\ Len(stable) \in Nat
    BY DEF IInv, TypeOK
  <1>2. /\ n \in 1..Len(file') /\ n \in Nat /\ Newline(file'[n]) /\ ValidLine(file', n)
        /\ file'[n] \in Cell
    BY <1>1 DEF ValidEnds, LineEnds
  <1>3. CASE file' = file
    BY <1>2, <1>3
  <1>4. CASE file' = stable
    <2>1. n \in ValidEnds(stable)
      BY <1>4
    <2>2. n <= Len(file) /\ \A i \in 1..n : file[i] = stable[i]
      BY <2>1 DEF StableInv
    <2> QED BY <1>4, <2>2
  <1>5. ASSUME NEW m \in Len(stable)..Len(file), NEW holes \in SUBSET LastLine(m),
               file' = WithHoles(m, holes)
        PROVE  n <= Len(file) /\ \A i \in 1..n : file'[i] = file[i]
    <2>1. m \in Nat /\ m <= Len(file)
      BY <1>1
    <2>2. Len(file') = m /\ \A i \in 1..m : file'[i] = IF i \in holes THEN Zero ELSE file[i]
      BY <1>5, <2>1 DEF WithHoles
    <2>3. \A h \in holes : h \in 1..m /\ \A j \in h..(m - 1) : ~Newline(file[j])
      BY <1>1, <2>1 DEF LastLine
    <2>4. ~Newline(Zero) /\ Zero.part = 0
      BY DEF Newline, Zero
    <2>5. \A j \in 1..m : Newline(file'[j]) => j \notin holes /\ Newline(file[j])
      BY <2>2, <2>4
    <2>6. ASSUME NEW h \in holes, h <= n PROVE FALSE
      <3>1. n \in 1..m /\ n \notin holes /\ Newline(file[n]) /\ h \in 1..m
        BY <1>2, <2>2, <2>3, <2>5
      <3>2. n = m
        <4>1. n < m => n \in h..(m - 1)
          BY <2>1, <2>6, <3>1
        <4> QED BY <2>1, <2>3, <3>1, <4>1
      <3>3. PICK w \in Nat \ {0} : w = file'[n].of
        BY <1>2 DEF Cell, EventCell, Zero
      <3>4. /\ w <= n
            /\ \A i \in 1..w : file'[n - w + i].part = i
            /\ w = n \/ Newline(file'[n - w])
        <4>1. \A i \in 1..w : file'[n - w + i] = [ev |-> file'[n].ev, part |-> i, of |-> w]
          BY <1>2, <3>3 DEF ValidLine
        <4>2. ASSUME NEW i \in 1..w PROVE file'[n - w + i].part = i
          <5>1. file'[n - w + i] = [ev |-> file'[n].ev, part |-> i, of |-> w]
            BY <4>1
          <5> QED BY <5>1
        <4>3. w <= n /\ (w = n \/ Newline(file'[n - w]))
          BY <1>2, <3>3 DEF ValidLine
        <4> QED BY <4>2, <4>3
      <3>5. CASE h > n - w
        <4>1. h - (n - w) \in 1..w /\ n - w + (h - (n - w)) = h
          BY <2>1, <2>6, <3>1, <3>4, <3>5
        <4>2. file'[h].part = h - (n - w)
          BY <3>4, <4>1
        <4>3. file'[h] = Zero
          BY <2>2, <3>1
        <4> QED BY <2>4, <4>1, <4>2, <4>3
      <3>6. CASE h <= n - w
        <4>1. n - w \in 1..m /\ n - w \in h..(m - 1)
          BY <2>1, <3>1, <3>2, <3>4, <3>6
        <4>2. Newline(file'[n - w])
          BY <3>1, <3>4, <4>1
        <4> QED BY <2>3, <2>5, <4>1, <4>2
      <3> QED BY <2>1, <3>1, <3>4, <3>5, <3>6
    <2>7. \A i \in 1..n : file'[i] = file[i]
      BY <1>2, <2>1, <2>2, <2>6
    <2> QED BY <1>1, <1>2, <2>1, <2>2, <2>7
  <1> QED BY <1>3, <1>4, <1>5 DEF PowerLoss

(* Steps that bring nothing.                                                 *)
LEMMA UniqueStays ==
    ASSUME UniqueInv, buf' = buf, \A p \in Proc : pc'[p] = "writing" => pc[p] = "writing",
           \A n \in ValidEnds(file') : n \in ValidEnds(file) /\ file'[n] = file[n]
    PROVE  UniqueInv'
  <1>1. \A m, n \in ValidEnds(file') : file'[m].ev = file'[n].ev => m = n
    BY DEF UniqueInv
  <1>2. ASSUME NEW p \in Proc, pc'[p] = "writing", NEW i \in LineEnds(buf')
        PROVE  /\ \A n \in ValidEnds(file') : file'[n].ev # buf'[i].ev
               /\ \A j \in LineEnds(buf') : buf'[j].ev = buf'[i].ev => i = j
    BY <1>2 DEF UniqueInv
  <1> QED BY <1>1, <1>2 DEF UniqueInv

(* A step of a writer brings no id twice.                                    *)
LEMMA UniqueStep ==
    ASSUME LineInv, LineInv', UniqueInv, NothingBack, Writeback \/ \E p \in Proc : Step(p)
    PROVE  UniqueInv'
  <1>1. /\ IInv /\ file \in Seq(Cell) /\ buf \in Seq(Cell) /\ file' \in Seq(Cell)
        /\ Len(file) \in Nat /\ Len(buf) \in Nat
        /\ pc \in [Proc -> PC] /\ nextId \in Nat \ {0}
        /\ \A i \in 1..Len(file) : file[i].ev < nextId
    BY DEF LineInv, IInv, TypeOK, IdInv, IdsBelow
  <1>2. ASSUME NEW p \in Proc, WriteSome(p) PROVE UniqueInv'
    <2>1. PICK k \in 1..Len(buf) :
              /\ Len(file') = Len(file) + k
              /\ \A i \in 1..Len(file) : file'[i] = file[i]
              /\ \A i \in 1..k : file'[Len(file) + i] = buf[i]
              /\ buf' \in Seq(Cell)
              /\ Len(buf') = Len(buf) - k
              /\ \A i \in 1..(Len(buf) - k) : buf'[i] = buf[k + i]
      BY <1>1, <1>2, WriteSomeCells
    <2>2. pc[p] = "writing"
      BY <1>2 DEF WriteSome
    <2>3. ASSUME NEW n \in ValidEnds(file')
          PROVE  \/ n \in ValidEnds(file) /\ file'[n] = file[n]
                 \/ n - Len(file) \in LineEnds(buf) /\ file'[n] = buf[n - Len(file)]
                                                   /\ n - Len(file) <= k
      <3>1. n \in 1..Len(file') /\ Newline(file'[n])
        BY DEF ValidEnds, LineEnds
      <3>2. CASE n <= Len(file)
        <4>1. PICK g \in Seq(Cell) : g = file'
          BY <1>1
        <4>2. n \in 1..Len(g) /\ \A i \in 1..n : g[i] = file[i]
          BY <1>1, <2>1, <3>1, <3>2, <4>1
        <4>3. n \in ValidEnds(g) <=> n \in ValidEnds(file)
          BY <1>1, <3>2, <4>2, OldLines
        <4> QED BY <3>1, <4>1, <4>2, <4>3
      <3>3. CASE n > Len(file)
        <4>1. n - Len(file) \in 1..k /\ Len(file) + (n - Len(file)) = n
          BY <1>1, <2>1, <3>1, <3>3
        <4>2. file'[n] = buf[n - Len(file)]
          BY <2>1, <4>1
        <4>3. n - Len(file) \in 1..Len(buf)
          BY <1>1, <4>1
        <4> QED BY <3>1, <4>1, <4>2, <4>3 DEF LineEnds
      <3> QED BY <1>1, <3>1, <3>2, <3>3
    <2>4. /\ \A m, n \in ValidEnds(file) : file[m].ev = file[n].ev => m = n
          /\ \A i \in LineEnds(buf) : \A n \in ValidEnds(file) : file[n].ev # buf[i].ev
          /\ \A i, j \in LineEnds(buf) : buf[j].ev = buf[i].ev => i = j
      BY <2>2 DEF UniqueInv
    <2>5. ASSUME NEW m \in ValidEnds(file'), NEW n \in ValidEnds(file'), file'[m].ev = file'[n].ev
          PROVE  m = n
      <3>1. m \in Int /\ n \in Int
        BY DEF ValidEnds, LineEnds
      <3>2. CASE n \in ValidEnds(file) /\ file'[n] = file[n]
        BY <2>3, <2>4, <2>5, <3>2
      <3>3. CASE n - Len(file) \in LineEnds(buf) /\ file'[n] = buf[n - Len(file)]
        <4>1. CASE m \in ValidEnds(file) /\ file'[m] = file[m]
          BY <2>4, <2>5, <3>3, <4>1
        <4>2. CASE m - Len(file) \in LineEnds(buf) /\ file'[m] = buf[m - Len(file)]
          <5>1. m - Len(file) = n - Len(file)
            BY <2>4, <2>5, <3>3, <4>2
          <5> QED BY <1>1, <3>1, <5>1
        <4> QED BY <2>3, <4>1, <4>2
      <3> QED BY <2>3, <3>2, <3>3
    <2>6. ASSUME NEW i \in LineEnds(buf')
          PROVE  k + i \in LineEnds(buf) /\ buf'[i] = buf[k + i] /\ i \in Nat \ {0}
      <3>1. i \in 1..(Len(buf) - k) /\ Newline(buf'[i])
        BY <2>1 DEF LineEnds
      <3>2. buf'[i] = buf[k + i] /\ k + i \in 1..Len(buf)
        BY <1>1, <2>1, <3>1
      <3> QED BY <3>1, <3>2 DEF LineEnds
    <2>7. ASSUME NEW i \in LineEnds(buf'), NEW n \in ValidEnds(file')
          PROVE  file'[n].ev # buf'[i].ev
      <3>1. k + i \in LineEnds(buf) /\ buf'[i] = buf[k + i] /\ i \in Nat \ {0}
        BY <2>6
      <3>2. CASE n \in ValidEnds(file) /\ file'[n] = file[n]
        BY <2>4, <3>1, <3>2
      <3>3. CASE n - Len(file) \in LineEnds(buf) /\ file'[n] = buf[n - Len(file)]
                                                 /\ n - Len(file) <= k
        <4>1. n - Len(file) # k + i
          BY <1>1, <3>1, <3>3 DEF LineEnds
        <4> QED BY <2>4, <3>1, <3>3, <4>1
      <3> QED BY <2>3, <3>2, <3>3
    <2>8. ASSUME NEW i \in LineEnds(buf'), NEW j \in LineEnds(buf'), buf'[j].ev = buf'[i].ev
          PROVE  i = j
      <3>1. k + i = k + j
        BY <2>4, <2>6, <2>8
      <3> QED BY <2>6, <3>1
    <2> QED BY <2>5, <2>7, <2>8 DEF UniqueInv
  <1>3. ASSUME NEW p \in Proc, NEW here, NEW what, BeginWrite(p, here, what), file' = file
        PROVE  UniqueInv'
    <2>1. /\ \A i \in LineEnds(buf') : buf'[i].ev \in Nat /\ buf'[i].ev >= nextId
          /\ \A i, j \in LineEnds(buf') : buf'[i].ev = buf'[j].ev => i = j
      BY <1>1, <1>3, BufferLines
    <2>2. \A n \in ValidEnds(file) : n \in 1..Len(file)
      BY DEF ValidEnds, LineEnds
    <2>3. ASSUME NEW n \in ValidEnds(file), NEW i \in LineEnds(buf')
          PROVE  file[n].ev # buf'[i].ev
      <3>1. file[n].ev < nextId
        BY <1>1, <2>2
      <3>2. file[n].ev \in Nat
        BY <1>1, <2>2, IdsNat
      <3> QED BY <1>1, <2>1, <3>1, <3>2
    <2> QED BY <1>3, <2>1, <2>3 DEF UniqueInv
  <1>4. ASSUME NEW m \in 0..Len(file), file' = Prefix(file, m), NEW n \in ValidEnds(file')
        PROVE  n \in ValidEnds(file) /\ file'[n] = file[n]
    <2>1. PICK g \in Seq(Cell) : /\ g = file' /\ Len(g) = m /\ \A i \in 1..m : g[i] = file[i]
      BY <1>1, <1>4, PrefixFacts
    <2>2. n \in 1..Len(g) /\ n <= Len(file) /\ \A i \in 1..n : g[i] = file[i]
      BY <1>1, <2>1 DEF ValidEnds, LineEnds
    <2>3. n \in ValidEnds(g) <=> n \in ValidEnds(file)
      BY <1>1, <2>2, OldLines
    <2> QED BY <2>1, <2>2, <2>3
  <1>5. ASSUME NEW p \in Proc, CutTorn(p) \/ CutRegion(p) PROVE UniqueInv'
    <2>1. \E m \in 0..Len(file) : file' = Prefix(file, m)
      BY <1>1, <1>5 DEF CutTorn, LineEnds, CutRegion, Goto, IInv, BaseInv, BaseAt
    <2>2. buf' = buf /\ \A q \in Proc : pc'[q] = "writing" => pc[q] = "writing"
      BY <1>1, <1>5 DEF CutTorn, CutRegion, Goto
    <2> QED BY <1>4, <2>1, <2>2, UniqueStays
  <1>6. ASSUME NEW p \in Proc,
               (LockNew(p) /\ lock = None) \/ BeginRepair(p) \/ AppendBatch(p)
        PROVE  UniqueInv'
    BY <1>3, <1>6 DEF LockNew, BeginRepair, AppendBatch, disk
  <1>7. ASSUME NEW p \in Proc,
               \/ LockNew(p) /\ lock # None
               \/ CreateNew(p) \/ OpenLock(p) \/ CheckHeader(p) \/ NoTorn(p) \/ SyncTorn(p)
               \/ NoRegion(p) \/ WriteSidecar(p) \/ SyncSidecar(p) \/ SyncOk(p) \/ Drop(p)
        PROVE  UniqueInv'
    <2>1. file' = file /\ buf' = buf
      BY <1>7 DEF LockNew, CreateNew, OpenLock, CheckHeader, NoTorn, SyncTorn, NoRegion,
                  WriteSidecar, SyncSidecar, SyncOk, Drop, disk
    <2>2. \A q \in Proc : pc'[q] = "writing" => pc[q] = "writing"
      BY <1>1, <1>7 DEF LockNew, CreateNew, OpenLock, CheckHeader, NoTorn, SyncTorn, NoRegion,
                  WriteSidecar, SyncSidecar, SyncOk, Drop, Goto, Release
    <2> QED BY <2>1, <2>2, UniqueStays
  <1>8. ASSUME NEW p \in Proc, WriteFails(p) \/ RollBack(p) \/ RollBackSynced(p) \/ RollBackFails(p)
        PROVE  UniqueInv'
    <2>1. CASE WriteFails(p)
      <3>1. file' = file /\ buf' = buf
        BY <2>1 DEF WriteFails, disk
      <3>2. \A q \in Proc : pc'[q] = "writing" => pc[q] = "writing"
        BY <1>1, <2>1 DEF WriteFails, Goto
      <3> QED BY <3>1, <3>2, UniqueStays
    <2>2. CASE RollBack(p) \/ RollBackSynced(p) \/ RollBackFails(p)
      BY <2>2 DEF RollBack, RollBackSynced, RollBackFails, Goto, NothingBack
    <2> QED BY <1>8, <2>1, <2>2
  <1>9. CASE Writeback
    BY <1>9, UniqueStays DEF Writeback, handle
  <1> QED BY <1>2, <1>5, <1>6, <1>7, <1>8, <1>9 DEF Step

(* A step of a writer keeps what parses on the disk in the file.             *)
LEMMA StableStep ==
    ASSUME LineInv, LineInv', RegionInv, NothingBack, StableInv,
           Writeback \/ \E p \in Proc : Step(p)
    PROVE  StableInv'
  <1>1. /\ file \in Seq(Cell) /\ stable \in Seq(Cell) /\ file' \in Seq(Cell)
    BY DEF LineInv, IInv, TypeOK
  <1>2. stable' = stable \/ stable' = file'
    BY DEF Writeback, Step, CreateNew, LockNew, OpenLock, CheckHeader, CutTorn, NoTorn, SyncTorn,
           NoRegion, WriteSidecar, SyncSidecar, CutRegion, BeginRepair, AppendBatch, WriteSome,
           SyncOk, WriteFails, RollBack, RollBackSynced, RollBackFails, Drop, disk
  <1>3. CASE stable' = file'
    <2>1. \A n \in ValidEnds(file') : n <= Len(file')
      BY <1>1 DEF ValidEnds, LineEnds
    <2> QED BY <1>3, <2>1 DEF StableInv
  <1>4. CASE stable' = stable
    <2>1. ASSUME NEW n \in ValidEnds(stable)
          PROVE  n <= Len(file') /\ \A i \in 1..n : file'[i] = stable[i]
      <3>1. Holds(file, stable, n)
        BY DEF StableInv, Holds
      <3>2. n \in ValidEnds(file)
        BY <1>1, <3>1, ValidStays
      <3>3. Holds(file', file, n)
        BY <3>2, StepKeepsValid
      <3> QED BY <3>1, <3>3 DEF Holds
    <2> QED BY <1>4, <2>1 DEF StableInv
  <1> QED BY <1>2, <1>3, <1>4

(* Every step keeps the ids apart and what is on the disk in the file.       *)
LEMMA NextUnique ==
    ASSUME ~Reorder, ReaderInv, LineInv', UniqueInv, StableInv, [Next]_vars
    PROVE  UniqueInv' /\ StableInv'
  <1>1. LineInv /\ RegionInv /\ NothingBack
    BY DEF ReaderInv
  <1>2. CASE Writeback \/ \E p \in Proc : Step(p)
    BY <1>1, <1>2, UniqueStep, StableStep
  <1>3. CASE PowerLoss
    <2>1. /\ file \in Seq(Cell) /\ file' \in Seq(Cell) /\ stable' = file'
          /\ \A p \in Proc : pc'[p] = "closed"
      BY <1>1, <1>3 DEF PowerLoss, LineInv, IInv, TypeOK
    <2>2. ASSUME NEW n \in ValidEnds(file') PROVE n \in ValidEnds(file) /\ file'[n] = file[n]
      <3>1. n <= Len(file) /\ \A i \in 1..n : file'[i] = file[i]
        BY <1>1, <1>3, PowerLossLines DEF LineInv
      <3>2. PICK g \in Seq(Cell) : g = file'
        BY <2>1
      <3>3. n \in 1..Len(g) /\ \A i \in 1..n : g[i] = file[i]
        BY <3>1, <3>2 DEF ValidEnds, LineEnds
      <3>4. n \in ValidEnds(g) <=> n \in ValidEnds(file)
        BY <2>1, <3>1, <3>3, OldLines
      <3> QED BY <3>2, <3>3, <3>4
    <2>3. \A m, n \in ValidEnds(file') : file'[m].ev = file'[n].ev => m = n
      BY <2>2 DEF UniqueInv
    <2>4. UniqueInv'
      BY <2>1, <2>3 DEF UniqueInv
    <2>5. \A n \in ValidEnds(file') : n <= Len(file')
      BY <2>1 DEF ValidEnds, LineEnds
    <2> QED BY <2>1, <2>4, <2>5 DEF StableInv
  <1>4. CASE UNCHANGED vars
    BY <1>4 DEF UniqueInv, StableInv, vars, disk, handle
  <1> QED BY <1>2, <1>3, <1>4 DEF Next

(* The events of a file's complete lines.                                    *)
EventsOf(f) == Select(Marks(f, ValidEnds(f)), 1..MaxId)

(* No element is in the sequence twice.                                      *)
NoneTwice(seq) == \A k, l \in DOMAIN seq : seq[k] = seq[l] => k = l

(* Where no element of the kind is there twice, none is selected twice.      *)
LEMMA SelectionNoneTwice ==
    ASSUME NEW S, NEW U, NEW s \in Seq(U), NEW d \in Nat, d <= Len(s),
           \A i, j \in 1..Len(s) : s[i] \in S /\ s[i] = s[j] => i = j
    PROVE  NoneTwice(Selection(s, S)[d])
  BY SelectionOnce DEF NoneTwice

(* They are the events of its lines, each as often as there is a line.       *)
LEMMA EventsFacts ==
    ASSUME NEW f \in Seq(Cell), \A i \in 1..Len(f) : f[i].ev \in 0..MaxId
    PROVE  /\ EventsOf(f) \in Seq(1..MaxId)
           /\ \A k \in 1..Len(EventsOf(f)) : \E n \in ValidEnds(f) : f[n].ev = EventsOf(f)[k]
           /\ \A n \in ValidEnds(f) : \E k \in 1..Len(EventsOf(f)) : EventsOf(f)[k] = f[n].ev
           /\ (\A m, n \in ValidEnds(f) : f[m].ev = f[n].ev => m = n) =>
                 \A k, l \in 1..Len(EventsOf(f)) : EventsOf(f)[k] = EventsOf(f)[l] => k = l
  <1> DEFINE S == 1..MaxId
             U == 0..MaxId
  <1>1. Marks(f, ValidEnds(f)) \in [1..Len(f) -> U]
    BY ConstantsAssumption DEF Marks
  <1>2. Len(f) \in Nat
    OBVIOUS
  <1>3. Marks(f, ValidEnds(f)) \in Seq(U) /\ Len(Marks(f, ValidEnds(f))) = Len(f)
    BY <1>1, <1>2, CellsOfFunction
  <1>4. PICK t \in Seq(U) :
          /\ t = Marks(f, ValidEnds(f)) /\ Len(t) = Len(f)
          /\ \A n \in 1..Len(f) : t[n] = IF n \in ValidEnds(f) THEN f[n].ev ELSE 0
    BY <1>3 DEF Marks
  <1>5. ASSUME NEW n \in ValidEnds(f) PROVE n \in 1..Len(f) /\ f[n].ev \in S
    <2>1. n \in 1..Len(f) /\ Newline(f[n])
      BY DEF ValidEnds, LineEnds
    <2>2. f[n] \in Cell /\ f[n] # Zero
      BY <2>1 DEF Newline, Zero
    <2>3. f[n].ev \in Nat \ {0}
      BY <2>2 DEF Cell, EventCell
    <2> QED BY <2>1, <2>3, ConstantsAssumption
  <1>6. \A n \in 1..Len(f) : t[n] \in S <=> n \in ValidEnds(f)
    BY <1>4, <1>5, ConstantsAssumption
  <1>7. S \cap U = S
    BY ConstantsAssumption
  <1> HIDE DEF S, U
  <1> DEFINE e == Selection(t, S)[Len(t)]
  <1>8. EventsOf(f) = e
    BY <1>4 DEF EventsOf, Select, S
  <1>9. e \in Seq(S)
    <2>1. Select(t, S) \in Seq(S \cap U)
      BY SelectType
    <2> QED BY <1>7, <2>1 DEF Select
  <1>10. Len(t) \in Nat /\ Len(t) <= Len(t) /\ DOMAIN e = 1..Len(e)
    <2> HIDE DEF e
    <2> QED BY <1>9
  <1>11. ASSUME NEW k \in 1..Len(e) PROVE \E n \in ValidEnds(f) : f[n].ev = e[k]
    <2>1. PICK i \in 1..Len(t) : t[i] \in S /\ t[i] = e[k]
      BY <1>10, SelectionFrom
    <2> HIDE DEF e
    <2> QED BY <1>4, <1>6, <2>1
  <1>12. ASSUME NEW n \in ValidEnds(f) PROVE \E k \in 1..Len(e) : e[k] = f[n].ev
    <2>1. n \in 1..Len(t) /\ t[n] \in S /\ t[n] = f[n].ev
      BY <1>4, <1>5
    <2>2. Occurs(t[n], Selection(t, S)[Len(t)])
      <3>1. t \in Seq(U) /\ Len(t) \in Nat /\ Len(t) <= Len(t)
        BY <1>4, <1>10
      <3> HIDE DEF S, U
      <3> QED BY <2>1, <3>1, SelectionHas
    <2>3. \E k \in DOMAIN e : e[k] = t[n]
      BY <2>2 DEF Occurs
    <2> HIDE DEF e
    <2> QED BY <1>10, <2>1, <2>3
  <1>13. ASSUME \A m, n \in ValidEnds(f) : f[m].ev = f[n].ev => m = n
         PROVE  \A k, l \in 1..Len(e) : e[k] = e[l] => k = l
    <2>1. \A i, j \in 1..Len(t) : t[i] \in S /\ t[i] = t[j] => i = j
      <3>1. ASSUME NEW i \in 1..Len(t), NEW j \in 1..Len(t), t[i] \in S, t[i] = t[j]
            PROVE  i = j
        <4>1. i \in ValidEnds(f) /\ j \in ValidEnds(f)
          BY <1>4, <1>6, <3>1
        <4>2. f[i].ev = f[j].ev
          BY <1>4, <3>1, <4>1
        <4> QED BY <1>13, <4>1, <4>2
      <3> QED BY <3>1
    <2>2. \A k, l \in DOMAIN e : e[k] = e[l] => k = l
      <3>1. NoneTwice(Selection(t, S)[Len(t)])
        BY <1>10, <2>1, SelectionNoneTwice
      <3> QED BY <3>1 DEF NoneTwice
    <2> HIDE DEF e
    <2> QED BY <1>10, <2>2
  <1> HIDE DEF e
  <1> QED BY <1>8, <1>9, <1>11, <1>12, <1>13 DEF S

(* A file that has all lines of another one has its events first, then those *)
(* of other lines.                                                           *)
LEMMA EventsGrow ==
    ASSUME NEW f \in Seq(Cell), \A i \in 1..Len(f) : f[i].ev \in 0..MaxId,
           NEW g \in Seq(Cell), \A i \in 1..Len(g) : g[i].ev \in 0..MaxId,
           \A n \in ValidEnds(f) : Holds(g, f, n)
    PROVE  /\ Len(EventsOf(f)) <= Len(EventsOf(g))
           /\ \A i \in 1..Len(EventsOf(f)) : EventsOf(g)[i] = EventsOf(f)[i]
           /\ \A i \in 1..Len(EventsOf(g)) : i > Len(EventsOf(f)) =>
                 \E n \in ValidEnds(g) \ ValidEnds(f) : EventsOf(g)[i] = g[n].ev
  <1> DEFINE S == 1..MaxId
  <1>1. \A n \in ValidEnds(f) : n \in 1..Len(f)
    BY DEF ValidEnds, LineEnds
  <1>2. Len(f) \in Nat /\ Len(g) \in Nat
    OBVIOUS
  <1>3. PICK d \in Nat : /\ d = 0 \/ d \in ValidEnds(f)
                         /\ \A n \in ValidEnds(f) : n <= d
    <2>1. CASE ValidEnds(f) = {}
      BY <2>1
    <2>2. CASE ValidEnds(f) # {}
      <3>1. ValidEnds(f) \subseteq 1..Len(f)
        BY <1>1
      <3>2. \E n \in ValidEnds(f) : \A m \in ValidEnds(f) : m <= n
        BY <1>2, <2>2, <3>1, LastOf
      <3> QED BY <1>1, <3>2
    <2> QED BY <2>1, <2>2
  <1>4. d <= Len(f) /\ d <= Len(g) /\ \A i \in 1..d : g[i] = f[i]
    <2>1. CASE d = 0
      BY <1>2, <2>1
    <2>2. CASE d # 0
      BY <1>1, <1>3, <2>2 DEF Holds
    <2> QED BY <2>1, <2>2
  <1> DEFINE ends == {n \in ValidEnds(g) : d < n /\ n <= Len(g)}
             all == {n \in ValidEnds(g) : n <= Len(g)}
             old == {n \in ValidEnds(g) : n <= d}
             more == Select(Marks(g, ends), S)
  <1>5. all = ValidEnds(g) /\ {n \in ValidEnds(f) : n <= d} = ValidEnds(f)
        /\ ends \cap ValidEnds(f) = {} /\ ends \subseteq ValidEnds(g)
    BY <1>1, <1>3 DEF ValidEnds, LineEnds
  <1>6. Select(Marks(g, old), S) = EventsOf(f)
    <2>1. Select(Marks(g, {n \in ValidEnds(g) : n <= d}), S)
            = Select(Marks(f, {n \in ValidEnds(f) : n <= d}), S)
      BY <1>4, MarksAgree, ZenonT(180)
    <2> HIDE DEF S
    <2> QED BY <1>5, <2>1, Zenon DEF EventsOf, S
  <1>7. Select(Marks(g, old), S) = Selection(EventAt(g), S)[d]
    BY <1>4, MarksUpTo, ZenonT(180)
  <1>8. EventsOf(g) = Selection(EventAt(g), S)[Len(g)]
    <2>1. Len(g) <= Len(g)
      BY <1>2
    <2>2. Select(Marks(g, all), S) = Selection(EventAt(g), S)[Len(g)]
      BY <1>2, <2>1, MarksUpTo, ZenonT(180)
    <2>3. EventsOf(g) = Select(Marks(g, ValidEnds(g)), S)
      BY DEF EventsOf
    <2>4. all = ValidEnds(g)
      BY <1>5
    <2> HIDE DEF all, S
    <2> QED BY <2>2, <2>3, <2>4
  <1>9. Selection(EventAt(g), S)[Len(g)] = Selection(EventAt(g), S)[d] \o more /\ more \in Seq(S)
    <2>1. Len(g) <= Len(g) /\ ends = {n \in ValidEnds(g) : d < n /\ n <= Len(g)}
      BY <1>2
    <2> HIDE DEF ends
    <2> QED BY <1>2, <1>4, <2>1, MarksGap, ZenonT(180)
  <1>10. EventsOf(f) \in Seq(S)
    BY EventsFacts
  <1>11. PICK h \in Seq(S) : IsConcat(h, EventsOf(f), more)
    BY <1>9, <1>10, ConcatIs
  <1>12. EventsOf(g) = h
    <2> HIDE DEF S, more, old
    <2> QED BY <1>6, <1>7, <1>8, <1>9, <1>11, Zenon DEF IsConcat
  <1>13. ASSUME NEW k \in 1..Len(more) PROVE \E n \in ends : more[k] = g[n].ev
    <2>1. Marks(g, ends) \in [1..Len(g) -> 0..MaxId]
      BY ConstantsAssumption DEF Marks
    <2>2. PICK t \in Seq(0..MaxId) :
            /\ t = Marks(g, ends) /\ Len(t) = Len(g)
            /\ \A n \in 1..Len(g) : t[n] = IF n \in ends THEN g[n].ev ELSE 0
      <3>1. Marks(g, ends) \in Seq(0..MaxId) /\ Len(Marks(g, ends)) = Len(g)
        BY <1>2, <2>1, CellsOfFunction
      <3> HIDE DEF ends
      <3> QED BY <3>1 DEF Marks
    <2>3. more = Selection(t, S)[Len(t)]
      BY <2>2 DEF Select
    <2>4. DOMAIN more = 1..Len(more)
      <3> HIDE DEF more
      <3> QED BY <1>9
    <2> HIDE DEF more, ends
    <2>5. k \in DOMAIN Selection(t, S)[Len(t)]
      BY <2>3, <2>4
    <2>6. Len(t) \in Nat /\ Len(t) <= Len(t)
      BY <2>2
    <2>7. \E i \in 1..Len(t) : t[i] \in S /\ t[i] = Selection(t, S)[Len(t)][k]
      <3> HIDE DEF S
      <3> QED BY <2>5, <2>6, SelectionFrom
    <2>8. PICK i \in 1..Len(t) : t[i] \in S /\ t[i] = more[k]
      BY <2>3, <2>7
    <2>9. 0 \notin S
      BY ConstantsAssumption
    <2> QED BY <2>2, <2>8, <2>9
  <1> HIDE DEF more, ends, S
  <1>14. /\ Len(EventsOf(f)) \in Nat /\ Len(more) \in Nat
         /\ Len(h) = Len(EventsOf(f)) + Len(more)
         /\ \A i \in 1..Len(EventsOf(f)) : h[i] = EventsOf(f)[i]
         /\ \A i \in 1..Len(more) : h[Len(EventsOf(f)) + i] = more[i]
    BY <1>9, <1>10, <1>11 DEF IsConcat
  <1>15. ASSUME NEW i \in 1..Len(h), i > Len(EventsOf(f))
         PROVE  \E n \in ValidEnds(g) \ ValidEnds(f) : h[i] = g[n].ev
    <2>1. i - Len(EventsOf(f)) \in 1..Len(more)
          /\ Len(EventsOf(f)) + (i - Len(EventsOf(f))) = i
      BY <1>14, <1>15
    <2>2. h[i] = more[i - Len(EventsOf(f))]
      BY <1>14, <2>1
    <2> QED BY <1>5, <1>13, <2>1, <2>2
  <1> QED BY <1>12, <1>14, <1>15

(* A line a step of a writer adds is one of those being written.             *)
LEMMA StepBrings ==
    ASSUME LineInv, LineInv', NothingBack, Writeback \/ \E p \in Proc : Step(p),
           NEW n \in ValidEnds(file'), n \notin ValidEnds(file)
    PROVE  \E p \in Proc : \E i \in LineEnds(buf) : pc[p] = "writing" /\ file'[n].ev = buf[i].ev
  <1>1. /\ IInv /\ file \in Seq(Cell) /\ buf \in Seq(Cell) /\ file' \in Seq(Cell)
        /\ Len(file) \in Nat /\ Len(buf) \in Nat
    BY DEF LineInv, IInv, TypeOK
  <1>2. n \in 1..Len(file') /\ Newline(file'[n])
    BY DEF ValidEnds, LineEnds
  <1>3. ASSUME n <= Len(file), \A i \in 1..n : file'[i] = file[i] PROVE FALSE
    <2>1. PICK g \in Seq(Cell) : g = file'
      BY <1>1
    <2>2. n \in 1..Len(g) /\ \A i \in 1..n : g[i] = file[i]
      BY <1>2, <1>3, <2>1
    <2>3. n \in ValidEnds(g) <=> n \in ValidEnds(file)
      BY <1>1, <1>3, <2>2, OldLines
    <2> QED BY <2>1, <2>3
  <1>4. ASSUME NEW p \in Proc, WriteSome(p)
        PROVE  \E i \in LineEnds(buf) : pc[p] = "writing" /\ file'[n].ev = buf[i].ev
    <2>1. PICK k \in 1..Len(buf) :
              /\ Len(file') = Len(file) + k
              /\ \A i \in 1..Len(file) : file'[i] = file[i]
              /\ \A i \in 1..k : file'[Len(file) + i] = buf[i]
      BY <1>1, <1>4, WriteSomeCells
    <2>2. ~(n <= Len(file))
      BY <1>1, <1>2, <1>3, <2>1
    <2>3. n - Len(file) \in 1..k /\ Len(file) + (n - Len(file)) = n
      BY <1>1, <1>2, <2>1, <2>2
    <2>4. file'[n] = buf[n - Len(file)] /\ n - Len(file) \in 1..Len(buf)
      BY <1>1, <2>1, <2>3
    <2>5. n - Len(file) \in LineEnds(buf)
      BY <1>2, <2>4 DEF LineEnds
    <2> QED BY <1>4, <2>4, <2>5 DEF WriteSome
  <1>5. ASSUME NEW m \in 0..Len(file), file' = Prefix(file, m) PROVE FALSE
    <2>1. PICK g \in Seq(Cell) : g = file' /\ Len(g) = m /\ \A i \in 1..m : g[i] = file[i]
      BY <1>1, <1>5, PrefixFacts
    <2>2. n <= Len(file) /\ \A i \in 1..n : file'[i] = file[i]
      BY <1>1, <1>2, <2>1
    <2> QED BY <1>3, <2>2
  <1>6. ASSUME NEW p \in Proc, CutTorn(p) \/ CutRegion(p) PROVE FALSE
    <2>1. \E m \in 0..Len(file) : file' = Prefix(file, m)
      BY <1>1, <1>6 DEF CutTorn, LineEnds, CutRegion, Goto, IInv, BaseInv, BaseAt
    <2> QED BY <1>5, <2>1
  <1>7. ASSUME file' = file PROVE FALSE
    BY <1>7
  <1>8. ASSUME NEW p \in Proc,
               \/ LockNew(p) \/ CreateNew(p) \/ OpenLock(p) \/ CheckHeader(p) \/ NoTorn(p)
               \/ SyncTorn(p) \/ NoRegion(p) \/ WriteSidecar(p) \/ SyncSidecar(p) \/ SyncOk(p)
               \/ Drop(p) \/ BeginRepair(p) \/ AppendBatch(p) \/ WriteFails(p)
        PROVE  FALSE
    BY <1>7, <1>8 DEF LockNew, CreateNew, OpenLock, CheckHeader, NoTorn, SyncTorn, NoRegion,
                  WriteSidecar, SyncSidecar, SyncOk, Drop, BeginRepair, AppendBatch, WriteFails, disk
  <1>9. ASSUME NEW p \in Proc, RollBack(p) \/ RollBackSynced(p) \/ RollBackFails(p) PROVE FALSE
    BY <1>9 DEF RollBack, RollBackSynced, RollBackFails, Goto, NothingBack
  <1>10. ~Writeback
    BY <1>7 DEF Writeback
  <1> QED BY <1>4, <1>6, <1>8, <1>9, <1>10 DEF Step

(* What is not going to be written again never is.                           *)
LEMMA FinalStep ==
    ASSUME LineInv, LineInv', NEW e \in Nat, Final(e), [Next]_vars
    PROVE  Final(e)'
  <1>1. /\ IInv /\ file \in Seq(Cell) /\ buf \in Seq(Cell) /\ pc \in [Proc -> PC]
        /\ Len(buf) \in Nat /\ nextId \in Nat \ {0} /\ nextId' \in Nat \ {0}
    BY DEF LineInv, IInv, TypeOK
  <1>2. ASSUME nextId <= nextId',
               \A p \in Proc : pc'[p] = "writing" => \A i \in LineEnds(buf') : buf'[i].ev # e
        PROVE  Final(e)'
    BY <1>1, <1>2 DEF Final
  <1>3. ASSUME nextId <= nextId', buf' = buf,
               \A p \in Proc : pc'[p] = "writing" => pc[p] = "writing"
        PROVE  Final(e)'
    BY <1>2, <1>3 DEF Final
  <1>4. ASSUME NEW p \in Proc, WriteSome(p) PROVE Final(e)'
    <2>1. PICK k \in 1..Len(buf) :
              /\ buf' \in Seq(Cell)
              /\ Len(buf') = Len(buf) - k
              /\ \A i \in 1..(Len(buf) - k) : buf'[i] = buf[k + i]
      BY <1>1, <1>4, WriteSomeCells
    <2>2. ASSUME NEW i \in LineEnds(buf') PROVE buf'[i].ev # e
      <3>1. i \in 1..(Len(buf) - k) /\ Newline(buf'[i])
        BY <2>1 DEF LineEnds
      <3>2. buf'[i] = buf[k + i] /\ k + i \in 1..Len(buf)
        BY <1>1, <2>1, <3>1
      <3>3. k + i \in LineEnds(buf)
        BY <3>1, <3>2 DEF LineEnds
      <3> QED BY <1>4, <3>2, <3>3 DEF WriteSome, Final
    <2>3. nextId' = nextId
      BY <1>4 DEF WriteSome
    <2> QED BY <1>1, <1>2, <2>2, <2>3
  <1>5. ASSUME NEW p \in Proc, NEW here, NEW what, BeginWrite(p, here, what) PROVE Final(e)'
    <2>1. \A i \in LineEnds(buf') : buf'[i].ev \in Nat /\ buf'[i].ev >= nextId
      BY <1>1, <1>5, BufferLines
    <2>2. nextId <= nextId'
      BY <1>1, <1>5 DEF BeginWrite
    <2>3. e < nextId
      BY DEF Final
    <2> QED BY <1>1, <1>2, <2>1, <2>2, <2>3
  <1>6. ASSUME NEW p \in Proc, (LockNew(p) /\ lock = None) \/ BeginRepair(p) \/ AppendBatch(p)
        PROVE  Final(e)'
    BY <1>5, <1>6 DEF LockNew, BeginRepair, AppendBatch
  <1>7. ASSUME NEW p \in Proc,
               \/ LockNew(p) /\ lock # None
               \/ CreateNew(p) \/ OpenLock(p) \/ CheckHeader(p) \/ NoTorn(p) \/ SyncTorn(p)
               \/ NoRegion(p) \/ SyncSidecar(p) \/ SyncOk(p) \/ Drop(p)
               \/ CutTorn(p) \/ CutRegion(p)
        PROVE  Final(e)'
    <2>1. nextId' = nextId /\ buf' = buf
      BY <1>7 DEF LockNew, CreateNew, OpenLock, CheckHeader, NoTorn, SyncTorn, NoRegion,
                  SyncSidecar, SyncOk, Drop, CutTorn, CutRegion
    <2>2. \A q \in Proc : pc'[q] = "writing" => pc[q] = "writing"
      BY <1>1, <1>7 DEF LockNew, CreateNew, OpenLock, CheckHeader, NoTorn, SyncTorn, NoRegion,
                  SyncSidecar, SyncOk, Drop, CutTorn, CutRegion, Goto, Release
    <2> QED BY <1>1, <1>3, <2>1, <2>2
  <1>8. ASSUME NEW p \in Proc,
               \/ WriteSidecar(p) \/ WriteFails(p) \/ RollBack(p) \/ RollBackSynced(p)
               \/ RollBackFails(p)
        PROVE  Final(e)'
    <2>1. nextId <= nextId' /\ buf' = buf
      BY <1>1, <1>8 DEF WriteSidecar, WriteFails, RollBack, RollBackSynced, RollBackFails
    <2>2. \A q \in Proc : pc'[q] = "writing" => pc[q] = "writing"
      BY <1>1, <1>8 DEF WriteSidecar, WriteFails, RollBack, RollBackSynced, RollBackFails,
                  Goto, Release
    <2> QED BY <1>1, <1>3, <2>1, <2>2
  <1>9. CASE Writeback \/ UNCHANGED vars
    BY <1>9 DEF Writeback, vars, handle, Final
  <1>10. CASE PowerLoss
    BY <1>1, <1>3, <1>10 DEF PowerLoss
  <1> QED BY <1>4, <1>6, <1>7, <1>8, <1>9, <1>10 DEF Next, Step

(* Where an event that is not going to be written again is in the log after  *)
(* a step, it was there before, behind the same events.                      *)
LEMMA NowMoves ==
    ASSUME ~Reorder, ReaderInv, LineInv', StableInv, [Next]_vars,
           NEW e \in Nat, Final(e), NEW i \in 1..Len(Now'), Now'[i] = e
    PROVE  i <= Len(Now) /\ \A j \in 1..i : Now'[j] = Now[j]
  <1>1. /\ LineInv /\ RegionInv /\ NothingBack /\ file \in Seq(Cell)
        /\ \A n \in 1..Len(file) : file[n].ev \in 0..MaxId
    BY ReaderFile DEF ReaderInv
  <1>2. PICK g \in Seq(Cell) : g = file' /\ \A n \in 1..Len(g) : g[n].ev \in 0..MaxId
    BY NextFile
  <1>3. Now = EventsOf(file) /\ Now' = EventsOf(g)
    BY <1>2 DEF Now, EventsAt, EventsOf
  <1>4. Len(EventsOf(file)) \in Nat /\ Len(EventsOf(g)) \in Nat
    <2>1. EventsOf(file) \in Seq(1..MaxId) /\ EventsOf(g) \in Seq(1..MaxId)
      BY <1>1, <1>2, EventsFacts
    <2> QED BY <2>1
  <1>5. CASE Writeback \/ \E p \in Proc : Step(p)
    <2>1. \A n \in ValidEnds(file) : Holds(g, file, n)
      BY <1>1, <1>2, <1>5, StepKeepsValid
    <2>2. /\ Len(EventsOf(file)) <= Len(EventsOf(g))
          /\ \A k \in 1..Len(EventsOf(file)) : EventsOf(g)[k] = EventsOf(file)[k]
          /\ \A k \in 1..Len(EventsOf(g)) : k > Len(EventsOf(file)) =>
                \E n \in ValidEnds(g) \ ValidEnds(file) : EventsOf(g)[k] = g[n].ev
      BY <1>1, <1>2, <2>1, EventsGrow
    <2>3. ASSUME NEW n \in ValidEnds(g), n \notin ValidEnds(file) PROVE g[n].ev # e
      <3>1. \E p \in Proc : \E k \in LineEnds(buf) : pc[p] = "writing" /\ file'[n].ev = buf[k].ev
        BY <1>1, <1>2, <1>5, <2>3, StepBrings
      <3> QED BY <1>2, <3>1 DEF Final
    <2>4. i <= Len(EventsOf(file))
      BY <1>3, <1>4, <2>2, <2>3
    <2> QED BY <1>3, <1>4, <2>2, <2>4
  <1>6. CASE PowerLoss
    <2>1. ASSUME NEW n \in ValidEnds(g) PROVE Holds(file, g, n)
      <3>1. IInv /\ IInv'
        BY <1>1 DEF LineInv
      <3>2. n <= Len(file) /\ \A k \in 1..n : file'[k] = file[k]
        BY <1>2, <1>6, <2>1, <3>1, PowerLossLines
      <3> QED BY <1>2, <3>2 DEF Holds
    <2>2. /\ Len(EventsOf(g)) <= Len(EventsOf(file))
          /\ \A k \in 1..Len(EventsOf(g)) : EventsOf(file)[k] = EventsOf(g)[k]
      BY <1>1, <1>2, <2>1, EventsGrow
    <2> QED BY <1>3, <1>4, <2>2
  <1>7. CASE UNCHANGED vars
    <2>1. g = file
      BY <1>2, <1>7 DEF vars, disk
    <2> QED BY <1>3, <1>4, <2>1
  <1> QED BY <1>5, <1>6, <1>7 DEF Next

-----------------------------------------------------------------------------
(* The forks of the store.                                                   *)

Event == Session \X Nat

(* The lineage of the forks that are there.                                  *)
LEMMA ForksLineage ==
    ASSUME NEW b, b \subseteq Child, NEW f,
           \A c \in b : f[c].session \in {Root} \cup b,
           NEW depth \in Nat, NEW rank \in [Session -> 0..depth],
           \A c \in b : rank[f[c].session] < rank[c]
    PROVE  /\ Lineage(Restrict(f, b)) /\ Ranked(Restrict(f, b), rank, depth)
           /\ DOMAIN Restrict(f, b) = b /\ \A c \in b : Restrict(f, b)[c] = f[c]
           /\ Along(Restrict(f, b), [c \in b |-> <<f[c]>>]) = Way(Restrict(f, b))
  <1>1. DOMAIN Restrict(f, b) = b /\ \A c \in b : Restrict(f, b)[c] = f[c]
    BY DEF Restrict
  <1>2. Root \notin b /\ {Root} \cup b \subseteq Session
    BY StoreAssumption DEF Session
  <1>3. \A s \in {Root} \cup b : rank[s] \in 0..depth
    BY <1>2
  <1>4. Ranked(Restrict(f, b), rank, depth)
    BY <1>1, <1>2, <1>3 DEF Ranked
  <1>5. [c \in b |-> <<f[c]>>] = [c \in DOMAIN Restrict(f, b) |-> <<Restrict(f, b)[c]>>]
    BY <1>1
  <1> QED BY <1>1, <1>4, <1>5 DEF Lineage, Way

(* The same of the store's variables.                                        *)
LEMMA StoreLineage ==
    ASSUME LineageInv
    PROVE  /\ Lineage(Parents) /\ Hops = Way(Parents)
           /\ DOMAIN Parents = born /\ \A c \in born : Parents[c] = ref[c]
           /\ \E depth \in Nat : \E rank : Ranked(Parents, rank, depth)
  <1>1. born \subseteq Child /\ \A c \in born : ref[c].session \in {Root} \cup born
    BY DEF LineageInv, Born
  <1>2. PICK depth \in Nat : \E rank \in [Session -> 0..depth] :
          \A c \in born : rank[ref[c].session] < rank[c]
    BY DEF LineageInv
  <1>3. PICK rank \in [Session -> 0..depth] : \A c \in born : rank[ref[c].session] < rank[c]
    BY <1>2
  <1>4. /\ Lineage(Restrict(ref, born)) /\ Ranked(Restrict(ref, born), rank, depth)
        /\ DOMAIN Restrict(ref, born) = born /\ \A c \in born : Restrict(ref, born)[c] = ref[c]
        /\ Along(Restrict(ref, born), [c \in born |-> <<ref[c]>>]) = Way(Restrict(ref, born))
    BY <1>1, <1>3, ForksLineage
  <1> QED BY <1>4 DEF Parents, Hops

(* A log's events, each with its session.                                    *)
LEMMA EventsType ==
    ASSUME NEW root \in Seq(Nat), own \in [Child -> Nat], NEW s \in Session
    PROVE  /\ Events(root, s) \in Seq(Event)
           /\ Len(Events(root, s)) = IF s = Root THEN Len(root) ELSE own[s] + 1
           /\ \A i \in 1..Len(Events(root, s)) :
                 Events(root, s)[i] = <<s, IF s = Root THEN root[i] ELSE i>>
  <1>1. CASE s = Root
    <2>0. \A i \in 1..Len(root) : <<Root, root[i]>> \in Event
      BY <1>1 DEF Event
    <2>1. Len(root) \in Nat
      OBVIOUS
    <2>2. PICK f \in [1..Len(root) -> Event] : f = [i \in 1..Len(root) |-> <<Root, root[i]>>]
      BY <2>0
    <2>3. PICK e \in Seq(Event) : e = [i \in 1..Len(root) |-> <<Root, root[i]>>] /\ Len(e) = Len(root)
      BY <2>1, <2>2, CellsOfFunction
    <2>4. Events(root, s) = e
      BY <1>1, <2>3 DEF Events
    <2> QED BY <1>1, <2>3, <2>4
  <1>2. CASE s # Root
    <2>1. PICK n \in Nat : n = own[s] + 1
      BY <1>2 DEF Session
    <2>2. PICK f \in [1..n -> Event] : f = [i \in 1..n |-> <<s, i>>]
      <3>1. \A i \in 1..n : <<s, i>> \in Event
        BY DEF Event
      <3>2. [i \in 1..n |-> <<s, i>>] \in [1..n -> Event]
        BY ONLY <3>1
      <3> QED BY ONLY <3>2
    <2>3. PICK e \in Seq(Event) : e = [i \in 1..n |-> <<s, i>>] /\ Len(e) = n
      BY <2>2, CellsOfFunction
    <2>4. Events(root, s) = e
      BY <1>2, <2>1, <2>3 DEF Events
    <2> QED BY <1>2, <2>1, <2>3, <2>4
  <1> QED BY <1>1, <1>2

(* Two logs that agree up to an event behind the header agree in what is     *)
(* shown up to it.                                                           *)
LEMMA TailUpToAgree ==
    ASSUME NEW V, NEW x \in Seq(V), NEW y \in Seq(V), NEW i \in 2..Len(x), i <= Len(y),
           \A j \in 1..i : x[j] = y[j]
    PROVE  UpTo(Tail(x), x[i]) = UpTo(Tail(y), x[i])
  <1>1. Len(x) \in Nat /\ Len(y) \in Nat /\ x # <<>> /\ y # <<>>
    <2>1. Len(x) \in Nat /\ Len(y) \in Nat /\ Len(x) # 0 /\ Len(y) # 0
      OBVIOUS
    <2> QED BY <2>1
  <1>2. PICK t \in Seq(V) : /\ t = Tail(x) /\ Len(t) = Len(x) - 1
                            /\ \A j \in 1..(Len(x) - 1) : t[j] = x[j + 1]
    BY <1>1, TailFacts
  <1>3. PICK u \in Seq(V) : /\ u = Tail(y) /\ Len(u) = Len(y) - 1
                            /\ \A j \in 1..(Len(y) - 1) : u[j] = y[j + 1]
    BY <1>1, TailFacts
  <1>4. /\ i - 1 \in 1..Len(t) /\ i - 1 <= Len(u) /\ t[i - 1] = x[i]
        /\ \A j \in 1..(i - 1) : t[j] = u[j]
    <2>1. i \in Nat /\ i <= Len(x) /\ i <= Len(y)
      BY <1>1
    <2>2. i - 1 \in 1..(Len(x) - 1) /\ i - 1 <= Len(y) - 1 /\ (i - 1) + 1 = i
      BY <1>1, <2>1
    <2>3. i - 1 \in 1..Len(t) /\ i - 1 <= Len(u) /\ t[i - 1] = x[i]
      BY <1>2, <1>3, <2>2
    <2>4. ASSUME NEW j \in 1..(i - 1) PROVE t[j] = u[j]
      <3>1. j \in 1..(Len(x) - 1) /\ j \in 1..(Len(y) - 1) /\ j + 1 \in 1..i
        BY <1>1, <2>1
      <3>2. t[j] = x[j + 1] /\ u[j] = y[j + 1] /\ x[j + 1] = y[j + 1]
        BY <1>2, <1>3, <3>1
      <3> QED BY <3>2
    <2> QED BY <2>3, <2>4
  <1>5. UpTo(t, t[i - 1]) = UpTo(u, t[i - 1])
    BY <1>4, UpToAgree
  <1> QED BY <1>2, <1>3, <1>4, <1>5

(* What the log and the forks may do: no fork point is written again or      *)
(* moved, and what is forked stays forked.                                   *)
Follows ==
    /\ \A e \in Nat : Final(e) =>
          /\ Final(e)'
          /\ \A i \in 1..Len(Now') : Now'[i] = e =>
                i <= Len(Now) /\ \A j \in 1..i : Now'[j] = Now[j]
    /\ \A c \in Child : own[c] <= own'[c]
    /\ born \subseteq born' /\ \A c \in born : ref'[c] = ref[c]

(* Where a fork point is in the log it names, it was there before, behind    *)
(* the same events.                                                          *)
LEMMA ShownStays ==
    ASSUME Follows, Now \in Seq(Nat), Now' \in Seq(Nat), own \in [Child -> Nat],
           own' \in [Child -> Nat], born \subseteq Child,
           NEW s, NEW at, ForkPoint(s, at)
    PROVE  /\ ForkPoint(s, at)'
           /\ Shows(at)' => /\ Shows(at)
                            /\ UpTo(Tail(Events(Now, s)'), at) = UpTo(Tail(Events(Now, s)), at)
  <1>1. s \in Session /\ at[1] = s /\ at[2] \in Nat /\ at = <<s, at[2]>>
    BY DEF ForkPoint, Born, Session
  <1>2. PICK x \in Seq(Event) :
          /\ x = Events(Now, s) /\ Len(x) = (IF s = Root THEN Len(Now) ELSE own[s] + 1)
          /\ \A i \in 1..Len(x) : x[i] = <<s, IF s = Root THEN Now[i] ELSE i>>
    BY <1>1, EventsType
  <1>3. PICK y \in Seq(Event) :
          /\ y = Events(Now, s)' /\ Len(y) = (IF s = Root THEN Len(Now') ELSE own'[s] + 1)
          /\ \A i \in 1..Len(y) : y[i] = <<s, IF s = Root THEN Now'[i] ELSE i>>
    <2>1. PICK root \in Seq(Nat) : root = Now'
      OBVIOUS
    <2>2. CASE s = Root
      <3>1. \A i \in 1..Len(root) : <<Root, root[i]>> \in Event
        BY <1>1, <2>2 DEF Event
      <3>2. [i \in 1..Len(root) |-> <<Root, root[i]>>] \in [1..Len(root) -> Event]
        BY <3>1
      <3>3. Len(root) \in Nat
        OBVIOUS
      <3>4. PICK e \in Seq(Event) : e = [i \in 1..Len(root) |-> <<Root, root[i]>>]
                                    /\ Len(e) = Len(root)
        BY <3>2, <3>3, CellsOfFunction
      <3>5. Events(Now, s)' = e
        BY <2>1, <2>2, <3>4 DEF Events
      <3> QED BY <2>1, <2>2, <3>4, <3>5
    <2>3. CASE s # Root
      <3>1. PICK n \in Nat : n = own'[s] + 1
        BY <1>1, <2>3 DEF Session
      <3>2. [i \in 1..n |-> <<s, i>>] \in [1..n -> Event]
        BY <1>1 DEF Event
      <3>3. PICK e \in Seq(Event) : e = [i \in 1..n |-> <<s, i>>] /\ Len(e) = n
        BY <3>2, CellsOfFunction
      <3>4. Events(Now, s)' = e
        BY <2>3, <3>1, <3>3 DEF Events
      <3> QED BY <2>3, <3>1, <3>3, <3>4
    <2> QED BY <2>2, <2>3
  <1>4. Len(x) \in Nat /\ Len(y) \in Nat
    OBVIOUS
  <1>5. ForkPoint(s, at)'
    <2>1. s \in Born'
      BY DEF ForkPoint, Born, Follows
    <2>2. CASE s = Root
      BY <1>1, <2>1, <2>2 DEF ForkPoint, Follows
    <2>3. CASE s # Root
      <3>1. s \in Child /\ own[s] \in Nat /\ own'[s] \in Nat /\ own[s] <= own'[s]
        BY <1>1, <2>3 DEF Session, Follows
      <3>2. at[2] \in 1..(own'[s] + 1)
        BY <1>1, <2>3, <3>1 DEF ForkPoint
      <3> QED BY <1>1, <2>1, <2>3, <3>2 DEF ForkPoint
    <2> QED BY <2>2, <2>3
  <1>6. ASSUME Shows(at)'
        PROVE  Shows(at) /\ UpTo(Tail(y), at) = UpTo(Tail(x), at)
    <2>1. PICK i \in 2..Len(y) : y[i] = at
      BY <1>1, <1>3, <1>6 DEF Shows
    <2>2. i \in 1..Len(y) /\ i \in Nat
      BY <1>4
    <2>3. i <= Len(x) /\ \A j \in 1..i : y[j] = x[j]
      <3>1. CASE s = Root
        <4>1. Now'[i] = at[2]
          BY <1>1, <1>3, <2>1, <2>2, <3>1
        <4>2. Final(at[2])
          BY <3>1 DEF ForkPoint
        <4>3. i <= Len(Now) /\ \A j \in 1..i : Now'[j] = Now[j]
          BY <1>1, <1>3, <2>2, <3>1, <4>1, <4>2 DEF Follows
        <4>4. i <= Len(x) /\ \A j \in 1..i : j \in 1..Len(x) /\ j \in 1..Len(y)
          BY <1>2, <1>4, <2>2, <3>1, <4>3
        <4> QED BY <1>2, <1>3, <3>1, <4>3, <4>4
      <3>2. CASE s # Root
        <4>1. i = at[2]
          BY <1>1, <1>3, <2>1, <2>2, <3>2
        <4>2. i <= Len(x)
          BY <1>2, <1>4, <3>2, <4>1 DEF ForkPoint
        <4>3. \A j \in 1..i : j \in 1..Len(x) /\ j \in 1..Len(y)
          BY <1>4, <2>2, <4>2
        <4> QED BY <1>2, <1>3, <3>2, <4>2, <4>3
      <3> QED BY <3>1, <3>2
    <2>4. i \in 2..Len(x) /\ x[i] = at
      <3>1. i \in 2..Len(x)
        BY <1>4, <2>1, <2>2, <2>3
      <3>2. y[i] = x[i]
        BY <2>2, <2>3
      <3> QED BY <2>1, <3>1, <3>2
    <2>5. Shows(at)
      BY <1>1, <1>2, <2>4 DEF Shows
    <2>6. UpTo(Tail(y), y[i]) = UpTo(Tail(x), y[i])
      BY <2>1, <2>3, TailUpToAgree
    <2> QED BY <2>1, <2>5, <2>6
  <1> QED BY <1>2, <1>3, <1>5, <1>6

(* The way to a session stays the same when other forks are made.            *)
LEMMA WaySame ==
    ASSUME NEW hop, Lineage(hop), NEW hop2, Lineage(hop2),
           DOMAIN hop \subseteq DOMAIN hop2, \A c \in DOMAIN hop : hop2[c] = hop[c],
           NEW s \in {Root} \cup DOMAIN hop
    PROVE  Way(hop2)[s] = Way(hop)[s]
  <1> DEFINE p == [c \in DOMAIN hop |-> <<hop[c]>>]
             p2 == [c \in DOMAIN hop2 |-> <<hop2[c]>>]
  <1>1. \A c \in DOMAIN hop : p2[c] = p[c]
    OBVIOUS
  <1> HIDE DEF p, p2
  <1>2. Along(hop2, p2)[s] = Along(hop, p)[s]
    BY <1>1, AlongSame
  <1> QED BY <1>2 DEF Way, p, p2

(* What a fork point keeps, it keeps.                                        *)
LEMMA KeepsStays ==
    ASSUME Follows, Now \in Seq(Nat), Now' \in Seq(Nat), LineageInv, LineageInv',
           \A c \in born : ForkPoint(ref[c].session, ref[c].at),
           NEW s, NEW at, NEW line, Keeps(s, at, line)
    PROVE  Keeps(s, at, line)'
  <1>0. PICK hop : hop = Parents
    OBVIOUS
  <1>1. /\ born \subseteq Child /\ own \in [Child -> Nat] /\ own' \in [Child -> Nat]
        /\ ForkPoint(s, at) /\ s \in {Root} \cup born
        /\ \A c \in born : ref[c].session \in {Root} \cup born
    BY DEF LineageInv, Keeps, ForkPoint, Born
  <1>2. /\ Lineage(Parents) /\ Hops = Way(Parents)
        /\ DOMAIN Parents = born /\ \A c \in born : Parents[c] = ref[c]
        /\ \E depth \in Nat : \E rank : Ranked(Parents, rank, depth)
    BY StoreLineage
  <1>3. PICK hop2 : /\ hop2 = Parents' /\ Lineage(hop2) /\ Hops' = Way(hop2)
                    /\ DOMAIN hop2 = born' /\ \A c \in born' : hop2[c] = ref'[c]
    <2>1. PICK b : b = born'
      OBVIOUS
    <2>2. PICK f : f = ref'
      OBVIOUS
    <2>3. b \subseteq Child /\ \A c \in b : f[c].session \in {Root} \cup b
      BY <2>1, <2>2 DEF LineageInv, Born
    <2>4. PICK depth \in Nat : \E rank \in [Session -> 0..depth] :
            \A c \in b : rank[f[c].session] < rank[c]
      BY <2>1, <2>2 DEF LineageInv
    <2>5. PICK rank \in [Session -> 0..depth] : \A c \in b : rank[f[c].session] < rank[c]
      BY <2>4
    <2>6. /\ Lineage(Restrict(f, b))
          /\ DOMAIN Restrict(f, b) = b /\ \A c \in b : Restrict(f, b)[c] = f[c]
          /\ Along(Restrict(f, b), [c \in b |-> <<f[c]>>]) = Way(Restrict(f, b))
      BY <2>3, <2>5, ForksLineage
    <2>7. Parents' = Restrict(f, b) /\ Hops' = Along(Restrict(f, b), [c \in b |-> <<f[c]>>])
      BY <2>1, <2>2 DEF Parents, Hops
    <2> QED BY <2>1, <2>2, <2>6, <2>7
  <1>4. PICK part : /\ Inherited(Now) = Along(Parents, part)
                    /\ \A c \in born : part[c] = UpTo(Tail(Events(Now, ref[c].session)), ref[c].at)
    <2> DEFINE p == [c \in born |-> Shown(Now, ref[c])]
    <2>1. \A c \in born : p[c] = UpTo(Tail(Events(Now, ref[c].session)), ref[c].at)
      BY DEF Shown
    <2> QED BY <2>1 DEF Inherited
  <1>5. PICK part2 : /\ Inherited(Now)' = Along(hop2, part2)
                     /\ \A c \in born' : part2[c] =
                           UpTo(Tail(Events(Now, ref[c].session)'), ref'[c].at)
    <2> DEFINE p == [c \in born |-> Shown(Now, ref[c])]
    <2>1. \A c \in born' : p'[c] = UpTo(Tail(Events(Now, ref[c].session)'), ref'[c].at)
      BY DEF Shown
    <2>2. Inherited(Now)' = Along(hop2, p')
      BY <1>3 DEF Inherited
    <2> QED BY <2>1, <2>2
  <1>6. born \subseteq born' /\ \A c \in born : hop2[c] = Parents[c] /\ ref'[c] = ref[c]
    BY <1>2, <1>3 DEF Follows
  <1>7. /\ Lineage(hop) /\ Lineage(hop2) /\ DOMAIN hop \subseteq DOMAIN hop2
        /\ \A c \in DOMAIN hop : hop2[c] = hop[c]
        /\ s \in {Root} \cup DOMAIN hop
    BY <1>0, <1>1, <1>2, <1>3, <1>6
  <1>8. Hops'[s] = Hops[s]
    <2>1. Way(hop2)[s] = Way(hop)[s]
      BY ONLY <1>7, WaySame
    <2> QED BY <1>0, <1>2, <1>3, <2>1
  <1>9. ForkPoint(s, at)'
    BY <1>1, ShownStays
  <1>10. ASSUME \A h \in Range(Hops'[s]) : Shows(h.at)', Shows(at)'
        PROVE  /\ Inherited(Now)'[s] \o Shown(Now, [session |-> s, at |-> at])' = line
    <2>1. ASSUME NEW c \in born, Parents[c] \in Range(Way(Parents)[s])
          PROVE  Shows(ref[c].at) /\ part2[c] = part[c]
      <3>1. Shows(ref[c].at)'
        BY <1>2, <1>6, <1>8, <1>10, <2>1
      <3>2. ForkPoint(ref[c].session, ref[c].at)
        OBVIOUS
      <3>3. Shows(ref[c].at) /\ UpTo(Tail(Events(Now, ref[c].session)'), ref[c].at)
                                  = UpTo(Tail(Events(Now, ref[c].session)), ref[c].at)
        <4>1. PICK t : t = ref[c].session
          OBVIOUS
        <4>2. PICK a : a = ref[c].at
          OBVIOUS
        <4>3. ForkPoint(t, a) /\ Shows(a)'
          BY <1>6, <3>1, <3>2, <4>1, <4>2
        <4>4. Shows(a) /\ UpTo(Tail(Events(Now, t)'), a) = UpTo(Tail(Events(Now, t)), a)
          BY <1>1, <4>3, ShownStays
        <4>5. ref'[c] = ref[c]
          BY <1>6
        <4> QED BY <4>1, <4>2, <4>4, <4>5
      <3> QED BY <1>4, <1>5, <1>6, <3>3
    <2>2. \A h \in Range(Hops[s]) : Shows(h.at)
      <3>1. ASSUME NEW h \in Range(Way(Parents)[s]) PROVE Shows(h.at)
        <4>1. \E c \in DOMAIN Parents : h = Parents[c]
          BY <1>1, <1>2, WayRanked
        <4> QED BY <1>2, <2>1, <4>1
      <3> QED BY <1>2, <3>1
    <2>3. Along(hop2, part2)[s] = Along(hop, part)[s]
      <3>1. \A c \in DOMAIN hop : hop[c] \in Range(Way(hop)[s]) => part2[c] = part[c]
        BY <1>0, <1>2, <2>1
      <3> QED BY ONLY <1>7, <3>1, AlongSame
    <2>4. Shows(at) /\ UpTo(Tail(Events(Now, s)'), at) = UpTo(Tail(Events(Now, s)), at)
      BY <1>1, <1>10, ShownStays
    <2>5. Inherited(Now)[s] \o Shown(Now, [session |-> s, at |-> at]) = line
      BY <2>2, <2>4 DEF Keeps
    <2>6. /\ Shown(Now, [session |-> s, at |-> at]) = UpTo(Tail(Events(Now, s)), at)
          /\ Shown(Now, [session |-> s, at |-> at])' = UpTo(Tail(Events(Now, s)'), at)
      BY DEF Shown
    <2> QED BY <1>0, <1>4, <1>5, <2>3, <2>4, <2>5, <2>6
  <1> QED BY <1>9, <1>10 DEF Keeps

(* A read that answers Ok hands out the events of all complete lines.        *)
LEMMA ReadNow ==
    ASSUME ReaderInv, NEW r \in Reader, Read(r), answer'[r] = "ok"
    PROVE  cached'[r] = Now /\ Now # <<>>
  <1>1. /\ file \in Seq(Cell) /\ \A n \in 1..Len(file) : file[n].ev \in 0..MaxId
        /\ r \in DOMAIN cached /\ r \in DOMAIN answer
    BY ReaderFile DEF ReaderInv, ReaderTypeOK
  <1>2. PICK d \in Nat : \E events \in Seq(1..MaxId) :
              /\ cached' = [cached EXCEPT ![r] = events]
              /\ d <= Len(file)
              /\ events = Selection(EventAt(file), 1..MaxId)[d]
              /\ answer'[r] = "ok" => \A m \in LineEnds(file) : m <= d
    BY ReadStep
  <1>3. cached'[r] = Selection(EventAt(file), 1..MaxId)[d]
    BY <1>1, <1>2
  <1>4. {n \in ValidEnds(file) : n <= d} = ValidEnds(file)
    BY <1>2 DEF ValidEnds
  <1>5. Select(Marks(file, {n \in ValidEnds(file) : n <= d}), 1..MaxId)
          = Selection(EventAt(file), 1..MaxId)[d]
    BY <1>1, <1>2, MarksUpTo, ZenonT(180)
  <1>6. cached'[r] = Now
    BY <1>3, <1>4, <1>5, Zenon DEF Now, EventsAt
  <1>7. cached'[r] # <<>>
    BY <1>1 DEF Read
  <1> QED BY <1>6, <1>7

(* The events in the log are different ones, and are not written again.      *)
LEMMA NowFacts ==
    ASSUME LineInv, UniqueInv
    PROVE  /\ Now \in Seq(Nat)
           /\ \A k \in 1..Len(Now) : Now[k] \in Nat /\ Final(Now[k])
           /\ \A k, l \in 1..Len(Now) : Now[k] = Now[l] => k = l
           /\ \A n \in ValidEnds(file) : \E k \in 1..Len(Now) : Now[k] = file[n].ev
  <1>1. /\ file \in Seq(Cell) /\ \A n \in 1..Len(file) : file[n].ev \in 0..MaxId
        /\ \A n \in 1..Len(file) : file[n].ev < nextId
    BY ReaderFile DEF LineInv, IdInv, IdsBelow
  <1>2. Now = EventsOf(file)
    BY DEF Now, EventsAt, EventsOf
  <1>3. PICK e \in Seq(1..MaxId) : e = Now
    BY <1>1, <1>2, EventsFacts
  <1>4. /\ \A k \in 1..Len(e) : \E n \in ValidEnds(file) : file[n].ev = e[k]
        /\ \A n \in ValidEnds(file) : \E k \in 1..Len(e) : e[k] = file[n].ev
        /\ \A k, l \in 1..Len(e) : e[k] = e[l] => k = l
    <2>1. \A m, n \in ValidEnds(file) : file[m].ev = file[n].ev => m = n
      BY DEF UniqueInv
    <2>2. \A k \in 1..Len(EventsOf(file)) :
             \E n \in ValidEnds(file) : file[n].ev = EventsOf(file)[k]
      BY <1>1, EventsFacts
    <2>3. \A n \in ValidEnds(file) :
             \E k \in 1..Len(EventsOf(file)) : EventsOf(file)[k] = file[n].ev
      BY <1>1, EventsFacts
    <2>4. \A k, l \in 1..Len(EventsOf(file)) :
             EventsOf(file)[k] = EventsOf(file)[l] => k = l
      BY <1>1, <2>1, EventsFacts
    <2>5. e = EventsOf(file)
      BY <1>2, <1>3
    <2> QED BY <2>2, <2>3, <2>4, <2>5
  <1>5. ASSUME NEW k \in 1..Len(e) PROVE Final(e[k])
    <2>1. PICK n \in ValidEnds(file) : file[n].ev = e[k]
      BY <1>4
    <2>2. n \in 1..Len(file)
      BY DEF ValidEnds, LineEnds
    <2> QED BY <1>1, <2>1, <2>2 DEF Final, UniqueInv
  <1>6. e \in Seq(Nat) /\ \A k \in 1..Len(e) : e[k] \in Nat
    BY ConstantsAssumption
  <1> QED BY <1>3, <1>4, <1>5, <1>6

(* What a log shows behind its header.                                       *)
LEMMA TailEvents ==
    ASSUME Now \in Seq(Nat), Now # <<>>, own \in [Child -> Nat], NEW s \in Session
    PROVE  /\ Events(Now, s) \in Seq(Event) /\ Events(Now, s) # <<>>
           /\ Tail(Events(Now, s)) \in Seq(Event)
           /\ \A x \in Range(Tail(Events(Now, s))) :
                 /\ x[1] = s
                 /\ \E i \in 2..Len(Events(Now, s)) : Events(Now, s)[i] = x
           /\ \A i \in 2..Len(Events(Now, s)) :
                 Events(Now, s)[i] \in Range(Tail(Events(Now, s)))
  <1>1. PICK e \in Seq(Event) :
          /\ e = Events(Now, s) /\ Len(e) = (IF s = Root THEN Len(Now) ELSE own[s] + 1)
          /\ \A i \in 1..Len(e) : e[i] = <<s, IF s = Root THEN Now[i] ELSE i>>
    BY EventsType
  <1>2. Len(Now) # 0
    BY EmptySeq
  <1>3. Len(e) # 0
    BY <1>1, <1>2 DEF Session
  <1>4. e # <<>>
    BY <1>3
  <1>5. PICK t \in Seq(Event) : /\ t = Tail(e) /\ Len(t) = Len(e) - 1
                                /\ \A j \in 1..(Len(e) - 1) : t[j] = e[j + 1]
    BY <1>4, TailFacts
  <1>6. Len(e) \in Nat /\ DOMAIN t = 1..Len(t)
    OBVIOUS
  <1>7. ASSUME NEW x \in Range(t) PROVE x[1] = s /\ \E i \in 2..Len(e) : e[i] = x
    <2>1. PICK j \in 1..Len(t) : t[j] = x
      BY <1>6 DEF Range
    <2>2. j + 1 \in 2..Len(e) /\ e[j + 1] = x
      BY <1>5, <1>6, <2>1
    <2>3. j + 1 \in 1..Len(e)
      BY <2>2
    <2>4. x[1] = s
      BY <1>1, <2>2, <2>3
    <2> QED BY <2>2, <2>4
  <1>8. ASSUME NEW i \in 2..Len(e) PROVE e[i] \in Range(t)
    <2>1. i - 1 \in 1..Len(t) /\ t[i - 1] = e[i]
      BY <1>5, <1>6
    <2> QED BY <1>6, <2>1 DEF Range
  <1> QED BY <1>1, <1>4, <1>5, <1>7, <1>8

(* What is up to an event is a part.                                         *)
LEMMA ShownPart ==
    ASSUME Now \in Seq(Nat), Now # <<>>, own \in [Child -> Nat], NEW h, h.session \in Session
    PROVE  /\ Shown(Now, h) \in Seq(Event)
           /\ Range(Shown(Now, h)) \subseteq Range(Tail(Events(Now, h.session)))
  <1>1. PICK t \in Seq(Event) : t = Tail(Events(Now, h.session))
    BY TailEvents
  <1>2. PICK u \in Seq(Event) : /\ u = UpTo(t, h.at) /\ Len(u) <= Len(t)
                                /\ \A j \in 1..Len(u) : u[j] = t[j]
    BY UpToFacts
  <1>3. DOMAIN t = 1..Len(t) /\ DOMAIN u = 1..Len(u) /\ Len(t) \in Nat /\ Len(u) \in Nat
    OBVIOUS
  <1>4. Range(u) \subseteq Range(t)
    BY <1>2, <1>3 DEF Range
  <1>5. u = Shown(Now, h)
    BY <1>1, <1>2 DEF Shown
  <1> QED BY <1>1, <1>4, <1>5

(* What is inherited: it comes along the way from the root, part by part,    *)
(* and none of it is the session's own.                                      *)
LEMMA Inherits ==
    ASSUME LineageInv, Now \in Seq(Nat), Now # <<>>, NEW s \in Born
    PROVE  /\ Inherited(Now)[s] \in Seq(Event)
           /\ s \in born => Inherited(Now)[s] = Inherited(Now)[ref[s].session] \o Shown(Now, ref[s])
           /\ \A x \in Range(Inherited(Now)[s]) :
                 x[1] # s /\ \E h \in Range(Hops[s]) : x \in Range(Shown(Now, h))
           /\ \A h \in Range(Hops[s]) :
                 /\ h.session \in Born /\ \E c \in born : h = ref[c]
                 /\ Starts(Event, Inherited(Now)[s], Inherited(Now)[h.session], Shown(Now, h))
           /\ s \in born => /\ ref[s] \in Range(Hops[s])
                            /\ Range(Hops[ref[s].session]) \subseteq Range(Hops[s])
  <1>1. /\ Lineage(Parents) /\ Hops = Way(Parents)
        /\ DOMAIN Parents = born /\ \A c \in born : Parents[c] = ref[c]
        /\ \E depth \in Nat : \E rank : Ranked(Parents, rank, depth)
    BY StoreLineage
  <1>2. /\ born \subseteq Child /\ own \in [Child -> Nat]
        /\ \A c \in born : ref[c].session \in Session
        /\ s \in {Root} \cup DOMAIN Parents
    BY <1>1 DEF LineageInv, Born, Session
  <1> DEFINE part == [c \in born |-> Shown(Now, ref[c])]
  <1>3. \A c \in DOMAIN Parents : part[c] \in Seq(Event)
    BY <1>1, <1>2, ShownPart
  <1>4. Inherited(Now) = Along(Parents, part)
    BY DEF Inherited
  <1>5. \A c \in DOMAIN Parents : part[c] = Shown(Now, ref[c]) /\ part[c] = Shown(Now, Parents[c])
    BY <1>1
  <1> HIDE DEF part
  <1>6. Inherited(Now)[s] \in Seq(Event)
    BY <1>1, <1>2, <1>3, <1>4, AlongType
  <1>7. s \in born => Inherited(Now)[s] = Inherited(Now)[ref[s].session] \o Shown(Now, ref[s])
    <2> SUFFICES ASSUME s \in born
                 PROVE  Inherited(Now)[s] = Inherited(Now)[ref[s].session] \o Shown(Now, ref[s])
      OBVIOUS
    <2>1. s \in DOMAIN Parents /\ Parents[s] = ref[s] /\ part[s] = Shown(Now, ref[s])
      BY <1>1, <1>5
    <2>2. Along(Parents, part)[s] = Along(Parents, part)[Parents[s].session] \o part[s]
      BY <1>1, <2>1, AlongSteps, ZenonT(180)
    <2> QED BY <1>4, <2>1, <2>2, ZenonT(180)
  <1>8. ASSUME NEW x \in Range(Inherited(Now)[s])
        PROVE  x[1] # s /\ \E h \in Range(Hops[s]) : x \in Range(Shown(Now, h))
    <2>1. PICK d \in DOMAIN Parents : Parents[d] \in Range(Way(Parents)[s]) /\ x \in Range(part[d])
      BY <1>1, <1>2, <1>3, <1>4, <1>8, AlongParts
    <2>2. x \in Range(Shown(Now, ref[d])) /\ ref[d] \in Range(Hops[s])
      BY <1>1, <1>5, <2>1
    <2>3. PICK depth \in Nat : \E rank : Ranked(Parents, rank, depth)
      BY <1>1
    <2>4. PICK rank : Ranked(Parents, rank, depth)
      BY <2>3
    <2>5. rank[Parents[d].session] < rank[s]
      BY <1>1, <1>2, <2>1, <2>4, WayRanked
    <2>6. rank[s] \in Nat
      BY <1>2, <2>4 DEF Ranked
    <2>7. ref[d].session # s
      BY <1>1, <2>5, <2>6
    <2>8. ref[d].session \in Session
      BY <1>1, <1>2
    <2>9. x \in Range(Tail(Events(Now, ref[d].session)))
      BY <1>2, <2>2, <2>8, ShownPart
    <2>10. x[1] = ref[d].session
      BY <1>2, <2>8, <2>9, TailEvents
    <2> QED BY <2>2, <2>7, <2>10
  <1>9. ASSUME NEW h \in Range(Hops[s])
        PROVE  /\ h.session \in Born /\ \E c \in born : h = ref[c]
               /\ Starts(Event, Inherited(Now)[s], Inherited(Now)[h.session], Shown(Now, h))
    <2>1. PICK d \in DOMAIN Parents :
              /\ Parents[d] = h
              /\ Starts(Event, Along(Parents, part)[s], Along(Parents, part)[h.session], part[d])
      <3>1. Lineage(Parents) /\ h \in Range(Way(Parents)[s])
        BY <1>1, <1>9, Zenon
      <3>2. s \in {Root} \cup DOMAIN Parents
        BY <1>2
      <3> QED BY <1>3, <3>1, <3>2, AlongPrefix
    <2>2. d \in born /\ h = ref[d] /\ part[d] = Shown(Now, h)
      BY <1>1, <1>5, <2>1
    <2>3. h.session \in Born
      BY <2>2 DEF LineageInv
    <2> QED BY <1>4, <2>1, <2>2, <2>3
  <1>10. s \in born => /\ ref[s] \in Range(Hops[s])
                       /\ Range(Hops[ref[s].session]) \subseteq Range(Hops[s])
    <2> SUFFICES ASSUME s \in born
                 PROVE  /\ ref[s] \in Range(Hops[s])
                        /\ Range(Hops[ref[s].session]) \subseteq Range(Hops[s])
      OBVIOUS
    <2>1. s \in DOMAIN Parents /\ Parents[s] = ref[s]
      BY <1>1
    <2>2. Range(Way(Parents)[s]) = Range(Way(Parents)[Parents[s].session]) \cup {Parents[s]}
      BY <1>1, <2>1, WaySteps, ZenonT(180)
    <2>3. Range(Hops[s]) = Range(Hops[ref[s].session]) \cup {ref[s]}
      BY <1>1, <2>1, <2>2, ZenonT(180)
    <2> QED BY <2>3
  <1> QED BY <1>6, <1>7, <1>8, <1>9, <1>10

(* At the tip, all of a log is shown.                                        *)
LEMMA ShownTip ==
    ASSUME Now \in Seq(Nat), Now # <<>>, own \in [Child -> Nat], NEW s \in Session,
           \A k, l \in 1..Len(Now) : Now[k] = Now[l] => k = l,
           NEW at, at = Events(Now, s)[Len(Events(Now, s))], at \in Range(Tail(Events(Now, s)))
    PROVE  Shown(Now, [session |-> s, at |-> at]) = Tail(Events(Now, s))
  <1>1. PICK e \in Seq(Event) :
          /\ e = Events(Now, s) /\ Len(e) = (IF s = Root THEN Len(Now) ELSE own[s] + 1)
          /\ \A i \in 1..Len(e) : e[i] = <<s, IF s = Root THEN Now[i] ELSE i>>
    BY EventsType
  <1>2. \A i, j \in 1..Len(e) : e[i] = e[j] => i = j
    BY <1>1
  <1>3. e # <<>> /\ Len(e) \in Nat
    BY <1>1, TailEvents
  <1>4. PICK t \in Seq(Event) : /\ t = Tail(e) /\ Len(t) = Len(e) - 1
                                /\ \A j \in 1..(Len(e) - 1) : t[j] = e[j + 1]
    BY <1>3, TailFacts
  <1>5. at = e[Len(e)] /\ at \in Range(t)
    BY <1>1, <1>4
  <1>6. FirstAt(t, at) \in 1..Len(t) /\ t[FirstAt(t, at)] = at
    BY <1>5, FirstAtFacts
  <1>7. FirstAt(t, at) = Len(t)
    <2>1. PICK j \in 1..Len(t) : j = FirstAt(t, at)
      BY <1>6
    <2>2. j + 1 \in 1..Len(e) /\ e[j + 1] = e[Len(e)] /\ Len(e) \in 1..Len(e)
      BY <1>3, <1>4, <1>5, <1>6, <2>1
    <2>3. j + 1 = Len(e)
      BY <1>2, <2>2
    <2> QED BY <1>3, <1>4, <2>1, <2>3
  <1>8. PICK u \in Seq(Event) : /\ u = UpTo(t, at) /\ \A j \in 1..Len(u) : u[j] = t[j]
                                /\ Len(u) = FirstAt(t, at)
    BY <1>5, UpToFacts
  <1>9. u = t
    BY <1>7, <1>8, SameCells
  <1> QED BY <1>1, <1>4, <1>8, <1>9 DEF Shown

(* Every event in a log can be forked at.                                    *)
LEMMA EventForkPoint ==
    ASSUME LineInv, UniqueInv, LineageInv, NEW s \in Born, NEW i \in 1..Len(Events(Now, s))
    PROVE  ForkPoint(s, Events(Now, s)[i]) /\ Events(Now, s)[i][1] = s
  <1>1. /\ Now \in Seq(Nat) /\ own \in [Child -> Nat] /\ s \in Session
        /\ \A k \in 1..Len(Now) : Now[k] \in Nat /\ Final(Now[k])
    BY NowFacts DEF LineageInv, Born, Session
  <1>2. PICK e \in Seq(Event) :
          /\ e = Events(Now, s) /\ Len(e) = (IF s = Root THEN Len(Now) ELSE own[s] + 1)
          /\ \A k \in 1..Len(e) : e[k] = <<s, IF s = Root THEN Now[k] ELSE k>>
    BY <1>1, EventsType
  <1>3. CASE s = Root
    <2>1. e[i] = <<s, Now[i]>> /\ Now[i] \in Nat /\ Final(Now[i])
      BY <1>1, <1>2, <1>3
    <2>2. ForkPoint(s, e[i]) /\ e[i][1] = s
      BY <1>3, <2>1 DEF ForkPoint
    <2> QED BY <1>2, <2>2
  <1>4. CASE s # Root
    <2>1. e[i] = <<s, i>> /\ i \in Nat /\ i \in 1..(own[s] + 1)
      BY <1>2, <1>4
    <2>2. ForkPoint(s, e[i]) /\ e[i][1] = s
      BY <1>4, <2>1 DEF ForkPoint
    <2> QED BY <1>2, <2>2
  <1> QED BY <1>3, <1>4

(* What a fork of s at one of its own events starts with.                    *)
LEMMA ShownOwn ==
    ASSUME LineageInv, Now \in Seq(Nat), Now # <<>>, NEW s \in Born,
           NEW at \in Range(Tail(Events(Now, s)))
    PROVE  Inherited(Now)[s] \o Shown(Now, [session |-> s, at |-> at]) = UpTo(History(Now, s), at)
  <1>1. own \in [Child -> Nat] /\ s \in Session
    BY DEF LineageInv, Born, Session
  <1>2. at[1] = s
    BY <1>1, TailEvents
  <1>3. PICK x \in Seq(Event) : x = Inherited(Now)[s] /\ at \notin Range(x)
    BY <1>2, Inherits
  <1>4. PICK y \in Seq(Event) : y = Tail(Events(Now, s)) /\ at \in Range(y)
    BY <1>1, TailEvents
  <1>5. PICK z \in Seq(Event) : (x \o y) \o z = x \o y
    <2>1. x \o y \in Seq(Event) /\ <<>> \in Seq(Event)
      BY <1>3, <1>4
    <2>2. (x \o y) \o <<>> = x \o y
      BY <2>1, ConcatEmptySeq
    <2> QED BY <2>1, <2>2
  <1>6. UpTo((x \o y) \o z, at) = x \o UpTo(y, at)
    <2>1. /\ x \in Seq(Event) /\ y \in Seq(Event) /\ z \in Seq(Event)
          /\ at \notin Range(x) /\ at \in Range(y)
      BY <1>3, <1>4, <1>5
    <2> QED BY ONLY <2>1, UpToConcat
  <1>7. UpTo(x \o y, at) = x \o UpTo(y, at)
    BY <1>5, <1>6, Zenon
  <1>8. History(Now, s) = x \o y
    BY <1>3, <1>4, Zenon DEF History
  <1>9. Shown(Now, [session |-> s, at |-> at]) = UpTo(y, at)
    BY <1>4 DEF Shown
  <1> QED BY <1>3, <1>7, <1>8, <1>9, Zenon

(* What a fork of s at an event of an ancestor starts with.                  *)
LEMMA ShownInherited ==
    ASSUME LineageInv, Now \in Seq(Nat), Now # <<>>, NEW s \in Born, NEW h \in Range(Hops[s]),
           NEW at \in Range(Shown(Now, h))
    PROVE  Inherited(Now)[h.session] \o Shown(Now, [session |-> h.session, at |-> at])
             = UpTo(History(Now, s), at)
  <1>1. /\ own \in [Child -> Nat] /\ s \in Session
        /\ h.session \in Born /\ h.session \in Session
    BY Inherits DEF LineageInv, Born, Session
  <1>2. at \in Range(Tail(Events(Now, h.session)))
    BY <1>1, ShownPart
  <1>3. at[1] = h.session
    BY <1>1, <1>2, TailEvents
  <1>4. PICK x \in Seq(Event) : x = Inherited(Now)[h.session] /\ at \notin Range(x)
    BY <1>1, <1>3, Inherits
  <1>5. PICK y \in Seq(Event) : y = Shown(Now, h) /\ at \in Range(y)
    BY <1>1, ShownPart
  <1>6. Starts(Event, Inherited(Now)[s], x, y)
    BY <1>4, <1>5, Inherits
  <1>7. PICK z \in Seq(Event) : Inherited(Now)[s] = (x \o y) \o z
    BY <1>6 DEF Starts
  <1>8. PICK t \in Seq(Event) : t = Tail(Events(Now, s))
    BY <1>1, TailEvents
  <1>9. PICK w \in Seq(Event) : w = x \o y
    <2>1. x \o y \in Seq(Event)
      BY <1>4, <1>5
    <2> QED BY <2>1, Zenon
  <1>10. z \o t \in Seq(Event) /\ (w \o z) \o t = w \o (z \o t)
    <2>1. z \o t \in Seq(Event)
      BY <1>7, <1>8
    <2>2. (w \o z) \o t = w \o (z \o t)
      <3>1. w \in Seq(Event) /\ z \in Seq(Event) /\ t \in Seq(Event)
        BY <1>7, <1>8, <1>9
      <3> QED BY ONLY <3>1, ConcatAssociative, Z3T(60)
    <2> QED BY <2>1, <2>2
  <1>11. PICK v \in Seq(Event) : v = z \o t
    BY <1>10
  <1>12. History(Now, s) = (x \o y) \o v
    BY <1>7, <1>8, <1>9, <1>10, <1>11, Zenon DEF History
  <1>13. UpTo((x \o y) \o v, at) = x \o UpTo(y, at)
    <2>1. /\ x \in Seq(Event) /\ y \in Seq(Event) /\ v \in Seq(Event)
          /\ at \notin Range(x) /\ at \in Range(y)
      BY <1>4, <1>5, <1>11
    <2> QED BY ONLY <2>1, UpToConcat
  <1>14. PICK l \in Seq(Event) : l = Tail(Events(Now, h.session))
    BY <1>1, TailEvents
  <1>15. y = UpTo(l, h.at)
    BY <1>5, <1>14 DEF Shown
  <1>16. UpTo(y, at) = UpTo(l, at)
    BY <1>5, <1>15, UpToUpTo
  <1>17. Shown(Now, [session |-> h.session, at |-> at]) = UpTo(l, at)
    BY <1>14 DEF Shown
  <1> QED BY <1>4, <1>12, <1>13, <1>16, <1>17, Zenon

(* What a reader finds up to a hop, header skipped, is what is shown of it.  *)
LEMMA TailShown ==
    ASSUME Now \in Seq(Nat), Now # <<>>, own \in [Child -> Nat], NEW h, h.session \in Session,
           NEW at
    PROVE  /\ at \in Range(Tail(UpTo(Events(Now, h.session), h.at))) => at \in Range(Shown(Now, h))
           /\ h.at # Events(Now, h.session)[1] =>
                 Tail(UpTo(Events(Now, h.session), h.at)) = Shown(Now, h)
  <1>1. PICK e \in Seq(Event) : e = Events(Now, h.session) /\ e # <<>>
    BY TailEvents
  <1>2. Tail(UpTo(e, h.at)) = IF h.at = e[1] THEN <<>> ELSE UpTo(Tail(e), h.at)
    BY <1>1, TailUpTo
  <1>3. Shown(Now, h) = UpTo(Tail(e), h.at)
    BY <1>1 DEF Shown
  <1>4. DOMAIN <<>> = {}
    OBVIOUS
  <1>5. at \notin Range(<<>>)
    BY <1>4 DEF Range
  <1> QED BY <1>1, <1>2, <1>3, <1>5

(* A fork that is being made of s.                                           *)
ForkMade(f, c, s) ==
    /\ f.child = c
    /\ \/ /\ f.session = s /\ f.at = Events(Now, s)[Len(Events(Now, s))]
          /\ f.seen = History(Now, s)
       \/ \E at : \E owner \in Owner(Now, s, at) :
             f.session = owner /\ f.at = at /\ f.seen = UpTo(History(Now, s), at)

(* What a fork takes along is what its parent shows up to the fork point.    *)
LEMMA ForkKeeps ==
    ASSUME ReaderInv, UniqueInv, LineageInv, NEW r \in Reader, NEW c, NEW s, Fork(r, c, s)
    PROVE  /\ forking' = [forking EXCEPT ![r] = forking'[r]]
           /\ forking'[r].child \in Child
           /\ Keeps(forking'[r].session, forking'[r].at, forking'[r].seen)
  <1>1. /\ LineInv /\ cached'[r] = Now /\ Now # <<>> /\ Now \in Seq(Nat)
        /\ \A k, l \in 1..Len(Now) : Now[k] = Now[l] => k = l
        /\ c \in Child /\ s \in Born /\ s \in Session /\ own \in [Child -> Nat] /\ own' = own
    BY ReadNow, NowFacts DEF Fork, ReaderInv, LineageInv, Born, Session, forks
  <1>2. PICK f : /\ f = forking'[r] /\ forking' = [forking EXCEPT ![r] = f]
                 /\ ForkMade(f, c, s)
    <2>1. r \in DOMAIN forking
      BY DEF LineageInv
    <2>2. CASE ForkTip(r, c, s)
      <3>1. PICK f : f = [child |-> c, session |-> s, at |-> Events(Now, s)[Len(Events(Now, s))],
                          seen |-> History(Now, s)]
        OBVIOUS
      <3>2. forking' = [forking EXCEPT ![r] = f]
        BY <1>1, <2>2, <3>1 DEF ForkTip
      <3>3. forking'[r] = f
        BY <2>1, <3>2
      <3>4. ForkMade(f, c, s)
        BY <3>1 DEF ForkMade
      <3> QED BY <3>2, <3>3, <3>4
    <2>3. ASSUME NEW at \in Range(History(cached'[r], s)), ForkAt(r, c, s, at)
          PROVE  \E f : /\ f = forking'[r] /\ forking' = [forking EXCEPT ![r] = f]
                        /\ ForkMade(f, c, s)
      <3>1. PICK owner \in Owner(Now, s, at) : forking' = [forking EXCEPT ![r] =
              [child |-> c, session |-> owner, at |-> at, seen |-> UpTo(History(Now, s), at)]]
        BY <1>1, <2>3 DEF ForkAt
      <3>2. PICK f : f = [child |-> c, session |-> owner, at |-> at,
                          seen |-> UpTo(History(Now, s), at)]
        OBVIOUS
      <3>3. forking' = [forking EXCEPT ![r] = f]
        BY <3>1, <3>2
      <3>4. forking'[r] = f
        BY <2>1, <3>3
      <3>5. ForkMade(f, c, s)
        BY <3>2 DEF ForkMade
      <3> QED BY <3>3, <3>4, <3>5
    <2> QED BY <2>2, <2>3 DEF Fork
  <1>3. ASSUME f.session = s, f.at = Events(Now, s)[Len(Events(Now, s))],
               f.seen = History(Now, s)
        PROVE  Keeps(f.session, f.at, f.seen)
    <2>1. PICK e \in Seq(Event) : e = Events(Now, s) /\ e # <<>>
      BY <1>1, TailEvents
    <2>2. Len(e) \in 1..Len(e)
      <3>1. Len(e) \in Nat /\ Len(e) # 0
        BY <2>1, EmptySeq
      <3> QED BY <3>1
    <2>3. PICK at : at = e[Len(e)]
      OBVIOUS
    <2>4. ForkPoint(s, at) /\ at[1] = s
      BY <1>1, <2>1, <2>2, <2>3, EventForkPoint
    <2>5. ASSUME Shows(at)
          PROVE  Inherited(Now)[s] \o Shown(Now, [session |-> s, at |-> at]) = History(Now, s)
      <3>1. at \in Range(Tail(Events(Now, s)))
        BY <1>1, <2>4, <2>5, TailEvents DEF Shows
      <3>2. Shown(Now, [session |-> s, at |-> at]) = Tail(Events(Now, s))
        BY <1>1, <2>1, <2>3, <3>1, ShownTip
      <3> QED BY <3>2, Zenon DEF History
    <2>6. Keeps(s, at, History(Now, s))
      BY <2>4, <2>5 DEF Keeps
    <2> QED BY <1>3, <2>1, <2>3, <2>6
  <1>4. ASSUME NEW at, NEW owner \in Owner(Now, s, at), f.session = owner, f.at = at,
               f.seen = UpTo(History(Now, s), at)
        PROVE  Keeps(f.session, f.at, f.seen)
    <2>1. /\ owner \in Born /\ at \in Range(Tail(Events(Now, owner)))
          /\ Inherited(Now)[owner] \o Shown(Now, [session |-> owner, at |-> at])
               = UpTo(History(Now, s), at)
      <3>1. CASE owner = s /\ at \in Range(Tail(Events(Now, s)))
        BY <1>1, <3>1, ShownOwn
      <3>2. CASE \E h \in Range(Hops[s]) : /\ owner = h.session
                                           /\ at \in Range(Tail(UpTo(Events(Now, h.session), h.at)))
        <4>1. PICK h \in Range(Hops[s]) : /\ owner = h.session
                                          /\ at \in Range(Tail(UpTo(Events(Now, h.session), h.at)))
          BY <3>2
        <4>2. h.session \in Born /\ h.session \in Session
          BY <1>1, Inherits DEF LineageInv, Born, Session
        <4>3. at \in Range(Shown(Now, h))
          BY <1>1, <4>1, <4>2, TailShown
        <4>4. at \in Range(Tail(Events(Now, h.session)))
          BY <1>1, <4>2, <4>3, ShownPart
        <4>5. Inherited(Now)[h.session] \o Shown(Now, [session |-> h.session, at |-> at])
                = UpTo(History(Now, s), at)
          BY <1>1, <4>3, ShownInherited
        <4> QED BY <4>1, <4>2, <4>4, <4>5
      <3> QED BY <1>4, <3>1, <3>2 DEF Owner
    <2>2. owner \in Session
      BY <1>1, <2>1 DEF LineageInv, Born, Session
    <2>3. PICK i \in 2..Len(Events(Now, owner)) : Events(Now, owner)[i] = at
      <3>1. \A x \in Range(Tail(Events(Now, owner))) :
                \E i \in 2..Len(Events(Now, owner)) : Events(Now, owner)[i] = x
        BY <1>1, <2>2, TailEvents
      <3> QED BY <2>1, <3>1
    <2>4. i \in 1..Len(Events(Now, owner))
      OBVIOUS
    <2>5. ForkPoint(owner, at)
      BY <1>1, <2>1, <2>3, <2>4, EventForkPoint
    <2> QED BY <1>4, <2>1, <2>5, Zenon DEF Keeps
  <1>5. f.child \in Child /\ Keeps(f.session, f.at, f.seen)
    BY <1>1, <1>2, <1>3, <1>4 DEF ForkMade
  <1> QED BY <1>2, <1>5

(* The readers of the store take the readers' steps.                         *)
LEMMA StoreNextReader ==
    ASSUME [StoreNext]_storeVars
    PROVE  [ReaderNext]_allVars
  <1>1. CASE Write \/ Restart \/ \E r \in Reader : Read(r)
    BY <1>1 DEF ReaderNext
  <1>2. CASE \E r \in Reader : ForkCreates(r) \/ \E c \in Child, s \in Session : Fork(r, c, s)
    BY <1>2 DEF ForkCreates, Fork, ReaderNext
  <1>3. CASE \E c \in Child : AppendOwn(c)
    BY <1>3 DEF AppendOwn
  <1>4. CASE UNCHANGED storeVars
    BY <1>4 DEF storeVars
  <1> QED BY <1>1, <1>2, <1>3, <1>4 DEF StoreNext

(* A step of the store is one that Follows speaks of.                        *)
LEMMA StoreFollows ==
    ASSUME ~Reorder, ReaderInv, LineInv', StableInv, LineageInv, [StoreNext]_storeVars
    PROVE  Follows
  <1>1. [Next]_vars /\ LineInv /\ own \in [Child -> Nat] /\ DOMAIN ref = Child /\ born \subseteq Child
    BY StoreNextReader, ReaderNextLog DEF ReaderInv, LineageInv
  <1>2. ASSUME NEW e \in Nat, Final(e)
        PROVE  /\ Final(e)'
               /\ \A i \in 1..Len(Now') : Now'[i] = e =>
                     i <= Len(Now) /\ \A j \in 1..i : Now'[j] = Now[j]
    BY <1>1, <1>2, FinalStep, NowMoves
  <1>3. /\ \A c \in Child : own[c] <= own'[c]
        /\ born \subseteq born' /\ \A c \in born : ref'[c] = ref[c]
    <2>1. CASE UNCHANGED forks
      BY <1>1, <2>1 DEF forks
    <2>2. ASSUME NEW r \in Reader, ForkCreates(r)
          PROVE  /\ \A c \in Child : own[c] <= own'[c]
                 /\ born \subseteq born' /\ \A c \in born : ref'[c] = ref[c]
      BY <1>1, <2>2 DEF ForkCreates
    <2>3. ASSUME NEW c \in Child, AppendOwn(c)
          PROVE  /\ \A d \in Child : own[d] <= own'[d]
                 /\ born \subseteq born' /\ \A d \in born : ref'[d] = ref[d]
      <3>1. own' = [own EXCEPT ![c] = own[c] + 1] /\ born' = born /\ ref' = ref
        BY <2>3 DEF AppendOwn
      <3>2. \A d \in Child : own'[d] = IF d = c THEN own[c] + 1 ELSE own[d]
        BY <1>1, <3>1
      <3> QED BY <1>1, <3>1, <3>2
    <2>4. ASSUME NEW r \in Reader, NEW c, NEW s, Fork(r, c, s) PROVE UNCHANGED forks
      BY <2>4 DEF Fork
    <2> QED BY <2>1, <2>2, <2>3, <2>4 DEF StoreNext, storeVars
  <1> QED BY <1>2, <1>3 DEF Follows

(* A new fork is of what was there.                                          *)
LEMMA CreatesLineage ==
    ASSUME LineageInv, ForkInv, NEW r \in Reader, ForkCreates(r)
    PROVE  LineageInv'
  <1>1. /\ born \subseteq Child /\ own \in [Child -> Nat]
        /\ DOMAIN ref = Child /\ DOMAIN seen = Child /\ DOMAIN forking = Reader
        /\ \A d \in born : ref[d] \in Hop /\ ref[d].session \in Born
        /\ \A q \in Reader : forking[q] # None => forking[q].child \in Child
    BY DEF LineageInv
  <1>2. PICK c, s, at :
          /\ c = forking[r].child /\ c \in Child /\ c \notin born
          /\ s = forking[r].session /\ s \in Born /\ at = forking[r].at /\ ForkPoint(s, at)
    <2>1. Keeps(forking[r].session, forking[r].at, forking[r].seen)
      BY DEF ForkInv, ForkCreates
    <2> QED BY <1>1, <2>1 DEF ForkCreates, Keeps, ForkPoint
  <1>3. /\ born' = born \cup {c}
        /\ ref' = [ref EXCEPT ![c] = [session |-> s, at |-> at]]
        /\ forking' = [forking EXCEPT ![r] = None] /\ own' = own /\ DOMAIN seen' = Child
    BY <1>1, <1>2 DEF ForkCreates
  <1>4. /\ s \in Session /\ s # c /\ Root # c
        /\ [session |-> s, at |-> at] \in Hop
    BY <1>1, <1>2, StoreAssumption DEF Born, Session, Hop, ForkPoint
  <1>5. \A d \in born' : ref'[d] \in Hop /\ ref'[d].session \in Born'
    <2>1. ref'[c] = [session |-> s, at |-> at]
      BY <1>1, <1>2, <1>3
    <2>2. \A d \in born : ref'[d] = ref[d]
      BY <1>1, <1>2, <1>3
    <2>3. s \in Born' /\ Born \subseteq Born'
      BY <1>2, <1>3 DEF Born
    <2>4. ref'[c] \in Hop /\ ref'[c].session \in Born'
      BY <1>4, <2>1, <2>3
    <2>5. \A d \in born : ref'[d] \in Hop /\ ref'[d].session \in Born'
      BY <1>1, <2>2, <2>3
    <2> QED BY <1>3, <2>4, <2>5
  <1>6. \E depth \in Nat : \E rank \in [Session -> 0..depth] :
           \A d \in born' : rank[ref'[d].session] < rank[d]
    <2>1. PICK depth \in Nat : \E rank \in [Session -> 0..depth] :
             \A d \in born : rank[ref[d].session] < rank[d]
      BY DEF LineageInv
    <2>2. PICK rank \in [Session -> 0..depth] : \A d \in born : rank[ref[d].session] < rank[d]
      BY <2>1
    <2> DEFINE up == [t \in Session |-> IF t = c THEN rank[s] + 1 ELSE rank[t]]
    <2>3. up \in [Session -> 0..(depth + 1)]
      BY <1>4
    <2>4. c \in Session /\ \A d \in born : d \in Session /\ d # c
      BY <1>1, <1>2 DEF Session
    <2>5. \A d \in born : ref[d].session \in Session /\ ref[d].session # c
      BY <1>1, <1>2, <1>4, <2>4 DEF Born, Session
    <2>6. rank[s] < up[c] /\ up[s] = rank[s]
      BY <1>4, <2>4
    <2>7. \A d \in born : up[ref[d].session] < up[d]
      BY <2>2, <2>4, <2>5
    <2>8. ref'[c].session = s /\ \A d \in born : ref'[d] = ref[d]
      BY <1>1, <1>2, <1>3
    <2> HIDE DEF up
    <2>9. \A d \in born' : up[ref'[d].session] < up[d]
      BY <1>3, <2>6, <2>7, <2>8
    <2>10. depth + 1 \in Nat
      OBVIOUS
    <2> QED BY <2>3, <2>9, <2>10
  <1>7. born' \subseteq Child /\ own' \in [Child -> Nat]
        /\ DOMAIN ref' = Child /\ DOMAIN seen' = Child /\ DOMAIN forking' = Reader
    BY <1>1, <1>2, <1>3
  <1>8. \A q \in Reader : forking'[q] # None => forking'[q].child \in Child
    BY <1>1, <1>3
  <1> QED BY <1>5, <1>6, <1>7, <1>8 DEF LineageInv

(* Every step keeps the lineage.                                             *)
LEMMA NextLineage ==
    ASSUME ReaderInv, UniqueInv, LineageInv, ForkInv, [StoreNext]_storeVars
    PROVE  LineageInv'
  <1>1. CASE UNCHANGED <<forks, forking>>
    BY <1>1 DEF LineageInv, Born, forks
  <1>2. CASE forking' = [r \in Reader |-> None] /\ UNCHANGED forks
    BY <1>2 DEF LineageInv, Born, forks
  <1>3. ASSUME NEW r \in Reader, NEW c, NEW s, Fork(r, c, s) PROVE LineageInv'
    <2>1. UNCHANGED forks
      BY <1>3 DEF Fork
    <2>2. forking' = [forking EXCEPT ![r] = forking'[r]] /\ forking'[r].child \in Child
      BY <1>3, ForkKeeps
    <2>3. DOMAIN forking' = Reader /\ \A q \in Reader : q # r => forking'[q] = forking[q]
      BY <2>2 DEF LineageInv
    <2>4. \A q \in Reader : forking'[q] # None => forking'[q].child \in Child
      BY <2>2, <2>3 DEF LineageInv
    <2> QED BY <2>1, <2>3, <2>4 DEF LineageInv, Born, forks
  <1>4. ASSUME NEW c \in Child, AppendOwn(c) PROVE LineageInv'
    <2>1. own' = [own EXCEPT ![c] = own[c] + 1] /\ UNCHANGED <<born, ref, seen, forking>>
      BY <1>4 DEF AppendOwn
    <2>2. own' \in [Child -> Nat]
      BY <2>1 DEF LineageInv
    <2> QED BY <2>1, <2>2 DEF LineageInv, Born
  <1> QED BY <1>1, <1>2, <1>3, <1>4, CreatesLineage DEF StoreNext, storeVars

(* Every step keeps what the forks keep.                                     *)
LEMMA NextForkInv ==
    ASSUME ReaderInv, UniqueInv, LineInv', LineageInv, LineageInv', ForkInv, Follows,
           [StoreNext]_storeVars
    PROVE  ForkInv'
  <1>1. Now \in Seq(Nat) /\ Now' \in Seq(Nat)
    <2>1. Now \in Seq(Nat)
      BY NowFacts DEF ReaderInv
    <2>2. PICK g \in Seq(Cell) : g = file' /\ \A n \in 1..Len(g) : g[n].ev \in 0..MaxId
      BY NextFile
    <2>3. EventsOf(g) \in Seq(1..MaxId)
      BY <2>2, EventsFacts
    <2>4. Now' = EventsOf(g)
      BY <2>2 DEF Now, EventsAt, EventsOf
    <2>5. PICK e \in Seq(1..MaxId) : e = EventsOf(g)
      BY <2>3
    <2>6. e \in Seq(Nat)
      BY ConstantsAssumption
    <2> QED BY <2>1, <2>4, <2>5, <2>6
  <1>2. \A c \in born : ForkPoint(ref[c].session, ref[c].at)
    BY DEF ForkInv, Keeps
  <1>3. ASSUME NEW s, NEW at, NEW line, Keeps(s, at, line)
        PROVE  Keeps(s, at, line)'
    BY <1>1, <1>2, <1>3, KeepsStays
  <1>4. ASSUME NEW c \in born' PROVE Keeps(ref[c].session, ref[c].at, seen[c])'
    <2>1. CASE c \in born /\ seen'[c] = seen[c]
      <3>1. PICK s, at, line : s = ref[c].session /\ at = ref[c].at /\ line = seen[c]
        OBVIOUS
      <3>2. Keeps(s, at, line)'
        BY <1>3, <2>1, <3>1 DEF ForkInv
      <3>3. ref'[c] = ref[c]
        BY <2>1 DEF Follows
      <3> QED BY <2>1, <3>1, <3>2, <3>3
    <2>2. ASSUME NEW r \in Reader, ForkCreates(r), c \notin born \/ seen'[c] # seen[c]
          PROVE  Keeps(ref[c].session, ref[c].at, seen[c])'
      <3>1. PICK s, at, line : s = forking[r].session /\ at = forking[r].at /\ line = forking[r].seen
        OBVIOUS
      <3>2. Keeps(s, at, line)'
        BY <1>3, <2>2, <3>1 DEF ForkInv, ForkCreates
      <3>3. c = forking[r].child /\ c \in Child
        BY <2>2 DEF ForkCreates, LineageInv
      <3>4. ref'[c].session = s /\ ref'[c].at = at /\ seen'[c] = line
        BY <2>2, <3>1, <3>3 DEF ForkCreates, LineageInv
      <3> QED BY <3>2, <3>4
    <2>3. ASSUME \A r \in Reader : ~ForkCreates(r) PROVE c \in born /\ seen'[c] = seen[c]
      <3>1. born' = born /\ seen' = seen
        BY <2>3 DEF StoreNext, storeVars, forks, Fork, AppendOwn
      <3> QED BY <3>1
    <2> QED BY <2>1, <2>2, <2>3
  <1>5. ASSUME NEW r \in Reader, forking'[r] # None
        PROVE  Keeps(forking[r].session, forking[r].at, forking[r].seen)'
    <2>1. PICK s, at, line : s = forking'[r].session /\ at = forking'[r].at /\ line = forking'[r].seen
      OBVIOUS
    <2>2. Keeps(s, at, line)
      <3>1. CASE forking'[r] = forking[r]
        BY <1>5, <2>1, <3>1 DEF ForkInv
      <3>2. ASSUME NEW q \in Reader, NEW c, NEW t, Fork(q, c, t) PROVE Keeps(s, at, line)
        <4>1. /\ forking' = [forking EXCEPT ![q] = forking'[q]]
              /\ Keeps(forking'[q].session, forking'[q].at, forking'[q].seen)
          BY <3>2, ForkKeeps
        <4>2. q # r => forking'[r] = forking[r]
          BY <4>1 DEF LineageInv
        <4> QED BY <2>1, <3>1, <4>1, <4>2
      <3>3. ASSUME NEW q \in Reader, ForkCreates(q) PROVE forking'[r] = forking[r]
        BY <1>5, <3>3 DEF ForkCreates, LineageInv
      <3>4. CASE forking' = forking
        BY <3>1, <3>4
      <3>5. forking' # [x \in Reader |-> None]
        BY <1>5
      <3> QED BY <3>1, <3>2, <3>3, <3>4, <3>5 DEF StoreNext, storeVars, AppendOwn
    <2>3. Keeps(s, at, line)'
      BY <1>3, <2>2
    <2> QED BY <2>1, <2>3
  <1> QED BY <1>4, <1>5 DEF ForkInv

(* The initial state satisfies the invariant of the store.                   *)
LEMMA InitStoreInv == StoreInit => StoreInv
  <1> SUFFICES ASSUME StoreInit PROVE StoreInv
    OBVIOUS
  <1>1. /\ ReaderInv /\ file = <<>> /\ stable = <<>> /\ pc = [p \in Proc |-> "closed"]
        /\ born = {} /\ ref = [c \in Child |-> None] /\ own = [c \in Child |-> 0]
        /\ seen = [c \in Child |-> <<>>] /\ forking = [r \in Reader |-> None]
    BY InitReaderInv DEF StoreInit, Init
  <1>2. ValidEnds(file) = {} /\ ValidEnds(stable) = {}
    BY <1>1 DEF ValidEnds, LineEnds
  <1>3. UniqueInv /\ StableInv
    BY <1>1, <1>2 DEF UniqueInv, StableInv
  <1>4. LineageInv
    <2>1. [s \in Session |-> 0] \in [Session -> 0..0] /\ 0 \in Nat
      OBVIOUS
    <2>2. \E depth \in Nat : \E rank \in [Session -> 0..depth] :
             \A c \in born : rank[ref[c].session] < rank[c]
      BY <1>1, <2>1
    <2> QED BY <1>1, <2>2 DEF LineageInv
  <1>5. ForkInv
    BY <1>1 DEF ForkInv
  <1> QED BY <1>1, <1>3, <1>4, <1>5 DEF StoreInv

(* Every step keeps the invariant of the store.                              *)
LEMMA NextStoreInv ==
    ASSUME ~WriteErrors, ~Reorder, StoreInv, [StoreNext]_storeVars
    PROVE  StoreInv'
  <1>1. ReaderInv /\ UniqueInv /\ StableInv /\ LineageInv /\ ForkInv
    BY DEF StoreInv
  <1>2. [ReaderNext]_allVars /\ [Next]_vars
    BY StoreNextReader, ReaderNextLog
  <1>3. ReaderInv' /\ LineInv'
    <2>1. ReaderInv'
      BY <1>1, <1>2, NextReaderInv
    <2> QED BY <2>1 DEF ReaderInv
  <1>4. UniqueInv' /\ StableInv'
    BY <1>1, <1>2, <1>3, NextUnique
  <1>5. LineageInv'
    BY <1>1, NextLineage
  <1>6. Follows
    BY <1>1, <1>3, StoreFollows
  <1>7. ForkInv'
    BY <1>1, <1>3, <1>5, <1>6, NextForkInv
  <1> QED BY <1>3, <1>4, <1>5, <1>7 DEF StoreInv

(* Where no fork point of a lineage is unacknowledged or a header, all are   *)
(* shown.                                                                    *)
LEMMA SettledShows ==
    ASSUME StoreInv, NEW c \in born, Settled(c), NEW h \in Range(Hops[c]), ForkPoint(h.session, h.at)
    PROVE  Shows(h.at) /\ h.at # Events(Now, h.session)[1] /\ (h.session = Root => Now # <<>>)
  <1>1. /\ LineInv /\ UniqueInv /\ own \in [Child -> Nat]
    BY DEF StoreInv, ReaderInv, LineageInv
  <1>2. /\ Now \in Seq(Nat)
        /\ \A n \in ValidEnds(file) : \E k \in 1..Len(Now) : Now[k] = file[n].ev
    BY <1>1, NowFacts
  <1>3. PICK s, at : s = h.session /\ at = h.at
    OBVIOUS
  <1>4. /\ s \in Session /\ at[1] = s /\ at[2] \in Nat /\ at = <<s, at[2]>> /\ ForkPoint(s, at)
    BY <1>3 DEF ForkPoint, Born, LineageInv, StoreInv, Session
  <1>5. Acknowledged(at) /\ at # Events(Now, s)[1]
    BY <1>3, <1>4 DEF Settled, IsHeader
  <1>6. PICK e \in Seq(Event) :
          /\ e = Events(Now, s) /\ Len(e) = (IF s = Root THEN Len(Now) ELSE own[s] + 1)
          /\ \A k \in 1..Len(e) : e[k] = <<s, IF s = Root THEN Now[k] ELSE k>>
    BY <1>1, <1>2, <1>4, EventsType
  <1>7. \E i \in 1..Len(e) : e[i] = at
    <2>1. CASE s = Root
      <3>1. PICK n \in EndsBelow(committed) : file[n].ev = at[2]
        BY <1>4, <1>5, <2>1 DEF Acknowledged
      <3>2. PICK k \in 1..Len(Now) : Now[k] = at[2]
        BY <1>2, <3>1 DEF EndsBelow
      <3> QED BY <1>4, <1>6, <2>1, <3>2
    <2>2. CASE s # Root
      <3>1. at[2] \in 1..Len(e)
        BY <1>4, <1>6, <2>2 DEF ForkPoint
      <3>2. e[at[2]] = at
        BY <1>4, <1>6, <2>2, <3>1
      <3> QED BY <3>1, <3>2
    <2> QED BY <2>1, <2>2
  <1>8. PICK i \in 1..Len(e) : e[i] = at
    BY <1>7
  <1>9. i # 1 /\ i \in 2..Len(e)
    BY <1>5, <1>6, <1>8
  <1>10. Shows(at)
    BY <1>4, <1>6, <1>8, <1>9 DEF Shows
  <1>11. s = Root => Now # <<>>
    <2>1. Len(e) # 0
      BY <1>8
    <2> QED BY <1>6, <2>1
  <1> QED BY <1>3, <1>5, <1>10, <1>11

(* On the way to a fork there is the root.                                   *)
LEMMA FromRoot ==
    ASSUME LineageInv, NEW c \in born
    PROVE  \E h \in Range(Hops[c]) : h.session = Root
  <1>1. /\ Lineage(Parents) /\ Hops = Way(Parents)
        /\ DOMAIN Parents = born /\ \A d \in born : Parents[d] = ref[d]
    BY StoreLineage
  <1>2. \A d \in DOMAIN Parents :
           Range(Way(Parents)[d]) = Range(Way(Parents)[Parents[d].session]) \cup {Parents[d]}
    BY <1>1, WaySteps
  <1>3. PICK hop : hop = Parents
    OBVIOUS
  <1> DEFINE T == {t \in {Root} \cup DOMAIN hop :
                      t = Root \/ \E h \in Range(Way(hop)[t]) : h.session = Root}
  <1>4. Root \in T
    OBVIOUS
  <1>5. ASSUME NEW d \in DOMAIN hop, hop[d].session \in T PROVE d \in T
    <2>1. Range(Way(hop)[d]) = Range(Way(hop)[hop[d].session]) \cup {hop[d]}
      BY <1>2, <1>3
    <2>2. \E h \in Range(Way(hop)[d]) : h.session = Root
      BY <1>5, <2>1
    <2> QED BY <2>2
  <1> HIDE DEF T
  <1>6. {Root} \cup DOMAIN hop \subseteq T
    BY <1>1, <1>3, <1>4, <1>5, LineageInduction
  <1>7. c \in T /\ c # Root
    BY <1>1, <1>3, <1>6, StoreAssumption DEF LineageInv
  <1> QED BY <1>1, <1>3, <1>7 DEF T

(* The invariant of the store is enough: the transcript of a settled fork is *)
(* the one it was made from, and each of its events has one owner.           *)
LEMMA StoreInvForks == StoreInv => ForkKeepsPrefix
  <1> SUFFICES ASSUME StoreInv, NEW c \in born, Settled(c)
               PROVE  /\ Inherited(Now)[c] = seen[c]
                      /\ \A at \in Range(History(Now, c)) : Cardinality(Owner(Now, c, at)) = 1
    BY DEF ForkKeepsPrefix
  <1>1. /\ LineInv /\ UniqueInv /\ LineageInv /\ ForkInv /\ own \in [Child -> Nat]
        /\ born \subseteq Child /\ c \in Born /\ c \in Session /\ Now \in Seq(Nat)
    <2>1. LineInv /\ UniqueInv /\ LineageInv /\ ForkInv
      BY DEF StoreInv, ReaderInv
    <2> QED BY <2>1, NowFacts DEF LineageInv, Born, Session
  <1>2. \A h \in Range(Hops[c]) : \E d \in born : h = ref[d]
    <2>1. /\ Lineage(Parents) /\ Hops = Way(Parents)
          /\ DOMAIN Parents = born /\ \A d \in born : Parents[d] = ref[d]
          /\ \E depth \in Nat : \E rank : Ranked(Parents, rank, depth)
      BY <1>1, StoreLineage
    <2>2. c \in {Root} \cup DOMAIN Parents
      BY <2>1
    <2>3. \A h \in Range(Way(Parents)[c]) : \E d \in DOMAIN Parents : h = Parents[d]
      BY <2>1, <2>2, WayRanked
    <2> QED BY <2>1, <2>3
  <1>3. \A h \in Range(Hops[c]) : ForkPoint(h.session, h.at) /\ h.session \in Session
    BY <1>1, <1>2 DEF ForkInv, Keeps, LineageInv, Born, Session
  <1>4. \A h \in Range(Hops[c]) :
           Shows(h.at) /\ h.at # Events(Now, h.session)[1] /\ (h.session = Root => Now # <<>>)
    BY <1>3, SettledShows
  <1>5. Now # <<>>
    BY <1>1, <1>4, FromRoot
  <1>6. Inherited(Now)[c] = seen[c]
    <2>1. PICK s, at : s = ref[c].session /\ at = ref[c].at
      OBVIOUS
    <2>2. /\ ref[c] \in Range(Hops[c]) /\ Range(Hops[s]) \subseteq Range(Hops[c])
          /\ Inherited(Now)[c] = Inherited(Now)[s] \o Shown(Now, ref[c])
      BY <1>1, <1>5, <2>1, Inherits
    <2>3. Keeps(s, at, seen[c])
      BY <1>1, <2>1 DEF ForkInv
    <2>4. Shows(at) /\ \A h \in Range(Hops[s]) : Shows(h.at)
      BY <1>4, <2>1, <2>2
    <2>5. Inherited(Now)[s] \o Shown(Now, [session |-> s, at |-> at]) = seen[c]
      BY <2>3, <2>4 DEF Keeps
    <2>6. Shown(Now, [session |-> s, at |-> at]) = Shown(Now, ref[c])
      BY <2>1 DEF Shown
    <2> QED BY <2>2, <2>5, <2>6, Zenon
  <1>7. ASSUME NEW at \in Range(History(Now, c)) PROVE Cardinality(Owner(Now, c, at)) = 1
    <2>1. ASSUME NEW t \in Owner(Now, c, at) PROVE t = at[1]
      <3>1. CASE t = c /\ at \in Range(Tail(Events(Now, c)))
        BY <1>1, <1>5, <3>1, TailEvents
      <3>2. ASSUME NEW h \in Range(Hops[c]), t = h.session,
                   at \in Range(Tail(UpTo(Events(Now, h.session), h.at)))
            PROVE  t = at[1]
        <4>1. at \in Range(Shown(Now, h))
          BY <1>1, <1>3, <1>5, <3>2, TailShown
        <4>2. at \in Range(Tail(Events(Now, h.session)))
          BY <1>1, <1>3, <1>5, <4>1, ShownPart
        <4> QED BY <1>1, <1>3, <1>5, <3>2, <4>2, TailEvents
      <3> QED BY <2>1, <3>1, <3>2 DEF Owner
    <2>2. \E t : t \in Owner(Now, c, at)
      <3>1. PICK x \in Seq(Event) : x = Inherited(Now)[c]
        BY <1>1, <1>5, Inherits
      <3>2. PICK y \in Seq(Event) : y = Tail(Events(Now, c))
        BY <1>1, <1>5, TailEvents
      <3>3. Range(x \o y) = Range(x) \cup Range(y)
        BY RangeConcatenation
      <3>4. at \in Range(x) \/ at \in Range(y)
        BY <3>1, <3>2, <3>3 DEF History
      <3>5. CASE at \in Range(y)
        BY <3>2, <3>5 DEF Owner
      <3>6. CASE at \in Range(x)
        <4>1. PICK h \in Range(Hops[c]) : at \in Range(Shown(Now, h))
          BY <1>1, <1>5, <3>1, <3>6, Inherits
        <4>2. Tail(UpTo(Events(Now, h.session), h.at)) = Shown(Now, h)
          BY <1>1, <1>3, <1>4, <1>5, TailShown
        <4> QED BY <4>1, <4>2 DEF Owner
      <3> QED BY <3>4, <3>5, <3>6
    <2>3. Owner(Now, c, at) = {at[1]}
      BY <2>1, <2>2
    <2> QED BY <2>3, FS_Singleton
  <1> QED BY <1>6, <1>7

(* Where no write fails and power losses keep the order of writes, every     *)
(* fork point is an event the log it names has or will not have again, and   *)
(* what is inherited up to it is what was read (fork_inner and history,      *)
(* branch.rs:464, 597).                                                      *)
THEOREM StoreInvariance ==
    ASSUME ~WriteErrors, ~Reorder
    PROVE  StoreSpec => []StoreInv
  <1>1. StoreInv /\ [StoreNext]_storeVars => StoreInv'
    BY NextStoreInv
  <1> QED BY <1>1, InitStoreInv, PTL DEF StoreSpec

(* There, the transcript of a fork whose fork points are acknowledged events *)
(* stays what it was forked from, and each of its events has one owner.      *)
THEOREM ForksKeepPrefix ==
    ASSUME ~WriteErrors, ~Reorder
    PROVE  StoreSpec => []ForkKeepsPrefix
  BY StoreInvariance, StoreInvForks, PTL
=============================================================================

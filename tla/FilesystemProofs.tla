-------------------------- MODULE FilesystemProofs --------------------------
(***************************************************************************)
(* Proofs about the file system layer.  fs_normalize_path, for every set   *)
(* of names, every array and buffer size and paths of any length: neither  *)
(* array is overrun, and a normalized absolute path names the directory    *)
(* the original leads to.  The two mount tables, for every set of types    *)
(* and paths and any number of mounts: the entries and the live volumes    *)
(* agree, and no mount takes a path over from one that is as deep.         *)
(***************************************************************************)
EXTENDS FsLayer, SequenceTheorems, TLAPS

INSTANCE WellFoundedInduction

-----------------------------------------------------------------------------
(* fs_normalize_path.                                                      *)

Stored == Names \cup {".."}

\* Nothing is copied before the path is split; what has been copied is the
\* beginning of the components; while an absolute path is not refused, the
\* components are the way from the root to the directory walked to.
IInv ==
  /\ TypeOK
  /\ Len(components) <= FS_MAX_PATH
  /\ pc = "start" => components = << >> /\ walked.down = << >>
  /\ pc \in {"start", "split"} => out = << >> /\ out_pos = 0 /\ rc = 0
  /\ pc = "split" => out_size >= 2
  /\ pc = "copy" => rc = 0 /\ out_pos < out_size /\ Len(out) <= Len(components)
  /\ pc \in {"copy", "return"} /\ rc = 0 =>
       /\ out_pos < out_size
       /\ \A k \in 1..Len(out) : out[k] = components[k]
  /\ pc = "return" /\ rc = 0 => Len(out) = Len(components)
  /\ rc = 0 /\ is_absolute => components = walked.down

\* Popping a component leaves a sequence that is one shorter.
LEMMA PopProperties ==
  ASSUME NEW S, NEW s \in Seq(S), s # << >>
  PROVE  /\ Pop(s) \in Seq(S)
         /\ Len(Pop(s)) = Len(s) - 1
<1> DEFINE n == Len(s) - 1
<1>1. Len(s) \in Nat \ {0}
  BY EmptySeq, Zenon
<1>2. n \in Nat /\ \A i \in 1..n : s[i] \in S
  BY ElementOfSeq, <1>1
<1>3. SubSeq(s, 1, n) \in Seq(S) /\ Len(SubSeq(s, 1, n)) = n
  <2> HIDE DEF n
  <2>1. /\ SubSeq(s, 1, n) \in Seq(S)
        /\ Len(SubSeq(s, 1, n)) = IF 1 <= n THEN n - 1 + 1 ELSE 0
    BY <1>2, SubSeqProperties
  <2> QED
    BY <1>2, <2>1
<1> QED
  BY <1>3, Zenon DEF Pop

\* The initial states satisfy the invariant.
LEMMA InitIInv == Init => IInv
BY NormalizeAssumption, EmptySeq DEF Init, IInv, TypeOK

\* A component read keeps the types, the bound of the array and the agreement
\* with the directory walked to.
LEMMA SplitIInv ==
  ASSUME IInv, NEW token \in Tokens, Split(token)
  PROVE  IInv'
<1> USE NormalizeAssumption
<1>0. /\ components \in Seq(Stored) /\ Len(components) \in Nat
      /\ walked \in [ups : Nat, down : Seq(Names)]
      /\ rc = 0 /\ pc = "split"
  BY LenProperties, Zenon DEF IInv, TypeOK, Stored, Split
<1>1. walked' \in [ups : Nat, down : Seq(Names)]
  <2>1. CASE token = "."
    BY <1>0, <2>1, Zenon DEF Split, Walk
  <2>2. CASE token = ".."
    <3>1. walked.down # << >> => Pop(walked.down) \in Seq(Names)
      BY <1>0, PopProperties, Zenon
    <3> QED
      BY <1>0, <2>2, <3>1 DEF Split, Walk
  <2>3. CASE token \in Names
    <3>1. Append(walked.down, token) \in Seq(Names)
      BY <1>0, <2>3, AppendProperties, Zenon
    <3>2. walked' = [walked EXCEPT !.down = Append(walked.down, token)]
      BY <2>3, Zenon DEF Split, Walk
    <3> QED
      BY <1>0, <3>1, <3>2, Zenon
  <2> QED
    BY <2>1, <2>2, <2>3, Zenon DEF Tokens
<1>2. /\ components' \in Seq(Stored)
      /\ Len(components') <= FS_MAX_PATH
      /\ pc' \in {"split", "return"} /\ (pc' = "return" <=> rc' = 1) /\ rc' \in {0, 1}
  <2>1. CASE token = "."
    BY <1>0, <2>1 DEF Split, IInv
  <2>2. CASE token = ".."
    <3>1. components # << >> =>
            Pop(components) \in Seq(Stored) /\ Len(Pop(components)) <= FS_MAX_PATH
      BY <1>0, PopProperties DEF IInv
    <3>2. /\ Append(components, "..") \in Seq(Stored)
          /\ components = << >> => Len(Append(components, "..")) <= FS_MAX_PATH
      BY <1>0, AppendProperties, EmptySeq DEF Stored
    <3> QED
      BY <1>0, <2>2, <3>1, <3>2 DEF Split, Up, IInv
  <2>3. CASE token \in Names
    <3>1. /\ Append(components, token) \in Seq(Stored)
          /\ Len(Append(components, token)) = Len(components) + 1
      BY <1>0, <2>3, AppendProperties DEF Stored
    <3>2. IF Len(components) >= FS_MAX_PATH
          THEN pc' = "return" /\ rc' = 1 /\ UNCHANGED components
          ELSE components' = Append(components, token) /\ UNCHANGED <<pc, rc>>
      BY <2>3, Zenon DEF Split
    <3>3. Len(components) <= FS_MAX_PATH
      BY Zenon DEF IInv
    <3>4. CASE Len(components) >= FS_MAX_PATH
      BY <1>0, <3>2, <3>3, <3>4, Zenon
    <3>5. CASE ~(Len(components) >= FS_MAX_PATH)
      <4>1. components' = Append(components, token) /\ pc' = "split" /\ rc' = 0
        BY <1>0, <3>2, <3>5, Zenon
      <4>2. Len(components') <= FS_MAX_PATH
        BY <1>0, <3>1, <3>5, <4>1
      <4> QED
        BY <3>1, <4>1, <4>2
    <3> QED
      BY <3>4, <3>5, Zenon
  <2> QED
    BY <2>1, <2>2, <2>3, Zenon DEF Tokens
<1>3. rc' = 0 /\ is_absolute' => components' = walked'.down
  <2> SUFFICES ASSUME rc' = 0, is_absolute PROVE components' = walked'.down
    BY Zenon DEF Split
  <2>0. components = walked.down
    BY <1>0, Zenon DEF IInv
  <2>1. CASE token = "."
    BY <2>0, <2>1, Zenon DEF Split, Walk
  <2>2. CASE token = ".."
    BY <1>0, <2>0, <2>2, Zenon DEF Split, Up, Walk
  <2>3. CASE token \in Names
    BY <1>0, <2>0, <2>3 DEF Split, Walk
  <2> QED
    BY <2>1, <2>2, <2>3, Zenon DEF Tokens
<1>4. out = << >> /\ out' = out /\ out_pos = 0 /\ out_pos' = out_pos /\ out_size' = out_size
  BY <1>0, Zenon DEF IInv, Split
<1>5. TypeOK'
  BY <1>1, <1>2, SMTT(30) DEF IInv, TypeOK, Split, Stored
<1> QED
  BY <1>0, <1>2, <1>3, <1>4, <1>5 DEF IInv

\* A component copied continues the beginning of the components, and leaves
\* room for the terminator.
LEMMA CopyIInv ==
  ASSUME IInv, Copy
  PROVE  IInv'
<1> USE NormalizeAssumption
<1>0. /\ components \in Seq(Stored) /\ out \in Seq(Stored)
      /\ Len(components) \in Nat /\ Len(out) \in Nat
      /\ out_pos \in Nat /\ out_size \in Nat /\ pc = "copy" /\ rc = 0
  BY LenProperties, Zenon DEF IInv, TypeOK, Stored, Copy
<1> DEFINE c == components[Len(out) + 1]
<1>1. c \in Stored
  BY <1>0, ElementOfSeq DEF Copy
<1>2. Needed \in Nat
  BY <1>0, <1>1 DEF Needed, Stored
<1>3. CASE TooSmall
  BY <1>0, <1>3 DEF Copy, IInv, TypeOK
<1>4. CASE ~TooSmall
  <2>1. /\ out' = Append(out, c) /\ out_pos' = out_pos + Needed
        /\ UNCHANGED <<pc, rc, is_absolute, out_size, taken, components, walked>>
        /\ Len(out) < Len(components)
    BY <1>4, Zenon DEF Copy
  <2>2. /\ out' \in Seq(Stored) /\ Len(out') = Len(out) + 1
        /\ \A k \in 1..Len(out) : out'[k] = out[k]
        /\ out'[Len(out) + 1] = c
    BY <1>0, <1>1, <2>1, AppendProperties
  <2>3. \A k \in 1..Len(out') : out'[k] = components'[k]
    <3>1. \A k \in 1..Len(out) : out[k] = components[k]
      BY <1>0, Zenon DEF IInv
    <3> QED
      BY <1>0, <2>1, <2>2, <3>1
  <2>4. out_pos' \in Nat /\ out_pos' < out_size'
    BY <1>0, <1>2, <1>4, <2>1 DEF TooSmall
  <2>5. TypeOK'
    BY <2>1, <2>2, <2>4, Zenon DEF IInv, TypeOK, Stored
  <2>6. Len(out') <= Len(components')
    BY <1>0, <2>1, <2>2
  <2> QED
    BY <1>0, <2>1, <2>3, <2>4, <2>5, <2>6, Zenon DEF IInv
<1> QED
  BY <1>3, <1>4, Zenon

\* Every step of fs_normalize_path keeps the invariant.
LEMMA NextIInv == IInv /\ [Next]_vars => IInv'
<1> SUFFICES ASSUME IInv, [Next]_vars PROVE IInv'
  BY Zenon
<1> USE NormalizeAssumption
<1>1. ASSUME NEW copied \in BOOLEAN, Start(copied) PROVE IInv'
  BY <1>1 DEF Start, IInv, TypeOK
<1>2. ASSUME NEW token \in Tokens, Split(token) PROVE IInv'
  BY <1>2, SplitIInv, Zenon
<1>3. CASE SplitDone
  <2>1. Len(<< >>) = 0 /\ Len(components) \in Nat /\ out_size \in Nat
    BY EmptySeq, LenProperties, Zenon DEF IInv, TypeOK
  <2> QED
    BY <1>3, <2>1 DEF SplitDone, IInv, TypeOK
<1>4. CASE Copy
  BY <1>4, CopyIInv, Zenon
<1>5. CASE CopyDone
  BY <1>5, Zenon DEF CopyDone, IInv, TypeOK
<1>6. CASE UNCHANGED vars
  BY <1>6, Zenon DEF vars, IInv, TypeOK
<1> QED
  BY <1>1, <1>2, <1>3, <1>4, <1>5, <1>6, Zenon DEF Next

\* fs_normalize_path keeps the invariant in every behaviour.
LEMMA InvariantCorrect == Spec => []IInv
BY InitIInv, NextIInv, PTL DEF Spec

\* fs_normalize_path never stores a component past its array nor a byte past
\* the caller's buffer, whatever their sizes and whatever the path.
THEOREM BufferCorrect == Spec => []BufferRespected
<1>1. IInv => BufferRespected
  <2> SUFFICES ASSUME IInv PROVE BufferRespected
    BY Zenon
  <2>1. out_size \in Nat
    BY NormalizeAssumption, Zenon DEF IInv, TypeOK
  <2> QED
    BY <2>1 DEF IInv, TypeOK, BufferRespected
<1> QED
  BY <1>1, InvariantCorrect, PTL

\* A normalized absolute path is the way from the root to the directory the
\* original leads to.
THEOREM AbsoluteNormalized == Spec => []AbsoluteCorrect
<1>1. IInv => AbsoluteCorrect
  <2> SUFFICES ASSUME IInv, pc = "return", rc = 0, is_absolute
               PROVE  out = walked.down
    BY Zenon DEF AbsoluteCorrect
  <2>1. out \in Seq(Stored) /\ components \in Seq(Stored)
    BY Zenon DEF IInv, TypeOK, Stored
  <2>2. Len(out) = Len(components) /\ \A k \in 1..Len(out) : out[k] = components[k]
    BY Zenon DEF IInv
  <2>3. out = components
    BY <2>1, <2>2, SeqEqual, Zenon
  <2> QED
    BY <2>3, Zenon DEF IInv
<1> QED
  BY <1>1, InvariantCorrect, PTL

-----------------------------------------------------------------------------
(* Sequences and loops.                                                    *)

\* Removing an element moves the later ones forward by one.
LEMMA WithoutProperties ==
  ASSUME NEW S, NEW s \in Seq(S), NEW i \in 1..Len(s)
  PROVE  /\ Mount!Without(s, i) \in Seq(S)
         /\ Len(Mount!Without(s, i)) = Len(s) - 1
         /\ \A k \in 1..(Len(s) - 1) : Mount!Without(s, i)[k] = s[IF k < i THEN k ELSE k + 1]
<1> DEFINE a == SubSeq(s, 1, i - 1)
           b == SubSeq(s, i + 1, Len(s))
<1>1. Len(s) \in Nat /\ i \in Nat /\ \A k \in 1..Len(s) : s[k] \in S
  BY LenProperties, ElementOfSeq
<1>2. /\ a \in Seq(S) /\ Len(a) = i - 1
      /\ \A k \in 1..(i - 1) : a[k] = s[k]
  <2>1. \A k \in 1..(i - 1) : s[k] \in S
    BY <1>1
  <2> QED
    BY <1>1, <2>1, SubSeqProperties
<1>3. /\ b \in Seq(S) /\ Len(b) = Len(s) - i
      /\ \A k \in 1..(Len(s) - i) : b[k] = s[i + k]
  <2>1. \A k \in (i + 1)..Len(s) : s[k] \in S
    BY <1>1
  <2> QED
    BY <1>1, <2>1, SubSeqProperties
<1> HIDE DEF a, b
<1>4. /\ a \o b \in Seq(S) /\ Len(a \o b) = Len(a) + Len(b)
      /\ \A k \in 1..(Len(a) + Len(b)) :
           (a \o b)[k] = IF k <= Len(a) THEN a[k] ELSE b[k - Len(a)]
  BY <1>2, <1>3, ConcatProperties, Zenon
<1>5. ASSUME NEW k \in 1..(Len(s) - 1)
      PROVE  (a \o b)[k] = s[IF k < i THEN k ELSE k + 1]
  <2>1. CASE k < i
    <3>1. k \in 1..(Len(a) + Len(b)) /\ k <= Len(a) /\ k \in 1..(i - 1)
      BY <1>1, <1>2, <1>3, <2>1
    <3> QED
      BY <1>2, <1>4, <2>1, <3>1, Zenon
  <2>2. CASE ~(k < i)
    <3>1. /\ k \in 1..(Len(a) + Len(b)) /\ ~(k <= Len(a))
          /\ k - Len(a) \in 1..(Len(s) - i) /\ i + (k - Len(a)) = k + 1
      BY <1>1, <1>2, <1>3, <2>2
    <3> QED
      BY <1>3, <1>4, <2>2, <3>1, Zenon
  <2> QED
    BY <2>1, <2>2, Zenon
<1>6. Len(a) + Len(b) = Len(s) - 1
  BY <1>1, <1>2, <1>3
<1> QED
  BY <1>4, <1>5, <1>6, Zenon DEF Mount!Without, a, b

\* A set of naturals that holds n - 1 with n is empty.
LEMMA NoDescent ==
  ASSUME NEW T \in SUBSET Nat, \A n \in T : n - 1 \in T
  PROVE  T = {}
<1> DEFINE R == {p \in Nat \X Nat : p[1] < p[2]}
<1>1. IsWellFoundedOn(R, Nat)
  BY NatLessThanWellFounded, Zenon DEF OpToRel
<1>2. SUFFICES ASSUME T # {} PROVE FALSE
  BY Zenon
<1>3. PICK x \in T : \A y \in T : ~ (<<y, x>> \in R)
  <2> HIDE DEF R
  <2> QED
    BY <1>1, <1>2, WFMin, Zenon
<1>4. <<x - 1, x>> \in R /\ x - 1 \in T
  OBVIOUS
<1> QED
  BY <1>3, <1>4, Zenon

\* The runs of a loop over 1..L that carries a value of S.
Runs(L, S, start, step) ==
  {g \in [0..L -> S] : g[0] = start /\ \A k \in 1..L : g[k] = step[k][g[k - 1]]}

\* There is one.
LEMMA LoopExists ==
  ASSUME NEW L \in Nat, NEW S, NEW start \in S, NEW step \in [1..L -> [S -> S]]
  PROVE  Runs(L, S, start, step) # {}
<1> DEFINE Upto(n) == Runs(n, S, start, step)
           bad == {n \in 0..L : Upto(n) = {}}
<1> USE DEF Runs
<1>1. ASSUME NEW n \in bad PROVE n - 1 \in bad
  <2> SUFFICES ASSUME n - 1 \notin bad PROVE FALSE
    BY Zenon
  <2>1. n \in 0..L /\ Upto(n) = {}
    BY Zenon
  <2>2. CASE n = 0
    <3>1. [k \in 0..0 |-> start] \in Upto(0)
      OBVIOUS
    <3> QED
      BY <2>1, <2>2, <3>1, Zenon
  <2>3. CASE n # 0
    <3>1. n - 1 \in 0..L
      BY <2>1, <2>3
    <3>2. PICK g : g \in Upto(n - 1)
      BY <3>1, Zenon
    <3>3. /\ g \in [0..(n - 1) -> S] /\ g[0] = start
          /\ \A k \in 1..(n - 1) : g[k] = step[k][g[k - 1]]
      BY <3>2, Zenon
    <3> DEFINE h == [k \in 0..n |-> IF k = n THEN step[n][g[n - 1]] ELSE g[k]]
    <3>4. n \in 1..L /\ n - 1 \in 0..(n - 1) /\ n \in Nat
      BY <2>1, <2>3, SMTT(30)
    <3>5. step[n][g[n - 1]] \in S
      BY <3>3, <3>4, SMTT(30)
    <3>6. h \in [0..n -> S]
      BY <3>3, <3>4, <3>5, SMTT(30)
    <3>7. h[0] = start
      BY <2>3, <3>3, <3>4, SMTT(30)
    <3>8. ASSUME NEW k \in 1..n PROVE h[k] = step[k][h[k - 1]]
      <4>1. k - 1 \in 0..n /\ k - 1 # n /\ h[k - 1] = g[k - 1] /\ k \in 0..n
        BY <3>4, SMTT(30)
      <4>2. CASE k = n
        BY <3>4, <4>1, <4>2, Zenon
      <4>3. CASE k # n
        BY <3>3, <3>4, <4>1, <4>3, SMTT(30)
      <4> QED
        BY <4>2, <4>3, Zenon
    <3> HIDE DEF h
    <3>9. h \in Upto(n)
      BY <3>6, <3>7, <3>8, Zenon
    <3> QED
      BY <2>1, <3>9, Zenon
  <2> QED
    BY <2>2, <2>3, Zenon
<1>2. bad \in SUBSET Nat /\ L \in 0..L
  OBVIOUS
<1> HIDE DEF bad
<1> HIDE DEF Runs
<1>3. bad = {}
  BY <1>1, <1>2, NoDescent, Zenon
<1>4. Upto(L) # {}
  <2> HIDE DEF Upto
  <2> QED
    BY <1>2, <1>3, ZenonT(30) DEF bad
<1> QED
  BY <1>4, Zenon DEF Upto

\* The table is a sequence of entries with paths and data at most n.
IsTable(t, n) ==
  /\ t \in Seq({t[k] : k \in 1..Len(t)})
  /\ \A k \in 1..Len(t) : t[k].path \in Seq(STRING) /\ t[k].data \in 0..n

\* Entry k of the first n serves the path: it covers it, none of them that does
\* is deeper, and those before it are less deep.
Serves(t, path, n, k) ==
  /\ k \in 1..n
  /\ Mount!Covers(t[k], path)
  /\ \A j \in 1..n : Mount!Covers(t[j], path) =>
       /\ Len(t[j].path) <= Len(t[k].path)
       /\ j < k => Len(t[j].path) < Len(t[k].path)

\* One turn of the loop.
Turn(t, path, k, best) ==
  IF Mount!Covers(t[k], path) /\ Mount!Better(t[k], best) THEN t[k] ELSE best

\* find_mount_point is what its loop ends with.
LEMMA LookupRuns ==
  ASSUME NEW t, NEW path, Len(t) \in Nat
  PROVE  \E g : /\ g[0] = Mount!NoMount
                /\ \A k \in 1..Len(t) : g[k] = Turn(t, path, k, g[k - 1])
                /\ Mount!find_mount_point(t, path) = g[Len(t)]
<1> DEFINE L == Len(t)
           S == {t[k] : k \in 1..L} \cup {Mount!NoMount}
           step == [k \in 1..L |-> [b \in S |-> Turn(t, path, k, b)]]
           best == CHOOSE f : f = [k \in 0..L |-> IF k = 0 THEN Mount!NoMount
                                                 ELSE IF /\ Mount!Covers(t[k], path)
                                                         /\ Mount!Better(t[k], f[k - 1])
                                                 THEN t[k] ELSE f[k - 1]]
<1>1. step \in [1..L -> [S -> S]] /\ Mount!NoMount \in S
  <2>1. ASSUME NEW k \in 1..L, NEW b \in S PROVE Turn(t, path, k, b) \in S
    BY <2>1, Zenon DEF Turn
  <2>2. Mount!NoMount \in S
    BY Zenon
  <2> HIDE DEF S
  <2> QED
    BY <2>1, <2>2, Zenon
<1>2. PICK g \in [0..L -> S] :
        g[0] = Mount!NoMount /\ \A k \in 1..L : g[k] = step[k][g[k - 1]]
  <2> HIDE DEF step, S, L
  <2>1. L \in Nat
    BY Zenon DEF L
  <2>2. Runs(L, S, Mount!NoMount, step) # {}
    BY <1>1, <2>1, LoopExists, Zenon
  <2> QED
    BY <2>2, Zenon DEF Runs
<1>3. ASSUME NEW k \in 1..L PROVE g[k] = Turn(t, path, k, g[k - 1])
  <2>1. k - 1 \in 0..L
    OBVIOUS
  <2> HIDE DEF S
  <2>2. g[k - 1] \in S
    BY <2>1, Zenon
  <2> QED
    BY <1>2, <2>2, Zenon
<1>4. g = [k \in 0..L |-> IF k = 0 THEN Mount!NoMount
                          ELSE IF /\ Mount!Covers(t[k], path)
                                  /\ Mount!Better(t[k], g[k - 1])
                          THEN t[k] ELSE g[k - 1]]
  <2> HIDE DEF S, step
  <2> QED
    BY <1>2, <1>3 DEF Turn
<1>5. best = [k \in 0..L |-> IF k = 0 THEN Mount!NoMount
                          ELSE IF /\ Mount!Covers(t[k], path)
                                  /\ Mount!Better(t[k], best[k - 1])
                          THEN t[k] ELSE best[k - 1]]
  <2> HIDE DEF S, step
  <2> QED
    BY <1>4, Zenon
<1>6. Mount!find_mount_point(t, path) = best[L]
  BY Zenon DEF Mount!find_mount_point
<1> HIDE DEF best
<1>7. best[0] = Mount!NoMount
  BY <1>5
<1>8. ASSUME NEW k \in 1..L PROVE best[k] = Turn(t, path, k, best[k - 1])
  <2>1. k \in 0..L /\ k # 0
    OBVIOUS
  <2> HIDE DEF L
  <2> QED
    BY <1>5, <2>1, Zenon DEF Turn
<1> QED
  BY <1>6, <1>7, <1>8, Zenon

\* The first of the deepest entries that cover the path is unique.
LEMMA ServesUnique ==
  ASSUME NEW t, NEW path, NEW n \in Nat, NEW j, NEW k,
         \A i \in 1..n : Len(t[i].path) \in Nat,
         Serves(t, path, n, j), Serves(t, path, n, k)
  PROVE  j = k
<1>1. /\ j \in 1..n /\ k \in 1..n
      /\ Len(t[j].path) \in Nat /\ Len(t[k].path) \in Nat
      /\ Len(t[j].path) <= Len(t[k].path) /\ Len(t[k].path) <= Len(t[j].path)
      /\ j < k => Len(t[j].path) < Len(t[k].path)
      /\ k < j => Len(t[k].path) < Len(t[j].path)
  BY Zenon DEF Serves
<1> QED
  BY <1>1, SMTT(30)

\* find_mount_point returns the entry that serves the path, or finds none.
LEMMA LookupServes ==
  ASSUME NEW t, NEW path, NEW n, IsTable(t, n), 
         \A k \in 1..Len(t) : t[k].data # 0
  PROVE  \/ /\ Mount!find_mount_point(t, path) = Mount!NoMount
            /\ \A j \in 1..Len(t) : ~Mount!Covers(t[j], path)
         \/ \E k \in 1..Len(t) :
              /\ Serves(t, path, Len(t), k)
              /\ Mount!find_mount_point(t, path) = t[k]
<1> DEFINE L == Len(t)
<1>1. L \in Nat /\ \A k \in 1..L : Len(t[k].path) \in Nat
  BY LenProperties, Zenon DEF IsTable
<1>2. ASSUME NEW k \in 1..L PROVE t[k] # Mount!NoMount
  BY DEF Mount!NoMount
<1>3. PICK g : /\ g[0] = Mount!NoMount
               /\ \A k \in 1..L : g[k] = Turn(t, path, k, g[k - 1])
               /\ Mount!find_mount_point(t, path) = g[L]
  BY <1>1, LookupRuns, Zenon
<1> HIDE DEF L
<1> DEFINE None(m) == g[m] = Mount!NoMount /\ \A j \in 1..m : ~Mount!Covers(t[j], path)
           Some(m) == \E k \in 1..m : Serves(t, path, m, k) /\ g[m] = t[k]
           bad == {m \in 0..L : ~(None(m) \/ Some(m))}
<1>4. ASSUME NEW m \in bad PROVE m - 1 \in bad
  <2>1. m \in 0..L
    BY Zenon
  <2>2. CASE m = 0
    <3>1. None(0)
      BY <1>3
    <3> QED
      BY <2>2, <3>1, Zenon
  <2>3. CASE m # 0
    <3>1. m \in 1..L /\ m - 1 \in 0..L /\ m \in 1..m
      BY <1>1, <2>1, <2>3
    <3>2. g[m] = Turn(t, path, m, g[m - 1])
      BY <1>3, <3>1, Zenon
    <3>3. \A j \in 1..m : j \in 1..L /\ (j = m \/ j \in 1..(m - 1))
      BY <1>1, <3>1
    <3>4. CASE None(m - 1)
      <4>1. Mount!Better(t[m], g[m - 1])
        BY <3>4, Zenon DEF Mount!Better
      <4>2. CASE Mount!Covers(t[m], path)
        <5>1. g[m] = t[m]
          BY <3>2, <4>1, <4>2, Zenon DEF Turn
        <5>2. ASSUME NEW j \in 1..m, Mount!Covers(t[j], path) PROVE j = m
          BY <3>3, <3>4, <5>2, Zenon
        <5>3. Len(t[m].path) \in Nat /\ ~(m < m)
          BY <1>1, <3>1
        <5>4. Len(t[m].path) <= Len(t[m].path)
          BY <5>3
        <5>5. Serves(t, path, m, m)
          BY <3>1, <4>2, <5>2, <5>3, <5>4, Zenon DEF Serves
        <5>6. Some(m)
          BY <3>1, <5>1, <5>5, Zenon
        <5> QED
          BY <5>6, Zenon
      <4>3. CASE ~Mount!Covers(t[m], path)
        <5>1. None(m)
          BY <3>2, <3>3, <3>4, <4>3, Zenon DEF Turn
        <5> QED
          BY <5>1, Zenon
      <4> QED
        BY <4>2, <4>3, Zenon
    <3>5. CASE Some(m - 1)
      <4>1. PICK k \in 1..(m - 1) : Serves(t, path, m - 1, k) /\ g[m - 1] = t[k]
        BY <3>5, Zenon
      <4>2. /\ k \in 1..m /\ k \in 1..L /\ k < m /\ ~(m < k)
            /\ Len(t[k].path) \in Nat /\ Len(t[m].path) \in Nat
        BY <1>1, <3>1, <4>1
      <4>3. g[m - 1] # Mount!NoMount
        BY <1>2, <4>1, <4>2, Zenon
      <4>4. CASE Mount!Covers(t[m], path) /\ Len(t[m].path) > Len(t[k].path)
        <5>1. g[m] = t[m]
          BY <3>2, <4>1, <4>4, Zenon DEF Turn, Mount!Better
        <5>2. ASSUME NEW j \in 1..m, Mount!Covers(t[j], path)
              PROVE  /\ Len(t[j].path) <= Len(t[m].path)
                     /\ j < m => Len(t[j].path) < Len(t[m].path)
          <6>1. j \in 1..L /\ (j = m \/ Len(t[j].path) <= Len(t[k].path))
            BY <3>3, <4>1, <5>2, Zenon DEF Serves
          <6>2. Len(t[j].path) \in Nat
            BY <1>1, <6>1, Zenon
          <6>3. CASE j = m
            BY <1>1, <3>1, <4>2, <6>3
          <6>4. CASE Len(t[j].path) <= Len(t[k].path)
            <7> DEFINE a == Len(t[j].path)
                       b == Len(t[k].path)
                       c == Len(t[m].path)
            <7>1. a \in Nat /\ b \in Nat /\ c \in Nat /\ a <= b /\ c > b
              BY <4>2, <4>4, <6>2, <6>4, Zenon
            <7> HIDE DEF a, b, c
            <7>2. a <= c /\ a < c
              BY <7>1
            <7> QED
              BY <7>2, Zenon DEF a, c
          <6> QED
            BY <6>1, <6>3, <6>4, Zenon
        <5>3. Some(m)
          BY <3>1, <4>4, <5>1, <5>2, Zenon DEF Serves
        <5> QED
          BY <5>3, Zenon
      <4>5. CASE ~(Mount!Covers(t[m], path) /\ Len(t[m].path) > Len(t[k].path))
        <5>1. g[m] = t[k]
          BY <3>2, <4>1, <4>3, <4>5, Zenon DEF Turn, Mount!Better
        <5>2. Mount!Covers(t[m], path) => Len(t[m].path) <= Len(t[k].path)
          BY <4>2, <4>5
        <5>3. ASSUME NEW j \in 1..m, Mount!Covers(t[j], path)
              PROVE  /\ Len(t[j].path) <= Len(t[k].path)
                     /\ j < k => Len(t[j].path) < Len(t[k].path)
          <6>1. CASE j = m
            BY <4>2, <5>2, <5>3, <6>1, Zenon
          <6>2. CASE j \in 1..(m - 1)
            BY <4>1, <5>3, <6>2, Zenon DEF Serves
          <6> QED
            BY <3>3, <6>1, <6>2, Zenon
        <5>4. Mount!Covers(t[k], path)
          BY <4>1, Zenon DEF Serves
        <5>5. Some(m)
          BY <4>2, <5>1, <5>3, <5>4, Zenon DEF Serves
        <5> QED
          BY <5>5, Zenon
      <4> QED
        BY <4>4, <4>5, Zenon
    <3> HIDE DEF None, Some
    <3> QED
      BY <3>1, <3>4, <3>5, Zenon
  <2> QED
    BY <2>2, <2>3, Zenon
<1>5. bad \in SUBSET Nat /\ L \in 0..L
  BY <1>1
<1> HIDE DEF bad
<1>6. bad = {}
  BY <1>4, <1>5, NoDescent, Zenon
<1> HIDE DEF None, Some
<1>7. None(L) \/ Some(L)
  BY <1>5, <1>6, Zenon DEF bad
<1> QED
  BY <1>3, <1>7, Zenon DEF None, Some, L

\* A sequence whose elements are entries is a table.
LEMMA TableFrom ==
  ASSUME NEW S, NEW u \in Seq(S), NEW n,
         \A k \in 1..Len(u) : u[k].path \in Seq(STRING) /\ u[k].data \in 0..n
  PROVE  IsTable(u, n)
<1> DEFINE T == {u[k] : k \in 1..Len(u)}
<1>1. Len(u) \in Nat /\ u \in [1..Len(u) -> S]
  BY LenProperties, Zenon
<1>2. u \in [1..Len(u) -> T]
  BY <1>1, Zenon
<1>3. u \in Seq(T)
  <2> HIDE DEF T
  <2> QED
    BY <1>1, <1>2
<1> QED
  BY <1>3, Zenon DEF IsTable

\* A table is a sequence of entries.
LEMMA TableParts ==
  ASSUME NEW t, NEW n \in Nat, IsTable(t, n), NEW m \in Nat, n <= m
  PROVE  /\ Len(t) \in Nat /\ t \in Seq({t[k] : k \in 1..Len(t)})
         /\ \A k \in 1..Len(t) : /\ t[k].path \in Seq(STRING) /\ Len(t[k].path) \in Nat
                                 /\ t[k].data \in 0..m
<1>1. \A x \in 0..n : x \in 0..m
  OBVIOUS
<1> QED
  BY <1>1, LenProperties, Zenon DEF IsTable

\* fs_mount of fs_mount.c adds an entry at the end.
LEMMA AppendTable ==
  ASSUME NEW t, NEW n \in Nat, IsTable(t, n), NEW m \in Nat, n <= m,
         NEW e, e.path \in Seq(STRING), e.data \in 0..m
  PROVE  /\ IsTable(Append(t, e), m)
         /\ Len(Append(t, e)) = Len(t) + 1
         /\ \A k \in 1..Len(t) : Append(t, e)[k] = t[k]
         /\ Append(t, e)[Len(t) + 1] = e
<1> DEFINE S == {t[k] : k \in 1..Len(t)}
           u == Append(t, e)
<1>1. t \in Seq(S) /\ Len(t) \in Nat
  BY TableParts, Zenon
<1> HIDE DEF S
<1>2. t \in Seq(S \cup {e}) /\ e \in S \cup {e}
  BY <1>1, SeqMonotonic, Zenon
<1>3. /\ u \in Seq(S \cup {e}) /\ Len(u) = Len(t) + 1
      /\ \A k \in 1..Len(t) : u[k] = t[k]
      /\ u[Len(t) + 1] = e
  BY <1>2, AppendProperties
<1> HIDE DEF u
<1>4. ASSUME NEW k \in 1..Len(u) PROVE u[k].path \in Seq(STRING) /\ u[k].data \in 0..m
  <2>1. CASE k = Len(t) + 1
    BY <1>3, <2>1, Zenon
  <2>2. CASE k \in 1..Len(t)
    BY <1>3, <2>2, TableParts, Zenon
  <2>3. k = Len(t) + 1 \/ k \in 1..Len(t)
    BY <1>1, <1>3
  <2> QED
    BY <2>1, <2>2, <2>3, Zenon
<1> QED
  BY <1>3, <1>4, TableFrom, Zenon DEF u

\* fs_register and fs_mount of fs_common.c add an entry at the front.
LEMMA PrependTable ==
  ASSUME NEW t, NEW n \in Nat, IsTable(t, n), NEW m \in Nat, n <= m,
         NEW e, e.path \in Seq(STRING), e.data \in 0..m
  PROVE  /\ IsTable(<<e>> \o t, m)
         /\ Len(<<e>> \o t) = Len(t) + 1
         /\ (<<e>> \o t)[1] = e
         /\ \A k \in 1..Len(t) : (<<e>> \o t)[k + 1] = t[k]
<1> DEFINE S == {t[k] : k \in 1..Len(t)}
           u == <<e>> \o t
<1>1. t \in Seq(S) /\ Len(t) \in Nat
  BY TableParts, Zenon
<1> HIDE DEF S
<1>2. /\ t \in Seq(S \cup {e}) /\ <<e>> \in Seq(S \cup {e})
      /\ Len(<<e>>) = 1 /\ <<e>>[1] = e
  BY <1>1, SeqMonotonic
<1>3. /\ u \in Seq(S \cup {e}) /\ Len(u) = Len(<<e>>) + Len(t)
      /\ \A k \in 1..(Len(<<e>>) + Len(t)) :
           u[k] = IF k <= Len(<<e>>) THEN <<e>>[k] ELSE t[k - Len(<<e>>)]
  BY <1>2, ConcatProperties, Zenon
<1> HIDE DEF u
<1>4. /\ Len(u) = Len(t) + 1 /\ u[1] = e
      /\ \A k \in 1..Len(t) : u[k + 1] = t[k]
  <2> DEFINE f == <<e>>
  <2>1. Len(f) = 1 /\ f[1] = e
    BY <1>2, Zenon
  <2>2. /\ Len(u) = Len(f) + Len(t)
        /\ \A k \in 1..(Len(f) + Len(t)) :
             u[k] = IF k <= Len(f) THEN f[k] ELSE t[k - Len(f)]
    BY <1>3, Zenon
  <2> HIDE DEF f
  <2> QED
    BY <1>1, <2>1, <2>2
<1>5. ASSUME NEW k \in 1..Len(u) PROVE u[k].path \in Seq(STRING) /\ u[k].data \in 0..m
  <2>1. CASE k = 1
    BY <1>4, <2>1, Zenon
  <2>2. CASE k - 1 \in 1..Len(t)
    <3>1. u[k] = t[k - 1]
      BY <1>1, <1>4, <2>2
    <3> QED
      BY <2>2, <3>1, TableParts, Zenon
  <2>3. k = 1 \/ k - 1 \in 1..Len(t)
    BY <1>1, <1>4
  <2> QED
    BY <2>1, <2>2, <2>3, Zenon
<1> QED
  BY <1>3, <1>4, <1>5, TableFrom, Zenon DEF u

\* fs_unmount takes an entry out and moves those behind it forward.
LEMMA WithoutTable ==
  ASSUME NEW t, NEW n \in Nat, IsTable(t, n), NEW i \in 1..Len(t)
  PROVE  IsTable(Mount!Without(t, i), n)
<1>0. n <= n
  OBVIOUS
<1> DEFINE S == {t[k] : k \in 1..Len(t)}
           u == Mount!Without(t, i)
<1>1. t \in Seq(S) /\ Len(t) \in Nat
  BY <1>0, TableParts, Zenon
<1> HIDE DEF S
<1>2. /\ u \in Seq(S) /\ Len(u) = Len(t) - 1
      /\ \A k \in 1..(Len(t) - 1) : u[k] = t[IF k < i THEN k ELSE k + 1]
  BY <1>1, WithoutProperties, Zenon
<1> HIDE DEF u
<1>3. ASSUME NEW k \in 1..Len(u) PROVE u[k].path \in Seq(STRING) /\ u[k].data \in 0..n
  <2> DEFINE m == IF k < i THEN k ELSE k + 1
  <2>1. m \in 1..Len(t) /\ k \in 1..(Len(t) - 1)
    BY <1>1, <1>2
  <2> HIDE DEF m
  <2>2. u[k] = t[m]
    BY <1>2, <2>1, Zenon DEF m
  <2> QED
    BY <1>0, <2>1, <2>2, TableParts, Zenon
<1> QED
  BY <1>2, <1>3, TableFrom, Zenon DEF u

-----------------------------------------------------------------------------
(* The table of fs_mount.c.                                                *)

\* Volumes are numbered from 1; the table and the live volumes agree.
TableInv ==
  /\ mounted \in Nat /\ IsTable(mount_points, mounted)
  /\ \A k \in 1..Len(mount_points) : mount_points[k].data # 0
  /\ Mount!VolumesLive

\* What the step does to the volume a path is served by.
Kept(path) ==
  LET old == Mount!find_mount_point(mount_points, path)
      new == Mount!find_mount_point(mount_points', path)
  IN  old # Mount!NoMount /\ new # old =>
        old.data \notin volumes' \/ Len(new.path) > Len(old.path)

\* Types of the invariant's parts.
LEMMA TableInvParts ==
  ASSUME TableInv
  PROVE  /\ mounted \in Nat /\ Len(mount_points) \in Nat
         /\ \A k \in 1..Len(mount_points) : /\ mount_points[k].data \in 1..mounted
                                            /\ Len(mount_points[k].path) \in Nat
<1>1. mounted \in Nat /\ mounted <= mounted
  BY DEF TableInv
<1>2. /\ Len(mount_points) \in Nat
      /\ \A k \in 1..Len(mount_points) : /\ mount_points[k].data \in 0..mounted
                                         /\ mount_points[k].data # 0
                                         /\ Len(mount_points[k].path) \in Nat
  BY <1>1, TableParts, Zenon DEF TableInv
<1>3. \A x \in 0..mounted : x # 0 => x \in 1..mounted
  BY <1>1
<1> QED
  BY <1>1, <1>2, <1>3, Zenon

\* A mount: the new volume is in the table once, and a path that was served
\* goes over to it only when it is deeper.
LEMMA AddMountStep ==
  ASSUME TableInv, NEW path \in Seq(STRING), NEW fs, Mount!AddMount(path, fs)
  PROVE  TableInv' /\ \A p \in Paths : Kept(p)
<1> DEFINE t == mount_points
           L == Len(t)
           n == mounted + 1
           e == [path |-> path, fs |-> fs, data |-> n, real |-> TRUE]
           u == Append(t, e)
<1>1. /\ mounted \in Nat /\ n \in Nat /\ n # 0 /\ mounted <= n /\ n \in 0..n /\ L \in Nat
      /\ \A k \in 1..L : t[k].data # n
  BY TableInvParts
<1>2. e.path = path /\ e.data = n
  BY Zenon
<1>3. mount_points' = u /\ mounted' = n /\ volumes' = volumes \cup {n}
  BY Zenon DEF Mount!AddMount
<1>4. /\ IsTable(t, mounted) /\ volumes = {t[k].data : k \in 1..L}
      /\ \A k \in 1..L : t[k].data # 0
      /\ \A j, k \in 1..L : t[j].data = t[k].data => j = k
  BY Zenon DEF TableInv, Mount!VolumesLive
<1> HIDE DEF t, L, n, e
<1>5. /\ IsTable(u, n) /\ Len(u) = L + 1 /\ u[L + 1] = e
      /\ \A k \in 1..L : u[k] = t[k]
  <2>1. e.path \in Seq(STRING) /\ e.data \in 0..n
    BY <1>1, <1>2, Zenon
  <2> QED
    BY <1>1, <1>4, <2>1, AppendTable, SMTT(30) DEF L
<1> HIDE DEF u
<1>6. \A k \in 1..(L + 1) : k \in 1..L \/ k = L + 1
  BY <1>1
<1>7. \A k \in 1..L : k \in 1..(L + 1)
  BY <1>1
<1>8. L + 1 \in 1..(L + 1)
  BY <1>1
<1>9. \A k \in 1..Len(u) : u[k].data # 0
  BY <1>1, <1>2, <1>4, <1>5, <1>6, Zenon
<1>10. volumes' = {u[k].data : k \in 1..Len(u)}
  <2>1. ASSUME NEW x \in volumes' PROVE \E k \in 1..(L + 1) : x = u[k].data
    <3>1. x = n \/ \E k \in 1..L : x = t[k].data
      BY <1>3, <1>4, Zenon
    <3> QED
      BY <1>2, <1>5, <1>7, <1>8, <3>1, Zenon
  <2>2. ASSUME NEW k \in 1..(L + 1) PROVE u[k].data \in volumes'
    <3>1. CASE k = L + 1
      BY <1>2, <1>3, <1>5, <3>1, Zenon
    <3>2. CASE k \in 1..L
      BY <1>3, <1>4, <1>5, <3>2, Zenon
    <3> QED
      BY <1>6, <3>1, <3>2, Zenon
  <2> QED
    BY <1>5, <2>1, <2>2, Zenon
<1>11. ASSUME NEW j \in 1..Len(u), NEW k \in 1..Len(u), u[j].data = u[k].data PROVE j = k
  <2>1. CASE j = L + 1 /\ k = L + 1
    BY <2>1, Zenon
  <2>2. CASE j \in 1..L /\ k \in 1..L
    BY <1>4, <1>5, <1>11, <2>2, Zenon
  <2>3. CASE j = L + 1 /\ k \in 1..L
    BY <1>1, <1>2, <1>5, <1>11, <2>3, Zenon
  <2>4. CASE k = L + 1 /\ j \in 1..L
    BY <1>1, <1>2, <1>5, <1>11, <2>4, Zenon
  <2> QED
    BY <1>5, <1>6, <2>1, <2>2, <2>3, <2>4, Zenon
<1>12. TableInv'
  <2>1. Mount!VolumesLive'
    BY <1>3, <1>10, <1>11, ZenonT(30) DEF Mount!VolumesLive
  <2> QED
    BY <1>1, <1>3, <1>5, <1>9, <2>1, Zenon DEF TableInv
<1>13. ASSUME NEW p \in Paths PROVE Kept(p)
  <2> DEFINE old == Mount!find_mount_point(t, p)
             new == Mount!find_mount_point(u, p)
  <2> SUFFICES ASSUME old # Mount!NoMount, new # old
               PROVE  Len(new.path) > Len(old.path)
    BY <1>3, Zenon DEF Kept, t
  <2>1. PICK k \in 1..L : Serves(t, p, L, k) /\ old = t[k]
    BY <1>4, LookupServes, Zenon DEF L, t
  <2>2. Mount!Covers(u[k], p) /\ k \in 1..(L + 1) /\ u[k] = t[k]
    BY <1>5, <1>7, <2>1, Zenon DEF Serves
  <2>3. PICK m \in 1..(L + 1) : Serves(u, p, L + 1, m) /\ new = u[m]
    <3>1. \/ \A j \in 1..Len(u) : ~Mount!Covers(u[j], p)
          \/ \E m \in 1..Len(u) : Serves(u, p, Len(u), m) /\ new = u[m]
      BY <1>5, <1>9, LookupServes, Zenon
    <3> QED
      BY <1>5, <2>2, <3>1, Zenon
  <2>4. CASE m \in 1..L
    <3>1. Serves(t, p, L, m)
      BY <1>5, <1>7, <2>3, <2>4, Zenon DEF Serves
    <3>2. m = k
      <4>1. \A i \in 1..L : Len(t[i].path) \in Nat
        BY TableInvParts, Zenon DEF t, L
      <4> QED
        BY <1>1, <2>1, <3>1, <4>1, ServesUnique, Zenon
    <3> QED
      BY <2>1, <2>2, <2>3, <3>2, Zenon
  <2>5. CASE m = L + 1
    <3>1. k < m
      BY <1>1, <2>1, <2>5
    <3>2. Len(u[k].path) < Len(u[m].path)
      BY <2>2, <2>3, <3>1, Zenon DEF Serves
    <3>3. Len(old.path) < Len(new.path)
      BY <2>1, <2>2, <2>3, <3>2, Zenon
    <3>4. \A x, y : x < y => y > x
      BY Zenon
    <3> QED
      BY <3>3, <3>4, Zenon
  <2> QED
    BY <1>6, <2>4, <2>5, Zenon
<1> QED
  BY <1>12, <1>13, Zenon

\* An unmount: its volume leaves the table, and every path served by another
\* one stays with it.
LEMMA UnmountStep ==
  ASSUME TableInv, NEW path, Mount!fs_unmount(path)
  PROVE  TableInv' /\ \A p \in Paths : Kept(p)
<1> DEFINE t == mount_points
           L == Len(t)
<1>1. PICK i \in 1..L : /\ mount_points' = Mount!Without(t, i)
                        /\ volumes' = volumes \ {t[i].data}
                        /\ mounted' = mounted
  BY Zenon DEF Mount!fs_unmount
<1> DEFINE u == Mount!Without(t, i)
           from(k) == IF k < i THEN k ELSE k + 1
           to(k) == IF k < i THEN k ELSE k - 1
<1>2. /\ mounted \in Nat /\ L \in Nat
      /\ \A k \in 1..L : Len(t[k].path) \in Nat
  BY TableInvParts, Zenon
<1>3. /\ IsTable(t, mounted) /\ volumes = {t[k].data : k \in 1..L}
      /\ \A k \in 1..L : t[k].data # 0
      /\ \A j, k \in 1..L : t[j].data = t[k].data => j = k
  BY Zenon DEF TableInv, Mount!VolumesLive
<1> HIDE DEF t, L
<1>4. IsTable(u, mounted)
  BY <1>2, <1>3, WithoutTable, Zenon DEF L
<1>5. Len(u) = L - 1 /\ \A k \in 1..(L - 1) : u[k] = t[from(k)]
  <2>1. t \in Seq({t[k] : k \in 1..Len(t)})
    BY <1>3, Zenon DEF IsTable
  <2> QED
    BY <2>1, WithoutProperties, Zenon DEF L
<1>6. /\ i \in 1..L
      /\ \A k \in 1..(L - 1) : from(k) \in 1..L /\ from(k) # i
      /\ \A k \in 1..L : k # i => to(k) \in 1..(L - 1) /\ from(to(k)) = k
      /\ \A j, k \in 1..(L - 1) : from(j) = from(k) => j = k
      /\ \A j, k \in 1..(L - 1) : j < k <=> from(j) < from(k)
  BY <1>2
<1> HIDE DEF u, from, to
<1>7. \A k \in 1..Len(u) : u[k].data # 0
  BY <1>3, <1>5, <1>6, ZenonT(30)
<1>8. volumes' = {u[k].data : k \in 1..Len(u)}
  <2>1. ASSUME NEW x \in volumes' PROVE \E k \in 1..Len(u) : x = u[k].data
    <3>1. PICK k \in 1..L : x = t[k].data /\ k # i
      BY <1>1, <1>3, Zenon
    <3>2. to(k) \in 1..(L - 1) /\ u[to(k)] = t[k]
      BY <1>5, <1>6, <3>1, Zenon
    <3> QED
      BY <1>5, <3>1, <3>2, Zenon
  <2>2. ASSUME NEW k \in 1..Len(u) PROVE u[k].data \in volumes'
    <3>1. u[k] = t[from(k)] /\ from(k) \in 1..L /\ from(k) # i
      BY <1>5, <1>6, Zenon
    <3> QED
      BY <1>1, <1>3, <1>6, <3>1, ZenonT(30)
  <2> QED
    BY <2>1, <2>2, Zenon
<1>9. ASSUME NEW j \in 1..Len(u), NEW k \in 1..Len(u), u[j].data = u[k].data PROVE j = k
  <2>1. /\ j \in 1..(L - 1) /\ k \in 1..(L - 1)
        /\ t[from(j)].data = t[from(k)].data /\ from(j) \in 1..L /\ from(k) \in 1..L
    BY <1>5, <1>6, <1>9, Zenon
  <2>2. from(j) = from(k)
    BY <1>3, <2>1, Zenon
  <2> QED
    BY <1>6, <2>1, <2>2, Zenon
<1>10. TableInv'
  <2>1. mount_points' = u
    BY <1>1, Zenon DEF u
  <2>2. Mount!VolumesLive'
    BY <1>8, <1>9, <2>1, Zenon DEF Mount!VolumesLive
  <2> QED
    BY <1>1, <1>2, <1>4, <1>7, <2>1, <2>2, Zenon DEF TableInv
<1>11. ASSUME NEW p \in Paths PROVE Kept(p)
  <2> DEFINE old == Mount!find_mount_point(t, p)
             new == Mount!find_mount_point(u, p)
  <2> SUFFICES ASSUME old # Mount!NoMount, old.data \in volumes'
               PROVE  new = old
    BY <1>1, Zenon DEF Kept, t, u
  <2>1. PICK k \in 1..L : Serves(t, p, L, k) /\ old = t[k]
    BY <1>3, LookupServes, Zenon DEF L, t
  <2>2. k # i
    BY <1>1, <2>1, Zenon
  <2>3. to(k) \in 1..(L - 1) /\ from(to(k)) = k /\ u[to(k)] = t[k]
    BY <1>5, <1>6, <2>2, Zenon
  <2>4. ASSUME NEW j \in 1..(L - 1), Mount!Covers(u[j], p)
        PROVE  /\ Len(u[j].path) <= Len(u[to(k)].path)
               /\ j < to(k) => Len(u[j].path) < Len(u[to(k)].path)
    <3>0. j < to(k) => from(j) < from(to(k))
      BY <1>6, <2>3, Zenon
    <3>1. u[j] = t[from(j)] /\ from(j) \in 1..L /\ (j < to(k) => from(j) < k)
      BY <1>5, <1>6, <2>3, <3>0, Zenon
    <3> QED
      BY <2>1, <2>3, <2>4, <3>1, Zenon DEF Serves
  <2>5. Serves(u, p, L - 1, to(k))
    BY <2>1, <2>3, <2>4, Zenon DEF Serves
  <2>6. PICK m \in 1..(L - 1) : Serves(u, p, L - 1, m) /\ new = u[m]
    <3>1. \/ \A j \in 1..Len(u) : ~Mount!Covers(u[j], p)
          \/ \E m \in 1..Len(u) : Serves(u, p, Len(u), m) /\ new = u[m]
      BY <1>4, <1>7, LookupServes, Zenon
    <3> QED
      BY <1>5, <2>3, <2>5, <3>1, Zenon DEF Serves
  <2>7. m = to(k)
    <3>1. L - 1 \in Nat
      BY <1>2, <1>6
    <3>2. \A j \in 1..(L - 1) : Len(u[j].path) \in Nat
      BY <1>2, <1>5, <1>6, Zenon
    <3> QED
      BY <2>5, <2>6, <3>1, <3>2, ServesUnique, Zenon
  <2> QED
    BY <2>1, <2>3, <2>6, <2>7, Zenon
<1> QED
  BY <1>10, <1>11, Zenon

\* Every step of fs_mount.c keeps the invariant, and what serves a path.
LEMMA MountStep ==
  ASSUME TableInv, Mount!Next
  PROVE  TableInv' /\ \A p \in Paths : Kept(p)
<1>1. CASE UNCHANGED <<mount_points, volumes, mounted>>
  <2>1. TableInv'
    BY <1>1, Zenon DEF TableInv, Mount!VolumesLive
  <2>2. \A p \in Paths : Kept(p)
    BY <1>1, Zenon DEF Kept
  <2> QED
    BY <2>1, <2>2, Zenon
<1>2. ASSUME NEW path \in Paths, NEW fs, Mount!fs_mount(path, fs)
      PROVE  TableInv' /\ \A p \in Paths : Kept(p)
  <2>1. path \in Seq(STRING) /\ Mount!AddMount(path, fs)
    BY <1>2, LayerAssumption, Zenon DEF Mount!fs_mount
  <2> QED
    BY <2>1, AddMountStep, Zenon
<1>3. ASSUME NEW path \in Paths, Mount!fs_unmount(path)
      PROVE  TableInv' /\ \A p \in Paths : Kept(p)
  BY <1>3, UnmountStep, Zenon
<1>4. ASSUME NEW found, Mount!fs_init(found)
      PROVE  TableInv' /\ \A p \in Paths : Kept(p)
  <2>1. \/ UNCHANGED <<mount_points, volumes, mounted>>
        \/ \E fs : Mount!AddMount(<< >>, fs)
    BY <1>4, Zenon DEF Mount!fs_init
  <2>2. << >> \in Seq(STRING)
    BY EmptySeq, Zenon
  <2> QED
    BY <1>1, <2>1, <2>2, AddMountStep, Zenon
<1>5. ASSUME NEW fs, Mount!fs_register(fs) PROVE UNCHANGED <<mount_points, volumes, mounted>>
  BY <1>5, Zenon DEF Mount!fs_register
<1>6. ASSUME NEW path, NEW supported, Mount!FileOperation(path, supported)
      PROVE  UNCHANGED <<mount_points, volumes, mounted>>
  BY <1>6, Zenon DEF Mount!FileOperation
<1> QED
  BY <1>1, <1>2, <1>3, <1>4, <1>5, <1>6, Zenon DEF Mount!Next

-----------------------------------------------------------------------------
(* The table of fs_common.c.                                               *)

\* Volumes are numbered from 1, registrations have number 0; the list and the
\* live volumes agree.
ListInv ==
  /\ list_mounted \in Nat /\ IsTable(list, list_mounted)
  /\ \A k \in 1..Len(list) : list[k].real <=> list[k].data # 0
  /\ Common!VolumesLive

\* The volumes of a list with registrations are those of its other entries.
Agree(t, live) ==
  LET V == {k \in 1..Len(t) : t[k].real}
  IN  /\ live = {t[k].data : k \in V}
      /\ \A j, k \in V : t[j].data = t[k].data => j = k

\* VolumesLive says so of the list, before a step and after it.
LEMMA ListAgrees ==
  /\ Common!VolumesLive <=> Agree(list, list_volumes)
  /\ Common!VolumesLive' <=> Agree(list', list_volumes')
BY Zenon DEF Common!VolumesLive, Common!Volumes, Agree

\* A new entry at the front, with a volume or without.
LEMMA PrependStep ==
  ASSUME ListInv, NEW e, NEW real \in BOOLEAN, NEW m \in Nat,
         e.path \in Seq(STRING), e.real = real,
         list_mounted <= m,
         IF real THEN e.data = m /\ m = list_mounted + 1 ELSE e.data = 0,
         list' = <<e>> \o list, list_mounted' = m,
         list_volumes' = IF real THEN list_volumes \cup {m} ELSE list_volumes
  PROVE  ListInv'
<1> DEFINE t == list
           L == Len(t)
           u == <<e>> \o t
           V == {k \in 1..L : t[k].real}
           W == {k \in 1..Len(u) : u[k].real}
<1>1. /\ list_mounted \in Nat /\ IsTable(t, list_mounted)
      /\ list_volumes = {t[k].data : k \in V}
      /\ \A k \in 1..L : t[k].real <=> t[k].data # 0
      /\ \A j, k \in V : t[j].data = t[k].data => j = k
  BY Zenon DEF ListInv, Common!VolumesLive, Common!Volumes
<1> HIDE DEF t, L
<1>2. list' = u
  BY Zenon DEF t
<1>3. L \in Nat /\ \A k \in 1..L : t[k].data \in 0..list_mounted
  <2>1. list_mounted <= list_mounted
    BY <1>1
  <2> QED
    BY <1>1, <2>1, TableParts, Zenon DEF L
<1>4. e.data \in 0..m /\ (real => e.data # 0 /\ \A k \in 1..L : t[k].data # e.data)
  BY <1>1, <1>3
<1>5. /\ IsTable(u, m) /\ Len(u) = L + 1 /\ u[1] = e
      /\ \A k \in 1..L : u[k + 1] = t[k]
  BY <1>1, <1>4, PrependTable, SMTT(30) DEF L
<1> HIDE DEF u
<1>6. /\ 1 \in 1..(L + 1)
      /\ \A k \in 1..L : k + 1 \in 1..(L + 1)
      /\ \A k \in 1..(L + 1) : k = 1 \/ \E j \in 1..L : k = j + 1
  <2>1. \A k \in 1..(L + 1) : k = 1 \/ (k - 1 \in 1..L /\ k = (k - 1) + 1)
    BY <1>3
  <2>2. 1 \in 1..(L + 1) /\ \A k \in 1..L : k + 1 \in 1..(L + 1)
    BY <1>3
  <2> QED
    BY <2>1, <2>2, Zenon
<1>0. /\ \A k : k \in V <=> k \in 1..L /\ t[k].real
      /\ \A k : k \in W <=> k \in 1..(L + 1) /\ u[k].real
  BY <1>5, Zenon
<1>11. ASSUME list_volumes' = {u[k].data : k \in W},
              \A j, k \in W : u[j].data = u[k].data => j = k
       PROVE  Common!VolumesLive'
  <2>1. Agree(u, list_volumes')
    BY <1>11, Zenon DEF Agree
  <2> QED
    BY <1>2, <2>1, ListAgrees, Zenon
<1> HIDE DEF V, W
<1>7. ASSUME NEW k \in 1..Len(u) PROVE u[k].real <=> u[k].data # 0
  <2>1. CASE k = 1
    BY <1>4, <1>5, <2>1, Zenon
  <2>2. ASSUME NEW j \in 1..L, k = j + 1 PROVE u[k].real <=> u[k].data # 0
    BY <1>1, <1>5, <2>2, Zenon
  <2> QED
    BY <1>5, <1>6, <2>1, <2>2, Zenon
<1>8. list_volumes' = {u[k].data : k \in W}
  <2>1. ASSUME NEW x \in list_volumes' PROVE \E k \in W : x = u[k].data
    <3>1. CASE real /\ x = m
      <4>1. 1 \in W /\ u[1].data = x
        BY <1>0, <1>5, <1>6, <3>1, Zenon
      <4> QED
        BY <4>1, Zenon
    <3>2. ASSUME NEW k \in V, x = t[k].data PROVE \E j \in W : x = u[j].data
      <4>1. k + 1 \in W /\ u[k + 1] = t[k]
        BY <1>0, <1>5, <1>6, ZenonT(30)
      <4> QED
        BY <3>2, <4>1, Zenon
    <3> QED
      BY <1>1, <3>1, <3>2, Zenon
  <2>2. ASSUME NEW k \in W PROVE u[k].data \in list_volumes'
    <3>1. CASE k = 1
      BY <1>0, <1>5, <3>1, Zenon
    <3>2. ASSUME NEW j \in 1..L, k = j + 1 PROVE u[k].data \in list_volumes'
      <4>1. u[k] = t[j] /\ j \in V
        BY <1>0, <1>5, <3>2, Zenon
      <4> QED
        BY <1>1, <4>1, Zenon
    <3> QED
      BY <1>0, <1>6, <3>1, <3>2, Zenon
  <2>3. list_volumes' \subseteq {u[k].data : k \in W}
    BY <2>1, Zenon
  <2>4. {u[k].data : k \in W} \subseteq list_volumes'
    BY <2>2, Zenon
  <2>5. \A X, Y : X \subseteq Y /\ Y \subseteq X => X = Y
    BY Zenon
  <2> QED
    BY <2>3, <2>4, <2>5, Zenon
<1>9. ASSUME NEW j \in W, NEW k \in W, u[j].data = u[k].data PROVE j = k
  <2>1. ASSUME NEW i \in W
        PROVE  (i = 1 /\ real) \/ \E h \in V : i = h + 1 /\ u[i] = t[h]
    <3>1. CASE i = 1
      BY <1>0, <1>5, <3>1, Zenon
    <3>2. ASSUME NEW g \in 1..L, i = g + 1 PROVE g \in V /\ u[i] = t[g]
      BY <1>0, <1>5, <3>2, Zenon
    <3> QED
      BY <1>0, <1>6, <3>1, <3>2, Zenon
  <2>2. \A h \in V : real => t[h].data # e.data
    BY <1>0, <1>4, Zenon
  <2>3. CASE j = 1 /\ k # 1
    <3>1. PICK g \in V : u[k] = t[g]
      BY <2>1, <2>3, Zenon
    <3>2. real /\ u[j] = e
      <4>1. ~ \E h \in V : 1 = h + 1
        BY <1>0, <1>3
      <4> QED
        BY <1>5, <2>1, <2>3, <4>1, Zenon
    <3> QED
      BY <1>9, <2>2, <3>1, <3>2, Zenon
  <2>4. CASE j # 1 /\ k = 1
    <3>1. PICK g \in V : u[j] = t[g]
      BY <2>1, <2>4, Zenon
    <3>2. real /\ u[k] = e
      <4>1. ~ \E h \in V : 1 = h + 1
        BY <1>0, <1>3
      <4> QED
        BY <1>5, <2>1, <2>4, <4>1, Zenon
    <3> QED
      BY <1>9, <2>2, <3>1, <3>2, Zenon
  <2>5. CASE j # 1 /\ k # 1
    <3>1. PICK g \in V : j = g + 1 /\ u[j] = t[g]
      BY <2>1, <2>5, Zenon
    <3>2. PICK i \in V : k = i + 1 /\ u[k] = t[i]
      BY <2>1, <2>5, Zenon
    <3> QED
      BY <1>1, <1>9, <3>1, <3>2, Zenon
  <2> QED
    BY <2>3, <2>4, <2>5, Zenon
<1>10. Common!VolumesLive'
  BY <1>8, <1>9, <1>11, Zenon
<1> QED
  BY <1>2, <1>5, <1>7, <1>10, Zenon DEF ListInv

\* fs_unmount takes out a volume or a registration.
LEMMA ListUnmountStep ==
  ASSUME ListInv, NEW path, Common!fs_unmount(path)
  PROVE  ListInv'
<1> DEFINE t == list
           L == Len(t)
<1>1. PICK i \in 1..L : /\ list' = Common!Without(t, i)
                        /\ list_volumes' = list_volumes \ {t[i].data}
                        /\ list_mounted' = list_mounted
  BY Zenon DEF Common!fs_unmount
<1> DEFINE u == Mount!Without(t, i)
           from(k) == IF k < i THEN k ELSE k + 1
           to(k) == IF k < i THEN k ELSE k - 1
           V == {k \in 1..L : t[k].real}
           W == {k \in 1..Len(u) : u[k].real}
<1>2. list' = u
  BY <1>1, Zenon DEF Common!Without, Mount!Without
<1>3. /\ list_mounted \in Nat /\ IsTable(t, list_mounted)
      /\ list_volumes = {t[k].data : k \in V}
      /\ \A k \in 1..L : t[k].real <=> t[k].data # 0
      /\ \A j, k \in V : t[j].data = t[k].data => j = k
  BY Zenon DEF ListInv, Common!VolumesLive, Common!Volumes
<1> HIDE DEF t, L
<1>4. L \in Nat /\ IsTable(u, list_mounted)
  <2>1. list_mounted <= list_mounted
    BY <1>3
  <2>2. L \in Nat
    BY <1>3, <2>1, TableParts, Zenon DEF L
  <2> QED
    BY <1>3, <2>2, WithoutTable, Zenon DEF L
<1>5. Len(u) = L - 1 /\ \A k \in 1..(L - 1) : u[k] = t[from(k)]
  <2>1. t \in Seq({t[k] : k \in 1..Len(t)})
    BY <1>3, Zenon DEF IsTable
  <2> QED
    BY <2>1, WithoutProperties, Zenon DEF L
<1>6. /\ i \in 1..L
      /\ \A k \in 1..(L - 1) : from(k) \in 1..L /\ from(k) # i
      /\ \A k \in 1..L : k # i => to(k) \in 1..(L - 1) /\ from(to(k)) = k
      /\ \A j, k \in 1..(L - 1) : from(j) = from(k) => j = k
  BY <1>4
<1> HIDE DEF u, from, to
<1>7. /\ \A k : k \in V <=> k \in 1..L /\ t[k].real
      /\ \A k : k \in W <=> k \in 1..(L - 1) /\ u[k].real
  BY <1>5, Zenon
<1>8. ASSUME list_volumes' = {u[k].data : k \in W},
             \A j, k \in W : u[j].data = u[k].data => j = k
      PROVE  Common!VolumesLive'
  <2>1. Agree(u, list_volumes')
    BY <1>8, Zenon DEF Agree
  <2> QED
    BY <1>2, <2>1, ListAgrees, Zenon
<1> HIDE DEF V, W
<1>9. \A k \in 1..Len(u) : u[k].real <=> u[k].data # 0
  BY <1>3, <1>5, <1>6, ZenonT(30)
<1>10. \A k \in W : u[k] = t[from(k)] /\ from(k) \in V /\ from(k) # i
  BY <1>5, <1>6, <1>7, Zenon
<1>11. \A k \in V : t[k].data # t[i].data => k # i /\ to(k) \in W /\ u[to(k)] = t[k]
  BY <1>5, <1>6, <1>7, Zenon
<1>12. \A k \in V : k # i => t[k].data # t[i].data
  <2>1. ASSUME NEW k \in V, k # i, t[k].data = t[i].data PROVE FALSE
    <3>1. i \in V
      BY <1>3, <1>6, <1>7, <2>1, Zenon
    <3> QED
      BY <1>3, <2>1, <3>1, Zenon
  <2> QED
    BY <2>1, Zenon
<1>13. list_volumes' = {u[k].data : k \in W}
  <2>1. ASSUME NEW x \in list_volumes' PROVE \E k \in W : x = u[k].data
    <3>1. PICK k \in V : x = t[k].data /\ t[k].data # t[i].data
      BY <1>1, <1>3, Zenon
    <3> QED
      BY <1>11, <3>1, Zenon
  <2>2. ASSUME NEW k \in W PROVE u[k].data \in list_volumes'
    <3>1. t[from(k)].data \in list_volumes /\ t[from(k)].data # t[i].data
      BY <1>3, <1>10, <1>12, Zenon
    <3> QED
      BY <1>1, <1>10, <3>1, Zenon
  <2> QED
    BY <2>1, <2>2, Zenon
<1>14. ASSUME NEW j \in W, NEW k \in W, u[j].data = u[k].data PROVE j = k
  <2>1. t[from(j)].data = t[from(k)].data /\ from(j) \in V /\ from(k) \in V
    BY <1>10, <1>14, Zenon
  <2>2. from(j) = from(k)
    BY <1>3, <2>1, Zenon
  <2> QED
    BY <1>6, <1>7, <2>2, Zenon
<1>15. Common!VolumesLive'
  BY <1>8, <1>13, <1>14, Zenon
<1> QED
  BY <1>1, <1>2, <1>3, <1>4, <1>9, <1>15, Zenon DEF ListInv

\* Every step of fs_common.c keeps the invariant.
LEMMA CommonStep ==
  ASSUME ListInv, Common!Next
  PROVE  ListInv'
<1>0. list_mounted \in Nat /\ list_mounted <= list_mounted /\ list_mounted <= list_mounted + 1
      /\ list_mounted + 1 \in Nat
  BY DEF ListInv
<1>1. ASSUME NEW fs, Common!fs_register(fs) PROVE ListInv'
  <2> DEFINE e == [path |-> << >>, fs |-> fs, data |-> 0, real |-> FALSE]
  <2>1. /\ list' = <<e>> \o list /\ list_mounted' = list_mounted
        /\ list_volumes' = list_volumes
    BY <1>1, Zenon DEF Common!fs_register
  <2>2. e.path \in Seq(STRING) /\ e.real = FALSE /\ e.data = 0
    BY EmptySeq, Zenon
  <2> HIDE DEF e
  <2> QED
    BY <1>0, <2>1, <2>2, PrependStep, Zenon
<1>2. ASSUME NEW path \in Paths, NEW fs, NEW memory \in BOOLEAN,
             Common!fs_mount(path, fs, memory)
      PROVE  ListInv'
  <2> DEFINE m == list_mounted + 1
             e == [path |-> path, fs |-> fs, data |-> m, real |-> TRUE]
  <2>1. list_mounted' = m
    BY <1>2, Zenon DEF Common!fs_mount
  <2>2. CASE memory
    <3>1. list' = <<e>> \o list /\ list_volumes' = list_volumes \cup {m}
      BY <1>2, <2>1, <2>2, Zenon DEF Common!fs_mount
    <3>2. e.path \in Seq(STRING) /\ e.real = TRUE /\ e.data = m
      BY LayerAssumption, Zenon
    <3> HIDE DEF e
    <3> QED
      BY <1>0, <2>1, <3>1, <3>2, PrependStep, Zenon
  <2>3. CASE ~memory
    <3>1. list' = list /\ list_volumes' = list_volumes
      BY <1>2, <2>3, Zenon DEF Common!fs_mount, Common!NoMemory
    <3>2. \A x \in 0..list_mounted : x \in 0..m
      BY <1>0
    <3>3. IsTable(list, m)
      BY <3>2, Zenon DEF ListInv, IsTable
    <3>4. Common!VolumesLive'
      BY <3>1, ListAgrees, Zenon DEF ListInv
    <3> QED
      BY <1>0, <2>1, <3>1, <3>3, <3>4, Zenon DEF ListInv
  <2> QED
    BY <2>2, <2>3, Zenon
<1> QED
  BY <1>1, <1>2, ListUnmountStep, Zenon DEF Common!Next

-----------------------------------------------------------------------------

\* Both tables keep their invariants.
TablesInv == TableInv /\ ListInv

\* Both tables are empty at the start.
LEMMA TablesInitInv == TablesInit => TablesInv
<1> SUFFICES ASSUME TablesInit PROVE TablesInv
  BY Zenon
<1>1. /\ mount_points = << >> /\ volumes = {} /\ mounted = 0
      /\ list = << >> /\ list_volumes = {} /\ list_mounted = 0
  BY Zenon DEF TablesInit, Mount!Init, Common!Init
<1>2. << >> \in Seq({}) /\ Len(<< >>) = 0 /\ 1..0 = {} /\ 0 \in Nat
  BY EmptySeq
<1>3. IsTable(<< >>, 0)
  BY <1>2, TableFrom, Zenon
<1>4. Mount!VolumesLive
  BY <1>1, <1>2, Zenon DEF Mount!VolumesLive
<1>5. Common!VolumesLive
  BY <1>1, <1>2, Zenon DEF Common!VolumesLive, Common!Volumes
<1> QED
  BY <1>1, <1>2, <1>3, <1>4, <1>5, Zenon DEF TablesInv, TableInv, ListInv

\* A step of one table leaves the other alone.
LEMMA TablesStep ==
  ASSUME TablesInv, [TablesNext]_<<tableVars, listVars>>
  PROVE  TablesInv'
<1>1. UNCHANGED tableVars /\ TableInv => TableInv'
  BY Zenon DEF tableVars, TableInv, Mount!VolumesLive
<1>2. UNCHANGED listVars /\ ListInv => ListInv'
  BY ListAgrees, Zenon DEF listVars, ListInv
<1> QED
  BY <1>1, <1>2, MountStep, CommonStep, Zenon DEF TablesInv, TablesNext

\* The invariant holds in every reachable state of both tables.
THEOREM TablesCorrect == TablesSpec => []TablesInv
BY TablesInitInv, TablesStep, PTL DEF TablesSpec

\* In both mount tables each live volume has exactly one entry, and each entry
\* that is no registration has a live volume.
THEOREM VolumesLiveCorrect == TablesSpec => []VolumesLive
<1>1. TablesInv => VolumesLive
  BY Zenon DEF TablesInv, TableInv, ListInv, VolumesLive
<1> QED
  BY <1>1, TablesCorrect, PTL

\* What a path means in fs_mount.c changes only by a deeper mount or when its
\* own volume is unmounted.
THEOREM NeverShadowedCorrect == TablesSpec => NeverShadowed
<1> DEFINE A == [\A path \in Paths : Kept(path)]_(Mount!vars)
<1>1. TablesInv /\ [TablesNext]_<<tableVars, listVars>> => A
  <2>1. UNCHANGED tableVars => UNCHANGED Mount!vars
    BY Zenon DEF tableVars, Mount!vars
  <2> QED
    BY <2>1, MountStep, Zenon DEF TablesInv, TablesNext
<1>2. A <=> [\A path \in Paths :
              LET old == Mount!find_mount_point(mount_points, path)
                  new == Mount!find_mount_point(mount_points', path)
              IN  old # Mount!NoMount /\ new # old =>
                    old.data \notin volumes' \/ Len(new.path) > Len(old.path)]_(Mount!vars)
  BY Zenon DEF Kept
<1> QED
  BY <1>1, <1>2, TablesCorrect, PTL DEF TablesSpec, NeverShadowed, Mount!NeverShadowed

=============================================================================

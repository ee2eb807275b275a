--------------------------- MODULE CoachDeskProofs ---------------------------
(***************************************************************************)
(* What the coach's side keeps, for any number of requests that overlap:   *)
(* the files (videos in S3, uploads of the chat, documents of the knowledge*)
(* base), and what a coach is shown and told (plays and the roadmap, the   *)
(* conversation, the tools of an agent, the research on the web).          *)
(***************************************************************************)
EXTENDS MCCoachDesk, CoachRecordsProofs, WellFoundedInduction

-----------------------------------------------------------------------------
(* Sums.  The sizes of some rows of a table, as MapThenSumSet adds them up:  *)
(* the sum does not depend on the order in which the rows are chosen.        *)

Sizes(table, S) == MapThenSumSet(LAMBDA x : table[x].size, S)

AddsUp(h, table, S) ==
  h = [s \in SUBSET S |->
         IF s = {} THEN 0
         ELSE table[CHOOSE x \in s : TRUE].size + h[s \ {CHOOSE x \in s : TRUE}]]

\* Among finite subsets of a finite set that are bad, one has no bad set with
\* fewer elements.
LEMMA LeastSubset ==
  ASSUME NEW S, IsFiniteSet(S), NEW Bad \in SUBSET (SUBSET S), Bad # {}
  PROVE  \E s \in Bad : \A t \in SUBSET S : Cardinality(t) < Cardinality(s) => t \notin Bad
<1> DEFINE Sized == {Cardinality(s) : s \in Bad}
<1>1. \A s \in SUBSET S : Cardinality(s) \in Nat
  BY FS_Subset, FS_CardinalityType
<1>2. Sized \in SUBSET Nat /\ Sized # {}
  BY <1>1
<1>3. PICK n \in Sized : \A m \in Sized : n <= m
  <2> HIDE DEF Sized
  <2> QED
    BY <1>2, LeastOf
<1>4. PICK s \in Bad : Cardinality(s) = n
  BY <1>3
<1>5. ASSUME NEW t \in SUBSET S, Cardinality(t) < Cardinality(s), t \in Bad
      PROVE  FALSE
  BY <1>1, <1>3, <1>4, <1>5
<1> QED
  BY <1>4, <1>5

\* Less an element, a finite set is smaller.
LEMMA Less ==
  ASSUME NEW S, IsFiniteSet(S), NEW s \in SUBSET S, NEW x \in s
  PROVE  /\ s \ {x} \in SUBSET S /\ IsFiniteSet(s) /\ IsFiniteSet(s \ {x})
         /\ Cardinality(s \ {x}) < Cardinality(s)
<1>1. IsFiniteSet(s) /\ IsFiniteSet(s \ {x})
  BY FS_Subset
<1>2. Cardinality(s \ {x}) = Cardinality(s) - 1 /\ Cardinality(s) \in Nat
  BY <1>1, FS_RemoveElement, FS_CardinalityType
<1> QED
  BY <1>1, <1>2

\* Two ways to add up agree on the sets both know.
LEMMA OneSum ==
  ASSUME NEW A, NEW B, IsFiniteSet(A), NEW table, NEW g, NEW h,
         AddsUp(g, table, A), AddsUp(h, table, B)
  PROVE  \A s \in SUBSET (A \cap B) : g[s] = h[s]
<1> DEFINE Bad == {s \in SUBSET (A \cap B) : g[s] # h[s]}
<1>1. SUFFICES ASSUME Bad # {} PROVE FALSE
  OBVIOUS
<1>2. IsFiniteSet(A \cap B)
  BY FS_Subset
<1>3. PICK s \in Bad : \A t \in SUBSET (A \cap B) : Cardinality(t) < Cardinality(s) => t \notin Bad
  <2>1. Bad \in SUBSET (SUBSET (A \cap B))
    OBVIOUS
  <2> HIDE DEF Bad
  <2> QED
    BY <1>1, <1>2, <2>1, LeastSubset
<1>4. s # {}
  BY DEF AddsUp
<1> DEFINE x == CHOOSE x \in s : TRUE
<1>5. x \in s
  BY <1>4
<1>6. s \ {x} \in SUBSET (A \cap B) /\ Cardinality(s \ {x}) < Cardinality(s)
  BY <1>2, <1>5, Less
<1>7. g[s \ {x}] = h[s \ {x}]
  BY <1>3, <1>6
<1>8. g[s] = table[x].size + g[s \ {x}] /\ h[s] = table[x].size + h[s \ {x}]
  BY <1>4 DEF AddsUp
<1> QED
  BY <1>3, <1>7, <1>8

\* There is a way to add up any finite set.
LEMMA SumExists ==
  ASSUME NEW A, IsFiniteSet(A), NEW table
  PROVE  \E h : AddsUp(h, table, A)
<1> DEFINE Bad == {s \in SUBSET A : ~ \E h : AddsUp(h, table, s)}
<1>1. SUFFICES ASSUME Bad # {} PROVE FALSE
  OBVIOUS
<1>3. PICK T \in Bad : \A t \in SUBSET A : Cardinality(t) < Cardinality(T) => t \notin Bad
  <2>1. Bad \in SUBSET (SUBSET A)
    OBVIOUS
  <2> HIDE DEF Bad
  <2> QED
    BY <1>1, <2>1, LeastSubset
<1>4. IsFiniteSet(T)
  BY FS_Subset
<1> DEFINE G(s) == CHOOSE h : AddsUp(h, table, s)
           e(s) == CHOOSE x \in s : TRUE
           H == [s \in SUBSET T |->
                   IF s = {} THEN 0 ELSE table[e(s)].size + G(s \ {e(s)})[s \ {e(s)}]]
<1>5. ASSUME NEW s \in SUBSET T, s # {}
      PROVE  /\ e(s) \in s /\ s \ {e(s)} \in SUBSET T /\ IsFiniteSet(s \ {e(s)})
             /\ AddsUp(G(s \ {e(s)}), table, s \ {e(s)})
  <2>1. e(s) \in s
    BY <1>5
  <2>2. PICK x \in s : x = e(s)
    BY <2>1
  <2>3. s \ {x} \in SUBSET T /\ IsFiniteSet(s \ {x}) /\ Cardinality(s \ {x}) < Cardinality(s)
        /\ IsFiniteSet(s)
    BY <1>4, Less
  <2>4. Cardinality(s \ {x}) < Cardinality(T)
    <3>1. Cardinality(s) <= Cardinality(T)
      BY <1>4, FS_Subset
    <3>2. Cardinality(s) \in Nat /\ Cardinality(T) \in Nat /\ Cardinality(s \ {x}) \in Nat
      BY <1>4, <2>3, FS_CardinalityType
    <3> QED
      BY <2>3, <3>1, <3>2
  <2>5. s \ {x} \in SUBSET A /\ s \ {x} \notin Bad
    BY <1>3, <2>4, <2>3
  <2>6. \E h : AddsUp(h, table, s \ {x})
    BY <2>5
  <2>7. AddsUp(G(s \ {x}), table, s \ {x})
    <3> HIDE DEF e
    <3> QED
    BY <2>6
  <2> QED
    BY <2>1, <2>2, <2>3, <2>7
<1>6. ASSUME NEW s \in SUBSET T, s # {}
      PROVE  H[s \ {e(s)}] = G(s \ {e(s)})[s \ {e(s)}]
  <2> DEFINE u == s \ {e(s)}
  <2>1. u \in SUBSET T /\ IsFiniteSet(u) /\ AddsUp(G(u), table, u)
    BY <1>5, <1>6
  <2>2. CASE u = {}
    BY <2>1, <2>2 DEF AddsUp
  <2>3. CASE u # {}
    <3>1. /\ e(u) \in u /\ IsFiniteSet(u \ {e(u)})
          /\ AddsUp(G(u \ {e(u)}), table, u \ {e(u)})
      <4> HIDE DEF u, e, G
      <4> QED
      BY <1>5, <2>1, <2>3
    <3>2. H[u] = table[e(u)].size + G(u \ {e(u)})[u \ {e(u)}]
      <4> HIDE DEF u, e, G
      <4> QED
      BY <2>1, <2>3
    <3>3. G(u)[u] = table[e(u)].size + G(u)[u \ {e(u)}]
      <4> HIDE DEF u, G
      <4> QED
      BY <2>1, <2>3 DEF AddsUp
    <3>4. G(u)[u \ {e(u)}] = G(u \ {e(u)})[u \ {e(u)}]
      <4>1. u \ {e(u)} \in SUBSET (u \cap (u \ {e(u)}))
        <5> HIDE DEF u, e
        <5> QED
          OBVIOUS
      <4> HIDE DEF u, e, G
      <4> QED
      BY SMTT(30), <2>1, <3>1, <4>1, OneSum
    <3> QED
      BY <3>2, <3>3, <3>4
  <2> QED
    BY <2>2, <2>3
<1>7. AddsUp(H, table, T)
  <2>1. \A s \in SUBSET T :
          H[s] = IF s = {} THEN 0 ELSE table[e(s)].size + H[s \ {e(s)}]
    <3>1. \A s \in SUBSET T : s # {} => H[s \ {e(s)}] = G(s \ {e(s)})[s \ {e(s)}]
      BY <1>6
    <3> HIDE DEF e, G
    <3> QED
      BY <3>1
  <2>2. H = [s \in SUBSET T |-> H[s]]
    <3> HIDE DEF e, G
    <3> QED
      OBVIOUS
  <2> HIDE DEF H
  <2> QED
    BY <2>1, <2>2 DEF AddsUp
<1> QED
  BY <1>3, <1>7

\* The sum over a finite set: nothing of the empty set, else some element and the rest.
LEMMA SizesSplit ==
  ASSUME NEW S, IsFiniteSet(S), NEW table
  PROVE  Sizes(table, S) =
           IF S = {} THEN 0
           ELSE table[CHOOSE x \in S : TRUE].size + Sizes(table, S \ {CHOOSE x \in S : TRUE})
<1> DEFINE G(A) == CHOOSE h : AddsUp(h, table, A)
           x == CHOOSE x \in S : TRUE
<1>1. \A A : Sizes(table, A) = G(A)[A]
  BY DEF Sizes, MapThenSumSet, MapThenFoldSet, AddsUp
<1>2. AddsUp(G(S), table, S)
  BY SumExists
<1>3. CASE S = {}
  <2>1. G(S)[S] = 0
    <3> HIDE DEF G
    <3> QED
      BY <1>2, <1>3 DEF AddsUp
  <2> QED
    BY <1>1, <1>3, <2>1
<1>4. CASE S # {}
  <2>1. IsFiniteSet(S \ {x})
    BY FS_RemoveElement
  <2>2. AddsUp(G(S \ {x}), table, S \ {x})
    <3> HIDE DEF x
    <3> QED
      BY <2>1, SumExists
  <2>3. G(S)[S] = table[x].size + G(S)[S \ {x}]
    <3> HIDE DEF G
    <3> QED
      BY <1>2, <1>4 DEF AddsUp
  <2>4. G(S)[S \ {x}] = G(S \ {x})[S \ {x}]
    <3> HIDE DEF G, x
    <3>1. S \ {x} \in SUBSET (S \cap (S \ {x}))
      OBVIOUS
    <3> QED
      BY <1>2, <2>2, <3>1, OneSum
  <2> QED
    BY <1>1, <1>4, <2>3, <2>4
<1> QED
  BY <1>3, <1>4

\* Sizes are numbers, and so is their sum.
LEMMA SizesType ==
  ASSUME NEW S, IsFiniteSet(S), NEW table, \A x \in S : table[x].size \in Nat
  PROVE  Sizes(table, S) \in Nat
<1> DEFINE Bad == {s \in SUBSET S : Sizes(table, s) \notin Nat}
<1>1. SUFFICES ASSUME Bad # {} PROVE FALSE
  OBVIOUS
<1>2. PICK s \in Bad : \A t \in SUBSET S : Cardinality(t) < Cardinality(s) => t \notin Bad
  <2>1. Bad \in SUBSET (SUBSET S)
    OBVIOUS
  <2> HIDE DEF Bad
  <2> QED
    BY <1>1, <2>1, LeastSubset
<1>3. IsFiniteSet(s)
  BY FS_Subset
<1>4. Sizes(table, s) =
        IF s = {} THEN 0
        ELSE table[CHOOSE x \in s : TRUE].size + Sizes(table, s \ {CHOOSE x \in s : TRUE})
  BY <1>3, SizesSplit
<1>5. CASE s = {}
  BY <1>2, <1>4, <1>5
<1>6. CASE s # {}
  <2>1. PICK x \in s : x = CHOOSE z \in s : TRUE
    BY <1>6
  <2>2. s \ {x} \in SUBSET S /\ Cardinality(s \ {x}) < Cardinality(s)
    BY Less
  <2>3. Sizes(table, s \ {x}) \in Nat
    BY <1>2, <2>2
  <2>4. Sizes(table, s) = table[x].size + Sizes(table, s \ {x})
    BY <1>4, <1>6, <2>1
  <2>5. table[x].size \in Nat
    OBVIOUS
  <2> QED
    BY <1>2, <2>3, <2>4, <2>5
<1> QED
  BY <1>5, <1>6

\* Any element may be taken out of a sum.
LEMMA SizesOfRest ==
  ASSUME NEW S, IsFiniteSet(S), NEW table, \A x \in S : table[x].size \in Nat, NEW y \in S
  PROVE  Sizes(table, S) = table[y].size + Sizes(table, S \ {y})
<1> DEFINE Bad == {s \in SUBSET S :
                     \E z \in s : Sizes(table, s) # table[z].size + Sizes(table, s \ {z})}
<1>1. SUFFICES ASSUME Bad # {} PROVE FALSE
  OBVIOUS
<1>2. PICK s \in Bad : \A t \in SUBSET S : Cardinality(t) < Cardinality(s) => t \notin Bad
  <2>1. Bad \in SUBSET (SUBSET S)
    OBVIOUS
  <2> HIDE DEF Bad
  <2> QED
    BY <1>1, <2>1, LeastSubset
<1>3. PICK z \in s : Sizes(table, s) # table[z].size + Sizes(table, s \ {z})
  BY <1>2
<1>4. IsFiniteSet(s)
  BY FS_Subset
<1>5. PICK x \in s : x = CHOOSE w \in s : TRUE
  BY <1>3
<1>6. Sizes(table, s) = table[x].size + Sizes(table, s \ {x})
  BY <1>4, <1>5, SizesSplit
<1>7. x # z
  BY <1>3, <1>6
<1>8. /\ s \ {x} \in SUBSET S /\ Cardinality(s \ {x}) < Cardinality(s)
      /\ s \ {z} \in SUBSET S /\ Cardinality(s \ {z}) < Cardinality(s)
  BY Less
<1>9. Sizes(table, s \ {x}) = table[z].size + Sizes(table, (s \ {x}) \ {z})
  BY <1>2, <1>7, <1>8
<1>10. Sizes(table, s \ {z}) = table[x].size + Sizes(table, (s \ {z}) \ {x})
  BY <1>2, <1>7, <1>8
<1>11. (s \ {x}) \ {z} = (s \ {z}) \ {x}
  OBVIOUS
<1>12. Sizes(table, (s \ {x}) \ {z}) \in Nat
  <2>1. IsFiniteSet((s \ {x}) \ {z})
    BY <1>4, FS_RemoveElement
  <2> QED
    BY <2>1, SizesType
<1>13. PICK m \in Nat, a \in Nat, b \in Nat :
          m = Sizes(table, (s \ {x}) \ {z}) /\ a = table[x].size /\ b = table[z].size
  BY <1>12
<1>14. Sizes(table, s \ {x}) = b + m /\ Sizes(table, s \ {z}) = a + m
  BY <1>9, <1>10, <1>11, <1>13
<1>15. Sizes(table, s) = a + (b + m) /\ Sizes(table, s) # b + (a + m)
  BY <1>3, <1>6, <1>13, <1>14
<1> QED
  BY <1>15

\* Where each row of one set has a row of its own of at least its size in another,
\* the other is at least as much.
LEMMA SizesCovered ==
  ASSUME NEW S, IsFiniteSet(S), NEW T, IsFiniteSet(T), NEW few, NEW many,
         \A x \in S : few[x].size \in Nat, \A y \in T : many[y].size \in Nat,
         NEW own \in [S -> T],
         \A x \in S : few[x].size <= many[own[x]].size,
         \A x, z \in S : own[x] = own[z] => x = z
  PROVE  Sizes(few, S) <= Sizes(many, T)
<1> DEFINE Owned(s) == {own[x] : x \in s}
           Bad == {s \in SUBSET S : \E t \in SUBSET T :
                     Owned(s) \subseteq t /\ ~(Sizes(few, s) <= Sizes(many, t))}
<1>1. SUFFICES ASSUME Bad # {} PROVE FALSE
  <2>1. Owned(S) \subseteq T
    OBVIOUS
  <2> QED
    BY <2>1
<1>2. PICK s \in Bad : \A t \in SUBSET S : Cardinality(t) < Cardinality(s) => t \notin Bad
  <2>1. Bad \in SUBSET (SUBSET S)
    OBVIOUS
  <2> HIDE DEF Bad
  <2> QED
    BY <1>1, <2>1, LeastSubset
<1>3. PICK t \in SUBSET T : Owned(s) \subseteq t /\ ~(Sizes(few, s) <= Sizes(many, t))
  BY <1>2
<1>4. IsFiniteSet(s) /\ IsFiniteSet(t)
  BY FS_Subset
<1>5. Sizes(few, s) \in Nat /\ Sizes(many, t) \in Nat
  BY <1>4, SizesType
<1>6. CASE s = {}
  <2>1. Sizes(few, s) = 0
    BY <1>4, <1>6, SizesSplit
  <2> QED
    BY <1>3, <1>5, <2>1
<1>7. CASE s # {}
  <2>1. PICK x \in s : TRUE
    BY <1>7
  <2>2. own[x] \in t /\ x \in S
    BY <1>3
  <2>3. Sizes(few, s) = few[x].size + Sizes(few, s \ {x})
    BY <1>4, SizesOfRest
  <2>4. Sizes(many, t) = many[own[x]].size + Sizes(many, t \ {own[x]})
    BY <1>4, <2>2, SizesOfRest
  <2>5. s \ {x} \in SUBSET S /\ Cardinality(s \ {x}) < Cardinality(s)
    BY Less
  <2>6. Owned(s \ {x}) \subseteq t \ {own[x]}
    BY <1>3
  <2>7. t \ {own[x]} \in SUBSET T
    OBVIOUS
  <2>8. Sizes(few, s \ {x}) <= Sizes(many, t \ {own[x]})
    <3> HIDE DEF Owned
    <3> QED
      BY <1>2, <2>5, <2>6, <2>7
  <2>9. /\ few[x].size \in Nat /\ many[own[x]].size \in Nat
        /\ few[x].size <= many[own[x]].size
    BY <2>2
  <2>10. Sizes(few, s \ {x}) \in Nat /\ Sizes(many, t \ {own[x]}) \in Nat
    <3>1. IsFiniteSet(s \ {x}) /\ IsFiniteSet(t \ {own[x]})
      BY <1>4, FS_RemoveElement
    <3> QED
      BY <3>1, SizesType
  <2>11. PICK a \in Nat, d \in Nat, b \in Nat, c \in Nat :
           /\ a = few[x].size /\ d = many[own[x]].size /\ b = Sizes(few, s \ {x}) /\ c = Sizes(many, t \ {own[x]})
    BY <2>9, <2>10
  <2> QED
    BY <1>3, <2>3, <2>4, <2>8, <2>9, <2>11
<1> QED
  BY <1>6, <1>7

-----------------------------------------------------------------------------
(* Videos.  A row registered in good order names a file that went through,  *)
(* and its size is at least the file's; the file is gone before that row,   *)
(* and before the transaction that deletes it ends.                         *)

VideosInv ==
  /\ ScoutingVideosTypeOK
  /\ \A v \in DOMAIN videos : videos[v].inOrder =>
       /\ videos[v].key \in File
       /\ bucket[videos[v].key].state \in {"stored", "gone"}
       /\ bucket[videos[v].key].size <= videos[v].size
       /\ videos[v].row = "deleted" \/ v \in deleting => bucket[videos[v].key].state = "gone"

S3File == [size : 0..UploadMax, state : {"none", "put", "parts", "stored", "gone"}]
VideoRow == [key : File \cup {External}, size : 0..UploadMax,
             row : {"live", "deleted", "purged"}, inOrder : BOOLEAN]

\* The table as a function, and its rows.
LEMMA VideoShape ==
  ASSUME VideosInv
  PROVE  /\ Len(videos) \in Nat /\ videos \in [1..Len(videos) -> VideoRow]
         /\ DOMAIN videos = 1..Len(videos)
         /\ \A v \in DOMAIN videos :
              /\ videos[v].key \in File \cup {External} /\ videos[v].size \in 0..UploadMax
              /\ videos[v].row \in {"live", "deleted", "purged"} /\ videos[v].inOrder \in BOOLEAN
<1>1. videos \in Seq(VideoRow)
  BY DEF VideosInv, ScoutingVideosTypeOK, VideoRow
<1>2. /\ Len(videos) \in Nat /\ videos \in [1..Len(videos) -> VideoRow]
      /\ DOMAIN videos = 1..Len(videos)
  BY <1>1
<1>3. \A v \in DOMAIN videos : videos[v] \in VideoRow
  BY <1>2
<1> QED
  BY <1>2, <1>3 DEF VideoRow

\* The table as it is rewritten row by row.
LEMMA VideosRewritten ==
  ASSUME VideosInv, NEW new \in [DOMAIN videos -> VideoRow]
  PROVE  new \in Seq([key : File \cup {External}, size : 0..UploadMax,
                     row : {"live", "deleted", "purged"}, inOrder : BOOLEAN])
<1>1. new \in Seq(VideoRow)
  BY VideoShape
<1> QED
  BY <1>1 DEF VideoRow

LEMMA VideosInitially == ScoutingVideosInit => VideosInv
  BY DEF ScoutingVideosInit, VideosInv, ScoutingVideosTypeOK, NoFile, UploadMax, LiveVideos

\* A step that adds no row, changes none but how far it is, and moves files on.
LEMMA UploadKeeps ==
  ASSUME VideosInv, NEW k \in File,
         \/ \E size \in 1..UploadMax : PresignUpload(k, size)
         \/ PutFile(k)
         \/ CompleteMultipart(k)
  PROVE  VideosInv'
<1>1. PICK b \in S3File : bucket' = [bucket EXCEPT ![k] = b]
  <2>1. ASSUME NEW size \in 1..UploadMax, PresignUpload(k, size)
        PROVE  \E b \in S3File : bucket' = [bucket EXCEPT ![k] = b]
    <3>1. PICK s \in {"put", "parts"} : s = IF size <= SinglePutMax THEN "put" ELSE "parts"
      OBVIOUS
    <3>2. bucket' = [bucket EXCEPT ![k] = [size |-> size, state |-> s]]
      BY <2>1, <3>1 DEF PresignUpload
    <3>3. size \in 0..UploadMax
      BY DEF UploadMax
    <3>4. [size |-> size, state |-> s] \in S3File
      BY <3>1, <3>3 DEF S3File
    <3> QED
      BY <3>2, <3>4
  <2>2. ASSUME PutFile(k) \/ CompleteMultipart(k)
        PROVE  \E b \in S3File : bucket' = [bucket EXCEPT ![k] = b]
    <3>1. bucket' = [bucket EXCEPT ![k] = [bucket[k] EXCEPT !.state = "stored"]]
      BY <2>2 DEF PutFile, CompleteMultipart, SetFile
    <3>2. [bucket[k] EXCEPT !.state = "stored"] \in S3File
      BY DEF VideosInv, ScoutingVideosTypeOK, S3File
    <3> QED
      BY <3>1, <3>2
  <2> QED
    BY <2>1, <2>2
<1>2. bucket[k].state \notin {"stored", "gone"} /\ UNCHANGED <<videos, deleting>>
  BY DEF PresignUpload, PutFile, CompleteMultipart, NoFile
<1>3. \A v \in DOMAIN videos : videos[v].inOrder => videos[v].key # k
  BY <1>2 DEF VideosInv
<1> QED
  BY <1>1, <1>2, <1>3 DEF VideosInv, ScoutingVideosTypeOK, LiveVideos, S3File

LEMMA RegisterKeeps ==
  ASSUME VideosInv,
         \/ \E key \in File \cup {External}, size \in 0..UploadMax : RegisterVideo(key, size)
         \/ RegisterExternalVideo
  PROVE  VideosInv'
<1>1. CASE UNCHANGED videos
  <2>1. UNCHANGED <<bucket, deleting>>
    BY DEF RegisterVideo, RegisterExternalVideo
  <2> QED
    BY <1>1, <2>1 DEF VideosInv, ScoutingVideosTypeOK, LiveVideos
<1>2. ASSUME NEW key \in File \cup {External}, NEW size \in 0..UploadMax, InsertVideo(key, size),
             UNCHANGED <<bucket, deleting>>
      PROVE  VideosInv'
  <2>0. PICK told \in BOOLEAN : told = InOrder(key, size)
    BY DEF InOrder
  <2> DEFINE row == [key |-> key, size |-> size, row |-> "live", inOrder |-> told]
             Rows == [key : File \cup {External}, size : 0..UploadMax,
                      row : {"live", "deleted", "purged"}, inOrder : BOOLEAN]
  <2>1. videos \in Seq(Rows) /\ row \in Rows
    BY DEF VideosInv, ScoutingVideosTypeOK
  <2>2. videos' = Append(videos, row)
    BY <1>2, <2>0 DEF InsertVideo
  <2>3. videos' \in Seq(Rows)
    <3> HIDE DEF row, Rows
    <3> QED
      BY <2>1, <2>2
  <2>4. /\ DOMAIN videos \subseteq DOMAIN videos'
        /\ \A v \in DOMAIN videos : videos'[v] = videos[v]
        /\ \A v \in DOMAIN videos' \ DOMAIN videos : videos'[v] = row
    <3> HIDE DEF row, Rows
    <3> QED
      BY <2>1, <2>2
  <2>5. deleting' \subseteq LiveVideos' /\ deleting' \subseteq DOMAIN videos
    BY <1>2, <2>4 DEF VideosInv, ScoutingVideosTypeOK, LiveVideos
  <2>6. ScoutingVideosTypeOK'
    BY <1>2, <2>3, <2>5 DEF VideosInv, ScoutingVideosTypeOK
  <2>7. ASSUME NEW v \in DOMAIN videos', videos'[v].inOrder
        PROVE  /\ videos'[v].key \in File
               /\ bucket[videos'[v].key].state \in {"stored", "gone"}
               /\ bucket[videos'[v].key].size <= videos'[v].size
               /\ (videos'[v].row = "deleted" \/ v \in deleting) =>
                    bucket[videos'[v].key].state = "gone"
    <3>1. CASE v \in DOMAIN videos
      BY <2>4, <2>7, <3>1 DEF VideosInv
    <3>2. CASE v \notin DOMAIN videos
      <4>1. videos'[v] = row
        BY <2>4, <3>2
      <4>2. told /\ videos'[v].key = key /\ videos'[v].size = size /\ videos'[v].row = "live"
        BY <2>7, <4>1
      <4>3. key \in File /\ bucket[key].state = "stored" /\ bucket[key].size <= size
        <5>1. key \in File => bucket[key].size \in Int /\ size \in Int
          BY DEF VideosInv, ScoutingVideosTypeOK, UploadMax
        <5> QED
          BY <2>0, <4>2, <5>1 DEF InOrder
      <4> HIDE DEF row, Rows
      <4> QED
        BY <1>2, <2>5, <3>2, <4>2, <4>3
    <3> QED
      BY <3>1, <3>2
  <2> QED
    BY <1>2, <2>6, <2>7 DEF VideosInv
<1>3. ASSUME NEW key \in File \cup {External}, NEW size \in 0..UploadMax,
             RegisterVideo(key, size), ~ UNCHANGED videos
      PROVE  VideosInv'
  <2>1. InsertVideo(key, size) /\ UNCHANGED <<bucket, deleting>>
    BY <1>3 DEF RegisterVideo
  <2> QED
    BY <1>2, <2>1
<1>4. ASSUME RegisterExternalVideo
      PROVE  VideosInv'
  <2>1. 0 \in 0..UploadMax
    BY DEF UploadMax
  <2> QED
    BY <1>2, <1>4, <2>1, ScoutingVideosAssumption DEF RegisterExternalVideo
<1> QED
  BY <1>1, <1>3, <1>4

LEMMA DeleteKeeps ==
  ASSUME VideosInv, NEW v \in DOMAIN videos,
         DeleteVideoFile(v) \/ DeleteVideoCommit(v) \/ DeleteVideoAbort(v)
  PROVE  VideosInv'
<1>1. CASE DeleteVideoFile(v)
  <2>1. CASE RemoveFile(v)
    <3>1. PICK k \in File : k = videos[v].key
      BY <2>1 DEF RemoveFile
    <3>2. /\ v \in LiveVideos /\ deleting' = deleting \cup {v} /\ UNCHANGED videos
      BY <1>1, <2>1 DEF DeleteVideoFile, RemoveFile
    <3>3. CASE bucket[k].state = "stored"
      <4>1. bucket' = [bucket EXCEPT ![k] = [bucket[k] EXCEPT !.state = "gone"]]
        BY <2>1, <3>1, <3>3 DEF RemoveFile, SetFile
      <4>2. /\ bucket[k] \in S3File /\ bucket \in [File -> S3File]
            /\ [bucket[k] EXCEPT !.state = "gone"] \in S3File
        BY DEF VideosInv, ScoutingVideosTypeOK, S3File
      <4>3. /\ bucket' \in [File -> S3File]
            /\ bucket'[k].state = "gone" /\ bucket'[k].size = bucket[k].size
            /\ \A j \in File \ {k} : bucket'[j] = bucket[j]
        BY <4>1, <4>2 DEF S3File
      <4>4. ScoutingVideosTypeOK'
        BY <3>2, <4>3 DEF VideosInv, ScoutingVideosTypeOK, S3File, LiveVideos
      <4> QED
        BY <3>1, <3>2, <4>3, <4>4 DEF VideosInv
    <3>4. CASE bucket[k].state # "stored"
      <4>1. UNCHANGED bucket
        BY <2>1, <3>1, <3>4 DEF RemoveFile
      <4> QED
        BY <3>1, <3>2, <3>4, <4>1 DEF VideosInv, ScoutingVideosTypeOK, LiveVideos
    <3> QED
      BY <3>3, <3>4
  <2>2. CASE videos[v].key = External /\ deleting' = deleting \cup {v} /\ UNCHANGED bucket
    BY <1>1, <2>2, ScoutingVideosAssumption
       DEF DeleteVideoFile, VideosInv, ScoutingVideosTypeOK, LiveVideos
  <2> QED
    BY <1>1, <2>1, <2>2 DEF DeleteVideoFile
<1>2. CASE DeleteVideoCommit(v)
  <2>1. /\ videos' = [videos EXCEPT ![v] = [@ EXCEPT !.row = "deleted"]]
        /\ v \in deleting /\ deleting' = deleting \ {v} /\ UNCHANGED bucket
    BY <1>2 DEF DeleteVideoCommit
  <2>2. videos \in [DOMAIN videos -> VideoRow] /\ [videos[v] EXCEPT !.row = "deleted"] \in VideoRow
    BY VideoShape DEF VideoRow
  <2>3. videos' \in [DOMAIN videos -> VideoRow] /\ DOMAIN videos' = DOMAIN videos
    BY <2>1, <2>2
  <2>4. \A w \in DOMAIN videos :
          /\ videos'[w].key = videos[w].key /\ videos'[w].size = videos[w].size
          /\ videos'[w].inOrder = videos[w].inOrder
          /\ videos'[w].row = IF w = v THEN "deleted" ELSE videos[w].row
    BY <2>1, <2>2 DEF VideoRow
  <2>5. videos' \in Seq([key : File \cup {External}, size : 0..UploadMax,
                        row : {"live", "deleted", "purged"}, inOrder : BOOLEAN])
    BY <2>3, VideosRewritten
  <2> QED
    BY <2>1, <2>3, <2>4, <2>5 DEF VideosInv, ScoutingVideosTypeOK, LiveVideos
<1>3. CASE DeleteVideoAbort(v)
  BY <1>3 DEF DeleteVideoAbort, VideosInv, ScoutingVideosTypeOK, LiveVideos
<1> QED
  BY <1>1, <1>2, <1>3

LEMMA PurgeKeeps == VideosInv /\ PurgeVideos => VideosInv'
<1> SUFFICES ASSUME VideosInv, PurgeVideos PROVE VideosInv'
  OBVIOUS
<1>1. /\ videos' = [v \in DOMAIN videos |-> videos'[v]]
      /\ \A v \in DOMAIN videos :
           videos'[v] = IF v \in LiveVideos THEN [videos[v] EXCEPT !.row = "purged"] ELSE videos[v]
      /\ deleting' = {} /\ UNCHANGED bucket
  BY DEF PurgeVideos
<1>2. \A v \in DOMAIN videos :
        /\ videos'[v] \in VideoRow
        /\ videos'[v].key = videos[v].key /\ videos'[v].size = videos[v].size
        /\ videos'[v].inOrder = videos[v].inOrder
        /\ videos'[v].row = "deleted" => videos[v].row = "deleted"
  <2>1. \A v \in DOMAIN videos : videos[v] \in VideoRow
    BY VideoShape
  <2> QED
    BY <1>1, <2>1 DEF VideoRow
<1>3. videos' \in [DOMAIN videos -> VideoRow] /\ DOMAIN videos' = DOMAIN videos
  BY <1>1, <1>2
<1>4. videos' \in Seq([key : File \cup {External}, size : 0..UploadMax,
                       row : {"live", "deleted", "purged"}, inOrder : BOOLEAN])
  BY <1>3, VideosRewritten
<1> QED
  BY <1>1, <1>2, <1>3, <1>4 DEF VideosInv, ScoutingVideosTypeOK

LEMMA VideosStep == VideosInv /\ [ScoutingVideosNext]_scoutingVideoVars => VideosInv'
<1> SUFFICES ASSUME VideosInv, [ScoutingVideosNext]_scoutingVideoVars PROVE VideosInv'
  OBVIOUS
<1>1. CASE UNCHANGED scoutingVideoVars
  BY <1>1 DEF scoutingVideoVars, VideosInv, ScoutingVideosTypeOK, LiveVideos
<1>2. CASE ScoutingVideosNext
  BY <1>2, UploadKeeps, RegisterKeeps, DeleteKeeps, PurgeKeeps DEF ScoutingVideosNext
<1> QED
  BY <1>1, <1>2

\* A file that S3 holds and that is registered has a live row of its size.
LEMMA QuotaCovers == VideosInv => QuotaCoversFiles
<1> SUFFICES ASSUME VideosInv PROVE QuotaCoversFiles
  OBVIOUS
<1> DEFINE held == {k \in File : bucket[k].state = "stored" /\ Registered(k)}
           own == [k \in held |-> CHOOSE v \in LiveVideos : videos[v].key = k /\ videos[v].inOrder]
<1>1. \A k \in held : \E v \in LiveVideos : videos[v].key = k /\ videos[v].inOrder
  <2> SUFFICES ASSUME NEW k \in held
               PROVE  \E v \in LiveVideos : videos[v].key = k /\ videos[v].inOrder
    OBVIOUS
  <2>1. PICK v \in DOMAIN videos :
          videos[v].key = k /\ videos[v].inOrder /\ videos[v].row # "purged"
    BY DEF Registered
  <2>2. videos[v].row # "deleted"
    BY <2>1 DEF VideosInv
  <2> QED
    BY <2>1, <2>2, VideoShape DEF LiveVideos
<1>2. \A k \in held : own[k] \in LiveVideos /\ videos[own[k]].key = k /\ videos[own[k]].inOrder
  BY <1>1
<1>3. own \in [held -> LiveVideos] /\ \A k, j \in held : own[k] = own[j] => k = j
  <2>1. own = [k \in held |-> own[k]]
    OBVIOUS
  <2> HIDE DEF own
  <2> QED
    BY <1>2, <2>1
<1>4. \A k \in held : bucket[k].size \in Nat /\ bucket[k].size <= videos[own[k]].size
  <2> HIDE DEF own
  <2> QED
    BY <1>2 DEF VideosInv, ScoutingVideosTypeOK, LiveVideos, UploadMax
<1>5. \A v \in LiveVideos : videos[v].size \in Nat
  BY VideoShape DEF LiveVideos, UploadMax
<1>7. IsFiniteSet(LiveVideos)
  <2>1. IsFiniteSet(DOMAIN videos)
    <3>1. DOMAIN videos = 1..Len(videos) /\ Len(videos) \in Nat
      BY VideoShape
    <3> QED
      BY <3>1, FS_Interval
  <2> QED
    BY <2>1, FS_Subset DEF LiveVideos
<1>6. IsFiniteSet(held)
  <2>1. own \in Injection(held, LiveVideos)
    <3> HIDE DEF own, held
    <3> QED
      BY <1>3 DEF Injection, IsInjective
  <2> HIDE DEF own, held
  <2> QED
    BY <1>7, <2>1, FS_Injection
<1>8. Sizes(bucket, held) <= Sizes(videos, LiveVideos)
  <2> HIDE DEF held, own
  <2> QED
    BY <1>3, <1>4, <1>5, <1>6, <1>7, SizesCovered
<1> QED
  BY <1>8 DEF QuotaCoversFiles, StorageUsed, Sizes

-----------------------------------------------------------------------------
(* Documents.  What a run has noted, and what it has added so far, is there: *)
(* the collection only grows, and a run goes back to the walk when it fails. *)

Ingestion ==
  [step : {"walk", "extract", "add"}, todo : SUBSET Document, doc : SUBSET Document,
   digest : 0..MaxEdit, files : [Document -> 0..MaxEdit], text : 0..MaxEdit,
   added : 0..(Batches - 1)]

\* A batch is there, of version x unless the document is stale.
HasBatch(d, b, x) ==
  \E c \in collection : c.doc = d /\ c.batch = b /\ (d \in stale \/ c.text = x)

\* What run r of the ingestion relies on.
RunIsSound(r) ==
  /\ \A d \in Document \ blank :
       r.files[d] # Unrecorded => \A b \in 1..Batches : HasBatch(d, b, r.files[d])
  /\ r.step \in {"extract", "add"} => \E d \in Document : r.doc = {d}
  /\ r.step # "add" => r.added = 0
  /\ r.step = "add" =>
       /\ r.text # Unrecorded
       /\ \A d \in r.doc :
            /\ d \in stale \/ r.text = r.digest
            /\ \A b \in 1..r.added : HasBatch(d, b, r.text)

RunsAreSound == \A i \in Ingester : ingests[i] # Waiting => RunIsSound(ingests[i])

IngestInv == IngestTypeOK /\ RecordedIsWhole /\ RunsAreSound

LEMMA IngestInitially == IngestInit => IngestInv
  BY KnowledgeIngestAssumption
     DEF IngestInit, IngestInv, IngestTypeOK, RecordedIsWhole, RunsAreSound, Unrecorded, Waiting

\* A run under way and its columns.
LEMMA RunColumns ==
  ASSUME IngestTypeOK, NEW i \in Ingester, ingests[i] # Waiting
  PROVE  /\ ingests[i] \in Ingestion
         /\ ingests[i].step \in {"walk", "extract", "add"}
         /\ ingests[i].todo \in SUBSET Document /\ ingests[i].doc \in SUBSET Document
         /\ ingests[i].digest \in 0..MaxEdit /\ ingests[i].files \in [Document -> 0..MaxEdit]
         /\ ingests[i].text \in 0..MaxEdit /\ ingests[i].added \in 0..(Batches - 1)
<1>1. ingests[i] \in Ingestion
  BY DEF IngestTypeOK, Ingestion
<1> QED
  BY <1>1 DEF Ingestion

\* Only run i moves.
OnlyRun(i) ==
  /\ ingests' = [j \in Ingester |-> ingests'[j]]
  /\ \A j \in Ingester \ {i} : ingests'[j] = ingests[j]

\* A run that goes on, while the collection and the failures only grow and the
\* manifest stays, keeps the invariant when it is sound afterwards.
LEMMA RunGoesOn ==
  ASSUME IngestInv, NEW i \in Ingester, OnlyRun(i),
         ingests'[i] # Waiting => ingests'[i] \in Ingestion /\ RunIsSound(ingests[i])',
         collection \subseteq collection',
         collection' \subseteq [doc : Document, batch : 1..Batches, text : 1..MaxEdit],
         \A c, e \in collection' : c.doc = e.doc /\ c.batch = e.batch => c = e,
         blank \subseteq blank', blank' \subseteq Document,
         stale \subseteq stale', stale' \subseteq Document,
         library' = library, manifest' = manifest, ingested' \in 0..MaxRun
  PROVE  IngestInv'
<1>1. ingests' \in [Ingester -> {Waiting} \cup Ingestion]
  BY DEF OnlyRun, IngestInv, IngestTypeOK, Ingestion
<1>2. IngestTypeOK'
  BY <1>1 DEF IngestInv, IngestTypeOK, Ingestion
<1>3. \A d, b, x : HasBatch(d, b, x) => HasBatch(d, b, x)'
  BY DEF HasBatch
<1>4. RecordedIsWhole'
  <2>1. \A d \in Document \ blank : manifest[d] # Unrecorded =>
          \A b \in 1..Batches : HasBatch(d, b, manifest[d])
    BY DEF IngestInv, RecordedIsWhole, HasBatch
  <2>2. ASSUME NEW d \in Document \ blank', manifest'[d] # Unrecorded, NEW b \in 1..Batches
        PROVE  HasBatch(d, b, manifest[d])'
    <3>1. PICK x : x = manifest[d] /\ x = manifest'[d]
      OBVIOUS
    <3>2. HasBatch(d, b, x)'
      BY <1>3, <2>1, <2>2, <3>1
    <3> QED
      BY <3>1, <3>2
  <2> QED
    BY <2>2 DEF IngestInv, RecordedIsWhole, HasBatch
<1>5. ASSUME NEW j \in Ingester, j # i, ingests'[j] # Waiting
      PROVE  RunIsSound(ingests[j])'
  <2>1. ingests'[j] = ingests[j] /\ RunIsSound(ingests[j])
    BY <1>5 DEF OnlyRun, IngestInv, RunsAreSound
  <2> QED
    BY <1>3, <2>1 DEF RunIsSound
<1> QED
  BY <1>2, <1>4, <1>5 DEF IngestInv, RunsAreSound

LEMMA BeginKeeps ==
  ASSUME IngestInv, NEW i \in Ingester, NEW readable \in BOOLEAN, BeginIngest(i, readable)
  PROVE  IngestInv'
<1> DEFINE none == [d \in Document |-> Unrecorded]
<1>1. none \in [Document -> 0..MaxEdit] /\ manifest \in [Document -> 0..MaxEdit]
  BY KnowledgeIngestAssumption DEF IngestInv, IngestTypeOK, Unrecorded
<1>2. PICK f \in [Document -> 0..MaxEdit] :
        f = (IF readable THEN manifest ELSE none) /\ (f = manifest \/ f = none)
  <2> HIDE DEF none
  <2>1. CASE readable
    BY <1>1, <2>1
  <2>2. CASE ~readable
    BY <1>1, <2>2
  <2> QED
    BY <2>1, <2>2
<1> DEFINE r == [step |-> "walk", todo |-> Document, doc |-> {}, digest |-> Unrecorded,
                 files |-> f, text |-> Unrecorded, added |-> 0]
<1>3. /\ ingests' = [ingests EXCEPT ![i] = r]
      /\ UNCHANGED <<library, manifest, collection, blank, stale>> /\ ingested' \in 0..MaxRun
  BY <1>2, KnowledgeIngestAssumption DEF BeginIngest, IngestInv, IngestTypeOK
<1>4. r \in Ingestion
  BY KnowledgeIngestAssumption DEF Ingestion, Unrecorded
<1>5. \A d \in Document \ blank : f[d] # Unrecorded => \A b \in 1..Batches : HasBatch(d, b, f[d])
  BY <1>2 DEF IngestInv, RecordedIsWhole, HasBatch
<1>6. OnlyRun(i) /\ ingests'[i] = r
  <2> HIDE DEF r
  <2> QED
    BY <1>3 DEF IngestInv, IngestTypeOK, OnlyRun
<1>7. RunIsSound(ingests[i])'
  BY <1>3, <1>5, <1>6 DEF RunIsSound, HasBatch
<1> HIDE DEF r
<1> QED
  BY <1>3, <1>4, <1>6, <1>7, RunGoesOn DEF IngestInv, IngestTypeOK, RecordedIsWhole

LEMMA HashKeeps ==
  ASSUME IngestInv, NEW i \in Ingester, NEW d \in Document, HashDocument(i, d)
  PROVE  IngestInv'
<1>1. /\ ingests[i].step = "walk" /\ ingests[i] # Waiting
      /\ UNCHANGED <<library, manifest, collection, ingested, blank, stale>>
  BY DEF HashDocument, Waiting
<1>2. ingests[i] \in Ingestion /\ library[d] \in 0..MaxEdit /\ RunIsSound(ingests[i])
  BY <1>1, RunColumns DEF IngestInv, IngestTypeOK, RunsAreSound
<1>3. PICK s \in {"walk", "extract"} :
        s = IF ingests[i].files[d] = library[d] THEN "walk" ELSE "extract"
  OBVIOUS
<1>4. ingests' = [ingests EXCEPT ![i].todo = @ \ {d}, ![i].doc = {d}, ![i].digest = library[d],
                    ![i].step = s]
  BY <1>3 DEF HashDocument
<1>5. OnlyRun(i)
  BY <1>4 DEF IngestInv, IngestTypeOK, OnlyRun
<1>6. ingests'[i] = [ingests[i] EXCEPT !.todo = @ \ {d}, !.doc = {d}, !.digest = library[d], !.step = s]
  BY <1>4 DEF IngestInv, IngestTypeOK
<1>7. /\ ingests'[i] \in Ingestion /\ ingests'[i].files = ingests[i].files
      /\ ingests'[i].step = s /\ ingests'[i].doc = {d} /\ ingests'[i].added = ingests[i].added
  <2>1. /\ ingests[i].todo \ {d} \in SUBSET Document /\ {d} \in SUBSET Document
        /\ s \in {"walk", "extract", "add"}
    BY <1>2 DEF Ingestion
  <2>2. ingests'[i] \in Ingestion
    BY <1>2, <1>6, <2>1 DEF Ingestion
  <2>3. /\ ingests'[i].files = ingests[i].files
        /\ ingests'[i].step = s /\ ingests'[i].doc = {d} /\ ingests'[i].added = ingests[i].added
    BY <1>2, <1>6 DEF Ingestion
  <2> QED
    BY <2>2, <2>3
<1>8. RunIsSound(ingests[i])'
  BY <1>1, <1>2, <1>7 DEF RunIsSound, HasBatch
<1> QED
  BY <1>1, <1>5, <1>7, <1>8, RunGoesOn DEF IngestInv, IngestTypeOK, RecordedIsWhole

LEMMA ExtractKeeps ==
  ASSUME IngestInv, NEW i \in Ingester, ExtractText(i)
  PROVE  IngestInv'
<1>1. /\ ingests[i].step = "extract" /\ ingests[i] # Waiting
      /\ UNCHANGED <<library, manifest, collection, ingested, blank>>
  BY DEF ExtractText, Waiting
<1>2. ingests[i] \in Ingestion /\ RunIsSound(ingests[i])
  BY <1>1, RunColumns DEF IngestInv, RunsAreSound
<1>3. PICK d \in Document : ingests[i].doc = {d}
  BY <1>1, <1>2 DEF RunIsSound
<1>4. library[d] \in 1..MaxEdit
  BY DEF IngestInv, IngestTypeOK
<1>5. /\ ingests' = [ingests EXCEPT ![i].step = "add", ![i].text = library[d]]
      /\ stale \subseteq stale' /\ stale' \subseteq Document
      /\ d \in stale' \/ library[d] = ingests[i].digest
  <2>1. (CHOOSE e \in Document : e \in ingests[i].doc) = d
    BY <1>3
  <2>2. stale' = stale \cup (IF library[d] = ingests[i].digest THEN {} ELSE {d})
    BY <1>3, <2>1 DEF ExtractText
  <2>3. stale \subseteq Document
    BY DEF IngestInv, IngestTypeOK
  <2> QED
    BY <2>1, <2>2, <2>3 DEF ExtractText
<1>6. OnlyRun(i) /\ ingests'[i] = [ingests[i] EXCEPT !.step = "add", !.text = library[d]]
  BY <1>5 DEF IngestInv, IngestTypeOK, OnlyRun
<1>7. /\ ingests'[i] \in Ingestion /\ ingests'[i].files = ingests[i].files
      /\ ingests'[i].step = "add" /\ ingests'[i].doc = ingests[i].doc
      /\ ingests'[i].added = ingests[i].added /\ ingests'[i].text = library[d]
      /\ ingests'[i].digest = ingests[i].digest
  <2>1. library[d] \in 0..MaxEdit
    BY <1>4, KnowledgeIngestAssumption
  <2>2. ingests'[i] \in Ingestion
    BY <1>2, <1>6, <2>1 DEF Ingestion
  <2>3. /\ ingests'[i].files = ingests[i].files
        /\ ingests'[i].step = "add" /\ ingests'[i].doc = ingests[i].doc
        /\ ingests'[i].added = ingests[i].added /\ ingests'[i].text = library[d]
        /\ ingests'[i].digest = ingests[i].digest
    BY <1>2, <1>6 DEF Ingestion
  <2> QED
    BY <2>2, <2>3
<1>8. RunIsSound(ingests[i])'
  <2>1. \A e \in Document \ blank' : ingests'[i].files[e] # Unrecorded =>
          \A b \in 1..Batches : HasBatch(e, b, ingests[i].files[e])'
    BY <1>1, <1>2, <1>5, <1>7 DEF RunIsSound, HasBatch
  <2>2. ingests[i].added = 0 /\ 1..0 = {}
    BY <1>1, <1>2 DEF RunIsSound
  <2>3. /\ ingests'[i].text # Unrecorded
        /\ \A e \in ingests'[i].doc :
             /\ e \in stale' \/ ingests'[i].text = ingests'[i].digest
             /\ \A b \in 1..ingests'[i].added : HasBatch(e, b, ingests[i].text)'
    <3>1. ingests'[i].doc = {d} /\ ingests'[i].added = 0 /\ ingests'[i].text = library[d]
      BY <1>3, <1>7, <2>2
    <3>2. \A b \in 1..ingests'[i].added : FALSE
      BY <2>2, <3>1
    <3> QED
      <4>1. ingests'[i].text # Unrecorded
        BY <1>4, <3>1 DEF Unrecorded
      <4>2. d \in stale' \/ ingests'[i].text = ingests'[i].digest
        BY <1>5, <1>7
      <4> HIDE DEF HasBatch
      <4> QED
        BY <3>1, <3>2, <4>1, <4>2
  <2> QED
    BY <1>3, <1>7, <2>1, <2>3 DEF RunIsSound
<1> QED
  BY <1>1, <1>5, <1>6, <1>7, <1>8, RunGoesOn DEF IngestInv, IngestTypeOK, RecordedIsWhole

\* Where a run notes its document, the others keep what is recorded of them.
LEMMA NotedRun ==
  ASSUME IngestInv, NEW i \in Ingester, ingests[i] # Waiting, ingests' = Noted(i)
  PROVE  /\ OnlyRun(i) /\ ingests'[i] \in Ingestion /\ ingests'[i].step = "walk"
         /\ ingests'[i].added = 0
         /\ \A d \in Document \ ingests[i].doc : ingests'[i].files[d] = ingests[i].files[d]
         /\ \A d \in Document \cap ingests[i].doc : ingests'[i].files[d] = ingests[i].digest
<1>1. ingests[i] \in Ingestion
  BY RunColumns DEF IngestInv
<1>2. PICK f \in [Document -> 0..MaxEdit] :
        f = [d \in Document |-> IF d \in ingests[i].doc THEN ingests[i].digest ELSE ingests[i].files[d]]
  BY <1>1 DEF Ingestion
<1>3. ingests' = [ingests EXCEPT ![i].step = "walk", ![i].added = 0, ![i].files = f]
  BY <1>2 DEF Noted
<1>4. OnlyRun(i) /\ ingests'[i] = [ingests[i] EXCEPT !.step = "walk", !.added = 0, !.files = f]
  BY <1>3 DEF IngestInv, IngestTypeOK, OnlyRun
<1>5. /\ ingests'[i] \in Ingestion /\ ingests'[i].step = "walk" /\ ingests'[i].added = 0
      /\ ingests'[i].files = f
  <2>1. 0 \in 0..(Batches - 1)
    BY KnowledgeIngestAssumption
  <2>2. ingests'[i] \in Ingestion
    BY <1>1, <1>4, <2>1 DEF Ingestion
  <2>3. /\ ingests'[i].step = "walk" /\ ingests'[i].added = 0
        /\ ingests'[i].files = f
    BY <1>1, <1>4 DEF Ingestion
  <2> QED
    BY <2>2, <2>3
<1> QED
  BY <1>2, <1>4, <1>5

LEMMA NothingKeeps ==
  ASSUME IngestInv, NEW i \in Ingester, ExtractNothing(i)
  PROVE  IngestInv'
<1>1. /\ ingests[i] # Waiting /\ ingests' = Noted(i) /\ blank' = blank \cup ingests[i].doc
      /\ UNCHANGED <<library, manifest, collection, ingested, stale>>
  BY DEF ExtractNothing, Waiting
<1>2. ingests[i].doc \in SUBSET Document /\ RunIsSound(ingests[i])
  BY <1>1, RunColumns DEF IngestInv, RunsAreSound
<1>3. /\ OnlyRun(i) /\ ingests'[i] \in Ingestion /\ ingests'[i].step = "walk"
      /\ ingests'[i].added = 0
      /\ \A d \in Document \ ingests[i].doc : ingests'[i].files[d] = ingests[i].files[d]
  BY <1>1, NotedRun
<1>4. RunIsSound(ingests[i])'
  BY <1>1, <1>2, <1>3 DEF RunIsSound, HasBatch
<1> QED
  BY <1>1, <1>2, <1>3, <1>4, RunGoesOn DEF IngestInv, IngestTypeOK, RecordedIsWhole

LEMMA AddKeeps ==
  ASSUME IngestInv, NEW i \in Ingester, AddBatch(i)
  PROVE  IngestInv'
<1>1. /\ ingests[i].step = "add" /\ ingests[i] # Waiting
      /\ UNCHANGED <<library, manifest, ingested, blank>>
  BY DEF AddBatch, Waiting
<1>2. ingests[i] \in Ingestion /\ RunIsSound(ingests[i])
  BY <1>1, RunColumns DEF IngestInv, RunsAreSound
<1>3. PICK d \in Document : ingests[i].doc = {d}
  BY <1>1, <1>2 DEF RunIsSound
<1>4. PICK n \in 0..(Batches - 1), x \in 1..MaxEdit : n = ingests[i].added /\ x = ingests[i].text
  <2>1. ingests[i].added \in 0..(Batches - 1) /\ ingests[i].text \in 0..MaxEdit
    BY <1>1, RunColumns DEF IngestInv
  <2>2. ingests[i].text # 0
    BY <1>1, <1>2 DEF RunIsSound, Unrecorded
  <2> QED
    BY <2>1, <2>2, KnowledgeIngestAssumption
<1>5. n + 1 \in 1..Batches
  BY KnowledgeIngestAssumption
<1> DEFINE fresh == [doc |-> d, batch |-> n + 1, text |-> x]
           There == \E c \in collection : c.doc = d /\ c.batch = n + 1
<1>6. \/ collection' = collection /\ There
      \/ collection' = collection \cup {fresh} /\ ~There
  <2> DEFINE old == {[doc |-> c.doc, batch |-> c.batch] : c \in collection}
             id == [doc |-> d, batch |-> n + 1]
  <2>1. collection' = collection \cup
          {[doc |-> c.doc, batch |-> c.batch, text |-> x] : c \in [doc : {d}, batch : {n + 1}] \ old}
    <3>1. collection' = collection \cup
            {[doc |-> c.doc, batch |-> c.batch, text |-> ingests[i].text] :
               c \in [doc : ingests[i].doc, batch : {ingests[i].added + 1}] \ old}
      BY DEF AddBatch
    <3> HIDE DEF old
    <3> QED
      BY <1>3, <1>4, <3>1
  <2>2. [doc : {d}, batch : {n + 1}] = {id}
    <3>1. id \in [doc : {d}, batch : {n + 1}]
      OBVIOUS
    <3>2. \A c \in [doc : {d}, batch : {n + 1}] : c = id
      OBVIOUS
    <3> HIDE DEF id
    <3> QED
      BY <3>1, <3>2
  <2>3. id \in old <=> There
    OBVIOUS
  <2>4. CASE id \in old
    <3>1. [doc : {d}, batch : {n + 1}] \ old = {}
      <4> HIDE DEF id, old
      <4> QED
        BY <2>2, <2>4
    <3>2. collection' = collection
      <4> HIDE DEF old
      <4> QED
        BY <2>1, <3>1
    <3> QED
      BY <2>3, <2>4, <3>2
  <2>5. CASE id \notin old
    <3>1. [doc : {d}, batch : {n + 1}] \ old = {id}
      <4> HIDE DEF id, old
      <4> QED
        BY <2>2, <2>5
    <3>2. collection' = collection \cup {[doc |-> c.doc, batch |-> c.batch, text |-> x] : c \in {id}}
      <4> HIDE DEF old, id
      <4> QED
        BY <2>1, <3>1
    <3>3. {[doc |-> c.doc, batch |-> c.batch, text |-> x] : c \in {id}} = {fresh}
      OBVIOUS
    <3> QED
      BY <2>3, <2>5, <3>2, <3>3
  <2> QED
    BY <2>4, <2>5
<1>12. /\ stale \subseteq stale' /\ stale' \subseteq Document
       /\ \A c \in collection : c.doc = d /\ c.batch = n + 1 /\ c.text # x => d \in stale'
  <2>1. stale' = stale \cup {c.doc : c \in Outdated(i)}
    BY DEF AddBatch
  <2>2. Outdated(i) = {c \in collection : c.doc = d /\ c.batch = n + 1 /\ c.text # x}
    BY <1>3, <1>4 DEF Outdated
  <2>3. stale \subseteq Document
    BY DEF IngestInv, IngestTypeOK
  <2> QED
    BY <2>1, <2>2, <2>3
<1>7. /\ collection \subseteq collection'
      /\ collection' \subseteq [doc : Document, batch : 1..Batches, text : 1..MaxEdit]
      /\ \A c, e \in collection' : c.doc = e.doc /\ c.batch = e.batch => c = e
      /\ HasBatch(d, n + 1, x)'
  <2>1. /\ collection \subseteq [doc : Document, batch : 1..Batches, text : 1..MaxEdit]
        /\ \A c, e \in collection : c.doc = e.doc /\ c.batch = e.batch => c = e
    BY DEF IngestInv, IngestTypeOK, RecordedIsWhole
  <2>2. /\ fresh \in [doc : Document, batch : 1..Batches, text : 1..MaxEdit]
        /\ fresh.doc = d /\ fresh.batch = n + 1 /\ fresh.text = x
    BY <1>5
  <2> HIDE DEF fresh
  <2>3. CASE collection' = collection /\ There
    BY <1>12, <2>1, <2>3 DEF HasBatch
  <2>4. CASE collection' = collection \cup {fresh} /\ ~There
    BY <2>1, <2>2, <2>4 DEF HasBatch
  <2> QED
    BY <1>6, <2>3, <2>4
<1> HIDE DEF There
<1>8. \A e, b, y : HasBatch(e, b, y) => HasBatch(e, b, y)'
  BY <1>7, <1>12 DEF HasBatch
<1>9. \A b \in 1..(n + 1) : HasBatch(d, b, x)'
  <2>1. \A b \in 1..n : HasBatch(d, b, x)
    BY <1>1, <1>2, <1>3, <1>4 DEF RunIsSound
  <2>2. \A b \in 1..(n + 1) : b \in 1..n \/ b = n + 1
    OBVIOUS
  <2> QED
    BY <1>7, <1>8, <2>1, <2>2
<1>10. CASE n + 1 = Batches
  <2>1. ingests' = Noted(i)
    BY <1>4, <1>10 DEF AddBatch
  <2>2. /\ OnlyRun(i) /\ ingests'[i] \in Ingestion /\ ingests'[i].step = "walk"
        /\ ingests'[i].added = 0
        /\ \A e \in Document \ {d} : ingests'[i].files[e] = ingests[i].files[e]
        /\ ingests'[i].files[d] = ingests[i].digest
    BY <1>1, <1>3, <2>1, NotedRun
  <2>7. PICK g : g = ingests[i].digest
    OBVIOUS
  <2>5. d \in stale \/ g = x
    BY <1>1, <1>2, <1>3, <1>4, <2>7 DEF RunIsSound
  <2>6. \A b \in 1..Batches : HasBatch(d, b, g)'
    BY <1>9, <1>10, <1>12, <2>5 DEF HasBatch
  <2>3. \A e \in Document \ blank : ingests'[i].files[e] # Unrecorded =>
          \A b \in 1..Batches : HasBatch(e, b, ingests[i].files[e])'
    <3>1. ASSUME NEW e \in Document \ blank, ingests'[i].files[e] # Unrecorded, e # d,
                 NEW b \in 1..Batches
          PROVE  HasBatch(e, b, ingests[i].files[e])'
      <4>1. ingests'[i].files[e] = ingests[i].files[e]
        BY <2>2, <3>1
      <4>2. HasBatch(e, b, ingests[i].files[e])
        BY <1>2, <3>1, <4>1 DEF RunIsSound
      <4>3. PICK y : y = ingests[i].files[e]
        OBVIOUS
      <4>4. HasBatch(e, b, y)'
        BY <1>8, <4>2, <4>3
      <4> QED
        BY <4>1, <4>3, <4>4
    <3>2. ASSUME NEW b \in 1..Batches
          PROVE  HasBatch(d, b, ingests[i].files[d])'
      <4>1. ingests'[i].files[d] = g
        BY <2>2, <2>7
      <4> QED
        BY <2>6, <4>1
    <3> QED
      BY <3>1, <3>2
  <2>4. RunIsSound(ingests[i])'
    BY <1>1, <2>2, <2>3 DEF RunIsSound
  <2> QED
    BY <1>1, <1>7, <1>12, <2>2, <2>4, RunGoesOn DEF IngestInv, IngestTypeOK
<1>11. CASE n + 1 # Batches
  <2>1. ingests' = [ingests EXCEPT ![i].added = n + 1]
    BY <1>4, <1>11 DEF AddBatch
  <2>2. OnlyRun(i) /\ ingests'[i] = [ingests[i] EXCEPT !.added = n + 1]
    BY <2>1 DEF IngestInv, IngestTypeOK, OnlyRun
  <2>3. n + 1 \in 0..(Batches - 1)
    BY <1>11, KnowledgeIngestAssumption
  <2>4. /\ ingests'[i] \in Ingestion /\ ingests'[i].step = ingests[i].step
        /\ ingests'[i].files = ingests[i].files /\ ingests'[i].doc = ingests[i].doc
        /\ ingests'[i].text = ingests[i].text /\ ingests'[i].added = n + 1
        /\ ingests'[i].digest = ingests[i].digest
    BY <1>2, <2>2, <2>3 DEF Ingestion
  <2>5. RunIsSound(ingests[i])'
    BY <1>1, <1>2, <1>3, <1>4, <1>8, <1>9, <1>12, <2>4 DEF RunIsSound
  <2> QED
    BY <1>1, <1>7, <1>12, <2>2, <2>4, <2>5, RunGoesOn DEF IngestInv, IngestTypeOK
<1> QED
  BY <1>10, <1>11

LEMMA FailKeeps ==
  ASSUME IngestInv, NEW i \in Ingester, AddFails(i)
  PROVE  IngestInv'
<1>1. /\ ingests[i] # Waiting /\ ingests' = [ingests EXCEPT ![i].step = "walk", ![i].added = 0]
      /\ UNCHANGED <<library, manifest, collection, ingested, blank, stale>>
  BY DEF AddFails, Failed, Waiting
<1>2. ingests[i] \in Ingestion /\ RunIsSound(ingests[i])
  BY <1>1, RunColumns DEF IngestInv, RunsAreSound
<1>3. OnlyRun(i) /\ ingests'[i] = [ingests[i] EXCEPT !.step = "walk", !.added = 0]
  BY <1>1 DEF IngestInv, IngestTypeOK, OnlyRun
<1>4. /\ ingests'[i] \in Ingestion /\ ingests'[i].files = ingests[i].files
      /\ ingests'[i].step = "walk" /\ ingests'[i].added = 0
  <2>1. 0 \in 0..(Batches - 1)
    BY KnowledgeIngestAssumption
  <2>2. ingests'[i] \in Ingestion
    BY <1>2, <1>3, <2>1 DEF Ingestion
  <2>3. /\ ingests'[i].files = ingests[i].files
        /\ ingests'[i].step = "walk" /\ ingests'[i].added = 0
    BY <1>2, <1>3 DEF Ingestion
  <2> QED
    BY <2>2, <2>3
<1>5. RunIsSound(ingests[i])'
  <2>1. \A d, b, x : HasBatch(d, b, x) <=> HasBatch(d, b, x)'
    BY <1>1 DEF HasBatch
  <2>2. blank' = blank
    BY <1>1
  <2> QED
    BY <1>2, <1>4, <2>1, <2>2 DEF RunIsSound
<1> QED
  BY SMTT(30), <1>1, <1>3, <1>4, <1>5, RunGoesOn DEF IngestInv, IngestTypeOK, RecordedIsWhole

\* A run that is over leaves the others alone; what it writes to the manifest is whole.
LEMMA EndKeeps ==
  ASSUME IngestInv, NEW i \in Ingester, EndIngest(i) \/ StopIngest(i)
  PROVE  IngestInv'
<1>1. /\ ingests[i] # Waiting /\ ingests' = [ingests EXCEPT ![i] = Waiting]
      /\ manifest' \in {manifest, ingests[i].files}
      /\ UNCHANGED <<library, collection, ingested, blank, stale>>
  BY DEF EndIngest, StopIngest, Waiting
<1>2. ingests[i].files \in [Document -> 0..MaxEdit] /\ RunIsSound(ingests[i])
  BY <1>1, RunColumns DEF IngestInv, RunsAreSound
<1>3. IngestTypeOK'
  BY <1>1, <1>2 DEF IngestInv, IngestTypeOK
<1>4. RecordedIsWhole'
  BY <1>1, <1>2 DEF IngestInv, RecordedIsWhole, RunIsSound, HasBatch
<1>5. ASSUME NEW j \in Ingester, ingests'[j] # Waiting
      PROVE  RunIsSound(ingests[j])'
  <2>1. ingests'[j] = ingests[j]
    BY <1>1, <1>5 DEF IngestInv, IngestTypeOK
  <2>2. RunIsSound(ingests[j])
    BY <1>5, <2>1 DEF IngestInv, RunsAreSound
  <2> QED
    BY <1>1, <2>1, <2>2 DEF RunIsSound, HasBatch
<1> QED
  BY <1>3, <1>4, <1>5 DEF IngestInv, RunsAreSound

LEMMA EditKeeps ==
  ASSUME IngestInv, NEW d \in Document, EditDocument(d)
  PROVE  IngestInv'
<1>1. library[d] + 1 \in 1..MaxEdit
  BY KnowledgeIngestAssumption DEF EditDocument, IngestInv, IngestTypeOK
<1>2. library' \in [Document -> 1..MaxEdit]
  BY <1>1 DEF EditDocument, IngestInv, IngestTypeOK
<1> QED
  BY <1>2 DEF EditDocument, IngestInv, IngestTypeOK, RecordedIsWhole, RunsAreSound, RunIsSound, HasBatch

LEMMA IngestStep == IngestInv /\ [IngestNext]_ingestVars => IngestInv'
<1> SUFFICES ASSUME IngestInv, [IngestNext]_ingestVars PROVE IngestInv'
  OBVIOUS
<1>1. CASE UNCHANGED ingestVars
  BY <1>1 DEF ingestVars, IngestInv, IngestTypeOK, RecordedIsWhole, RunsAreSound, RunIsSound, HasBatch
<1>2. CASE IngestNext
  BY <1>2, BeginKeeps, HashKeeps, ExtractKeeps, NothingKeeps, AddKeeps, FailKeeps, EndKeeps, EditKeeps
     DEF IngestNext
<1> QED
  BY <1>1, <1>2

-----------------------------------------------------------------------------
(* Uploads.  A path that was not contested leads to the one file that was   *)
(* written to it: a request chooses a path that does not exist, nobody else *)
(* chooses it before it is written, and whoever removes a file removes the  *)
(* one it wrote.                                                            *)

Sending ==
  [step : {"choose", "write", "validate", "describe", "answer"}, coach : Uploader,
   send : 1..MaxUpload, left : 0..MaxFiles, fakes : SUBSET (1..MaxFiles),
   path : Paths \cup {NoPath}, saved : SUBSET [path : Paths, file : Contents],
   told : SUBSET [path : Paths, file : Contents, seen : SUBSET Contents]]

Leads(p, f) == p \in contested \/ OnDisk(p) = {f}

UploadingIsSound(r) ==
  LET s == sends[r]
  IN /\ s.step \in {"choose", "write", "validate"} => s.left # 0
     /\ s.step \in {"write", "validate"} => s.path \in Paths /\ s.path.dir = s.coach
     /\ s.step = "write" /\ s.path \notin contested =>
          /\ s.path \notin DOMAIN disk
          /\ \A q \in Upload \ {r} : sends[q].step = "write" => sends[q].path # s.path
     /\ s.step = "validate" => Leads(s.path, Current(r))
     /\ \A k \in s.saved :
          /\ k.path.dir = s.coach /\ k.file.coach = s.coach /\ k.file.send = s.send
          /\ k.file.file > s.left /\ Leads(k.path, k.file)
     /\ \A t \in s.told :
          /\ t.path \in contested \/ t.seen = {t.file}
          /\ \A f \in t.seen : f.coach = s.coach

\* Sends are numbered, and a row is of a send that is over.
SendsNumbered ==
  /\ \A r \in Upload : sends[r] # NotSending =>
       /\ sends[r].send <= sent
       /\ \A q \in Upload \ {r} : sends[q] # NotSending => sends[q].send # sends[r].send
       /\ \A row \in uploadRows : row.file.send # sends[r].send
  /\ \A row \in uploadRows : row.file.send <= sent

\* What is on the disk is in the directory of its coach.
DiskInOrder == IsFiniteSet(DOMAIN disk) /\ \A p \in DOMAIN disk : disk[p].coach = p.dir

RowsLead == \A row \in uploadRows : Leads(row.path, row.file)

UploadsInv ==
  /\ UploadsTypeOK /\ SendsNumbered /\ DiskInOrder /\ RowsLead
  /\ \A r \in Upload : sends[r] # NotSending => UploadingIsSound(r)

LEMMA UploadsInitially == UploadsInit => UploadsInv
<1> SUFFICES ASSUME UploadsInit PROVE UploadsInv
  OBVIOUS
<1>1. DOMAIN disk = {} /\ IsFiniteSet(DOMAIN disk)
  BY FS_EmptySet DEF UploadsInit
<1> QED
  BY <1>1, ChatUploadsAssumption
     DEF UploadsInit, UploadsInv, UploadsTypeOK, SendsNumbered, DiskInOrder, RowsLead

LEMMA UploadsKeepApart == UploadsInv => UploadsStayApart
  BY DEF UploadsInv, UploadsStayApart, RowsLead, Leads, UploadingIsSound

\* A request in flight and its columns.
LEMMA SendColumns ==
  ASSUME UploadsTypeOK, NEW r \in Upload, sends[r] # NotSending
  PROVE  /\ sends[r] \in Sending
         /\ sends[r].step \in {"choose", "write", "validate", "describe", "answer"}
         /\ sends[r].coach \in Uploader /\ sends[r].send \in 1..MaxUpload
         /\ sends[r].left \in 0..MaxFiles /\ sends[r].fakes \in SUBSET (1..MaxFiles)
         /\ sends[r].path \in Paths \cup {NoPath}
         /\ sends[r].saved \in SUBSET [path : Paths, file : Contents]
         /\ sends[r].told \in SUBSET [path : Paths, file : Contents, seen : SUBSET Contents]
<1>1. sends[r] \in Sending
  BY DEF UploadsTypeOK, Sending
<1> QED
  BY <1>1 DEF Sending

\* The file a request is saving.
LEMMA CurrentFile ==
  ASSUME UploadsTypeOK, NEW r \in Upload, sends[r] # NotSending
  PROVE  /\ Current(r).coach = sends[r].coach /\ Current(r).send = sends[r].send
         /\ Current(r).file = sends[r].left
         /\ sends[r].left # 0 => Current(r) \in Contents
<1>1. PICK g \in BOOLEAN : g = (sends[r].left \notin sends[r].fakes)
  BY Zenon
<1>2. Current(r) = [coach |-> sends[r].coach, send |-> sends[r].send, file |-> sends[r].left,
                    genuine |-> g]
  BY <1>1, Zenon DEF Current
<1>3. /\ sends[r].coach \in Uploader /\ sends[r].send \in 1..MaxUpload
      /\ sends[r].left \in 0..MaxFiles
  BY SendColumns
<1>4. sends[r].left # 0 => sends[r].left \in 1..MaxFiles
  BY <1>3, ChatUploadsAssumption
<1> QED
  BY <1>2, <1>3, <1>4 DEF Contents

\* Only request r moves.
OnlySend(r) ==
  /\ sends' = [q \in Upload |-> sends'[q]]
  /\ \A q \in Upload \ {r} : sends'[q] = sends[q]

\* The other requests stay sound when what leads to a file of theirs goes on to lead
\* there, no path of theirs is written or chosen unless it is contested.
LEMMA OthersStaySound ==
  ASSUME UploadsInv, NEW r \in Upload, OnlySend(r), contested \subseteq contested',
         \A p, f : Leads(p, f) /\ (sends[r] # NotSending => f.send # sends[r].send) => Leads(p, f)',
         \A p \in DOMAIN disk' \ contested' :
           p \in DOMAIN disk \/ (sends[r].step = "write" /\ p = sends[r].path),
         \A q \in Upload \ {r} :
           /\ sends'[r].step = "write" /\ sends[q].step = "write" /\ sends[q].path = sends'[r].path
           => sends[q].path \in contested',
         NEW q \in Upload \ {r}, sends[q] # NotSending
  PROVE  UploadingIsSound(q)'
<1>1. sends'[q] = sends[q] /\ UploadingIsSound(q)
  BY DEF OnlySend, UploadsInv
<1>2. sends[q].send # sends[r].send \/ sends[r] = NotSending
  BY DEF UploadsInv, SendsNumbered
<1>3. /\ sends[q].step \in {"choose", "write", "validate"} => sends[q].left # 0
      /\ sends[q].step \in {"write", "validate"} =>
           sends[q].path \in Paths /\ sends[q].path.dir = sends[q].coach
  BY <1>1 DEF UploadingIsSound
<1>4. ASSUME sends[q].step = "write", sends[q].path \notin contested'
      PROVE  /\ sends[q].path \notin DOMAIN disk'
             /\ \A o \in Upload \ {q} : sends'[o].step = "write" => sends'[o].path # sends[q].path
  <2>1. /\ sends[q].path \notin DOMAIN disk
        /\ \A o \in Upload \ {q} : sends[o].step = "write" => sends[o].path # sends[q].path
    BY <1>1, <1>4 DEF UploadingIsSound
  <2>2. sends[q].path \notin DOMAIN disk'
    BY <1>4, <2>1
  <2>3. \A o \in Upload \ {q} : sends'[o].step = "write" => sends'[o].path # sends[q].path
    BY <1>4, <2>1 DEF OnlySend
  <2> QED
    BY <2>2, <2>3
<1>5. sends[q].step = "validate" => Leads(sends[q].path, Current(q))'
  <2>1. Current(q)' = Current(q)
    BY <1>1 DEF Current
  <2>2. Current(q).send = sends[q].send
    BY CurrentFile DEF UploadsInv
  <2>3. sends[q].step = "validate" => Leads(sends[q].path, Current(q))
    BY <1>1 DEF UploadingIsSound
  <2>4. sends[q].step = "validate" => (Leads(sends[q].path, Current(q)))'
    BY <1>1, <1>2, <2>1, <2>2, <2>3 DEF Leads, OnDisk
  <2> QED
    BY <2>4
<1>6. \A k \in sends[q].saved :
        /\ k.path.dir = sends[q].coach /\ k.file.coach = sends[q].coach
        /\ k.file.send = sends[q].send /\ k.file.file > sends[q].left /\ Leads(k.path, k.file)'
  BY <1>1, <1>2 DEF UploadingIsSound
<1>7. \A t \in sends[q].told :
        /\ t.path \in contested' \/ t.seen = {t.file}
        /\ \A f \in t.seen : f.coach = sends[q].coach
  BY <1>1 DEF UploadingIsSound
<1> QED
  BY <1>1, <1>3, <1>4, <1>5, <1>6, <1>7 DEF UploadingIsSound

\* A request that goes on, or ends, without adding rows.
LEMMA SendGoesOn ==
  ASSUME UploadsInv, NEW r \in Upload, sends[r] # NotSending, OnlySend(r),
         sends'[r] # NotSending =>
           sends'[r] \in Sending /\ sends'[r].send = sends[r].send /\ UploadingIsSound(r)',
         contested \subseteq contested', contested' \subseteq Paths,
         uploadRows' \subseteq uploadRows, sent' = sent,
         DOMAIN disk' \subseteq Paths, IsFiniteSet(DOMAIN disk'),
         \A p \in DOMAIN disk' : disk'[p] \in Contents /\ disk'[p].coach = p.dir,
         \A p, f : Leads(p, f) /\ f.send # sends[r].send => Leads(p, f)',
         \A p \in DOMAIN disk' \ contested' :
           p \in DOMAIN disk \/ (sends[r].step = "write" /\ p = sends[r].path),
         \A q \in Upload \ {r} :
           /\ sends'[r].step = "write" /\ sends[q].step = "write" /\ sends[q].path = sends'[r].path
           => sends[q].path \in contested'
  PROVE  UploadsInv'
<1>1. UploadsTypeOK'
  <2>1. sends' \in [Upload -> {NotSending} \cup Sending]
    BY DEF OnlySend, UploadsInv, UploadsTypeOK, Sending
  <2> QED
    BY <2>1 DEF UploadsInv, UploadsTypeOK, Sending
<1>2. SendsNumbered'
  BY DEF OnlySend, UploadsInv, SendsNumbered
<1>3. DiskInOrder'
  BY DEF DiskInOrder
<1>4. RowsLead'
  BY DEF UploadsInv, SendsNumbered, RowsLead
<1>5. ASSUME NEW q \in Upload, sends'[q] # NotSending
      PROVE  UploadingIsSound(q)'
  <2>1. CASE q = r
    BY <1>5, <2>1
  <2>2. CASE q # r
    <3>1. sends[q] # NotSending
      BY <1>5, <2>2 DEF OnlySend
    <3> QED
      BY <2>2, <3>1, OthersStaySound
  <2> QED
    BY <2>1, <2>2
<1> QED
  BY <1>1, <1>2, <1>3, <1>4, <1>5 DEF UploadsInv

\* The path a coach gets does not exist.
LEMMA PathIsFree ==
  ASSUME UploadsInv, NEW coach \in Uploader
  PROVE  /\ UniquePath(coach) \in Paths /\ UniquePath(coach).dir = coach
         /\ UniquePath(coach) \notin DOMAIN disk
<1> DEFINE taken == {p.n : p \in {q \in DOMAIN disk : q.dir = coach}}
           free == 0..Cardinality(taken) \ taken
           n == CHOOSE n \in free : \A m \in free : n <= m
<1>1. \A p \in DOMAIN disk : p.n \in Nat
  BY DEF UploadsInv, UploadsTypeOK, Paths
<1>2. IsFiniteSet(taken)
  <2>1. IsFiniteSet({q \in DOMAIN disk : q.dir = coach})
    BY FS_Subset DEF UploadsInv, DiskInOrder
  <2> DEFINE here == {q \in DOMAIN disk : q.dir = coach}
             number == [q \in here |-> q.n]
  <2>2. number \in Surjection(here, taken)
    BY DEF Surjection
  <2> HIDE DEF here, number, taken
  <2> QED
    BY <2>1, <2>2, FS_Surjection DEF here
<1>3. Cardinality(taken) \in Nat
  BY <1>2, FS_CardinalityType
<1>4. free # {}
  <2>1. SUFFICES ASSUME 0..Cardinality(taken) \subseteq taken PROVE FALSE
    OBVIOUS
  <2>2. Cardinality(0..Cardinality(taken)) <= Cardinality(taken)
    BY <1>2, <2>1, FS_Subset
  <2>3. Cardinality(0..Cardinality(taken)) = Cardinality(taken) + 1
    <3> HIDE DEF taken
    <3> QED
      BY <1>3, FS_Interval
  <2> QED
    BY <1>3, <2>2, <2>3
<1>5. \E i \in free : \A m \in free : i <= m
  <2>1. free \in SUBSET Nat
    BY <1>3
  <2> HIDE DEF free
  <2> QED
    BY <1>4, <2>1, LeastOf
<1>6. n \in free /\ n \in Nat
  <2>1. n \in free
    <3> HIDE DEF free
    <3> QED
      BY <1>5
  <2>2. free \subseteq Nat
    BY <1>3
  <2> HIDE DEF free, n
  <2> QED
    BY <2>1, <2>2
<1>7. UniquePath(coach) = [dir |-> coach, n |-> n]
  BY DEF UniquePath, Directory
<1>8. n \notin taken
  BY <1>6
<1> HIDE DEF n
<1> QED
  BY <1>6, <1>7, <1>8 DEF Paths

LEMMA ChooseKeeps ==
  ASSUME UploadsInv, NEW r \in Upload, ChoosePath(r)
  PROVE  UploadsInv'
<1>1. /\ sends[r].step = "choose" /\ sends[r] # NotSending
      /\ UNCHANGED <<disk, uploadRows, sent>>
  <2>1. sends[r].step = "choose" /\ UNCHANGED <<disk, uploadRows, sent>>
    BY DEF ChoosePath
  <2>2. sends[r] # NotSending
    BY <2>1 DEF NotSending
  <2> QED
    BY <2>1, <2>2
<1>2. sends[r] \in Sending /\ UploadingIsSound(r) /\ sends[r].coach \in Uploader
  BY <1>1, SendColumns DEF UploadsInv
<1>3. PICK p \in Paths : p = UniquePath(sends[r].coach) /\ p.dir = sends[r].coach /\ p \notin DOMAIN disk
  BY <1>2, PathIsFree
<1>4. /\ sends' = [sends EXCEPT ![r].step = "write", ![r].path = p]
      /\ contested' = contested \cup
           {o \in {p} : \E q \in Upload \ {r} : sends[q].step = "write" /\ sends[q].path = o}
  BY <1>3 DEF ChoosePath
<1>5. OnlySend(r) /\ sends'[r] = [sends[r] EXCEPT !.step = "write", !.path = p]
  BY <1>4 DEF UploadsInv, UploadsTypeOK, OnlySend
<1>6. sends'[r] \in Sending
  BY <1>2, <1>5 DEF Sending
<1>7. /\ sends'[r].step = "write" /\ sends'[r].path = p /\ sends'[r].coach = sends[r].coach
      /\ sends'[r].send = sends[r].send /\ sends'[r].left = sends[r].left
      /\ sends'[r].saved = sends[r].saved /\ sends'[r].told = sends[r].told
  BY <1>2, <1>5 DEF Sending
<1>8. \A o, f : Leads(o, f) => Leads(o, f)'
  BY <1>1, <1>4 DEF Leads, OnDisk
<1>9. p \notin contested' => \A q \in Upload \ {r} : sends[q].step = "write" => sends[q].path # p
  BY <1>4
<1>10. UploadingIsSound(r)'
  <2>1. \A k \in sends[r].saved :
          /\ k.path.dir = sends[r].coach /\ k.file.coach = sends[r].coach
          /\ k.file.send = sends[r].send /\ k.file.file > sends[r].left /\ Leads(k.path, k.file)'
    BY <1>2, <1>8 DEF UploadingIsSound
  <2>2. \A t \in sends[r].told :
          /\ t.path \in contested' \/ t.seen = {t.file}
          /\ \A f \in t.seen : f.coach = sends[r].coach
    BY <1>2, <1>4 DEF UploadingIsSound
  <2>3. \A q \in Upload \ {r} : sends'[q] = sends[q]
    BY <1>5 DEF OnlySend
  <2>4. sends[r].left # 0
    BY <1>1, <1>2 DEF UploadingIsSound
  <2> QED
    BY <1>1, <1>3, <1>7, <1>9, <2>1, <2>2, <2>3, <2>4 DEF UploadingIsSound
<1>11. \A q \in Upload \ {r} :
         /\ sends'[r].step = "write" /\ sends[q].step = "write" /\ sends[q].path = sends'[r].path
         => sends[q].path \in contested'
  BY <1>7, <1>9
<1>12. contested \subseteq contested' /\ contested' \subseteq Paths
  BY <1>4 DEF UploadsInv, UploadsTypeOK
<1>13. /\ DOMAIN disk' \subseteq Paths /\ IsFiniteSet(DOMAIN disk')
       /\ \A o \in DOMAIN disk' : disk'[o] \in Contents /\ disk'[o].coach = o.dir
  BY <1>1 DEF UploadsInv, UploadsTypeOK, DiskInOrder
<1> QED
  BY <1>1, <1>5, <1>6, <1>7, <1>8, <1>10, <1>11, <1>12, <1>13, SendGoesOn

\* The file that is written is of the request, and nothing leads to its path as yet.
LEMMA WriteKeeps ==
  ASSUME UploadsInv, NEW r \in Upload, WriteFile(r)
  PROVE  UploadsInv'
<1>1. /\ sends[r].step = "write" /\ sends[r] # NotSending
      /\ UNCHANGED <<uploadRows, sent, contested>>
  <2>1. sends[r].step = "write" /\ UNCHANGED <<uploadRows, sent, contested>>
    BY DEF WriteFile
  <2>2. sends[r] # NotSending
    BY <2>1 DEF NotSending
  <2> QED
    BY <2>1, <2>2
<1>2. sends[r] \in Sending /\ UploadingIsSound(r) /\ sends[r].coach \in Uploader
  BY <1>1, SendColumns DEF UploadsInv
<1>3. PICK p \in Paths, f \in Contents :
        p = sends[r].path /\ p.dir = sends[r].coach /\ f = Current(r) /\ f.coach = sends[r].coach
  BY <1>1, <1>2, CurrentFile DEF UploadsInv, UploadingIsSound
<1>4. disk' = [o \in DOMAIN disk \cup {p} |-> IF o = p THEN f ELSE disk[o]]
  BY <1>3 DEF WriteFile
<1>5. OnlySend(r) /\ sends'[r] = [sends[r] EXCEPT !.step = "validate"]
  BY DEF WriteFile, UploadsInv, UploadsTypeOK, OnlySend
<1>6. sends'[r] \in Sending
  BY <1>2, <1>5 DEF Sending
<1>7. /\ sends'[r].step = "validate" /\ sends'[r].path = p /\ sends'[r].coach = sends[r].coach
      /\ sends'[r].send = sends[r].send /\ sends'[r].left = sends[r].left
      /\ sends'[r].saved = sends[r].saved /\ sends'[r].told = sends[r].told
      /\ sends'[r].fakes = sends[r].fakes
  BY <1>2, <1>3, <1>5 DEF Sending
<1>8. p \in contested \/ p \notin DOMAIN disk
  BY <1>1, <1>2, <1>3 DEF UploadingIsSound
<1>9. \A o, g : Leads(o, g) => Leads(o, g)'
  <2> SUFFICES ASSUME NEW o, NEW g, Leads(o, g) PROVE Leads(o, g)'
    OBVIOUS
  <2>1. CASE o = p
    BY <1>1, <1>8, <2>1 DEF Leads, OnDisk
  <2>2. CASE o # p
    <3>1. OnDisk(o)' = OnDisk(o)
      BY <1>4, <2>2 DEF OnDisk
    <3> QED
      BY <1>1, <3>1 DEF Leads
  <2> QED
    BY <2>1, <2>2
<1>10. OnDisk(p)' = {f}
  BY <1>4 DEF OnDisk
<1>11. UploadingIsSound(r)'
  <2>1. Current(r)' = f
    BY <1>3, <1>7 DEF Current
  <2>2. Leads(p, f)'
    BY <1>10 DEF Leads
  <2>3. Leads(sends[r].path, Current(r))'
    BY <1>7, <2>1, <2>2
  <2>4. \A k \in sends[r].saved :
          /\ k.path.dir = sends[r].coach /\ k.file.coach = sends[r].coach
          /\ k.file.send = sends[r].send /\ k.file.file > sends[r].left /\ Leads(k.path, k.file)'
    BY <1>2, <1>9 DEF UploadingIsSound
  <2>5. \A t \in sends[r].told :
          /\ t.path \in contested' \/ t.seen = {t.file}
          /\ \A g \in t.seen : g.coach = sends[r].coach
    BY <1>1, <1>2 DEF UploadingIsSound
  <2>6. sends[r].left # 0
    BY <1>1, <1>2 DEF UploadingIsSound
  <2> QED
    BY <1>3, <1>7, <2>3, <2>4, <2>5, <2>6 DEF UploadingIsSound
<1>12. contested \subseteq contested' /\ contested' \subseteq Paths
  BY <1>1 DEF UploadsInv, UploadsTypeOK
<1>13. /\ DOMAIN disk' \subseteq Paths /\ IsFiniteSet(DOMAIN disk')
       /\ \A o \in DOMAIN disk' : disk'[o] \in Contents /\ disk'[o].coach = o.dir
  <2>1. IsFiniteSet(DOMAIN disk \cup {p})
    BY FS_AddElement DEF UploadsInv, DiskInOrder
  <2> QED
    BY <1>3, <1>4, <2>1 DEF UploadsInv, UploadsTypeOK, DiskInOrder
<1>14. \A o \in DOMAIN disk' \ contested' :
         o \in DOMAIN disk \/ (sends[r].step = "write" /\ o = sends[r].path)
  BY <1>1, <1>3, <1>4
<1> QED
  BY <1>1, <1>5, <1>6, <1>7, <1>9, <1>11, <1>12, <1>13, <1>14, SendGoesOn

LEMMA KeepKeeps ==
  ASSUME UploadsInv, NEW r \in Upload, KeepFile(r)
  PROVE  UploadsInv'
<1>1. /\ sends[r].step = "validate" /\ sends[r] # NotSending
      /\ UNCHANGED <<disk, uploadRows, sent, contested>>
  <2>1. sends[r].step = "validate" /\ UNCHANGED <<disk, uploadRows, sent, contested>>
    BY DEF KeepFile
  <2>2. sends[r] # NotSending
    BY <2>1 DEF NotSending
  <2> QED
    BY <2>1, <2>2
<1>2. sends[r] \in Sending /\ UploadingIsSound(r) /\ sends[r].left \in 0..MaxFiles
  BY <1>1, SendColumns DEF UploadsInv
<1>3. PICK p \in Paths, f \in Contents :
        /\ p = sends[r].path /\ p.dir = sends[r].coach
        /\ f = Current(r) /\ f.coach = sends[r].coach /\ f.send = sends[r].send
        /\ f.file = sends[r].left /\ Leads(p, f)
  BY <1>1, <1>2, CurrentFile DEF UploadsInv, UploadingIsSound
<1>4. PICK s \in {"choose", "describe"} : s = IF sends[r].left > 1 THEN "choose" ELSE "describe"
  OBVIOUS
<1> DEFINE kept == [path |-> p, file |-> f]
<1>5. sends' = [sends EXCEPT ![r].step = s, ![r].left = @ - 1, ![r].saved = @ \cup {kept}]
  BY <1>3, <1>4 DEF KeepFile
<1>6. kept \in [path : Paths, file : Contents] /\ kept.path = p /\ kept.file = f
  OBVIOUS
<1> HIDE DEF kept
<1>7. /\ OnlySend(r)
      /\ sends'[r] = [sends[r] EXCEPT !.step = s, !.left = @ - 1, !.saved = @ \cup {kept}]
  BY <1>5 DEF UploadsInv, UploadsTypeOK, OnlySend
<1>8. sends[r].left # 0 /\ sends[r].left - 1 \in 0..MaxFiles
  BY <1>1, <1>2, ChatUploadsAssumption DEF UploadingIsSound
<1>9. sends'[r] \in Sending
  <2>1. sends[r].saved \cup {kept} \in SUBSET [path : Paths, file : Contents]
    BY <1>2, <1>6 DEF Sending
  <2> QED
    BY <1>2, <1>7, <1>8, <2>1 DEF Sending
<1>10. /\ sends'[r].step = s /\ sends'[r].coach = sends[r].coach
       /\ sends'[r].send = sends[r].send /\ sends'[r].left = sends[r].left - 1
       /\ sends'[r].saved = sends[r].saved \cup {kept} /\ sends'[r].told = sends[r].told
  BY <1>2, <1>7 DEF Sending
<1>11. \A o, g : Leads(o, g) <=> Leads(o, g)'
  BY <1>1 DEF Leads, OnDisk
<1>12. UploadingIsSound(r)'
  <2>1. \A k \in sends[r].saved \cup {kept} :
          /\ k.path.dir = sends[r].coach /\ k.file.coach = sends[r].coach
          /\ k.file.send = sends[r].send /\ Leads(k.path, k.file)'
    BY <1>2, <1>3, <1>6, <1>11 DEF UploadingIsSound
  <2>2. \A k \in sends[r].saved \cup {kept} : k.file.file > sends[r].left - 1
    <3>1. \A k \in sends[r].saved : k.file.file > sends[r].left /\ k.file.file \in Nat
      BY <1>2 DEF UploadingIsSound, Sending, Contents
    <3> QED
      BY <1>2, <1>3, <1>6, <3>1
  <2>3. \A t \in sends[r].told :
          /\ t.path \in contested' \/ t.seen = {t.file}
          /\ \A g \in t.seen : g.coach = sends[r].coach
    BY <1>1, <1>2 DEF UploadingIsSound
  <2>4. s = "choose" => sends[r].left - 1 # 0
    BY <1>2, <1>4
  <2> QED
    BY <1>10, <2>1, <2>2, <2>3, <2>4 DEF UploadingIsSound
<1>13. contested \subseteq contested' /\ contested' \subseteq Paths
  BY <1>1 DEF UploadsInv, UploadsTypeOK
<1>14. /\ DOMAIN disk' \subseteq Paths /\ IsFiniteSet(DOMAIN disk')
       /\ \A o \in DOMAIN disk' : disk'[o] \in Contents /\ disk'[o].coach = o.dir
  BY <1>1 DEF UploadsInv, UploadsTypeOK, DiskInOrder
<1> QED
  BY <1>1, <1>7, <1>9, <1>10, <1>11, <1>12, <1>13, <1>14, SendGoesOn

\* What is removed is the file of the request itself, to which nothing else leads.
LEMMA RefuseKeeps ==
  ASSUME UploadsInv, NEW r \in Upload, RefuseFile(r)
  PROVE  UploadsInv'
<1>1. /\ sends[r].step = "validate" /\ sends[r] # NotSending
      /\ UNCHANGED <<uploadRows, sent, contested>>
  <2>1. sends[r].step = "validate" /\ UNCHANGED <<uploadRows, sent, contested>>
    BY DEF RefuseFile
  <2>2. sends[r] # NotSending
    BY <2>1 DEF NotSending
  <2> QED
    BY <2>1, <2>2
<1>2. PICK p \in Paths, f \in Contents :
        p = sends[r].path /\ f = Current(r) /\ f.send = sends[r].send /\ Leads(p, f)
  BY <1>1, CurrentFile DEF UploadsInv, UploadingIsSound
<1>3. disk' = [o \in DOMAIN disk \ {p} |-> disk[o]]
  BY <1>2 DEF RefuseFile
<1>4. OnlySend(r) /\ sends'[r] = NotSending
  BY DEF RefuseFile, UploadsInv, UploadsTypeOK, OnlySend
<1>5. ASSUME NEW o, NEW g, Leads(o, g), g.send # sends[r].send
      PROVE  Leads(o, g)'
  <2>1. CASE o = p
    <3>1. p \notin contested => OnDisk(p) = {f} /\ OnDisk(p) = {g}
      BY <1>2, <1>5, <2>1 DEF Leads
    <3>2. p \in contested
      BY <1>2, <1>5, <3>1
    <3> QED
      BY <1>1, <2>1, <3>2 DEF Leads
  <2>2. CASE o # p
    <3>1. OnDisk(o)' = OnDisk(o)
      BY <1>3, <2>2 DEF OnDisk
    <3> QED
      BY <1>1, <1>5, <3>1 DEF Leads
  <2> QED
    BY <2>1, <2>2
<1>6. /\ DOMAIN disk' \subseteq Paths /\ IsFiniteSet(DOMAIN disk')
      /\ \A o \in DOMAIN disk' : disk'[o] \in Contents /\ disk'[o].coach = o.dir
      /\ DOMAIN disk' \subseteq DOMAIN disk
  <2>1. IsFiniteSet(DOMAIN disk \ {p})
    BY FS_RemoveElement DEF UploadsInv, DiskInOrder
  <2> QED
    BY <1>3, <2>1 DEF UploadsInv, UploadsTypeOK, DiskInOrder
<1>7. contested \subseteq contested' /\ contested' \subseteq Paths
  BY <1>1 DEF UploadsInv, UploadsTypeOK
<1>8. sends'[r].step # "write"
  BY <1>4 DEF NotSending
<1> QED
  BY <1>1, <1>4, <1>5, <1>6, <1>7, <1>8, SendGoesOn

LEMMA DescribeKeeps ==
  ASSUME UploadsInv, NEW r \in Upload, NEW s, DescribeFile(r, s)
  PROVE  UploadsInv'
<1>1. /\ sends[r].step = "describe" /\ sends[r] # NotSending /\ s \in sends[r].saved
      /\ UNCHANGED <<disk, uploadRows, sent, contested>>
  <2>1. /\ sends[r].step = "describe" /\ s \in sends[r].saved
        /\ UNCHANGED <<disk, uploadRows, sent, contested>>
    BY DEF DescribeFile
  <2>2. sends[r] # NotSending
    BY <2>1 DEF NotSending
  <2> QED
    BY <2>1, <2>2
<1>2. sends[r] \in Sending /\ UploadingIsSound(r)
  BY <1>1, SendColumns DEF UploadsInv
<1>3. /\ s \in [path : Paths, file : Contents] /\ s.path \in Paths /\ s.file \in Contents
      /\ s.path.dir = sends[r].coach /\ Leads(s.path, s.file)
  <2>1. s \in [path : Paths, file : Contents]
    BY <1>1, <1>2 DEF Sending
  <2> QED
    BY <1>1, <1>2, <2>1 DEF UploadingIsSound
<1>4. PICK seen \in SUBSET Contents : seen = OnDisk(s.path) /\ \A g \in seen : g.coach = sends[r].coach
  <2>1. \A p \in DOMAIN disk : disk[p] \in Contents /\ disk[p].coach = p.dir
    BY DEF UploadsInv, UploadsTypeOK, DiskInOrder
  <2>2. \A g \in OnDisk(s.path) : s.path \in DOMAIN disk /\ g = disk[s.path]
    BY DEF OnDisk
  <2>3. OnDisk(s.path) \in SUBSET Contents /\ \A g \in OnDisk(s.path) : g.coach = sends[r].coach
    BY <1>3, <2>1, <2>2
  <2> QED
    BY <2>3
<1> DEFINE note == [path |-> s.path, file |-> s.file, seen |-> seen]
<1>5. /\ note \in [path : Paths, file : Contents, seen : SUBSET Contents]
      /\ note.path = s.path /\ note.file = s.file /\ note.seen = seen
  BY <1>3
<1>6. PICK told : told = sends[r].told \cup {note}
  OBVIOUS
<1>7. \E x \in {"answer", "describe"} : sends' = [sends EXCEPT ![r].told = told, ![r].step = x]
  <2>1. note = [path |-> s.path, file |-> s.file, seen |-> OnDisk(s.path)]
    BY <1>4
  <2> HIDE DEF note
  <2>2. sends[r].told \cup {[path |-> s.path, file |-> s.file, seen |-> OnDisk(s.path)]} = told
    BY <1>6, <2>1
  <2> DEFINE end == IF Cardinality({t.path : t \in told}) = Cardinality({t.path : t \in sends[r].saved})
                    THEN "answer" ELSE "describe"
  <2>3. sends' = [sends EXCEPT ![r].told = told, ![r].step = end]
    BY <2>2 DEF DescribeFile
  <2>4. end \in {"answer", "describe"}
    OBVIOUS
  <2> HIDE DEF end
  <2> QED
    BY <2>3, <2>4
<1>8. PICK x \in {"answer", "describe"} : sends' = [sends EXCEPT ![r].told = told, ![r].step = x]
  BY <1>7
<1> HIDE DEF note
<1>9. OnlySend(r) /\ sends'[r] = [sends[r] EXCEPT !.told = told, !.step = x]
  BY <1>8 DEF UploadsInv, UploadsTypeOK, OnlySend
<1>10. sends'[r] \in Sending
  <2>1. told \in SUBSET [path : Paths, file : Contents, seen : SUBSET Contents]
    BY <1>2, <1>5, <1>6 DEF Sending
  <2> QED
    BY <1>2, <1>9, <2>1 DEF Sending
<1>11. /\ sends'[r].step = x /\ sends'[r].coach = sends[r].coach
       /\ sends'[r].send = sends[r].send /\ sends'[r].left = sends[r].left
       /\ sends'[r].saved = sends[r].saved /\ sends'[r].told = told
  BY <1>2, <1>9 DEF Sending
<1>12. \A o, g : Leads(o, g) <=> Leads(o, g)'
  BY <1>1 DEF Leads, OnDisk
<1>13. UploadingIsSound(r)'
  <2>1. \A k \in sends[r].saved :
          /\ k.path.dir = sends[r].coach /\ k.file.coach = sends[r].coach
          /\ k.file.send = sends[r].send /\ k.file.file > sends[r].left /\ Leads(k.path, k.file)'
    BY <1>2, <1>12 DEF UploadingIsSound
  <2>2. \A t \in sends[r].told :
          /\ t.path \in contested' \/ t.seen = {t.file}
          /\ \A g \in t.seen : g.coach = sends[r].coach
    BY <1>1, <1>2 DEF UploadingIsSound
  <2>3. /\ note.path \in contested' \/ note.seen = {note.file}
        /\ \A g \in note.seen : g.coach = sends[r].coach
    BY <1>1, <1>3, <1>4, <1>5 DEF Leads
  <2> QED
    BY <1>6, <1>11, <2>1, <2>2, <2>3 DEF UploadingIsSound
<1>14. contested \subseteq contested' /\ contested' \subseteq Paths
  BY <1>1 DEF UploadsInv, UploadsTypeOK
<1>15. /\ DOMAIN disk' \subseteq Paths /\ IsFiniteSet(DOMAIN disk')
       /\ \A o \in DOMAIN disk' : disk'[o] \in Contents /\ disk'[o].coach = o.dir
  BY <1>1 DEF UploadsInv, UploadsTypeOK, DiskInOrder
<1> QED
  BY <1>1, <1>9, <1>10, <1>11, <1>12, <1>13, <1>14, <1>15, SendGoesOn

LEMMA LoseKeeps ==
  ASSUME UploadsInv, NEW r \in Upload, LoseUpload(r)
  PROVE  UploadsInv'
<1>1. /\ sends[r] # NotSending /\ UNCHANGED <<disk, uploadRows, sent, contested>>
      /\ sends' = [sends EXCEPT ![r] = NotSending]
  BY DEF LoseUpload
<1>2. OnlySend(r) /\ sends'[r] = NotSending /\ sends'[r].step # "write"
  BY <1>1 DEF UploadsInv, UploadsTypeOK, OnlySend, NotSending
<1>3. \A o, g : Leads(o, g) <=> Leads(o, g)'
  BY <1>1 DEF Leads, OnDisk
<1>4. /\ DOMAIN disk' \subseteq Paths /\ IsFiniteSet(DOMAIN disk')
      /\ \A o \in DOMAIN disk' : disk'[o] \in Contents /\ disk'[o].coach = o.dir
      /\ contested \subseteq contested' /\ contested' \subseteq Paths
  BY <1>1 DEF UploadsInv, UploadsTypeOK, DiskInOrder
<1> QED
  BY <1>1, <1>2, <1>3, <1>4, SendGoesOn

\* The rows of a send are written when it is over.
LEMMA AnswerKeeps ==
  ASSUME UploadsInv, NEW r \in Upload, AnswerUpload(r)
  PROVE  UploadsInv'
<1>1. /\ sends[r].step = "answer" /\ UNCHANGED <<disk, sent, contested>>
      /\ uploadRows' = uploadRows \cup sends[r].saved /\ sends' = [sends EXCEPT ![r] = NotSending]
  BY DEF AnswerUpload
<1>2. sends[r] # NotSending
  BY <1>1 DEF NotSending
<1>3. /\ sends[r].saved \in SUBSET [path : Paths, file : Contents] /\ UploadingIsSound(r)
      /\ sends[r].send \in 1..MaxUpload
  BY <1>2, SendColumns DEF UploadsInv
<1>4. OnlySend(r) /\ sends'[r] = NotSending /\ sends'[r].step # "write"
  BY <1>1 DEF UploadsInv, UploadsTypeOK, OnlySend, NotSending
<1>5. \A o, g : Leads(o, g) <=> Leads(o, g)'
  BY <1>1 DEF Leads, OnDisk
<1>6. UploadsTypeOK'
  BY <1>1, <1>3 DEF UploadsInv, UploadsTypeOK
<1>7. \A k \in sends[r].saved : k.file.send = sends[r].send /\ Leads(k.path, k.file)
  BY <1>3 DEF UploadingIsSound
<1>8. SendsNumbered'
  BY <1>1, <1>2, <1>4, <1>7 DEF OnlySend, UploadsInv, SendsNumbered
<1>9. DiskInOrder' /\ RowsLead'
  BY <1>1, <1>5, <1>7 DEF UploadsInv, DiskInOrder, RowsLead
<1>10. ASSUME NEW q \in Upload, sends'[q] # NotSending
       PROVE  UploadingIsSound(q)'
  <2>1. q \in Upload \ {r} /\ sends[q] # NotSending
    BY <1>4, <1>10 DEF OnlySend
  <2> QED
    BY <1>1, <1>4, <1>5, <2>1, OthersStaySound
<1> QED
  BY <1>6, <1>8, <1>9, <1>10 DEF UploadsInv

LEMMA BeginUploadKeeps ==
  ASSUME UploadsInv, NEW r \in Upload, NEW coach \in Uploader, NEW n \in 1..MaxFiles,
         NEW fakes \in SUBSET (1..n), BeginUpload(r, coach, n, fakes)
  PROVE  UploadsInv'
<1> DEFINE s == [step |-> "choose", coach |-> coach, send |-> sent', left |-> n, fakes |-> fakes,
                 path |-> NoPath, saved |-> {}, told |-> {}]
<1>1. /\ sends[r] = NotSending /\ sent < MaxUpload /\ sent' = sent + 1
      /\ sends' = [sends EXCEPT ![r] = s] /\ UNCHANGED <<disk, uploadRows, contested>>
  BY DEF BeginUpload
<1>2. sent \in 0..MaxUpload /\ sent' \in 1..MaxUpload
  BY <1>1, ChatUploadsAssumption DEF UploadsInv, UploadsTypeOK
<1>3. OnlySend(r) /\ sends'[r] = s
  <2> HIDE DEF s
  <2> QED
    BY <1>1 DEF UploadsInv, UploadsTypeOK, OnlySend
<1>4. s \in Sending
  <2>1. fakes \in SUBSET (1..MaxFiles) /\ n \in 0..MaxFiles
    BY ChatUploadsAssumption
  <2> QED
    BY <1>2, <2>1 DEF Sending
<1>5. \A o, g : Leads(o, g) <=> Leads(o, g)'
  BY <1>1 DEF Leads, OnDisk
<1>6. UploadsTypeOK'
  <2>1. sends' \in [Upload -> {NotSending} \cup Sending]
    <3> HIDE DEF s
    <3> QED
      BY <1>3, <1>4 DEF OnlySend, UploadsInv, UploadsTypeOK, Sending
  <2> QED
    BY <1>1, <1>2, <2>1 DEF UploadsInv, UploadsTypeOK, Sending
<1>7. \A q \in Upload : sends[q] # NotSending => sends[q].send \in Nat /\ sends[q].send <= sent
  BY SendColumns DEF UploadsInv, SendsNumbered
<1>8. \A row \in uploadRows : row.file.send \in Nat /\ row.file.send <= sent
  BY DEF UploadsInv, UploadsTypeOK, SendsNumbered, Contents
<1>9. SendsNumbered'
  <2>1. sends'[r].send = sent + 1 /\ sends'[r] # NotSending
    BY <1>1, <1>3 DEF NotSending
  <2>2. \A q \in Upload \ {r} : sends'[q] = sends[q]
    BY <1>3 DEF OnlySend
  <2> HIDE DEF s
  <2> QED
    BY <1>1, <1>2, <1>7, <1>8, <2>1, <2>2 DEF UploadsInv, SendsNumbered
<1>10. DiskInOrder' /\ RowsLead'
  BY <1>1, <1>5 DEF UploadsInv, DiskInOrder, RowsLead
<1>11. UploadingIsSound(r)'
  BY <1>3 DEF UploadingIsSound
<1>12. sends'[r].step # "write"
  BY <1>3
<1>13. ASSUME NEW q \in Upload, sends'[q] # NotSending
       PROVE  UploadingIsSound(q)'
  <2>1. CASE q = r
    BY <1>11, <2>1
  <2>2. CASE q # r
    <3>1. sends[q] # NotSending
      BY <1>3, <1>13, <2>2 DEF OnlySend
    <3> HIDE DEF s
    <3> QED
      BY <1>1, <1>3, <1>5, <1>12, <2>2, <3>1, OthersStaySound
  <2> QED
    BY <2>1, <2>2
<1> QED
  BY <1>6, <1>9, <1>10, <1>13 DEF UploadsInv

LEMMA DropKeeps ==
  ASSUME UploadsInv, NEW row \in uploadRows, DeleteUpload(row)
  PROVE  UploadsInv'
<1>1. uploadRows' \subseteq uploadRows /\ UNCHANGED <<disk, sends, sent, contested>>
  BY DEF DeleteUpload
<1>2. \A o, g : Leads(o, g) <=> Leads(o, g)'
  BY <1>1 DEF Leads, OnDisk
<1>3. \A r \in Upload : Current(r)' = Current(r)
  BY <1>1 DEF Current
<1>4. UploadsTypeOK' /\ SendsNumbered'
  BY <1>1 DEF UploadsInv, UploadsTypeOK, SendsNumbered
<1>5. DiskInOrder' /\ RowsLead'
  BY <1>1, <1>2 DEF UploadsInv, DiskInOrder, RowsLead
<1>6. ASSUME NEW r \in Upload, sends'[r] # NotSending
      PROVE  UploadingIsSound(r)'
  BY <1>1, <1>2, <1>3, <1>6 DEF UploadsInv, UploadingIsSound, Leads, OnDisk
<1> QED
  BY <1>4, <1>5, <1>6 DEF UploadsInv

LEMMA UploadsStep == UploadsInv /\ [UploadsNext]_uploadVars => UploadsInv'
<1> SUFFICES ASSUME UploadsInv, [UploadsNext]_uploadVars PROVE UploadsInv'
  OBVIOUS
<1>1. CASE UNCHANGED uploadVars
  BY SMTT(30), <1>1 DEF uploadVars, UploadsInv, UploadsTypeOK, SendsNumbered, DiskInOrder, RowsLead, Leads,
              OnDisk, UploadingIsSound, Current
<1>2. CASE UploadsNext
  BY <1>2, BeginUploadKeeps, ChooseKeeps, WriteKeeps, KeepKeeps, RefuseKeeps, DescribeKeeps,
     AnswerKeeps, LoseKeeps, DropKeeps DEF UploadsNext
<1> QED
  BY <1>1, <1>2

-----------------------------------------------------------------------------
(* Research.  An entry answers what its key asks, and a run has read nothing *)
(* until it has its pages in hand.                                           *)

SearchRow ==
  [step : {"hint", "plan", "search", "page", "triage", "fetch", "extract", "report", "note"},
   tenant : Tenant, of : Question, at : 0..LastHour,
   pages : SUBSET Webpage, read : SUBSET Webpage, players : Nat]

AnsweredRow ==
  [step : {"answered"}, tenant : Tenant, of : Question, at : 0..LastHour, hit : BOOLEAN,
   answer : Answers]

ShelfRow == [key : [tenant : Tenant, of : Question, hour : 0..LastHour], answer : Answers]

Filled(e) ==
  e.answer.tenant = e.key.tenant /\ e.answer.of = e.key.of /\ e.answer.filed = e.key.hour

\* What a run may hold.
SeekSound(q) ==
  /\ q \in {Unasked} \cup SearchRow \cup AnsweredRow
  /\ q.step \in {"hint", "plan", "search", "triage", "fetch"} => q.read = {}
  /\ q.step \in {"extract", "report"} =>
       \A u \in q.read, v \in q.pages \ q.read : Tier(u) <= Tier(v)
  /\ q.step = "answered" =>
       /\ q.answer.tenant = q.tenant /\ q.answer.of = q.of
       /\ q.hit => q.answer.filed = q.at

ResearchInv ==
  /\ shelf \in Seq(ShelfRow) /\ Len(shelf) <= CacheMax
  /\ \A i \in DOMAIN shelf : Filled(shelf[i])
  /\ \A i, j \in DOMAIN shelf : shelf[i].key = shelf[j].key => i = j
  /\ clock \in 0..LastHour
  /\ DOMAIN seeks = Seeker /\ seeks = [s \in Seeker |-> seeks[s]]
  /\ \A s \in Seeker : SeekSound(seeks[s])

LEMMA ResearchInitially == ResearchInit => ResearchInv
BY WebResearchAssumption DEF ResearchInit, ResearchInv, SeekSound, Unasked, Filled

LEMMA ResearchSound == ResearchInv => ResearchTypeOK /\ AnswersAreOwn
<1> SUFFICES ASSUME ResearchInv PROVE ResearchTypeOK /\ AnswersAreOwn
  OBVIOUS
<1>1. ResearchTypeOK
  <2>1. \A i \in DOMAIN shelf : shelf[i] \in ShelfRow
    BY DEF ResearchInv
  <2>2. seeks \in [Seeker -> {Unasked} \cup SearchRow \cup AnsweredRow]
    BY DEF ResearchInv, SeekSound
  <2>3. clock \in 0..LastHour
    BY DEF ResearchInv
  <2> QED
    BY <2>1, <2>2, <2>3 DEF ResearchTypeOK, ShelfRow, SearchRow, AnsweredRow
<1>2. AnswersAreOwn
  BY DEF ResearchInv, SeekSound, AnswersAreOwn
<1> QED
  BY <1>1, <1>2

\* A step of one run that leaves the shelf alone.
LEMMA SeekMoves ==
  ASSUME ResearchInv, NEW s \in Seeker, NEW q, SeekSound(q),
         seeks' = [seeks EXCEPT ![s] = q], UNCHANGED <<shelf, clock>>
  PROVE  ResearchInv'
<1>1. DOMAIN seeks' = Seeker /\ seeks' = [x \in Seeker |-> seeks'[x]]
  BY DEF ResearchInv
<1>2. \A x \in Seeker : SeekSound(seeks'[x])
  BY DEF ResearchInv
<1>3. \A x : SeekSound(x)' <=> SeekSound(x)
  BY DEF SeekSound
<1> QED
  BY <1>1, <1>2, <1>3 DEF ResearchInv, Filled

\* Putting an entry on the shelf keeps the shelf in order.
LEMMA ShelvedInOrder ==
  ASSUME ResearchInv, NEW e \in ShelfRow, Filled(e)
  PROVE  /\ Shelved(e) \in Seq(ShelfRow) /\ Len(Shelved(e)) <= CacheMax
         /\ \A i \in DOMAIN Shelved(e) : Filled(Shelved(e)[i])
         /\ \A i, j \in DOMAIN Shelved(e) : Shelved(e)[i].key = Shelved(e)[j].key => i = j
<1> DEFINE kept == IF Len(shelf) >= CacheMax THEN Tail(shelf) ELSE shelf
           same == {i \in DOMAIN kept : kept[i].key = e.key}
           whole == [i \in DOMAIN kept |-> IF i \in same THEN e ELSE kept[i]]
<1>1. shelf \in Seq(ShelfRow) /\ Len(shelf) \in Nat /\ CacheMax \in Nat \ {0}
  BY WebResearchAssumption DEF ResearchInv
<1>2. kept \in Seq(ShelfRow) /\ Len(kept) <= CacheMax
  BY <1>1 DEF ResearchInv
<1>3. Len(kept) + 1 <= CacheMax
  BY <1>1 DEF ResearchInv
<1>4. \A i \in DOMAIN kept : Filled(kept[i])
  BY <1>1 DEF ResearchInv
<1>5. \A i, j \in DOMAIN kept : kept[i].key = kept[j].key => i = j
  <2>1. CASE Len(shelf) >= CacheMax
    <3>1. kept = Tail(shelf) /\ Len(shelf) # 0
      BY <1>1, <2>1
    <3>2. \A i \in DOMAIN kept : i + 1 \in DOMAIN shelf /\ kept[i] = shelf[i + 1] /\ i \in Int
      BY <1>1, <3>1
    <3> QED
      BY <3>2 DEF ResearchInv
  <2>2. CASE ~ (Len(shelf) >= CacheMax)
    BY <2>2 DEF ResearchInv
  <2> QED
    BY <2>1, <2>2
<1>6. Shelved(e) = IF same = {} THEN Append(kept, e) ELSE whole
  BY DEF Shelved
<1> HIDE DEF kept
<1>7. CASE same = {}
  <2>1. Shelved(e) = Append(kept, e)
    BY <1>6, <1>7
  <2> HIDE DEF same
  <2> DEFINE n == Len(kept)
  <2>2. n \in Nat /\ DOMAIN kept = 1..n
    BY <1>2
  <2>3. /\ Append(kept, e) \in Seq(ShelfRow) /\ Len(Append(kept, e)) = n + 1
        /\ DOMAIN Append(kept, e) = 1..(n + 1)
        /\ Append(kept, e)[n + 1] = e
        /\ \A i \in 1..n : Append(kept, e)[i] = kept[i]
    BY <1>2
  <2>4. \A i \in 1..n : kept[i].key # e.key
    BY <1>7, <2>2 DEF same
  <2> HIDE DEF n
  <2>5. \A i \in 1..(n + 1) : i \in 1..n \/ i = n + 1
    BY <2>2
  <2> QED
    BY <1>3, <1>4, <1>5, <2>1, <2>2, <2>3, <2>4, <2>5 DEF n
<1>8. CASE same # {}
  <2>1. Shelved(e) = whole
    BY <1>6, <1>8
  <2>2. whole \in Seq(ShelfRow) /\ Len(whole) = Len(kept) /\ DOMAIN whole = DOMAIN kept
    BY <1>2
  <2>3. \A i \in DOMAIN kept : whole[i].key = kept[i].key
    OBVIOUS
  <2>4. \A i \in DOMAIN kept : Filled(whole[i])
    BY <1>4
  <2> HIDE DEF whole
  <2> QED
    BY <1>2, <1>5, <2>1, <2>2, <2>3, <2>4
<1> QED
  BY <1>7, <1>8

\* A run that has not ended has all its columns.
LEMMA UnderWay ==
  ASSUME ResearchInv, NEW s \in Seeker, seeks[s].step \notin {"unasked", "answered"}
  PROVE  seeks[s] \in SearchRow
BY DEF ResearchInv, SeekSound, Unasked, AnsweredRow

LEMMA SeekAsks ==
  ASSUME ResearchInv, NEW s \in Seeker, NEW tenant \in Tenant, NEW q \in Question,
         NEW hinted \in BOOLEAN, Ask(s, tenant, q, hinted)
  PROVE  ResearchInv'
<1> DEFINE hits == Filed(KeyOf(tenant, q, clock))
           answered == [step |-> "answered", tenant |-> tenant, of |-> q, at |-> clock, hit |-> TRUE,
                        answer |-> shelf[CHOOSE i \in hits : TRUE].answer]
           run == [step |-> "plan", tenant |-> tenant, of |-> q, at |-> clock,
                   pages |-> {}, read |-> {}, players |-> 0]
           fresh == [run EXCEPT !.step = IF hinted THEN "hint" ELSE "plan"]
<1>1. /\ seeks' = [seeks EXCEPT ![s] = IF hits # {} THEN answered ELSE fresh]
      /\ UNCHANGED <<shelf, clock>> /\ clock \in 0..LastHour
  BY DEF Ask, ResearchInv
<1>2. CASE hits # {}
  <2>1. PICK i \in DOMAIN shelf : /\ shelf[i].key = KeyOf(tenant, q, clock)
                                  /\ answered.answer = shelf[i].answer
    BY <1>2 DEF Filed
  <2>2. shelf[i] \in ShelfRow /\ Filled(shelf[i])
    BY DEF ResearchInv
  <2>3. answered.answer \in Answers /\ answered.answer.tenant = tenant /\ answered.answer.of = q
        /\ answered.answer.filed = clock
    BY <2>1, <2>2 DEF ShelfRow, Filled, KeyOf
  <2>4. SeekSound(answered)
    BY <1>1, <2>3 DEF SeekSound, AnsweredRow
  <2> HIDE DEF answered, hits
  <2> QED
    BY <1>1, <1>2, <2>4, SeekMoves
<1>3. CASE hits = {}
  <2>1. fresh = [step |-> IF hinted THEN "hint" ELSE "plan", tenant |-> tenant, of |-> q,
                 at |-> clock, pages |-> {}, read |-> {}, players |-> 0]
    OBVIOUS
  <2>2. SeekSound(fresh)
    BY <1>1, <2>1 DEF SeekSound, SearchRow
  <2> HIDE DEF fresh, hits
  <2> QED
    BY <1>1, <1>3, <2>2, SeekMoves
<1> QED
  BY <1>2, <1>3

LEMMA SeekSteps ==
  ASSUME ResearchInv, NEW s \in Seeker,
         \/ \E readable \in BOOLEAN : FetchHint(s, readable)
         \/ Plan(s)
  PROVE  ResearchInv'
<1>1. PICK step \in {"page", "plan", "search"} :
        /\ seeks[s].step \in {"hint", "plan"}
        /\ Move(s, step) /\ UNCHANGED <<shelf, clock>>
  BY DEF FetchHint, Plan
<1> DEFINE q == [seeks[s] EXCEPT !.step = step]
<1>2. seeks[s] \in SearchRow /\ seeks[s].read = {}
  BY <1>1, UnderWay DEF ResearchInv, SeekSound
<1>3. SeekSound(q)
  BY <1>1, <1>2 DEF SeekSound, SearchRow
<1>4. seeks' = [seeks EXCEPT ![s] = q]
  BY <1>1 DEF Move
<1> HIDE DEF q
<1> QED
  BY <1>1, <1>3, <1>4, SeekMoves

LEMMA SeekDrops ==
  ASSUME ResearchInv, NEW s \in Seeker, seeks[s] \in SearchRow, Drop(s), UNCHANGED <<shelf, clock>>
  PROVE  ResearchInv'
<1> DEFINE q == [seeks[s] EXCEPT !.step = "note", !.pages = {}, !.read = {}, !.players = 0]
<1>1. SeekSound(q)
  BY DEF SeekSound, SearchRow
<1>2. seeks' = [seeks EXCEPT ![s] = q]
  BY DEF Drop
<1> HIDE DEF q
<1> QED
  BY <1>1, <1>2, SeekMoves

\* A stage that finds pages, or none.
LEMMA SeekFinds ==
  ASSUME ResearchInv, NEW s \in Seeker, NEW found \in SUBSET Webpage,
         Search(s, found) \/ Triage(s, found) \/ FetchPages(s, found)
  PROVE  ResearchInv'
<1>1. PICK step \in {"triage", "fetch", "extract"} :
        /\ seeks[s].step \in {"search", "triage", "fetch"}
        /\ IF found = {} THEN Drop(s)
           ELSE seeks' = [seeks EXCEPT ![s].step = step, ![s].pages = found]
        /\ UNCHANGED <<shelf, clock>>
  BY DEF Search, Triage, FetchPages
<1> DEFINE q == [seeks[s] EXCEPT !.step = step, !.pages = found]
<1>2. seeks[s] \in SearchRow /\ seeks[s].read = {}
  BY <1>1, UnderWay DEF ResearchInv, SeekSound
<1>3. SeekSound(q)
  BY <1>1, <1>2 DEF SeekSound, SearchRow
<1>4. CASE found # {}
  <2>1. seeks' = [seeks EXCEPT ![s] = q]
    BY <1>1, <1>4
  <2> HIDE DEF q
  <2> QED
    BY <1>1, <1>3, <2>1, SeekMoves
<1>5. CASE found = {}
  BY <1>1, <1>2, <1>5, SeekDrops
<1> QED
  BY <1>4, <1>5

LEMMA SeekReads ==
  ASSUME ResearchInv, NEW s \in Seeker, NEW u \in Webpage, NEW players \in {0, 3, 8},
         Extract(s, u, players)
  PROVE  ResearchInv'
<1> DEFINE read == seeks[s].read \cup {u}
           sum == seeks[s].players + players
           step == IF Enough(read, sum) \/ read = seeks[s].pages THEN "report" ELSE "extract"
           q == [seeks[s] EXCEPT !.read = read, !.players = sum, !.step = step]
<1>1. /\ seeks[s].step = "extract" /\ u \in Strongest(seeks[s].pages \ seeks[s].read)
      /\ seeks' = [seeks EXCEPT ![s] = q] /\ UNCHANGED <<shelf, clock>>
  BY DEF Extract
<1>2. seeks[s] \in SearchRow
  BY <1>1, UnderWay
<1>3. \A x \in read, v \in seeks[s].pages \ read : Tier(x) <= Tier(v)
  BY <1>1 DEF ResearchInv, SeekSound, Strongest
<1>4. /\ read \in SUBSET Webpage /\ sum \in Nat /\ step \in {"report", "extract"}
  BY <1>2 DEF SearchRow
<1> HIDE DEF read, sum, step
<1>5. /\ q \in SearchRow /\ q.step = step /\ q.read = read /\ q.pages = seeks[s].pages
  BY <1>2, <1>4 DEF SearchRow
<1>6. SeekSound(q)
  <2> HIDE DEF q
  <2> QED
    BY <1>3, <1>4, <1>5 DEF SeekSound
<1> HIDE DEF q
<1> QED
  BY <1>1, <1>6, SeekMoves

LEMMA SeekConcludes ==
  ASSUME ResearchInv, NEW s \in Seeker, Conclude(s)
  PROVE  ResearchInv'
<1> DEFINE r == seeks[s]
           answer == [tenant |-> r.tenant, of |-> r.of, filed |-> clock, kind |-> r.step]
           e == [key |-> KeyOf(r.tenant, r.of, clock), answer |-> answer]
           q == [step |-> "answered", tenant |-> r.tenant, of |-> r.of, at |-> clock, hit |-> FALSE,
                 answer |-> answer]
<1>1. /\ seeks[s].step \in {"page", "note", "report"}
      /\ shelf' = Shelved(e) /\ seeks' = [seeks EXCEPT ![s] = q] /\ clock' = clock
      /\ clock \in 0..LastHour
  BY DEF Conclude, ResearchInv
<1>2. r \in SearchRow
  BY <1>1, UnderWay
<1>3. answer \in Answers
  BY <1>1, <1>2 DEF SearchRow, Answers
<1>4. e \in ShelfRow /\ Filled(e)
  BY <1>1, <1>2, <1>3 DEF ShelfRow, KeyOf, Filled, SearchRow
<1>5. SeekSound(q)
  BY <1>1, <1>2, <1>3 DEF SeekSound, AnsweredRow, SearchRow
<1> HIDE DEF e, q
<1>6. DOMAIN seeks' = Seeker /\ seeks' = [x \in Seeker |-> seeks'[x]]
  BY <1>1 DEF ResearchInv
<1>7. \A x \in Seeker : SeekSound(seeks'[x])
  BY <1>1, <1>5 DEF ResearchInv
<1>8. \A x : SeekSound(x)' <=> SeekSound(x)
  BY DEF SeekSound
<1> QED
  BY <1>1, <1>4, <1>6, <1>7, <1>8, ShelvedInOrder DEF ResearchInv, Filled

LEMMA ResearchStep == ResearchInv /\ [ResearchNext]_researchVars => ResearchInv'
<1> SUFFICES ASSUME ResearchInv, [ResearchNext]_researchVars PROVE ResearchInv'
  OBVIOUS
<1>1. CASE UNCHANGED researchVars
  BY <1>1 DEF researchVars, ResearchInv, SeekSound, Filled
<1>2. ASSUME NEW s \in Seeker, PipelineFails(s) PROVE ResearchInv'
  BY <1>2, UnderWay, SeekDrops DEF PipelineFails
<1>3. SeekSound(Unasked)
  BY DEF SeekSound, Unasked
<1>4. ASSUME NEW s \in Seeker, TakeAnswer(s) PROVE ResearchInv'
  BY <1>3, <1>4, SeekMoves DEF TakeAnswer
<1>5. CASE HourPasses
  <2>1. clock' \in 0..LastHour
    BY <1>5, WebResearchAssumption DEF HourPasses, ResearchInv
  <2> QED
    BY <1>5, <2>1 DEF HourPasses, ResearchInv, SeekSound, Filled
<1>6. CASE RestartResearch
  <2>1. shelf' = <<>> /\ clock' = clock /\ seeks' = [s \in Seeker |-> Unasked]
    BY <1>6 DEF RestartResearch
  <2>2. \A x : SeekSound(x)' <=> SeekSound(x)
    BY DEF SeekSound
  <2>3. \A x \in Seeker : SeekSound(seeks'[x])
    BY <1>3, <2>1
  <2>4. /\ DOMAIN shelf' = {} /\ Len(shelf') = 0 /\ shelf' \in Seq(ShelfRow)
        /\ Len(shelf') <= CacheMax
    BY <2>1, WebResearchAssumption
  <2> QED
    BY <2>1, <2>2, <2>3, <2>4 DEF ResearchInv
<1> QED
  BY <1>1, <1>2, <1>4, <1>5, <1>6, SeekAsks, SeekSteps, SeekFinds, SeekReads, SeekConcludes
  DEF ResearchNext

-----------------------------------------------------------------------------
(* Plays.  An edit is of a play its own coach drew, so what a commit writes   *)
(* of a play no other edit has changed is what the coach asked for.          *)

PlayRow == [id : 1..Len(drawn), by : Planner, court : Court \cup {NoCourt}, content : Content]
EditRow == [id : 1..Len(drawn), by : Planner, read : Content, new : Content]
DrawnRow == [by : Planner, last : Content, overlapped : BOOLEAN]
ShareRow == [by : Planner, content : Content, court : Court \cup {NoCourt},
             tn : Court \cup {NoCourt}, own : SUBSET Court]

PlaybookInv ==
  /\ courtOf \in [Court -> Planner \cup {NoPlanner}]
  /\ courtNow \in [Planner -> Court \cup {NoCourt}]
  /\ drawn \in Seq(DrawnRow)
  /\ plays \subseteq PlayRow
  /\ \A p, o \in plays : p.id = o.id => p = o
  /\ handedOut \subseteq ShareRow
  /\ DOMAIN edits = Editor /\ edits = [r \in Editor |-> edits[r]]
  /\ \A r \in Editor : edits[r] # NotEditing =>
       edits[r] \in EditRow /\ edits[r].by = drawn[edits[r].id].by
  /\ PlaysAreTheirs

LEMMA PlaybookInitially == PlaybookInit => PlaybookInv
<1> SUFFICES ASSUME PlaybookInit PROVE PlaybookInv
  OBVIOUS
<1>1. drawn = <<>> /\ plays = {} /\ handedOut = {} /\ edits = [r \in Editor |-> NotEditing]
  BY DEF PlaybookInit
<1> QED
  BY <1>1 DEF PlaybookInit, PlaybookInv, PlaysAreTheirs

LEMMA PlaybookSound == PlaybookInv => PlaybookTypeOK
<1> SUFFICES ASSUME PlaybookInv PROVE PlaybookTypeOK
  OBVIOUS
<1>1. \A r \in Editor : edits[r] = NotEditing \/ edits[r].id \in 1..Len(drawn)
  BY DEF PlaybookInv, EditRow
<1> QED
  BY <1>1 DEF PlaybookInv, PlaybookTypeOK, PlayRow, DrawnRow, ShareRow

LEMMA PlayCreated ==
  ASSUME PlaybookInv, NEW c \in Planner, NEW content \in Content, CreatePlay(c, content)
  PROVE  PlaybookInv'
<1> DEFINE n == Len(drawn)
           p == [id |-> n + 1, by |-> c, court |-> courtNow[c], content |-> content]
           d == [by |-> c, last |-> content, overlapped |-> FALSE]
<1>1. /\ plays' = plays \cup {p} /\ drawn' = Append(drawn, d)
      /\ UNCHANGED <<courtVars, handedOut, edits>>
  BY DEF CreatePlay
<1>2. n \in Nat /\ drawn \in Seq(DrawnRow) /\ d \in DrawnRow
  BY DEF PlaybookInv, DrawnRow
<1>3. /\ drawn' \in Seq(DrawnRow) /\ Len(drawn') = n + 1 /\ drawn'[n + 1] = d
      /\ \A i \in 1..n : drawn'[i] = drawn[i]
  BY <1>1, <1>2
<1>4. 1..n \subseteq 1..(n + 1) /\ n + 1 \in 1..(n + 1) /\ n + 1 \notin 1..n
  BY <1>2
<1>5. courtNow[c] \in Court \cup {NoCourt}
  BY DEF PlaybookInv
<1>6. \A o \in plays : o \in PlayRow /\ o.id \in 1..n
  BY DEF PlaybookInv, PlayRow
<1>7. p.id = n + 1 /\ p.by = c /\ p.content = content /\ p \in PlayRow'
  BY <1>3, <1>4, <1>5 DEF PlayRow
<1>8. \A o \in plays : o \in PlayRow'
  BY <1>3, <1>4, <1>6 DEF PlayRow
<1>9. \A r \in Editor : edits[r] # NotEditing =>
        edits[r] \in EditRow' /\ edits[r].by = drawn'[edits[r].id].by
  BY <1>3, <1>4 DEF PlaybookInv, EditRow
<1>10. d.by = c /\ d.last = content
  OBVIOUS
<1> HIDE DEF p, d, n
<1>11. PlaysAreTheirs'
  BY <1>1, <1>3, <1>6, <1>7, <1>10, ZenonT(40) DEF PlaybookInv, PlaysAreTheirs
<1>12. plays' \subseteq PlayRow' /\ \A q, o \in plays' : q.id = o.id => q = o
  BY <1>1, <1>4, <1>6, <1>7, <1>8 DEF PlaybookInv
<1> QED
  BY <1>1, <1>3, <1>9, <1>11, <1>12 DEF PlaybookInv, courtVars, ShareRow

\* What changes neither plays nor what is told of them.
LEMMA PlaysStand ==
  ASSUME PlaybookInv, UNCHANGED <<plays, edits, drawn>>,
         courtOf' \in [Court -> Planner \cup {NoPlanner}],
         courtNow' \in [Planner -> Court \cup {NoCourt}],
         handedOut' \subseteq ShareRow,
         \A s \in handedOut' : s.court \in s.own \cup {s.tn}
  PROVE  PlaybookInv'
BY DEF PlaybookInv, PlaysAreTheirs, PlayRow, EditRow, ShareRow

LEMMA CourtsMove == PlaybookInv /\ CourtsNext => PlaybookInv'
<1> SUFFICES ASSUME PlaybookInv, CourtsNext PROVE PlaybookInv'
  OBVIOUS
<1>1. PICK c \in Planner, t \in Court : GoTo(c, t) \/ GiveAway(t, c)
  BY DEF CourtsNext
<1>2. /\ courtOf' \in [Court -> Planner \cup {NoPlanner}]
      /\ courtNow' \in [Planner -> Court \cup {NoCourt}]
      /\ UNCHANGED <<plays, handedOut, edits, drawn>>
  BY <1>1 DEF GoTo, GiveAway, PlaybookInv
<1> QED
  BY <1>2, PlaysStand DEF PlaybookInv, PlaysAreTheirs

LEMMA PlayShared ==
  ASSUME PlaybookInv, NEW c \in Planner, NEW content \in Content, NEW tn \in Court \cup {NoCourt},
         SharePlay(c, content, tn)
  PROVE  PlaybookInv'
<1> DEFINE named == IF Stamp(c) = NoCourt THEN tn ELSE Stamp(c)
           share == [by |-> c, content |-> content, court |-> named, tn |-> tn,
                     own |-> {t \in Court : courtOf[t] = c}]
<1>1. handedOut' = handedOut \cup {share} /\ UNCHANGED <<courtVars, plays, edits, drawn>>
  BY DEF SharePlay
<1>2. Stamp(c) \in Court \cup {NoCourt} /\ Stamp(c) \in {t \in Court : courtOf[t] = c} \cup {NoCourt}
  BY DEF Stamp, PlaybookInv
<1>3. share \in ShareRow /\ share.court \in share.own \cup {share.tn}
  BY <1>2 DEF ShareRow
<1> HIDE DEF share
<1> QED
  BY <1>1, <1>3, PlaysStand DEF courtVars, PlaybookInv, PlaysAreTheirs

LEMMA PlayDeleted ==
  ASSUME PlaybookInv, NEW c \in Planner, NEW p \in plays, DeletePlay(c, p)
  PROVE  PlaybookInv'
<1>1. plays' \subseteq plays /\ UNCHANGED <<courtVars, handedOut, edits, drawn>>
  BY DEF DeletePlay
<1> QED
  BY <1>1 DEF PlaybookInv, PlaysAreTheirs, courtVars, PlayRow, EditRow, ShareRow

LEMMA EditsMove ==
  ASSUME PlaybookInv, NEW r \in Editor, NEW e,
         e # NotEditing => e \in EditRow /\ e.by = drawn[e.id].by,
         edits' = [edits EXCEPT ![r] = e], UNCHANGED <<courtVars, plays, handedOut, drawn>>
  PROVE  PlaybookInv'
<1>1. DOMAIN edits' = Editor /\ edits' = [x \in Editor |-> edits'[x]]
  BY DEF PlaybookInv
<1>2. \A x \in Editor : edits'[x] # NotEditing =>
        edits'[x] \in EditRow /\ edits'[x].by = drawn[edits'[x].id].by
  BY DEF PlaybookInv
<1> QED
  BY <1>1, <1>2 DEF PlaybookInv, PlaysAreTheirs, courtVars, PlayRow, EditRow, ShareRow

LEMMA EditBegun ==
  ASSUME PlaybookInv, NEW r \in Editor, NEW c \in Planner, NEW p \in plays, NEW content \in Content,
         UpdatePlayRead(r, c, p, content)
  PROVE  PlaybookInv'
<1> DEFINE e == [id |-> p.id, by |-> c, read |-> p.content, new |-> content]
<1>1. /\ p.by = c /\ edits' = [edits EXCEPT ![r] = e]
      /\ UNCHANGED <<courtVars, plays, handedOut, drawn>>
  BY DEF UpdatePlayRead, Editable
<1>2. e \in EditRow /\ e.by = drawn[e.id].by
  BY <1>1 DEF EditRow, PlayRow, PlaybookInv, PlaysAreTheirs
<1> HIDE DEF e
<1> QED
  BY <1>1, <1>2, EditsMove

LEMMA EditCommitted ==
  ASSUME PlaybookInv, NEW r \in Editor, UpdatePlayCommit(r)
  PROVE  PlaybookInv'
<1> DEFINE e == edits[r]
<1>1. PICK p \in plays :
        /\ p.id = e.id
        /\ plays' = (plays \ {p}) \cup {[p EXCEPT !.content = Written(p.content, e)]}
        /\ drawn' = [drawn EXCEPT ![p.id] =
             [by |-> drawn[p.id].by, last |-> IF e.by = p.by THEN e.new ELSE drawn[p.id].last,
              overlapped |-> drawn[p.id].overlapped \/ p.content # e.read]]
  BY DEF UpdatePlayCommit
<1>2. /\ e # NotEditing /\ edits' = [edits EXCEPT ![r] = NotEditing]
      /\ UNCHANGED <<courtVars, handedOut>>
  BY DEF UpdatePlayCommit, EditOver
<1>3. e \in EditRow /\ e.by = drawn[e.id].by /\ p \in PlayRow /\ p.by = drawn[p.id].by
  BY <1>2 DEF PlaybookInv, PlaysAreTheirs
<1>4. e.by = p.by
  BY <1>1, <1>3
<1>5. drawn \in Seq(DrawnRow) /\ p.id \in 1..Len(drawn) /\ drawn[p.id] \in DrawnRow
      /\ DOMAIN drawn = 1..Len(drawn)
  BY <1>3 DEF PlaybookInv, PlayRow
<1> DEFINE w == Written(p.content, e)
           q == [p EXCEPT !.content = w]
           d == [by |-> drawn[p.id].by, last |-> e.new,
                 overlapped |-> drawn[p.id].overlapped \/ p.content # e.read]
<1>6. /\ e.new \in Content /\ e.read \in Content /\ p.content \in Content
  BY <1>3 DEF EditRow, PlayRow
<1>7. w \in Content
  BY <1>6 DEF Written, Content
<1>8. p.content = e.read => w = e.new
  BY <1>6 DEF Written, Content
<1>9. q \in PlayRow /\ q.id = p.id /\ q.by = p.by /\ q.content = w
  BY <1>3, <1>7 DEF PlayRow
<1>10. d \in DrawnRow /\ d.by = drawn[p.id].by /\ d.last = e.new
       /\ (d.overlapped \/ p.content = e.read)
  BY <1>5, <1>6 DEF DrawnRow
<1>11. plays' = (plays \ {p}) \cup {q} /\ drawn' = [drawn EXCEPT ![p.id] = d]
  BY <1>1, <1>4
<1> HIDE DEF w, q, d
<1>12. /\ drawn' \in Seq(DrawnRow) /\ Len(drawn') = Len(drawn) /\ drawn'[p.id] = d
       /\ \A i \in 1..Len(drawn) : i # p.id => drawn'[i] = drawn[i]
  BY <1>5, <1>10, <1>11
<1>13. \A i \in 1..Len(drawn) : drawn'[i].by = drawn[i].by
  BY <1>10, <1>12
<1>14. PlayRow' = PlayRow /\ EditRow' = EditRow
  BY <1>12 DEF PlayRow, EditRow
<1>15. \A o \in plays : o \in PlayRow /\ o.id \in 1..Len(drawn) /\ (o # p => o.id # p.id)
  BY <1>1 DEF PlaybookInv, PlayRow
<1>16. PlaysAreTheirs'
  <2>1. q.by = drawn'[q.id].by /\ (drawn'[q.id].overlapped \/ q.content = drawn'[q.id].last)
    BY <1>3, <1>8, <1>9, <1>10, <1>12
  <2>2. \A o \in plays \ {p} : /\ o.by = drawn'[o.id].by
                               /\ drawn'[o.id].overlapped \/ o.content = drawn'[o.id].last
    BY <1>12, <1>15 DEF PlaybookInv, PlaysAreTheirs
  <2> QED
    BY <1>2, <1>11, <2>1, <2>2 DEF PlaybookInv, PlaysAreTheirs
<1>17. plays' \subseteq PlayRow' /\ \A x, o \in plays' : x.id = o.id => x = o
  BY <1>9, <1>11, <1>14, <1>15 DEF PlaybookInv
<1>18. DOMAIN edits' = Editor /\ edits' = [x \in Editor |-> edits'[x]]
  BY <1>2 DEF PlaybookInv
<1>19. \A x \in Editor : edits'[x] # NotEditing =>
         edits'[x] \in EditRow' /\ edits'[x].by = drawn'[edits'[x].id].by
  <2> SUFFICES ASSUME NEW x \in Editor, edits'[x] # NotEditing
               PROVE  edits'[x] \in EditRow' /\ edits'[x].by = drawn'[edits'[x].id].by
    OBVIOUS
  <2>1. edits'[x] = edits[x]
    BY <1>2 DEF PlaybookInv
  <2>2. edits[x] \in EditRow /\ edits[x].by = drawn[edits[x].id].by
    BY <2>1 DEF PlaybookInv
  <2>3. edits[x].id \in 1..Len(drawn)
    BY <2>2 DEF EditRow
  <2> QED
    BY <1>13, <1>14, <2>1, <2>2, <2>3
<1> QED
  BY <1>2, <1>12, <1>16, <1>17, <1>18, <1>19 DEF PlaybookInv, courtVars, ShareRow

LEMMA PlaybookStep == PlaybookInv /\ [PlaybookNext]_playbookVars => PlaybookInv'
<1> SUFFICES ASSUME PlaybookInv, [PlaybookNext]_playbookVars PROVE PlaybookInv'
  OBVIOUS
<1>1. CASE UNCHANGED playbookVars
  BY <1>1, PlaysStand DEF playbookVars, PlaybookInv, PlaysAreTheirs
<1>2. ASSUME NEW r \in Editor, UpdatePlayFails(r) PROVE PlaybookInv'
  BY <1>2, EditsMove DEF UpdatePlayFails, EditOver
<1> QED
  BY <1>1, <1>2, PlayCreated, PlayShared, PlayDeleted, EditBegun, EditCommitted, CourtsMove
  DEF PlaybookNext

-----------------------------------------------------------------------------
(* The roadmap.  What was done all the while a roadmap is counted was found, *)
(* or is still to be counted: a play that was there throughout is found by   *)
(* the second statement, and an event, which stays, by the third.            *)

LookRow == [next : 1..(Statements + 1), by : Planner, court : Court, items : SUBSET Item]

\* The statement that finds an item.
Finds(item) ==
  CASE item \in {"three_players", "full_roster"} -> 1
    [] item = "first_play" -> 3
    [] item = "first_notebook" -> 4
    [] item = "practice_plan" -> 5

LookSound(r) ==
  /\ looks[r] \in LookRow
  /\ meant[r].always \subseteq Done[<<looks[r].by, looks[r].court>>]
  /\ looks[r].items \subseteq meant[r].ever
  /\ \A item \in meant[r].always : Finds(item) < looks[r].next => item \in looks[r].items
  /\ "first_play" \in meant[r].always /\ looks[r].next = 3 /\ "first_play" \notin looks[r].items =>
       EventOf(looks[r].by, looks[r].court)
  /\ "full_roster" \in looks[r].items => "three_players" \in looks[r].items

RoadmapInv ==
  /\ PlaybookInv
  /\ bench \in [Court -> 0..FullRoster]
  /\ pages \subseteq [by : Planner, court : Court, plan : BOOLEAN]
  /\ opened \subseteq [by : Planner, court : Court]
  /\ DOMAIN looks = Looker /\ DOMAIN meant = Looker
  /\ \A r \in Looker : looks[r] # NotLooking => LookSound(r)

LEMMA DoneItems ==
  ASSUME NEW c \in Planner, NEW t \in Court
  PROVE  /\ Done[<<c, t>>] \subseteq Item
         /\ \A k \in 1..Statements : Counted(k, c, t) \subseteq Done[<<c, t>>]
         /\ \A item \in Done[<<c, t>>] : item # "first_play" => item \in Counted(Finds(item), c, t)
         /\ "first_play" \in Done[<<c, t>>] => PlayOf(c, t) \/ EventOf(c, t)
         /\ PlayOf(c, t) => "first_play" \in Counted(2, c, t)
         /\ EventOf(c, t) => "first_play" \in Counted(3, c, t)
<1> DEFINE all == RosterItems(t)
              \cup Kept("first_play",
                     (\E p \in plays : p.by = c /\ p.court = t) \/ [by |-> c, court |-> t] \in opened)
              \cup Kept("first_notebook", \E p \in pages : p.by = c /\ p.court = t)
              \cup Kept("practice_plan", \E p \in pages : p.by = c /\ p.court = t /\ p.plan)
<1>1. Done[<<c, t>>] = all
  BY DEF Done
<1>2. 1..Statements = {1, 2, 3, 4, 5}
  BY DEF Statements
<1>3. /\ Counted(1, c, t) = RosterItems(t)
      /\ Counted(2, c, t) = Kept("first_play", PlayOf(c, t))
      /\ Counted(3, c, t) = Kept("first_play", EventOf(c, t))
      /\ Counted(4, c, t) = Kept("first_notebook", PagesOf(c, t) # {})
      /\ Counted(5, c, t) = Kept("practice_plan", PlanOf(c, t))
  BY DEF Counted
<1>4. /\ PlayOf(c, t) <=> \E p \in plays : p.by = c /\ p.court = t
      /\ EventOf(c, t) <=> [by |-> c, court |-> t] \in opened
      /\ PagesOf(c, t) # {} <=> \E p \in pages : p.by = c /\ p.court = t
      /\ PlanOf(c, t) <=> \E p \in pages : p.by = c /\ p.court = t /\ p.plan
  BY DEF PlayOf, EventOf, PagesOf, PlanOf
<1>5. RosterItems(t) \subseteq {"three_players", "full_roster"}
  BY DEF RosterItems, Kept
<1>6. all \subseteq Item
  BY <1>5 DEF Kept, Item
<1>7. \A k \in 1..Statements : Counted(k, c, t) \subseteq all
  BY <1>2, <1>3, <1>4 DEF Kept
<1>8. \A item \in all : item # "first_play" => item \in Counted(Finds(item), c, t)
  BY <1>3, <1>4, <1>5 DEF Kept, Finds
<1>9. "first_play" \in all => PlayOf(c, t) \/ EventOf(c, t)
  BY <1>4, <1>5 DEF Kept
<1>10. /\ PlayOf(c, t) => "first_play" \in Counted(2, c, t)
       /\ EventOf(c, t) => "first_play" \in Counted(3, c, t)
  BY <1>3 DEF Kept
<1> HIDE DEF all
<1> QED
  BY <1>1, <1>6, <1>7, <1>8, <1>9, <1>10

LEMMA RoadmapInitially == RoadmapInit => RoadmapInv
<1> SUFFICES ASSUME RoadmapInit PROVE RoadmapInv
  OBVIOUS
<1>1. bench \in [Court -> 0..FullRoster]
  BY RoadmapAssumption DEF RoadmapInit
<1> QED
  BY <1>1, PlaybookInitially DEF RoadmapInit, RoadmapInv

LEMMA RoadmapSound == RoadmapInv => RoadmapTypeOK /\ RoadmapIsHonest
<1> SUFFICES ASSUME RoadmapInv PROVE RoadmapTypeOK /\ RoadmapIsHonest
  OBVIOUS
<1>1. ASSUME NEW r \in Looker, looks[r] # NotLooking
      PROVE  /\ looks[r].next \in 1..(Statements + 1) /\ looks[r].items \subseteq Item
             /\ looks[r].items \subseteq meant[r].ever
             /\ looks[r].next > Statements => meant[r].always \subseteq looks[r].items
             /\ "full_roster" \in looks[r].items => "three_players" \in looks[r].items
  <2>1. LookSound(r)
    BY <1>1 DEF RoadmapInv
  <2>2. \A item \in meant[r].always : Finds(item) < looks[r].next => item \in looks[r].items
    BY <2>1 DEF LookSound
  <2>3. meant[r].always \subseteq Item /\ looks[r] \in LookRow
    BY <2>1, DoneItems DEF LookSound, LookRow
  <2>4. \A item \in Item : Finds(item) \in {1, 3, 4, 5}
    BY DEF Item, Finds
  <2>5. looks[r].next > Statements => meant[r].always \subseteq looks[r].items
    BY <2>2, <2>3, <2>4 DEF Statements, LookRow
  <2> QED
    BY <2>1, <2>3, <2>5 DEF LookSound, LookRow
<1> QED
  BY <1>1, PlaybookSound DEF RoadmapInv, RoadmapTypeOK, RoadmapIsHonest

\* A roadmap that waits while rows are added and deleted.
LEMMA LookWaits ==
  ASSUME RoadmapInv, NEW r \in Looker, looks[r] # NotLooking, looks'[r] = looks[r],
         opened \subseteq opened', meant'[r] = Meaning(r)
  PROVE  LookSound(r)'
<1> DEFINE now == Done'[<<looks[r].by, looks[r].court>>]
<1>1. LookSound(r)
  BY DEF RoadmapInv
<1>2. meant'[r] = [ever |-> meant[r].ever \cup now, always |-> meant[r].always \cap now]
  BY DEF Meaning
<1>3. EventOf(looks[r].by, looks[r].court) => EventOf(looks[r].by, looks[r].court)'
  BY DEF EventOf
<1> HIDE DEF now
<1>5. /\ meant'[r].ever = meant[r].ever \cup now
      /\ meant'[r].always = meant[r].always \cap now
  BY <1>2
<1>6. Done[<<looks[r].by, looks[r].court>>]' = now
  BY DEF now
<1> QED
  BY <1>1, <1>3, <1>5, <1>6 DEF LookSound, LookRow

LEMMA LookBegins ==
  ASSUME RoadmapInv, NEW r \in Looker, NEW c \in Planner, BeginLook(r, c), meant'[r] = Meaning(r)
  PROVE  LookSound(r)' /\ looks' = [looks EXCEPT ![r] = looks'[r]]
<1> DEFINE q == [next |-> 1, by |-> c, court |-> courtNow[c], items |-> {}]
           now == Done'[<<q.by, q.court>>]
<1>1. looks[r] = NotLooking /\ looks' = [looks EXCEPT ![r] = q] /\ courtNow[c] \in Court
  BY DEF BeginLook, RoadmapInv, PlaybookInv
<1>2. looks'[r] = q /\ q # NotLooking
  BY <1>1 DEF RoadmapInv, NotLooking
<1>3. meant'[r] = [ever |-> now, always |-> now]
  BY <1>1, <1>2 DEF Meaning
<1>4. q \in LookRow
  BY <1>1 DEF LookRow, Statements
<1>5. now \subseteq Item
  <2>1. Done' = Done
    BY DEF BeginLook, Done, playbookVars, RosterItems
  <2> QED
    BY <1>1, <2>1, DoneItems
<1>6. \A item \in Item : ~(Finds(item) < 1)
  BY DEF Item, Finds
<1>7. Done[<<looks[r].by, looks[r].court>>]' = now
  BY <1>2
<1>8. q.next = 1 /\ q.items = {}
  OBVIOUS
<1> HIDE DEF now, q
<1>9. LookSound(r)'
  BY <1>2, <1>3, <1>4, <1>5, <1>6, <1>7, <1>8 DEF LookSound, LookRow
<1> QED
  BY <1>1, <1>2, <1>9

LEMMA LookCounts ==
  ASSUME RoadmapInv, NEW r \in Looker, CountNext(r), meant'[r] = Meaning(r)
  PROVE  LookSound(r)' /\ looks' = [looks EXCEPT ![r] = looks'[r]]
<1> DEFINE k == looks[r].next
           c == looks[r].by
           t == looks[r].court
           found == Counted(k, c, t)
           q == [looks[r] EXCEPT !.next = k + 1, !.items = looks[r].items \cup found]
<1>1. /\ k \in 1..Statements /\ looks' = [looks EXCEPT ![r] = q]
      /\ UNCHANGED <<playbookVars, bench, pages, opened>>
  BY DEF CountNext
<1>2. looks[r] # NotLooking
  BY <1>1 DEF NotLooking, Statements
<1>3. LookSound(r) /\ looks[r] \in LookRow /\ c \in Planner /\ t \in Court
  BY <1>2 DEF RoadmapInv, LookSound, LookRow
<1>4. /\ found \subseteq Done[<<c, t>>] /\ Done[<<c, t>>] \subseteq Item
      /\ \A item \in Done[<<c, t>>] : item # "first_play" => item \in Counted(Finds(item), c, t)
      /\ "first_play" \in Done[<<c, t>>] => PlayOf(c, t) \/ EventOf(c, t)
      /\ PlayOf(c, t) => "first_play" \in Counted(2, c, t)
      /\ EventOf(c, t) => "first_play" \in Counted(3, c, t)
  BY <1>1, <1>3, DoneItems
<1>5. "full_roster" \in found => "three_players" \in found
  <2>1. bench[t] \in 0..FullRoster /\ FewPlayers \in Nat /\ FullRoster \in Nat /\ FewPlayers <= FullRoster
    BY <1>3, RoadmapAssumption DEF RoadmapInv
  <2>2. "full_roster" \in RosterItems(t) => "three_players" \in RosterItems(t)
    BY <2>1 DEF RosterItems, Kept
  <2>3. k \in {1, 2, 3, 4, 5}
    BY <1>1 DEF Statements
  <2>4. k # 1 => "full_roster" \notin found
    BY <2>3 DEF Counted, Kept
  <2>5. k = 1 => found = RosterItems(t)
    BY DEF Counted
  <2> QED
    BY <2>2, <2>4, <2>5
<1>6. q \in LookRow /\ q.next = k + 1 /\ q.items = looks[r].items \cup found /\ q.by = c /\ q.court = t
  <2>1. looks[r].items \cup found \in SUBSET Item /\ k + 1 \in 1..(Statements + 1)
    BY <1>1, <1>3, <1>4 DEF LookRow, Statements
  <2> HIDE DEF found
  <2> QED
    BY <1>3, <2>1 DEF LookRow
<1>7. looks'[r] = q /\ q # NotLooking
  <2>1. k + 1 # 0 /\ NotLooking.next = 0
    BY <1>1 DEF NotLooking, Statements
  <2>2. q # NotLooking
    <3> HIDE DEF q
    <3> QED
      BY <1>6, <2>1
  <2> HIDE DEF q
  <2> QED
    BY <1>1, <2>2 DEF RoadmapInv
<1>8. Done' = Done
  BY <1>1 DEF Done, playbookVars, RosterItems
<1> DEFINE now == Done[<<c, t>>]
<1>9. meant'[r].ever = meant[r].ever \cup now /\ meant'[r].always = meant[r].always \cap now
  BY <1>2, <1>6, <1>7, <1>8 DEF Meaning
<1>10. opened' = opened
  BY <1>1
<1>11. meant[r].always \subseteq now
  BY <1>3 DEF LookSound
<1>12. \A item \in meant[r].always : Finds(item) < k => item \in looks[r].items
  BY <1>3 DEF LookSound
<1>13. \A item \in Item : Finds(item) \in {1, 3, 4, 5} /\ (Finds(item) = 3 <=> item = "first_play")
  BY DEF Item, Finds
<1>14. \A item \in meant[r].always : Finds(item) < k + 1 => item \in looks[r].items \cup found
  <2> SUFFICES ASSUME NEW item \in meant[r].always, Finds(item) < k + 1, item \notin looks[r].items
               PROVE  item \in found
    OBVIOUS
  <2>1. Finds(item) = k /\ item \in now
    BY <1>1, <1>4, <1>11, <1>12, <1>13 DEF Statements
  <2>2. CASE item # "first_play"
    BY <1>4, <2>1, <2>2
  <2>3. CASE item = "first_play"
    <3>1. k = 3
      BY <1>4, <1>13, <2>1, <2>3
    <3>2. EventOf(c, t)
      BY <1>3, <2>3, <3>1 DEF LookSound
    <3> QED
      BY <1>4, <2>3, <3>1, <3>2
  <2> QED
    BY <2>2, <2>3
<1>15. "first_play" \in meant[r].always /\ k + 1 = 3 /\ "first_play" \notin looks[r].items \cup found =>
         EventOf(c, t)
  <2> SUFFICES ASSUME "first_play" \in meant[r].always, k + 1 = 3, "first_play" \notin found
               PROVE  EventOf(c, t)
    OBVIOUS
  <2>1. k = 2
    BY <1>1 DEF Statements
  <2> QED
    BY <1>4, <1>11, <2>1
<1>16. /\ looks[r].items \subseteq meant[r].ever
       /\ "full_roster" \in looks[r].items => "three_players" \in looks[r].items
  BY <1>3 DEF LookSound
<1>17. Done[<<looks[r].by, looks[r].court>>]' = now
  BY <1>6, <1>7, <1>8
<1> HIDE DEF q, now, found, c, t, k
<1>18. LookSound(r)'
  BY <1>4, <1>5, <1>6, <1>7, <1>9, <1>10, <1>11, <1>14, <1>15, <1>16, <1>17
  DEF LookSound, LookRow, EventOf, now
<1> QED
  BY <1>1, <1>7, <1>18

\* Another roadmap moves, or none does.
LEMMA RoadmapFrom ==
  ASSUME RoadmapInv, PlaybookInv', opened \subseteq opened',
         bench' \in [Court -> 0..FullRoster],
         pages' \subseteq [by : Planner, court : Court, plan : BOOLEAN],
         opened' \subseteq [by : Planner, court : Court],
         meant' = [r \in Looker |-> Meaning(r)],
         DOMAIN looks' = Looker,
         \A r \in Looker : \/ looks'[r] = looks[r] \/ looks'[r] = NotLooking \/ LookSound(r)'
  PROVE  RoadmapInv'
<1>1. ASSUME NEW r \in Looker, looks'[r] # NotLooking
      PROVE  LookSound(r)'
  <2>1. meant'[r] = Meaning(r)
    OBVIOUS
  <2> QED
    BY <1>1, <2>1, LookWaits
<1>2. DOMAIN meant' = Looker
  OBVIOUS
<1> QED
  BY <1>1, <1>2 DEF RoadmapInv

LEMMA RoadmapMoves == RoadmapInv /\ RoadmapNext => RoadmapInv'
<1> SUFFICES ASSUME RoadmapInv, RoadmapNext PROVE RoadmapInv'
  OBVIOUS
<1>1. meant' = [r \in Looker |-> Meaning(r)] /\ \A r \in Looker : meant'[r] = Meaning(r)
  BY DEF RoadmapNext
<1>2. [PlaybookNext]_playbookVars
  <2>1. ChangePlays => PlaybookNext
    BY DEF ChangePlays, PlaybookNext
  <2> QED
    BY <2>1 DEF RoadmapNext, ChangeBench, MarkEvent, WritePage, TearPage, BeginLook, CountNext, ShowRoadmap
<1>3. PlaybookInv'
  BY <1>2, PlaybookStep DEF RoadmapInv
<1>4. bench' \in [Court -> 0..FullRoster]
  <2>1. ASSUME NEW t, NEW n, OnBench(t, n) PROVE bench' \in [Court -> 0..FullRoster]
    BY <2>1 DEF OnBench, RoadmapInv
  <2>2. bench \in [Court -> 0..FullRoster]
    BY DEF RoadmapInv
  <2>3. ASSUME NEW c, ChangeBench(c) PROVE bench' \in [Court -> 0..FullRoster]
    BY <2>1, <2>3 DEF ChangeBench
  <2> QED
    BY <2>2, <2>3 DEF RoadmapNext, MarkEvent, WritePage, TearPage, BeginLook, CountNext,
                      ShowRoadmap, ChangePlays
<1>5. /\ pages' \subseteq [by : Planner, court : Court, plan : BOOLEAN]
      /\ opened' \subseteq [by : Planner, court : Court] /\ opened \subseteq opened'
  <2>1. \A c \in Planner : courtNow[c] # NoCourt => courtNow[c] \in Court
    BY DEF RoadmapInv, PlaybookInv
  <2>2. /\ pages \subseteq [by : Planner, court : Court, plan : BOOLEAN]
        /\ opened \subseteq [by : Planner, court : Court]
    BY DEF RoadmapInv
  <2>3. ASSUME NEW c \in Planner, NEW plan \in BOOLEAN, WritePage(c, plan) PROVE <1>5!:
    BY <2>1, <2>2, <2>3 DEF WritePage
  <2>4. ASSUME NEW c \in Planner, MarkEvent(c) PROVE <1>5!:
    BY <2>1, <2>2, <2>4 DEF MarkEvent
  <2>5. ASSUME NEW page, TearPage(page) PROVE <1>5!:
    BY <2>2, <2>5 DEF TearPage
  <2>6. UNCHANGED <<pages, opened>> => <1>5!:
    BY <2>2
  <2>7. ASSUME NEW c, ChangeBench(c) PROVE UNCHANGED <<pages, opened>>
    BY <2>7 DEF ChangeBench, OnBench
  <2> QED
    BY <2>3, <2>4, <2>5, <2>6, <2>7 DEF RoadmapNext, BeginLook, CountNext, ShowRoadmap, ChangePlays
<1>6. CASE looks' = looks
  BY <1>1, <1>3, <1>4, <1>5, <1>6, RoadmapFrom DEF RoadmapInv
<1>7. ASSUME NEW r \in Looker, LookSound(r)' \/ looks'[r] = NotLooking,
             looks' = [looks EXCEPT ![r] = looks'[r]]
      PROVE  RoadmapInv'
  <2>1. DOMAIN looks' = Looker /\ \A x \in Looker \ {r} : looks'[x] = looks[x]
    BY <1>7 DEF RoadmapInv
  <2>2. \A x \in Looker : looks'[x] = looks[x] \/ looks'[x] = NotLooking \/ LookSound(x)'
    BY <1>7, <2>1
  <2> QED
    BY <1>1, <1>3, <1>4, <1>5, <2>1, <2>2, RoadmapFrom
<1>8. ASSUME NEW r \in Looker, NEW c \in Planner, BeginLook(r, c) PROVE RoadmapInv'
  BY <1>1, <1>7, <1>8, LookBegins
<1>9. ASSUME NEW r \in Looker, CountNext(r) PROVE RoadmapInv'
  BY <1>1, <1>7, <1>9, LookCounts
<1>10. ASSUME NEW r \in Looker, ShowRoadmap(r) PROVE RoadmapInv'
  BY <1>7, <1>10 DEF ShowRoadmap, RoadmapInv
<1>11. \/ looks' = looks
       \/ \E r \in Looker : \/ CountNext(r) \/ ShowRoadmap(r) \/ \E c \in Planner : BeginLook(r, c)
  BY DEF RoadmapNext, ChangeBench, OnBench, MarkEvent, WritePage, TearPage, ChangePlays
<1> QED
  BY <1>6, <1>8, <1>9, <1>10, <1>11

LEMMA RoadmapStands == RoadmapInv /\ UNCHANGED roadmapVars => RoadmapInv'
<1> SUFFICES ASSUME RoadmapInv, UNCHANGED roadmapVars PROVE RoadmapInv'
  OBVIOUS
<1>1. UNCHANGED <<playbookVars, bench, pages, opened, looks, meant>>
  BY DEF roadmapVars
<1>2. PlaybookInv'
  BY <1>1, PlaybookStep DEF RoadmapInv
<1>3. \A i : Finds(i)' = Finds(i)
  BY <1>1 DEF Finds
<1>4. Done' = Done /\ \A c, t : EventOf(c, t)' = EventOf(c, t)
  BY <1>1 DEF Done, RosterItems, Kept, EventOf, playbookVars
<1>5. \A r \in Looker : LookSound(r) => LookSound(r)'
  BY <1>1, <1>3, <1>4 DEF LookSound
<1> QED
  BY <1>1, <1>2, <1>5 DEF RoadmapInv

\* Without roadmaps under way, the plays may change alone.
LEMMA PlaysMoveAlone ==
  ASSUME RoadmapInv, [PlaybookNext]_playbookVars, UNCHANGED <<bench, pages, opened, looks, meant>>,
         \A r \in Looker : looks[r] = NotLooking
  PROVE  RoadmapInv'
<1>1. PlaybookInv'
  BY PlaybookStep DEF RoadmapInv
<1> QED
  BY <1>1 DEF RoadmapInv

-----------------------------------------------------------------------------
(* The conversation.  A turn that overlaps no other is the only one under    *)
(* way, and everything in the conversation is older than its own message.    *)

TurnRow == [step : {"begun", "asked", "remember"}, stream : BOOLEAN, at : Nat,
            team : ChatTeam \cup {NoTeam}, raced : BOOLEAN, prompt : SUBSET Nat]

MessageRow == [role : {"user", "assistant"}, team : ChatTeam \cup {NoTeam}, at : Nat]

Turning(s) == turns[s].step \in {"begun", "asked"}

TurnSound(s) ==
  /\ turns[s].at \in 1..begun
  /\ ~ turns[s].raced =>
       /\ \A o \in Sender \ {s} : ~ Turning(o)
       /\ \A i \in DOMAIN conversations : conversations[i].at < turns[s].at
  /\ turns[s].step = "asked" /\ ~ turns[s].raced =>
       /\ Own \notin turns[s].prompt
       /\ \A i \in turns[s].prompt, j \in Loaded(s) \ (turns[s].prompt \cup {Own}) :
            At(s, i) >= At(s, j)

ChatInv ==
  /\ begun \in Nat
  /\ activeTeam \in ChatTeam \cup {NoTeam}
  /\ conversations \in Seq(MessageRow)
  /\ \A i \in DOMAIN conversations : conversations[i].at \in 1..begun
  /\ turns \in [Sender -> {Quiet} \cup TurnRow]
  /\ \A s \in Sender : Turning(s) => TurnSound(s)
  /\ \A m \in memories : m.personal \/ m.team = m.about

LEMMA ChatInitially == ChatInit => ChatInv
<1> SUFFICES ASSUME ChatInit PROVE ChatInv
  OBVIOUS
<1>1. \A s \in Sender : ~ Turning(s)
  BY DEF ChatInit, Turning, Quiet
<1> QED
  BY <1>1 DEF ChatInit, ChatInv

LEMMA ChatSound == ChatInv => ChatTypeOK /\ PromptCarriesTurn
<1> SUFFICES ASSUME ChatInv PROVE ChatTypeOK /\ PromptCarriesTurn
  OBVIOUS
<1>1. ChatTypeOK
  BY DEF ChatInv, ChatTypeOK
<1>2. \A s \in Sender : turns[s].step = "asked" => TurnSound(s)
  BY DEF ChatInv, Turning
<1> QED
  BY <1>1, <1>2 DEF TurnSound, PromptCarriesTurn

LEMMA TurnColumns ==
  ASSUME ChatInv, NEW s \in Sender, turns[s] # Quiet \/ turns[s].step # "quiet"
  PROVE  turns[s] \in TurnRow
BY DEF ChatInv, Quiet

\* The turns that go on, when rows, time and teams are as they were.
LEMMA TurnGoesOn ==
  ASSUME ChatInv, NEW s \in Sender, NEW q \in {Quiet} \cup TurnRow,
         turns' = [turns EXCEPT ![s] = q], UNCHANGED <<conversations, begun>>,
         activeTeam' \in ChatTeam \cup {NoTeam},
         \A m \in memories' : m.personal \/ m.team = m.about,
         q.step \in {"begun", "asked"} => Turning(s) /\ TurnSound(s)'
  PROVE  ChatInv'
<1>1. turns' \in [Sender -> {Quiet} \cup TurnRow] /\ turns'[s] = q
      /\ \A o \in Sender \ {s} : turns'[o] = turns[o]
  BY DEF ChatInv
<1> HIDE DEF Turning
<1>2. \A o \in Sender : Turning(o)' => Turning(o)
  BY <1>1 DEF Turning
<1>3. ASSUME NEW o \in Sender \ {s}, Turning(o)' PROVE TurnSound(o)'
  <2>1. TurnSound(o) /\ turns'[o] = turns[o]
    BY <1>1, <1>2, <1>3 DEF ChatInv
  <2> QED
    BY <1>2, <2>1 DEF TurnSound, Loaded, At
<1>4. Turning(s)' => TurnSound(s)'
  BY <1>1 DEF Turning
<1> QED
  BY <1>1, <1>3, <1>4 DEF ChatInv

LEMMA TurnsEnd ==
  ASSUME ChatInv, NEW s \in Sender,
         \/ TurnLost(s) \/ RememberNothing(s)
         \/ \E personal \in BOOLEAN : Remember(s, personal)
  PROVE  ChatInv'
<1>1. turns' = [turns EXCEPT ![s] = Quiet] /\ UNCHANGED <<conversations, begun, activeTeam>>
  BY DEF TurnLost, RememberNothing, Remember
<1>2. \A m \in memories' : m.personal \/ m.team = m.about
  BY DEF TurnLost, RememberNothing, Remember, ScopeTeam, ChatInv
<1>3. Quiet.step \notin {"begun", "asked"}
  BY DEF Quiet
<1> QED
  BY <1>1, <1>2, <1>3, TurnGoesOn DEF ChatInv

\* What the turn reads of the conversation.
LEMMA NewestIsOwn ==
  ASSUME ChatInv, NEW s \in Sender, Turning(s), ~ turns[s].raced,
         NEW window \in Recent(s, Loaded(s), HistoryLimit),
         NEW prompt \in Trimmed(s, window)
  PROVE  prompt = window \ {Own}
<1>1. TurnSound(s) /\ HistoryLimit \in Nat \ {0}
  BY ChatAssumption DEF ChatInv
<1>2. At(s, Own) = turns[s].at /\ turns[s].at \in Nat
  BY <1>1 DEF At, TurnSound
<1>3. \A i \in Loaded(s) \ {Own} : At(s, i) < At(s, Own) /\ At(s, i) \in Nat
  BY <1>1, <1>2 DEF Loaded, At, TurnSound, Own, ChatInv, MessageRow
<1>4. IsFiniteSet(Loaded(s)) /\ Own \in Loaded(s)
  <2>1. DOMAIN conversations = 1..Len(conversations) /\ Len(conversations) \in Nat
    BY DEF ChatInv
  <2>2. Loaded(s) \subseteq 0..Len(conversations)
    BY <2>1 DEF Loaded, Own
  <2>3. IsFiniteSet(0..Len(conversations))
    BY <2>1, FS_Interval
  <2> QED
    BY <2>2, <2>3, FS_Subset DEF Loaded
<1>5. Cardinality(Loaded(s)) \in Nat \ {0}
  BY <1>4, FS_CardinalityType, FS_EmptySet
<1>6. window \subseteq Loaded(s) /\ Cardinality(window) # 0
      /\ \A i \in window, j \in Loaded(s) \ window : At(s, i) >= At(s, j)
  BY <1>1, <1>5 DEF Recent
<1>7. window # {}
  BY <1>6, FS_EmptySet
<1>8. Own \in window
  BY <1>2, <1>3, <1>4, <1>6, <1>7
<1>9. PICK x \in window : prompt = window \ {x} /\ \A j \in window : At(s, x) >= At(s, j)
  BY DEF Trimmed
<1>10. x = Own
  BY <1>2, <1>3, <1>6, <1>8, <1>9
<1> QED
  BY <1>9, <1>10

LEMMA TurnAsks ==
  ASSUME ChatInv, NEW s \in Sender, AskModel(s)
  PROVE  ChatInv'
<1>0. PICK window \in Recent(s, Loaded(s), HistoryLimit) :
        \E history \in Trimmed(s, window) :
          turns' = [turns EXCEPT ![s].step = "asked", ![s].prompt = history]
  BY DEF AskModel
<1>1. PICK prompt \in Trimmed(s, window) :
        turns' = [turns EXCEPT ![s].step = "asked", ![s].prompt = prompt]
  BY <1>0
<1> DEFINE q == [turns[s] EXCEPT !.step = "asked", !.prompt = prompt]
<1>2. /\ turns[s].step = "begun" /\ turns' = [turns EXCEPT ![s] = q]
      /\ UNCHANGED <<conversations, begun, memories, activeTeam>>
  BY <1>1 DEF AskModel
<1>3. turns[s] \in TurnRow /\ Turning(s) /\ TurnSound(s)
  BY <1>2, TurnColumns DEF ChatInv, Turning
<1>4. window \subseteq Loaded(s) /\ prompt \subseteq window /\ Loaded(s) \subseteq Nat
  BY DEF Recent, Trimmed, Loaded, Own, ChatInv
<1>5. q \in TurnRow /\ q.at = turns[s].at /\ q.team = turns[s].team /\ q.raced = turns[s].raced
      /\ q.step = "asked" /\ q.prompt = prompt
  BY <1>3, <1>4 DEF TurnRow
<1> HIDE DEF q
<1>6. turns'[s] = q /\ \A o \in Sender \ {s} : turns'[o] = turns[o]
  BY <1>2 DEF ChatInv
<1>7. Loaded(s)' = Loaded(s) /\ \A i : At(s, i)' = At(s, i)
  BY <1>2, <1>5, <1>6 DEF Loaded, At
<1>8. ~ turns[s].raced => /\ prompt = window \ {Own}
                          /\ \A i \in window, j \in Loaded(s) \ window : At(s, i) >= At(s, j)
  BY <1>3, NewestIsOwn DEF Recent
<1>9. ~ turns[s].raced => /\ Own \notin prompt
                          /\ \A i \in prompt, j \in Loaded(s) \ (prompt \cup {Own}) : At(s, i) >= At(s, j)
  BY <1>8
<1>10. \A o \in Sender \ {s} : Turning(o)' = Turning(o)
  BY <1>6 DEF Turning
<1>11. TurnSound(s)'
  BY <1>2, <1>3, <1>5, <1>6, <1>7, <1>9, <1>10 DEF TurnSound
<1> QED
  BY <1>2, <1>3, <1>5, <1>11, TurnGoesOn DEF ChatInv

LEMMA TurnBegins ==
  ASSUME ChatInv, NEW s \in Sender, NEW stream \in BOOLEAN, BeginTurn(s, stream)
  PROVE  ChatInv'
<1> DEFINE others == {o \in Sender : turns[o].step \in {"begun", "asked"}}
           q == [step |-> "begun", stream |-> stream, at |-> begun', team |-> activeTeam,
                 raced |-> others # {}, prompt |-> {}]
           row(o) == CASE o = s -> q
                       [] o \in others -> [turns[o] EXCEPT !.raced = TRUE]
                       [] OTHER -> turns[o]
<1>1. /\ turns[s] = Quiet /\ begun' = begun + 1 /\ turns' = [o \in Sender |-> row(o)]
      /\ UNCHANGED <<conversations, memories, activeTeam>>
  BY DEF BeginTurn
<1>2. begun \in Nat /\ s \notin others
  BY <1>1 DEF ChatInv, Quiet
<1>3. q \in TurnRow
  BY <1>1, <1>2 DEF TurnRow, ChatInv
<1>4. \A o \in others : turns[o] \in TurnRow
  BY TurnColumns
<1>5. \A o \in Sender : row(o) \in {Quiet} \cup TurnRow
  BY <1>3, <1>4 DEF ChatInv, TurnRow
<1>6. turns'[s] = q /\ \A o \in others : turns'[o] = [turns[o] EXCEPT !.raced = TRUE]
  BY <1>1, <1>2
<1>7. \A o \in Sender \ {s} : o \notin others => turns'[o] = turns[o]
  BY <1>1
<1>8. \A i \in DOMAIN conversations : conversations[i].at \in 1..begun' /\ conversations[i].at < begun'
  BY <1>1, <1>2 DEF ChatInv
<1>9. TurnSound(s)'
  <2>1. others = {} => \A o \in Sender \ {s} : ~ Turning(o)'
    BY <1>7 DEF Turning
  <2>2. begun' \in 1..begun'
    BY <1>1, <1>2
  <2> DEFINE race == others # {}
             v == [step |-> "begun", stream |-> stream, at |-> begun', team |-> activeTeam,
                   raced |-> race, prompt |-> {}]
  <2>3. turns'[s].at = begun' /\ turns'[s].step = "begun" /\ (others # {} => turns'[s].raced)
    <3>1. turns'[s] = v
      BY <1>6
    <3> HIDE DEF race
    <3>2. v.raced = race /\ v.at = begun' /\ v.step = "begun"
      OBVIOUS
    <3> HIDE DEF v
    <3>3. others # {} => race
      BY DEF race
    <3> QED
      BY <3>1, <3>2, <3>3
  <2> HIDE DEF q, others
  <2> QED
    BY <1>1, <1>8, <2>1, <2>2, <2>3 DEF TurnSound
<1>10. ASSUME NEW o \in Sender \ {s}, Turning(o)' PROVE TurnSound(o)'
  <2>1. o \in others
    BY <1>7, <1>10 DEF Turning
  <2>2. turns[o] \in TurnRow /\ TurnSound(o)
    BY <1>4, <2>1 DEF ChatInv, Turning
  <2>3. turns'[o].raced = TRUE /\ turns'[o].at = turns[o].at
    BY <1>6, <2>1, <2>2 DEF TurnRow
  <2> QED
    BY <1>1, <1>2, <2>2, <2>3 DEF TurnSound
<1>11. turns' \in [Sender -> {Quiet} \cup TurnRow]
  BY <1>1, <1>5
<1> QED
  BY <1>1, <1>2, <1>8, <1>9, <1>10, <1>11 DEF ChatInv

\* The rows of a turn are saved: nobody else may rely on what was there.
LEMMA TurnSaves ==
  ASSUME ChatInv, NEW s \in Sender, Answered(s) \/ AnswerApologizes(s)
  PROVE  ChatInv'
<1>1. PICK q \in {Quiet, [turns[s] EXCEPT !.step = "remember", !.prompt = {}]} :
        /\ turns[s].step = "asked" /\ SaveTurn(s)
        /\ turns' = [turns EXCEPT ![s] = q]
        /\ UNCHANGED <<begun, memories, activeTeam>>
  BY DEF Answered, AnswerApologizes
<1>2. turns[s] \in TurnRow /\ Turning(s) /\ TurnSound(s)
  BY <1>1, TurnColumns DEF ChatInv, Turning
<1>3. q \in {Quiet} \cup TurnRow /\ q.step \notin {"begun", "asked"}
  <2>1. CASE q = Quiet
    BY <2>1 DEF Quiet
  <2>2. CASE q = [turns[s] EXCEPT !.step = "remember", !.prompt = {}]
    BY <1>2, <2>2 DEF TurnRow
  <2> QED
    BY <1>1, <2>1, <2>2
<1>4. turns'[s] = q /\ turns' \in [Sender -> {Quiet} \cup TurnRow]
      /\ \A o \in Sender \ {s} : turns'[o] = turns[o]
  BY <1>1, <1>3 DEF ChatInv
<1> DEFINE new == <<[role |-> "user", team |-> turns[s].team, at |-> turns[s].at],
                    [role |-> "assistant", team |-> turns[s].team, at |-> turns[s].at]>>
<1>5. new \in Seq(MessageRow) /\ \A i \in DOMAIN new : new[i].at \in 1..begun
  <2> DEFINE u == [role |-> "user", team |-> turns[s].team, at |-> turns[s].at]
             a == [role |-> "assistant", team |-> turns[s].team, at |-> turns[s].at]
  <2>1. u \in MessageRow /\ a \in MessageRow /\ u.at \in 1..begun /\ a.at \in 1..begun
    BY <1>2 DEF TurnRow, MessageRow, TurnSound
  <2> HIDE DEF u, a
  <2>2. new = <<u, a>>
    BY DEF u, a
  <2> HIDE DEF new
  <2> QED
    BY <2>1, <2>2
<1>6. conversations' \in {conversations, conversations \o new}
  BY <1>1 DEF SaveTurn
<1> HIDE DEF new
<1>7. /\ conversations' \in Seq(MessageRow)
      /\ \A i \in DOMAIN conversations' : conversations'[i].at \in 1..begun
  <2>1. conversations \in Seq(MessageRow) /\ \A i \in DOMAIN conversations : conversations[i].at \in 1..begun
    BY DEF ChatInv
  <2>2. CASE conversations' = conversations \o new
    <3>1. /\ conversations \o new \in Seq(MessageRow)
          /\ Len(conversations \o new) = Len(conversations) + Len(new)
          /\ \A i \in 1..Len(conversations) : (conversations \o new)[i] = conversations[i]
          /\ \A i \in 1..(Len(conversations) + Len(new)) : i > Len(conversations) =>
               (conversations \o new)[i] = new[i - Len(conversations)]
                 /\ i - Len(conversations) \in 1..Len(new)
      BY <1>5, <2>1
    <3>2. \A i \in 1..(Len(conversations) + Len(new)) :
            i \in 1..Len(conversations) \/ i > Len(conversations)
      BY <1>5, <2>1
    <3> QED
      BY <1>5, <2>1, <2>2, <3>1, <3>2
  <2> QED
    BY <1>6, <2>1, <2>2
<1>8. ASSUME NEW o \in Sender, Turning(o)' PROVE TurnSound(o)'
  <2>1. o # s /\ turns'[o] = turns[o]
    BY <1>3, <1>4, <1>8 DEF Turning
  <2>2. Turning(o) /\ TurnSound(o)
    BY <1>8, <2>1 DEF Turning, ChatInv
  <2>3. turns[o].raced /\ turns'[o].at \in 1..begun'
    BY <1>1, <1>2, <2>1, <2>2 DEF TurnSound
  <2> QED
    BY <2>1, <2>3 DEF TurnSound
<1> QED
  BY <1>1, <1>4, <1>7, <1>8 DEF ChatInv

LEMMA ChatStep == ChatInv /\ [ChatNext]_chatVars => ChatInv'
<1> SUFFICES ASSUME ChatInv, [ChatNext]_chatVars PROVE ChatInv'
  OBVIOUS
<1>1. ASSUME UNCHANGED <<conversations, turns, begun, memories>>, activeTeam' \in ChatTeam \cup {NoTeam}
      PROVE  ChatInv'
  BY <1>1 DEF ChatInv, TurnSound, Turning, Loaded, At
<1>2. CASE UNCHANGED chatVars
  BY <1>1, <1>2 DEF chatVars, ChatInv
<1>3. ASSUME NEW t \in ChatTeam, SwitchTeam(t) PROVE ChatInv'
  BY <1>1, <1>3 DEF SwitchTeam
<1> QED
  BY <1>2, <1>3, TurnBegins, TurnAsks, TurnSaves, TurnsEnd DEF ChatNext

-----------------------------------------------------------------------------
(* The agents.  A turn in flight has a number of its own, of which nothing   *)
(* is saved yet; what is saved of a number is saved once.                    *)

AskRow == [step : {"routing", "thinking", "calling"}, ask : 1..MaxAsk, coach : Trainer,
           onTeam : BOOLEAN, mode : Mode, agent : Agent, round : 0..(MaxRound + MaxToolCall),
           calls : 0..MaxToolCall, broken : BOOLEAN, added : 0..MaxToolCall,
           shown : SUBSET Trainer, team : SUBSET (Trainer \cup {Unstaffed}), late : BOOLEAN]

Asking(h) == asks[h].step \in {"routing", "thinking", "calling"}

AskSound(t) ==
  /\ t \in AskRow
  /\ t.shown \subseteq {t.coach}
  /\ t.added <= t.calls
  /\ t.step = "calling" => t.calls < MaxToolCall
  /\ t.round <= t.calls + (IF t.step = "calling" THEN 1 ELSE 0)

SavedRow == [ask : 1..MaxAsk, outcome : {"answer", "apology"}, unlogged : Nat, added : Nat]
SignedUpRow == [coach : Trainer, ask : 1..MaxAsk] \X (1..MaxToolCall)

\* The players that the turn numbered n has left.
OfAsk(n) == {p \in signedUp : p[1].ask = n}

AgentInv ==
  /\ trainerOf \in Trainer \cup {Unstaffed} /\ benched \subseteq Trainer
  /\ signedUp \subseteq SignedUpRow
  /\ routes \in [Topic -> RouterAgents \cup {Unrouted}]
  /\ kb \in {ColdKb, "loaded", "failed"}
  /\ asks \in [Helper -> {NotAsked} \cup AskRow]
  /\ asked \in 0..MaxAsk
  /\ ledger \subseteq SavedRow
  /\ \A h \in Helper : Asking(h) =>
       /\ AskSound(asks[h]) /\ asks[h].ask <= asked
       /\ \A e \in ledger : e.ask # asks[h].ask
       /\ \A g \in Helper \ {h} : Asking(g) => asks[g].ask # asks[h].ask
  /\ \A e \in ledger : e.ask <= asked
  /\ \A e \in ledger : e.outcome = "answer" => e.unlogged = 0
  /\ \A e \in ledger : Cardinality(OfAsk(e.ask)) = e.added
  /\ \A p \in signedUp : \E e \in ledger : e.ask = p[1].ask

LEMMA AgentInitially == AgentInit => AgentInv
<1> SUFFICES ASSUME AgentInit PROVE AgentInv
  OBVIOUS
<1>1. \A h \in Helper : ~ Asking(h)
  BY DEF AgentInit, Asking, NotAsked
<1>2. 0 \in 0..MaxAsk
  BY AgentToolsAssumption
<1> QED
  BY <1>1, <1>2 DEF AgentInit, AgentInv

\* Where the team has not changed hands since a page was opened, it is the coach's,
\* and so is what a turn was shown of it.
HandedInv ==
  /\ handed \subseteq benched
  /\ \A c \in benched \ handed : trainerOf = c
  /\ \A h \in Helper : asks[h] # NotAsked /\ ~ asks[h].onTeam => asks[h].team = {}
  /\ \A h \in Helper : asks[h] # NotAsked /\ ~ asks[h].late =>
       /\ asks[h].team \subseteq {asks[h].coach}
       /\ asks[h].onTeam => trainerOf = asks[h].coach

LEMMA HandedInitially == AgentInit => HandedInv
  BY DEF AgentInit, HandedInv

LEMMA AgentSound == AgentInv /\ HandedInv => AgentTypeOK /\ ToolsKeepPromises
<1> SUFFICES ASSUME AgentInv, HandedInv PROVE AgentTypeOK /\ ToolsKeepPromises
  OBVIOUS
<1>1. AgentTypeOK
  BY DEF AgentInv, HandedInv, AgentTypeOK, AskRow, SignedUpRow
<1>2. \A h \in Helper : asks[h] # NotAsked => Asking(h)
  BY DEF AgentInv, Asking, AskRow
<1>3. \A h \in Helper : asks[h] # NotAsked => asks[h].shown \subseteq {asks[h].coach}
  BY <1>2 DEF AgentInv, AskSound
<1>5. \A h \in Helper : asks[h] # NotAsked => asks[h].late \/ asks[h].team \subseteq {asks[h].coach}
  BY DEF HandedInv
<1>4. \A e \in ledger : Cardinality({p \in signedUp : p[1].ask = e.ask}) = e.added
  BY DEF AgentInv, OfAsk
<1> QED
  BY <1>1, <1>3, <1>4, <1>5 DEF AgentInv, ToolsKeepPromises

\* A turn goes on, keeping its number, or ends without a trace.
LEMMA AskMoves ==
  ASSUME AgentInv, NEW h \in Helper, NEW t,
         asks' = [asks EXCEPT ![h] = t],
         t = NotAsked \/ (Asking(h) /\ AskSound(t) /\ t.ask = asks[h].ask),
         UNCHANGED <<trainerOf, benched, signedUp, asked, ledger>>,
         routes' \in [Topic -> RouterAgents \cup {Unrouted}],
         kb' \in {ColdKb, "loaded", "failed"}
  PROVE  AgentInv'
<1>1. t \in {NotAsked} \cup AskRow
  BY DEF AskSound
<1>2. /\ asks' \in [Helper -> {NotAsked} \cup AskRow]
      /\ asks'[h] = t /\ \A g \in Helper \ {h} : asks'[g] = asks[g]
  BY <1>1 DEF AgentInv
<1>3. Asking(h)' => Asking(h) /\ AskSound(asks'[h]) /\ asks'[h].ask = asks[h].ask
  BY <1>2 DEF Asking, NotAsked
<1>4. \A g \in Helper \ {h} : Asking(g)' = Asking(g)
  BY <1>2 DEF Asking
<1> HIDE DEF Asking
<1>5. \A n : OfAsk(n)' = OfAsk(n)
  BY DEF OfAsk
<1>6. ASSUME NEW g \in Helper, Asking(g)'
      PROVE  /\ Asking(g) /\ AskSound(asks'[g]) /\ asks'[g].ask = asks[g].ask
  <2>1. CASE g = h
    BY <1>3, <1>6, <2>1
  <2>2. CASE g # h
    BY <1>2, <1>4, <1>6, <2>2 DEF AgentInv
  <2> QED
    BY <2>1, <2>2
<1>7. ASSUME NEW g \in Helper, Asking(g)'
      PROVE  /\ AskSound(asks'[g]) /\ asks'[g].ask <= asked'
             /\ \A e \in ledger' : e.ask # asks'[g].ask
             /\ \A f \in Helper \ {g} : Asking(f)' => asks'[f].ask # asks'[g].ask
  BY <1>6, <1>7 DEF AgentInv
<1> HIDE DEF AskSound
<1>8. \A e \in ledger' : Cardinality(OfAsk(e.ask)') = e.added
  BY <1>5 DEF AgentInv
<1> QED
  BY <1>2, <1>7, <1>8 DEF AgentInv

\* The router moves a turn on, and the model may ask for tools.
LEMMA AskRouted ==
  ASSUME AgentInv, NEW h \in Helper, NEW agent \in Agent, asks[h].step = "routing",
         Routed(h, agent), UNCHANGED <<trainerOf, benched, signedUp, kb, asked, ledger>>,
         routes' \in [Topic -> RouterAgents \cup {Unrouted}]
  PROVE  AgentInv'
<1> DEFINE t == [asks[h] EXCEPT !.step = "thinking", !.agent = agent]
<1>1. Asking(h) /\ AskSound(asks[h])
  BY DEF Asking, AgentInv
<1>2. asks' = [asks EXCEPT ![h] = t]
  BY DEF Routed
<1>3. AskSound(t) /\ t.ask = asks[h].ask
  BY <1>1 DEF AskSound, AskRow
<1> HIDE DEF t
<1> QED
  BY <1>1, <1>2, <1>3, AskMoves DEF AgentInv

LEMMA ToolsAsked ==
  ASSUME AgentInv, NEW h \in Helper, CallTools(h)
  PROVE  AgentInv'
<1> DEFINE t == [asks[h] EXCEPT !.step = "calling", !.round = @ + 1]
<1>1. /\ asks[h].step = "thinking" /\ asks[h].calls < MaxToolCall /\ asks' = [asks EXCEPT ![h] = t]
      /\ UNCHANGED <<trainerOf, benched, signedUp, routes, kb, asked, ledger>>
  BY DEF CallTools
<1>2. Asking(h) /\ AskSound(asks[h])
  BY <1>1 DEF Asking, AgentInv
<1>3. /\ asks[h].round + 1 \in 0..(MaxRound + MaxToolCall)
      /\ asks[h].round + 1 <= asks[h].calls + 1
  BY <1>1, <1>2, AgentToolsAssumption DEF AskSound, AskRow
<1>4. /\ t \in AskRow /\ t.ask = asks[h].ask /\ t.step = "calling" /\ t.shown = asks[h].shown
      /\ t.coach = asks[h].coach /\ t.added = asks[h].added /\ t.calls = asks[h].calls
      /\ t.round = asks[h].round + 1
  BY <1>2, <1>3 DEF AskSound, AskRow
<1> HIDE DEF t
<1>5. AskSound(t)
  BY <1>1, <1>2, <1>3, <1>4 DEF AskSound
<1> QED
  BY <1>1, <1>2, <1>4, <1>5, AskMoves DEF AgentInv

\* What a tool leaves in the turn.
LEMMA ToolRuns ==
  ASSUME AgentInv, NEW h \in Helper, asks[h].step = "calling",
         NEW tools, NEW left \in AskRow, Execute(h, tools, left),
         left.step = "calling", left.ask = asks[h].ask, left.coach = asks[h].coach,
         left.round = asks[h].round, left.calls = asks[h].calls,
         left.shown \subseteq {left.coach}, left.added <= asks[h].added + 1,
         kb' \in {ColdKb, "loaded", "failed"}
  PROVE  AgentInv'
<1>1. PICK more \in BOOLEAN :
        /\ more => asks[h].calls + 1 < MaxToolCall
        /\ asks' = [asks EXCEPT ![h] = [left EXCEPT !.calls = @ + 1,
                                          !.step = IF more THEN "calling" ELSE "thinking"]]
  BY DEF Execute
<1> DEFINE t == [left EXCEPT !.calls = @ + 1, !.step = IF more THEN "calling" ELSE "thinking"]
<1>2. Asking(h) /\ AskSound(asks[h])
  BY DEF Asking, AgentInv
<1>3. /\ asks[h] \in AskRow /\ asks[h].calls < MaxToolCall /\ asks[h].added <= asks[h].calls
      /\ asks[h].round <= asks[h].calls + 1
  BY <1>2 DEF AskSound
<1>4. /\ t \in AskRow /\ t.ask = left.ask /\ t.shown = left.shown /\ t.coach = left.coach
      /\ t.calls = left.calls + 1 /\ t.round = left.round /\ t.added = left.added
      /\ t.step = IF more THEN "calling" ELSE "thinking"
  <2>1. left.calls + 1 \in 0..MaxToolCall
    BY <1>3, AgentToolsAssumption DEF AskRow
  <2> DEFINE step == IF more THEN "calling" ELSE "thinking"
  <2>2. step \in {"routing", "thinking", "calling"}
    OBVIOUS
  <2>3. t = [left EXCEPT !.calls = left.calls + 1, !.step = step]
    OBVIOUS
  <2> HIDE DEF step, t
  <2>4. /\ t \in AskRow /\ t.ask = left.ask /\ t.shown = left.shown /\ t.coach = left.coach
        /\ t.calls = left.calls + 1 /\ t.round = left.round /\ t.added = left.added
        /\ t.step = step
    BY <2>1, <2>2, <2>3 DEF AskRow
  <2> QED
    BY <2>4 DEF step
<1>5. asks' = [asks EXCEPT ![h] = t]
  BY <1>1
<1> HIDE DEF t
<1>6. AskSound(t) /\ t.ask = asks[h].ask
  BY <1>1, <1>3, <1>4 DEF AskSound, AskRow
<1>7. UNCHANGED <<trainerOf, benched, signedUp, routes, asked, ledger>>
  BY DEF Execute
<1> QED
  BY <1>2, <1>5, <1>6, <1>7, AskMoves DEF AgentInv

LEMMA AToolIsUsed ==
  ASSUME AgentInv, NEW h \in Helper,
         \/ \E breaks \in BOOLEAN : ToolError(h, breaks)
         \/ LookUpTeam(h) \/ LookUpProfile(h) \/ LookUpSchedule(h) \/ AddPlayer(h)
         \/ \E reranker \in {"unloaded", "loaded", "failed"} : SearchKnowledge(h, reranker)
         \/ Research(h)
  PROVE  AgentInv'
<1>1. asks[h].step = "calling"
  BY DEF ToolError, LookUpTeam, LookUpProfile, LookUpSchedule, AddPlayer, SearchKnowledge,
         Research, Usable
<1>2. asks[h] \in AskRow /\ AskSound(asks[h]) /\ kb \in {ColdKb, "loaded", "failed"}
  BY <1>1 DEF AgentInv, Asking, AskSound
<1>3. ASSUME NEW breaks \in BOOLEAN, ToolError(h, breaks) PROVE AgentInv'
  <2> DEFINE broke == asks[h].broken \/ breaks
             left == [asks[h] EXCEPT !.broken = broke]
  <2>1. Execute(h, Tool, left) /\ kb' = kb
    BY <1>3 DEF ToolError
  <2>2. broke \in BOOLEAN
    OBVIOUS
  <2> HIDE DEF broke
  <2>3. /\ left \in AskRow /\ left.step = "calling" /\ left.ask = asks[h].ask
        /\ left.coach = asks[h].coach /\ left.round = asks[h].round /\ left.calls = asks[h].calls
        /\ left.shown = asks[h].shown /\ left.added = asks[h].added
    BY <1>1, <1>2, <2>2 DEF AskRow
  <2>4. left.shown \subseteq {left.coach} /\ left.added <= asks[h].added + 1
    BY <1>2, <2>3 DEF AskSound, AskRow
  <2> HIDE DEF left
  <2> QED
    BY <1>1, <1>2, <2>1, <2>3, <2>4, ToolRuns
<1>4. ASSUME NEW seen, seen \subseteq {asks[h].coach}, NEW tools, kb' = kb,
             Execute(h, tools, [asks[h] EXCEPT !.shown = @ \cup seen])
      PROVE  AgentInv'
  <2> DEFINE left == [asks[h] EXCEPT !.shown = @ \cup seen]
  <2>1. /\ left \in AskRow /\ left.step = "calling" /\ left.ask = asks[h].ask
        /\ left.coach = asks[h].coach /\ left.round = asks[h].round /\ left.calls = asks[h].calls
        /\ left.shown \subseteq {left.coach} /\ left.added = asks[h].added
    BY <1>1, <1>2, <1>4 DEF AskRow, AskSound
  <2>2. left.added <= asks[h].added + 1
    BY <1>2, <2>1 DEF AskRow
  <2>3. Execute(h, tools, left)
    BY <1>4
  <2> HIDE DEF left
  <2> QED
    BY <1>1, <1>2, <1>4, <2>1, <2>2, <2>3, ToolRuns
<1>5. CASE LookUpTeam(h)
  BY <1>4, <1>5 DEF LookUpTeam, ListedFor
<1>6. CASE LookUpSchedule(h)
  BY <1>4, <1>6 DEF LookUpSchedule, Scheduled
<1>11. CASE LookUpProfile(h)
  <2> DEFINE team == asks[h].team \cup OfTheTeam(asks[h].onTeam)
             left == [asks[h] EXCEPT !.team = team]
  <2>1. Execute(h, {"team"}, left) /\ kb' = kb
    BY <1>11 DEF LookUpProfile
  <2>2. team \in SUBSET (Trainer \cup {Unstaffed})
    BY <1>2 DEF AskRow, OfTheTeam, AgentInv
  <2> HIDE DEF team
  <2>3. /\ left \in AskRow /\ left.step = "calling" /\ left.ask = asks[h].ask
        /\ left.coach = asks[h].coach /\ left.round = asks[h].round /\ left.calls = asks[h].calls
        /\ left.shown = asks[h].shown /\ left.added = asks[h].added
    BY <1>1, <1>2, <2>2 DEF AskRow
  <2>4. left.shown \subseteq {left.coach} /\ left.added <= asks[h].added + 1
    BY <1>2, <2>3 DEF AskSound, AskRow
  <2> HIDE DEF left
  <2> QED
    BY <1>1, <1>2, <2>1, <2>3, <2>4, ToolRuns
<1>7. CASE AddPlayer(h)
  <2> DEFINE left == [asks[h] EXCEPT !.added = @ + 1]
  <2>1. Execute(h, {"player"}, left) /\ kb' = kb
    BY <1>7 DEF AddPlayer
  <2>2. asks[h].added + 1 \in 0..MaxToolCall
    BY <1>1, <1>2, AgentToolsAssumption DEF AskSound, AskRow
  <2>3. /\ left \in AskRow /\ left.step = "calling" /\ left.ask = asks[h].ask
        /\ left.coach = asks[h].coach /\ left.round = asks[h].round /\ left.calls = asks[h].calls
        /\ left.shown \subseteq {left.coach} /\ left.added <= asks[h].added + 1
    BY <1>1, <1>2, <2>2 DEF AskRow, AskSound
  <2> HIDE DEF left
  <2> QED
    BY <1>1, <1>2, <2>1, <2>3, ToolRuns
<1>8. ASSUME NEW tools, Execute(h, tools, asks[h]), kb' \in {ColdKb, "loaded", "failed"}
      PROVE  AgentInv'
  <2>1. asks[h].shown \subseteq {asks[h].coach} /\ asks[h].added <= asks[h].added + 1
    BY <1>2 DEF AskRow, AskSound
  <2> QED
    BY <1>1, <1>2, <1>8, <2>1, ToolRuns
<1>9. CASE Research(h)
  BY <1>2, <1>8, <1>9 DEF Research
<1>10. ASSUME NEW reranker, SearchKnowledge(h, reranker) PROVE AgentInv'
  BY <1>2, <1>8, <1>10 DEF SearchKnowledge, ColdKb
<1> QED
  BY <1>3, <1>5, <1>6, <1>7, <1>9, <1>10, <1>11

LEMMA AskBegins ==
  ASSUME AgentInv, NEW h \in Helper, NEW c \in Trainer, NEW mode \in Mode, BeginAsk(h, c, mode)
  PROVE  AgentInv'
<1> DEFINE onTeam == c \in benched
           team == OfTheTeam(onTeam)
           late == c \in handed
           t == [step |-> "routing", ask |-> asked', coach |-> c, onTeam |-> onTeam, mode |-> mode,
                 agent |-> "gm", round |-> 0, calls |-> 0, broken |-> FALSE,
                 added |-> 0, shown |-> {}, team |-> team, late |-> late]
<1>1. /\ asked < MaxAsk /\ asked' = asked + 1 /\ asks[h] = NotAsked
      /\ asks' = [asks EXCEPT ![h] = t]
      /\ UNCHANGED <<trainerOf, benched, signedUp, routes, kb, ledger>>
  BY DEF BeginAsk
<1>2. asked' \in 1..MaxAsk /\ asked' > asked /\ asked \in Nat
  BY <1>1, AgentToolsAssumption DEF AgentInv
<1>3. onTeam \in BOOLEAN /\ late \in BOOLEAN /\ team \in SUBSET (Trainer \cup {Unstaffed})
  BY DEF OfTheTeam, AgentInv
<1> HIDE DEF onTeam, late, team
<1>4. t \in AskRow /\ t.ask = asked' /\ AskSound(t)
  <2>1. "gm" \in Agent /\ 0 \in 0..MaxToolCall /\ 0 \in 0..(MaxRound + MaxToolCall)
    BY AgentToolsAssumption DEF Agent, RouterAgents
  <2>2. t \in AskRow
    BY <1>2, <1>3, <2>1 DEF AskRow
  <2> QED
    BY <2>2 DEF AskSound
<1> HIDE DEF t
<1>5. /\ asks' \in [Helper -> {NotAsked} \cup AskRow]
      /\ asks'[h] = t /\ \A g \in Helper \ {h} : asks'[g] = asks[g]
  BY <1>1, <1>4 DEF AgentInv
<1>6. \A g \in Helper \ {h} : Asking(g)' = Asking(g)
  BY <1>5 DEF Asking
<1>7. \A n : OfAsk(n)' = OfAsk(n)
  BY <1>1 DEF OfAsk
<1> HIDE DEF Asking
<1>8. \A g \in Helper \ {h} : Asking(g) => asks[g].ask \in 1..asked
  BY <1>2 DEF AgentInv, AskSound, AskRow
<1>9. \A e \in ledger : e.ask \in 1..asked
  BY <1>2 DEF AgentInv, SavedRow
<1>10. \A n \in 1..asked : n # asked' /\ n <= asked'
  BY <1>2
<1>11. \A g \in Helper : Asking(g)' =>
         /\ AskSound(asks'[g]) /\ asks'[g].ask <= asked'
         /\ \A e \in ledger' : e.ask # asks'[g].ask
         /\ \A f \in Helper \ {g} : Asking(f)' => asks'[f].ask # asks'[g].ask
  <2>1. ASSUME NEW g \in Helper, Asking(g)' PROVE AskSound(asks'[g]) /\ asks'[g].ask <= asked'
    BY <1>2, <1>4, <1>5, <1>6, <1>8, <1>10, <2>1 DEF AgentInv
  <2>2. ASSUME NEW g \in Helper, Asking(g)' PROVE \A e \in ledger' : e.ask # asks'[g].ask
    BY <1>1, <1>4, <1>5, <1>6, <1>9, <1>10, <2>2 DEF AgentInv
  <2>3. ASSUME NEW g \in Helper, Asking(g)', NEW f \in Helper \ {g}, Asking(f)'
        PROVE  asks'[f].ask # asks'[g].ask
    BY <1>4, <1>5, <1>6, <1>8, <1>10, <2>3 DEF AgentInv
  <2> QED
    BY <2>1, <2>2, <2>3
<1>12. \A e \in ledger' : e.ask <= asked' /\ Cardinality(OfAsk(e.ask)') = e.added
  BY <1>1, <1>7, <1>9, <1>10 DEF AgentInv
<1> HIDE DEF AskSound
<1>13. asked' \in 0..MaxAsk
  BY <1>2, AgentToolsAssumption
<1> QED
  BY <1>1, <1>5, <1>11, <1>12, <1>13 DEF AgentInv

\* The players of one turn, counted.
LEMMA PlayersOfAsk ==
  ASSUME NEW x, NEW n \in Nat
  PROVE  Cardinality({x} \X (1..n)) = n
<1>1. IsFiniteSet({x}) /\ Cardinality({x}) = 1
  BY FS_Singleton
<1>2. IsFiniteSet(1..n) /\ Cardinality(1..n) = n
  BY FS_Interval
<1>3. Cardinality({x} \X (1..n)) = 1 * n
  BY <1>1, <1>2, FS_Product
<1> QED
  BY <1>3

\* The rows of a turn are committed.
LEMMA AskCommits ==
  ASSUME AgentInv, NEW h \in Helper, NEW outcome \in {"answer", "apology"},
         asks[h].step = "thinking", Commit(h, outcome), asks' = [asks EXCEPT ![h] = NotAsked],
         UNCHANGED <<trainerOf, benched, routes, kb, asked>>
  PROVE  AgentInv'
<1> DEFINE t == asks[h]
           who == [coach |-> t.coach, ask |-> t.ask]
           e == [ask |-> t.ask, outcome |-> outcome, unlogged |-> Unlogged(t, outcome),
                 added |-> t.added]
<1>1. Asking(h) /\ AskSound(t) /\ t \in AskRow
  BY DEF Asking, AgentInv, AskSound
<1>2. CASE UNCHANGED <<signedUp, ledger>>
  BY <1>2, AskMoves DEF AgentInv
<1>3. CASE signedUp' = signedUp \cup ({who} \X (1..t.added)) /\ ledger' = ledger \cup {e}
  <2>1. /\ who \in [coach : Trainer, ask : 1..MaxAsk] /\ who.ask = t.ask
        /\ t.added \in 0..MaxToolCall /\ t.ask \in 1..MaxAsk /\ t.round \in Nat
    BY <1>1, AgentToolsAssumption DEF AskRow
  <2>2. e \in SavedRow /\ e.ask = t.ask /\ e.added = t.added
        /\ (e.outcome = "answer" => e.unlogged = 0)
    BY <2>1, AgentToolsAssumption DEF SavedRow, Unlogged
  <2> HIDE DEF who, e
  <2>3. \A r \in {who} \X (1..t.added) : r \in SignedUpRow /\ r[1].ask = t.ask
    <3>1. \A i \in 1..t.added : i \in 1..MaxToolCall
      BY <2>1, AgentToolsAssumption
    <3>2. \A r \in {who} \X (1..t.added) : r[1] = who /\ r[2] \in 1..t.added /\ r = <<r[1], r[2]>>
      OBVIOUS
    <3> QED
      BY <2>1, <3>1, <3>2 DEF SignedUpRow
  <2>4. \A r \in signedUp : r[1].ask # t.ask
    BY <1>1 DEF AgentInv
  <2>5. \A n : n = t.ask => OfAsk(n)' = {who} \X (1..t.added)
    BY <1>3, <2>3, <2>4 DEF OfAsk
  <2>6. \A n : n = t.ask => Cardinality(OfAsk(n)') = t.added
    <3>1. t.added \in Nat
      BY <2>1, AgentToolsAssumption
    <3>2. Cardinality({who} \X (1..t.added)) = t.added
      BY <3>1, PlayersOfAsk
    <3> QED
      BY <2>5, <3>2
  <2>7. \A n : n # t.ask => OfAsk(n)' = OfAsk(n)
    BY <1>3, <2>3 DEF OfAsk
  <2>8. /\ asks' \in [Helper -> {NotAsked} \cup AskRow]
        /\ asks'[h] = NotAsked /\ \A g \in Helper \ {h} : asks'[g] = asks[g]
    BY DEF AgentInv
  <2>9. ~ Asking(h)' /\ \A g \in Helper \ {h} : Asking(g)' = Asking(g)
    BY <2>8 DEF Asking, NotAsked
  <2> HIDE DEF Asking
  <2>10. ASSUME NEW g \in Helper, Asking(g)'
         PROVE  /\ AskSound(asks'[g]) /\ asks'[g].ask <= asked'
                /\ \A x \in ledger' : x.ask # asks'[g].ask
                /\ \A f \in Helper \ {g} : Asking(f)' => asks'[f].ask # asks'[g].ask
    <3>1. g # h /\ Asking(g) /\ asks'[g] = asks[g] /\ asks[g].ask # t.ask
      BY <1>1, <2>8, <2>9, <2>10 DEF AgentInv
    <3> HIDE DEF AskSound
    <3> QED
      BY <1>3, <2>2, <2>8, <2>9, <3>1 DEF AgentInv
  <2>11. \A x \in ledger' : Cardinality(OfAsk(x.ask)') = x.added
    <3>1. ASSUME NEW x \in ledger PROVE Cardinality(OfAsk(x.ask)') = x.added
      <4>1. x.ask # t.ask
        BY <1>1 DEF AgentInv
      <4> QED
        BY <2>7, <4>1 DEF AgentInv
    <3> QED
      BY <1>3, <2>2, <2>6, <3>1
  <2>12. \A p \in signedUp' : \E x \in ledger' : x.ask = p[1].ask
    BY <1>3, <2>2, <2>3 DEF AgentInv
  <2>13. \A x \in ledger' : x.ask <= asked' /\ (x.outcome = "answer" => x.unlogged = 0)
    BY <1>1, <1>3, <2>2 DEF AgentInv
  <2>14. signedUp' \subseteq SignedUpRow /\ ledger' \subseteq SavedRow
    BY <1>3, <2>2, <2>3 DEF AgentInv
  <2> HIDE DEF AskSound, t
  <2> QED
    BY <2>8, <2>10, <2>11, <2>12, <2>13, <2>14 DEF AgentInv
<1> QED
  BY <1>2, <1>3 DEF Commit

\* A hand-over touches a turn in flight only to note it.
LEMMA TeamIsHanded ==
  ASSUME AgentInv, NEW c \in Trainer \cup {Unstaffed}, HandOver(c)
  PROVE  AgentInv'
<1>1. /\ asks' = [h \in Helper |-> asks'[h]]
      /\ \A h \in Helper : asks'[h] = IF asks[h] = NotAsked THEN NotAsked
                                     ELSE [asks[h] EXCEPT !.late = asks[h].onTeam]
      /\ UNCHANGED <<benched, signedUp, routes, kb, asked, ledger>>
      /\ trainerOf' \in Trainer \cup {Unstaffed}
  BY DEF HandOver
<1>2. \A h \in Helper : asks[h] = NotAsked \/ asks[h] \in AskRow
  BY DEF AgentInv
<1>3. ASSUME NEW h \in Helper, asks[h] \in AskRow
      PROVE  /\ asks'[h] \in AskRow /\ Asking(h) /\ Asking(h)' /\ asks'[h].ask = asks[h].ask
             /\ asks'[h].step = asks[h].step /\ asks'[h].shown = asks[h].shown
             /\ asks'[h].coach = asks[h].coach /\ asks'[h].added = asks[h].added
             /\ asks'[h].calls = asks[h].calls /\ asks'[h].round = asks[h].round
  <2>1. asks[h] # NotAsked
    BY <1>3 DEF AskRow, NotAsked
  <2>2. asks'[h] = [asks[h] EXCEPT !.late = asks[h].onTeam]
    BY <1>1, <2>1
  <2> QED
    BY <1>3, <2>2 DEF AskRow, Asking
<1>4. ASSUME NEW h \in Helper, asks[h] = NotAsked
      PROVE  asks'[h] = NotAsked /\ ~ Asking(h) /\ ~ Asking(h)'
  BY <1>1, <1>4 DEF Asking, NotAsked
<1>5. asks' \in [Helper -> {NotAsked} \cup AskRow]
  BY <1>1, <1>2, <1>3, <1>4
<1>6. ASSUME NEW h \in Helper, Asking(h)'
      PROVE  /\ AskSound(asks'[h]) /\ asks'[h].ask <= asked'
             /\ \A e \in ledger' : e.ask # asks'[h].ask
             /\ \A g \in Helper \ {h} : Asking(g)' => asks'[g].ask # asks'[h].ask
  <2>1. asks[h] \in AskRow /\ Asking(h)
    BY <1>2, <1>3, <1>4, <1>6
  <2>2. AskSound(asks'[h])
    BY <1>3, <2>1 DEF AgentInv, AskSound
  <2>3. \A g \in Helper : Asking(g)' => Asking(g) /\ asks'[g].ask = asks[g].ask
    BY <1>2, <1>3, <1>4
  <2> HIDE DEF Asking, AskSound
  <2> QED
    BY <1>1, <1>6, <2>1, <2>2, <2>3 DEF AgentInv
<1>7. \A n : OfAsk(n)' = OfAsk(n)
  BY <1>1 DEF OfAsk
<1> HIDE DEF Asking, AskSound, OfAsk
<1> QED
  BY <1>1, <1>5, <1>6, <1>7 DEF AgentInv

LEMMA AgentStep == AgentInv /\ [AgentNext]_agentVars => AgentInv'
<1> SUFFICES ASSUME AgentInv, [AgentNext]_agentVars PROVE AgentInv'
  OBVIOUS
<1>1. ASSUME UNCHANGED <<signedUp, routes, kb, asks, asked, ledger>>,
             trainerOf' \in Trainer \cup {Unstaffed}, benched' \subseteq Trainer
      PROVE  AgentInv'
  BY <1>1 DEF AgentInv, OfAsk, Asking
<1>2. CASE UNCHANGED agentVars
  BY <1>1, <1>2 DEF agentVars, AgentInv
<1>3. ASSUME NEW c \in Trainer \cup {Unstaffed}, HandOver(c) PROVE AgentInv'
  BY <1>3, TeamIsHanded
<1>4. ASSUME NEW c \in Trainer, RefreshPage(c) PROVE AgentInv'
  BY <1>1, <1>4 DEF RefreshPage, AgentInv
<1>5. CASE RestartAgents
  <2>1. \A h \in Helper : ~ Asking(h)'
    BY <1>5 DEF RestartAgents, Asking, NotAsked
  <2>2. \A n : OfAsk(n)' = OfAsk(n)
    BY <1>5 DEF RestartAgents, OfAsk
  <2> QED
    BY <1>5, <2>1, <2>2 DEF RestartAgents, AgentInv
<1>6. ASSUME NEW h \in Helper, NEW agent \in Agent, PickByWords(h, agent) PROVE AgentInv'
  BY <1>6, AskRouted DEF PickByWords, AgentInv
<1>7. ASSUME NEW h \in Helper, NEW q \in Topic, PickRemembered(h, q) PROVE AgentInv'
  <2>1. routes[q] \in Agent /\ Routed(h, routes[q])
    BY <1>7 DEF PickRemembered, AgentInv, Agent
  <2> QED
    BY <1>7, <2>1, AskRouted DEF PickRemembered, AgentInv
<1>8. ASSUME NEW h \in Helper, NEW q \in Topic, NEW agent \in RouterAgents, Classify(h, q, agent)
      PROVE  AgentInv'
  <2>1. agent \in Agent /\ routes' \in [Topic -> RouterAgents \cup {Unrouted}]
    BY <1>8 DEF Classify, AgentInv, Agent
  <2> QED
    BY <1>8, <2>1, AskRouted DEF Classify
<1>9. ASSUME NEW h \in Helper, AnswerAsk(h) \/ ApologizeForAsk(h) PROVE AgentInv'
  BY <1>9, AskCommits DEF AnswerAsk, ApologizeForAsk
<1>10. ASSUME NEW h \in Helper, AskLost(h) PROVE AgentInv'
  BY <1>10, AskMoves DEF AskLost, AgentInv
<1> QED
  BY <1>2, <1>3, <1>4, <1>5, <1>6, <1>7, <1>8, <1>9, <1>10, AskBegins, ToolsAsked, AToolIsUsed
  DEF AgentNext

\* A turn that goes on is shown no more of the team than it stood for.
LEMMA HandedStays ==
  ASSUME HandedInv, UNCHANGED <<trainerOf, benched, handed>>,
         \A h \in Helper : asks'[h] # NotAsked =>
           /\ asks[h] # NotAsked
           /\ asks'[h].late = asks[h].late /\ asks'[h].onTeam = asks[h].onTeam
           /\ asks'[h].coach = asks[h].coach
           /\ asks'[h].team \subseteq asks[h].team \cup OfTheTeam(asks[h].onTeam)
  PROVE  HandedInv'
  BY DEF HandedInv, OfTheTeam

\* The router, the tools and the end of a turn.
LEMMA HandedTurns ==
  ASSUME AgentInv, HandedInv, NEW h \in Helper, UNCHANGED <<trainerOf, benched, handed>>,
         NEW t, asks' = [asks EXCEPT ![h] = t],
         \/ t = NotAsked
         \/ /\ asks[h] # NotAsked
            /\ t.late = asks[h].late /\ t.onTeam = asks[h].onTeam /\ t.coach = asks[h].coach
            /\ t.team \subseteq asks[h].team \cup OfTheTeam(asks[h].onTeam)
  PROVE  HandedInv'
<1>1. asks'[h] = t /\ \A g \in Helper \ {h} : asks'[g] = asks[g]
  BY DEF AgentInv
<1> QED
  BY <1>1, HandedStays

LEMMA HandedStep == AgentInv /\ HandedInv /\ [AgentNext]_agentVars => HandedInv'
<1> SUFFICES ASSUME AgentInv, HandedInv, [AgentNext]_agentVars PROVE HandedInv'
  OBVIOUS
<1>0. \A h \in Helper : asks[h] # NotAsked => asks[h] \in AskRow
  BY DEF AgentInv
<1>1. CASE UNCHANGED agentVars
  BY <1>1 DEF agentVars, HandedInv
<1>2. ASSUME NEW h \in Helper, NEW c \in Trainer, NEW mode \in Mode, BeginAsk(h, c, mode)
      PROVE  HandedInv'
  <2> DEFINE t == [step |-> "routing", ask |-> asked', coach |-> c, onTeam |-> c \in benched,
                   mode |-> mode, agent |-> "gm", round |-> 0, calls |-> 0, broken |-> FALSE,
                   added |-> 0, shown |-> {}, team |-> OfTheTeam(c \in benched),
                   late |-> c \in handed]
  <2>1. asks' = [asks EXCEPT ![h] = t] /\ UNCHANGED <<trainerOf, benched, handed>>
    BY <1>2 DEF BeginAsk
  <2>2. /\ t.coach = c /\ t.onTeam = (c \in benched) /\ t.late = (c \in handed)
        /\ t.team = OfTheTeam(c \in benched)
    OBVIOUS
  <2> HIDE DEF t
  <2>3. asks'[h] = t /\ \A g \in Helper \ {h} : asks'[g] = asks[g]
    BY <2>1 DEF AgentInv
  <2>4. c \in benched /\ c \notin handed => trainerOf = c
    BY DEF HandedInv
  <2>6. ~ t.onTeam => t.team = {}
    BY <2>2 DEF OfTheTeam
  <2>5. ~ t.late => t.team \subseteq {c} /\ (t.onTeam => trainerOf = c)
    BY <2>2, <2>4 DEF OfTheTeam
  <2> QED
    BY <2>1, <2>2, <2>3, <2>5, <2>6 DEF HandedInv
<1>3. ASSUME NEW h \in Helper, NEW agent, asks[h].step = "routing", Routed(h, agent),
             UNCHANGED <<trainerOf, benched, handed>>
      PROVE  HandedInv'
  <2> DEFINE t == [asks[h] EXCEPT !.step = "thinking", !.agent = agent]
  <2>1. asks[h] # NotAsked /\ asks[h] \in AskRow
    BY <1>0, <1>3 DEF NotAsked
  <2>2. asks' = [asks EXCEPT ![h] = t]
    BY <1>3 DEF Routed
  <2>3. t.late = asks[h].late /\ t.onTeam = asks[h].onTeam /\ t.coach = asks[h].coach
        /\ t.team = asks[h].team
    BY <2>1 DEF AskRow
  <2> HIDE DEF t
  <2> QED
    BY <1>3, <2>1, <2>2, <2>3, HandedTurns
<1>4. ASSUME NEW h \in Helper, CallTools(h) PROVE HandedInv'
  <2> DEFINE t == [asks[h] EXCEPT !.step = "calling", !.round = @ + 1]
  <2>1. asks[h] # NotAsked /\ asks[h] \in AskRow
    BY <1>0, <1>4 DEF NotAsked, CallTools
  <2>2. asks' = [asks EXCEPT ![h] = t] /\ UNCHANGED <<trainerOf, benched, handed>>
    BY <1>4 DEF CallTools
  <2>3. t.late = asks[h].late /\ t.onTeam = asks[h].onTeam /\ t.coach = asks[h].coach
        /\ t.team = asks[h].team
    BY <2>1 DEF AskRow
  <2> HIDE DEF t
  <2> QED
    BY <2>1, <2>2, <2>3, HandedTurns
<1>5. ASSUME NEW h \in Helper, NEW tools, NEW left \in AskRow, Execute(h, tools, left),
             asks[h].step = "calling", left.late = asks[h].late,
             left.onTeam = asks[h].onTeam, left.coach = asks[h].coach,
             left.team \subseteq asks[h].team \cup OfTheTeam(asks[h].onTeam)
      PROVE  HandedInv'
  <2>1. asks[h] # NotAsked
    BY <1>5 DEF NotAsked
  <2>2. PICK more \in BOOLEAN :
          asks' = [asks EXCEPT ![h] = [left EXCEPT !.calls = @ + 1,
                                         !.step = IF more THEN "calling" ELSE "thinking"]]
    BY <1>5 DEF Execute
  <2> DEFINE t == [left EXCEPT !.calls = @ + 1, !.step = IF more THEN "calling" ELSE "thinking"]
  <2>3. t.late = left.late /\ t.onTeam = left.onTeam /\ t.coach = left.coach /\ t.team = left.team
    BY <1>5 DEF AskRow
  <2>4. asks' = [asks EXCEPT ![h] = t] /\ UNCHANGED <<trainerOf, benched, handed>>
    BY <1>5, <2>2 DEF Execute
  <2> HIDE DEF t
  <2> QED
    BY <1>5, <2>1, <2>3, <2>4, HandedTurns
<1>6. ASSUME NEW h \in Helper,
             \/ \E breaks \in BOOLEAN : ToolError(h, breaks)
             \/ LookUpTeam(h) \/ LookUpProfile(h) \/ LookUpSchedule(h) \/ AddPlayer(h)
             \/ \E reranker \in {"unloaded", "loaded", "failed"} : SearchKnowledge(h, reranker)
             \/ Research(h)
      PROVE  HandedInv'
  <2>1. asks[h].step = "calling" /\ asks[h] \in AskRow
    <3>1. asks[h].step = "calling"
      BY <1>6 DEF ToolError, LookUpTeam, LookUpProfile, LookUpSchedule, AddPlayer,
                  SearchKnowledge, Research, Usable
    <3> QED
      BY <1>0, <3>1 DEF NotAsked
  <2>2. AskSound(asks[h]) /\ asks[h].calls < MaxToolCall
    BY <2>1 DEF AgentInv, Asking, AskSound
  <2>3. ASSUME NEW breaks \in BOOLEAN, ToolError(h, breaks) PROVE HandedInv'
    <3> DEFINE broke == asks[h].broken \/ breaks
               left == [asks[h] EXCEPT !.broken = broke]
    <3>1. Execute(h, Tool, left)
      BY <2>3 DEF ToolError
    <3>2. broke \in BOOLEAN
      OBVIOUS
    <3> HIDE DEF broke
    <3>3. /\ left \in AskRow /\ left.late = asks[h].late /\ left.onTeam = asks[h].onTeam
          /\ left.coach = asks[h].coach /\ left.team = asks[h].team
      BY <2>1, <3>2 DEF AskRow
    <3> HIDE DEF left
    <3> QED
      BY <1>5, <2>1, <3>1, <3>3
  <2>4. ASSUME NEW seen, seen \subseteq {asks[h].coach}, NEW tools,
               Execute(h, tools, [asks[h] EXCEPT !.shown = @ \cup seen])
        PROVE  HandedInv'
    <3> DEFINE left == [asks[h] EXCEPT !.shown = @ \cup seen]
    <3>1. /\ left \in AskRow /\ left.late = asks[h].late /\ left.onTeam = asks[h].onTeam
          /\ left.coach = asks[h].coach /\ left.team = asks[h].team
      BY <2>1, <2>4 DEF AskRow
    <3>2. Execute(h, tools, left)
      BY <2>4
    <3> HIDE DEF left
    <3> QED
      BY <1>5, <2>1, <3>1, <3>2
  <2>5. ASSUME LookUpTeam(h) \/ LookUpSchedule(h) PROVE HandedInv'
    BY <2>4, <2>5 DEF LookUpTeam, ListedFor, LookUpSchedule, Scheduled
  <2>6. ASSUME LookUpProfile(h) PROVE HandedInv'
    <3> DEFINE team == asks[h].team \cup OfTheTeam(asks[h].onTeam)
               left == [asks[h] EXCEPT !.team = team]
    <3>1. Execute(h, {"team"}, left)
      BY <2>6 DEF LookUpProfile
    <3>2. team \in SUBSET (Trainer \cup {Unstaffed})
      BY <2>1 DEF AskRow, OfTheTeam, AgentInv
    <3>3. /\ left \in AskRow /\ left.late = asks[h].late /\ left.onTeam = asks[h].onTeam
          /\ left.coach = asks[h].coach /\ left.team = team
      <4> HIDE DEF team
      <4> QED
        BY <2>1, <3>2 DEF AskRow
    <3> HIDE DEF left
    <3> QED
      BY <1>5, <2>1, <3>1, <3>3
  <2>7. ASSUME AddPlayer(h) PROVE HandedInv'
    <3> DEFINE left == [asks[h] EXCEPT !.added = @ + 1]
    <3>1. Execute(h, {"player"}, left)
      BY <2>7 DEF AddPlayer
    <3>2. asks[h].added + 1 \in 0..MaxToolCall
      BY <2>1, <2>2, AgentToolsAssumption DEF AskSound, AskRow
    <3>3. /\ left \in AskRow /\ left.late = asks[h].late /\ left.onTeam = asks[h].onTeam
          /\ left.coach = asks[h].coach /\ left.team = asks[h].team
      BY <2>1, <3>2 DEF AskRow
    <3> HIDE DEF left
    <3> QED
      BY <1>5, <2>1, <3>1, <3>3
  <2>8. ASSUME NEW tools, Execute(h, tools, asks[h]) PROVE HandedInv'
    BY <1>5, <2>1, <2>8
  <2> QED
    BY <1>6, <2>3, <2>5, <2>6, <2>7, <2>8 DEF SearchKnowledge, Research
<1>7. ASSUME NEW h \in Helper, AnswerAsk(h) \/ ApologizeForAsk(h) \/ AskLost(h) PROVE HandedInv'
  BY <1>7, HandedTurns DEF AnswerAsk, ApologizeForAsk, AskLost
<1>8. CASE RestartAgents
  BY <1>8 DEF RestartAgents, HandedInv
<1>9. ASSUME NEW c \in Trainer \cup {Unstaffed}, HandOver(c) PROVE HandedInv'
  <2>1. /\ handed' = benched /\ UNCHANGED benched
        /\ \A h \in Helper : asks'[h] = IF asks[h] = NotAsked THEN NotAsked
                                       ELSE [asks[h] EXCEPT !.late = asks[h].onTeam]
    BY <1>9 DEF HandOver
  <2>2. ASSUME NEW h \in Helper, asks'[h] # NotAsked, ~ asks'[h].late
        PROVE  asks'[h].team \subseteq {asks'[h].coach} /\ ~ asks'[h].onTeam
    <3>1. /\ asks[h] # NotAsked /\ asks[h] \in AskRow
          /\ asks'[h] = [asks[h] EXCEPT !.late = asks[h].onTeam]
      BY <1>0, <2>1, <2>2
    <3>2. ~ asks[h].onTeam /\ asks'[h].team = asks[h].team /\ asks'[h].onTeam = asks[h].onTeam
      BY <2>2, <3>1 DEF AskRow
    <3> QED
      BY <3>1, <3>2 DEF HandedInv
  <2>3. ASSUME NEW h \in Helper, asks'[h] # NotAsked, ~ asks'[h].onTeam
        PROVE  asks'[h].team = {}
    <3>1. /\ asks[h] # NotAsked /\ asks[h] \in AskRow
          /\ asks'[h] = [asks[h] EXCEPT !.late = asks[h].onTeam]
      BY <1>0, <2>1, <2>3
    <3>2. asks'[h].team = asks[h].team /\ asks'[h].onTeam = asks[h].onTeam
      BY <3>1 DEF AskRow
    <3> QED
      BY <2>3, <3>1, <3>2 DEF HandedInv
  <2> QED
    BY <2>1, <2>2, <2>3 DEF HandedInv
<1>10. ASSUME NEW c \in Trainer, RefreshPage(c) PROVE HandedInv'
  BY <1>10 DEF RefreshPage, HandedInv
<1> QED
  BY <1>1, <1>2, <1>3, <1>4, <1>6, <1>7, <1>8, <1>9, <1>10
     DEF AgentNext, PickByWords, PickRemembered, Classify

-----------------------------------------------------------------------------
(* The theorems, of the whole side of the coach.                           *)

FilesInv == VideosInv /\ UploadsInv /\ IngestInv

\* Roadmaps are only looked at where they are the part that moves.
OwnInv ==
  /\ ResearchInv /\ RoadmapInv /\ ChatInv /\ AgentInv /\ HandedInv
  /\ part # "roadmap" => \A r \in Looker : looks[r] = NotLooking

OthersInv == PurgeInv /\ PracticeInv /\ LibraryInv /\ PushInv /\ NotebookInv

DeskInv == part \in Part /\ FilesInv /\ OwnInv /\ OthersInv

LEMMA FilesKept == FilesInv /\ [DeskNext]_deskVars => FilesInv'
<1> SUFFICES ASSUME FilesInv, [DeskNext]_deskVars PROVE FilesInv'
  OBVIOUS
<1>1. [ScoutingVideosNext]_scoutingVideoVars
  BY DEF DeskNext, deskVars, MoveVideos
<1>2. [UploadsNext]_uploadVars
  BY DEF DeskNext, deskVars, MoveUploads
<1>3. [IngestNext]_ingestVars
  BY DEF DeskNext, deskVars, MoveIngest
<1> QED
  BY <1>1, <1>2, <1>3, VideosStep, UploadsStep, IngestStep DEF FilesInv

LEMMA OwnKept == OwnInv /\ [DeskNext]_deskVars => OwnInv'
<1> SUFFICES ASSUME OwnInv, [DeskNext]_deskVars PROVE OwnInv'
  OBVIOUS
<1>1. [ResearchNext]_researchVars /\ [ChatNext]_chatVars /\ [AgentNext]_agentVars
  BY DEF DeskNext, deskVars, MoveResearch, MoveChat, MoveTools
<1>2. ResearchInv' /\ ChatInv' /\ AgentInv' /\ HandedInv'
  BY <1>1, ResearchStep, ChatStep, AgentStep, HandedStep DEF OwnInv
<1>3. part' = part /\ (MovePlays \/ UNCHANGED roadmapVars)
  BY DEF DeskNext, deskVars
<1>4. CASE UNCHANGED roadmapVars
  <2>1. RoadmapInv' /\ looks' = looks
    BY <1>4, RoadmapStands DEF roadmapVars, OwnInv
  <2> QED
    BY <1>2, <1>3, <2>1 DEF OwnInv
<1>5. CASE part = "plays" /\ PlaybookNext /\ UNCHANGED <<bench, pages, opened, looks, meant>>
  <2>1. \A r \in Looker : looks[r] = NotLooking
    BY <1>5 DEF OwnInv
  <2>2. RoadmapInv'
    BY <1>5, <2>1, PlaysMoveAlone DEF OwnInv
  <2> QED
    BY <1>2, <1>3, <1>5, <2>1, <2>2 DEF OwnInv
<1>6. CASE part = "roadmap" /\ RoadmapNext
  <2>1. RoadmapInv'
    BY <1>6, RoadmapMoves DEF OwnInv
  <2> QED
    BY <1>2, <1>3, <1>6, <2>1 DEF OwnInv
<1> QED
  BY <1>3, <1>4, <1>5, <1>6 DEF MovePlays

LEMMA PracticeOfDesk == [DeskNext]_deskVars => [PracticeMoves]_practiceVars
<1> SUFFICES ASSUME [DeskNext]_deskVars, ~ UNCHANGED practiceVars PROVE PracticeMoves
  OBVIOUS
<1>1. MovePractice
  BY DEF DeskNext, deskVars
<1>2. CASE CalendarNext \/ AttendanceNext
  BY <1>2 DEF PracticeMoves
<1>3. ASSUME NEW t \in Squad, NEW d \in 0..LastDay, CreateCoachEvent(t, d, d, {}) PROVE CalendarNext
  BY <1>3 DEF CalendarNext
<1>4. ASSUME NEW e \in Ids, DeleteThis(e) PROVE CalendarNext
  BY <1>4 DEF CalendarNext
<1> QED
  BY <1>1, <1>2, <1>3, <1>4 DEF MovePractice, Sheets, PracticeMoves

LEMMA NotebookOfDesk ==
  ASSUME NotebookInv, [DeskNext]_deskVars
  PROVE  NotebookInv' /\ ScoresKept /\ LinesFiled
<1>1. MoveRoster \/ UNCHANGED <<coachRosterVars, notebookVars>>
  BY DEF DeskNext, deskVars
<1>2. CASE UNCHANGED <<coachRosterVars, notebookVars>>
  BY <1>2, RosterTurns
<1>3. CASE (TeamsNext \/ PlayersNext \/ MetricsNext \/ OpenOnly) /\ UNCHANGED notebookVars
  BY <1>3, RosterTurns DEF OpenOnly, TeamsNext
<1>4. CASE EntriesNext \/ BoxScoresNext \/ RequestsNext \/ SwitchesNext
  BY <1>4, NotebookStep
<1> QED
  BY <1>1, <1>2, <1>3, <1>4 DEF MoveRoster

LEMMA OthersKept == OthersInv /\ [DeskNext]_deskVars => OthersInv'
<1> SUFFICES ASSUME OthersInv, [DeskNext]_deskVars PROVE OthersInv'
  OBVIOUS
<1>1. [TrialPurgeNext]_trialPurgeVars
  BY DEF DeskNext, deskVars, MovePurge
<1>2. [ScoutingLibraryNext]_scoutingLibraryVars
  BY DEF DeskNext, deskVars, MoveLibrary, ScoutingLibraryNext
<1>3. [PushNext \/ CoachNext]_pushVars
  BY DEF DeskNext, deskVars, MovePush
<1> QED
  BY <1>1, <1>2, <1>3, PurgeStep, PracticeOfDesk, PracticeStep, LibraryStep, PushStep, NotebookOfDesk
     DEF OthersInv

LEMMA DeskInvHolds == DeskSpec => []DeskInv
<1>1. DeskInit => DeskInv
  <2> SUFFICES ASSUME DeskInit PROVE DeskInv
    OBVIOUS
  <2>1. FilesInv
    BY VideosInitially, UploadsInitially, IngestInitially DEF DeskInit, FilesInv
  <2>2. ResearchInv /\ RoadmapInv /\ ChatInv /\ AgentInv /\ HandedInv
    BY ResearchInitially, RoadmapInitially, ChatInitially, AgentInitially, HandedInitially
       DEF DeskInit
  <2>3. \A r \in Looker : looks[r] = NotLooking
    BY DEF DeskInit, RoadmapInit
  <2>4. OthersInv
    <3> DEFINE settled == part \in {"metrics", "notebook", "boxscores"}
    <3>1. settled \in BOOLEAN /\ CoachRosterInit(settled) /\ NotebookInit
      BY DEF DeskInit
    <3> HIDE DEF settled
    <3>2. NotebookInv
      BY <3>1, NotebookInitially
    <3>3. PurgeInv /\ PracticeInv /\ LibraryInv /\ PushInv
      BY PurgeInitially, PracticeInitially, LibraryInitially, PushInitially DEF DeskInit
    <3> QED
      BY <3>2, <3>3 DEF OthersInv
  <2>5. part \in Part
    BY DEF DeskInit
  <2> QED
    BY <2>1, <2>2, <2>3, <2>4, <2>5 DEF DeskInv, OwnInv
<1>2. DeskInv /\ [DeskNext]_deskVars => DeskInv'
  <2>1. [DeskNext]_deskVars => part' = part
    BY DEF DeskNext, deskVars
  <2> QED
    BY <2>1, FilesKept, OwnKept, OthersKept DEF DeskInv
<1> QED
  BY <1>1, <1>2, PTL DEF DeskSpec

\* Files are paid for, kept apart and whole (scouting.py, upload_service.py,
\* kb_ingest.py), for any number of files, uploads, documents and requests: the
\* quota covers every file S3 holds that was uploaded and then registered with its
\* size, unless its row was purged; a row and what the model was told lead to the
\* file that was sent unless two requests contested its path; and a document the
\* manifest knows is in the collection as a whole, in the version recorded unless it
\* was ingested again after a change or its text could not be extracted once.
THEOREM FilesStayKept == DeskSpec => []FilesAreKept
<1>1. DeskInv => FilesAreKept
  BY QuotaCovers, UploadsKeepApart DEF DeskInv, FilesInv, IngestInv, FilesAreKept
<1> QED
  BY <1>1, DeskInvHolds, PTL

\* What a coach is shown and told is the coach's own (chat_service.py, crew/tools.py,
\* research/cache.py, playbook.py, the roadmap of pages.py), for any number of
\* turns, agents, runs, edits and pages: a turn that overlapped no other sends its own
\* message and the newest of the rest; a tool shows only the coach's players, games and
\* files, and a team that is the coach's unless it changed hands since a page was opened,
\* and what it promised is saved or nothing is; an answer taken from the cache was made for the
\* same coach, team and question; a play holds what its coach last wrote unless edits
\* overlapped; and a roadmap shows as done what was done all the while.
THEOREM OwnStaysOwn == DeskSpec => []CoachesSeeTheirOwn
<1>1. DeskInv => CoachesSeeTheirOwn
  <2> SUFFICES ASSUME DeskInv PROVE CoachesSeeTheirOwn
    OBVIOUS
  <2>1. PromptCarriesTurn /\ ToolsKeepPromises /\ AnswersAreOwn /\ RoadmapIsHonest
    BY ChatSound, AgentSound, ResearchSound, RoadmapSound DEF DeskInv, OwnInv
  <2>2. PlaysAreTheirs
    BY DEF DeskInv, OwnInv, RoadmapInv, PlaybookInv
  <2> QED
    BY <2>1, <2>2 DEF CoachesSeeTheirOwn
<1> QED
  BY <1>1, DeskInvHolds, PTL

\* The same clips of a video, each as often, have one link (_create_or_reuse_share of
\* scouting.py), for any number of clips and links: two came of requests that overlapped, or one is
\* a timeline.
THEOREM LinksAreReused == DeskSpec => []SharesReused
<1>1. DeskInv => SharesReused
  BY LibrarySound DEF DeskInv, OthersInv
<1> QED
  BY <1>1, DeskInvHolds, PTL

\* Nothing is deleted early (purge_service.py), or but what was asked for
\* (coach_practice.py, org_practice.py), for any number of requests, teams and events:
\* content goes when the grace period is over since the account was first marked, and
\* that of a club member only by a request that found it due before it joined; a
\* deletion takes what it was asked for, and what was edited alone and hangs on it.
THEOREM DeletionsStay == DeskSpec => DeletionsStayInBounds
<1>1. DeskInv /\ [DeskNext]_deskVars =>
        [/\ ~ (rows \subseteq rows') =>
              /\ marked + Grace <= day
              /\ account.club => \E r \in Call :
                   visiting[r] # Out /\ ~ visiting[r].seen.club /\ visiting[r].seen.due <= day
         /\ account'.due # account.due => Never \in {account.due, account'.due}]_trialPurgeVars
  <2> SUFFICES ASSUME PurgeInv, [DeskNext]_deskVars
               PROVE  /\ ~ (rows \subseteq rows') =>
                            /\ marked + Grace <= day
                            /\ account.club => \E r \in Call :
                                 visiting[r] # Out /\ ~ visiting[r].seen.club /\ visiting[r].seen.due <= day
                      /\ account'.due # account.due => Never \in {account.due, account'.due}
    BY DEF DeskInv, OthersInv
  <2>1. [TrialPurgeNext]_trialPurgeVars
    BY DEF DeskNext, deskVars, MovePurge
  <2> QED
    BY <2>1, RowsGoDue, DateStays
<1>2. DeskInv => \A e \in Ids :
        /\ DeleteThis(e) \/ DeletePractice(e, FALSE) => GoesWith({e})
        /\ DeletePractice(e, TRUE) \/ DeleteDayOfWeek(e) =>
             GoesWith({f \in Ids : /\ events[f].day >= events[e].day
                                   /\ events[f].team = events[e].team \/ InSeries(e, f)})
        /\ DeleteSeries(e) =>
             GoesWith({f \in Ids : events[f].team \in Coached /\ (f = e \/ InSeries(e, f))})
  BY DeletionsGoWith DEF DeskInv, OthersInv
<1> QED
  BY <1>1, <1>2, DeskInvHolds, PTL
     DEF DeskSpec, DeletionsStayInBounds, PurgedAfterGrace, DeletesWhatWasAsked

\* Two reminders of a coach are apart by the hours of the cap (send_push_to_user),
\* for any number of runs, coaches, devices and events, but where the run of the
\* first goes on or was rolled back.
THEOREM RemindersApart == DeskSpec => RemindersSpaced
<1>1. DeskInv /\ [DeskNext]_deskVars =>
        [\A r \in PushRun : \A l \in jobs'[r].log \ jobs[r].log :
           LET last == pushed[l.coach]
           IN l.sent => \/ last.lost
                        \/ last.run # r /\ Unseen(l.coach, last.run)
                        \/ hour - last.at > CapHours]_pushVars
  <2> SUFFICES ASSUME DeskInv, [DeskNext]_deskVars PROVE AllSpaced
    BY DEF AllSpaced, Spaced
  <2>1. [PushNext \/ CoachNext]_pushVars
    BY DEF DeskNext, deskVars, MovePush
  <2> QED
    BY <2>1, PushStep DEF DeskInv, OthersInv
<1> QED
  BY <1>1, DeskInvHolds, PTL DEF DeskSpec, RemindersSpaced

\* What was recorded of a player is kept (players.py, onboarding_service.py,
\* notebook.py), for any number of requests, players and games: a score goes only to
\* what the coach entered or to a request that had not seen it, a profiled player
\* stays profiled, an import files a line for every listed player, and nobody is
\* averaged over more games than the team played.
THEOREM RecordsAreKept == DeskSpec => RecordsKept
<1>1. DeskInv /\ [DeskNext]_deskVars =>
        [ScoresKept /\ LinesFiled]_<<coachRosterVars, notebookVars>>
  BY NotebookOfDesk DEF DeskInv, OthersInv
<1> QED
  BY <1>1, DeskInvHolds, PTL DEF DeskSpec, RecordsKept

\* The tables of every part of the desk are well-typed throughout, and so are those of
\* the part that moves.
THEOREM DeskTyped == DeskSpec => []DeskTypeOK
<1>1. DeskInv => DeskTypeOK
  <2> SUFFICES ASSUME DeskInv PROVE DeskTypeOK
    OBVIOUS
  <2>1. ScoutingVideosTypeOK /\ UploadsTypeOK /\ IngestTypeOK
    BY DEF DeskInv, FilesInv, VideosInv, UploadsInv, IngestInv
  <2>2. ChatTypeOK /\ AgentTypeOK /\ ResearchTypeOK /\ RoadmapTypeOK
    BY ChatSound, AgentSound, ResearchSound, RoadmapSound DEF DeskInv, OwnInv
  <2>3. PlaybookTypeOK
    BY PlaybookSound DEF DeskInv, OwnInv, RoadmapInv
  <2>4. TrialPurgeTypeOK /\ PracticeTypeOK /\ ScoutingLibraryTypeOK /\ PushTypeOK /\ NotebookTypeOK
    BY PurgeSound, PracticeSound, LibrarySound, PushSound, NotebookSound DEF DeskInv, OthersInv
  <2>5. part \in Part
    BY DEF DeskInv
  <2> QED
    BY <2>1, <2>2, <2>3, <2>4, <2>5 DEF DeskTypeOK, Part
<1> QED
  BY <1>1, DeskInvHolds, PTL
=============================================================================

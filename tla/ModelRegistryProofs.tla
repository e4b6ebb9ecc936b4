------------------------- MODULE ModelRegistryProofs -------------------------
(***************************************************************************)
(* Proofs about ModelRegistry, for any processes, submissions, needs and   *)
(* bounds.                                                                 *)
(***************************************************************************)
EXTENDS ModelRegistry, FiniteSetTheorems, SequenceTheorems, WellFoundedInduction, TLAPS

\* The models a process may have: the defaults, and what is made of a submission
\* that was verified.
Verified == {s \in Submissions : VerifyBundle(s)}
Entries == Range(LoadDefaultModels) \cup {Manifest(s) : s \in Verified}
             \cup {RowManifest(s) : s \in Verified}

Unique(models) == \A i, j \in DOMAIN models : models[i].id = models[j].id => i = j

\* A model of a process for a row: loaded from it, or registered since then.
Stands(m, s, since) ==
    /\ m.id = s.model_id
    /\ m = RowManifest(s) \/ \E t \in since : t.model_id = s.model_id /\ m = Manifest(t)

ProcessInv(p) ==
    /\ reg[p] \in Seq(Entries) /\ Unique(reg[p])
    /\ registering[p] \subseteq Verified /\ registered[p] \subseteq Verified
    /\ started[p] \subseteq Verified /\ sovereign[p] \in BOOLEAN
    /\ \A s \in started[p] : \E i \in DOMAIN reg[p] : Stands(reg[p][i], s, registered[p])

RegInv ==
    /\ reg = [p \in Processes |-> reg[p]] /\ registering = [p \in Processes |-> registering[p]]
    /\ started = [p \in Processes |-> started[p]]
    /\ registered = [p \in Processes |-> registered[p]]
    /\ sovereign = [p \in Processes |-> sovereign[p]]
    /\ table \subseteq Verified /\ IsFiniteSet(table)
    /\ \A s, t \in table : s.model_id = t.model_id => s = t
    /\ \A p \in Processes : ProcessInv(p)

----------------------------------------------------------------------------
(***************************************************************************)
(* The operators.                                                          *)
(***************************************************************************)

LEMMA ManifestFields ==
    ASSUME NEW s
    PROVE  /\ Manifest(s).id = s.model_id /\ RowManifest(s).id = s.model_id
           /\ Manifest(s).provider = s.provider /\ RowManifest(s).provider = s.provider
           /\ Manifest(s).model_hash = ModelHash(s) /\ RowManifest(s).model_hash = ModelHash(s)
BY DEF Manifest, RowManifest, Model

\* The models every process starts with, and their names.
LEMMA LocalIds ==
    /\ Len(LocalModels) = 4 /\ LocalModels \in Seq(Range(LocalModels))
    /\ LocalModels[1].id = "reasoning-local"
    /\ LocalModels[2].id = "coding-local"
    /\ LocalModels[3].id = "vision-local"
    /\ LocalModels[4].id = "embedding-local"
<1>1. /\ Len(LocalModels) = 4 /\ LocalModels \in Seq(Range(LocalModels))
      /\ LocalModels[1] = ReasoningLocal /\ LocalModels[2] = CodingLocal
      /\ LocalModels[3] = VisionLocal /\ LocalModels[4] = EmbeddingLocal
  BY DEF LocalModels, Range
<1>2. /\ ReasoningLocal.id = "reasoning-local" /\ CodingLocal.id = "coding-local"
      /\ VisionLocal.id = "vision-local" /\ EmbeddingLocal.id = "embedding-local"
  BY DEF ReasoningLocal, CodingLocal, VisionLocal, EmbeddingLocal, Model
<1> QED
  BY <1>1, <1>2

LEMMA CloudIds ==
    /\ Len(CloudModels) = 6 /\ CloudModels \in Seq(Range(CloudModels))
    /\ CloudModels[1].id = "reasoning-groq"
    /\ CloudModels[2].id = "coding-groq"
    /\ CloudModels[3].id = "fast-groq"
    /\ CloudModels[4].id = "vision-gemini"
    /\ CloudModels[5].id = "reasoning-gemini"
    /\ CloudModels[6].id = "embedding-gemini"
<1>1. /\ Len(CloudModels) = 6 /\ CloudModels \in Seq(Range(CloudModels))
      /\ CloudModels[1] = ReasoningGroq /\ CloudModels[2] = CodingGroq
      /\ CloudModels[3] = FastGroq /\ CloudModels[4] = VisionGemini
      /\ CloudModels[5] = ReasoningGemini /\ CloudModels[6] = EmbeddingGemini
  BY DEF CloudModels, Range
<1>2. /\ ReasoningGroq.id = "reasoning-groq" /\ CodingGroq.id = "coding-groq"
      /\ FastGroq.id = "fast-groq" /\ VisionGemini.id = "vision-gemini"
      /\ ReasoningGemini.id = "reasoning-gemini" /\ EmbeddingGemini.id = "embedding-gemini"
  BY DEF ReasoningGroq, CodingGroq, FastGroq, VisionGemini, ReasoningGemini,
         EmbeddingGemini, Model
<1> QED
  BY <1>1, <1>2

\* Two sequences of models of different names, one after the other.
LEMMA JoinUnique ==
    ASSUME NEW S, NEW l \in Seq(S), NEW a \in Seq(S), Unique(l), Unique(a),
           \A i \in DOMAIN l, j \in DOMAIN a : l[i].id # a[j].id
    PROVE  /\ l \o a \in Seq(S) /\ Unique(l \o a)
           /\ \A i \in DOMAIN l : i \in DOMAIN (l \o a) /\ (l \o a)[i] = l[i]
           /\ \A j \in DOMAIN a : \E i \in DOMAIN (l \o a) : (l \o a)[i] = a[j]
<1>1. PICK b : b = l \o a
  OBVIOUS
<1>2. PICK n \in Nat, m \in Nat : n = Len(l) /\ m = Len(a)
  OBVIOUS
<1>3. DOMAIN l = 1 .. n /\ DOMAIN a = 1 .. m
  BY <1>2
<1>4. /\ b \in Seq(S) /\ Len(b) = n + m
      /\ \A i \in 1 .. n + m : b[i] = IF i <= n THEN l[i] ELSE a[i - n]
  BY <1>1, <1>2, ConcatProperties
<1>5. b \in Seq(S) /\ DOMAIN b = 1 .. n + m
  BY <1>4
<1>6. \A i \in 1 .. n : i \in 1 .. n + m /\ b[i] = l[i]
  BY <1>4
<1>7. \A j \in 1 .. m : n + j \in 1 .. n + m /\ b[n + j] = a[j]
  <2> TAKE j \in 1 .. m
  <2>1. n + j \in 1 .. n + m /\ ~ (n + j <= n) /\ (n + j) - n = j
    OBVIOUS
  <2> QED
    BY <1>4, <2>1
<1>8. Unique(b)
  <2> SUFFICES ASSUME NEW i \in 1 .. n + m, NEW j \in 1 .. n + m, b[i].id = b[j].id
               PROVE  i = j
    BY <1>5 DEF Unique
  <2>1. \A k \in 1 .. n + m : k \in 1 .. n \/ (k - n \in 1 .. m /\ n + (k - n) = k)
    OBVIOUS
  <2>2. CASE i \in 1 .. n /\ j \in 1 .. n
    BY <1>3, <1>6, <2>2 DEF Unique
  <2>3. CASE i \in 1 .. n /\ j \notin 1 .. n
    <3>1. j - n \in 1 .. m /\ b[j] = a[j - n]
      BY <1>7, <2>1, <2>3
    <3> QED
      BY <1>3, <1>6, <2>3, <3>1
  <2>4. CASE i \notin 1 .. n /\ j \in 1 .. n
    <3>1. i - n \in 1 .. m /\ b[i] = a[i - n]
      BY <1>7, <2>1, <2>4
    <3> QED
      BY <1>3, <1>6, <2>4, <3>1
  <2>5. CASE i \notin 1 .. n /\ j \notin 1 .. n
    <3>1. /\ i - n \in 1 .. m /\ b[i] = a[i - n] /\ n + (i - n) = i
          /\ j - n \in 1 .. m /\ b[j] = a[j - n] /\ n + (j - n) = j
      BY <1>7, <2>1, <2>5
    <3>2. i - n = j - n
      BY <1>3, <3>1 DEF Unique
    <3> QED
      BY <3>2
  <2> QED
    BY <2>2, <2>3, <2>4, <2>5
<1>9. \A j \in 1 .. m : \E i \in 1 .. n + m : b[i] = a[j]
  BY <1>7
<1> QED
  BY <1>1, <1>3, <1>5, <1>6, <1>8, <1>9

LEMMA DefaultsUnique ==
    LoadDefaultModels \in Seq(Range(LoadDefaultModels)) /\ Unique(LoadDefaultModels)
<1>1. PICK l, c : l = LocalModels /\ c = CloudModels
  OBVIOUS
<1>2. PICK S : S = Range(l) \cup Range(c)
  OBVIOUS
<1>3. l \in Seq(S) /\ c \in Seq(S)
  BY <1>1, <1>2, LocalIds, CloudIds
<1>4. DOMAIN l = 1 .. 4 /\ DOMAIN c = 1 .. 6
  BY <1>1, LocalIds, CloudIds
<1>5. /\ \A i \in 1 .. 4 : i = 1 \/ i = 2 \/ i = 3 \/ i = 4
      /\ \A i \in 1 .. 6 : i = 1 \/ i = 2 \/ i = 3 \/ i = 4 \/ i = 5 \/ i = 6
  OBVIOUS
<1>6. /\ l[1].id = "reasoning-local" /\ l[2].id = "coding-local"
      /\ l[3].id = "vision-local" /\ l[4].id = "embedding-local"
  BY <1>1, LocalIds
<1>7. /\ c[1].id = "reasoning-groq" /\ c[2].id = "coding-groq" /\ c[3].id = "fast-groq"
      /\ c[4].id = "vision-gemini" /\ c[5].id = "reasoning-gemini"
      /\ c[6].id = "embedding-gemini"
  BY <1>1, CloudIds
<1>8. Unique(l)
  BY <1>4, <1>5, <1>6 DEF Unique
<1>9. Unique(c)
  BY <1>4, <1>5, <1>7 DEF Unique
<1>10. \A i \in DOMAIN l, j \in DOMAIN c : l[i].id # c[j].id
  BY <1>4, <1>5, <1>6, <1>7
<1>11. l \o c \in Seq(S) /\ Unique(l \o c)
  BY <1>3, <1>8, <1>9, <1>10, JoinUnique
<1>12. PICK b : b = l \o c
  OBVIOUS
<1>13. b \in Seq(Range(b)) /\ l \in Seq(Range(l))
  BY <1>3, <1>11, <1>12, SeqOfRange
<1> QED
  BY <1>1, <1>8, <1>11, <1>12, <1>13 DEF LoadDefaultModels

\* The models once e is one of them: the others are kept, and the one of its
\* name makes place.
Holds(S, models, e, new) ==
    /\ new \in Seq(S) /\ Unique(new)
    /\ \E i \in DOMAIN new : new[i] = e
    /\ \A i \in DOMAIN models : /\ i \in DOMAIN new
                                /\ models[i].id # e.id => new[i] = models[i]

LEMMA Registers ==
    ASSUME NEW S, NEW models \in Seq(S), NEW e \in S, Unique(models)
    PROVE  Holds(S, models, e, RegisterModel(models, e))
<1>0. PICK new : new = RegisterModel(models, e)
  OBVIOUS
<1>1. CASE \E i \in DOMAIN models : models[i].id = e.id
  <2>1. new = [i \in DOMAIN models |-> IF models[i].id = e.id THEN e ELSE models[i]]
    BY <1>0, <1>1 DEF RegisterModel
  <2>2. DOMAIN new = DOMAIN models /\ new \in Seq(S)
    BY <2>1
  <2>3. \A i \in DOMAIN models : new[i] = IF models[i].id = e.id THEN e ELSE models[i]
    BY <2>1
  <2>4. \A i \in DOMAIN models : new[i].id = models[i].id
    BY <2>3
  <2>5. Unique(new)
    BY <2>2, <2>4 DEF Unique
  <2>6. \E i \in DOMAIN new : new[i] = e
    BY <1>1, <2>2, <2>3
  <2> QED
    BY <1>0, <2>2, <2>3, <2>5, <2>6 DEF Holds
<1>2. CASE ~ \E i \in DOMAIN models : models[i].id = e.id
  <2>1. new = Append(models, e)
    BY <1>0, <1>2 DEF RegisterModel
  <2>2. /\ new \in Seq(S) /\ Len(new) = Len(models) + 1 /\ new[Len(models) + 1] = e
        /\ \A i \in 1 .. Len(models) : new[i] = models[i]
    BY <2>1, AppendProperties
  <2>3. DOMAIN new = 1 .. Len(models) + 1 /\ DOMAIN models = 1 .. Len(models) /\ Len(models) \in Nat
    BY <2>2
  <2>4. Unique(new)
    <3> SUFFICES ASSUME NEW i \in DOMAIN new, NEW j \in DOMAIN new, new[i].id = new[j].id
                 PROVE  i = j
      BY DEF Unique
    <3>1. CASE i \in DOMAIN models /\ j \in DOMAIN models
      BY <2>2, <2>3, <3>1 DEF Unique
    <3>2. CASE i = Len(models) + 1
      BY <1>2, <2>2, <2>3, <3>2
    <3>3. CASE j = Len(models) + 1
      BY <1>2, <2>2, <2>3, <3>3
    <3> QED
      BY <2>3, <3>1, <3>2, <3>3
  <2>5. Len(models) + 1 \in DOMAIN new
    BY <2>3
  <2> QED
    BY <1>0, <2>2, <2>3, <2>4, <2>5 DEF Holds
<1> QED
  BY <1>1, <1>2

\* A sequence of all elements of a finite set has each of them somewhere.
LEMMA AllThere ==
    ASSUME NEW S, IsFiniteSet(S), NEW f \in SetToSeqs(S)
    PROVE  /\ f \in Seq(S)
           /\ \A i, j \in DOMAIN f : f[i] = f[j] => i = j
           /\ \A x \in S : \E i \in DOMAIN f : f[i] = x
<1> DEFINE n == Cardinality(S)
<1>1. n \in Nat
  BY FS_CardinalityType
<1> HIDE DEF n
<1>2. f \in [1 .. n -> S] /\ \A i, j \in 1 .. n : i # j => f[i] # f[j]
  BY DEF SetToSeqs, n
<1>3. f \in Injection(1 .. n, S)
  BY <1>2 DEF Injection, IsInjective
<1>4. Cardinality(1 .. n) = n
  BY <1>1, FS_Interval
<1>5. f \in Surjection(1 .. n, S)
  BY <1>3, <1>4, FS_Injection DEF n
<1> QED
  BY <1>1, <1>2, <1>5 DEF Surjection

\* What a process loads: it has an entry for every row, and no two of a name.
LEMMA Synced ==
    ASSUME NEW S, NEW models \in Seq(S), Unique(models),
           NEW rows, IsFiniteSet(rows),
           \A s, t \in rows : s.model_id = t.model_id => s = t,
           \A s \in rows : RowManifest(s) \in S,
           NEW new \in SyncWithDb(models, rows)
    PROVE  /\ new \in Seq(S) /\ Unique(new)
           /\ \A s \in rows : \E i \in DOMAIN new : new[i] = RowManifest(s)
<1> DEFINE Of(id) == {s \in rows : s.model_id = id}
<1>1. PICK loaded, added :
        /\ loaded = [i \in DOMAIN models |->
                       IF Of(models[i].id) = {} THEN models[i]
                       ELSE RowManifest(CHOOSE s \in rows : s.model_id = models[i].id)]
        /\ added \in SetToSeqs(NewManifests(models, rows))
        /\ new = loaded \o added
  BY DEF SyncWithDb
<1>2. PICK fresh : fresh = {s \in rows : s.model_id \notin Ids(models)}
  OBVIOUS
<1>3. NewManifests(models, rows) = {RowManifest(s) : s \in fresh}
  BY <1>2 DEF NewManifests
<1>4. IsFiniteSet(fresh)
  BY <1>2, FS_Subset
<1>5. IsFiniteSet(NewManifests(models, rows))
  <2>1. PICK f : f = [s \in fresh |-> RowManifest(s)]
    OBVIOUS
  <2>2. f \in Surjection(fresh, NewManifests(models, rows))
    BY <1>3, <2>1 DEF Surjection
  <2> QED
    BY <1>4, <2>2, FS_Surjection
<1>6. PICK N : N = NewManifests(models, rows)
  OBVIOUS
<1>7. /\ added \in Seq(N)
      /\ \A i, j \in DOMAIN added : added[i] = added[j] => i = j
      /\ \A x \in N : \E i \in DOMAIN added : added[i] = x
  BY <1>1, <1>5, <1>6, AllThere
<1>8. N \subseteq S
  BY <1>2, <1>3, <1>6
<1>9. added \in Seq(S)
  BY <1>7, <1>8
<1>10. \A j \in DOMAIN added : \E s \in fresh : added[j] = RowManifest(s) /\ added[j].id = s.model_id
  <2> TAKE j \in DOMAIN added
  <2>1. added[j] \in N
    BY <1>7
  <2> QED
    BY <1>3, <1>6, <2>1, ManifestFields
<1>11. Unique(added)
  <2> SUFFICES ASSUME NEW i \in DOMAIN added, NEW j \in DOMAIN added, added[i].id = added[j].id
               PROVE  i = j
    BY DEF Unique
  <2>1. PICK s \in fresh, t \in fresh : /\ added[i] = RowManifest(s) /\ added[i].id = s.model_id
                                      /\ added[j] = RowManifest(t) /\ added[j].id = t.model_id
    BY <1>10
  <2>2. s = t
    BY <1>2, <2>1
  <2> QED
    BY <1>7, <2>1, <2>2
<1>12. \A i \in DOMAIN models : Of(models[i].id) # {} =>
         \E s \in rows : /\ s = CHOOSE r \in rows : r.model_id = models[i].id
                        /\ s.model_id = models[i].id
  OBVIOUS
<1>13. DOMAIN loaded = DOMAIN models /\ loaded \in Seq(S)
  <2>1. \A i \in DOMAIN models : models[i] \in S
    OBVIOUS
  <2>2. \A i \in DOMAIN models : loaded[i] \in S
    BY <1>1, <1>12, <2>1
  <2>3. DOMAIN loaded = DOMAIN models /\ loaded = [i \in DOMAIN models |-> loaded[i]]
    BY <1>1
  <2>4. PICK n \in Nat : DOMAIN models = 1 .. n
    OBVIOUS
  <2>5. loaded \in [1 .. n -> S]
    BY <2>2, <2>3, <2>4
  <2> QED
    BY <2>3, <2>5
<1>14. \A i \in DOMAIN models : loaded[i].id = models[i].id
  BY <1>1, <1>12, ManifestFields
<1>15. Unique(loaded)
  BY <1>13, <1>14 DEF Unique
<1>16. \A i \in DOMAIN loaded, j \in DOMAIN added : loaded[i].id # added[j].id
  <2> SUFFICES ASSUME NEW i \in DOMAIN loaded, NEW j \in DOMAIN added
               PROVE  loaded[i].id # added[j].id
    OBVIOUS
  <2>1. loaded[i].id \in Ids(models)
    BY <1>13, <1>14 DEF Ids, Range
  <2>2. added[j].id \notin Ids(models)
    BY <1>2, <1>10
  <2> QED
    BY <2>1, <2>2
<1>17. /\ new \in Seq(S) /\ Unique(new)
       /\ \A i \in DOMAIN loaded : i \in DOMAIN new /\ new[i] = loaded[i]
       /\ \A j \in DOMAIN added : \E i \in DOMAIN new : new[i] = added[j]
  <2> HIDE DEF Of
  <2>1. /\ loaded \o added \in Seq(S) /\ Unique(loaded \o added)
        /\ \A i \in DOMAIN loaded : i \in DOMAIN (loaded \o added) /\ (loaded \o added)[i] = loaded[i]
        /\ \A j \in DOMAIN added : \E i \in DOMAIN (loaded \o added) : (loaded \o added)[i] = added[j]
    BY <1>9, <1>11, <1>13, <1>15, <1>16, JoinUnique
  <2> QED
    BY <1>1, <2>1
<1>18. ASSUME NEW s \in rows
       PROVE  \E i \in DOMAIN new : new[i] = RowManifest(s)
  <2>1. CASE s.model_id \in Ids(models)
    <3>1. PICK i \in DOMAIN models : models[i].id = s.model_id
      BY <2>1 DEF Ids, Range
    <3>2. s \in Of(models[i].id)
      BY <3>1
    <3>3. PICK r \in rows : /\ r = CHOOSE q \in rows : q.model_id = models[i].id
                           /\ r.model_id = models[i].id
      BY <1>12, <3>2
    <3>4. r = s
      BY <3>1, <3>3
    <3>5. loaded[i] = RowManifest(s)
      BY <1>1, <3>2, <3>3, <3>4
    <3> QED
      BY <1>13, <1>17, <3>5
  <2>2. CASE s.model_id \notin Ids(models)
    <3>1. RowManifest(s) \in N
      BY <1>2, <1>3, <1>6, <2>2
    <3> QED
      BY <1>7, <1>17, <3>1
  <2> QED
    BY <2>1, <2>2
<1> QED
  BY <1>17, <1>18

----------------------------------------------------------------------------
(***************************************************************************)
(* Routing.                                                                *)
(***************************************************************************)

LEMMA QuickWide ==
    ASSUME NEW m
    PROVE  Quick(m) \in 1 .. 3 /\ Wide(m) \in 0 .. 1
BY DEF Quick, Wide

\* Points(fit, quick, wide): what Score makes of its three summands.
Points(fit, quick, wide) ==
    2 * (fit + quick + wide)
      - (IF <<fit, quick, wide>> \in {<<6, 3, 0>>, <<6, 3, 1>>, <<6, 1, 1>>, <<5, 2, 1>>}
           THEN 1 ELSE 0)

LEMMA ScoreIsPoints ==
    ASSUME NEW need
    PROVE  \E fit \in 5 .. 6 : \A m : Score(m, need) = Points(fit, Quick(m), Wide(m))
BY DEF Score, Points

LEMMA PointsGrow ==
    ASSUME NEW fit \in 5 .. 6, NEW q \in 1 .. 3, NEW w \in 0 .. 1
    PROVE  /\ Points(fit, q, w) \in 0 .. 20
           /\ \A r \in 1 .. 3, x \in 0 .. 1 :
                  (r >= q /\ x >= w /\ (r # q \/ x # w)) => Points(fit, r, x) > Points(fit, q, w)
<1>1. \A a \in 1 .. 3, b \in 0 .. 1 :
        /\ Points(fit, a, b) \in {2 * (fit + a + b), 2 * (fit + a + b) - 1}
  BY DEF Points
<1>2. Points(fit, q, w) \in 0 .. 20
  BY <1>1
<1>3. ASSUME NEW r \in 1 .. 3, NEW x \in 0 .. 1, r >= q, x >= w, r # q \/ x # w
      PROVE  Points(fit, r, x) > Points(fit, q, w)
  <2>1. 2 * (fit + r + x) - 1 > 2 * (fit + q + w)
    BY <1>3
  <2>2. /\ Points(fit, r, x) \in {2 * (fit + r + x), 2 * (fit + r + x) - 1}
        /\ Points(fit, q, w) \in {2 * (fit + q + w), 2 * (fit + q + w) - 1}
    BY <1>1
  <2> QED
    BY <2>1, <2>2
<1> QED
  BY <1>2, <1>3

\* The scores are bounded, and what is better scores more.
LEMMA ScoreRanks ==
    ASSUME NEW need, NEW m, NEW n
    PROVE  /\ Score(m, need) \in 0 .. 20
           /\ Better(n, m) => Score(n, need) > Score(m, need)
<1>1. PICK fit \in 5 .. 6 : \A k : Score(k, need) = Points(fit, Quick(k), Wide(k))
  BY ScoreIsPoints
<1>2. Score(m, need) = Points(fit, Quick(m), Wide(m)) /\ Score(n, need) = Points(fit, Quick(n), Wide(n))
  BY <1>1
<1>3. /\ Quick(m) \in 1 .. 3 /\ Wide(m) \in 0 .. 1
      /\ Quick(n) \in 1 .. 3 /\ Wide(n) \in 0 .. 1
  BY QuickWide
<1>4. Points(fit, Quick(m), Wide(m)) \in 0 .. 20
  BY <1>3, PointsGrow
<1>5. ASSUME Better(n, m)
      PROVE  Points(fit, Quick(n), Wide(n)) > Points(fit, Quick(m), Wide(m))
  <2>1. Quick(n) >= Quick(m) /\ Wide(n) >= Wide(m) /\ (Quick(n) # Quick(m) \/ Wide(n) # Wide(m))
    BY <1>5 DEF Better
  <2> QED
    BY <1>3, <2>1, PointsGrow
<1> QED
  BY <1>2, <1>4, <1>5

\* A set of numbers has a least one.
LEMMA Least ==
    ASSUME NEW T, T \subseteq Nat, T # {}
    PROVE  \E k \in T : \A j \in T : k <= j
<1>1. PICK k \in T : \A j \in T : ~ (<<j, k>> \in OpToRel(<, Nat))
  BY NatLessThanWellFounded, WFMin
<1>2. ASSUME NEW j \in T
      PROVE  k <= j
  <2>1. j \in Nat /\ k \in Nat
    OBVIOUS
  <2>2. ~ (j < k)
    BY <1>1, <2>1 DEF OpToRel
  <2> QED
    BY <2>1, <2>2
<1> QED
  BY <1>2

LEMMA Flip ==
    \A a, b \in 0 .. 20 : (20 - a <= 20 - b => b <= a) /\ ~ (a <= b /\ a > b)
OBVIOUS

\* Of the models of a process that satisfy a need, the one routing chooses is
\* one that no other of them is better than; without one there is no model.
LEMMA RouteChooses ==
    ASSUME NEW S, NEW models \in Seq(S), Unique(models), NEW need
    PROVE  LET candidates == {i \in DOMAIN models : models[i].active /\ Satisfies(models[i], need)}
           IN  \/ candidates = {} /\ Route(models, need) = NoModel
               \/ \E k \in candidates :
                    /\ Route(models, need) = models[k].id
                    /\ ModelInfo(models, models[k].id) = models[k]
                    /\ \A j \in candidates : ~Better(models[j], models[k])
<1> DEFINE candidates == {i \in DOMAIN models : models[i].active /\ Satisfies(models[i], need)}
           best == {i \in candidates : \A j \in candidates :
                      Score(models[j], need) <= Score(models[i], need)}
<1>1. CASE candidates = {}
  BY <1>1 DEF Route
<1>2. CASE candidates # {}
  <2>1. \A i \in DOMAIN models : Score(models[i], need) \in 0 .. 20
    BY ScoreRanks
  <2>2. PICK T : T = {20 - Score(models[i], need) : i \in candidates}
    OBVIOUS
  <2>3. T \subseteq Nat /\ T # {}
    BY <1>2, <2>1, <2>2
  <2>4. PICK t \in T : \A u \in T : t <= u
    BY <2>3, Least
  <2>5. PICK i \in candidates : t = 20 - Score(models[i], need)
    BY <2>2
  <2>6. ASSUME NEW j \in candidates
        PROVE  Score(models[j], need) <= Score(models[i], need)
    <3>1. 20 - Score(models[i], need) <= 20 - Score(models[j], need)
      BY <2>2, <2>4, <2>5
    <3>2. Score(models[i], need) \in 0 .. 20 /\ Score(models[j], need) \in 0 .. 20
      BY <2>1
    <3> QED
      BY <3>1, <3>2, Flip
  <2>7. i \in best
    BY <2>6
  <2>8. DOMAIN models \subseteq Nat
    OBVIOUS
  <2>9. best \subseteq Nat /\ best # {}
    BY <2>7, <2>8
  <2>10. \E l \in best : \A j \in best : l <= j
    <3> HIDE DEF best
    <3> QED
      BY <2>9, Least
  <2>11. PICK k : k = CHOOSE l \in best : \A j \in best : l <= j
    OBVIOUS
  <2>12. k \in best
    <3> HIDE DEF best
    <3> QED
      BY <2>10, <2>11
  <2>13. Route(models, need) = models[k].id
    BY <1>2, <2>11 DEF Route
  <2>14. k \in candidates
    BY <2>12
  <2>15. ModelInfo(models, models[k].id) = models[k]
    <3>1. PICK l : l = CHOOSE x \in DOMAIN models : models[x].id = models[k].id
      OBVIOUS
    <3>2. k \in DOMAIN models
      BY <2>14
    <3>3. l \in DOMAIN models /\ models[l].id = models[k].id
      BY <3>1, <3>2
    <3>4. l = k
      BY <3>2, <3>3 DEF Unique
    <3> QED
      BY <3>1, <3>4 DEF ModelInfo
  <2>16. ASSUME NEW j \in candidates, Better(models[j], models[k])
         PROVE  FALSE
    <3>1. Score(models[j], need) <= Score(models[k], need)
      BY <2>12
    <3>2. Score(models[j], need) > Score(models[k], need)
      BY <2>16, ScoreRanks
    <3>3. Score(models[j], need) \in 0 .. 20 /\ Score(models[k], need) \in 0 .. 20
      BY ScoreRanks
    <3> QED
      BY <3>1, <3>2, <3>3, Flip
  <2> QED
    BY <2>13, <2>14, <2>15, <2>16
<1> QED
  BY <1>1, <1>2

----------------------------------------------------------------------------
(***************************************************************************)
(* The invariant.                                                          *)
(***************************************************************************)

\* What was verified stays verified: the key and the mode are settings.
LEMMA SettingsStay ==
    ASSUME UNCHANGED settings
    PROVE  Verified' = Verified /\ Entries' = Entries
BY DEF Verified, Entries, VerifyBundle, LoadDefaultModels

LEMMA InitReg == RegistryInit => RegInv
<1> SUFFICES ASSUME RegistryInit PROVE RegInv
  OBVIOUS
<1>1. ASSUME NEW p \in Processes PROVE ProcessInv(p)
  <2>1. reg[p] = LoadDefaultModels
    BY DEF RegistryInit
  <2>2. registering[p] = {} /\ registered[p] = {} /\ started[p] = {} /\ sovereign[p] = TRUE
    BY DEF RegistryInit
  <2>3. Range(LoadDefaultModels) \subseteq Entries
    BY DEF Entries
  <2>4. LoadDefaultModels \in Seq(Entries) /\ Unique(LoadDefaultModels)
    BY <2>3, DefaultsUnique, SeqMonotonic
  <2> QED
    BY <2>1, <2>2, <2>4 DEF ProcessInv
<1>2. table \subseteq Verified /\ IsFiniteSet(table) /\ \A s, t \in table : s.model_id = t.model_id => s = t
  BY FS_EmptySet DEF RegistryInit
<1>3. /\ reg = [p \in Processes |-> reg[p]] /\ registering = [p \in Processes |-> registering[p]]
      /\ started = [p \in Processes |-> started[p]]
      /\ registered = [p \in Processes |-> registered[p]]
      /\ sovereign = [p \in Processes |-> sovereign[p]]
  BY DEF RegistryInit
<1> QED
  BY <1>1, <1>2, <1>3 DEF RegInv

\* A process that a step leaves alone.
LEMMA Alone ==
    ASSUME UNCHANGED settings, NEW p \in Processes, ProcessInv(p),
           reg'[p] = reg[p], registered'[p] = registered[p], started'[p] = started[p],
           registering'[p] \subseteq registering[p], sovereign'[p] \in BOOLEAN
    PROVE  ProcessInv(p)'
<1>1. Verified' = Verified /\ Entries' = Entries
  BY SettingsStay
<1> QED
  BY <1>1 DEF ProcessInv, Stands, Unique

LEMMA RegisterInv ==
    ASSUME RegInv, NEW q \in Processes, NEW s \in Submissions, Register(q, s)
    PROVE  RegInv'
<1>1. s \in Verified /\ UNCHANGED settings
  BY DEF Register, Verified
<1>2. Verified' = Verified /\ Entries' = Entries
  BY <1>1, SettingsStay
<1>3. PICK e : e = Manifest(s)
  OBVIOUS
<1>4. e \in Entries /\ e.id = s.model_id
  BY <1>1, <1>3, ManifestFields DEF Entries
<1>5. /\ reg' = [reg EXCEPT ![q] = RegisterModel(reg[q], e)]
      /\ registered' = [registered EXCEPT ![q] = registered[q] \cup {s}]
      /\ registering' = [registering EXCEPT ![q] = registering[q] \cup {s}]
      /\ UNCHANGED <<table, sovereign, started>>
  BY <1>3 DEF Register
<1>6. ProcessInv(q)
  BY DEF RegInv
<1>7. PICK new : new = RegisterModel(reg[q], e)
  OBVIOUS
<1>8. /\ new \in Seq(Entries) /\ Unique(new)
      /\ \E i \in DOMAIN new : new[i] = e
      /\ \A i \in DOMAIN reg[q] : /\ i \in DOMAIN new
                                  /\ reg[q][i].id # e.id => new[i] = reg[q][i]
  <2>1. PICK old, S : old = reg[q] /\ S = Entries
    OBVIOUS
  <2>2. old \in Seq(S) /\ Unique(old) /\ e \in S
    BY <1>4, <1>6, <2>1 DEF ProcessInv
  <2>3. Holds(S, old, e, RegisterModel(old, e))
    BY <2>2, Registers
  <2> QED
    BY <1>7, <2>1, <2>3 DEF Holds
<1>9. reg'[q] = new /\ registered'[q] = registered[q] \cup {s} /\ registering'[q] = registering[q] \cup {s}
  BY <1>5, <1>7 DEF RegInv
<1>10. ProcessInv(q)'
  <2>1. /\ reg'[q] \in Seq(Entries') /\ Unique(reg'[q]) /\ sovereign'[q] \in BOOLEAN
        /\ registering'[q] \subseteq Verified' /\ registered'[q] \subseteq Verified'
        /\ started'[q] \subseteq Verified'
    BY <1>1, <1>2, <1>5, <1>6, <1>8, <1>9 DEF ProcessInv
  <2>2. ASSUME NEW r \in started[q]
        PROVE  \E i \in DOMAIN new : Stands(new[i], r, registered[q] \cup {s})
    <3>1. PICK i \in DOMAIN reg[q] : Stands(reg[q][i], r, registered[q])
      BY <1>6 DEF ProcessInv
    <3>2. CASE reg[q][i].id = e.id
      <4>1. PICK j \in DOMAIN new : new[j] = e
        BY <1>8
      <4>2. r.model_id = s.model_id
        BY <1>4, <3>1, <3>2 DEF Stands
      <4> QED
        BY <1>3, <1>4, <4>1, <4>2 DEF Stands
    <3>3. CASE reg[q][i].id # e.id
      BY <1>8, <3>1, <3>3 DEF Stands
    <3> QED
      BY <3>2, <3>3
  <2> QED
    BY <1>5, <1>9, <2>1, <2>2 DEF ProcessInv, Unique, Stands
<1>11. ASSUME NEW p \in Processes, p # q PROVE ProcessInv(p)'
  <2>1. /\ reg'[p] = reg[p] /\ registered'[p] = registered[p] /\ started'[p] = started[p]
        /\ registering'[p] = registering[p] /\ sovereign'[p] = sovereign[p] /\ ProcessInv(p)
    BY <1>5, <1>11 DEF RegInv
  <2>2. sovereign'[p] \in BOOLEAN
    BY <2>1 DEF ProcessInv
  <2> QED
    BY <1>1, <2>1, <2>2, Alone
<1>12. \A p \in Processes : ProcessInv(p)'
  BY <1>10, <1>11
<1>13. /\ reg' = [p \in Processes |-> reg'[p]] /\ registering' = [p \in Processes |-> registering'[p]]
       /\ started' = [p \in Processes |-> started'[p]]
       /\ registered' = [p \in Processes |-> registered'[p]]
       /\ sovereign' = [p \in Processes |-> sovereign'[p]]
  BY <1>5 DEF RegInv
<1> QED
  BY <1>2, <1>5, <1>12, <1>13 DEF RegInv

LEMMA CommitInv ==
    ASSUME RegInv, NEW q \in Processes, NEW s \in Submissions,
           CommitModel(q, s) \/ CommitFails(q, s)
    PROVE  RegInv'
<1>1. /\ s \in registering[q] /\ registering' = [registering EXCEPT ![q] = registering[q] \ {s}]
      /\ UNCHANGED <<reg, sovereign, settings, started, registered>>
      /\ \/ table' = table
         \/ (table' = table \cup {s} /\ ~ \E row \in table : row.model_id = s.model_id)
  <2>1. CASE CommitFails(q, s)
    BY <2>1 DEF CommitFails
  <2>2. CASE CommitModel(q, s)
    BY <2>2 DEF CommitModel
  <2> QED
    BY <2>1, <2>2
<1>2. Verified' = Verified
  BY <1>1, SettingsStay
<1>3. ProcessInv(q)
  BY DEF RegInv
<1>4. s \in Verified
  BY <1>1, <1>3 DEF ProcessInv
<1>5. /\ table' \subseteq Verified' /\ IsFiniteSet(table')
      /\ \A r, t \in table' : r.model_id = t.model_id => r = t
  <2>1. CASE table' = table
    BY <1>2, <2>1 DEF RegInv
  <2>2. CASE table' = table \cup {s} /\ ~ \E row \in table : row.model_id = s.model_id
    <3>1. IsFiniteSet(table \cup {s})
      BY FS_AddElement DEF RegInv
    <3> QED
      BY <1>2, <1>4, <2>2, <3>1 DEF RegInv
  <2> QED
    BY <1>1, <2>1, <2>2
<1>6. ASSUME NEW p \in Processes PROVE ProcessInv(p)'
  <2>1. registering'[p] \subseteq registering[p] /\ ProcessInv(p)
    BY <1>1 DEF RegInv
  <2>2. sovereign'[p] \in BOOLEAN
    BY <1>1, <2>1 DEF ProcessInv
  <2> QED
    BY <1>1, <2>1, <2>2, Alone
<1>7. /\ reg' = [p \in Processes |-> reg'[p]] /\ registering' = [p \in Processes |-> registering'[p]]
      /\ started' = [p \in Processes |-> started'[p]]
      /\ registered' = [p \in Processes |-> registered'[p]]
      /\ sovereign' = [p \in Processes |-> sovereign'[p]]
  BY <1>1 DEF RegInv
<1> QED
  BY <1>5, <1>6, <1>7 DEF RegInv

LEMMA RestartInv ==
    ASSUME RegInv, NEW q \in Processes, Restart(q)
    PROVE  RegInv'
<1>1. PICK new \in SyncWithDb(LoadDefaultModels, table) : reg' = [reg EXCEPT ![q] = new]
  BY DEF Restart
<1>2. /\ started' = [started EXCEPT ![q] = table] /\ registered' = [registered EXCEPT ![q] = {}]
      /\ registering' = [registering EXCEPT ![q] = {}]
      /\ sovereign' = [sovereign EXCEPT ![q] = TRUE] /\ UNCHANGED <<table, settings>>
  BY DEF Restart
<1>3. Verified' = Verified /\ Entries' = Entries
  BY <1>2, SettingsStay
<1>4. table \subseteq Verified /\ IsFiniteSet(table) /\ \A s, t \in table : s.model_id = t.model_id => s = t
  BY DEF RegInv
<1>5. PICK models, S, rows : models = LoadDefaultModels /\ S = Entries /\ rows = table
  OBVIOUS
<1>6. /\ new \in Seq(S) /\ Unique(new)
      /\ \A s \in rows : \E i \in DOMAIN new : new[i] = RowManifest(s)
  <2>1. \A s \in rows : RowManifest(s) \in S
    BY <1>4, <1>5 DEF Entries
  <2>2. Range(LoadDefaultModels) \subseteq Entries
    BY DEF Entries
  <2>3. LoadDefaultModels \in Seq(Entries) /\ Unique(LoadDefaultModels)
    BY <2>2, DefaultsUnique, SeqMonotonic
  <2>4. models \in Seq(S) /\ Unique(models) /\ IsFiniteSet(rows) /\ new \in SyncWithDb(models, rows)
    BY <1>4, <1>5, <2>3
  <2>5. \A s, t \in rows : s.model_id = t.model_id => s = t
    BY <1>4, <1>5
  <2> QED
    BY <2>1, <2>4, <2>5, Synced
<1>7. /\ reg'[q] = new /\ started'[q] = rows /\ registered'[q] = {} /\ registering'[q] = {}
      /\ sovereign'[q] = TRUE
  BY <1>1, <1>2, <1>5 DEF RegInv
<1>8. ProcessInv(q)'
  <2>1. ASSUME NEW s \in rows
        PROVE  \E i \in DOMAIN new : Stands(new[i], s, {})
    BY <1>6, ManifestFields DEF Stands
  <2> QED
    BY <1>3, <1>4, <1>5, <1>6, <1>7, <2>1 DEF ProcessInv, Unique, Stands
<1>9. ASSUME NEW p \in Processes, p # q PROVE ProcessInv(p)'
  <2>1. /\ reg'[p] = reg[p] /\ registered'[p] = registered[p] /\ started'[p] = started[p]
        /\ registering'[p] = registering[p] /\ sovereign'[p] = sovereign[p] /\ ProcessInv(p)
    BY <1>1, <1>2, <1>9 DEF RegInv
  <2>2. sovereign'[p] \in BOOLEAN
    BY <2>1 DEF ProcessInv
  <2> QED
    BY <1>2, <2>1, <2>2, Alone
<1>10. \A p \in Processes : ProcessInv(p)'
  BY <1>8, <1>9
<1>11. /\ reg' = [p \in Processes |-> reg'[p]] /\ registering' = [p \in Processes |-> registering'[p]]
       /\ started' = [p \in Processes |-> started'[p]]
       /\ registered' = [p \in Processes |-> registered'[p]]
       /\ sovereign' = [p \in Processes |-> sovereign'[p]]
  BY <1>1, <1>2 DEF RegInv
<1> QED
  BY <1>2, <1>3, <1>4, <1>10, <1>11 DEF RegInv

LEMMA SetModeInv ==
    ASSUME RegInv, NEW q \in Processes, SetMode(q)
    PROVE  RegInv'
<1>1. /\ sovereign' = [sovereign EXCEPT ![q] = ~ sovereign[q]]
      /\ UNCHANGED <<reg, table, registering, settings, started, registered>>
  BY DEF SetMode
<1>2. Verified' = Verified
  BY <1>1, SettingsStay
<1>3. ASSUME NEW p \in Processes PROVE ProcessInv(p)'
  <2>1. ProcessInv(p) /\ sovereign[p] \in BOOLEAN
    BY DEF RegInv, ProcessInv
  <2>2. sovereign'[p] \in BOOLEAN
    BY <1>1, <2>1 DEF RegInv
  <2> QED
    BY <1>1, <2>1, <2>2, Alone
<1>4. sovereign' = [p \in Processes |-> sovereign'[p]]
  BY <1>1 DEF RegInv
<1> QED
  BY <1>1, <1>2, <1>3, <1>4 DEF RegInv

LEMMA StepReg == RegInv /\ [RegistryNext]_registryVars => RegInv'
<1> SUFFICES ASSUME RegInv, [RegistryNext]_registryVars PROVE RegInv'
  OBVIOUS
<1>1. ASSUME NEW p \in Processes, NEW s \in Submissions, Register(p, s) PROVE RegInv'
  BY <1>1, RegisterInv
<1>2. ASSUME NEW p \in Processes, NEW s \in Submissions, CommitModel(p, s) PROVE RegInv'
  BY <1>2, CommitInv
<1>3. ASSUME NEW p \in Processes, NEW s \in Submissions, CommitFails(p, s) PROVE RegInv'
  BY <1>3, CommitInv
<1>4. ASSUME NEW p \in Processes, Restart(p) PROVE RegInv'
  BY <1>4, RestartInv
<1>5. ASSUME NEW p \in Processes, SetMode(p) PROVE RegInv'
  BY <1>5, SetModeInv
<1>6. CASE UNCHANGED registryVars
  <2>1. UNCHANGED <<reg, table, registering, sovereign, settings, started, registered>>
    BY <1>6 DEF registryVars
  <2>2. Verified' = Verified
    BY <2>1, SettingsStay
  <2>3. ASSUME NEW p \in Processes PROVE ProcessInv(p)'
    <3>1. ProcessInv(p) /\ sovereign'[p] \in BOOLEAN
      BY <2>1 DEF RegInv, ProcessInv
    <3> QED
      BY <2>1, <3>1, Alone
  <2> QED
    BY <2>1, <2>2, <2>3 DEF RegInv
<1> QED
  BY <1>1, <1>2, <1>3, <1>4, <1>5, <1>6 DEF RegistryNext

LEMMA Registry == RegistrySpec => []RegInv
BY InitReg, StepReg, PTL DEF RegistrySpec

----------------------------------------------------------------------------
(***************************************************************************)
(* The theorems.                                                           *)
(***************************************************************************)

\* Every variable of the registry has its type, and no process has two models
\* of one name (model_gateway/router.py, the dictionary of models).
THEOREM RegistryTypesHold == RegistrySpec => []RegistryTypeOK
<1>1. RegInv => RegistryTypeOK
  <2> SUFFICES ASSUME RegInv PROVE RegistryTypeOK
    OBVIOUS
  <2>1. table \subseteq Submissions
    BY DEF RegInv, Verified
  <2>2. ASSUME NEW p \in Processes
        PROVE  /\ registering[p] \cup registered[p] \cup started[p] \subseteq Submissions
               /\ sovereign[p] \in BOOLEAN
               /\ \A i, j \in DOMAIN reg[p] : reg[p][i].id = reg[p][j].id => i = j
    BY DEF RegInv, ProcessInv, Verified, Unique
  <2> QED
    BY <2>1, <2>2 DEF RegistryTypeOK
<1> QED
  BY <1>1, Registry, PTL

\* "before any model is selectable" (supply_chain.py's verify_bundle in front of
\* register_model): whatever is submitted, registered by several processes at
\* once, lost at a commit or loaded at a start, a model that is not a default was
\* verified.
THEOREM VerifiedBeforeSelectable == RegistrySpec => []SelectableIsVerified
<1>1. RegInv => SelectableIsVerified
  <2> SUFFICES ASSUME RegInv, NEW p \in Processes,
                      NEW m \in Range(reg[p]) \ Range(LoadDefaultModels)
               PROVE  \E s \in Submissions :
                        /\ s.model_id = m.id /\ s.provider = m.provider
                        /\ settings.key => s.signature = m.model_hash
                        /\ m.model_hash = IF s.file_hash # NoHash THEN s.file_hash ELSE s.bundle_sha256
                        /\ m.model_hash # NoHash
    BY DEF SelectableIsVerified
  <2>1. m \in Entries
    <3>1. reg[p] \in Seq(Entries)
      BY DEF RegInv, ProcessInv
    <3> QED
      BY <3>1, RangeOfSeq
  <2>2. PICK s \in Verified : m = Manifest(s) \/ m = RowManifest(s)
    BY <2>1 DEF Entries
  <2>3. m.id = s.model_id /\ m.provider = s.provider /\ m.model_hash = ModelHash(s)
    BY <2>2, ManifestFields
  <2>4. s \in Submissions /\ VerifyBundle(s)
    BY DEF Verified
  <2>5. settings.key => s.signature = ModelHash(s)
    BY <2>4 DEF VerifyBundle
  <2>6. /\ ModelHash(s) = IF s.file_hash # NoHash THEN s.file_hash ELSE s.bundle_sha256
        /\ ModelHash(s) # NoHash
    BY <2>4, SubmissionsAssumption DEF VerifyBundle, ModelHash
  <2> QED
    BY <2>3, <2>4, <2>5, <2>6
<1> QED
  BY <1>1, Registry, PTL

\* sync_with_db of router.py: a process has, for each row it read when it
\* started, that model and not a default of its name, unless it registered
\* another of that name since.
THEOREM RegistrationsPersist == RegistrySpec => []RegistryPersists
<1>1. RegInv => RegistryPersists
  <2> SUFFICES ASSUME RegInv, NEW p \in Processes, NEW s \in started[p]
               PROVE  LET m == ModelInfo(reg[p], s.model_id)
                      IN  /\ \E i \in DOMAIN reg[p] : reg[p][i].id = s.model_id
                          /\ \/ m.provider = s.provider /\ m.model_hash = ModelHash(s)
                             \/ \E t \in registered[p] : t.model_id = s.model_id /\ m = Manifest(t)
    BY DEF RegistryPersists
  <2>1. PICK i \in DOMAIN reg[p] : Stands(reg[p][i], s, registered[p])
    BY DEF RegInv, ProcessInv
  <2>2. reg[p][i].id = s.model_id
    BY <2>1 DEF Stands
  <2>3. PICK k : k = CHOOSE l \in DOMAIN reg[p] : reg[p][l].id = s.model_id
    OBVIOUS
  <2>4. k \in DOMAIN reg[p] /\ reg[p][k].id = s.model_id
    BY <2>2, <2>3
  <2>5. k = i
    BY <2>2, <2>4 DEF RegInv, ProcessInv, Unique
  <2>6. ModelInfo(reg[p], s.model_id) = reg[p][i]
    BY <2>3, <2>5 DEF ModelInfo
  <2> QED
    BY <2>1, <2>2, <2>6, ManifestFields DEF Stands
<1> QED
  BY <1>1, Registry, PTL

\* ModelRouter.route, for any registrations, restarts and needs: it refuses only
\* what no model satisfies, it chooses a model that satisfies and that none beats,
\* and a process that could choose a cloud model shows the hybrid mode.
THEOREM RoutingSound == RegistrySpec => []RoutingIsSound
<1>1. RegInv => RoutingIsSound
  <2> SUFFICES ASSUME RegInv, NEW p \in Processes, NEW need \in Needs
               PROVE  LET fits == {m \in Range(reg[p]) : m.active /\ Satisfies(m, need)}
                          id   == Route(reg[p], need)
                          m    == ModelInfo(reg[p], id)
                      IN  IF fits = {} THEN id = NoModel
                          ELSE /\ m \in fits
                               /\ \A n \in fits : ~Better(n, m)
                               /\ m.provider \in CloudProviders => GetMode(p) = "hybrid"
    BY DEF RoutingIsSound
  <2>1. PICK models, S : models = reg[p] /\ S = Entries
    OBVIOUS
  <2>2. models \in Seq(S) /\ Unique(models)
    BY <2>1 DEF RegInv, ProcessInv
  <2>3. PICK candidates :
          candidates = {i \in DOMAIN models : models[i].active /\ Satisfies(models[i], need)}
    OBVIOUS
  <2>4. PICK fits : fits = {m \in Range(models) : m.active /\ Satisfies(m, need)}
    OBVIOUS
  <2>5. fits = {models[i] : i \in candidates}
    BY <2>3, <2>4 DEF Range
  <2>6. \/ candidates = {} /\ Route(models, need) = NoModel
        \/ \E k \in candidates :
             /\ Route(models, need) = models[k].id
             /\ ModelInfo(models, models[k].id) = models[k]
             /\ \A j \in candidates : ~Better(models[j], models[k])
    BY <2>2, <2>3, RouteChooses
  <2>7. CASE candidates = {} /\ Route(models, need) = NoModel
    BY <2>1, <2>4, <2>5, <2>7
  <2>8. CASE \E k \in candidates :
               /\ Route(models, need) = models[k].id
               /\ ModelInfo(models, models[k].id) = models[k]
               /\ \A j \in candidates : ~Better(models[j], models[k])
    <3>1. PICK k \in candidates :
               /\ Route(models, need) = models[k].id
               /\ ModelInfo(models, models[k].id) = models[k]
               /\ \A j \in candidates : ~Better(models[j], models[k])
      BY <2>8
    <3>2. models[k] \in fits /\ \A n \in fits : ~Better(n, models[k])
      BY <2>5, <3>1
    <3>3. models[k].provider \in CloudProviders => GetMode(p) = "hybrid"
      BY <2>1, <2>3 DEF GetMode
    <3> QED
      BY <2>1, <2>4, <3>1, <3>2, <3>3
  <2> QED
    BY <2>6, <2>7, <2>8
<1> QED
  BY <1>1, Registry, PTL
=============================================================================

------------------------ MODULE VolumeLabelCodec_proofs ------------------------
(***************************************************************************)
(* Proofs about package volumelabel: what the encoder accepts the decoder  *)
(* restores, for every struct type whose fields have keys of their own.    *)
(***************************************************************************)
EXTENDS VolumeLabelCodec, FiniteSetTheorems, TLAPS

-------------------------------------------------------------------------------
(* Operators of the model.                                                   *)

\* The fields are numbered.
LEMMA FieldsAreNumbered == DOMAIN Fields = 1..Len(Fields) /\ Len(Fields) \in Nat
<1>1. Fields \in Seq(Range(Fields))
  BY CodecAssumption
<1> HIDE DEF Range
<1> QED BY <1>1

\* The fields in their order are the fields, each at one place.
LEMMA InOrderIsBijection ==
  ASSUME NEW S \in SUBSET (DOMAIN Fields)
  PROVE  /\ Cardinality(S) \in Nat
         /\ \A k \in DOMAIN InOrder(S) : InOrder(S)[k] \in S
         /\ \A i \in S : \E k \in DOMAIN InOrder(S) : InOrder(S)[k] = i
         /\ \A k, l \in DOMAIN InOrder(S) : InOrder(S)[k] = InOrder(S)[l] => k = l
<1> DEFINE upTo(i) == {j \in S : j <= i}
           rank == [i \in S |-> Cardinality(upTo(i))]
           n == Cardinality(S)
<1>1. S \subseteq Nat /\ IsFiniteSet(S) /\ n \in Nat
  <2>1. DOMAIN Fields = 1..Len(Fields) /\ Len(Fields) \in Nat
    BY FieldsAreNumbered
  <2>2. IsFiniteSet(DOMAIN Fields)
    BY <2>1, FS_Interval
  <2> QED BY <2>1, <2>2, FS_Subset, FS_CardinalityType
<1>2. ASSUME NEW i \in S PROVE IsFiniteSet(upTo(i)) /\ rank[i] \in 1..n
  <2>1. upTo(i) \in SUBSET S /\ i \in upTo(i)
    BY <1>1
  <2>2. IsFiniteSet(upTo(i)) /\ Cardinality(upTo(i)) <= n
    BY <1>1, <2>1, FS_Subset
  <2>3. Cardinality(upTo(i)) \in Nat /\ Cardinality(upTo(i)) # 0
    BY <2>1, <2>2, FS_CardinalityType, FS_EmptySet
  <2> HIDE DEF upTo, n
  <2> QED BY <1>1, <2>2, <2>3
<1>3. ASSUME NEW i \in S, NEW j \in S, i < j PROVE rank[i] # rank[j]
  <2>1. upTo(i) \in SUBSET upTo(j) /\ j \in upTo(j) /\ j \notin upTo(i)
    BY <1>1, <1>3
  <2>2. Cardinality(upTo(i)) # Cardinality(upTo(j))
    <3> HIDE DEF upTo
    <3> QED BY <1>2, <2>1, FS_Subset
  <2> QED BY <2>2
<1>4. \A i, j \in S : rank[i] = rank[j] => i = j
  <2> SUFFICES ASSUME NEW i \in S, NEW j \in S, i # j PROVE rank[i] # rank[j]
    OBVIOUS
  <2>1. i < j \/ j < i
    BY <1>1
  <2> HIDE DEF rank
  <2> QED BY <1>3, <2>1
<1>5. rank \in Injection(S, 1..n)
  <2>1. rank \in [S -> 1..n] /\ DOMAIN rank = S
    BY <1>2
  <2> HIDE DEF rank
  <2> QED BY <1>4, <2>1 DEF Injection, IsInjective
<1>6. rank \in Surjection(S, 1..n)
  <2>1. IsFiniteSet(1..n) /\ Cardinality(1..n) = n
    BY <1>1, FS_Interval
  <2> HIDE DEF rank, n
  <2> QED BY <1>5, <2>1, FS_Injection DEF n
<1>7. ASSUME NEW k \in 1..n
      PROVE  /\ InOrder(S)[k] \in S /\ rank[InOrder(S)[k]] = k
  <2>1. PICK i \in S : rank[i] = k
    <3> HIDE DEF rank, n
    <3> QED BY <1>6 DEF Surjection
  <2>2. InOrder(S)[k] = CHOOSE x \in S : Cardinality({j \in S : j <= x}) = k
    BY DEF InOrder
  <2> QED BY <2>1, <2>2
<1>8. DOMAIN InOrder(S) = 1..n
  BY DEF InOrder
<1>9. ASSUME NEW i \in S PROVE InOrder(S)[rank[i]] = i
  <2> HIDE DEF rank, n
  <2> QED BY <1>2, <1>4, <1>7
<1>10. ASSUME NEW k \in 1..n, NEW l \in 1..n, InOrder(S)[k] = InOrder(S)[l] PROVE k = l
  <2> HIDE DEF rank, n
  <2> QED BY <1>7, <1>10
<1> HIDE DEF rank, n
<1>11. \A i \in S : rank[i] \in 1..n
  BY <1>2
<1> QED BY <1>1, <1>7, <1>8, <1>9, <1>10, <1>11 DEF n

\* Every word that may stand for a value reads as that value, whatever the field
\* held before.
LEMMA WordReadsBack ==
  ASSUME NEW v \in Structs, NEW i \in DOMAIN Fields, v[i] # Nil,
         NEW w \in marshalType(Fields[i].type, v[i]), NEW old
  PROVE  unmarshalType(Fields[i], w, old) = {v[i]}
<1>1. CASE Fields[i].type = "bool"
  <2>1. v[i] \in BOOLEAN /\ w = IF v[i] THEN "true" ELSE "false"
    BY <1>1, StructAssumption DEF marshalType
  <2>2. w \in DOMAIN BoolOf /\ BoolOf[w] = v[i]
    <3>1. v[i] = TRUE \/ v[i] = FALSE
      BY <2>1
    <3>2. CASE v[i] = TRUE
      BY <2>1, <3>2, StrconvAssumption
    <3>3. CASE v[i] = FALSE
      BY <2>1, <3>3, StrconvAssumption
    <3> QED BY <3>1, <3>2, <3>3
  <2>3. unmarshalType(Fields[i], w, old) = {BoolOf[x] : x \in {w} \cap DOMAIN BoolOf}
    BY <1>1 DEF unmarshalType
  <2> QED BY <2>2, <2>3
<1>2. CASE Fields[i].type \in {"int", "uint"}
  <2>1. w = ToString(v[i]) /\ v[i] \in Limits(Fields[i])
    BY <1>2, StructAssumption DEF marshalType
  <2>2. w \in Readable(Fields[i]) /\ IntOf[w] = v[i]
    BY <1>2, <2>1, StrconvAssumption
  <2>3. unmarshalType(Fields[i], w, old) =
          {IntOf[x] : x \in {w} \cap Readable(Fields[i])} \cap Limits(Fields[i])
    BY <1>2 DEF unmarshalType
  <2> QED BY <2>1, <2>2, <2>3
<1>3. CASE Fields[i].type = "string"
  BY <1>3 DEF marshalType, unmarshalType
<1>4. CASE Fields[i].type = "other"
  BY <1>4 DEF marshalType
<1> QED BY <1>1, <1>2, <1>3, <1>4, CodecAssumption

\* A sequence of one element.
LEMMA Singleton == ASSUME NEW x PROVE DOMAIN <<x>> = {1} /\ <<x>>[1] = x
OBVIOUS

\* Texts are numbered, too.
Numbered(t) == \E n \in Nat : DOMAIN t = 1..n

\* The pieces of the text of a struct: one, key.value, for every field present.
PiecesOf(v, t) ==
  /\ Numbered(t)
  /\ \A k \in DOMAIN t :
       \/ t[k][1] = ""
       \/ \E i \in Present(v) : t[k][1] = Fields[i].key
  /\ \A i \in Present(v) : \E k \in DOMAIN t :
       /\ t[k][1] = Fields[i].key
       /\ Len(t[k]) = 2 /\ t[k][2] \in marshalType(Fields[i].type, v[i])
       /\ \A l \in DOMAIN t : t[l][1] = Fields[i].key => l = k

\* The text of a struct has one piece, key.value, for every field present.
LEMMA TextOfStruct ==
  ASSUME NEW v \in Structs, Marshals(v), NEW t, t = MarshalVolumeLabel(v)
  PROVE  PiecesOf(v, t)
<1> DEFINE S == Present(v)
           fields == InOrder(S)
           word(i) == CHOOSE w \in marshalType(Fields[i].type, v[i]) : TRUE
<1>1. S \in SUBSET (DOMAIN Fields)
  BY DEF Present
<1>2. /\ Cardinality(S) \in Nat /\ DOMAIN fields = 1..Cardinality(S)
      /\ \A k \in DOMAIN fields : fields[k] \in S
      /\ \A i \in S : \E k \in DOMAIN fields : fields[k] = i
      /\ \A k, l \in DOMAIN fields : fields[k] = fields[l] => k = l
  <2>1. DOMAIN fields = 1..Cardinality(S)
    BY DEF InOrder
  <2> HIDE DEF S
  <2> QED BY <1>1, <2>1, InOrderIsBijection
<1>3. \A i \in S : word(i) \in marshalType(Fields[i].type, v[i])
  BY DEF Marshals
<1>4. t = IF fields = <<>> THEN <<<<"">>>>
          ELSE [k \in DOMAIN fields |-> <<Fields[fields[k]].key, word(fields[k])>>]
  BY DEF MarshalVolumeLabel
<1> HIDE DEF S, fields, word
<1>5. CASE fields = <<>>
  <2>1. DOMAIN fields = {}
    BY <1>5
  <2>2. S = {}
    BY <1>2, <2>1
  <2>3. t = <<<<"">>>>
    BY <1>4, <1>5
  <2>4. DOMAIN t = {1} /\ t[1] = <<"">>
    BY <2>3, Singleton, Zenon
  <2>5. <<"">>[1] = ""
    BY Singleton, Zenon
  <2>6. t[1][1] = ""
    BY <2>4, <2>5, Zenon
  <2>7. Numbered(t)
    <3>1. DOMAIN t = {1}
      BY <2>4, Zenon
    <3>2. {1} = 1..1
      OBVIOUS
    <3> QED BY <3>1, <3>2 DEF Numbered
  <2>8. \A k \in DOMAIN t : t[k][1] = ""
    BY <2>4, <2>6
  <2> QED BY <2>2, <2>7, <2>8 DEF S, PiecesOf
<1>6. CASE fields # <<>>
  <2>1. t = [k \in DOMAIN fields |-> <<Fields[fields[k]].key, word(fields[k])>>]
    BY <1>4, <1>6
  <2>2. ASSUME NEW k \in DOMAIN t
        PROVE  /\ fields[k] \in S /\ t[k][1] = Fields[fields[k]].key
               /\ Len(t[k]) = 2 /\ t[k][2] = word(fields[k])
    BY <1>2, <2>1
  <2>3. ASSUME NEW i \in S, NEW j \in S, Fields[i].key = Fields[j].key PROVE i = j
    BY <1>1, <2>3, StructAssumption
  <2>4. ASSUME NEW i \in S
        PROVE  \E k \in DOMAIN t :
                 /\ t[k][1] = Fields[i].key
                 /\ Len(t[k]) = 2 /\ t[k][2] \in marshalType(Fields[i].type, v[i])
                 /\ \A l \in DOMAIN t : t[l][1] = Fields[i].key => l = k
    <3>1. PICK k \in DOMAIN t : fields[k] = i
      BY <1>2, <2>1
    <3>2. ASSUME NEW l \in DOMAIN t, t[l][1] = Fields[i].key PROVE l = k
      <4>1. fields[l] = i
        BY <2>2, <2>3, <3>2
      <4> QED BY <1>2, <2>1, <3>1, <4>1
    <3> QED BY <1>3, <2>2, <3>1, <3>2
  <2>5. Numbered(t)
    BY <1>2, <2>1 DEF Numbered
  <2>6. \A k \in DOMAIN t : \E i \in S : t[k][1] = Fields[i].key
    BY <2>2
  <2> QED BY <2>4, <2>5, <2>6 DEF S, PiecesOf
<1> QED BY <1>5, <1>6

-------------------------------------------------------------------------------
(* The decoder.                                                              *)

\* What the decoder knows of the struct once it has split its text.
HasWords(v) == \A i \in DOMAIN Fields :
  IF v[i] = Nil THEN Fields[i].key \notin DOMAIN raw
  ELSE /\ Fields[i].key \in DOMAIN raw
       /\ raw[Fields[i].key] \in marshalType(Fields[i].type, v[i])

\* The inductive invariant: the fields visited are restored, and the others are
\* nil where the struct has them nil.
Restoring == source # Nil =>
  /\ source \in Structs /\ ~err
  /\ field \in 0..(Len(Fields) + 1)
  /\ target = [i \in DOMAIN Fields |-> target[i]]
  /\ \A i \in DOMAIN Fields : IF i < field THEN target[i] = source[i]
                              ELSE source[i] = Nil => target[i] = Nil
  /\ IF field = 0 THEN Marshals(source) /\ text = MarshalVolumeLabel(source)
     ELSE HasWords(source)

\* It holds at the start.
LEMMA RestoringInit == Init => Restoring
<1> SUFFICES ASSUME Init, source # Nil PROVE Restoring
  BY DEF Restoring
<1>1. /\ source \in Structs /\ Marshals(source) /\ text = MarshalVolumeLabel(source)
      /\ ~err /\ field = 0
      /\ target = [i \in DOMAIN Fields |-> Fresh(i)]
  BY DEF Init
<1>2. Len(Fields) \in Nat /\ DOMAIN Fields = 1..Len(Fields)
  BY FieldsAreNumbered
<1>3. \A i \in DOMAIN Fields : ~(i < 0)
  BY <1>2
<1>4. \A i \in DOMAIN Fields : source[i] = Nil => target[i] = Nil
  BY <1>1, StructAssumption DEF Fresh, Zero
<1>5. target = [i \in DOMAIN Fields |-> target[i]]
  BY <1>1
<1> QED BY <1>1, <1>2, <1>3, <1>4, <1>5 DEF Restoring

\* Splitting the text gives every field present its own word, and no other one.
LEMMA SplitStep == ASSUME Restoring, Split PROVE Restoring'
<1> SUFFICES ASSUME source # Nil PROVE Restoring'
  BY DEF Restoring, Split
<1>1. /\ source \in Structs /\ Marshals(source) /\ text = MarshalVolumeLabel(source)
      /\ ~err /\ field = 0 /\ Len(Fields) \in Nat /\ DOMAIN Fields = 1..Len(Fields)
  BY FieldsAreNumbered DEF Restoring, Split
<1>2. /\ DOMAIN raw' = {text[k][1] : k \in DOMAIN text}
      /\ \A k \in DOMAIN text : raw'[text[k][1]] = ValueOf(text[LastWith(text[k][1])])
  BY DEF Split
<1>3. PiecesOf(source, text)
  BY <1>1, TextOfStruct
<1>4. ASSUME NEW i \in DOMAIN Fields, source[i] = Nil
      PROVE  Fields[i].key \notin DOMAIN raw'
  <2>1. \A j \in Present(source) : j \in DOMAIN Fields /\ j # i
    BY <1>4 DEF Present
  <2>2. Fields[i].key # "" /\ \A j \in DOMAIN Fields : Fields[j].key = Fields[i].key => j = i
    BY <1>1, StructAssumption
  <2>3. \A k \in DOMAIN text : text[k][1] # Fields[i].key
    BY <1>3, <2>1, <2>2 DEF PiecesOf
  <2> QED BY <1>2, <2>3
<1>5. ASSUME NEW i \in DOMAIN Fields, source[i] # Nil
      PROVE  /\ Fields[i].key \in DOMAIN raw'
             /\ raw'[Fields[i].key] \in marshalType(Fields[i].type, source[i])
  <2> DEFINE key == Fields[i].key
  <2>1. PICK k \in DOMAIN text :
          /\ text[k][1] = key
          /\ Len(text[k]) = 2 /\ text[k][2] \in marshalType(Fields[i].type, source[i])
          /\ \A l \in DOMAIN text : text[l][1] = key => l = k
    BY <1>3, <1>5 DEF PiecesOf, Present
  <2>2. /\ text[k][1] = key /\ \A l \in DOMAIN text : text[l][1] = key => l <= k
    <3>1. k \in Nat
      <4>1. Numbered(text)
        BY <1>3 DEF PiecesOf
      <4> QED BY <4>1 DEF Numbered
    <3>2. k <= k
      BY <3>1
    <3> QED BY <2>1, <3>2
  <2>3. LastWith(key) = k
    BY <2>1, <2>2 DEF LastWith
  <2> QED BY <1>2, <2>1, <2>3 DEF ValueOf
<1>6. HasWords(source)'
  BY <1>4, <1>5 DEF HasWords, Split
<1>7. /\ field' = 1 /\ UNCHANGED <<source, target, err>>
      /\ \A i \in DOMAIN Fields : ~(i < 1)
  BY <1>1 DEF Split
<1> QED BY <1>1, <1>6, <1>7 DEF Restoring

\* A visit restores one field.
LEMMA FieldStep == ASSUME Restoring, Field PROVE Restoring'
<1> SUFFICES ASSUME source # Nil PROVE Restoring'
  BY DEF Restoring, Field
<1> DEFINE f == Fields[field]
           old == IF f.ptr THEN Zero(f.type) ELSE target[field]
           values == unmarshalType(f, raw[f.key], old)
<1>1. /\ field \in DOMAIN Fields /\ Len(Fields) \in Nat /\ DOMAIN Fields = 1..Len(Fields)
      /\ UNCHANGED <<source, text, raw>>
  BY FieldsAreNumbered DEF Field
<1>2. /\ source \in Structs /\ ~err /\ HasWords(source) /\ field # 0
      /\ target = [i \in DOMAIN Fields |-> target[i]]
      /\ \A i \in DOMAIN Fields : IF i < field THEN target[i] = source[i]
                                  ELSE source[i] = Nil => target[i] = Nil
  BY <1>1 DEF Restoring
<1>3. HasWords(source)'
  BY <1>1, <1>2 DEF HasWords
<1>4. /\ field' = field + 1 /\ UNCHANGED err
      /\ target' = [target EXCEPT ![field] = source[field]]
  <2>1. CASE source[field] = Nil
    <3>1. f.key \notin DOMAIN raw
      BY <1>1, <1>2, <2>1 DEF HasWords
    <3>2. field' = field + 1 /\ UNCHANGED <<target, err>>
      BY <3>1 DEF Field
    <3>3. target[field] = source[field]
      BY <1>1, <1>2, <2>1
    <3> QED BY <1>1, <1>2, <3>2, <3>3
  <2>2. CASE source[field] # Nil
    <3>1. f.key \in DOMAIN raw /\ raw[f.key] \in marshalType(f.type, source[field])
      BY <1>1, <1>2, <2>2 DEF HasWords
    <3>2. values = {source[field]}
      <4> HIDE DEF old
      <4> QED BY <1>1, <1>2, <2>2, <3>1, WordReadsBack
    <3>3. \/ /\ \E v \in values : target' = [target EXCEPT ![field] = v]
             /\ field' = field + 1 /\ UNCHANGED err
          \/ values = {}
      BY <3>1 DEF Field
    <3> HIDE DEF values
    <3> QED BY <3>2, <3>3
  <2> QED BY <2>1, <2>2
<1>5. /\ target' = [i \in DOMAIN Fields |-> target'[i]]
      /\ \A i \in DOMAIN Fields : IF i < field' THEN target'[i] = source[i]
                                  ELSE source[i] = Nil => target'[i] = Nil
  <2>1. /\ target' = [i \in DOMAIN Fields |-> target'[i]]
        /\ target'[field] = source[field]
        /\ \A i \in DOMAIN Fields : i # field => target'[i] = target[i]
    BY <1>1, <1>2, <1>4
  <2>2. \A i \in DOMAIN Fields : i < field' <=> i < field \/ i = field
    BY <1>1, <1>4
  <2> QED BY <1>1, <1>2, <2>1, <2>2
<1> QED BY <1>1, <1>2, <1>3, <1>4, <1>5 DEF Restoring

\* Every step keeps the invariant.
LEMMA RestoringStep == ASSUME Restoring, [Next]_vars PROVE Restoring'
<1>1. CASE UNCHANGED vars
  BY <1>1 DEF vars, Restoring, HasWords
<1> QED BY <1>1, SplitStep, FieldStep DEF Next

\* Whatever the fields and their values, a struct that can be encoded is what the
\* decoder makes of its text (MarshalVolumeLabel, UnmarshalVolumeLabel), as long
\* as the fields have different keys.
THEOREM StructsRoundTrip == Spec => []RoundTrip
<1>1. Restoring => RoundTrip
  <2> SUFFICES ASSUME Restoring, Returned, source # Nil PROVE ~err /\ target = source
    BY DEF RoundTrip
  <2>1. /\ source \in Structs /\ ~err /\ field = Len(Fields) + 1
        /\ target = [i \in DOMAIN Fields |-> target[i]]
        /\ \A i \in DOMAIN Fields : i < field => target[i] = source[i]
    BY DEF Restoring, Returned
  <2>2. \A i \in DOMAIN Fields : i < field
    BY <2>1, FieldsAreNumbered
  <2>3. source = [i \in DOMAIN Fields |-> source[i]]
    BY <2>1, StructAssumption
  <2> QED BY <2>1, <2>2, <2>3
<1> QED BY <1>1, RestoringInit, RestoringStep, PTL DEF Spec

-------------------------------------------------------------------------------
(* Texts that are typed in.                                                  *)

\* Numbers up to a limit have a greatest one among them.
LEMMA GreatestOf ==
  ASSUME NEW n \in Nat, NEW S \in SUBSET (1..n), S # {}
  PROVE  \E x \in S : \A y \in S : y <= x
<1> DEFINE T == {x..n : x \in S}
<1>1. T \subseteq FiniteSubsetsOf(Nat) /\ T # {}
  <2>1. \A x \in S : IsFiniteSet(x..n) /\ x..n \subseteq Nat
    BY FS_Interval
  <2> QED BY <2>1 DEF FiniteSubsetsOf
<1>2. PICK t \in T : \A u \in T : ~ (<<u, t>> \in StrictSubsetOrdering(Nat))
  <2> HIDE DEF T
  <2> QED BY <1>1, FS_StrictSubsetOrderingWellFounded, WFMin, Zenon
<1>3. PICK x \in S : t = x..n
  OBVIOUS
<1>4. ASSUME NEW y \in S PROVE y <= x
  <2>1. SUFFICES ASSUME x < y PROVE FALSE
    OBVIOUS
  <2>2. y..n \in SUBSET Nat /\ x..n \in SUBSET Nat /\ y..n \subseteq x..n /\ y..n # x..n
    <3>1. x \in x..n /\ x \notin y..n
      BY <2>1
    <3> QED BY <3>1, <2>1
  <2>3. <<y..n, x..n>> \in StrictSubsetOrdering(Nat)
    BY <2>2 DEF StrictSubsetOrdering
  <2>4. y..n \in T
    OBVIOUS
  <2>5. ~ (<<y..n, x..n>> \in StrictSubsetOrdering(Nat))
    <3> HIDE DEF T
    <3> QED BY <1>2, <1>3, <2>4, Zenon
  <2> QED BY <2>3, <2>5, Zenon
<1> QED BY <1>4

\* LastWith finds the piece that decides.
LEMMA LastDecides ==
  ASSUME Numbered(text), NEW i \in DOMAIN Fields,
         NEW k \in DOMAIN text, text[k][1] = Fields[i].key
  PROVE  LastWith(Fields[i].key) \in DOMAIN text /\ Decides(LastWith(Fields[i].key), i)
<1> DEFINE key == Fields[i].key
           S == {l \in DOMAIN text : text[l][1] = key}
<1>1. PICK n \in Nat : DOMAIN text = 1..n
  BY DEF Numbered
<1>2. PICK m \in S : \A l \in S : l <= m
  <2>1. S \in SUBSET (1..n) /\ S # {}
    BY <1>1
  <2> HIDE DEF S
  <2> QED BY <2>1, GreatestOf
<1>3. \E m1 \in DOMAIN text :
        text[m1][1] = key /\ \A l \in DOMAIN text : text[l][1] = key => l <= m1
  BY <1>2
<1>4. /\ LastWith(key) \in DOMAIN text /\ text[LastWith(key)][1] = key
      /\ \A l \in DOMAIN text : text[l][1] = key => l <= LastWith(key)
  <2> HIDE DEF key
  <2> QED BY <1>3 DEF LastWith
<1>5. ASSUME NEW l \in DOMAIN text, l > LastWith(key) PROVE text[l][1] # key
  BY <1>1, <1>4, <1>5
<1> QED BY <1>4, <1>5 DEF Decides

\* At most one piece decides a field.
LEMMA OneDecides ==
  ASSUME Numbered(text), NEW i \in DOMAIN Fields,
         NEW k \in DOMAIN text, NEW l \in DOMAIN text, Decides(k, i), Decides(l, i)
  PROVE  k = l
<1>1. k \in Nat /\ l \in Nat
  BY DEF Numbered
<1> QED BY <1>1 DEF Decides

\* What the decoder knows of the text once it has split it.
HasSettings == \A i \in DOMAIN Fields :
  IF Fields[i].key \in DOMAIN raw
  THEN \E k \in DOMAIN text : Decides(k, i) /\ raw[Fields[i].key] = ValueOf(text[k])
  ELSE \A k \in DOMAIN text : text[k][1] # Fields[i].key

\* Field i is as the text has it.
Applied(i) ==
  \/ target[i] = Fresh(i) /\ \A k \in DOMAIN text : text[k][1] # Fields[i].key
  \/ \E k \in DOMAIN text : Decides(k, i) /\ target[i] \in Reading(k, i)

\* The text has a setting for field i that cannot be read.
Refused(i) == \E k \in DOMAIN text : Decides(k, i) /\ Reading(k, i) = {}

\* The inductive invariant: the fields visited are as the text has them, and the
\* others are untouched up to an error.
Applying ==
  /\ Numbered(text) /\ field \in 0..(Len(Fields) + 1)
  /\ target = [i \in DOMAIN Fields |-> target[i]]
  /\ field # 0 => HasSettings
  /\ \A i \in DOMAIN Fields : IF i < field THEN Applied(i)
                              ELSE ~err => target[i] = Fresh(i)
  /\ err => \E i \in DOMAIN Fields : Refused(i)

\* It holds at the start.
LEMMA ApplyingInit == Init => Applying
<1> SUFFICES ASSUME Init PROVE Applying
  OBVIOUS
<1>1. Numbered(text)
  <2>1. CASE text \in Texts
    <3>1. text \in Seq(Range(text))
      BY <2>1, CodecAssumption
    <3>2. DOMAIN text = 1..Len(text) /\ Len(text) \in Nat
      <4> HIDE DEF Range
      <4> QED BY <3>1
    <3> QED BY <3>2 DEF Numbered
  <2>2. CASE source \in Structs /\ Marshals(source) /\ text = MarshalVolumeLabel(source)
    <3>1. PiecesOf(source, text)
      BY <2>2, TextOfStruct
    <3> QED BY <3>1 DEF PiecesOf
  <2> QED BY <2>1, <2>2 DEF Init
<1>2. field = 0 /\ ~err /\ target = [i \in DOMAIN Fields |-> Fresh(i)]
  BY DEF Init
<1>3. Len(Fields) \in Nat /\ DOMAIN Fields = 1..Len(Fields)
  BY FieldsAreNumbered
<1>4. \A i \in DOMAIN Fields : ~(i < field) /\ target[i] = Fresh(i)
  BY <1>2, <1>3
<1> QED BY <1>1, <1>2, <1>3, <1>4 DEF Applying

\* Splitting the text leaves of every key its last value.
LEMMA SplitApplies == ASSUME Applying, Split PROVE Applying'
<1>1. /\ field = 0 /\ field' = 1 /\ UNCHANGED <<source, text, target, err>>
      /\ DOMAIN raw' = {text[k][1] : k \in DOMAIN text}
      /\ \A k \in DOMAIN text : raw'[text[k][1]] = ValueOf(text[LastWith(text[k][1])])
  BY DEF Split
<1>2. /\ Numbered(text) /\ target = [i \in DOMAIN Fields |-> target[i]]
      /\ Len(Fields) \in Nat /\ DOMAIN Fields = 1..Len(Fields)
  BY FieldsAreNumbered DEF Applying
<1>3. ASSUME NEW i \in DOMAIN Fields, Fields[i].key \in DOMAIN raw'
      PROVE  \E k \in DOMAIN text : Decides(k, i) /\ raw'[Fields[i].key] = ValueOf(text[k])
  <2>1. PICK k \in DOMAIN text : text[k][1] = Fields[i].key
    BY <1>1, <1>3
  <2>2. raw'[Fields[i].key] = ValueOf(text[LastWith(Fields[i].key)])
    BY <1>1, <2>1
  <2> QED BY <1>2, <2>1, <2>2, LastDecides
<1>4. ASSUME NEW i \in DOMAIN Fields, Fields[i].key \notin DOMAIN raw'
      PROVE  \A k \in DOMAIN text : text[k][1] # Fields[i].key
  BY <1>1, <1>4
<1>5. HasSettings'
  BY <1>1, <1>3, <1>4 DEF HasSettings, Decides
<1>6. \A i \in DOMAIN Fields : ~(i < 1) /\ (~err => target[i] = Fresh(i))
  BY <1>1, <1>2 DEF Applying
<1>7. (err => \E i \in DOMAIN Fields : Refused(i))'
  BY <1>1 DEF Applying, Refused, Decides, Reading
<1>8. Numbered(text)' /\ (target = [i \in DOMAIN Fields |-> target[i]])'
  BY <1>1, <1>2 DEF Numbered
<1>9. \A i \in DOMAIN Fields : (IF i < field THEN Applied(i) ELSE ~err => target[i] = Fresh(i))'
  BY <1>1, <1>6
<1>10. (field \in 0..(Len(Fields) + 1))'
  BY <1>1, <1>2
<1> QED BY <1>5, <1>7, <1>8, <1>9, <1>10 DEF Applying

\* A visit applies the setting of one field.
LEMMA FieldApplies == ASSUME Applying, Field PROVE Applying'
<1> DEFINE f == Fields[field]
           old == IF f.ptr THEN Zero(f.type) ELSE target[field]
           values == unmarshalType(f, raw[f.key], old)
<1>1. /\ field \in DOMAIN Fields /\ ~err /\ UNCHANGED <<source, text, raw>>
      /\ Len(Fields) \in Nat /\ DOMAIN Fields = 1..Len(Fields)
  BY FieldsAreNumbered DEF Field
<1>2. /\ Numbered(text) /\ HasSettings /\ target = [i \in DOMAIN Fields |-> target[i]]
      /\ \A i \in DOMAIN Fields : IF i < field THEN Applied(i) ELSE target[i] = Fresh(i)
  BY <1>1 DEF Applying
<1>3. old = Zero(f.type)
  BY <1>1, <1>2 DEF Fresh
<1>4. Numbered(text)' /\ HasSettings'
  BY <1>1, <1>2 DEF Numbered, HasSettings, Decides
<1>5. ASSUME NEW i \in DOMAIN Fields, Applied(i), target'[i] = target[i] PROVE Applied(i)'
  BY <1>1, <1>5 DEF Applied, Decides, Reading
<1>6. CASE f.key \notin DOMAIN raw
  <2>1. field' = field + 1 /\ UNCHANGED <<target, err>>
    BY <1>6 DEF Field
  <2>2. Applied(field)
    BY <1>1, <1>2, <1>6 DEF Applied, HasSettings
  <2>3. ASSUME NEW i \in DOMAIN Fields
        PROVE  (IF i < field THEN Applied(i) ELSE ~err => target[i] = Fresh(i))'
    <3>1. CASE i < field \/ i = field
      BY <1>1, <1>2, <1>5, <2>1, <2>2, <3>1
    <3>2. CASE ~(i < field \/ i = field)
      BY <1>1, <1>2, <2>1, <3>2
    <3> QED BY <3>1, <3>2
  <2> QED BY <1>1, <1>2, <1>4, <2>1, <2>3 DEF Applying
<1>7. CASE f.key \in DOMAIN raw
  <2>1. PICK k \in DOMAIN text : Decides(k, field) /\ raw[f.key] = ValueOf(text[k])
    BY <1>1, <1>2, <1>7 DEF HasSettings
  <2>2. values = Reading(k, field)
    BY <1>3, <2>1 DEF Reading
  <2>3. CASE /\ \E v \in values : target' = [target EXCEPT ![field] = v]
             /\ field' = field + 1 /\ UNCHANGED err
    <3>1. PICK v \in Reading(k, field) : target' = [target EXCEPT ![field] = v]
      BY <2>2, <2>3
    <3>2. /\ target' = [i \in DOMAIN Fields |-> target'[i]] /\ target'[field] = v
          /\ \A i \in DOMAIN Fields : i # field => target'[i] = target[i]
      BY <1>1, <1>2, <3>1
    <3>3. ASSUME NEW i \in DOMAIN Fields, i = field PROVE Applied(i)'
      <4>1. Decides(k, i)' /\ Reading(k, i)' = Reading(k, i)
        BY <1>1, <2>1, <3>3 DEF Decides, Reading
      <4> QED BY <1>1, <3>1, <3>2, <3>3, <4>1 DEF Applied
    <3>4. ASSUME NEW i \in DOMAIN Fields
          PROVE  (IF i < field THEN Applied(i) ELSE ~err => target[i] = Fresh(i))'
      <4>1. CASE i < field
        BY <1>1, <1>2, <1>5, <2>3, <3>2, <4>1
      <4>2. CASE i = field
        BY <1>1, <2>3, <3>3, <4>2
      <4>3. CASE ~(i < field \/ i = field)
        BY <1>1, <1>2, <2>3, <3>2, <4>3
      <4> QED BY <4>1, <4>2, <4>3
    <3> QED BY <1>1, <1>2, <1>4, <2>3, <3>2, <3>4 DEF Applying
  <2>4. CASE /\ values = {} /\ UNCHANGED field
             /\ target' = [target EXCEPT ![field] = old] /\ err' = TRUE
    <3>1. /\ target' = [i \in DOMAIN Fields |-> target'[i]]
          /\ \A i \in DOMAIN Fields : i # field => target'[i] = target[i]
      BY <1>1, <1>2, <2>4
    <3>2. Refused(field)'
      BY <1>1, <2>1, <2>2, <2>4 DEF Refused, Decides, Reading
    <3>3. ASSUME NEW i \in DOMAIN Fields
          PROVE  (IF i < field THEN Applied(i) ELSE ~err => target[i] = Fresh(i))'
      <4>1. CASE i < field
        <5>1. target'[i] = target[i] /\ Applied(i)
          BY <1>1, <1>2, <3>1, <4>1
        <5> QED BY <1>5, <2>4, <4>1, <5>1
      <4> QED BY <2>4, <4>1
    <3> QED BY <1>1, <1>2, <1>4, <2>4, <3>1, <3>2, <3>3 DEF Applying
  <2> QED BY <1>7, <2>3, <2>4 DEF Field
<1> QED BY <1>6, <1>7

\* Every step keeps the invariant.
LEMMA ApplyingStep == ASSUME Applying, [Next]_vars PROVE Applying'
<1>1. CASE UNCHANGED vars
  BY <1>1 DEF vars, Applying, Numbered, HasSettings, Applied, Refused, Decides, Reading
<1> QED BY <1>1, SplitApplies, FieldApplies DEF Next

\* What a text does to a struct does not depend on where its settings stand, and
\* no error in a setting that counts is missed, whatever the fields and whatever
\* is typed in (UnmarshalVolumeLabel).
THEOREM SettingsTakeEffect == Spec => []SettingsApply
<1>1. Applying => SettingsApply
  <2> SUFFICES ASSUME Applying, Returned PROVE SettingsApply
    BY DEF SettingsApply
  <2>1. CASE err
    BY <2>1 DEF Applying, Refused, SettingsApply
  <2>2. CASE ~err
    <3>1. \A i \in DOMAIN Fields : i < field
      BY <2>2, FieldsAreNumbered DEF Returned
    <3>2. \A i \in DOMAIN Fields : Applied(i)
      BY <3>1 DEF Applying
    <3>3. ASSUME NEW i \in DOMAIN Fields, NEW k \in DOMAIN text, Decides(k, i)
          PROVE  Reading(k, i) # {}
      <4>1. PICK l \in DOMAIN text : Decides(l, i) /\ target[i] \in Reading(l, i)
        BY <3>2, <3>3 DEF Applied, Decides
      <4>2. k = l
        BY <3>3, <4>1, OneDecides DEF Applying
      <4> QED BY <4>1, <4>2
    <3> QED BY <2>2, <3>2, <3>3 DEF Applied, SettingsApply
  <2> QED BY <2>1, <2>2
<1> QED BY <1>1, ApplyingInit, ApplyingStep, PTL DEF Spec

===============================================================================

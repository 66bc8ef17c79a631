------------------------ MODULE SubjectAltNameProofs ------------------------
(***************************************************************************)
(* Proofs about the names of a certificate: that the reader of an          *)
(* extension finds what the issuer wrote, entry by entry, and that the     *)
(* match on bytes is the match on labels.                                  *)
(***************************************************************************)
EXTENDS SubjectAltName, Induction, SequenceTheorems

(* Recursion along a sequence, of the three kinds there are here. *)

LEMMA Sizes ==
  /\ Half \in Nat /\ Half > 5 /\ Base = 2 * Half /\ Base \in Nat
  /\ Word \in Nat /\ Word > 0
  /\ Byte \subseteq Nat
<1>1. /\ Half \in Nat /\ Half > 5 /\ Base = 2 * Half /\ Base \in Nat
      /\ Word \in Nat /\ Word >= Base * Base * Base * Base
  BY SanAssumption DEF Base, MaxOctets
<1>2. \A x, y \in Nat : x > 0 /\ y > 0 => x * y \in Nat /\ x * y > 0
  OBVIOUS
<1>3. /\ Base * Base \in Nat /\ Base * Base > 0
      /\ Base * Base * Base \in Nat /\ Base * Base * Base > 0
      /\ Base * Base * Base * Base \in Nat /\ Base * Base * Base * Base > 0
  BY <1>1, <1>2
<1>4. \A x \in Nat : x > 0 /\ Word >= x => Word > 0
  BY <1>1
<1>5. QED
  BY <1>1, <1>3, <1>4 DEF Byte

LEMMA ShiftedIsNumber == \A v, x \in Nat : (v * Base + x) % Word \in Nat
<1>1. \A v \in Nat : v * Base \in Nat
  BY Sizes
<1>2. \A x, y \in Nat : (x + y) % Word \in Nat
  BY Sizes
<1>3. QED
  BY <1>1, <1>2, Zenon

(* Each octet shifts those before it. *)
Shifted(v, octet) == (v * Base + octet) % Word
BigEndianSteps(octets) ==
  [i \in 1 .. Len(octets) |-> [v \in Nat |-> Shifted(v, octets[i])]]

LEMMA BigEndianBySteps ==
  ASSUME NEW octets \in Seq(Nat)
  PROVE  \E f : /\ Steps(f, Len(octets), Nat, 0, BigEndianSteps(octets))
                /\ BigEndian(octets) = f[Len(octets)]
<1> DEFINE N == Len(octets)
           Rec(f) == [i \in 0 .. N |->
                        IF i = 0 THEN 0 ELSE Shifted(f[i - 1], octets[i])]
           upTo == CHOOSE f : f = Rec(f)
           g == BigEndianSteps(octets)
           V == Nat
<1>1. N \in Nat /\ 0 \in V /\ \A i \in 1 .. N : octets[i] \in Nat
  OBVIOUS
<1>2. BigEndian(octets) = upTo[N]
  BY Zenon DEF BigEndian, Shifted
<1>3. \A v \in V, i \in 1 .. N : Shifted(v, octets[i]) \in V
  BY <1>1, ShiftedIsNumber DEF Shifted
<1>4. \A v \in V, i \in 1 .. N : g[i][v] = Shifted(v, octets[i])
  BY DEF BigEndianSteps
<1> HIDE DEF N, V
<1>5. g \in [1 .. N -> [V -> V]]
  BY <1>3 DEF BigEndianSteps, N, V
<1>6. PICK f : Steps(f, N, V, 0, g)
  BY <1>1, <1>5, StepsExist
<1> HIDE DEF g
<1>7. f = Rec(f)
  <2>1. f = [i \in 0 .. N |-> f[i]] /\ f[0] = 0
    BY <1>6 DEF Steps
  <2>2. ASSUME NEW i \in 1 .. N PROVE f[i] = Shifted(f[i - 1], octets[i])
    <3>1. i - 1 \in 0 .. N
      BY <1>1
    <3>2. f[i - 1] \in V
      BY <1>6, <3>1 DEF Steps
    <3>3. QED
      BY <1>4, <1>6, <3>2 DEF Steps
  <2>3. ASSUME NEW i \in 0 .. N PROVE f[i] = Rec(f)[i]
    <3>1. CASE i = 0
      BY <1>1, <2>1, <3>1
    <3>2. CASE i # 0
      BY <1>1, <2>2, <3>2
    <3>3. QED
      BY <3>1, <3>2
  <2>4. QED
    BY <2>1, <2>3
<1>8. upTo = Rec(upTo)
  <2> HIDE DEF Rec
  <2>1. QED
    BY <1>7, Zenon
<1> HIDE DEF upTo
<1>9. Steps(upTo, N, V, 0, g)
  <2>1. upTo = [i \in 0 .. N |-> upTo[i]] /\ upTo[0] = 0
    BY <1>1, <1>8
  <2>2. \A i \in 1 .. N : upTo[i - 1] \in V => upTo[i] = g[i][upTo[i - 1]]
    BY <1>1, <1>4, <1>8
  <2>3. QED
    BY <1>1, <1>5, <2>1, <2>2, StepsOnly
<1>10. QED
  BY <1>2, <1>9 DEF g, N, V

(* One more octet. *)
LEMMA BigEndianOfAppend ==
  /\ BigEndian(<<>>) = 0
  /\ \A octets \in Seq(Nat) : BigEndian(octets) \in Nat
  /\ \A octets \in Seq(Nat), x \in Nat : BigEndian(Append(octets, x)) = Shifted(BigEndian(octets), x)
<1>1. BigEndian(<<>>) = 0
  <2>1. <<>> \in Seq(Nat) /\ Len(<<>>) = 0
    OBVIOUS
  <2>2. QED
    BY <2>1, BigEndianBySteps DEF Steps
<1>2. ASSUME NEW octets \in Seq(Nat), NEW x \in Nat
      PROVE  BigEndian(Append(octets, x)) = Shifted(BigEndian(octets), x)
  <2> DEFINE N == Len(octets)
             M == N + 1
             V == Nat
             none == 0
             more == Append(octets, x)
             g == BigEndianSteps(octets)
             k == BigEndianSteps(more)
  <2>1. /\ N \in Nat /\ more \in Seq(Nat) /\ Len(more) = M
        /\ \A i \in 1 .. N : more[i] = octets[i]
        /\ more[M] = x
    OBVIOUS
  <2> HIDE DEF more
  <2>2. PICK f : Steps(f, N, V, none, g) /\ BigEndian(octets) = f[N]
    BY BigEndianBySteps
  <2>3. PICK h : Steps(h, M, V, none, k) /\ BigEndian(more) = h[M]
    BY <2>1, BigEndianBySteps
  <2>4. \A i \in 1 .. N, v \in V : g[i][v] = k[i][v]
    BY <2>1 DEF BigEndianSteps
  <2>5. \A v \in V : k[M][v] = Shifted(v, more[M])
    BY <2>1 DEF BigEndianSteps
  <2>6. Steps(f, N, V, none, g) /\ Steps(h, M, V, none, k)
    BY <2>2, <2>3
  <2>7. N \in Nat /\ M \in Nat /\ N < M /\ M <= N + 1
    BY <2>1
  <2> HIDE DEF N, M, V, none, g, k
  <2>8. f[N] \in V /\ h[M] = k[M][f[N]]
    BY <2>4, <2>6, <2>7, OneMoreStep
  <2>9. h[M] = Shifted(f[N], more[M])
    BY <2>5, <2>8
  <2>10. QED
    BY <2>1, <2>2, <2>3, <2>8, <2>9 DEF more, V, N, M
<1>3. ASSUME NEW octets \in Seq(Nat) PROVE BigEndian(octets) \in Nat
  <2>1. PICK f : /\ Steps(f, Len(octets), Nat, 0, BigEndianSteps(octets))
                 /\ BigEndian(octets) = f[Len(octets)]
    BY BigEndianBySteps
  <2>2. Len(octets) \in 0 .. Len(octets)
    OBVIOUS
  <2>3. QED
    BY <2>1, <2>2 DEF Steps
<1>4. QED
  BY <1>1, <1>2, <1>3

(* The labels of a name. *)
LEMMA LabelledIsBytes ==
  ASSUME NEW labels \in Seq(Label), NEW v \in Seq(Byte), NEW i \in 1 .. Len(labels)
  PROVE  (IF i = 1 THEN labels[1] ELSE v \o <<Dot>> \o labels[i]) \in Seq(Byte)
<1>1. labels[i] \in Seq(Byte) /\ <<Dot>> \in Seq(Byte)
  BY SanAssumption DEF Label
<1>2. v \o <<Dot>> \in Seq(Byte)
  BY <1>1, ConcatProperties
<1>3. QED
  BY <1>1, <1>2, ConcatProperties

(* After the first label each follows a dot. *)
Labelled(v, i, labels) == IF i = 1 THEN labels[1] ELSE v \o <<Dot>> \o labels[i]
JoinSteps(labels) ==
  [i \in 1 .. Len(labels) |-> [v \in Seq(Byte) |-> Labelled(v, i, labels)]]

LEMMA JoinBySteps ==
  ASSUME NEW labels \in Seq(Label)
  PROVE  \E f : /\ Steps(f, Len(labels), Seq(Byte), <<>>, JoinSteps(labels))
                /\ Join(labels) = f[Len(labels)]
<1> DEFINE N == Len(labels)
           Rec(f) == [i \in 0 .. N |->
                        IF i = 0 THEN <<>> ELSE Labelled(f[i - 1], i, labels)]
           upTo == CHOOSE f : f = Rec(f)
           g == JoinSteps(labels)
           V == Seq(Byte)
<1>1. N \in Nat /\ <<>> \in V /\ \A i \in 1 .. N : labels[i] \in Label
  OBVIOUS
<1>2. Join(labels) = upTo[N]
  BY Zenon DEF Join, Labelled
<1>3. \A v \in V, i \in 1 .. N : Labelled(v, i, labels) \in V
  BY <1>1, LabelledIsBytes DEF Labelled, N, V
<1>4. \A v \in V, i \in 1 .. N : g[i][v] = Labelled(v, i, labels)
  BY DEF JoinSteps
<1> HIDE DEF N, V
<1>5. g \in [1 .. N -> [V -> V]]
  BY <1>3 DEF JoinSteps, N, V
<1>6. PICK f : Steps(f, N, V, <<>>, g)
  BY <1>1, <1>5, StepsExist
<1> HIDE DEF g
<1>7. f = Rec(f)
  <2>1. f = [i \in 0 .. N |-> f[i]] /\ f[0] = <<>>
    BY <1>6 DEF Steps
  <2>2. ASSUME NEW i \in 1 .. N PROVE f[i] = Labelled(f[i - 1], i, labels)
    <3>1. i - 1 \in 0 .. N
      BY <1>1
    <3>2. f[i - 1] \in V
      BY <1>6, <3>1 DEF Steps
    <3>3. QED
      BY <1>4, <1>6, <3>2 DEF Steps
  <2>3. ASSUME NEW i \in 0 .. N PROVE f[i] = Rec(f)[i]
    <3>1. CASE i = 0
      BY <1>1, <2>1, <3>1
    <3>2. CASE i # 0
      BY <1>1, <2>2, <3>2
    <3>3. QED
      BY <3>1, <3>2
  <2>4. QED
    BY <2>1, <2>3
<1>8. upTo = Rec(upTo)
  <2> HIDE DEF Rec
  <2>1. QED
    BY <1>7, Zenon
<1> HIDE DEF upTo
<1>9. Steps(upTo, N, V, <<>>, g)
  <2>1. upTo = [i \in 0 .. N |-> upTo[i]] /\ upTo[0] = <<>>
    BY <1>1, <1>8
  <2>2. \A i \in 1 .. N : upTo[i - 1] \in V => upTo[i] = g[i][upTo[i - 1]]
    BY <1>1, <1>4, <1>8
  <2>3. QED
    BY <1>1, <1>5, <2>1, <2>2, StepsOnly
<1>10. QED
  BY <1>2, <1>9 DEF g, N, V

(* One more label. *)
LEMMA JoinOfAppend ==
  /\ Join(<<>>) = <<>>
  /\ \A labels \in Seq(Label) : Join(labels) \in Seq(Byte)
  /\ \A labels \in Seq(Label), x \in Label : Join(Append(labels, x)) = IF labels = <<>> THEN x ELSE Join(labels) \o <<Dot>> \o x
<1>1. Join(<<>>) = <<>>
  <2>1. <<>> \in Seq(Label) /\ Len(<<>>) = 0
    OBVIOUS
  <2>2. QED
    BY <2>1, JoinBySteps DEF Steps
<1>2. ASSUME NEW labels \in Seq(Label), NEW x \in Label
      PROVE  Join(Append(labels, x)) = IF labels = <<>> THEN x ELSE Join(labels) \o <<Dot>> \o x
  <2> DEFINE N == Len(labels)
             M == N + 1
             V == Seq(Byte)
             none == <<>>
             more == Append(labels, x)
             g == JoinSteps(labels)
             k == JoinSteps(more)
  <2>1. /\ N \in Nat /\ more \in Seq(Label) /\ Len(more) = M
        /\ \A i \in 1 .. N : more[i] = labels[i]
        /\ more[M] = x
    OBVIOUS
  <2> HIDE DEF more
  <2>2. PICK f : Steps(f, N, V, none, g) /\ Join(labels) = f[N]
    BY JoinBySteps
  <2>3. PICK h : Steps(h, M, V, none, k) /\ Join(more) = h[M]
    BY <2>1, JoinBySteps
  <2>4. \A i \in 1 .. N, v \in V : g[i][v] = k[i][v]
    BY <2>1 DEF JoinSteps, Labelled
  <2>5. \A v \in V : k[M][v] = Labelled(v, M, more)
    BY <2>1 DEF JoinSteps
  <2>6. Steps(f, N, V, none, g) /\ Steps(h, M, V, none, k)
    BY <2>2, <2>3
  <2>7. N \in Nat /\ M \in Nat /\ N < M /\ M <= N + 1
    BY <2>1
  <2> HIDE DEF N, M, V, none, g, k
  <2>8. f[N] \in V /\ h[M] = k[M][f[N]]
    BY <2>4, <2>6, <2>7, OneMoreStep
  <2>9. h[M] = Labelled(f[N], M, more)
    BY <2>5, <2>8
  <2>10. QED
    BY <2>1, <2>2, <2>3, <2>8, <2>9 DEF more, V, N, M, Labelled
<1>3. ASSUME NEW labels \in Seq(Label) PROVE Join(labels) \in Seq(Byte)
  <2>1. PICK f : /\ Steps(f, Len(labels), Seq(Byte), <<>>, JoinSteps(labels))
                 /\ Join(labels) = f[Len(labels)]
    BY JoinBySteps
  <2>2. Len(labels) \in 0 .. Len(labels)
    OBVIOUS
  <2>3. QED
    BY <2>1, <2>2 DEF Steps
<1>4. QED
  BY <1>1, <1>2, <1>3

(* The entries of an extension. *)

LEMMA JoinIsBytes ==
  ASSUME NEW labels \in Seq(Label)
  PROVE  Join(labels) \in Seq(Byte) /\ Join(labels) \in Seq(Nat) /\ Len(Join(labels)) \in Nat
<1>1. Join(labels) \in Seq(Byte)
  BY JoinOfAppend
<1>2. QED
  BY <1>1, Sizes, SeqMonotonic, LenProperties

LEMMA FieldIsNumbers ==
  ASSUME NEW form \in Forms, NEW n \in Nat
  PROVE  LengthField(form, n) \in Seq(Nat)
<1>1. n \div Base \in Nat /\ n % Base \in Nat /\ Base - 1 \in Nat
  BY Sizes
<1>2. CASE form = "short"
  BY <1>2 DEF LengthField
<1>3. CASE form = "long"
  BY <1>1, <1>3, Sizes DEF LengthField
<1>4. CASE form = "indefinite"
  BY <1>4, Sizes DEF LengthField
<1>5. CASE form = "huge"
  BY <1>1, <1>5, Sizes DEF LengthField
<1>6. CASE form = "five"
  BY <1>1, <1>6, Sizes DEF LengthField
<1>7. QED
  BY <1>2, <1>3, <1>4, <1>5, <1>6 DEF Forms

LEMMA EntryIsNumbers ==
  ASSUME NEW entry \in NameEntry
  PROVE  EntryBytes(entry) \in Seq(Nat)
<1> DEFINE content == Join(entry.labels)
           field == LengthField(entry.form, Len(content))
<1>1. entry.labels \in Seq(Label) /\ entry.form \in Forms /\ entry.tag \in Nat
  BY Sizes DEF NameEntry
<1>2. content \in Seq(Nat) /\ Len(content) \in Nat
  BY <1>1, JoinIsBytes
<1>3. field \in Seq(Nat)
  BY <1>1, <1>2, FieldIsNumbers
<1>4. <<entry.tag>> \in Seq(Nat)
  BY <1>1
<1>5. EntryBytes(entry) = <<entry.tag>> \o field \o content
  BY DEF EntryBytes
<1> HIDE DEF content, field
<1>6. <<entry.tag>> \o field \in Seq(Nat)
  BY <1>3, <1>4, ConcatProperties
<1>7. QED
  BY <1>2, <1>5, <1>6, ConcatProperties

(* Each entry follows those before it. *)
Followed(v, entry) == v \o EntryBytes(entry)
EntriesBytesSteps(entries) ==
  [i \in 1 .. Len(entries) |-> [v \in Seq(Nat) |-> Followed(v, entries[i])]]

LEMMA EntriesBytesBySteps ==
  ASSUME NEW entries \in Seq(NameEntry)
  PROVE  \E f : /\ Steps(f, Len(entries), Seq(Nat), <<>>, EntriesBytesSteps(entries))
                /\ EntriesBytes(entries) = f[Len(entries)]
<1> DEFINE N == Len(entries)
           Rec(f) == [i \in 0 .. N |->
                        IF i = 0 THEN <<>> ELSE Followed(f[i - 1], entries[i])]
           upTo == CHOOSE f : f = Rec(f)
           g == EntriesBytesSteps(entries)
           V == Seq(Nat)
<1>1. N \in Nat /\ <<>> \in V /\ \A i \in 1 .. N : entries[i] \in NameEntry
  OBVIOUS
<1>2. EntriesBytes(entries) = upTo[N]
  BY Zenon DEF EntriesBytes, Followed
<1>3. \A v \in V, i \in 1 .. N : Followed(v, entries[i]) \in V
  BY <1>1, EntryIsNumbers, ConcatProperties DEF Followed, V
<1>4. \A v \in V, i \in 1 .. N : g[i][v] = Followed(v, entries[i])
  BY DEF EntriesBytesSteps
<1> HIDE DEF N, V
<1>5. g \in [1 .. N -> [V -> V]]
  BY <1>3 DEF EntriesBytesSteps, N, V
<1>6. PICK f : Steps(f, N, V, <<>>, g)
  BY <1>1, <1>5, StepsExist
<1> HIDE DEF g
<1>7. f = Rec(f)
  <2>1. f = [i \in 0 .. N |-> f[i]] /\ f[0] = <<>>
    BY <1>6 DEF Steps
  <2>2. ASSUME NEW i \in 1 .. N PROVE f[i] = Followed(f[i - 1], entries[i])
    <3>1. i - 1 \in 0 .. N
      BY <1>1
    <3>2. f[i - 1] \in V
      BY <1>6, <3>1 DEF Steps
    <3>3. QED
      BY <1>4, <1>6, <3>2 DEF Steps
  <2>3. ASSUME NEW i \in 0 .. N PROVE f[i] = Rec(f)[i]
    <3>1. CASE i = 0
      BY <1>1, <2>1, <3>1
    <3>2. CASE i # 0
      BY <1>1, <2>2, <3>2
    <3>3. QED
      BY <3>1, <3>2
  <2>4. QED
    BY <2>1, <2>3
<1>8. upTo = Rec(upTo)
  <2> HIDE DEF Rec
  <2>1. QED
    BY <1>7, Zenon
<1> HIDE DEF upTo
<1>9. Steps(upTo, N, V, <<>>, g)
  <2>1. upTo = [i \in 0 .. N |-> upTo[i]] /\ upTo[0] = <<>>
    BY <1>1, <1>8
  <2>2. \A i \in 1 .. N : upTo[i - 1] \in V => upTo[i] = g[i][upTo[i - 1]]
    BY <1>1, <1>4, <1>8
  <2>3. QED
    BY <1>1, <1>5, <2>1, <2>2, StepsOnly
<1>10. QED
  BY <1>2, <1>9 DEF g, N, V

(* One more entry. *)
LEMMA EntriesBytesOfAppend ==
  /\ EntriesBytes(<<>>) = <<>>
  /\ \A entries \in Seq(NameEntry) : EntriesBytes(entries) \in Seq(Nat)
  /\ \A entries \in Seq(NameEntry), x \in NameEntry : EntriesBytes(Append(entries, x)) = EntriesBytes(entries) \o EntryBytes(x)
<1>1. EntriesBytes(<<>>) = <<>>
  <2>1. <<>> \in Seq(NameEntry) /\ Len(<<>>) = 0
    OBVIOUS
  <2>2. QED
    BY <2>1, EntriesBytesBySteps DEF Steps
<1>2. ASSUME NEW entries \in Seq(NameEntry), NEW x \in NameEntry
      PROVE  EntriesBytes(Append(entries, x)) = EntriesBytes(entries) \o EntryBytes(x)
  <2> DEFINE N == Len(entries)
             M == N + 1
             V == Seq(Nat)
             none == <<>>
             more == Append(entries, x)
             g == EntriesBytesSteps(entries)
             k == EntriesBytesSteps(more)
  <2>1. /\ N \in Nat /\ more \in Seq(NameEntry) /\ Len(more) = M
        /\ \A i \in 1 .. N : more[i] = entries[i]
        /\ more[M] = x
    OBVIOUS
  <2> HIDE DEF more
  <2>2. PICK f : Steps(f, N, V, none, g) /\ EntriesBytes(entries) = f[N]
    BY EntriesBytesBySteps
  <2>3. PICK h : Steps(h, M, V, none, k) /\ EntriesBytes(more) = h[M]
    BY <2>1, EntriesBytesBySteps
  <2>4. ASSUME NEW i \in 1 .. N, NEW v \in V PROVE g[i][v] = k[i][v]
    <3>1. i \in 1 .. Len(entries) /\ i \in 1 .. Len(more) /\ more[i] = entries[i]
      BY <2>1
    <3>2. g[i][v] = Followed(v, entries[i]) /\ k[i][v] = Followed(v, more[i])
      BY <3>1 DEF EntriesBytesSteps
    <3>3. QED
      BY <3>1, <3>2
  <2>5. \A v \in V : k[M][v] = Followed(v, more[M])
    BY <2>1 DEF EntriesBytesSteps
  <2>6. Steps(f, N, V, none, g) /\ Steps(h, M, V, none, k)
    BY <2>2, <2>3
  <2>7. N \in Nat /\ M \in Nat /\ N < M /\ M <= N + 1
    BY <2>1
  <2> HIDE DEF N, M, V, none, g, k
  <2>8. f[N] \in V /\ h[M] = k[M][f[N]]
    BY <2>4, <2>6, <2>7, OneMoreStep
  <2>9. h[M] = Followed(f[N], more[M])
    BY <2>5, <2>8
  <2>10. QED
    BY <2>1, <2>2, <2>3, <2>8, <2>9 DEF more, V, N, M, Followed
<1>3. ASSUME NEW entries \in Seq(NameEntry) PROVE EntriesBytes(entries) \in Seq(Nat)
  <2>1. PICK f : /\ Steps(f, Len(entries), Seq(Nat), <<>>, EntriesBytesSteps(entries))
                 /\ EntriesBytes(entries) = f[Len(entries)]
    BY EntriesBytesBySteps
  <2>2. Len(entries) \in 0 .. Len(entries)
    OBVIOUS
  <2>3. QED
    BY <2>1, <2>2 DEF Steps
<1>4. QED
  BY <1>1, <1>2, <1>3

-----------------------------------------------------------------------------
(* Names: the match on bytes is the match on labels. *)

(* The bytes before, at and after a dot. *)
LEMMA AroundDot ==
  ASSUME NEW u \in Seq(Byte), NEW l \in Seq(Byte)
  PROVE  /\ u \o <<Dot>> \o l \in Seq(Byte)
         /\ Len(u) \in Nat /\ Len(l) \in Nat
         /\ Len(u \o <<Dot>> \o l) = Len(u) + 1 + Len(l)
         /\ \A i \in 1 .. Len(u) : (u \o <<Dot>> \o l)[i] = u[i]
         /\ (u \o <<Dot>> \o l)[Len(u) + 1] = Dot
         /\ \A j \in 1 .. Len(l) : (u \o <<Dot>> \o l)[Len(u) + 1 + j] = l[j]
<1>1. <<Dot>> \in Seq(Byte) /\ Len(<<Dot>>) = 1 /\ <<Dot>>[1] = Dot
  BY SanAssumption
<1> DEFINE dot == <<Dot>>
           v == u \o dot
<1>2. /\ v \in Seq(Byte) /\ Len(v) = Len(u) + 1
      /\ \A i \in 1 .. Len(u) + 1 : v[i] = IF i <= Len(u) THEN u[i] ELSE dot[i - Len(u)]
  <2>1. dot \in Seq(Byte) /\ Len(dot) = 1
    BY <1>1
  <2> HIDE DEF dot
  <2>2. QED
    BY <2>1, ConcatProperties
<1> HIDE DEF dot
<1>3. Len(u) \in Nat /\ Len(l) \in Nat
  OBVIOUS
<1> HIDE DEF v
<1>4. /\ v \o l \in Seq(Byte) /\ Len(v \o l) = Len(v) + Len(l)
      /\ \A i \in 1 .. Len(v) + Len(l) :
           (v \o l)[i] = IF i <= Len(v) THEN v[i] ELSE l[i - Len(v)]
  <2>1. v \in Seq(Byte) /\ l \in Seq(Byte)
    BY <1>2
  <2>2. QED
    BY <2>1, ConcatProperties, Zenon
<1> DEFINE w == v \o l
<1> HIDE DEF w
<1>5. \A i \in 1 .. Len(u) : w[i] = u[i]
  BY <1>2, <1>3, <1>4 DEF w
<1>6. w[Len(u) + 1] = Dot
  <2>1. v[Len(u) + 1] = Dot
    BY <1>1, <1>2, <1>3 DEF dot
  <2>2. QED
    BY <1>2, <1>3, <1>4, <2>1 DEF w
<1>7. ASSUME NEW j \in 1 .. Len(l) PROVE w[Len(u) + 1 + j] = l[j]
  <2> DEFINE i == Len(u) + 1 + j
  <2>1. i \in 1 .. Len(v) + Len(l) /\ ~(i <= Len(v)) /\ i - Len(v) = j
    BY <1>2, <1>3
  <2> HIDE DEF i
  <2>2. w[i] = l[j]
    BY <1>4, <2>1 DEF w
  <2>3. QED
    BY <2>2 DEF i
<1>8. QED
  BY <1>2, <1>3, <1>4, <1>5, <1>6, <1>7 DEF v, w, dot

(* Two strings that c makes the same; only a dot is the same as a dot. *)
Same(c, s, t) == Len(s) = Len(t) /\ \A i \in 1 .. Len(s) : c[s[i]] = c[t[i]]
KeepsDots(c) == \A x \in Byte : c[x] = c[Dot] => x = Dot

(* Where the last dot is, is where the other's is. *)
LEMMA LastDotsMeet ==
  ASSUME NEW c, KeepsDots(c), NEW u \in Seq(Byte), NEW v \in Seq(Byte),
         NEW l \in Label, NEW m \in Seq(Byte),
         Same(c, u \o <<Dot>> \o l, v \o <<Dot>> \o m)
  PROVE  ~(Len(u) < Len(v))
<1> SUFFICES ASSUME Len(u) < Len(v) PROVE FALSE
  OBVIOUS
<1> DEFINE s == u \o <<Dot>> \o l
           t == v \o <<Dot>> \o m
           j == Len(v) - Len(u)
<1>1. l \in Seq(Byte) /\ \A i \in 1 .. Len(l) : l[i] # Dot /\ l[i] \in Byte
  BY DEF Label
<1>2. /\ Len(u) \in Nat /\ Len(l) \in Nat
      /\ Len(s) = Len(u) + 1 + Len(l)
      /\ \A i \in 1 .. Len(l) : s[Len(u) + 1 + i] = l[i]
  BY <1>1, AroundDot
<1>3. /\ Len(v) \in Nat /\ Len(m) \in Nat
      /\ Len(t) = Len(v) + 1 + Len(m)
      /\ t[Len(v) + 1] = Dot
  BY AroundDot
<1>4. Len(s) = Len(t) /\ \A i \in 1 .. Len(s) : c[s[i]] = c[t[i]]
  BY DEF Same
<1> HIDE DEF s, t
<1>5. j \in 1 .. Len(l) /\ Len(u) + 1 + j = Len(v) + 1 /\ Len(v) + 1 \in 1 .. Len(s)
  BY <1>2, <1>3, <1>4
<1> HIDE DEF j
<1>6. s[Len(v) + 1] = l[j]
  BY <1>2, <1>5
<1>7. c[l[j]] = c[Dot]
  BY <1>3, <1>4, <1>5, <1>6
<1>8. QED
  BY <1>1, <1>5, <1>7 DEF KeepsDots

LEMMA SameIsSymmetric ==
  ASSUME NEW c, NEW s, NEW t, Same(c, s, t)
  PROVE  Same(c, t, s)
BY DEF Same

LEMMA LastDot ==
  ASSUME NEW c, KeepsDots(c), NEW u \in Seq(Byte), NEW v \in Seq(Byte),
         NEW l \in Label, NEW m \in Label
  PROVE  Same(c, u \o <<Dot>> \o l, v \o <<Dot>> \o m)
           <=> Same(c, u, v) /\ Same(c, l, m)
<1> DEFINE s == u \o <<Dot>> \o l
           t == v \o <<Dot>> \o m
<1>1. l \in Seq(Byte) /\ m \in Seq(Byte)
  BY DEF Label
<1>2. /\ Len(u) \in Nat /\ Len(l) \in Nat
      /\ Len(s) = Len(u) + 1 + Len(l)
      /\ \A i \in 1 .. Len(u) : s[i] = u[i]
      /\ s[Len(u) + 1] = Dot
      /\ \A i \in 1 .. Len(l) : s[Len(u) + 1 + i] = l[i]
  BY <1>1, AroundDot
<1>3. /\ Len(v) \in Nat /\ Len(m) \in Nat
      /\ Len(t) = Len(v) + 1 + Len(m)
      /\ \A i \in 1 .. Len(v) : t[i] = v[i]
      /\ t[Len(v) + 1] = Dot
      /\ \A i \in 1 .. Len(m) : t[Len(v) + 1 + i] = m[i]
  BY <1>1, AroundDot
<1>4. ASSUME Same(c, s, t) PROVE Same(c, u, v) /\ Same(c, l, m)
  <2>1. Len(u) = Len(v)
    <3>1. ~(Len(u) < Len(v))
      BY <1>1, <1>4, LastDotsMeet
    <3>2. Same(c, t, s)
      BY <1>4, SameIsSymmetric
    <3>3. ~(Len(v) < Len(u))
      BY <1>1, <3>2, LastDotsMeet
    <3>4. QED
      BY <1>2, <1>3, <3>1, <3>3
  <2> HIDE DEF s, t
  <2>2. Len(s) = Len(t) /\ \A i \in 1 .. Len(s) : c[s[i]] = c[t[i]]
    BY <1>4 DEF Same
  <2>3. Same(c, u, v)
    <3>1. ASSUME NEW i \in 1 .. Len(u) PROVE c[u[i]] = c[v[i]]
      <4>1. i \in 1 .. Len(s)
        BY <1>2
      <4>2. QED
        BY <1>2, <1>3, <2>1, <2>2, <4>1
    <3>2. QED
      BY <2>1, <3>1 DEF Same
  <2>4. Same(c, l, m)
    <3>1. Len(l) = Len(m)
      BY <1>2, <1>3, <2>1, <2>2
    <3>2. ASSUME NEW i \in 1 .. Len(l) PROVE c[l[i]] = c[m[i]]
      <4> DEFINE n == Len(u) + 1 + i
      <4>1. n \in 1 .. Len(s)
        BY <1>2
      <4>2. s[n] = l[i] /\ t[n] = m[i]
        BY <1>2, <1>3, <2>1, <3>1
      <4> HIDE DEF n
      <4>3. c[s[n]] = c[t[n]]
        BY <2>2, <4>1
      <4>4. QED
        BY <4>2, <4>3
    <3>3. QED
      BY <3>1, <3>2 DEF Same
  <2>5. QED
    BY <2>3, <2>4
<1>5. ASSUME Same(c, u, v), Same(c, l, m) PROVE Same(c, s, t)
  <2> HIDE DEF s, t
  <2>1. /\ Len(u) = Len(v) /\ \A i \in 1 .. Len(u) : c[u[i]] = c[v[i]]
        /\ Len(l) = Len(m) /\ \A i \in 1 .. Len(l) : c[l[i]] = c[m[i]]
    BY <1>5 DEF Same
  <2>2. Len(s) = Len(t)
    BY <1>2, <1>3, <2>1
  <2>3. ASSUME NEW i \in 1 .. Len(s) PROVE c[s[i]] = c[t[i]]
    <3>1. CASE i \in 1 .. Len(u)
      BY <1>2, <1>3, <2>1, <3>1
    <3>2. CASE i = Len(u) + 1
      BY <1>2, <1>3, <2>1, <3>2
    <3>3. CASE i > Len(u) + 1
      <4> DEFINE j == i - (Len(u) + 1)
      <4>1. j \in 1 .. Len(l) /\ Len(u) + 1 + j = i
        BY <1>2, <3>3
      <4> HIDE DEF j
      <4>2. s[i] = l[j] /\ t[i] = m[j]
        BY <1>2, <1>3, <2>1, <4>1
      <4>3. QED
        BY <2>1, <4>1, <4>2
    <3>4. QED
      BY <1>2, <3>1, <3>2, <3>3
  <2>4. QED
    BY <2>2, <2>3 DEF Same
<1>6. QED
  BY <1>4, <1>5

(* A label is not the same as a name of several. *)
LEMMA DotInNoLabel ==
  ASSUME NEW c, KeepsDots(c), NEW l \in Label,
         NEW u \in Seq(Byte), NEW m \in Seq(Byte)
  PROVE  ~Same(c, l, u \o <<Dot>> \o m) /\ ~Same(c, u \o <<Dot>> \o m, l)
<1> DEFINE t == u \o <<Dot>> \o m
<1>1. l \in Seq(Byte) /\ \A i \in 1 .. Len(l) : l[i] # Dot /\ l[i] \in Byte
  BY DEF Label
<1>2. /\ Len(u) \in Nat /\ Len(m) \in Nat
      /\ Len(t) = Len(u) + 1 + Len(m)
      /\ t[Len(u) + 1] = Dot
  BY AroundDot
<1> HIDE DEF t
<1>3. ASSUME Same(c, l, t) PROVE FALSE
  <2> DEFINE n == Len(u) + 1
  <2>1. Len(l) = Len(t) /\ \A i \in 1 .. Len(l) : c[l[i]] = c[t[i]]
    BY <1>3 DEF Same
  <2>2. n \in 1 .. Len(l) /\ t[n] = Dot
    BY <1>2, <2>1
  <2> HIDE DEF n
  <2>3. c[l[n]] = c[Dot]
    BY <2>1, <2>2
  <2>4. QED
    BY <1>1, <2>2, <2>3 DEF KeepsDots
<1>4. ~Same(c, t, l)
  BY <1>3, SameIsSymmetric
<1>5. QED
  BY <1>3, <1>4 DEF t

(* A name is its last label, or what precedes that and the label. *)
LEMMA LastLabel ==
  ASSUME NEW p \in Seq(Label), p # <<>>
  PROVE  \E q \in Seq(Label), l \in Label :
           /\ p = Append(q, l)
           /\ Len(q) \in Nat /\ Len(p) = Len(q) + 1
           /\ \A k \in 1 .. Len(q) : p[k] = q[k]
           /\ p[Len(p)] = l
           /\ Join(q) \in Seq(Byte)
           /\ Join(p) = IF q = <<>> THEN l ELSE Join(q) \o <<Dot>> \o l
<1>1. PICK q \in Seq(Label), l \in Label : p = Append(q, l)
  BY SequenceEmptyOrAppend
<1>2. /\ Join(q) \in Seq(Byte)
      /\ Join(Append(q, l)) = IF q = <<>> THEN l ELSE Join(q) \o <<Dot>> \o l
  BY JoinOfAppend
<1>3. Len(q) \in Nat /\ Len(p) = Len(q) + 1
      /\ (\A k \in 1 .. Len(q) : p[k] = q[k]) /\ p[Len(p)] = l
  BY <1>1
<1>4. QED
  BY <1>1, <1>2, <1>3

(* Two names are the same if their labels are. *)
SameLabels(c, p, h) == Len(p) = Len(h) /\ \A k \in 1 .. Len(p) : Same(c, p[k], h[k])

LEMMA SameLabelsOfAppend ==
  ASSUME NEW c, NEW p \in Seq(Label), NEW h \in Seq(Label),
         NEW q \in Seq(Label), NEW g \in Seq(Label), NEW l \in Label, NEW m \in Label,
         p = Append(q, l), h = Append(g, m)
  PROVE  SameLabels(c, p, h) <=> SameLabels(c, q, g) /\ Same(c, l, m)
<1>1. /\ Len(q) \in Nat /\ Len(p) = Len(q) + 1
      /\ \A k \in 1 .. Len(q) : p[k] = q[k]
      /\ p[Len(q) + 1] = l
  OBVIOUS
<1>2. /\ Len(g) \in Nat /\ Len(h) = Len(g) + 1
      /\ \A k \in 1 .. Len(g) : h[k] = g[k]
      /\ h[Len(g) + 1] = m
  OBVIOUS
<1>3. ASSUME SameLabels(c, p, h) PROVE SameLabels(c, q, g) /\ Same(c, l, m)
  <2>1. Len(q) = Len(g)
    BY <1>1, <1>2, <1>3 DEF SameLabels
  <2>2. ASSUME NEW k \in 1 .. Len(q) PROVE Same(c, q[k], g[k])
    BY <1>1, <1>2, <1>3, <2>1 DEF SameLabels
  <2>3. Same(c, l, m)
    BY <1>1, <1>2, <1>3, <2>1 DEF SameLabels
  <2>4. QED
    BY <2>1, <2>2, <2>3 DEF SameLabels
<1>4. ASSUME SameLabels(c, q, g), Same(c, l, m) PROVE SameLabels(c, p, h)
  <2>1. Len(q) = Len(g) /\ \A k \in 1 .. Len(q) : Same(c, q[k], g[k])
    BY <1>4 DEF SameLabels
  <2>2. ASSUME NEW k \in 1 .. Len(p) PROVE Same(c, p[k], h[k])
    <3>1. CASE k \in 1 .. Len(q)
      BY <1>1, <1>2, <2>1, <3>1
    <3>2. CASE k = Len(q) + 1
      BY <1>1, <1>2, <1>4, <2>1, <3>2
    <3>3. k \in 1 .. Len(q) \/ k = Len(q) + 1
      BY <1>1
    <3>4. QED
      BY <3>1, <3>2, <3>3
  <2>3. QED
    BY <1>1, <1>2, <2>1, <2>2 DEF SameLabels
<1>5. QED
  BY <1>3, <1>4

LEMMA JoinSame ==
  ASSUME NEW c, KeepsDots(c)
  PROVE  \A p, h \in Seq(Label) :
           p # <<>> /\ h # <<>> => (Same(c, Join(p), Join(h)) <=> SameLabels(c, p, h))
<1> DEFINE Holds(p, h) == Same(c, Join(p), Join(h)) <=> SameLabels(c, p, h)
           S == {n \in Nat : \A p, h \in Seq(Label) :
                               Len(p) = n /\ p # <<>> /\ h # <<>> => Holds(p, h)}
<1>1. 0 \in S
  OBVIOUS
<1>2. ASSUME NEW n \in Nat, n \in S PROVE n + 1 \in S
  <2> SUFFICES ASSUME NEW p \in Seq(Label), NEW h \in Seq(Label),
                      Len(p) = n + 1, p # <<>>, h # <<>>
               PROVE  Holds(p, h)
    OBVIOUS
  <2>1. PICK q \in Seq(Label), l \in Label :
          /\ p = Append(q, l)
          /\ Len(p) = Len(q) + 1 /\ Len(q) \in Nat
          /\ Join(q) \in Seq(Byte)
          /\ Join(p) = IF q = <<>> THEN l ELSE Join(q) \o <<Dot>> \o l
    BY LastLabel
  <2>2. PICK g \in Seq(Label), m \in Label :
          /\ h = Append(g, m)
          /\ Len(h) = Len(g) + 1 /\ Len(g) \in Nat
          /\ Join(g) \in Seq(Byte)
          /\ Join(h) = IF g = <<>> THEN m ELSE Join(g) \o <<Dot>> \o m
    BY LastLabel
  <2>3. SameLabels(c, p, h) <=> SameLabels(c, q, g) /\ Same(c, l, m)
    BY <2>1, <2>2, SameLabelsOfAppend
  <2>4. l \in Seq(Byte) /\ m \in Seq(Byte)
    BY DEF Label
  <2>5. CASE q = <<>> /\ g = <<>>
    <3>1. SameLabels(c, q, g)
      BY <2>5 DEF SameLabels
    <3>2. QED
      BY <2>1, <2>2, <2>3, <2>5, <3>1
  <2>6. CASE q = <<>> /\ g # <<>>
    <3>1. ~SameLabels(c, q, g)
      BY <2>6 DEF SameLabels
    <3>2. ~Same(c, l, Join(g) \o <<Dot>> \o m)
      BY <2>2, <2>4, DotInNoLabel
    <3>3. QED
      BY <2>1, <2>2, <2>3, <2>6, <3>1, <3>2
  <2>7. CASE q # <<>> /\ g = <<>>
    <3>1. ~SameLabels(c, q, g)
      BY <2>7 DEF SameLabels
    <3>2. ~Same(c, Join(q) \o <<Dot>> \o l, m)
      BY <2>1, <2>4, DotInNoLabel
    <3>3. QED
      BY <2>1, <2>2, <2>3, <2>7, <3>1, <3>2
  <2>8. CASE q # <<>> /\ g # <<>>
    <3>1. Same(c, Join(q) \o <<Dot>> \o l, Join(g) \o <<Dot>> \o m)
            <=> Same(c, Join(q), Join(g)) /\ Same(c, l, m)
      BY <2>1, <2>2, LastDot
    <3>2. Len(q) = n
      BY <2>1
    <3>3. Same(c, Join(q), Join(g)) <=> SameLabels(c, q, g)
      BY <1>2, <2>8, <3>2
    <3>4. QED
      BY <2>1, <2>2, <2>3, <2>8, <3>1, <3>3
  <2>9. QED
    BY <2>5, <2>6, <2>7, <2>8
<1> HIDE DEF S
<1>3. \A n \in Nat : n \in S
  BY <1>1, <1>2, AllNumbers
<1>4. ASSUME NEW p \in Seq(Label), NEW h \in Seq(Label), p # <<>>, h # <<>>
      PROVE  Holds(p, h)
  <2>1. Len(p) \in S
    BY <1>3
  <2> HIDE DEF Holds
  <2>2. QED
    BY <1>4, <2>1 DEF S
<1>5. QED
  BY <1>4

(* What joins one label is that label. *)
LEMMA OneLabel ==
  ASSUME NEW l \in Label
  PROVE  Join(<<l>>) = l
<1>1. <<>> \in Seq(Label) /\ <<l>> = Append(<<>>, l)
  OBVIOUS
<1>2. QED
  BY <1>1, JoinOfAppend

LEMMA Regrouped ==
  \A l, d, t, m \in Seq(Byte) : l \o d \o t \o d \o m = l \o d \o (t \o d \o m)
<1>0. \A a, b, c \in Seq(Byte) : (a \o b) \o c = a \o (b \o c)
  <2> TAKE a, b, c \in Seq(Byte)
  <2>1. QED
    BY ConcatAssociative
<1> TAKE l, d, t, m \in Seq(Byte)
<1> DEFINE s == l \o d
           u == t \o d
<1>1. s \in Seq(Byte) /\ u \in Seq(Byte)
  BY ConcatProperties
<1> HIDE DEF s
<1>2. s \o t \o d = s \o u
  BY <1>0, <1>1
<1> HIDE DEF u
<1>3. s \o u \o m = s \o (u \o m)
  BY <1>0, <1>1, SMTT(30)
<1>4. QED
  BY <1>2, <1>3 DEF s, u

(* And a name of several is its first label, a dot and the rest. *)
LEMMA FirstLabel ==
  \A p \in Seq(Label) : Len(p) > 1 => Join(p) = p[1] \o <<Dot>> \o Join(Tail(p))
<1> DEFINE Holds(p) == Join(p) = p[1] \o <<Dot>> \o Join(Tail(p))
           S == {n \in Nat : \A p \in Seq(Label) : Len(p) = n /\ n > 1 => Holds(p)}
<1>1. 0 \in S
  OBVIOUS
<1>2. ASSUME NEW n \in Nat, n \in S PROVE n + 1 \in S
  <2> SUFFICES ASSUME NEW p \in Seq(Label), Len(p) = n + 1, n + 1 > 1
               PROVE  Holds(p)
    OBVIOUS
  <2>1. p # <<>>
    OBVIOUS
  <2>2. PICK q \in Seq(Label), m \in Label :
          /\ p = Append(q, m)
          /\ Len(p) = Len(q) + 1 /\ Len(q) \in Nat
          /\ \A k \in 1 .. Len(q) : p[k] = q[k]
          /\ Join(q) \in Seq(Byte)
          /\ Join(p) = IF q = <<>> THEN m ELSE Join(q) \o <<Dot>> \o m
    BY <2>1, LastLabel
  <2>3. Len(q) = n /\ q # <<>> /\ p[1] = q[1] /\ q[1] \in Label
    BY <2>2
  <2>4. Join(p) = Join(q) \o <<Dot>> \o m
    BY <2>2, <2>3
  <2>5. Tail(p) = Append(Tail(q), m) /\ Tail(q) \in Seq(Label)
    BY <2>2, <2>3, HeadTailAppend, HeadTailProperties
  <2>6. CASE n = 1
    <3>1. q = <<q[1]>> /\ Tail(q) = <<>>
      BY <2>2, <2>3, <2>6
    <3>2. Join(q) = q[1]
      BY <2>3, <3>1, OneLabel
    <3>3. Tail(p) = <<m>>
      <4>1. <<m>> = Append(<<>>, m)
        OBVIOUS
      <4>2. QED
        BY <2>5, <3>1, <4>1, Zenon
    <3>4. Join(Tail(p)) = m
      BY <3>3, OneLabel
    <3>5. QED
      BY <2>3, <2>4, <3>2, <3>4
  <2>7. CASE n # 1
    <3>1. Holds(q) /\ Tail(q) # <<>>
      <4>1. Len(Tail(q)) = n - 1 /\ n > 1
        BY <2>3, <2>7, HeadTailProperties
      <4>2. Tail(q) # <<>>
        BY <4>1
      <4>3. QED
        BY <1>2, <2>3, <4>1, <4>2
    <3>2. Join(Tail(p)) = Join(Tail(q)) \o <<Dot>> \o m
      BY <2>5, <3>1, JoinOfAppend
    <3> DEFINE dot == <<Dot>>
               t == Join(Tail(q))
               l == q[1]
    <3>3. dot \in Seq(Byte) /\ t \in Seq(Byte) /\ l \in Seq(Byte) /\ m \in Seq(Byte)
      <4>1. dot \in Seq(Byte)
        BY SanAssumption
      <4>2. t \in Seq(Byte)
        BY <2>5, JoinOfAppend
      <4>3. l \in Seq(Byte) /\ m \in Seq(Byte)
        BY <2>3 DEF Label
      <4>4. QED
        BY <4>1, <4>2, <4>3
    <3>4. Join(p) = l \o dot \o t \o dot \o m
      BY <2>4, <3>1
    <3>5. Join(Tail(p)) = t \o dot \o m
      BY <3>2
    <3>6. p[1] = l
      BY <2>3
    <3> HIDE DEF dot, t, l
    <3>7. l \o dot \o t \o dot \o m = l \o dot \o (t \o dot \o m)
      <4>1. l \in Seq(Byte) /\ dot \in Seq(Byte)
        BY <3>3
      <4>2. t \in Seq(Byte) /\ m \in Seq(Byte)
        BY <3>3
      <4>3. \A x, y, z \in Seq(Byte) : l \o x \o y \o x \o z = l \o x \o (y \o x \o z)
        BY <4>1, Regrouped, Zenon
      <4>4. \A y, z \in Seq(Byte) : l \o dot \o y \o dot \o z = l \o dot \o (y \o dot \o z)
        BY <4>1, <4>3, Zenon
      <4>5. QED
        BY <4>2, <4>4, Zenon
    <3>8. Join(p) = p[1] \o dot \o Join(Tail(p))
      BY <3>4, <3>5, <3>6, <3>7
    <3>9. QED
      BY <3>8 DEF dot
  <2>8. QED
    BY <2>6, <2>7
<1> HIDE DEF S
<1>3. \A n \in Nat : n \in S
  BY <1>1, <1>2, AllNumbers
<1>4. ASSUME NEW p \in Seq(Label), Len(p) > 1 PROVE Holds(p)
  <2>1. Len(p) \in S
    BY <1>3
  <2> HIDE DEF Holds
  <2>2. QED
    BY <1>4, <2>1 DEF S
<1>5. QED
  BY <1>4

(* The same, with the places of the bytes. *)
LEMMA FirstDot ==
  ASSUME NEW p \in Seq(Label), Len(p) > 1
  PROVE  \E l \in Label, q \in Seq(Label), d \in Nat :
           /\ l = p[1] /\ q # <<>> /\ Len(q) = Len(p) - 1
           /\ \A k \in 1 .. Len(q) : q[k] = p[k + 1]
           /\ Join(q) \in Seq(Byte) /\ Join(p) \in Seq(Byte)
           /\ d = Len(l) + 1 /\ Len(Join(p)) = d + Len(Join(q))
           /\ \A i \in 1 .. d - 1 : Join(p)[i] = l[i] /\ Join(p)[i] # Dot
           /\ Join(p)[d] = Dot
           /\ \A j \in 1 .. Len(Join(q)) : Join(p)[d + j] = Join(q)[j]
<1> DEFINE l == p[1]
           q == Tail(p)
           s == Join(p)
           t == Join(q)
<1>1. p # <<>> /\ l \in Label /\ Len(p) \in Nat
  OBVIOUS
<1>2. /\ q \in Seq(Label) /\ Len(q) = Len(p) - 1
      /\ \A k \in 1 .. Len(q) : q[k] = p[k + 1]
  BY <1>1, HeadTailProperties
<1>3. q # <<>>
  <2> HIDE DEF q
  <2>1. QED
    BY <1>1, <1>2
<1>4. t \in Seq(Byte) /\ s \in Seq(Byte)
  BY <1>2, JoinOfAppend
<1>5. s = l \o <<Dot>> \o t
  BY FirstLabel
<1>6. l \in Seq(Byte) /\ \A i \in 1 .. Len(l) : l[i] # Dot
  BY <1>1 DEF Label
<1> HIDE DEF l, q, s, t
<1>7. /\ Len(l) \in Nat
      /\ Len(s) = Len(l) + 1 + Len(t)
      /\ \A i \in 1 .. Len(l) : s[i] = l[i]
      /\ s[Len(l) + 1] = Dot
      /\ \A j \in 1 .. Len(t) : s[Len(l) + 1 + j] = t[j]
  BY <1>4, <1>5, <1>6, AroundDot
<1> DEFINE d == Len(l) + 1
<1>8. /\ d \in Nat /\ d - 1 = Len(l) /\ Len(s) = d + Len(t) /\ s[d] = Dot
      /\ \A j \in 1 .. Len(t) : s[d + j] = t[j]
  BY <1>7
<1>9. \A i \in 1 .. d - 1 : s[i] = l[i] /\ s[i] # Dot
  BY <1>6, <1>7, <1>8
<1>10. d = Len(l) + 1
  OBVIOUS
<1> HIDE DEF d
<1>11. \E ll \in Label, qq \in Seq(Label), dd \in Nat :
           /\ ll = l /\ qq # <<>> /\ Len(qq) = Len(p) - 1
           /\ \A k \in 1 .. Len(qq) : qq[k] = p[k + 1]
           /\ Join(qq) \in Seq(Byte) /\ s \in Seq(Byte)
           /\ dd = Len(ll) + 1 /\ Len(s) = dd + Len(Join(qq))
           /\ \A i \in 1 .. dd - 1 : s[i] = ll[i] /\ s[i] # Dot
           /\ s[dd] = Dot
           /\ \A j \in 1 .. Len(Join(qq)) : s[dd + j] = Join(qq)[j]
  <2>1. l \in Label /\ q \in Seq(Label) /\ d \in Nat
    BY <1>1, <1>2, <1>8 DEF l
  <2> USE <2>1
  <2> WITNESS l \in Label, q \in Seq(Label), d \in Nat
  <2>2. QED
    BY <1>2, <1>3, <1>4, <1>8, <1>9, <1>10 DEF t
<1>12. QED
  BY <1>11 DEF l, s

(* A pattern of bytes begins with `*.` if its first label of several is `*`. *)
IsWild(pattern) == Len(pattern) >= 2 /\ pattern[1] = Star /\ pattern[2] = Dot

LEMMA WildIsAStar ==
  ASSUME NEW p \in Seq(Label)
  PROVE  IsWild(Join(p)) <=> Len(p) > 1 /\ p[1] = <<Star>>
<1>1. Len(p) \in Nat /\ Star # Dot
  BY SanAssumption
<1>2. CASE p = <<>>
  <2>1. Join(p) = <<>>
    BY <1>2, JoinOfAppend
  <2>2. QED
    BY <1>2, <2>1 DEF IsWild
<1>3. CASE Len(p) = 1
  <2>1. p = <<p[1]>> /\ p[1] \in Label
    BY <1>3
  <2>2. Join(p) = p[1]
    BY <2>1, OneLabel
  <2>3. p[1] \in Seq(Byte) /\ \A i \in 1 .. Len(p[1]) : p[1][i] # Dot
    BY <2>1 DEF Label
  <2>4. Len(p[1]) >= 2 => p[1][2] # Dot
    BY <2>3
  <2>5. QED
    BY <1>3, <2>2, <2>4 DEF IsWild
<1>4. CASE Len(p) > 1
  <2>1. PICK l \in Label, q \in Seq(Label), d \in Nat :
          /\ l = p[1]
          /\ Join(q) \in Seq(Byte)
          /\ d = Len(l) + 1 /\ Len(Join(p)) = d + Len(Join(q))
          /\ \A i \in 1 .. d - 1 : Join(p)[i] = l[i] /\ Join(p)[i] # Dot
          /\ Join(p)[d] = Dot
    BY <1>4, FirstDot, SMTT(30)
  <2>2. l \in Seq(Byte) /\ Len(l) \in Nat /\ Len(Join(q)) \in Nat
    BY <2>1 DEF Label
  <2> DEFINE s == Join(p)
  <2> HIDE DEF s
  <2>3. ASSUME IsWild(s) PROVE l = <<Star>>
    <3>1. d # 1
      BY <1>1, <2>1, <2>3 DEF IsWild, s
    <3>2. ~(d > 2)
      BY <2>1, <2>2, <2>3 DEF IsWild, s
    <3>3. d = 2
      BY <2>1, <2>2, <3>1, <3>2
    <3>4. Len(l) = 1
      <4> DEFINE n == Len(l)
      <4>1. d = n + 1 /\ n \in Nat
        BY <2>1, <2>2
      <4> HIDE DEF n
      <4>2. n = 1
        BY <3>3, <4>1
      <4>3. QED
        BY <4>2 DEF n
    <3>5. l[1] = Star
      <4>1. 1 \in 1 .. d - 1
        BY <3>3
      <4>2. QED
        BY <2>1, <2>3, <4>1 DEF IsWild, s
    <3>6. QED
      BY <2>2, <3>4, <3>5
  <2>4. ASSUME l = <<Star>> PROVE IsWild(s)
    <3>1. Len(l) = 1 /\ l[1] = Star
      BY <2>4
    <3>2. d = 2 /\ 1 \in 1 .. d - 1
      BY <2>1, <3>1
    <3>3. s[1] = Star /\ s[2] = Dot /\ Len(s) >= 2
      BY <2>1, <2>2, <3>1, <3>2 DEF s
    <3>4. QED
      BY <3>3 DEF IsWild
  <2>5. QED
    BY <1>4, <2>1, <2>3, <2>4 DEF s
<1>5. p = <<>> \/ Len(p) = 1 \/ Len(p) > 1
  OBVIOUS
<1>6. QED
  BY <1>2, <1>3, <1>4, <1>5

(* What comes after the first dot is a name: that of the other labels. *)
LEMMA AfterFirstDot ==
  ASSUME NEW h \in Seq(Label), Len(h) > 1
  PROVE  \E q \in Seq(Label) :
           /\ q # <<>> /\ Len(q) = Len(h) - 1
           /\ \A k \in 1 .. Len(q) : q[k] = h[k + 1]
           /\ \A t : (\E d \in 1 .. Len(Join(h)) :
                        /\ Join(h)[d] = Dot
                        /\ \A i \in 1 .. d - 1 : Join(h)[i] # Dot
                        /\ EqIgnoreCase(SubSeq(Join(h), d + 1, Len(Join(h))), t))
                     <=> EqIgnoreCase(Join(q), t)
<1> DEFINE s == Join(h)
<1>1. PICK l \in Label, q \in Seq(Label), d \in Nat :
        /\ l = h[1] /\ q # <<>> /\ Len(q) = Len(h) - 1
        /\ \A k \in 1 .. Len(q) : q[k] = h[k + 1]
        /\ Join(q) \in Seq(Byte) /\ s \in Seq(Byte)
        /\ d = Len(l) + 1 /\ Len(s) = d + Len(Join(q))
        /\ \A i \in 1 .. d - 1 : s[i] = l[i] /\ s[i] # Dot
        /\ s[d] = Dot
        /\ \A j \in 1 .. Len(Join(q)) : s[d + j] = Join(q)[j]
  BY FirstDot, Zenon
<1> HIDE DEF s
<1> DEFINE t == Join(q)
<1>2. Len(l) \in Nat /\ Len(t) \in Nat /\ Len(s) \in Nat
  BY <1>1 DEF Label
<1>3. d \in 1 .. Len(s)
  BY <1>1, <1>2
<1>4. SubSeq(s, d + 1, Len(s)) = t
  <2> DEFINE u == SubSeq(s, d + 1, Len(s))
  <2> HIDE DEF t
  <2>1. \A i \in d + 1 .. Len(s) : s[i] \in Byte
    BY <1>1, <1>3
  <2>2. /\ u \in Seq(Byte)
        /\ Len(u) = IF d + 1 <= Len(s) THEN Len(s) - (d + 1) + 1 ELSE 0
        /\ \A i \in 1 .. Len(s) - (d + 1) + 1 : u[i] = s[(d + 1) + i - 1]
    BY <1>2, <1>3, <2>1, SubSeqProperties
  <2> HIDE DEF u
  <2>3. Len(u) = Len(t)
    BY <1>1, <1>2, <1>3, <2>2 DEF t
  <2>4. ASSUME NEW i \in 1 .. Len(u) PROVE u[i] = t[i]
    <3>1. i \in 1 .. Len(s) - (d + 1) + 1 /\ (d + 1) + i - 1 = d + i /\ i \in 1 .. Len(t)
      BY <1>1, <1>2, <1>3, <2>3 DEF t
    <3>2. u[i] = s[d + i] /\ s[d + i] = t[i]
      BY <1>1, <2>2, <3>1 DEF t
    <3>3. QED
      BY <3>2
  <2>5. t \in Seq(Byte)
    BY <1>1 DEF t
  <2>6. u = t
    BY <2>2, <2>3, <2>4, <2>5, SeqEqual
  <2>7. QED
    BY <2>6 DEF u
<1>5. ASSUME NEW e \in 1 .. Len(s), s[e] = Dot, \A i \in 1 .. e - 1 : s[i] # Dot
      PROVE  e = d
  <2>1. ~(e < d)
    BY <1>1, <1>5
  <2>2. ~(d < e)
    BY <1>3, <1>1, <1>5
  <2>3. QED
    BY <2>1, <2>2
<1>6. ASSUME NEW w
      PROVE  (\E e \in 1 .. Len(s) :
                /\ s[e] = Dot
                /\ \A i \in 1 .. e - 1 : s[i] # Dot
                /\ EqIgnoreCase(SubSeq(s, e + 1, Len(s)), w))
             <=> EqIgnoreCase(t, w)
  <2> HIDE DEF t
  <2>1. ASSUME NEW e \in 1 .. Len(s), s[e] = Dot, \A i \in 1 .. e - 1 : s[i] # Dot,
               EqIgnoreCase(SubSeq(s, e + 1, Len(s)), w)
        PROVE  EqIgnoreCase(t, w)
    <3>1. e = d
      BY <1>5, <2>1
    <3>2. QED
      BY <1>4, <2>1, <3>1, Zenon
  <2>2. ASSUME EqIgnoreCase(t, w)
        PROVE  \E e \in 1 .. Len(s) :
                 /\ s[e] = Dot
                 /\ \A i \in 1 .. e - 1 : s[i] # Dot
                 /\ EqIgnoreCase(SubSeq(s, e + 1, Len(s)), w)
    BY <1>1, <1>3, <1>4, <2>2, Zenon
  <2>3. QED
    BY <2>1, <2>2, Zenon
<1>7. QED
  BY <1>1, <1>6, Zenon DEF s

(* What comes after `*.` is the name of the other labels. *)
LEMMA AfterStar ==
  ASSUME NEW p \in Seq(Label), Len(p) > 1, p[1] = <<Star>>
  PROVE  \E g \in Seq(Label) :
           /\ g # <<>> /\ Len(g) = Len(p) - 1
           /\ \A k \in 1 .. Len(g) : g[k] = p[k + 1]
           /\ SubSeq(Join(p), 3, Len(Join(p))) = Join(g)
<1> DEFINE s == Join(p)
<1>1. PICK l \in Label, g \in Seq(Label), d \in Nat :
        /\ l = p[1] /\ g # <<>> /\ Len(g) = Len(p) - 1
        /\ \A k \in 1 .. Len(g) : g[k] = p[k + 1]
        /\ Join(g) \in Seq(Byte) /\ s \in Seq(Byte)
        /\ d = Len(l) + 1 /\ Len(s) = d + Len(Join(g))
        /\ \A i \in 1 .. d - 1 : s[i] = l[i] /\ s[i] # Dot
        /\ s[d] = Dot
        /\ \A j \in 1 .. Len(Join(g)) : s[d + j] = Join(g)[j]
  BY FirstDot, Zenon
<1> DEFINE t == Join(g)
<1> HIDE DEF s, t
<1>2. d = 2
  BY <1>1
<1>3. /\ t \in Seq(Byte) /\ s \in Seq(Byte) /\ Len(s) = 2 + Len(t)
      /\ \A j \in 1 .. Len(t) : s[2 + j] = t[j]
  BY <1>1, <1>2 DEF t
<1>4. Len(t) \in Nat /\ Len(s) \in Nat
  BY <1>3
<1> DEFINE u == SubSeq(s, 3, Len(s))
<1>5. \A i \in 3 .. Len(s) : s[i] \in Byte
  BY <1>3
<1>6. /\ u \in Seq(Byte)
      /\ Len(u) = IF 3 <= Len(s) THEN Len(s) - 3 + 1 ELSE 0
      /\ \A i \in 1 .. Len(s) - 3 + 1 : u[i] = s[3 + i - 1]
  BY <1>4, <1>5, SubSeqProperties
<1> HIDE DEF u
<1>7. Len(u) = Len(t)
  BY <1>3, <1>4, <1>6
<1>8. ASSUME NEW i \in 1 .. Len(u) PROVE u[i] = t[i]
  <2>1. i \in 1 .. Len(s) - 3 + 1 /\ 3 + i - 1 = 2 + i /\ i \in 1 .. Len(t)
    BY <1>3, <1>4, <1>7
  <2>2. u[i] = s[2 + i] /\ s[2 + i] = t[i]
    BY <1>3, <1>6, <2>1
  <2>3. QED
    BY <2>2
<1>9. u = t
  BY <1>3, <1>6, <1>7, <1>8, SeqEqual
<1>10. QED
  BY <1>1, <1>9, Zenon DEF u, t, s

LEMMA CaseKeepsDots == KeepsDots(Lower)
BY SanAssumption DEF KeepsDots

LEMMA EqualIsSame ==
  ASSUME NEW s, NEW t
  PROVE  EqIgnoreCase(s, t) <=> Same(Lower, s, t)
BY DEF EqIgnoreCase, Same

(* dns_name_matches, which looks at bytes, says of two names what Covers   *)
(* says of their labels.                                                   *)
THEOREM DnsMatchesAreCovers ==
  ASSUME NEW p \in Seq(Label), NEW h \in Seq(Label), Join(h) # <<>>
  PROVE  DnsNameMatches(Join(p), Join(h)) <=> Covers(p, h)
<1>1. h # <<>> /\ Len(h) \in Nat \ {0} /\ Len(p) \in Nat
  BY JoinOfAppend, EmptySeq, LenProperties
<1>2. CASE ~IsWild(Join(p))
  <2>1. DnsNameMatches(Join(p), Join(h)) <=> Same(Lower, Join(p), Join(h))
    BY <1>2, EqualIsSame, Zenon DEF DnsNameMatches, IsWild
  <2>2. Covers(p, h) <=> SameLabels(Lower, p, h)
    <3>1. ~(Len(p) > 1 /\ p[1] = <<Star>>)
      BY <1>2, WildIsAStar
    <3>2. \A k \in 1 .. Len(h) : EqIgnoreCase(p[k], h[k]) <=> Same(Lower, p[k], h[k])
      BY EqualIsSame
    <3>3. QED
      BY <3>1, <3>2 DEF Covers, SameLabels
  <2>3. CASE p = <<>>
    <3>1. Join(p) = <<>>
      BY <2>3, JoinOfAppend
    <3>2. Join(h) \in Seq(Byte)
      BY JoinOfAppend
    <3>3. Len(Join(h)) # Len(<<>>)
      BY <3>2
    <3>4. ~Same(Lower, Join(p), Join(h))
      BY <3>1, <3>3 DEF Same
    <3>5. ~SameLabels(Lower, p, h)
      BY <1>1, <2>3 DEF SameLabels
    <3>6. QED
      BY <2>1, <2>2, <3>4, <3>5
  <2>4. CASE p # <<>>
    <3>1. Same(Lower, Join(p), Join(h)) <=> SameLabels(Lower, p, h)
      BY <1>1, <2>4, CaseKeepsDots, JoinSame
    <3>2. QED
      BY <2>1, <2>2, <3>1
  <2>5. QED
    BY <2>3, <2>4
<1>3. CASE IsWild(Join(p))
  <2> DEFINE s == Join(p)
             t == Join(h)
             rest == SubSeq(s, 3, Len(s))
  <2>1. Len(p) > 1 /\ p[1] = <<Star>>
    BY <1>3, WildIsAStar
  <2>2. DnsNameMatches(s, t)
          <=> \E d \in 1 .. Len(t) :
                /\ t[d] = Dot
                /\ \A i \in 1 .. d - 1 : t[i] # Dot
                /\ EqIgnoreCase(SubSeq(t, d + 1, Len(t)), rest)
    BY <1>3, Zenon DEF DnsNameMatches, IsWild
  <2>3. PICK g \in Seq(Label) :
          /\ g # <<>> /\ Len(g) = Len(p) - 1
          /\ \A k \in 1 .. Len(g) : g[k] = p[k + 1]
          /\ rest = Join(g)
    BY <2>1, AfterStar
  <2>4. CASE Len(h) > 1
    <3>1. PICK q \in Seq(Label) :
            /\ q # <<>> /\ Len(q) = Len(h) - 1
            /\ \A k \in 1 .. Len(q) : q[k] = h[k + 1]
            /\ \A w : (\E d \in 1 .. Len(t) :
                         /\ t[d] = Dot
                         /\ \A i \in 1 .. d - 1 : t[i] # Dot
                         /\ EqIgnoreCase(SubSeq(t, d + 1, Len(t)), w))
                      <=> EqIgnoreCase(Join(q), w)
      BY <2>4, AfterFirstDot, Zenon
    <3>2. DnsNameMatches(s, t) <=> EqIgnoreCase(Join(q), Join(g))
      BY <2>2, <2>3, <3>1, Zenon
    <3>3. EqIgnoreCase(Join(q), Join(g)) <=> SameLabels(Lower, q, g)
      BY <2>3, <3>1, CaseKeepsDots, EqualIsSame, JoinSame
    <3>4. SameLabels(Lower, q, g) <=> Covers(p, h)
      <4>1. Len(q) = Len(g) <=> Len(p) = Len(h)
        BY <1>1, <2>3, <3>1
      <4>2. ASSUME Len(p) = Len(h), SameLabels(Lower, q, g)
            PROVE  Covers(p, h)
        <5>1. ASSUME NEW k \in 1 .. Len(h), k # 1 PROVE EqIgnoreCase(p[k], h[k])
          <6>1. k - 1 \in 1 .. Len(q) /\ (k - 1) + 1 = k /\ k - 1 \in 1 .. Len(g)
            BY <1>1, <2>3, <3>1, <4>1, <4>2, <5>1
          <6>2. Same(Lower, q[k - 1], g[k - 1])
            BY <4>2, <6>1 DEF SameLabels
          <6>3. q[k - 1] = h[k] /\ g[k - 1] = p[k]
            BY <2>3, <3>1, <6>1
          <6>4. QED
            BY <6>2, <6>3, SameIsSymmetric, EqualIsSame
        <5>2. QED
          BY <2>1, <4>2, <5>1 DEF Covers
      <4>3. ASSUME Covers(p, h) PROVE SameLabels(Lower, q, g)
        <5>1. Len(q) = Len(g)
          BY <4>1, <4>3 DEF Covers
        <5>2. ASSUME NEW k \in 1 .. Len(q) PROVE Same(Lower, q[k], g[k])
          <6>1. k + 1 \in 1 .. Len(h) /\ k + 1 # 1 /\ k \in 1 .. Len(g)
            BY <1>1, <3>1, <5>1
          <6>2. EqIgnoreCase(p[k + 1], h[k + 1])
            BY <4>3, <6>1 DEF Covers
          <6>3. q[k] = h[k + 1] /\ g[k] = p[k + 1]
            BY <2>3, <3>1, <6>1
          <6>4. QED
            BY <6>2, <6>3, SameIsSymmetric, EqualIsSame
        <5>3. QED
          BY <5>1, <5>2 DEF SameLabels
      <4>4. QED
        BY <4>1, <4>2, <4>3 DEF SameLabels
    <3>5. QED
      BY <3>2, <3>3, <3>4
  <2>5. CASE ~(Len(h) > 1)
    <3>1. ~Covers(p, h)
      BY <2>1, <2>5 DEF Covers
    <3>2. h = <<h[1]>> /\ h[1] \in Label
      BY <1>1, <2>5
    <3>3. t = h[1]
      BY <3>2, OneLabel
    <3>4. \A i \in 1 .. Len(t) : t[i] # Dot
      BY <3>2, <3>3 DEF Label
    <3>5. QED
      BY <2>2, <3>1, <3>4
  <2>6. QED
    BY <2>4, <2>5
<1>4. QED
  BY <1>2, <1>3

-----------------------------------------------------------------------------
(* The reader: it finds the elements an issuer wrote, as far as they are   *)
(* there.                                                                  *)

(* Products of the base, as far as they are used. *)
LEMMA Products ==
  /\ Base * Base \in Nat
  /\ Word > Base * Base + 5
  /\ \A n \in Nat : n < Base * Base =>
       /\ n \div Base \in Nat /\ n % Base \in Nat
       /\ n = (n \div Base) * Base + (n % Base)
       /\ (n \div Base) % Word = n \div Base
<1>1. /\ Half \in Nat /\ Half > 5 /\ Base = 2 * Half /\ Base \in Nat
      /\ Word \in Nat /\ Word >= Base * Base * Base * Base
  BY Sizes, SanAssumption
<1>2. \A x, y \in Nat : x * y \in Nat
  OBVIOUS
<1>3. Base * Base \in Nat
  BY <1>1, <1>2
<1> DEFINE B == Base
           S == B * B
<1>4. S * B * B = S * S
  BY <1>1, <1>3
<1>5. \A x \in Nat : x >= 6 => x * x >= 6 * x
  OBVIOUS
<1>6. S >= 6
  BY <1>1, <1>5
<1> HIDE DEF S
<1>7. S * S >= 6 * S /\ 6 * S > S + 5
  BY <1>3, <1>5, <1>6 DEF S
<1>8. Word > S + 5
  BY <1>1, <1>3, <1>4, <1>7 DEF S
<1>9. ASSUME NEW n \in Nat, n < S
      PROVE  /\ n \div B \in Nat /\ n % B \in Nat
             /\ n = (n \div B) * B + (n % B)
             /\ (n \div B) % Word = n \div B
  <2>1. B \in Nat /\ B > 0
    BY <1>1
  <2> HIDE DEF B
  <2>2. n \div B \in Nat /\ n % B \in Nat /\ n = B * (n \div B) + (n % B)
    BY <2>1
  <2>3. n \div B <= n
    BY <2>1, <2>2
  <2>4. n \div B < Word
    <3>1. S \in Nat /\ S + 5 < Word
      BY <1>1, <1>3, <1>8 DEF S, B
    <3>2. \A x \in Nat : x <= n => x < Word
      BY <1>1, <1>9, <3>1
    <3>3. QED
      BY <2>2, <2>3, <3>2
  <2>5. \A x \in Nat : x < Word => x % Word = x
    BY <1>1
  <2>6. B * (n \div B) = (n \div B) * B
    BY <2>1, <2>2
  <2>7. QED
    BY <2>2, <2>4, <2>5, <2>6
<1>10. QED
  BY <1>3, <1>8, <1>9 DEF S

(* Two octets are read as the number they stand for. *)
LEMMA TwoOctets ==
  ASSUME NEW n \in Nat, n < Base * Base
  PROVE  BigEndian(<<n \div Base, n % Base>>) = n
<1> DEFINE a == n \div Base
           b == n % Base
<1>1. a \in Nat /\ b \in Nat /\ n = a * Base + b /\ a % Word = a
  BY Products
<1> HIDE DEF a, b
<1>2. <<>> \in Seq(Nat) /\ <<a>> \in Seq(Nat)
      /\ <<a>> = Append(<<>>, a) /\ <<a, b>> = Append(<<a>>, b)
  BY <1>1
<1>3. BigEndian(<<>>) = 0
  BY BigEndianOfAppend
<1>4. BigEndian(<<a>>) = Shifted(0, a)
  BY <1>1, <1>2, <1>3, BigEndianOfAppend
<1>5. 0 * Base + a = a
  BY <1>1, Sizes
<1>6. BigEndian(<<a>>) = a
  BY <1>1, <1>4, <1>5 DEF Shifted
<1>7. BigEndian(<<a, b>>) = Shifted(a, b)
  BY <1>1, <1>2, <1>6, BigEndianOfAppend
<1>8. n % Word = n
  BY Products, Sizes
<1>9. Shifted(a, b) = n
  BY <1>1, <1>8 DEF Shifted
<1>10. QED
  BY <1>7, <1>9 DEF a, b

(* A length of four octets that are all ones is the largest number of four *)
(* octets, which a usize holds.                                            *)
LEMMA HugeOctets ==
  ASSUME NEW m, m = Base - 1
  PROVE  /\ BigEndian(<<m, m, m, m>>) \in Nat
         /\ BigEndian(<<m, m, m, m>>) >= Base * Base - 1
         /\ BigEndian(<<m, m, m, m>>) < Word
<1> DEFINE B == Base
           S == B * B
           C == S * B
           D == C * B
<1>1. B \in Nat /\ B > 1 /\ m = B - 1 /\ m \in Nat
  BY Sizes
<1>2. \A x, y \in Nat : x * y \in Nat
  OBVIOUS
<1>3. S \in Nat /\ C \in Nat /\ D \in Nat
  BY <1>1, <1>2
<1>4. Word \in Nat /\ D <= Word
  <2>1. Word \in Nat /\ Word >= Base * Base * Base * Base
    BY SanAssumption
  <2>2. Word >= D
    BY <2>1, Zenon
  <2> HIDE DEF D
  <2>3. QED
    BY <1>3, <2>1, <2>2
<1>5. \A x \in Nat : x * B >= x
  BY <1>1
<1> HIDE DEF B
<1>6. S >= B /\ C >= S /\ D >= C
  BY <1>1, <1>3, <1>5
<1>7. \A x \in Nat : (x - 1) * B + m = x * B - 1
  BY <1>1
<1>8. \A x \in Nat : x < Word => x % Word = x
  BY <1>4
<1>9. \A x \in Nat : x >= 1 /\ x * B <= Word => Shifted(x - 1, m) = x * B - 1
  <2> TAKE x \in Nat
  <2> HAVE x >= 1 /\ x * B <= Word
  <2>1. x * B - 1 \in Nat /\ x * B - 1 < Word
    BY <1>1, <1>2, <1>4, <1>5
  <2>2. (x * B - 1) % Word = x * B - 1
    BY <1>8, <2>1
  <2>3. (x - 1) * B + m = x * B - 1
    BY <1>7
  <2>4. Shifted(x - 1, m) = ((x - 1) * B + m) % Word
    BY DEF Shifted, B
  <2>5. QED
    BY <2>2, <2>3, <2>4
<1>10. /\ Shifted(0, m) = B - 1
       /\ Shifted(B - 1, m) = S - 1
       /\ Shifted(S - 1, m) = C - 1
       /\ Shifted(C - 1, m) = D - 1
  <2> HIDE DEF D
  <2>1. Shifted(C - 1, m) = C * B - 1
    BY <1>1, <1>3, <1>4, <1>6, <1>9 DEF D
  <2> HIDE DEF C
  <2>2. Shifted(S - 1, m) = S * B - 1
    BY <1>1, <1>3, <1>4, <1>6, <1>9 DEF C
  <2> HIDE DEF S
  <2>3. Shifted(B - 1, m) = B * B - 1
    BY <1>1, <1>3, <1>4, <1>6, <1>9 DEF S
  <2>4. Shifted(0, m) = B - 1
    <3>1. B - 1 \in Nat /\ B - 1 < Word /\ 0 * B + m = B - 1
      BY <1>1, <1>3, <1>4, <1>6
    <3>2. (B - 1) % Word = B - 1
      BY <1>8, <3>1
    <3>3. Shifted(0, m) = (0 * B + m) % Word
      BY DEF Shifted, B
    <3>4. QED
      BY <3>1, <3>2, <3>3
  <2>5. QED
    BY <2>1, <2>2, <2>3, <2>4 DEF S, C, D
<1>11. BigEndian(<<m, m, m, m>>) = D - 1
  <2> HIDE DEF S, C, D
  <2>1. /\ <<>> \in Seq(Nat) /\ <<m>> \in Seq(Nat) /\ <<m, m>> \in Seq(Nat)
        /\ <<m, m, m>> \in Seq(Nat)
        /\ <<m>> = Append(<<>>, m) /\ <<m, m>> = Append(<<m>>, m)
        /\ <<m, m, m>> = Append(<<m, m>>, m)
        /\ <<m, m, m, m>> = Append(<<m, m, m>>, m)
    BY <1>1
  <2>2. \A octets \in Seq(Nat) :
          BigEndian(Append(octets, m)) = Shifted(BigEndian(octets), m)
    BY <1>1, BigEndianOfAppend
  <2>3. BigEndian(<<m>>) = B - 1
    <3>1. BigEndian(<<>>) = 0
      BY BigEndianOfAppend
    <3>2. BigEndian(<<m>>) = Shifted(BigEndian(<<>>), m)
      BY <2>1, <2>2, Zenon
    <3>3. QED
      BY <1>10, <3>1, <3>2, Zenon
  <2>4. BigEndian(<<m, m>>) = S - 1
    BY <1>10, <2>1, <2>2, <2>3
  <2>5. BigEndian(<<m, m, m>>) = C - 1
    BY <1>10, <2>1, <2>2, <2>4
  <2>6. QED
    BY <1>10, <2>1, <2>2, <2>5
<1> HIDE DEF C, D
<1>12. D - 1 \in Nat /\ D - 1 >= S - 1 /\ D - 1 < Word
  BY <1>1, <1>3, <1>4, <1>6
<1>13. QED
  BY <1>11, <1>12 DEF B

(* What an element is read as, once its length has been. *)
LEMMA ReadsWithLength ==
  ASSUME NEW data \in Seq(Nat), data # <<>>, NEW v \in Nat, NEW u \in Nat, u > 0,
         DerReadLength(Tail(data)) = [value |-> v, used |-> u],
         NEW first, first = u + 2, NEW all, all = 1 + u + v, all < Word
  PROVE  DerReadTlv(data) =
           IF Len(data) < all THEN NoTlv
           ELSE Tlv("read", data[1], SubSeq(data, first, all), all)
<1> DEFINE length == DerReadLength(Tail(data))
           start == 1 + length.used
           total == (start + length.value) % Word
<1>1. length.used = u /\ length.value = v
  OBVIOUS
<1>2. DerReadTlv(data) =
        IF data = <<>> \/ length.used = 0 \/ Len(data) < total THEN NoTlv
        ELSE Sliced(data, start, total)
  BY Zenon DEF DerReadTlv
<1>3. \A x \in Nat : x < Word => x % Word = x
  BY Sizes
<1> HIDE DEF length
<1>4. start = 1 + u /\ start + length.value = all /\ all \in Nat
  BY <1>1
<1>5. total = all
  BY <1>3, <1>4
<1> HIDE DEF start, total
<1>6. start + 1 = first /\ ~(total < start) /\ length.used # 0
  BY <1>1, <1>4, <1>5
<1>7. ~(Len(data) < all) =>
        Sliced(data, start, total) = Tlv("read", data[1], SubSeq(data, first, all), all)
  BY <1>5, <1>6 DEF Sliced
<1>8. QED
  BY <1>2, <1>5, <1>6, <1>7

(* Where the sum wraps, the end comes to lie before the start.             *)
LEMMA ReadsNoWrapped ==
  ASSUME NEW data \in Seq(Nat), NEW v \in Nat, v < Word, NEW u \in Nat, u > 0, 1 + u < Word,
         DerReadLength(Tail(data)) = [value |-> v, used |-> u],
         ~(1 + u + v < Word)
  PROVE  DerReadTlv(data).kind # "read"
<1> DEFINE length == DerReadLength(Tail(data))
           start == 1 + length.used
           total == (start + length.value) % Word
           all == 1 + u + v
<1>1. length.used = u /\ length.value = v
  OBVIOUS
<1>2. DerReadTlv(data) =
        IF data = <<>> \/ length.used = 0 \/ Len(data) < total THEN NoTlv
        ELSE Sliced(data, start, total)
  BY Zenon DEF DerReadTlv
<1> HIDE DEF length
<1>3. start = 1 + u /\ total = all % Word /\ all \in Nat
  BY <1>1
<1>4. all >= Word /\ all - Word \in Nat /\ all - Word < Word /\ all - Word < 1 + u
      /\ Word \in Nat
  BY Sizes
<1> HIDE DEF all, start, total
<1>5. all % Word = all - Word
  BY <1>3, <1>4
<1>6. total < start
  BY <1>3, <1>4, <1>5
<1>7. Sliced(data, start, total).kind = "panic"
  BY <1>6 DEF Sliced, Tlv
<1>8. NoTlv.kind = "none"
  BY DEF NoTlv, Tlv
<1>9. QED
  BY <1>2, <1>7, <1>8

LEMMA ReadsNothing ==
  ASSUME NEW data, data = <<>> \/ DerReadLength(Tail(data)) = NoLength
  PROVE  DerReadTlv(data) = NoTlv
BY DEF DerReadTlv, NoLength

(* The length fields, one by one. *)
LEMMA AfterTag ==
  ASSUME NEW data \in Seq(Nat), Len(data) >= 2
  PROVE  /\ data # <<>> /\ Tail(data) # <<>> /\ Tail(data) \in Seq(Nat)
         /\ Len(Tail(data)) = Len(data) - 1 /\ Len(data) \in Nat
         /\ \A i \in 1 .. Len(data) - 1 : Tail(data)[i] = data[i + 1]
         /\ Tail(data)[1] = data[2]
<1>1. data # <<>> /\ Len(data) \in Nat
  OBVIOUS
<1> DEFINE t == Tail(data)
<1>2. /\ t \in Seq(Nat) /\ Len(t) = Len(data) - 1
      /\ \A i \in 1 .. Len(t) : t[i] = data[i + 1]
  BY <1>1, HeadTailProperties
<1> HIDE DEF t
<1>3. t # <<>>
  BY <1>1, <1>2
<1>4. t[1] = data[2]
  BY <1>1, <1>2
<1>5. QED
  BY <1>1, <1>2, <1>3, <1>4 DEF t

LEMMA ReadsShort ==
  ASSUME NEW data \in Seq(Nat), Len(data) >= 2, NEW n \in Nat, n < Half, data[2] = n
  PROVE  DerReadTlv(data) =
           IF Len(data) < 2 + n THEN NoTlv
           ELSE Tlv("read", data[1], SubSeq(data, 3, 2 + n), 2 + n)
<1> DEFINE t == Tail(data)
<1>1. data # <<>> /\ t # <<>> /\ t[1] = n
  BY AfterTag
<1> HIDE DEF t
<1>2. DerReadLength(t) = [value |-> n, used |-> 1]
  BY <1>1 DEF DerReadLength
<1>3. Half < Word - 5 /\ Half \in Nat /\ Word \in Nat
  <2>1. Half * Half >= Half /\ Base * Base = 4 * (Half * Half) /\ Half * Half \in Nat
    <3>1. \A x \in Nat : x > 0 => x * x >= x /\ (2 * x) * (2 * x) = 4 * (x * x) /\ x * x \in Nat
      OBVIOUS
    <3>2. QED
      BY <3>1, Sizes
  <2> DEFINE H == Half * Half
             S == Base * Base
  <2>2. H >= Half /\ S = 4 * H /\ H \in Nat /\ Word > S + 5
    BY <2>1, Products
  <2> HIDE DEF H, S
  <2>3. QED
    BY <2>2, Sizes
<1>4. 2 + n = 1 + 1 + n /\ 3 = 1 + 2 /\ 2 + n < Word /\ 1 \in Nat /\ 1 > 0
  BY <1>3
<1>5. QED
  BY <1>1, <1>2, <1>4, ReadsWithLength DEF t

LEMMA TwoOf ==
  ASSUME NEW t \in Seq(Nat), Len(t) > 2
  PROVE  SubSeq(t, 2, 3) = <<t[2], t[3]>>
<1> DEFINE u == SubSeq(t, 2, 3)
           w == <<t[2], t[3]>>
<1>1. t[2] \in Nat /\ t[3] \in Nat
  OBVIOUS
<1>2. u \in Seq(Nat) /\ Len(u) = 2 /\ u[1] = t[2] /\ u[2] = t[3]
  BY SubSeqProperties
<1>3. w \in Seq(Nat) /\ Len(w) = 2 /\ w[1] = t[2] /\ w[2] = t[3]
  BY <1>1
<1> HIDE DEF u, w
<1>4. \A i \in 1 .. Len(u) : u[i] = w[i]
  BY <1>2, <1>3
<1>5. u = w
  BY <1>2, <1>3, <1>4, SeqEqual
<1>6. QED
  BY <1>5 DEF u, w

LEMMA FourOf ==
  ASSUME NEW t \in Seq(Nat), Len(t) > 4
  PROVE  SubSeq(t, 2, 5) = <<t[2], t[3], t[4], t[5]>>
<1> DEFINE u == SubSeq(t, 2, 5)
           w == <<t[2], t[3], t[4], t[5]>>
<1>1. t[2] \in Nat /\ t[3] \in Nat /\ t[4] \in Nat /\ t[5] \in Nat
  OBVIOUS
<1>2. /\ u \in Seq(Nat) /\ Len(u) = 4
      /\ u[1] = t[2] /\ u[2] = t[3] /\ u[3] = t[4] /\ u[4] = t[5]
  BY SubSeqProperties
<1>3. /\ w \in Seq(Nat) /\ Len(w) = 4
      /\ w[1] = t[2] /\ w[2] = t[3] /\ w[3] = t[4] /\ w[4] = t[5]
  BY <1>1
<1> HIDE DEF u, w
<1>4. \A i \in 1 .. Len(u) : u[i] = w[i]
  BY <1>2, <1>3
<1>5. u = w
  BY <1>2, <1>3, <1>4, SeqEqual
<1>6. QED
  BY <1>5 DEF u, w

LEMMA LongLength ==
  ASSUME NEW t, t # <<>>, ~(t[1] < Half), NEW n, t[1] - Half = n, n \in 1 .. MaxOctets,
         Len(t) > n, NEW m, m = n + 1, NEW v, v = BigEndian(SubSeq(t, 2, m))
  PROVE  DerReadLength(t) = [value |-> v, used |-> m]
BY Zenon DEF DerReadLength

LEMMA ReadsLong ==
  ASSUME NEW data \in Seq(Nat), Len(data) >= 2, NEW n \in Nat, n < Base * Base,
         data[2] = Half + 2,
         Len(data) >= 4 => data[3] = n \div Base /\ data[4] = n % Base
  PROVE  DerReadTlv(data) =
           IF Len(data) < 4 + n THEN NoTlv
           ELSE Tlv("read", data[1], SubSeq(data, 5, 4 + n), 4 + n)
<1> DEFINE t == Tail(data)
           hi == n \div Base
           lo == n % Base
<1>1. /\ data # <<>> /\ t # <<>> /\ t \in Seq(Nat) /\ t[1] = Half + 2
      /\ Len(t) = Len(data) - 1 /\ Len(data) \in Nat
      /\ \A i \in 1 .. Len(data) - 1 : t[i] = data[i + 1]
  BY AfterTag
<1> HIDE DEF t, hi, lo
<1>2. /\ ~(t[1] < Half) /\ t[1] - Half = 2 /\ 2 \in 1 .. MaxOctets
  BY <1>1, Sizes DEF MaxOctets
<1>3. CASE Len(data) < 4
  <2>1. ~(Len(t) > 2)
    BY <1>1, <1>3
  <2>2. DerReadLength(t) = NoLength
    BY <1>1, <1>2, <2>1 DEF DerReadLength
  <2>3. DerReadTlv(data) = NoTlv
    BY <2>2, ReadsNothing DEF t
  <2>4. Len(data) < 4 + n
    BY <1>1, <1>3
  <2>5. QED
    BY <2>3, <2>4
<1>4. CASE ~(Len(data) < 4)
  <2>1. Len(t) > 2 /\ t[2] = hi /\ t[3] = lo
    BY <1>1, <1>4 DEF hi, lo
  <2>2. SubSeq(t, 2, 3) = <<hi, lo>>
    BY <1>1, <2>1, TwoOf
  <2>3. BigEndian(<<hi, lo>>) = n
    BY TwoOctets DEF hi, lo
  <2>4. DerReadLength(t) = [value |-> n, used |-> 3]
    <3>1. 3 = 2 + 1
      OBVIOUS
    <3>2. n = BigEndian(SubSeq(t, 2, 3))
      BY <2>2, <2>3
    <3> DEFINE u == 3
    <3>3. u = 2 + 1 /\ n = BigEndian(SubSeq(t, 2, u))
      BY <3>1, <3>2
    <3> HIDE DEF u
    <3>4. DerReadLength(t) = [value |-> n, used |-> u]
      BY <1>1, <1>2, <2>1, <3>3, LongLength
    <3>5. QED
      BY <3>4 DEF u
  <2> DEFINE u == 3
             first == 5
             all == 4 + n
  <2>5. u \in Nat /\ u > 0 /\ first = u + 2 /\ all = 1 + u + n /\ all < Word
    BY Products, Sizes
  <2>6. DerReadLength(Tail(data)) = [value |-> n, used |-> u]
    BY <2>4 DEF t
  <2> HIDE DEF u, first, all
  <2>7. DerReadTlv(data) =
          IF Len(data) < all THEN NoTlv
          ELSE Tlv("read", data[1], SubSeq(data, first, all), all)
    <3>1. data # <<>>
      BY <1>1
    <3>2. QED
      BY <2>5, <2>6, <3>1, ReadsWithLength
  <2>8. QED
    BY <2>7 DEF u, first, all
<1>5. QED
  BY <1>3, <1>4

LEMMA ReadsNoOther ==
  ASSUME NEW data \in Seq(Nat),
         \/ Len(data) <= 1
         \/ data[2] = Half
         \/ data[2] = Half + 5
         \/ /\ data[2] = Half + 4 /\ Len(data) < Base * Base - 1
            /\ Len(data) >= 6 => \A i \in 3 .. 6 : data[i] = Base - 1
  PROVE  DerReadTlv(data).kind # "read"
<1> DEFINE t == Tail(data)
<1>0. NoTlv.kind # "read"
  BY DEF NoTlv, Tlv
<1>1. CASE Len(data) <= 1
  <2>1. data = <<>> \/ (data # <<>> /\ t = <<>>)
    <3>1. ASSUME data # <<>> PROVE t = <<>>
      <4>1. t \in Seq(Nat) /\ Len(t) = Len(data) - 1 /\ Len(data) \in Nat
        BY <3>1, HeadTailProperties
      <4> HIDE DEF t
      <4>2. QED
        BY <1>1, <4>1
    <3>2. QED
      BY <3>1
  <2>2. t = <<>> => DerReadLength(t) = NoLength
    BY DEF DerReadLength
  <2>3. QED
    BY <1>0, <2>1, <2>2, ReadsNothing
<1>2. CASE Len(data) > 1
  <2>1. /\ data # <<>> /\ t # <<>> /\ t \in Seq(Nat) /\ t[1] = data[2]
        /\ Len(t) = Len(data) - 1 /\ Len(data) \in Nat
        /\ \A i \in 1 .. Len(data) - 1 : t[i] = data[i + 1]
    BY <1>2, AfterTag
  <2> HIDE DEF t
  <2>2. CASE data[2] = Half \/ data[2] = Half + 5
    <3>1. ~(t[1] < Half) /\ t[1] - Half \notin 1 .. MaxOctets
      <4>1. CASE data[2] = Half
        BY <2>1, <4>1, Sizes DEF MaxOctets
      <4>2. CASE data[2] = Half + 5
        BY <2>1, <4>2, Sizes DEF MaxOctets
      <4>3. QED
        BY <2>2, <4>1, <4>2
    <3>2. DerReadLength(t) = NoLength
      BY <2>1, <3>1 DEF DerReadLength
    <3>3. QED
      BY <1>0, <3>2, ReadsNothing DEF t
  <2>3. CASE /\ data[2] = Half + 4 /\ Len(data) < Base * Base - 1
             /\ Len(data) >= 6 => \A i \in 3 .. 6 : data[i] = Base - 1
    <3>1. ~(t[1] < Half) /\ t[1] - Half = 4 /\ 4 \in 1 .. MaxOctets
      BY <2>1, <2>3, Sizes DEF MaxOctets
    <3>2. CASE Len(data) < 6
      <4>1. ~(Len(t) > 4)
        BY <2>1, <3>2
      <4>2. DerReadLength(t) = NoLength
        BY <2>1, <3>1, <4>1 DEF DerReadLength
      <4>3. QED
        BY <1>0, <4>2, ReadsNothing DEF t
    <3>3. CASE ~(Len(data) < 6)
      <4> DEFINE m == Base - 1
                 v == BigEndian(<<m, m, m, m>>)
      <4>1. Len(t) > 4 /\ t[2] = m /\ t[3] = m /\ t[4] = m /\ t[5] = m
        <5>0. Len(data) >= 6
          BY <2>1, <3>3
        <5>1. \A i \in 3 .. 6 : data[i] = Base - 1
          BY <2>3, <5>0, Zenon
        <5>2. Len(t) >= 5 /\ \A i \in 2 .. 5 : t[i] = data[i + 1] /\ i + 1 \in 3 .. 6
          <6>1. Len(t) >= 5 /\ \A i \in 2 .. 5 : i \in 1 .. Len(data) - 1 /\ i + 1 \in 3 .. 6
            BY <2>1, <5>0
          <6>2. \A i \in 1 .. Len(data) - 1 : t[i] = data[i + 1]
            BY <2>1, Zenon
          <6>3. QED
            BY <6>1, <6>2, Zenon
        <5>3. 2 \in 2 .. 5 /\ 3 \in 2 .. 5 /\ 4 \in 2 .. 5 /\ 5 \in 2 .. 5
          OBVIOUS
        <5>4. \A i \in 2 .. 5 : t[i] = m
          BY <5>1, <5>2
        <5>5. Len(t) > 4
          BY <2>1, <5>2
        <5>6. QED
          BY <5>3, <5>4, <5>5, Zenon
      <4>2. v \in Nat /\ v >= Base * Base - 1 /\ v < Word
        BY HugeOctets
      <4> HIDE DEF m, v
      <4>3. SubSeq(t, 2, 5) = <<m, m, m, m>>
        BY <2>1, <4>1, FourOf
      <4>4. BigEndian(SubSeq(t, 2, 5)) = v
        BY <4>3 DEF v
      <4>5. DerReadLength(t) = [value |-> v, used |-> 5]
        <5>1. 5 = 4 + 1
          OBVIOUS
        <5>2. QED
          BY <2>1, <3>1, <4>1, <4>4, <5>1, LongLength, Zenon
      <4> DEFINE u == 5
                 first == 7
                 all == 6 + v
                 S == Base * Base
      <4>6. u \in Nat /\ u > 0 /\ first = u + 2 /\ all = 1 + u + v /\ 1 + u < Word
        <5>1. \A x \in Nat : x > 0 => x * x > 0
          OBVIOUS
        <5>2. S > 0 /\ S \in Nat /\ Word > S + 5
          BY <5>1, Products, Sizes
        <5> HIDE DEF S
        <5>3. QED
          BY <4>2, <5>2, Sizes
      <4>7. DerReadLength(Tail(data)) = [value |-> v, used |-> u]
        BY <4>5 DEF t
      <4>8. v \in Nat /\ v >= S - 1 /\ S \in Nat /\ Len(data) < S - 1 /\ Len(data) \in Nat
        BY <2>1, <2>3, <4>2, Products
      <4> HIDE DEF S
      <4>9. Len(data) < all
        BY <4>8
      <4> HIDE DEF u, first, all
      <4>10. CASE all < Word
        <5>1. data # <<>> /\ v \in Nat
          BY <2>1, <4>2
        <5>2. DerReadTlv(data) = NoTlv
          BY <4>6, <4>7, <4>9, <4>10, <5>1, ReadsWithLength
        <5>3. QED
          BY <1>0, <5>2
      <4>11. CASE ~(all < Word)
        BY <4>2, <4>6, <4>7, <4>11, ReadsNoWrapped
      <4>12. QED
        BY <4>10, <4>11
    <3>4. QED
      BY <3>2, <3>3
  <2>4. QED
    BY <1>2, <2>1, <2>2, <2>3
<1>3. QED
  BY <1>1, <1>2, LenProperties

(* The bytes of an element, one by one. *)
LEMMA Parts ==
  ASSUME NEW tag \in Nat, NEW f \in Seq(Nat), NEW c \in Seq(Nat),
         NEW b, b = <<tag>> \o f \o c
  PROVE  /\ b \in Seq(Nat) /\ Len(f) \in Nat /\ Len(c) \in Nat
         /\ Len(b) = 1 + Len(f) + Len(c)
         /\ b[1] = tag
         /\ \A i \in 1 .. Len(f) : b[1 + i] = f[i]
         /\ \A j \in 1 .. Len(c) : b[1 + Len(f) + j] = c[j]
<1> DEFINE one == <<tag>>
           v == one \o f
<1>1. one \in Seq(Nat) /\ Len(one) = 1 /\ one[1] = tag
  OBVIOUS
<1>2. Len(f) \in Nat /\ Len(c) \in Nat
  OBVIOUS
<1> HIDE DEF one
<1>3. /\ v \in Seq(Nat) /\ Len(v) = 1 + Len(f)
      /\ \A i \in 1 .. 1 + Len(f) : v[i] = IF i <= 1 THEN one[i] ELSE f[i - 1]
  <2>1. /\ v \in Seq(Nat) /\ Len(v) = Len(one) + Len(f)
        /\ \A i \in 1 .. Len(one) + Len(f) :
             v[i] = IF i <= Len(one) THEN one[i] ELSE f[i - Len(one)]
    BY <1>1, ConcatProperties
  <2> HIDE DEF v
  <2>2. QED
    BY <1>1, <2>1
<1> HIDE DEF v
<1>4. /\ v \o c \in Seq(Nat) /\ Len(v \o c) = Len(v) + Len(c)
      /\ \A i \in 1 .. Len(v) + Len(c) :
           (v \o c)[i] = IF i <= Len(v) THEN v[i] ELSE c[i - Len(v)]
  BY <1>3, ConcatProperties
<1>5. b = v \o c
  BY DEF v, one
<1> HIDE DEF v
<1>6. b[1] = tag
  <2>1. 1 \in 1 .. Len(v) + Len(c) /\ 1 <= Len(v) /\ 1 \in 1 .. 1 + Len(f)
    BY <1>2, <1>3
  <2>2. QED
    BY <1>1, <1>3, <1>4, <1>5, <2>1
<1>7. ASSUME NEW i \in 1 .. Len(f) PROVE b[1 + i] = f[i]
  <2> DEFINE k == 1 + i
  <2>1. /\ k \in 1 .. Len(v) + Len(c) /\ k <= Len(v) /\ k \in 1 .. 1 + Len(f)
        /\ ~(k <= 1) /\ k - 1 = i
    BY <1>2, <1>3
  <2> HIDE DEF k
  <2>2. b[k] = f[i]
    BY <1>3, <1>4, <1>5, <2>1
  <2>3. QED
    BY <2>2 DEF k
<1>8. ASSUME NEW j \in 1 .. Len(c) PROVE b[1 + Len(f) + j] = c[j]
  <2> DEFINE k == 1 + Len(f) + j
  <2>1. k \in 1 .. Len(v) + Len(c) /\ ~(k <= Len(v)) /\ k - Len(v) = j
    BY <1>2, <1>3
  <2> HIDE DEF k
  <2>2. b[k] = c[j]
    BY <1>4, <1>5, <2>1
  <2>3. QED
    BY <2>2 DEF k
<1>9. QED
  BY <1>2, <1>3, <1>4, <1>5, <1>6, <1>7, <1>8

(* A slice is the string whose places it has. *)
LEMMA SliceIs ==
  ASSUME NEW data \in Seq(Nat), NEW c \in Seq(Nat), NEW first \in Nat, NEW last \in Nat,
         first >= 1, last = first - 1 + Len(c), last <= Len(data),
         \A j \in 1 .. Len(c) : data[first - 1 + j] = c[j]
  PROVE  SubSeq(data, first, last) = c
<1> DEFINE u == SubSeq(data, first, last)
<1>1. Len(c) \in Nat /\ Len(data) \in Nat
  OBVIOUS
<1>2. \A i \in first .. last : data[i] \in Nat
  BY <1>1
<1>3. /\ u \in Seq(Nat)
      /\ Len(u) = IF first <= last THEN last - first + 1 ELSE 0
      /\ \A i \in 1 .. last - first + 1 : u[i] = data[first + i - 1]
  BY <1>2, SubSeqProperties
<1> HIDE DEF u
<1>4. Len(u) = Len(c)
  BY <1>1, <1>3
<1>5. ASSUME NEW i \in 1 .. Len(u) PROVE u[i] = c[i]
  <2>1. i \in 1 .. last - first + 1 /\ i \in 1 .. Len(c) /\ first + i - 1 = first - 1 + i
    BY <1>1, <1>4
  <2>2. u[i] = data[first - 1 + i] /\ data[first - 1 + i] = c[i]
    BY <1>3, <2>1
  <2>3. QED
    BY <2>2
<1>6. u = c
  BY <1>3, <1>4, <1>5, SeqEqual
<1>7. QED
  BY <1>6 DEF u

(* Of the bytes of an entry as many as there are: read if all are there    *)
(* and the length is in a form the reader takes, and not read else.        *)
LEMMA EntryIsRead ==
  ASSUME NEW e \in NameEntry, e.form = "short" => Len(Join(e.labels)) < Half,
         NEW b, b = EntryBytes(e), Len(b) < Base * Base,
         NEW data \in Seq(Nat), Len(data) < Base * Base - 1,
         \A i \in 1 .. Len(data) : i <= Len(b) => data[i] = b[i]
  PROVE  IF e.form \in Readable /\ Len(b) <= Len(data)
         THEN DerReadTlv(data) = Tlv("read", e.tag, Join(e.labels), Len(b))
         ELSE DerReadTlv(data).kind # "read"
<1> DEFINE c == Join(e.labels)
           n == Len(c)
           f == LengthField(e.form, n)
<1>1. c \in Seq(Nat) /\ n \in Nat /\ e.tag \in Nat /\ e.form \in Forms
  BY JoinIsBytes, Sizes DEF NameEntry
<1>2. f \in Seq(Nat)
  BY <1>1, FieldIsNumbers
<1>3. b = <<e.tag>> \o f \o c
  BY DEF EntryBytes
<1> HIDE DEF c
<1>4. Len(data) \in Nat /\ NoTlv.kind # "read"
  BY DEF NoTlv, Tlv
<1> HIDE DEF f
<1>5. /\ b \in Seq(Nat) /\ Len(f) \in Nat
      /\ Len(b) = 1 + Len(f) + n
      /\ b[1] = e.tag
      /\ \A i \in 1 .. Len(f) : b[1 + i] = f[i]
      /\ \A j \in 1 .. n : b[1 + Len(f) + j] = c[j]
  BY <1>1, <1>2, <1>3, Parts
<1> HIDE DEF n
<1>6. ASSUME Len(b) <= Len(data)
      PROVE  /\ data[1] = e.tag
             /\ SubSeq(data, Len(f) + 2, Len(b)) = c
  <2>1. data[1] = e.tag
    BY <1>4, <1>5, <1>1, <1>6
  <2>2. ASSUME NEW j \in 1 .. Len(c) PROVE data[Len(f) + 2 - 1 + j] = c[j]
    <3> DEFINE k == 1 + Len(f) + j
    <3>1. k \in 1 .. Len(data) /\ k <= Len(b) /\ k = Len(f) + 2 - 1 + j /\ j \in 1 .. n
      BY <1>1, <1>4, <1>5, <1>6 DEF n
    <3>2. b[k] = c[j]
      BY <1>5, <3>1
    <3> HIDE DEF k
    <3>3. QED
      BY <3>1, <3>2
  <2>3. Len(b) = Len(f) + 2 - 1 + Len(c) /\ Len(f) + 2 \in Nat /\ Len(f) + 2 >= 1
        /\ Len(b) \in Nat
    BY <1>1, <1>5 DEF n
  <2>4. QED
    BY <1>1, <1>6, <2>1, <2>2, <2>3, SliceIs
<1>7. CASE e.form = "short"
  <2>1. Len(f) = 1 /\ f[1] = n
    BY <1>7 DEF f, LengthField
  <2>2. Len(b) = 2 + n
    BY <1>1, <1>5, <2>1
  <2>3. n < Half
    BY <1>7 DEF n, c
  <2>4. CASE Len(data) <= 1
    BY <1>1, <1>4, <2>2, <2>4, ReadsNoOther
  <2>5. CASE Len(data) >= 2
    <3>1. b[2] = n
      BY <1>5, <2>1
    <3>2. data[2] = n
      BY <1>1, <1>4, <2>2, <2>5, <3>1
    <3>3. DerReadTlv(data) =
            IF Len(data) < 2 + n THEN NoTlv
            ELSE Tlv("read", data[1], SubSeq(data, 3, 2 + n), 2 + n)
      BY <1>1, <2>3, <2>5, <3>2, ReadsShort
    <3>4. CASE Len(data) < Len(b)
      BY <1>1, <1>4, <2>2, <3>3, <3>4
    <3>5. CASE Len(b) <= Len(data)
      <4>1. SubSeq(data, 3, 2 + n) = c /\ data[1] = e.tag
        BY <1>6, <2>1, <2>2, <3>5
      <4>2. QED
        <5>1. ~(Len(data) < 2 + n)
          BY <1>1, <1>4, <2>2, <3>5
        <5>2. DerReadTlv(data) = Tlv("read", e.tag, c, 2 + n)
          BY <3>3, <4>1, <5>1
        <5>3. e.form \in Readable
          BY <1>7 DEF Readable
        <5>4. DerReadTlv(data) = Tlv("read", e.tag, c, Len(b))
          BY <2>2, <5>2
        <5>5. QED
          BY <3>5, <5>3, <5>4 DEF c
    <3>6. QED
      BY <1>1, <1>4, <2>2, <3>4, <3>5
  <2>6. QED
    BY <1>4, <2>4, <2>5
<1>8. CASE e.form = "long"
  <2>1. f = <<Half + 2, n \div Base, n % Base>>
    BY <1>8 DEF f, LengthField
  <2>2. Len(f) = 3 /\ f[1] = Half + 2 /\ f[2] = n \div Base /\ f[3] = n % Base
    BY <2>1
  <2>3. Len(b) = 4 + n /\ n < Base * Base
    <3> DEFINE S == Base * Base
    <3>1. S \in Nat /\ Len(b) < S
      BY Products
    <3> HIDE DEF S
    <3>2. Len(b) = 4 + n /\ n < S
      BY <1>1, <1>5, <2>2, <3>1
    <3>3. QED
      BY <3>2 DEF S
  <2>4. CASE Len(data) <= 1
    BY <1>1, <1>4, <2>3, <2>4, ReadsNoOther
  <2>5. CASE Len(data) >= 2
    <3>1. b[2] = Half + 2 /\ b[3] = n \div Base /\ b[4] = n % Base
      <4>1. b[1 + 1] = f[1] /\ b[1 + 2] = f[2] /\ b[1 + 3] = f[3]
        BY <1>5, <2>2
      <4>2. QED
        BY <2>2, <4>1
    <3>2. data[2] = Half + 2
      BY <1>1, <1>4, <2>3, <2>5, <3>1
    <3>3. ASSUME Len(data) >= 4 PROVE data[3] = n \div Base /\ data[4] = n % Base
      <4>1. data[3] = b[3] /\ data[4] = b[4]
        BY <1>1, <1>4, <2>3, <3>3
      <4>2. QED
        BY <3>1, <4>1
    <3>4. DerReadTlv(data) =
            IF Len(data) < 4 + n THEN NoTlv
            ELSE Tlv("read", data[1], SubSeq(data, 5, 4 + n), 4 + n)
      BY <1>1, <2>3, <2>5, <3>2, <3>3, ReadsLong
    <3>5. CASE Len(data) < Len(b)
      BY <1>1, <1>4, <2>3, <3>4, <3>5
    <3>6. CASE Len(b) <= Len(data)
      <4>1. SubSeq(data, 5, 4 + n) = c /\ data[1] = e.tag
        BY <1>6, <2>2, <2>3, <3>6
      <4>2. QED
        <5>1. ~(Len(data) < 4 + n)
          BY <1>1, <1>4, <2>3, <3>6
        <5>2. DerReadTlv(data) = Tlv("read", e.tag, c, 4 + n)
          BY <3>4, <4>1, <5>1
        <5>3. e.form \in Readable
          BY <1>8 DEF Readable
        <5>4. DerReadTlv(data) = Tlv("read", e.tag, c, Len(b))
          BY <2>3, <5>2
        <5>5. QED
          BY <3>6, <5>3, <5>4 DEF c
    <3>7. QED
      BY <1>1, <1>4, <2>3, <3>5, <3>6
  <2>6. QED
    BY <1>4, <2>4, <2>5
<1>9. CASE e.form \in {"indefinite", "five", "huge"}
  <2>1. e.form \notin Readable
    BY <1>9 DEF Readable
  <2>2. CASE Len(data) <= 1
    BY <2>1, <2>2, ReadsNoOther
  <2>3. CASE Len(data) >= 2
    <3>1. data[2] = f[1] /\ Len(f) >= 1
      <4>1. Len(f) >= 1
        BY <1>9 DEF f, LengthField
      <4>2. b[1 + 1] = f[1] /\ Len(b) >= 2
        BY <1>1, <1>5, <4>1
      <4>3. QED
        BY <1>4, <2>3, <4>1, <4>2
    <3>2. CASE e.form = "indefinite"
      <4>1. f[1] = Half
        BY <3>2 DEF f, LengthField
      <4>2. QED
        BY <2>1, <3>1, <4>1, ReadsNoOther
    <3>3. CASE e.form = "five"
      <4>1. f[1] = Half + 5
        BY <3>3 DEF f, LengthField
      <4>2. QED
        BY <2>1, <3>1, <4>1, ReadsNoOther
    <3>4. CASE e.form = "huge"
      <4>1. f = <<Half + 4, Base - 1, Base - 1, Base - 1, Base - 1>>
        BY <3>4 DEF f, LengthField
      <4>2. Len(f) = 5 /\ f[1] = Half + 4 /\ \A i \in 2 .. 5 : f[i] = Base - 1
        BY <4>1
      <4>3. ASSUME Len(data) >= 6, NEW i \in 3 .. 6 PROVE data[i] = Base - 1
        <5>1. i - 1 \in 1 .. Len(f) /\ i - 1 \in 2 .. 5 /\ 1 + (i - 1) = i
          BY <4>2
        <5>2. b[i] = Base - 1
          BY <1>5, <4>2, <5>1
        <5>3. i \in 1 .. Len(data) /\ i <= Len(b)
          <6>1. Len(b) = 6 + n
            BY <1>1, <1>5, <4>2
          <6>2. QED
            BY <1>1, <1>4, <4>3, <6>1
        <5>4. QED
          BY <5>2, <5>3
      <4>4. data[2] = Half + 4
        BY <3>1, <4>2
      <4>5. DerReadTlv(data).kind # "read"
        BY <4>3, <4>4, ReadsNoOther
      <4>6. QED
        BY <2>1, <4>5
    <3>5. QED
      BY <1>9, <3>2, <3>3, <3>4
  <2>4. QED
    BY <1>4, <2>2, <2>3
<1>10. QED
  BY <1>1, <1>7, <1>8, <1>9 DEF Forms

(* What is there of an extension is read if its wrapper is whole. *)
LEMMA KeptBytes ==
  ASSUME NEW san \in Extension
  PROVE  /\ san.entries \in Seq(NameEntry) /\ san.kept \in Nat
         /\ san.wrapper \in {"whole", "other_tag", "too_short"}
         /\ EntriesBytes(san.entries) \in Seq(Nat)
         /\ Len(EntriesBytes(san.entries)) \in Nat
         /\ san.kept <= Len(EntriesBytes(san.entries))
         /\ Len(EntriesBytes(san.entries)) < Base * Base - 1
         /\ \A i \in DOMAIN san.entries :
              san.entries[i].form = "short" => Len(Join(san.entries[i].labels)) < Half
         /\ SubSeq(EntriesBytes(san.entries), 1, san.kept) \in Seq(Nat)
         /\ Len(SubSeq(EntriesBytes(san.entries), 1, san.kept)) = san.kept
         /\ \A i \in 1 .. san.kept :
              SubSeq(EntriesBytes(san.entries), 1, san.kept)[i]
                = EntriesBytes(san.entries)[i]
<1> DEFINE E == EntriesBytes(san.entries)
           K == san.kept
<1>1. /\ san.entries \in Seq(NameEntry) /\ K \in Nat
      /\ san.wrapper \in {"whole", "other_tag", "too_short"}
      /\ K <= Len(E)
      /\ Len(E) < Base * Base - 1
      /\ \A i \in DOMAIN san.entries :
           san.entries[i].form = "short" => Len(Join(san.entries[i].labels)) < Half
  BY DEF Extension
<1>2. E \in Seq(Nat)
  BY <1>1, EntriesBytesOfAppend
<1> HIDE DEF E, K
<1>3. Len(E) \in Nat /\ \A i \in 1 .. K : E[i] \in Nat
  BY <1>1, <1>2
<1>4. /\ SubSeq(E, 1, K) \in Seq(Nat)
      /\ Len(SubSeq(E, 1, K)) = IF 1 <= K THEN K - 1 + 1 ELSE 0
      /\ \A i \in 1 .. K - 1 + 1 : SubSeq(E, 1, K)[i] = E[1 + i - 1]
  BY <1>1, <1>3, SubSeqProperties
<1>5. \A i \in 1 .. K : i \in 1 .. K - 1 + 1 /\ 1 + i - 1 = i
  BY <1>1
<1>6. QED
  BY <1>1, <1>2, <1>3, <1>4, <1>5 DEF E, K

LEMMA SanIsRead ==
  ASSUME NEW san \in Extension
  PROVE  DerInner(SanBytes(san), SeqTag) =
           IF san.wrapper = "whole"
           THEN Tlv("read", SeqTag, SubSeq(EntriesBytes(san.entries), 1, san.kept),
                    4 + san.kept)
           ELSE NoTlv
<1> DEFINE kept == SubSeq(EntriesBytes(san.entries), 1, san.kept)
           K == san.kept
           S == Base * Base
<1>1. /\ kept \in Seq(Nat) /\ Len(kept) = K /\ K \in Nat
      /\ S \in Nat /\ K + 1 < S
      /\ san.wrapper \in {"whole", "other_tag", "too_short"}
  <2> DEFINE L == Len(EntriesBytes(san.entries))
  <2>1. K <= L /\ L \in Nat /\ L < S - 1 /\ K \in Nat /\ S \in Nat
    BY KeptBytes, Products
  <2>2. kept \in Seq(Nat) /\ Len(kept) = K /\ san.wrapper \in {"whole", "other_tag", "too_short"}
    BY KeptBytes
  <2> HIDE DEF L, K, S, kept
  <2>3. K + 1 < S
    BY <2>1
  <2>4. QED
    BY <2>1, <2>2, <2>3
<1>2. SeqTag \in Nat /\ DnsTag \in Nat /\ SeqTag # DnsTag
  BY SanAssumption, Sizes
<1>3. SanBytes(san) =
        CASE san.wrapper = "whole"     -> <<SeqTag>> \o LengthField("long", Len(kept)) \o kept
          [] san.wrapper = "other_tag" -> <<DnsTag>> \o LengthField("long", Len(kept)) \o kept
          [] san.wrapper = "too_short" -> <<SeqTag>> \o LengthField("long", Len(kept) + 1) \o kept
  BY Zenon DEF SanBytes
<1> HIDE DEF kept, K
<1>4. ASSUME NEW tag \in Nat, NEW n \in Nat, n < S, NEW data,
             data = <<tag>> \o LengthField("long", n) \o kept
      PROVE  /\ data # <<>> /\ data[1] = tag
             /\ DerReadTlv(data) =
                  IF K < n THEN NoTlv ELSE Tlv("read", tag, SubSeq(data, 5, 4 + n), 4 + n)
             /\ n = K => SubSeq(data, 5, 4 + n) = kept
  <2> DEFINE f == LengthField("long", n)
  <2>1. f = <<Half + 2, n \div Base, n % Base>>
    BY DEF LengthField
  <2>2. Len(f) = 3 /\ f[1] = Half + 2 /\ f[2] = n \div Base /\ f[3] = n % Base
    BY <2>1
  <2>3. f \in Seq(Nat)
    BY FieldIsNumbers DEF Forms
  <2> HIDE DEF f
  <2>4. data = <<tag>> \o f \o kept
    BY <1>4 DEF f
  <2>5. /\ data \in Seq(Nat) /\ Len(data) = 1 + 3 + K
        /\ data[1] = tag
        /\ \A i \in 1 .. 3 : data[1 + i] = f[i]
        /\ \A j \in 1 .. K : data[1 + 3 + j] = kept[j]
    <3>1. /\ data \in Seq(Nat) /\ Len(data) = 1 + Len(f) + Len(kept)
          /\ data[1] = tag
          /\ \A i \in 1 .. Len(f) : data[1 + i] = f[i]
          /\ \A j \in 1 .. Len(kept) : data[1 + Len(f) + j] = kept[j]
      <4>1. kept \in Seq(Nat)
        BY <1>1
      <4>2. QED
        BY <2>3, <2>4, <4>1, Parts
    <3>2. Len(f) = 3 /\ Len(kept) = K
      BY <1>1, <2>2
    <3>3. QED
      BY <3>1, <3>2
  <2>6. Len(data) >= 2 /\ Len(data) = 4 + K /\ data # <<>>
    BY <1>1, <2>5
  <2>7. data[1 + 1] = f[1] /\ data[1 + 2] = f[2] /\ data[1 + 3] = f[3]
    BY <2>5
  <2>8. data[2] = Half + 2 /\ data[3] = n \div Base /\ data[4] = n % Base
    BY <2>2, <2>7
  <2>9. n < Base * Base
    BY <1>4
  <2>10. DerReadTlv(data) =
           IF Len(data) < 4 + n THEN NoTlv
           ELSE Tlv("read", data[1], SubSeq(data, 5, 4 + n), 4 + n)
    BY <2>5, <2>6, <2>8, <2>9, ReadsLong
  <2>11. Len(data) < 4 + n <=> K < n
    BY <1>1, <2>6
  <2>12. ASSUME n = K PROVE SubSeq(data, 5, 4 + n) = kept
    <3>1. \A j \in 1 .. Len(kept) : data[5 - 1 + j] = kept[j]
      <4> TAKE j \in 1 .. Len(kept)
      <4>1. j \in 1 .. K /\ 5 - 1 + j = 1 + 3 + j
        BY <1>1
      <4>2. QED
        BY <2>5, <4>1
    <3>2. 4 + n = 5 - 1 + Len(kept) /\ 4 + n <= Len(data) /\ 4 + n \in Nat
      BY <1>1, <2>6, <2>12
    <3> DEFINE last == 4 + n
    <3> HIDE DEF last
    <3>3. last = 5 - 1 + Len(kept) /\ last <= Len(data) /\ last \in Nat
      BY <3>2 DEF last
    <3>4. SubSeq(data, 5, last) = kept
      BY <1>1, <2>5, <3>1, <3>3, SliceIs
    <3>5. QED
      BY <3>4 DEF last
  <2>13. QED
    BY <2>5, <2>6, <2>10, <2>11, <2>12
<1>5. CASE san.wrapper = "whole"
  <2>1. SanBytes(san) = <<SeqTag>> \o LengthField("long", K) \o kept
    BY <1>1, <1>3, <1>5
  <2>2. K < S /\ ~(K < K)
    BY <1>1
  <2>3. /\ SanBytes(san) # <<>> /\ SanBytes(san)[1] = SeqTag
        /\ DerReadTlv(SanBytes(san)) = Tlv("read", SeqTag, kept, 4 + K)
    BY <1>1, <1>2, <1>4, <2>1, <2>2
  <2>4. QED
    BY <1>5, <2>3 DEF DerInner, kept, K
<1>6. CASE san.wrapper = "too_short"
  <2>1. SanBytes(san) = <<SeqTag>> \o LengthField("long", K + 1) \o kept
    BY <1>1, <1>3, <1>6
  <2>2. K + 1 < S /\ K < K + 1 /\ K + 1 \in Nat
    BY <1>1
  <2>3. DerReadTlv(SanBytes(san)) = NoTlv
    BY <1>2, <1>4, <2>1, <2>2
  <2>4. QED
    BY <1>6, <2>3 DEF DerInner
<1>7. CASE san.wrapper = "other_tag"
  <2>1. SanBytes(san) = <<DnsTag>> \o LengthField("long", K) \o kept
    BY <1>1, <1>3, <1>7
  <2>2. K < S
    BY <1>1
  <2>3. SanBytes(san)[1] = DnsTag
    BY <1>1, <1>2, <1>4, <2>1, <2>2
  <2>4. QED
    BY <1>2, <1>7, <2>3 DEF DerInner
<1>8. QED
  BY <1>1, <1>5, <1>6, <1>7

(* The bytes of the first entries are the first bytes of all. *)
UpTo(entries, k) == EntriesBytes(SubSeq(entries, 1, k))

LEMMA NoEntries ==
  ASSUME NEW entries \in Seq(NameEntry)
  PROVE  UpTo(entries, 0) = <<>> /\ UpTo(entries, Len(entries)) = EntriesBytes(entries)
<1>1. SubSeq(entries, 1, 0) = <<>>
  BY SubSeqEmpty
<1>2. SubSeq(entries, 1, Len(entries)) = entries
  BY SubSeqFull
<1>3. QED
  BY <1>1, <1>2, EntriesBytesOfAppend DEF UpTo

LEMMA OneEntryMore ==
  ASSUME NEW entries \in Seq(NameEntry), NEW k \in Nat, k + 1 <= Len(entries)
  PROVE  /\ UpTo(entries, k) \in Seq(Nat) /\ UpTo(entries, k + 1) \in Seq(Nat)
         /\ EntryBytes(entries[k + 1]) \in Seq(Nat)
         /\ UpTo(entries, k + 1) = UpTo(entries, k) \o EntryBytes(entries[k + 1])
<1> DEFINE m == k + 1
           s == SubSeq(entries, 1, k)
           t == SubSeq(entries, 1, m)
           x == entries[m]
<1>1. Len(entries) \in Nat /\ m \in 1 .. Len(entries)
  BY LenProperties
<1>2. x \in NameEntry
  BY <1>1
<1>3. s \in Seq(NameEntry) /\ t \in Seq(NameEntry)
  <2>1. /\ \A i \in 1 .. k : entries[i] \in NameEntry
        /\ \A i \in 1 .. m : entries[i] \in NameEntry
    BY <1>1
  <2>2. QED
    BY <1>1, <2>1, SubSeqProperties
<1>4. t = s \o <<x>>
  <2>1. 1 \in 1 .. Len(entries) /\ m - 1 = k
    BY <1>1
  <2>2. t = SubSeq(entries, 1, m - 1) \o <<x>>
    BY <1>1, <2>1, SubSeqRecursiveSecond
  <2>3. QED
    BY <2>1, <2>2
<1> HIDE DEF s, t, x
<1>5. t = Append(s, x)
  BY <1>2, <1>3, <1>4, AppendIsConcat
<1>6. /\ EntriesBytes(s) \in Seq(Nat) /\ EntriesBytes(t) \in Seq(Nat)
      /\ EntriesBytes(t) = EntriesBytes(s) \o EntryBytes(x)
  BY <1>2, <1>3, <1>5, EntriesBytesOfAppend
<1>7. EntryBytes(x) \in Seq(Nat)
  BY <1>2, EntryIsNumbers
<1>8. QED
  BY <1>6, <1>7 DEF UpTo, s, t, x, m

LEMMA EntriesGrow ==
  ASSUME NEW entries \in Seq(NameEntry), NEW k \in Nat, k <= Len(entries)
  PROVE  \A j \in Nat : k <= j /\ j <= Len(entries) =>
           /\ UpTo(entries, j) \in Seq(Nat)
           /\ Len(UpTo(entries, k)) <= Len(UpTo(entries, j))
           /\ \A i \in 1 .. Len(UpTo(entries, k)) :
                UpTo(entries, j)[i] = UpTo(entries, k)[i]
<1> DEFINE L == Len(entries)
           a == UpTo(entries, k)
           Good(j) == /\ UpTo(entries, j) \in Seq(Nat)
                      /\ Len(a) <= Len(UpTo(entries, j))
                      /\ \A i \in 1 .. Len(a) : UpTo(entries, j)[i] = a[i]
           S == {n \in Nat : k + n <= L => Good(k + n)}
<1>1. a \in Seq(Nat) /\ Len(a) \in Nat /\ L \in Nat
  <2>1. \A i \in 1 .. k : entries[i] \in NameEntry
    BY LenProperties
  <2>2. SubSeq(entries, 1, k) \in Seq(NameEntry)
    BY <2>1, SubSeqProperties
  <2>3. QED
    BY <2>2, EntriesBytesOfAppend, LenProperties DEF UpTo, a, L
<1> HIDE DEF a, L
<1>2. 0 \in S
  <2>1. k + 0 = k
    OBVIOUS
  <2>2. UpTo(entries, k) = a
    BY DEF a
  <2>3. QED
    BY <1>1, <2>1, <2>2
<1>3. ASSUME NEW n \in Nat, n \in S PROVE n + 1 \in S
  <2> SUFFICES ASSUME k + (n + 1) <= L PROVE Good(k + (n + 1))
    OBVIOUS
  <2> DEFINE j == k + n
             u == UpTo(entries, j)
             b == EntryBytes(entries[j + 1])
  <2>1. j \in Nat /\ j + 1 <= L /\ k + (n + 1) = j + 1
    BY <1>1
  <2>2. Good(j)
    <3>1. j <= L => Good(j)
      <4> HIDE DEF Good
      <4>1. QED
        BY <1>3
    <3>2. j <= L
      BY <1>1, <2>1
    <3>3. QED
      BY <3>1, <3>2
  <2>3. u \in Seq(Nat) /\ b \in Seq(Nat) /\ UpTo(entries, j + 1) = u \o b
    BY <2>1, OneEntryMore DEF L
  <2>4. Len(a) <= Len(u) /\ \A i \in 1 .. Len(a) : u[i] = a[i]
    BY <2>2
  <2> HIDE DEF u, b, j
  <2>5. /\ u \o b \in Seq(Nat) /\ Len(u \o b) = Len(u) + Len(b)
        /\ \A i \in 1 .. Len(u) + Len(b) :
             (u \o b)[i] = IF i <= Len(u) THEN u[i] ELSE b[i - Len(u)]
    BY <2>3, ConcatProperties
  <2>6. Len(u) \in Nat /\ Len(b) \in Nat
    BY <2>3
  <2> DEFINE w == u \o b
  <2> HIDE DEF w
  <2>7. w \in Seq(Nat) /\ Len(a) <= Len(w) /\ \A i \in 1 .. Len(a) : w[i] = a[i]
    BY <1>1, <2>4, <2>5, <2>6 DEF w
  <2>8. Good(j + 1)
    BY <2>3, <2>7 DEF w
  <2>9. QED
    BY <2>1, <2>8
<1> HIDE DEF S
<1>4. \A n \in Nat : n \in S
  BY <1>2, <1>3, AllNumbers
<1>5. ASSUME NEW j \in Nat, k <= j, j <= L PROVE Good(j)
  <2>1. j - k \in Nat /\ k + (j - k) = j
    BY <1>5
  <2>2. j - k \in S
    BY <1>4, <2>1
  <2> HIDE DEF Good
  <2>3. k + (j - k) <= L => Good(k + (j - k))
    BY <2>2 DEF S
  <2>4. QED
    BY <1>5, <2>1, <2>3
<1>6. QED
  BY <1>5 DEF a, L

(* What the walk reads behind the first k entries is the next entry, if    *)
(* its length is readable and it is there in full, and nothing else.       *)
LEMMA NextEntryIsRead ==
  ASSUME NEW san \in Extension, NEW k \in Nat, k + 1 <= Len(san.entries),
         Len(UpTo(san.entries, k)) <= san.kept
  PROVE  \A pos, next, names, e :
           /\ pos = Len(UpTo(san.entries, k)) /\ next = Len(UpTo(san.entries, k + 1))
           /\ names = SubSeq(EntriesBytes(san.entries), 1, san.kept)
           /\ e = san.entries[k + 1]
           => /\ e \in NameEntry /\ pos \in Nat /\ next \in Nat
              /\ Len(EntryBytes(e)) \in Nat /\ Len(EntryBytes(e)) > 0
              /\ next = pos + Len(EntryBytes(e))
              /\ LET entry == DerReadTlv(SubSeq(names, pos + 1, Len(names))) IN
                 IF e.form \in Readable /\ next <= san.kept
                 THEN entry = Tlv("read", e.tag, Join(e.labels), Len(EntryBytes(e)))
                 ELSE entry.kind # "read"
<1> DEFINE pos == Len(UpTo(san.entries, k))
           next == Len(UpTo(san.entries, k + 1))
           names == SubSeq(EntriesBytes(san.entries), 1, san.kept)
           e == san.entries[k + 1]
           entries == san.entries
           E == EntriesBytes(entries)
           K == san.kept
           b == EntryBytes(e)
           S == Base * Base
           u == UpTo(entries, k)
           w == UpTo(entries, k + 1)
           data == SubSeq(names, pos + 1, Len(names))
<1>1. /\ entries \in Seq(NameEntry) /\ K \in Nat /\ E \in Seq(Nat)
      /\ Len(E) \in Nat /\ K <= Len(E) /\ Len(E) < S - 1 /\ S \in Nat
      /\ names \in Seq(Nat) /\ Len(names) = K
      /\ \A i \in 1 .. K : names[i] = E[i]
  BY KeptBytes, Products
<1>2. Len(entries) \in Nat /\ k + 1 \in 1 .. Len(entries) /\ k + 1 \in Nat
  BY <1>1
<1>3. e \in NameEntry /\ (e.form = "short" => Len(Join(e.labels)) < Half)
  <2>1. k + 1 \in DOMAIN entries
    BY <1>1, <1>2
  <2>2. QED
    BY <1>1, <1>2, <2>1, KeptBytes
<1>4. u \in Seq(Nat) /\ w \in Seq(Nat) /\ b \in Seq(Nat) /\ w = u \o b
  BY <1>1, OneEntryMore
<1>5. Len(w) <= Len(E) /\ \A i \in 1 .. Len(w) : E[i] = w[i]
  <2>1. UpTo(entries, Len(entries)) = E
    BY <1>1, NoEntries
  <2>2. k + 1 <= Len(entries) /\ Len(entries) <= Len(entries)
    BY <1>2
  <2>3. /\ Len(UpTo(entries, k + 1)) <= Len(UpTo(entries, Len(entries)))
        /\ \A i \in 1 .. Len(UpTo(entries, k + 1)) :
             UpTo(entries, Len(entries))[i] = UpTo(entries, k + 1)[i]
    BY <1>1, <1>2, <2>2, EntriesGrow
  <2>4. QED
    BY <2>1, <2>3
<1>6. Len(b) > 0 /\ Len(b) \in Nat
  <2> DEFINE c == Join(e.labels)
             f == LengthField(e.form, Len(c))
  <2>1. /\ c \in Seq(Nat) /\ Len(c) \in Nat /\ e.tag \in Nat /\ e.form \in Forms
    BY <1>3, JoinIsBytes, Sizes DEF NameEntry
  <2>2. f \in Seq(Nat)
    BY <2>1, FieldIsNumbers
  <2>3. b = <<e.tag>> \o f \o c
    BY DEF EntryBytes
  <2> HIDE DEF c, f, b
  <2>4. Len(b) = 1 + Len(f) + Len(c) /\ Len(f) \in Nat
    BY <2>1, <2>2, <2>3, Parts
  <2>5. QED
    BY <2>1, <2>4
<1> HIDE DEF E, K, b, S, u, w, data, entries, pos, next, names, e
<1>7. pos = Len(u) /\ next = Len(w)
  BY DEF u, w, entries, pos, next
<1>8. /\ pos \in Nat /\ next = pos + Len(b) /\ next \in Nat
      /\ \A i \in 1 .. Len(b) : w[pos + i] = b[i]
  <2>1. /\ Len(w) = Len(u) + Len(b)
        /\ \A i \in 1 .. Len(u) + Len(b) :
             w[i] = IF i <= Len(u) THEN u[i] ELSE b[i - Len(u)]
    BY <1>4, ConcatProperties
  <2>2. Len(u) \in Nat
    BY <1>4
  <2>3. ASSUME NEW i \in 1 .. Len(b) PROVE w[pos + i] = b[i]
    <3> DEFINE j == pos + i
    <3>1. j \in 1 .. Len(u) + Len(b) /\ ~(j <= Len(u)) /\ j - Len(u) = i
      BY <1>6, <1>7, <2>2
    <3> HIDE DEF j
    <3>2. w[j] = b[i]
      BY <2>1, <3>1
    <3>3. QED
      BY <3>2 DEF j
  <2>4. QED
    BY <1>6, <1>7, <2>1, <2>2, <2>3
<1>9. pos <= K
  BY DEF K, pos
<1>10. /\ data \in Seq(Nat) /\ Len(data) = K - pos
       /\ \A i \in 1 .. K - pos : data[i] = names[pos + i]
  <2>1. \A i \in pos + 1 .. K : names[i] \in Nat
    BY <1>1, <1>8
  <2>2. /\ data \in Seq(Nat)
        /\ Len(data) = IF pos + 1 <= K THEN K - (pos + 1) + 1 ELSE 0
        /\ \A i \in 1 .. K - (pos + 1) + 1 : data[i] = names[(pos + 1) + i - 1]
    <3>1. data = SubSeq(names, pos + 1, K)
      BY <1>1 DEF data
    <3>2. K \in Int /\ pos + 1 \in Int
      BY <1>1, <1>8
    <3> DEFINE first == pos + 1
    <3> HIDE DEF first
    <3>3. /\ SubSeq(names, first, K) \in Seq(Nat)
          /\ Len(SubSeq(names, first, K)) = IF first <= K THEN K - first + 1 ELSE 0
          /\ \A i \in 1 .. K - first + 1 : SubSeq(names, first, K)[i] = names[first + i - 1]
      <4>1. first \in Int /\ K \in Int /\ \A i \in first .. K : names[i] \in Nat
        BY <2>1, <3>2 DEF first
      <4>2. QED
        BY <4>1, SubSeqProperties
    <3>4. QED
      BY <3>1, <3>3 DEF first
  <2>3. Len(data) = K - pos
    BY <1>1, <1>8, <1>9, <2>2
  <2>4. \A i \in 1 .. K - pos : i \in 1 .. K - (pos + 1) + 1 /\ (pos + 1) + i - 1 = pos + i
    BY <1>1, <1>8
  <2>5. QED
    BY <2>2, <2>3, <2>4
<1>11. ASSUME NEW i \in 1 .. Len(data), i <= Len(b) PROVE data[i] = b[i]
  <2> DEFINE j == pos + i
  <2>1. i \in 1 .. K - pos /\ i \in 1 .. Len(b) /\ j \in 1 .. K /\ j \in 1 .. Len(w)
    BY <1>1, <1>6, <1>7, <1>8, <1>9, <1>10, <1>11
  <2>2. w[j] = b[i] /\ data[i] = names[j]
    BY <1>8, <1>10, <2>1
  <2> HIDE DEF j
  <2>3. names[j] = E[j] /\ E[j] = w[j]
    BY <1>1, <1>5, <2>1
  <2>4. QED
    BY <2>2, <2>3
<1>12. Len(b) < S /\ Len(data) < S - 1 /\ (Len(b) <= Len(data) <=> next <= K)
  <2>1. /\ Len(data) = K - pos /\ next = pos + Len(b) /\ next <= Len(E)
        /\ pos \in Nat /\ K \in Nat /\ Len(E) \in Nat /\ Len(b) \in Nat /\ S \in Nat
        /\ K <= Len(E) /\ Len(E) < S - 1 /\ pos <= K
    BY <1>1, <1>5, <1>6, <1>7, <1>8, <1>9, <1>10
  <2> DEFINE d == Len(data)
             m == Len(E)
             n == Len(b)
  <2> HIDE DEF d, m, n
  <2>2. n < S /\ d < S - 1 /\ (n <= d <=> next <= K)
    BY <2>1 DEF d, m, n
  <2>3. QED
    BY <2>2 DEF d, n
<1>13. IF e.form \in Readable /\ Len(b) <= Len(data)
       THEN DerReadTlv(data) = Tlv("read", e.tag, Join(e.labels), Len(b))
       ELSE DerReadTlv(data).kind # "read"
  <2>1. b = EntryBytes(e) /\ Len(b) < Base * Base /\ Len(data) < Base * Base - 1
    BY <1>12 DEF b, S
  <2>2. data \in Seq(Nat)
    BY <1>10
  <2>3. \A i \in 1 .. Len(data) : i <= Len(b) => data[i] = b[i]
    BY <1>11
  <2>4. QED
    BY <1>3, <2>1, <2>2, <2>3, EntryIsRead, Zenon
<1>14. QED
  <2>1. /\ e \in NameEntry /\ pos \in Nat /\ next \in Nat
        /\ Len(EntryBytes(e)) \in Nat /\ Len(EntryBytes(e)) > 0
        /\ next = pos + Len(EntryBytes(e))
        /\ LET entry == DerReadTlv(SubSeq(names, pos + 1, Len(names))) IN
           IF e.form \in Readable /\ next <= san.kept
           THEN entry = Tlv("read", e.tag, Join(e.labels), Len(EntryBytes(e)))
           ELSE entry.kind # "read"
    BY <1>3, <1>6, <1>8, <1>12, <1>13 DEF b, K, data
  <2>2. QED
    BY <2>1, Zenon DEF pos, next, names, e

(* Every extension is a string of bytes. *)
LEMMA FieldIsBytes ==
  ASSUME NEW form \in Forms, NEW n \in Nat, n < Base * Base,
         form = "short" => n < Half
  PROVE  LengthField(form, n) \in Seq(Byte)
<1>1. n \div Base \in Byte /\ n % Base \in Byte
  <2> DEFINE S == Base * Base
             q == n \div Base
             x == n % Base
  <2>1. Base \in Nat /\ Base > 0 /\ S \in Nat
    BY Sizes, Products
  <2>2. q \in Nat /\ x \in Nat /\ x < Base
    BY <2>1
  <2>3. n = q * Base + x
    BY Products
  <2>4. \A y \in Nat : y >= Base => y * Base >= Base * Base
    BY <2>1
  <2> HIDE DEF q, x
  <2>5. q * Base \in Nat /\ (q >= Base => q * Base >= S)
    BY <2>1, <2>2, <2>4
  <2>6. q < Base
    <3> DEFINE p == q * Base
    <3> HIDE DEF p, S
    <3>1. n = p + x /\ p \in Nat /\ (q >= Base => p >= S) /\ n < S
      BY <2>3, <2>5 DEF p, S
    <3>2. QED
      BY <2>1, <2>2, <3>1
  <2>7. QED
    BY <2>1, <2>2, <2>6 DEF Byte, q, x
<1>2. {0, Base - 1, Half, Half + 2, Half + 4, Half + 5} \subseteq Byte
  BY Sizes DEF Byte
<1>3. form = "short" => n \in Byte
  BY Sizes DEF Byte
<1> DEFINE hi == n \div Base
           lo == n % Base
<1> HIDE DEF hi, lo
<1>4. hi \in Byte /\ lo \in Byte
  BY <1>1 DEF hi, lo
<1>5. CASE form = "short"
  BY <1>3, <1>5 DEF LengthField
<1>6. CASE form = "long"
  BY <1>2, <1>4, <1>6 DEF LengthField, hi, lo
<1>7. CASE form = "indefinite"
  BY <1>2, <1>7 DEF LengthField
<1>8. CASE form = "huge"
  BY <1>2, <1>8 DEF LengthField
<1>9. CASE form = "five"
  BY <1>2, <1>4, <1>9 DEF LengthField, hi, lo
<1>10. QED
  BY <1>5, <1>6, <1>7, <1>8, <1>9 DEF Forms

LEMMA EntryIsBytes ==
  ASSUME NEW e \in NameEntry, e.form = "short" => Len(Join(e.labels)) < Half,
         Len(EntryBytes(e)) < Base * Base
  PROVE  EntryBytes(e) \in Seq(Byte)
<1> DEFINE c == Join(e.labels)
           n == Len(c)
           f == LengthField(e.form, n)
           b == EntryBytes(e)
           S == Base * Base
<1>1. /\ c \in Seq(Byte) /\ c \in Seq(Nat) /\ n \in Nat /\ e.form \in Forms
      /\ e.tag \in Byte /\ e.tag \in Nat
  BY JoinIsBytes, Sizes DEF NameEntry
<1>2. f \in Seq(Nat)
  BY <1>1, FieldIsNumbers
<1>3. b = <<e.tag>> \o f \o c
  BY DEF EntryBytes
<1>4. Len(b) < S /\ S \in Nat /\ (e.form = "short" => n < Half)
  BY Products
<1> HIDE DEF c, f, b, S
<1>5. Len(b) = 1 + Len(f) + Len(c) /\ Len(f) \in Nat
  BY <1>1, <1>2, <1>3, Parts
<1>6. n < S
  BY <1>1, <1>4, <1>5
<1>7. f \in Seq(Byte)
  BY <1>1, <1>4, <1>6, FieldIsBytes DEF S, f
<1>8. <<e.tag>> \in Seq(Byte)
  BY <1>1
<1>9. <<e.tag>> \o f \in Seq(Byte)
  BY <1>7, <1>8, ConcatProperties
<1>10. b \in Seq(Byte)
  BY <1>1, <1>3, <1>9, ConcatProperties
<1>11. QED
  BY <1>10 DEF b

LEMMA NamesAreBytes ==
  ASSUME NEW san \in Extension
  PROVE  SubSeq(EntriesBytes(san.entries), 1, san.kept) \in Seq(Byte)
<1> DEFINE entries == san.entries
           E == EntriesBytes(entries)
           S == Base * Base
           L == Len(entries)
           Good(k) == k <= L => UpTo(entries, k) \in Seq(Byte)
           G == {k \in Nat : Good(k)}
<1>1. /\ entries \in Seq(NameEntry) /\ E \in Seq(Nat)
      /\ Len(E) \in Nat /\ Len(E) < S - 1 /\ S \in Nat /\ L \in Nat
      /\ san.kept \in Nat /\ san.kept <= Len(E)
      /\ \A i \in 1 .. L : entries[i].form = "short" => Len(Join(entries[i].labels)) < Half
  BY KeptBytes, Products
<1>2. UpTo(entries, 0) = <<>> /\ UpTo(entries, L) = E
  BY <1>1, NoEntries
<1>3. 0 \in G
  <2>1. <<>> \in Seq(Byte)
    OBVIOUS
  <2>2. QED
    BY <1>2, <2>1
<1>4. ASSUME NEW k \in Nat, k \in G PROVE k + 1 \in G
  <2> SUFFICES ASSUME k + 1 <= L PROVE UpTo(entries, k + 1) \in Seq(Byte)
    OBVIOUS
  <2> DEFINE b == EntryBytes(entries[k + 1])
             u == UpTo(entries, k)
             w == UpTo(entries, k + 1)
  <2>1. k <= L /\ k + 1 \in 1 .. L /\ k + 1 \in Nat /\ L <= L
    BY <1>1
  <2>2. u \in Seq(Byte)
    <3>1. Good(k)
      BY <1>4
    <3> HIDE DEF L, entries
    <3>2. QED
      BY <2>1, <3>1
  <2>3. u \in Seq(Nat) /\ b \in Seq(Nat) /\ w = u \o b /\ w \in Seq(Nat)
    BY <1>1, OneEntryMore
  <2>4. Len(w) <= Len(E)
    BY <1>1, <1>2, <2>1, EntriesGrow
  <2>5. entries[k + 1] \in NameEntry
        /\ (entries[k + 1].form = "short" => Len(Join(entries[k + 1].labels)) < Half)
    BY <1>1, <2>1
  <2> HIDE DEF u, w, E, S, b
  <2>6. Len(w) = Len(u) + Len(b) /\ Len(u) \in Nat /\ Len(b) \in Nat
    BY <2>3, ConcatProperties, LenProperties
  <2>7. Len(b) < S
    BY <1>1, <2>4, <2>6
  <2>8. b \in Seq(Byte)
    BY <2>5, <2>7, EntryIsBytes DEF b, S
  <2>9. w \in Seq(Byte)
    BY <2>2, <2>3, <2>8, ConcatProperties
  <2>10. QED
    BY <2>9 DEF w
<1> HIDE DEF G
<1>5. \A k \in Nat : k \in G
  BY <1>3, <1>4, AllNumbers
<1>6. E \in Seq(Byte)
  BY <1>1, <1>2, <1>5 DEF G
<1> HIDE DEF E
<1>7. \A i \in 1 .. san.kept : E[i] \in Byte
  BY <1>1, <1>6
<1>8. SubSeq(E, 1, san.kept) \in Seq(Byte)
  BY <1>1, <1>7, SubSeqProperties
<1>9. QED
  BY <1>8 DEF E

(* One octet more is at most a factor of Base more. *)
Below(n, x) == \A s \in Seq(Byte) : Len(s) = n => BigEndian(s) \in Nat /\ BigEndian(s) < x

LEMMA OneOctetMore ==
  ASSUME NEW n \in Nat, NEW x \in Nat, Below(n, x)
  PROVE  Below(n + 1, x * Base)
<1> SUFFICES ASSUME NEW s \in Seq(Byte), Len(s) = n + 1
             PROVE  BigEndian(s) \in Nat /\ BigEndian(s) < x * Base
  BY DEF Below
<1> DEFINE f == SubSeq(s, 1, n)
           o == s[n + 1]
           v == BigEndian(f)
<1>1. n + 1 \in 1 .. Len(s) /\ 1 \in 1 .. Len(s) /\ (n + 1) - 1 = n /\ o \in Byte
  OBVIOUS
<1>2. f \in Seq(Byte) /\ Len(f) = n
  BY SubSeqProperties
<1>3. s = f \o <<o>>
  <2>1. SubSeq(s, 1, n + 1) = s
    BY SubSeqFull
  <2>2. SubSeq(s, 1, n + 1) = SubSeq(s, 1, (n + 1) - 1) \o <<s[n + 1]>>
    BY <1>1, SubSeqRecursiveSecond
  <2>3. QED
    BY <1>1, <2>1, <2>2
<1> HIDE DEF f, o
<1>4. s = Append(f, o)
  BY <1>1, <1>2, <1>3, AppendIsConcat
<1>5. v \in Nat /\ v < x
  BY <1>2 DEF Below
<1>6. BigEndian(s) = (v * Base + o) % Word
  <2>1. f \in Seq(Nat) /\ o \in Nat
    BY <1>1, <1>2, Sizes, SeqMonotonic
  <2>2. QED
    BY <1>4, <2>1, BigEndianOfAppend DEF Shifted
<1> HIDE DEF v
<1>7. v * Base + o \in Nat /\ v * Base + o < x * Base
  <2>1. Base \in Nat /\ o \in Nat /\ o < Base
    BY <1>1, Sizes DEF Byte
  <2>2. (v + 1) * Base <= x * Base /\ (v + 1) * Base = v * Base + Base /\ v * Base \in Nat
        /\ x * Base \in Nat
    BY <1>5, <2>1
  <2> DEFINE p == v * Base
             q == x * Base
  <2> HIDE DEF p, q
  <2>3. p + Base <= q /\ p \in Nat /\ q \in Nat
    BY <2>2 DEF p, q
  <2>4. p + o \in Nat /\ p + o < q
    BY <2>1, <2>3
  <2>5. QED
    BY <2>4 DEF p, q
<1>8. \A y \in Nat : y % Word \in Nat /\ y % Word <= y
  BY Sizes
<1> DEFINE y == v * Base + o
           q == x * Base
<1>9. q \in Nat
  BY Sizes
<1> HIDE DEF y, q
<1>10. y % Word \in Nat /\ y % Word < q
  BY <1>7, <1>8, <1>9 DEF y, q
<1>11. QED
  BY <1>6, <1>10 DEF y, q

LEMMA FourOctets ==
  ASSUME NEW octets \in Seq(Byte), Len(octets) \in 1 .. MaxOctets
  PROVE  /\ BigEndian(octets) \in Nat
         /\ BigEndian(octets) < Base * Base * Base * Base
<1> DEFINE B == Base
           S == B * B
           C == S * B
           D == C * B
           v == BigEndian(octets)
<1>1. B \in Nat /\ B > 1
  BY Sizes
<1>2. \A x \in Nat : x * B \in Nat /\ x * B >= x /\ 1 * B = B
  BY <1>1
<1>3. S \in Nat /\ C \in Nat /\ D \in Nat /\ S >= B /\ C >= S /\ D >= C
  BY <1>1, <1>2
<1>4. Below(0, 1)
  <2>1. \A s \in Seq(Byte) : Len(s) = 0 => s = <<>>
    BY EmptySeq
  <2>2. BigEndian(<<>>) = 0
    BY BigEndianOfAppend
  <2>3. QED
    BY <2>1, <2>2 DEF Below
<1>5. Below(1, B) /\ Below(2, S) /\ Below(3, C) /\ Below(4, D)
  <2>1. Below(0 + 1, 1 * B)
    BY <1>4, OneOctetMore
  <2>2. Below(1, B)
    BY <1>2, <2>1
  <2>3. Below(1 + 1, B * B)
    BY <1>1, <2>2, OneOctetMore
  <2>4. Below(2 + 1, S * B)
    BY <1>3, <2>3, OneOctetMore
  <2>5. Below(3 + 1, C * B)
    BY <1>3, <2>4, OneOctetMore
  <2>6. QED
    BY <2>2, <2>3, <2>4, <2>5
<1> HIDE DEF B, S, C, D
<1>6. Len(octets) \in {1, 2, 3, 4}
  BY DEF MaxOctets
<1>7. v \in Nat /\ (v < B \/ v < S \/ v < C \/ v < D)
  BY <1>5, <1>6 DEF Below
<1> HIDE DEF v
<1>8. v < D
  BY <1>1, <1>3, <1>7
<1>9. QED
  BY <1>7, <1>8 DEF v, D, C, S, B

(* Where a usize has 64 bits, no string of bytes whatever makes der_inner  *)
(* or der_read_tlv slice out of range.                                     *)
THEOREM WideReaderNeverPanics ==
  ASSUME Wide, NEW data \in Seq(Byte)
  PROVE  /\ DerReadTlv(data).kind # "panic"
         /\ \A tag : DerInner(data, tag).kind # "panic"
<1> DEFINE length == DerReadLength(Tail(data))
           start == 1 + length.used
           total == (start + length.value) % Word
           v == length.value
           u == length.used
           D == Base * Base * Base * Base
<1>1. DerReadTlv(data) =
        IF data = <<>> \/ length.used = 0 \/ Len(data) < total THEN NoTlv
        ELSE Sliced(data, start, total)
  BY Zenon DEF DerReadTlv
<1>2. NoTlv.kind # "panic" /\ \A tag, c, n : Tlv("read", tag, c, n).kind # "panic"
  BY DEF NoTlv, Tlv
<1>3. Word \in Nat /\ D \in Nat /\ Word > D + 5 /\ D > Base
  <2>1. \A x \in Nat : x > 1 => x * Base \in Nat /\ x * Base > x
    BY Sizes
  <2> DEFINE S == Base * Base
             C == S * Base
  <2>2. Base \in Nat /\ Base > 1
    BY Sizes
  <2>3. S \in Nat /\ S > Base
    BY <2>1, <2>2
  <2> HIDE DEF S
  <2>4. C \in Nat /\ C > S
    BY <2>1, <2>2, <2>3
  <2> HIDE DEF C
  <2>5. C * Base \in Nat /\ C * Base > C
    BY <2>1, <2>2, <2>3, <2>4
  <2>6. D = C * Base
    BY DEF C, S
  <2>7. Word > D + 4 + 1 /\ Word \in Nat
    BY Sizes DEF Wide, MaxOctets
  <2> HIDE DEF D
  <2>8. QED
    BY <2>2, <2>3, <2>4, <2>5, <2>6, <2>7
<1>4. ASSUME data # <<>>
      PROVE  v \in Nat /\ u \in Nat /\ u <= 5 /\ v < D
  <2> DEFINE t == Tail(data)
  <2>1. t \in Seq(Byte)
    BY <1>4
  <2> HIDE DEF t
  <2>0. 0 < D
    <3> HIDE DEF D
    <3>1. QED
      BY <1>3, Sizes
  <2>2. CASE t = <<>>
    <3>1. length = NoLength
      BY <2>2 DEF DerReadLength, t
    <3> HIDE DEF length, D
    <3>2. QED
      BY <2>0, <3>1 DEF NoLength
  <2>3. CASE t # <<>> /\ t[1] < Half
    <3>1. t[1] \in Nat /\ t[1] < D
      <4> HIDE DEF D
      <4>1. t[1] \in Byte
        BY <2>1, <2>3
      <4> DEFINE x == t[1]
      <4>2. x \in Nat /\ x < Half
        BY <2>3, <4>1, Sizes, Zenon
      <4> HIDE DEF x
      <4>3. x \in Nat /\ x < D
        BY <1>3, <4>2, Sizes
      <4>4. QED
        BY <4>3 DEF x
    <3>2. length = [value |-> t[1], used |-> 1]
      BY <2>3 DEF DerReadLength, t
    <3>3. QED
      BY <3>1, <3>2
  <2>4. CASE t # <<>> /\ ~(t[1] < Half)
    <3> DEFINE n == t[1] - Half
               s == SubSeq(t, 2, n + 1)
    <3>1. length = IF n \in 1 .. MaxOctets /\ Len(t) > n
                   THEN [value |-> BigEndian(s), used |-> n + 1]
                   ELSE NoLength
      BY <2>4, Zenon DEF DerReadLength, t
    <3>2. CASE n \in 1 .. MaxOctets /\ Len(t) > n
      <4>1. n \in 1 .. 4
        BY <3>2 DEF MaxOctets
      <4> DEFINE m == n + 1
      <4> HIDE DEF n
      <4>2. m \in Nat /\ m >= 2 /\ m <= 5 /\ m <= Len(t) /\ m - 1 \in 1 .. 4
        BY <2>1, <3>2, <4>1
      <4> HIDE DEF m
      <4>3. \A i \in 2 .. m : t[i] \in Byte
        BY <2>1, <4>2
      <4>4. SubSeq(t, 2, m) \in Seq(Byte) /\ Len(SubSeq(t, 2, m)) = m - 1
        BY <4>2, <4>3, SubSeqProperties
      <4>5. s \in Seq(Byte) /\ Len(s) \in 1 .. MaxOctets
        BY <4>2, <4>4 DEF m, MaxOctets
      <4> HIDE DEF s
      <4>6. BigEndian(s) \in Nat /\ BigEndian(s) < D
        BY <4>5, FourOctets
      <4>7. length = [value |-> BigEndian(s), used |-> m]
        BY <3>1, <3>2 DEF m
      <4> HIDE DEF length, D
      <4>8. QED
        BY <4>2, <4>6, <4>7
    <3>3. CASE ~(n \in 1 .. MaxOctets /\ Len(t) > n)
      <4>1. length = NoLength
        BY <3>1, <3>3
      <4> HIDE DEF length, D
      <4>2. QED
        BY <1>3, <4>1, Sizes DEF NoLength
    <3>4. QED
      BY <3>2, <3>3
  <2>5. QED
    BY <2>2, <2>3, <2>4
<1>5. \A x \in Nat : x < Word => x % Word = x
  BY Sizes
<1> HIDE DEF D, length
<1>6. ASSUME data # <<>> PROVE ~(total < start)
  <2>1. start + v \in Nat /\ start + v < Word /\ start + v >= start
    BY <1>3, <1>4, <1>6
  <2>2. total = (start + v) % Word
    OBVIOUS
  <2> DEFINE y == start + v
  <2>3. y \in Nat /\ y < Word /\ start <= y /\ start \in Nat /\ total = y % Word
    BY <1>4, <1>6, <2>1, <2>2
  <2> HIDE DEF y, start, total
  <2>4. total = y
    BY <1>5, <2>3
  <2>5. QED
    BY <2>3, <2>4
<1> HIDE DEF start, total
<1>7. DerReadTlv(data).kind # "panic"
  <2>1. CASE data = <<>> \/ length.used = 0 \/ Len(data) < total
    BY <1>1, <1>2, <2>1
  <2>2. CASE ~(data = <<>> \/ length.used = 0 \/ Len(data) < total)
    <3>1. ~(total < start \/ Len(data) < total)
      BY <1>6, <2>2
    <3>2. DerReadTlv(data) = Tlv("read", data[1], SubSeq(data, start + 1, total), total)
      BY <1>1, <2>2, <3>1 DEF Sliced
    <3>3. QED
      BY <1>2, <3>2
  <2>3. QED
    BY <2>1, <2>2
<1>8. QED
  BY <1>2, <1>7 DEF DerInner

(* Behind the last entry there is nothing to read. *)
LEMMA NothingBehind ==
  ASSUME NEW san \in Extension
  PROVE  ~(Len(UpTo(san.entries, Len(san.entries))) < san.kept)
<1>1. /\ UpTo(san.entries, Len(san.entries)) = EntriesBytes(san.entries)
      /\ san.kept <= Len(EntriesBytes(san.entries))
      /\ san.kept \in Nat /\ Len(EntriesBytes(san.entries)) \in Nat
  BY KeptBytes, NoEntries
<1>2. QED
  BY <1>1

=============================================================================

------------------------- MODULE AttestationProofs --------------------------
(***************************************************************************)
(* Proofs about Attestation, for all lists of records, chains, names and   *)
(* roots: a record comes out as verified exactly if it is genuine, the     *)
(* reader never panics where a usize is wide, the hash is over the keys of *)
(* the genuine chains in their order, and different records whose parts    *)
(* are not too long have different bytes.                                  *)
(***************************************************************************)
EXTENDS Attestation, SubjectAltNameProofs

-----------------------------------------------------------------------------
(* What the checks, one by one, say of a record. *)

Verdict(record) ==
  IF Genuine(record)
  THEN Record(record.chain, TRUE, record.host, record.chain[1].notAfter)
  ELSE Record(<<>>, FALSE, <<>>, 0)

Begun(record) ==
  /\ record.chain # <<>>
  /\ Join(record.host) # <<>>
  /\ \A i \in 1 .. Len(record.chain) : record.chain[i].parses
  /\ SpkiIsP256(record.chain[1])

LinkedTo(chain, n) == \A i \in 1 .. n - 1 : VerifyCertSig(chain[i], chain[i + 1])

LEMMA TrustedIsChecked ==
  ASSUME NEW chain \in Seq(Certificate), chain # <<>>
  PROVE  Trusted(chain) <=>
           /\ \A i \in 1 .. Len(chain) : chain[i].parses
           /\ SpkiIsP256(chain[1])
           /\ LinkedTo(chain, Len(chain))
           /\ IsSignedByMozillaRoot(chain[Len(chain)])
<1> DEFINE n == Len(chain)
           Keys == Roots \cup {chain[j].spki : j \in DOMAIN chain}
           Vouches(i, key) == \/ VerifiesUnder(chain[i], key)
                                 /\ (i < n => key = chain[i + 1].spki)
                                 /\ (i = n => key \in Roots)
                              \/ i = n /\ chain[i].spki \in Roots
<1>1. DOMAIN chain = 1 .. n /\ n \in Nat /\ n >= 1
  BY LenProperties, EmptySeq
<1>2. ASSUME NEW i \in 1 .. n, i < n
      PROVE  (\E key \in Keys : Vouches(i, key)) <=> VerifyCertSig(chain[i], chain[i + 1])
  <2>1. chain[i + 1].spki \in Keys /\ i # n
    BY <1>1, <1>2
  <2> HIDE DEF Keys
  <2>2. QED
    BY <1>2, <2>1 DEF VerifyCertSig
<1>3. (\E key \in Keys : Vouches(n, key)) <=> IsSignedByMozillaRoot(chain[n])
  <2>1. chain[n].spki \in Keys /\ Roots \subseteq Keys /\ ~(n < n)
    BY <1>1
  <2> HIDE DEF Keys, n
  <2>2. QED
    BY <2>1 DEF IsSignedByMozillaRoot
<1>4. Trusted(chain) <=>
        /\ \A i \in 1 .. n : chain[i].parses
        /\ SpkiIsP256(chain[1])
        /\ \A i \in 1 .. n : \E key \in Keys : Vouches(i, key)
  BY <1>1 DEF Trusted, SpkiIsP256
<1>5. (\A i \in 1 .. n : \E key \in Keys : Vouches(i, key)) <=>
        /\ \A i \in 1 .. n - 1 : \E key \in Keys : Vouches(i, key)
        /\ \E key \in Keys : Vouches(n, key)
  <2> HIDE DEF Keys, Vouches
  <2>1. \A i : i \in 1 .. n <=> i \in 1 .. n - 1 \/ i = n
    BY <1>1
  <2>2. QED
    BY <2>1, Zenon
<1>6. \A i \in 1 .. n - 1 : i \in 1 .. n /\ i < n
  BY <1>1
<1> HIDE DEF Keys, Vouches
<1>7. QED
  BY <1>2, <1>3, <1>4, <1>5, <1>6 DEF LinkedTo, n

(* The walk along the first extension of a leaf: what is known of it when  *)
(* the first k entries are read.                                           *)

Names(san) == SubSeq(EntriesBytes(san.entries), 1, san.kept)
Suits(entry, host) == entry.tag = DnsTag /\ Covers(entry.labels, host)

Passed(san, host, k) ==
  /\ k \in 0 .. Len(san.entries)
  /\ Len(UpTo(san.entries, k)) <= san.kept
  /\ \A j \in 1 .. k : san.entries[j].form \in Readable /\ ~Suits(san.entries[j], host)

(* The next entry is there and can be read. *)
Goes(san, k) ==
  /\ k < Len(san.entries)
  /\ san.entries[k + 1].form \in Readable
  /\ Len(UpTo(san.entries, k + 1)) <= san.kept

LEMMA Lengths ==
  ASSUME NEW san \in Extension
  PROVE  /\ san.entries \in Seq(NameEntry) /\ Len(san.entries) \in Nat
         /\ san.kept \in Nat /\ Len(Names(san)) = san.kept
         /\ \A k \in 0 .. Len(san.entries) : Len(UpTo(san.entries, k)) \in Nat
<1>1. /\ san.entries \in Seq(NameEntry) /\ Len(san.entries) \in Nat
      /\ san.kept \in Nat /\ Len(Names(san)) = san.kept
  BY KeptBytes, LenProperties DEF Names
<1>2. ASSUME NEW k \in 0 .. Len(san.entries) PROVE Len(UpTo(san.entries, k)) \in Nat
  <2>1. k \in Nat /\ k <= Len(san.entries)
    BY <1>1
  <2>2. UpTo(san.entries, k) \in Seq(Nat)
    BY <1>1, <2>1, EntriesGrow
  <2>3. QED
    BY <2>2, LenProperties
<1>3. QED
  BY <1>1, <1>2

LEMMA NothingPassed ==
  ASSUME NEW san \in Extension, NEW host
  PROVE  Passed(san, host, 0) /\ Len(UpTo(san.entries, 0)) = 0
<1>1. Len(UpTo(san.entries, 0)) = 0
  BY Lengths, NoEntries
<1>2. 0 \in 0 .. Len(san.entries) /\ 0 <= san.kept
  BY Lengths
<1>3. QED
  BY <1>1, <1>2 DEF Passed

(* Where the walk cannot go on, no entry that counts is left. *)
LEMMA NoneLeft ==
  ASSUME NEW san \in Extension, NEW host, NEW k, Passed(san, host, k), ~Goes(san, k)
  PROVE  ~GoodFor(san, host)
<1> SUFFICES ASSUME NEW j \in 1 .. Len(san.entries), Counts(san, j),
                    Suits(san.entries[j], host)
             PROVE  FALSE
  BY DEF GoodFor, Suits
<1>1. /\ san.entries \in Seq(NameEntry) /\ Len(san.entries) \in Nat /\ san.kept \in Nat
      /\ k \in 0 .. Len(san.entries)
  BY Lengths DEF Passed
<1>2. ~(j <= k)
  BY <1>1 DEF Passed
<1> DEFINE m == k + 1
<1>3. /\ k < Len(san.entries) /\ m \in Nat /\ m <= Len(san.entries) /\ m \in 1 .. j
      /\ j \in Nat /\ m <= j /\ j <= Len(san.entries)
  BY <1>1, <1>2
<1>4. san.entries[m].form \in Readable
  BY <1>3 DEF Counts
<1>5. Len(UpTo(san.entries, j)) <= san.kept
  BY DEF Counts, UpTo
<1>6. Len(UpTo(san.entries, m)) <= Len(UpTo(san.entries, j))
  <2> HIDE DEF m
  <2>1. QED
    BY <1>1, <1>3, EntriesGrow
<1>7. m \in 0 .. Len(san.entries) /\ j \in 0 .. Len(san.entries)
  BY <1>1, <1>3
<1>8. Len(UpTo(san.entries, m)) \in Nat /\ Len(UpTo(san.entries, j)) \in Nat
  <2> HIDE DEF m
  <2>1. QED
    BY <1>7, Lengths
<1>9. Len(UpTo(san.entries, m)) <= san.kept
  BY <1>1, <1>5, <1>6, <1>8
<1>10. QED
  BY <1>3, <1>4, <1>9 DEF Goes

(* Where it goes on, it has passed one entry more or found a good one. *)
LEMMA OneMorePassed ==
  ASSUME NEW san \in Extension, san.wrapper = "whole", NEW host, NEW k,
         Passed(san, host, k), Goes(san, k)
  PROVE  IF Suits(san.entries[k + 1], host) THEN GoodFor(san, host)
         ELSE Passed(san, host, k + 1)
<1> DEFINE m == k + 1
<1>1. Len(san.entries) \in Nat /\ k \in Nat
  BY Lengths DEF Passed
<1>2. m \in 1 .. Len(san.entries) /\ m \in 0 .. Len(san.entries)
  BY <1>1 DEF Goes
<1>3. \A j \in 1 .. m : j \in 1 .. k \/ j = m
  BY <1>1
<1>4. \A j \in 1 .. m : san.entries[j].form \in Readable
  BY <1>3 DEF Passed, Goes
<1>5. Len(UpTo(san.entries, m)) <= san.kept
  BY DEF Goes
<1>6. CASE Suits(san.entries[m], host)
  <2>1. san.wrapper = "whole" => GoodFor(san, host)
    <3> HIDE DEF m
    <3>1. Counts(san, m)
      BY <1>4, <1>5 DEF Counts, UpTo
    <3>2. QED
      BY <1>2, <1>6, <3>1 DEF GoodFor, Suits
  <2>2. QED
    BY <1>6, <2>1
<1>7. CASE ~Suits(san.entries[m], host)
  <2>1. \A j \in 1 .. m : ~Suits(san.entries[j], host)
    BY <1>3, <1>7 DEF Passed
  <2> HIDE DEF m
  <2>2. Passed(san, host, m)
    BY <1>2, <1>4, <1>5, <2>1 DEF Passed
  <2>3. QED
    BY <1>7, <2>2 DEF m
<1>8. QED
  BY <1>6, <1>7

(* What the reader makes of the bytes behind the entries that are passed.  *)
LEMMA WalkReads ==
  ASSUME NEW san \in Extension, NEW host, NEW k, Passed(san, host, k)
  PROVE  \A at, entry :
           /\ at = Len(UpTo(san.entries, k))
           /\ entry = DerReadTlv(SubSeq(Names(san), at + 1, Len(Names(san))))
           => IF Goes(san, k)
              THEN /\ at < Len(Names(san))
                   /\ entry.kind = "read"
                   /\ entry.tag = san.entries[k + 1].tag
                   /\ entry.content = Join(san.entries[k + 1].labels)
                   /\ entry.total \in Nat
                   /\ at + entry.total = Len(UpTo(san.entries, k + 1))
                   /\ at + entry.total <= Len(Names(san))
              ELSE at >= Len(Names(san)) \/ entry.kind # "read"
<1> DEFINE at == Len(UpTo(san.entries, k))
           next == Len(UpTo(san.entries, k + 1))
           octets == Names(san)
           entry == DerReadTlv(SubSeq(octets, at + 1, Len(octets)))
           e == san.entries[k + 1]
           b == Len(EntryBytes(e))
<1>1. /\ k \in Nat /\ k <= Len(san.entries) /\ at \in Nat /\ at <= san.kept
      /\ Len(octets) = san.kept /\ san.kept \in Nat /\ Len(san.entries) \in Nat
  BY Lengths DEF Passed
<1>2. CASE k = Len(san.entries)
  <2>1. ~Goes(san, k)
    BY <1>1, <1>2 DEF Goes
  <2>2. ~(at < san.kept)
    BY <1>2, NothingBehind
  <2>3. at >= Len(octets)
    BY <1>1, <2>2
  <2>4. QED
    BY <2>1, <2>3
<1>3. CASE k < Len(san.entries)
  <2>1. k + 1 <= Len(san.entries)
    BY <1>1, <1>3
  <2>2. /\ e \in NameEntry /\ at \in Nat /\ next \in Nat
        /\ b \in Nat /\ b > 0 /\ next = at + b
        /\ IF e.form \in Readable /\ next <= san.kept
           THEN entry = Tlv("read", e.tag, Join(e.labels), b)
           ELSE entry.kind # "read"
    <3>1. \A p, n, s, x :
            /\ p = Len(UpTo(san.entries, k)) /\ n = Len(UpTo(san.entries, k + 1))
            /\ s = SubSeq(EntriesBytes(san.entries), 1, san.kept)
            /\ x = san.entries[k + 1]
            => /\ x \in NameEntry /\ p \in Nat /\ n \in Nat
               /\ Len(EntryBytes(x)) \in Nat /\ Len(EntryBytes(x)) > 0
               /\ n = p + Len(EntryBytes(x))
               /\ LET read == DerReadTlv(SubSeq(s, p + 1, Len(s))) IN
                  IF x.form \in Readable /\ n <= san.kept
                  THEN read = Tlv("read", x.tag, Join(x.labels), Len(EntryBytes(x)))
                  ELSE read.kind # "read"
      BY <1>1, <2>1, NextEntryIsRead
    <3>2. QED
      BY <3>1, Zenon DEF Names
  <2>3. Goes(san, k) <=> e.form \in Readable /\ next <= san.kept
    BY <1>3 DEF Goes
  <2> HIDE DEF at, next, octets, entry, e, b
  <2>4. CASE Goes(san, k)
    <3>1. entry = Tlv("read", e.tag, Join(e.labels), b) /\ next <= san.kept
      BY <2>2, <2>3, <2>4
    <3>2. /\ entry.kind = "read" /\ entry.tag = e.tag
          /\ entry.content = Join(e.labels) /\ entry.total = b
      BY <3>1 DEF Tlv
    <3>3. at < Len(octets) /\ at + b = next /\ next <= Len(octets)
      BY <1>1, <2>2, <3>1
    <3>4. /\ at < Len(octets) /\ entry.total \in Nat /\ at + entry.total = next
          /\ at + entry.total <= Len(octets)
      BY <2>2, <3>2, <3>3
    <3>5. QED
      BY <2>4, <3>2, <3>4, Zenon DEF at, next, octets, entry, e
  <2>5. CASE ~Goes(san, k)
    <3>1. entry.kind # "read"
      BY <2>2, <2>3, <2>5
    <3>2. QED
      BY <2>5, <3>1, Zenon DEF at, octets, entry
  <2>6. QED
    BY <2>4, <2>5
<1>4. QED
  BY <1>1, <1>2, <1>3

-----------------------------------------------------------------------------
(* Recursion along a chain and along a list of records. *)

KeyOf(cert) == IF HasXy(cert) THEN <<cert.spki.id>> ELSE <<>>

LEMMA KeyIsNumber ==
  ASSUME NEW cert \in Certificate
  PROVE  KeyOf(cert) \in Seq(Nat)
<1>1. cert.spki.id \in Nat
  BY DEF Certificate, PublicKey
<1>2. <<cert.spki.id>> \in Seq(Nat) /\ <<>> \in Seq(Nat)
  BY <1>1
<1>3. QED
  BY <1>2 DEF KeyOf

(* Each key follows those before it. *)
WithKey(v, cert) == v \o KeyOf(cert)
KeysOfSteps(chain) ==
  [i \in 1 .. Len(chain) |-> [v \in Seq(Nat) |-> WithKey(v, chain[i])]]

LEMMA KeysOfBySteps ==
  ASSUME NEW chain \in Seq(Certificate)
  PROVE  \E f : /\ Steps(f, Len(chain), Seq(Nat), <<>>, KeysOfSteps(chain))
                /\ KeysOf(chain) = f[Len(chain)]
<1> DEFINE N == Len(chain)
           Rec(f) == [i \in 0 .. N |->
                        IF i = 0 THEN <<>> ELSE WithKey(f[i - 1], chain[i])]
           upTo == CHOOSE f : f = Rec(f)
           g == KeysOfSteps(chain)
           V == Seq(Nat)
<1>1. N \in Nat /\ <<>> \in V /\ \A i \in 1 .. N : chain[i] \in Certificate
  OBVIOUS
<1>2. KeysOf(chain) = upTo[N]
  BY Zenon DEF KeysOf, WithKey, KeyOf
<1>3. \A v \in V, i \in 1 .. N : WithKey(v, chain[i]) \in V
  BY <1>1, KeyIsNumber, ConcatProperties DEF WithKey, V
<1>4. \A v \in V, i \in 1 .. N : g[i][v] = WithKey(v, chain[i])
  BY DEF KeysOfSteps
<1> HIDE DEF N, V
<1>5. g \in [1 .. N -> [V -> V]]
  BY <1>3 DEF KeysOfSteps, N, V
<1>6. PICK f : Steps(f, N, V, <<>>, g)
  BY <1>1, <1>5, StepsExist
<1> HIDE DEF g
<1>7. f = Rec(f)
  <2>1. f = [i \in 0 .. N |-> f[i]] /\ f[0] = <<>>
    BY <1>6 DEF Steps
  <2>2. ASSUME NEW i \in 1 .. N PROVE f[i] = WithKey(f[i - 1], chain[i])
    <3>1. i - 1 \in 0 .. N
      BY <1>1
    <3>2. f[i - 1] \in V
      BY <1>6, <3>1 DEF Steps
    <3>3. QED
      BY <1>4, <1>6, <3>2 DEF Steps
  <2>3. ASSUME NEW i \in 0 .. N PROVE f[i] = Rec(f)[i]
    <3>1. CASE i = 0
      BY <1>1, <2>1, <3>1
    <3>2. CASE i # 0
      BY <1>1, <2>2, <3>2
    <3>3. QED
      BY <3>1, <3>2
  <2>4. QED
    BY <2>1, <2>3
<1>8. upTo = Rec(upTo)
  <2> HIDE DEF Rec
  <2>1. QED
    BY <1>7, Zenon
<1> HIDE DEF upTo
<1>9. Steps(upTo, N, V, <<>>, g)
  <2>1. upTo = [i \in 0 .. N |-> upTo[i]] /\ upTo[0] = <<>>
    BY <1>1, <1>8
  <2>2. \A i \in 1 .. N : upTo[i - 1] \in V => upTo[i] = g[i][upTo[i - 1]]
    BY <1>1, <1>4, <1>8
  <2>3. QED
    BY <1>1, <1>5, <2>1, <2>2, StepsOnly
<1>10. QED
  BY <1>2, <1>9 DEF g, N, V

(* One more certificate. *)
LEMMA KeysOfOfAppend ==
  /\ KeysOf(<<>>) = <<>>
  /\ \A chain \in Seq(Certificate) : KeysOf(chain) \in Seq(Nat)
  /\ \A chain \in Seq(Certificate), x \in Certificate : KeysOf(Append(chain, x)) = KeysOf(chain) \o KeyOf(x)
<1>1. KeysOf(<<>>) = <<>>
  <2>1. <<>> \in Seq(Certificate) /\ Len(<<>>) = 0
    OBVIOUS
  <2>2. QED
    BY <2>1, KeysOfBySteps DEF Steps
<1>2. ASSUME NEW chain \in Seq(Certificate), NEW x \in Certificate
      PROVE  KeysOf(Append(chain, x)) = KeysOf(chain) \o KeyOf(x)
  <2> DEFINE N == Len(chain)
             M == N + 1
             V == Seq(Nat)
             none == <<>>
             more == Append(chain, x)
             g == KeysOfSteps(chain)
             k == KeysOfSteps(more)
  <2>1. /\ N \in Nat /\ more \in Seq(Certificate) /\ Len(more) = M
        /\ \A i \in 1 .. N : more[i] = chain[i]
        /\ more[M] = x
    OBVIOUS
  <2> HIDE DEF more
  <2>2. PICK f : Steps(f, N, V, none, g) /\ KeysOf(chain) = f[N]
    BY KeysOfBySteps
  <2>3. PICK h : Steps(h, M, V, none, k) /\ KeysOf(more) = h[M]
    BY <2>1, KeysOfBySteps
  <2>4. ASSUME NEW i \in 1 .. N, NEW v \in V PROVE g[i][v] = k[i][v]
    <3>1. i \in 1 .. Len(chain) /\ i \in 1 .. Len(more) /\ more[i] = chain[i]
      BY <2>1
    <3>2. g[i][v] = WithKey(v, chain[i]) /\ k[i][v] = WithKey(v, more[i])
      BY <3>1 DEF KeysOfSteps
    <3>3. QED
      BY <3>1, <3>2
  <2>5. \A v \in V : k[M][v] = WithKey(v, more[M])
    BY <2>1 DEF KeysOfSteps
  <2>6. Steps(f, N, V, none, g) /\ Steps(h, M, V, none, k)
    BY <2>2, <2>3
  <2>7. N \in Nat /\ M \in Nat /\ N < M /\ M <= N + 1
    BY <2>1
  <2> HIDE DEF N, M, V, none, g, k
  <2>8. f[N] \in V /\ h[M] = k[M][f[N]]
    BY <2>4, <2>6, <2>7, OneMoreStep
  <2>9. h[M] = WithKey(f[N], more[M])
    BY <2>5, <2>8
  <2>10. QED
    BY <2>1, <2>2, <2>3, <2>8, <2>9 DEF more, V, N, M, WithKey
<1>3. ASSUME NEW chain \in Seq(Certificate) PROVE KeysOf(chain) \in Seq(Nat)
  <2>1. PICK f : /\ Steps(f, Len(chain), Seq(Nat), <<>>, KeysOfSteps(chain))
                 /\ KeysOf(chain) = f[Len(chain)]
    BY KeysOfBySteps
  <2>2. Len(chain) \in 0 .. Len(chain)
    OBVIOUS
  <2>3. QED
    BY <2>1, <2>2 DEF Steps
<1>4. QED
  BY <1>1, <1>2, <1>3

KeysIn(record) == IF record.verified THEN KeysOf(record.chain) ELSE <<>>

LEMMA KeysAreNumbers ==
  ASSUME NEW record \in AttestationRecord
  PROVE  KeysIn(record) \in Seq(Nat)
<1>1. record.chain \in Seq(Certificate)
  BY DEF AttestationRecord
<1>2. KeysOf(record.chain) \in Seq(Nat) /\ <<>> \in Seq(Nat)
  BY <1>1, KeysOfOfAppend
<1>3. QED
  BY <1>2 DEF KeysIn

(* The keys of each record follow those before them. *)
WithKeys(v, record) == v \o KeysIn(record)
HashInputSteps(list) ==
  [i \in 1 .. Len(list) |-> [v \in Seq(Nat) |-> WithKeys(v, list[i])]]

LEMMA HashInputBySteps ==
  ASSUME NEW list \in Seq(AttestationRecord)
  PROVE  \E f : /\ Steps(f, Len(list), Seq(Nat), <<>>, HashInputSteps(list))
                /\ HashInput(list) = f[Len(list)]
<1> DEFINE N == Len(list)
           Rec(f) == [i \in 0 .. N |->
                        IF i = 0 THEN <<>> ELSE WithKeys(f[i - 1], list[i])]
           upTo == CHOOSE f : f = Rec(f)
           g == HashInputSteps(list)
           V == Seq(Nat)
<1>1. N \in Nat /\ <<>> \in V /\ \A i \in 1 .. N : list[i] \in AttestationRecord
  OBVIOUS
<1>2. HashInput(list) = upTo[N]
  BY Zenon DEF HashInput, WithKeys, KeysIn
<1>3. \A v \in V, i \in 1 .. N : WithKeys(v, list[i]) \in V
  BY <1>1, KeysAreNumbers, ConcatProperties DEF WithKeys, V
<1>4. \A v \in V, i \in 1 .. N : g[i][v] = WithKeys(v, list[i])
  BY DEF HashInputSteps
<1> HIDE DEF N, V
<1>5. g \in [1 .. N -> [V -> V]]
  BY <1>3 DEF HashInputSteps, N, V
<1>6. PICK f : Steps(f, N, V, <<>>, g)
  BY <1>1, <1>5, StepsExist
<1> HIDE DEF g
<1>7. f = Rec(f)
  <2>1. f = [i \in 0 .. N |-> f[i]] /\ f[0] = <<>>
    BY <1>6 DEF Steps
  <2>2. ASSUME NEW i \in 1 .. N PROVE f[i] = WithKeys(f[i - 1], list[i])
    <3>1. i - 1 \in 0 .. N
      BY <1>1
    <3>2. f[i - 1] \in V
      BY <1>6, <3>1 DEF Steps
    <3>3. QED
      BY <1>4, <1>6, <3>2 DEF Steps
  <2>3. ASSUME NEW i \in 0 .. N PROVE f[i] = Rec(f)[i]
    <3>1. CASE i = 0
      BY <1>1, <2>1, <3>1
    <3>2. CASE i # 0
      BY <1>1, <2>2, <3>2
    <3>3. QED
      BY <3>1, <3>2
  <2>4. QED
    BY <2>1, <2>3
<1>8. upTo = Rec(upTo)
  <2> HIDE DEF Rec
  <2>1. QED
    BY <1>7, Zenon
<1> HIDE DEF upTo
<1>9. Steps(upTo, N, V, <<>>, g)
  <2>1. upTo = [i \in 0 .. N |-> upTo[i]] /\ upTo[0] = <<>>
    BY <1>1, <1>8
  <2>2. \A i \in 1 .. N : upTo[i - 1] \in V => upTo[i] = g[i][upTo[i - 1]]
    BY <1>1, <1>4, <1>8
  <2>3. QED
    BY <1>1, <1>5, <2>1, <2>2, StepsOnly
<1>10. QED
  BY <1>2, <1>9 DEF g, N, V

(* One more record. *)
LEMMA HashInputOfAppend ==
  /\ HashInput(<<>>) = <<>>
  /\ \A list \in Seq(AttestationRecord) : HashInput(list) \in Seq(Nat)
  /\ \A list \in Seq(AttestationRecord), x \in AttestationRecord : HashInput(Append(list, x)) = HashInput(list) \o KeysIn(x)
<1>1. HashInput(<<>>) = <<>>
  <2>1. <<>> \in Seq(AttestationRecord) /\ Len(<<>>) = 0
    OBVIOUS
  <2>2. QED
    BY <2>1, HashInputBySteps DEF Steps
<1>2. ASSUME NEW list \in Seq(AttestationRecord), NEW x \in AttestationRecord
      PROVE  HashInput(Append(list, x)) = HashInput(list) \o KeysIn(x)
  <2> DEFINE N == Len(list)
             M == N + 1
             V == Seq(Nat)
             none == <<>>
             more == Append(list, x)
             g == HashInputSteps(list)
             k == HashInputSteps(more)
  <2>1. /\ N \in Nat /\ more \in Seq(AttestationRecord) /\ Len(more) = M
        /\ \A i \in 1 .. N : more[i] = list[i]
        /\ more[M] = x
    OBVIOUS
  <2> HIDE DEF more
  <2>2. PICK f : Steps(f, N, V, none, g) /\ HashInput(list) = f[N]
    BY HashInputBySteps
  <2>3. PICK h : Steps(h, M, V, none, k) /\ HashInput(more) = h[M]
    BY <2>1, HashInputBySteps
  <2>4. ASSUME NEW i \in 1 .. N, NEW v \in V PROVE g[i][v] = k[i][v]
    <3>1. i \in 1 .. Len(list) /\ i \in 1 .. Len(more) /\ more[i] = list[i]
      BY <2>1
    <3>2. g[i][v] = WithKeys(v, list[i]) /\ k[i][v] = WithKeys(v, more[i])
      BY <3>1 DEF HashInputSteps
    <3>3. QED
      BY <3>1, <3>2
  <2>5. \A v \in V : k[M][v] = WithKeys(v, more[M])
    BY <2>1 DEF HashInputSteps
  <2>6. Steps(f, N, V, none, g) /\ Steps(h, M, V, none, k)
    BY <2>2, <2>3
  <2>7. N \in Nat /\ M \in Nat /\ N < M /\ M <= N + 1
    BY <2>1
  <2> HIDE DEF N, M, V, none, g, k
  <2>8. f[N] \in V /\ h[M] = k[M][f[N]]
    BY <2>4, <2>6, <2>7, OneMoreStep
  <2>9. h[M] = WithKeys(f[N], more[M])
    BY <2>5, <2>8
  <2>10. QED
    BY <2>1, <2>2, <2>3, <2>8, <2>9 DEF more, V, N, M, WithKeys
<1>3. ASSUME NEW list \in Seq(AttestationRecord) PROVE HashInput(list) \in Seq(Nat)
  <2>1. PICK f : /\ Steps(f, Len(list), Seq(Nat), <<>>, HashInputSteps(list))
                 /\ HashInput(list) = f[Len(list)]
    BY HashInputBySteps
  <2>2. Len(list) \in 0 .. Len(list)
    OBVIOUS
  <2>3. QED
    BY <2>1, <2>2 DEF Steps
<1>4. QED
  BY <1>1, <1>2, <1>3

-----------------------------------------------------------------------------
(* The inductive invariant: every answer is the verdict on its record, and *)
(* the record in hand has passed all the checks before the next one.       *)

Answered ==
  /\ out \in Seq(AttestationRecord)
  /\ Len(out) <= Len(records)
  /\ \A i \in 1 .. Len(out) : out[i] = Verdict(records[i])

Fresh == pc # "walk" => pos = 0 /\ (pc = "record" => link = 1)

Started ==
  pc \in {"chain", "san", "walk"} =>
    /\ Len(out) < Len(records)
    /\ Begun(Current)
    /\ link \in 1 .. Len(Current.chain)
    /\ LinkedTo(Current.chain, link)

Anchored ==
  pc \in {"san", "walk"} =>
    link = Len(Current.chain) /\ IsSignedByMozillaRoot(Cert(link))

Walks ==
  pc = "walk" =>
    LET sans == Cert(1).sans IN
    /\ sans # <<>>
    /\ sans[1].wrapper = "whole"
    /\ names = Names(sans[1])
    /\ \E k \in 0 .. Len(sans[1].entries) :
         Passed(sans[1], Current.host, k) /\ pos = Len(UpTo(sans[1].entries, k))

Inv ==
  /\ records \in Inputs
  /\ pc \in {"record", "chain", "san", "walk", "done"}
  /\ Answered
  /\ Fresh
  /\ Started
  /\ Anchored
  /\ Walks
  /\ pc = "done" => Len(out) = Len(records) /\ hashed = HashInput(out)
  /\ hashed \in Seq(Nat)

(* What is handed over is well formed. *)
LEMMA RecordsAreWellFormed ==
  ASSUME NEW list \in Inputs
  PROVE  /\ list \in Seq(AttestationRecord) /\ Len(list) \in Nat
         /\ \A i \in 1 .. Len(list) :
              /\ list[i] \in AttestationRecord
              /\ list[i].chain \in Seq(Certificate) /\ Len(list[i].chain) \in Nat
              /\ list[i].host \in Seq(Label)
<1>1. list \in Seq(AttestationRecord)
  BY AttestationAssumption
<1>2. \A record \in AttestationRecord :
        /\ record.chain \in Seq(Certificate) /\ Len(record.chain) \in Nat
        /\ record.host \in Seq(Label)
  BY LenProperties DEF AttestationRecord
<1>3. Len(list) \in Nat /\ \A i \in 1 .. Len(list) : list[i] \in AttestationRecord
  BY <1>1, LenProperties, ElementOfSeq
<1>4. QED
  BY <1>1, <1>2, <1>3

LEMMA FirstExtension ==
  ASSUME NEW record \in AttestationRecord, record.chain # <<>>
  PROVE  /\ record.chain[1] \in Certificate
         /\ record.chain[1].notAfter \in Nat
         /\ record.chain[1].sans # <<>> => record.chain[1].sans[1] \in Extension
<1>1. record.chain \in Seq(Certificate)
  BY DEF AttestationRecord
<1>2. record.chain[1] \in Certificate
  BY <1>1, EmptySeq, LenProperties
<1>3. record.chain[1].notAfter \in Nat /\ record.chain[1].sans \in Seq(Extension)
  BY <1>2 DEF Certificate
<1>4. \A s \in Seq(Extension) : s # <<>> => s[1] \in Extension
  BY EmptySeq, LenProperties
<1>5. QED
  BY <1>2, <1>3, <1>4

LEMMA VerdictIsRecord ==
  ASSUME NEW record \in AttestationRecord
  PROVE  Verdict(record) \in AttestationRecord
<1>1. CASE Genuine(record)
  <2>1. record.chain # <<>>
    BY <1>1 DEF Genuine, Trusted
  <2>2. record.chain[1].notAfter \in Nat
    BY <2>1, FirstExtension
  <2>3. QED
    BY <1>1, <2>2 DEF Verdict, Record, AttestationRecord
<1>2. CASE ~Genuine(record)
  <2>1. <<>> \in Seq(Certificate) /\ <<>> \in Seq(Label) /\ <<>> # <<<<>>>>
    BY EmptySeq, LenProperties
  <2>2. QED
    BY <1>2, <2>1 DEF Verdict, Record, AttestationRecord
<1>3. QED
  BY <1>1, <1>2

(* Genuine is what the checks establish, in their order. *)
LEMMA GenuineIsChecked ==
  ASSUME NEW record \in AttestationRecord
  PROVE  Genuine(record) <=>
           /\ Begun(record)
           /\ LinkedTo(record.chain, Len(record.chain))
           /\ IsSignedByMozillaRoot(record.chain[Len(record.chain)])
           /\ record.chain[1].sans # <<>>
           /\ GoodFor(record.chain[1].sans[1], record.host)
<1>1. record.chain \in Seq(Certificate)
  BY DEF AttestationRecord
<1>2. CASE record.chain = <<>>
  BY <1>2 DEF Genuine, Trusted, Begun
<1>3. CASE record.chain # <<>>
  <2>1. Trusted(record.chain) <=>
          /\ \A i \in 1 .. Len(record.chain) : record.chain[i].parses
          /\ SpkiIsP256(record.chain[1])
          /\ LinkedTo(record.chain, Len(record.chain))
          /\ IsSignedByMozillaRoot(record.chain[Len(record.chain)])
    BY <1>1, <1>3, TrustedIsChecked
  <2>2. QED
    BY <1>3, <2>1, Zenon DEF Genuine, Begun
<1>4. QED
  BY <1>2, <1>3

(* An answer that is the verdict keeps the invariant. *)
LEMMA AnswerKeeps ==
  ASSUME Inv, pc \in {"record", "chain", "san", "walk"}, Len(out) < Len(records),
         Answer(Verdict(Current))
  PROVE  Inv'
<1> DEFINE n == Len(out)
           v == Verdict(Current)
<1>1. records \in Inputs /\ records' = records /\ pc' = "record" /\ pos' = 0
      /\ link' = 1 /\ hashed' = hashed /\ out' = Append(out, v)
  BY DEF Inv, Answer, Goto
<1>2. n \in Nat /\ Len(records) \in Nat /\ n + 1 \in 1 .. Len(records)
  BY <1>1, RecordsAreWellFormed, LenProperties DEF Inv, Answered
<1>3. Current \in AttestationRecord
  BY <1>1, <1>2, RecordsAreWellFormed DEF Current
<1>4. v \in AttestationRecord
  BY <1>3, VerdictIsRecord
<1>5. v = Verdict(records[n + 1])
  BY DEF Current
<1> HIDE DEF v
<1>6. /\ out' \in Seq(AttestationRecord) /\ Len(out') = n + 1
      /\ \A i \in 1 .. n : out'[i] = out[i]
      /\ out'[n + 1] = v
  BY <1>1, <1>4 DEF Inv, Answered
<1>7. ASSUME NEW i \in 1 .. n + 1 PROVE out'[i] = Verdict(records[i])
  <2>1. CASE i = n + 1
    BY <1>5, <1>6, <2>1
  <2>2. CASE i # n + 1
    BY <1>2, <1>6, <2>2 DEF Inv, Answered
  <2>3. QED
    BY <2>1, <2>2
<1>8. Answered'
  <2>1. n + 1 <= Len(records)
    BY <1>2
  <2>2. QED
    BY <1>1, <1>6, <1>7, <2>1 DEF Answered
<1>9. pc' \notin {"chain", "san", "walk", "done"} /\ hashed' \in Seq(Nat)
  BY <1>1 DEF Inv
<1>10. QED
  BY <1>1, <1>8, <1>9 DEF Inv, Fresh, Started, Anchored, Walks

(* The next record has the types of a record, and so has what it holds.    *)
LEMMA TheRecordInHand ==
  ASSUME Inv, Len(out) < Len(records)
  PROVE  /\ Current \in AttestationRecord
         /\ Current.chain \in Seq(Certificate) /\ Len(Current.chain) \in Nat
         /\ Current.host \in Seq(Label)
         /\ records \in Inputs
         /\ Len(out) + 1 \in 1 .. Len(records)
<1>1. records \in Inputs /\ Len(out) \in Nat
  BY LenProperties DEF Inv, Answered
<1>2. Len(out) + 1 \in 1 .. Len(records)
  BY <1>1, RecordsAreWellFormed
<1>3. QED
  BY <1>1, <1>2, RecordsAreWellFormed DEF Current

(* A record that fails a check is answered with `unavailable`. *)
LEMMA UnavailableKeeps ==
  ASSUME Inv, pc \in {"record", "chain", "san", "walk"}, Len(out) < Len(records),
         ~Genuine(Current), Answer(Unavailable)
  PROVE  Inv'
<1>1. Verdict(Current) = Unavailable
  BY DEF Verdict, Unavailable
<1>2. Answer(Verdict(Current))
  BY <1>1, Zenon
<1>3. QED
  BY <1>2, AnswerKeeps

LEMMA InitEstablishesInv ==
  ASSUME Init
  PROVE  Inv
<1>1. out = <<>> /\ Len(out) = 0 /\ out \in Seq(AttestationRecord) /\ hashed \in Seq(Nat)
      /\ records \in Inputs /\ pc = "record" /\ pos = 0 /\ link = 1
  BY DEF Init, EmptyHash
<1>2. Answered
  <2>1. Len(records) \in Nat
    BY <1>1, RecordsAreWellFormed
  <2>2. QED
    BY <1>1, <2>1 DEF Answered
<1>3. QED
  BY <1>1, <1>2 DEF Inv, Fresh, Started, Anchored, Walks

LEMMA BeginRecordKeeps ==
  ASSUME Inv, BeginRecord
  PROVE  Inv'
<1>1. pc = "record" /\ Len(out) < Len(records)
  BY DEF BeginRecord
<1>2. /\ Current \in AttestationRecord
      /\ Current.chain \in Seq(Certificate) /\ Len(Current.chain) \in Nat
  BY <1>1, TheRecordInHand
<1>3. CASE ~Begun(Current)
  <2>1. Answer(Unavailable)
    BY <1>3 DEF BeginRecord, Begun, Cert
  <2>2. ~Genuine(Current)
    BY <1>2, <1>3, GenuineIsChecked
  <2>3. QED
    BY <1>1, <2>1, <2>2, UnavailableKeeps
<1>4. CASE Begun(Current)
  <2>1. pc' = "chain" /\ UNCHANGED <<records, out, link, names, pos, hashed>>
    BY <1>4 DEF BeginRecord, Begun, Cert, Goto
  <2>2. link = 1 /\ pos = 0
    BY <1>1 DEF Inv, Fresh
  <2>3. link \in 1 .. Len(Current.chain) /\ LinkedTo(Current.chain, link)
    <3>1. Len(Current.chain) >= 1
      BY <1>2, <1>4, EmptySeq DEF Begun
    <3>2. \A i \in 1 .. link - 1 : FALSE
      BY <2>2
    <3>3. QED
      BY <1>2, <2>2, <3>1, <3>2 DEF LinkedTo
  <2>4. Current' = Current
    BY <2>1 DEF Current
  <2>5. Started'
    BY <1>1, <1>4, <2>1, <2>3, <2>4 DEF Started
  <2>6. Answered'
    BY <2>1 DEF Inv, Answered
  <2>7. Fresh' /\ Anchored' /\ Walks'
    BY <2>1, <2>2 DEF Fresh, Anchored, Walks
  <2>8. QED
    BY <2>1, <2>5, <2>6, <2>7 DEF Inv
<1>5. QED
  BY <1>3, <1>4

LEMMA CheckLinkKeeps ==
  ASSUME Inv, CheckLink
  PROVE  Inv'
<1>1. pc = "chain" /\ link < Len(Current.chain)
  BY DEF CheckLink
<1>2. /\ Len(out) < Len(records) /\ Begun(Current) /\ link \in 1 .. Len(Current.chain)
      /\ LinkedTo(Current.chain, link)
  BY <1>1 DEF Inv, Started
<1>3. Current \in AttestationRecord /\ Len(Current.chain) \in Nat
  BY <1>2, TheRecordInHand
<1>4. CASE ~VerifyCertSig(Cert(link), Cert(link + 1))
  <2>1. Answer(Unavailable)
    BY <1>4 DEF CheckLink
  <2>2. ~LinkedTo(Current.chain, Len(Current.chain))
    <3>1. link \in 1 .. Len(Current.chain) - 1
      BY <1>1, <1>2, <1>3
    <3>2. QED
      BY <1>4, <3>1 DEF LinkedTo, Cert
  <2>3. ~Genuine(Current)
    BY <1>3, <2>2, GenuineIsChecked
  <2>4. QED
    BY <1>1, <1>2, <2>1, <2>3, UnavailableKeeps
<1>5. CASE VerifyCertSig(Cert(link), Cert(link + 1))
  <2>1. link' = link + 1 /\ UNCHANGED <<records, out, pc, names, pos, hashed>>
    BY <1>5 DEF CheckLink
  <2>2. Current' = Current
    BY <2>1 DEF Current
  <2>3. link' \in 1 .. Len(Current.chain) /\ LinkedTo(Current.chain, link')
    <3>1. link' \in 1 .. Len(Current.chain)
      BY <1>1, <1>2, <1>3, <2>1
    <3>2. \A i \in 1 .. link' - 1 : i \in 1 .. link - 1 \/ i = link
      BY <1>2, <1>3, <2>1
    <3>3. QED
      BY <1>2, <1>5, <3>1, <3>2 DEF LinkedTo, Cert
  <2>4. Started'
    BY <1>2, <2>1, <2>2, <2>3 DEF Started
  <2>5. Answered' /\ Fresh' /\ Anchored' /\ Walks'
    BY <1>1, <2>1 DEF Inv, Answered, Fresh, Anchored, Walks
  <2>6. QED
    BY <1>1, <2>1, <2>4, <2>5 DEF Inv
<1>6. QED
  BY <1>4, <1>5

LEMMA CheckAnchorKeeps ==
  ASSUME Inv, CheckAnchor
  PROVE  Inv'
<1>1. pc = "chain" /\ link = Len(Current.chain)
  BY DEF CheckAnchor
<1>2. Len(out) < Len(records)
  BY <1>1 DEF Inv, Started
<1>3. Current \in AttestationRecord
  BY <1>2, TheRecordInHand
<1>4. CASE ~IsSignedByMozillaRoot(Cert(link))
  <2>1. Answer(Unavailable)
    BY <1>4 DEF CheckAnchor
  <2>2. ~Genuine(Current)
    BY <1>1, <1>3, <1>4, GenuineIsChecked DEF Cert
  <2>3. QED
    BY <1>1, <1>2, <2>1, <2>2, UnavailableKeeps
<1>5. CASE IsSignedByMozillaRoot(Cert(link))
  <2>1. pc' = "san" /\ UNCHANGED <<records, out, link, names, pos, hashed>>
    BY <1>5 DEF CheckAnchor, Goto
  <2>2. Current' = Current /\ Cert(link)' = Cert(link)
    BY <2>1 DEF Current, Cert
  <2>3. Started'
    BY <1>1, <2>1, <2>2 DEF Inv, Started
  <2>4. Anchored'
    BY <1>1, <1>5, <2>1, <2>2 DEF Anchored
  <2>5. Answered' /\ Fresh' /\ Walks'
    BY <1>1, <2>1 DEF Inv, Answered, Fresh, Walks
  <2>6. QED
    BY <2>1, <2>3, <2>4, <2>5 DEF Inv
<1>6. QED
  BY <1>4, <1>5

LEMMA OpenSanKeeps ==
  ASSUME Inv, OpenSan
  PROVE  Inv'
<1> DEFINE sans == Cert(1).sans
<1>1. pc = "san"
  BY DEF OpenSan
<1>2. Len(out) < Len(records) /\ Begun(Current) /\ pos = 0
  BY <1>1 DEF Inv, Started, Fresh
<1>3. Current \in AttestationRecord /\ Current.chain # <<>>
  BY <1>2, TheRecordInHand DEF Begun
<1>4. CASE sans = <<>>
  <2>1. Answer(Unavailable)
    BY <1>4 DEF OpenSan
  <2>2. ~Genuine(Current)
    BY <1>3, <1>4, GenuineIsChecked DEF Cert
  <2>3. QED
    BY <1>1, <1>2, <2>1, <2>2, UnavailableKeeps
<1>5. CASE sans # <<>>
  <2>1. sans[1] \in Extension
    BY <1>3, <1>5, FirstExtension DEF Cert
  <2>2. DerInner(SanBytes(sans[1]), SeqTag) =
          IF sans[1].wrapper = "whole"
          THEN Tlv("read", SeqTag, Names(sans[1]), 4 + sans[1].kept)
          ELSE NoTlv
    BY <2>1, SanIsRead DEF Names
  <2> DEFINE seq == DerInner(SanBytes(sans[1]), SeqTag)
  <2>3. \/ seq.kind = "none" /\ Answer(Unavailable)
        \/ /\ seq.kind = "read"
           /\ Goto("walk")
           /\ names' = seq.content
           /\ UNCHANGED <<records, out, link, pos, hashed>>
    BY <1>5 DEF OpenSan
  <2> HIDE DEF sans, seq
  <2>4. CASE sans[1].wrapper # "whole"
    <3>1. seq.kind = "none"
      BY <2>2, <2>4 DEF NoTlv, Tlv, seq
    <3>2. Answer(Unavailable)
      BY <2>3, <3>1
    <3>3. ~Genuine(Current)
      BY <1>3, <2>4, GenuineIsChecked DEF Cert, GoodFor, sans
    <3>4. QED
      BY <1>1, <1>2, <3>2, <3>3, UnavailableKeeps
  <2>5. CASE sans[1].wrapper = "whole"
    <3>1. seq.kind = "read" /\ seq.content = Names(sans[1])
      BY <2>2, <2>5 DEF Tlv, seq
    <3>2. /\ pc' = "walk" /\ names' = Names(sans[1])
          /\ UNCHANGED <<records, out, link, pos, hashed>>
      BY <2>3, <3>1 DEF Goto
    <3>3. Current' = Current /\ Cert(1)' = Cert(1) /\ Cert(link)' = Cert(link) /\ sans' = sans
      BY <3>2 DEF Current, Cert, sans
    <3>4. Passed(sans[1], Current.host, 0) /\ Len(UpTo(sans[1].entries, 0)) = 0
      BY <2>1, NothingPassed
    <3>5. 0 \in 0 .. Len(sans[1].entries)
      BY <3>4 DEF Passed
    <3>6. \E k \in 0 .. Len(sans[1].entries) :
            Passed(sans[1], Current.host, k) /\ pos = Len(UpTo(sans[1].entries, k))
      BY <1>2, <3>4, <3>5
    <3>7. Walks'
      BY <1>5, <2>5, <3>2, <3>3, <3>6 DEF Walks, sans
    <3>8. Started' /\ Anchored'
      BY <1>1, <3>2, <3>3 DEF Inv, Started, Anchored
    <3>9. Answered' /\ Fresh'
      BY <3>2 DEF Inv, Answered, Fresh
    <3>10. QED
      BY <3>2, <3>7, <3>8, <3>9 DEF Inv
  <2>6. QED
    BY <2>4, <2>5
<1>6. QED
  BY <1>4, <1>5

(* The walk: its bytes are the entries, and a record that has come here is *)
(* genuine exactly if its leaf is good for the host.                       *)
LEMMA InTheWalk ==
  ASSUME Inv, pc = "walk"
  PROVE  /\ Len(out) < Len(records)
         /\ Current \in AttestationRecord
         /\ Cert(1).sans[1] \in Extension
         /\ Cert(1).sans[1].wrapper = "whole"
         /\ Genuine(Current) <=> GoodFor(Cert(1).sans[1], Current.host)
         /\ \E k \in 0 .. Len(Cert(1).sans[1].entries) :
              /\ Passed(Cert(1).sans[1], Current.host, k)
              /\ pos = Len(UpTo(Cert(1).sans[1].entries, k))
              /\ IF Goes(Cert(1).sans[1], k)
                 THEN /\ pos < Len(names)
                      /\ Entry.kind = "read"
                      /\ Matches <=> Suits(Cert(1).sans[1].entries[k + 1], Current.host)
                      /\ Entry.total \in Nat
                      /\ pos + Entry.total = Len(UpTo(Cert(1).sans[1].entries, k + 1))
                      /\ pos + Entry.total <= Len(names)
                 ELSE pos >= Len(names) \/ Entry.kind # "read"
<1> DEFINE sans == Cert(1).sans
           san == sans[1]
           host == Current.host
<1>1. /\ Len(out) < Len(records) /\ Begun(Current)
      /\ LinkedTo(Current.chain, Len(Current.chain))
      /\ IsSignedByMozillaRoot(Current.chain[Len(Current.chain)])
  BY DEF Inv, Started, Anchored, Cert
<1>2. Current \in AttestationRecord /\ Current.chain # <<>> /\ host \in Seq(Label)
      /\ Join(host) # <<>>
  BY <1>1, TheRecordInHand DEF Begun
<1>3. sans # <<>> /\ san.wrapper = "whole" /\ names = Names(san)
      /\ \E k \in 0 .. Len(san.entries) : Passed(san, host, k) /\ pos = Len(UpTo(san.entries, k))
  BY DEF Inv, Walks
<1>4. san \in Extension
  BY <1>2, <1>3, FirstExtension DEF Cert
<1>5. Genuine(Current) <=> GoodFor(san, host)
  BY <1>1, <1>2, <1>3, GenuineIsChecked DEF Cert
<1>6. PICK k \in 0 .. Len(san.entries) : Passed(san, host, k) /\ pos = Len(UpTo(san.entries, k))
  BY <1>3
<1>7. Entry = DerReadTlv(SubSeq(Names(san), pos + 1, Len(Names(san))))
  BY <1>3 DEF Entry
<1>8. IF Goes(san, k)
      THEN /\ pos < Len(names)
           /\ Entry.kind = "read"
           /\ Entry.tag = san.entries[k + 1].tag
           /\ Entry.content = Join(san.entries[k + 1].labels)
           /\ Entry.total \in Nat
           /\ pos + Entry.total = Len(UpTo(san.entries, k + 1))
           /\ pos + Entry.total <= Len(names)
      ELSE pos >= Len(names) \/ Entry.kind # "read"
  <2> HIDE DEF san, host
  <2>1. \A at, entry :
           /\ at = Len(UpTo(san.entries, k))
           /\ entry = DerReadTlv(SubSeq(Names(san), at + 1, Len(Names(san))))
           => IF Goes(san, k)
              THEN /\ at < Len(Names(san))
                   /\ entry.kind = "read"
                   /\ entry.tag = san.entries[k + 1].tag
                   /\ entry.content = Join(san.entries[k + 1].labels)
                   /\ entry.total \in Nat
                   /\ at + entry.total = Len(UpTo(san.entries, k + 1))
                   /\ at + entry.total <= Len(Names(san))
              ELSE at >= Len(Names(san)) \/ entry.kind # "read"
    BY <1>4, <1>6, WalkReads
  <2>2. names = Names(san)
    BY <1>3
  <2>3. QED
    BY <1>6, <1>7, <2>1, <2>2, Zenon
<1>9. Goes(san, k) => (Matches <=> Suits(san.entries[k + 1], host))
  <2> SUFFICES ASSUME Goes(san, k) PROVE Matches <=> Suits(san.entries[k + 1], host)
    OBVIOUS
  <2> DEFINE e == san.entries[k + 1]
  <2>1. e \in NameEntry
    <3>1. san.entries \in Seq(NameEntry) /\ Len(san.entries) \in Nat
      BY <1>4, Lengths
    <3>2. k + 1 \in 1 .. Len(san.entries)
      BY <1>6, <3>1 DEF Goes
    <3>3. QED
      BY <3>1, <3>2
  <2>2. e.labels \in Seq(Label)
    BY <2>1 DEF NameEntry
  <2>3. DnsNameMatches(Join(e.labels), Join(host)) <=> Covers(e.labels, host)
    BY <1>2, <2>2, DnsMatchesAreCovers
  <2>4. Entry.kind = "read" /\ Entry.tag = e.tag /\ Entry.content = Join(e.labels)
    BY <1>8
  <2>5. QED
    BY <2>3, <2>4, Zenon DEF Matches, Suits
<1>10. QED
  BY <1>1, <1>2, <1>3, <1>4, <1>5, <1>6, <1>8, <1>9, Zenon

LEMMA SanEndsKeeps ==
  ASSUME Inv, SanEnds
  PROVE  Inv'
<1>1. /\ pc = "walk" /\ Answer(Unavailable)
      /\ pos >= Len(names) \/ Entry.kind = "none"
  BY DEF SanEnds
<1> DEFINE san == Cert(1).sans[1]
<1>2. /\ Len(out) < Len(records) /\ san \in Extension
      /\ Genuine(Current) <=> GoodFor(san, Current.host)
  BY <1>1, InTheWalk
<1>3. PICK k : /\ Passed(san, Current.host, k)
               /\ Goes(san, k) => pos < Len(names) /\ Entry.kind = "read"
               /\ pos = Len(UpTo(san.entries, k)) /\ k \in 0 .. Len(san.entries)
  BY <1>1, InTheWalk
<1>4. pos \in Nat /\ Len(names) \in Nat
  <2>1. names = Names(san)
    BY <1>1 DEF Inv, Walks
  <2>2. QED
    BY <1>2, <1>3, <2>1, Lengths
<1>5. ~Goes(san, k)
  BY <1>1, <1>3, <1>4
<1>6. ~Genuine(Current)
  BY <1>2, <1>3, <1>5, NoneLeft
<1>7. QED
  BY <1>1, <1>2, <1>6, UnavailableKeeps

LEMMA SanNextKeeps ==
  ASSUME Inv, SanNext
  PROVE  Inv'
<1> DEFINE sans == Cert(1).sans
           san == sans[1]
           host == Current.host
<1>1. /\ pc = "walk" /\ pos < Len(names) /\ Entry.kind = "read" /\ ~Matches
      /\ pos' = pos + Entry.total
      /\ UNCHANGED <<records, out, pc, link, names, hashed>>
  BY DEF SanNext
<1>2. san \in Extension /\ san.wrapper = "whole"
  BY <1>1, InTheWalk
<1>3. PICK k : /\ Passed(san, host, k) /\ k \in 0 .. Len(san.entries)
               /\ pos = Len(UpTo(san.entries, k))
               /\ ~Goes(san, k) => pos >= Len(names) \/ Entry.kind # "read"
               /\ Goes(san, k) => /\ Matches <=> Suits(san.entries[k + 1], host)
                                  /\ pos + Entry.total = Len(UpTo(san.entries, k + 1))
  BY <1>1, InTheWalk
<1>4. sans # <<>> /\ names = Names(san)
  BY <1>1 DEF Inv, Walks
<1>5. pos \in Nat /\ Len(names) \in Nat
  BY <1>2, <1>3, <1>4, Lengths
<1>6. Goes(san, k)
  BY <1>1, <1>3, <1>5
<1>7. Passed(san, host, k + 1) /\ pos' = Len(UpTo(san.entries, k + 1))
  BY <1>1, <1>2, <1>3, <1>6, OneMorePassed
<1>8. Current' = Current /\ Cert(1)' = Cert(1) /\ Cert(link)' = Cert(link)
  BY <1>1 DEF Current, Cert
<1>9. Walks'
  <2>1. k + 1 \in 0 .. Len(san.entries)
    BY <1>7 DEF Passed
  <2>2. sans' = sans /\ san' = san /\ host' = host
    BY <1>8
  <2> HIDE DEF sans
  <2>3. \E j \in 0 .. Len(san.entries) :
          Passed(san, host, j) /\ pos' = Len(UpTo(san.entries, j))
    BY <1>7, <2>1
  <2>4. QED
    BY <1>1, <1>2, <1>4, <2>2, <2>3 DEF Walks, sans
<1>10. Started' /\ Anchored'
  BY <1>1, <1>8 DEF Inv, Started, Anchored
<1>11. Answered' /\ Fresh'
  BY <1>1 DEF Inv, Answered, Fresh
<1>12. QED
  BY <1>1, <1>9, <1>10, <1>11 DEF Inv

LEMMA SanMatchesKeeps ==
  ASSUME Inv, SanMatches
  PROVE  Inv'
<1>1. /\ pc = "walk" /\ pos < Len(names) /\ Matches
      /\ Answer(P256Verified(Current.chain, Current.host, Cert(1).notAfter))
  BY DEF SanMatches
<1> DEFINE san == Cert(1).sans[1]
<1>2. /\ Len(out) < Len(records) /\ san \in Extension /\ san.wrapper = "whole"
      /\ Genuine(Current) <=> GoodFor(san, Current.host)
  BY <1>1, InTheWalk
<1>3. PICK k : /\ Passed(san, Current.host, k)
               /\ ~Goes(san, k) => pos >= Len(names) \/ Entry.kind # "read"
               /\ Goes(san, k) => (Matches <=> Suits(san.entries[k + 1], Current.host))
               /\ pos = Len(UpTo(san.entries, k)) /\ k \in 0 .. Len(san.entries)
  BY <1>1, InTheWalk
<1>4. pos \in Nat /\ Len(names) \in Nat
  <2>1. names = Names(san)
    BY <1>1 DEF Inv, Walks
  <2>2. QED
    BY <1>2, <1>3, <2>1, Lengths
<1>5. Goes(san, k)
  BY <1>1, <1>3, <1>4 DEF Matches
<1>6. Genuine(Current)
  BY <1>1, <1>2, <1>3, <1>5, OneMorePassed
<1>7. Answer(Verdict(Current))
  BY <1>1, <1>6 DEF Verdict, P256Verified, Cert
<1>8. QED
  BY <1>1, <1>2, <1>7, AnswerKeeps

LEMMA HashKeeps ==
  ASSUME Inv, Hash
  PROVE  Inv'
<1>1. /\ pc = "record" /\ Len(out) = Len(records) /\ pc' = "done"
      /\ hashed' = HashInput(out)
      /\ UNCHANGED <<records, out, link, names, pos>>
  BY DEF Hash, Goto
<1>2. hashed' \in Seq(Nat)
  BY <1>1, HashInputOfAppend DEF Inv, Answered
<1>3. Answered' /\ Fresh' /\ Started' /\ Anchored' /\ Walks'
  BY <1>1 DEF Inv, Answered, Fresh, Started, Anchored, Walks
<1>4. QED
  BY <1>1, <1>2, <1>3 DEF Inv

LEMMA NextKeepsInv ==
  ASSUME Inv, [Next]_vars
  PROVE  Inv'
<1>1. CASE BeginRecord
  BY <1>1, BeginRecordKeeps
<1>2. CASE CheckLink
  BY <1>2, CheckLinkKeeps
<1>3. CASE CheckAnchor
  BY <1>3, CheckAnchorKeeps
<1>4. CASE OpenSan
  BY <1>4, OpenSanKeeps
<1>5. CASE SanNext
  BY <1>5, SanNextKeeps
<1>6. CASE SanEnds
  BY <1>6, SanEndsKeeps
<1>7. CASE SanMatches
  BY <1>7, SanMatchesKeeps
<1>8. CASE Hash
  BY <1>8, HashKeeps
<1>9. CASE UNCHANGED vars
  BY <1>9 DEF vars, Inv, Answered, Fresh, Started, Anchored, Walks,
              Current, Cert
<1>10. QED
  BY <1>1, <1>2, <1>3, <1>4, <1>5, <1>6, <1>7, <1>8, <1>9 DEF Next

LEMMA InvHolds == Spec => []Inv
<1>1. Init => Inv
  BY InitEstablishesInv
<1>2. Inv /\ [Next]_vars => Inv'
  BY NextKeepsInv
<1>3. QED
  BY <1>1, <1>2, PTL DEF Spec

(* A record comes out as verified exactly if its chain, its host and the   *)
(* names of its leaf deserve it, for every list of records a prover may    *)
(* hand over and every set of roots (reverify_attestations,                *)
(* verify_p256_chain, san_contains_hostname, dns_name_matches).            *)
THEOREM GenuineAttest == Spec => []OnlyTheGenuineAttest
<1>1. Inv => OnlyTheGenuineAttest
  BY DEF Inv, Answered, OnlyTheGenuineAttest, Verdict
<1>2. QED
  BY <1>1, InvHolds, PTL

(* No answer but `unavailable` and the record's own chain, the walk inside *)
(* the chain and inside the bytes that are there (the slice of             *)
(* san_contains_hostname never starts behind their end).                   *)
THEOREM TypesOfAttestation == Spec => []TypeOK
<1>1. ASSUME Inv PROVE TypeOK
  <2>1. ASSUME NEW i \in 1 .. Len(out)
        PROVE  out[i] = Unavailable \/ out[i].chain = records[i].chain
    <3>1. out[i] = Verdict(records[i])
      BY <1>1 DEF Inv, Answered
    <3>2. \A r : Verdict(r) = Unavailable \/ Verdict(r).chain = r.chain
      BY DEF Verdict, Unavailable, Record
    <3>3. QED
      BY <3>1, <3>2
  <2>2. pos \in Nat /\ (pc = "walk" => pos <= Len(names))
    <3>1. CASE pc = "walk"
      <4> DEFINE san == Cert(1).sans[1]
      <4>1. san \in Extension /\ names = Names(san)
        BY <1>1, <3>1, InTheWalk DEF Inv, Walks
      <4>2. PICK k \in 0 .. Len(san.entries) :
              Passed(san, Current.host, k) /\ pos = Len(UpTo(san.entries, k))
        BY <1>1, <3>1, InTheWalk
      <4>3. pos <= Len(names) /\ pos \in Nat
        BY <4>1, <4>2, Lengths DEF Passed
      <4>4. QED
        BY <4>3
    <3>2. CASE pc # "walk"
      BY <1>1, <3>2 DEF Inv, Fresh
    <3>3. QED
      BY <3>1, <3>2
  <2>3. QED
    BY <1>1, <2>1, <2>2 DEF Inv, Answered, Started, TypeOK
<1>2. QED
  BY <1>1, InvHolds, PTL

-----------------------------------------------------------------------------
(* The encoding.  Nothing in it can be read in two ways. *)

LEMMA AllSequences ==
  ASSUME NEW E, NEW T, <<>> \in T,
         \A s \in Seq(E), e \in E : s \in T => Append(s, e) \in T
  PROVE  \A s \in Seq(E) : s \in T
<1> DEFINE S == {n \in Nat : \A s \in Seq(E) : Len(s) = n => s \in T}
<1>1. 0 \in S
  <2>1. \A s \in Seq(E) : Len(s) = 0 => s = <<>>
    BY EmptySeq
  <2>2. QED
    BY <2>1
<1>2. ASSUME NEW n \in Nat, n \in S PROVE n + 1 \in S
  <2> SUFFICES ASSUME NEW s \in Seq(E), Len(s) = n + 1 PROVE s \in T
    OBVIOUS
  <2>1. s # <<>>
    BY EmptySeq
  <2>2. PICK q \in Seq(E), e \in E : s = Append(q, e)
    BY <2>1, SequenceEmptyOrAppend
  <2>3. Len(s) = Len(q) + 1 /\ Len(q) \in Nat
    BY <2>2, AppendProperties, LenProperties
  <2>4. q \in T
    BY <1>2, <2>3
  <2>5. QED
    BY <2>2, <2>4
<1> HIDE DEF S
<1>3. \A n \in Nat : n \in S
  BY <1>1, <1>2, AllNumbers
<1>4. QED
  BY <1>3, LenProperties DEF S

LEMMA SamePrefix ==
  ASSUME NEW s \in Seq(Nat), NEW t \in Seq(Nat), NEW x \in Seq(Nat), NEW y \in Seq(Nat),
         Len(s) = Len(t), s \o x = t \o y
  PROVE  s = t /\ x = y
<1>1. /\ Len(s) \in Nat /\ Len(x) \in Nat
      /\ \A i \in 1 .. Len(s) + Len(x) : (s \o x)[i] = IF i <= Len(s) THEN s[i] ELSE x[i - Len(s)]
  BY ConcatProperties, LenProperties
<1>2. /\ Len(t) \in Nat /\ Len(y) \in Nat
      /\ \A i \in 1 .. Len(t) + Len(y) : (t \o y)[i] = IF i <= Len(t) THEN t[i] ELSE y[i - Len(t)]
  BY ConcatProperties, LenProperties
<1> DEFINE w == s \o x
<1>3. t \o y = w /\ s \o x = w
  OBVIOUS
<1> HIDE DEF w
<1>4. \A i \in 1 .. Len(s) : s[i] = w[i] /\ t[i] = w[i]
  <2>1. \A i \in 1 .. Len(s) : /\ i \in 1 .. Len(s) + Len(x) /\ i <= Len(s)
                               /\ i \in 1 .. Len(t) + Len(y) /\ i <= Len(t)
    BY <1>1, <1>2
  <2>2. QED
    BY <1>1, <1>2, <1>3, <2>1
<1>5. s = t
  BY <1>4, SeqEqual
<1>6. QED
  BY <1>5, ConcatSimplifications

LEMMA Associated ==
  \A a, b, c \in Seq(Nat) : (a \o b) \o c = a \o (b \o c)
<1> SUFFICES ASSUME NEW a \in Seq(Nat), NEW b \in Seq(Nat), NEW c \in Seq(Nat)
             PROVE  (a \o b) \o c = a \o (b \o c)
  OBVIOUS
<1>1. QED
  BY ConcatAssociative

LEMMA U32IsNumber == \A n \in Nat : AsU32(n) \in Nat /\ (n < U32 => AsU32(n) = n)
<1>1. U32 \in Nat /\ U32 > 0
  BY AttestationAssumption
<1>2. QED
  BY <1>1 DEF AsU32

LEMMA PrefixedIsNumbers ==
  ASSUME NEW s \in Seq(Nat)
  PROVE  Prefixed(s) \in Seq(Nat)
<1>1. <<AsU32(Len(s))>> \in Seq(Nat)
  BY LenProperties, U32IsNumber
<1>2. QED
  BY <1>1, ConcatProperties DEF Prefixed

(* Behind a length that is not cut the bytes are those, and the rest is    *)
(* the rest.                                                               *)
LEMMA PrefixedApart ==
  ASSUME NEW s \in Seq(Nat), NEW t \in Seq(Nat), NEW x \in Seq(Nat), NEW y \in Seq(Nat),
         Len(s) < U32, Len(t) < U32
  PROVE  Prefixed(s) \o x = Prefixed(t) \o y => s = t /\ x = y
<1> DEFINE n == <<AsU32(Len(s))>>
           m == <<AsU32(Len(t))>>
           sx == s \o x
           ty == t \o y
<1>1. /\ Len(s) \in Nat /\ Len(t) \in Nat /\ n \in Seq(Nat) /\ m \in Seq(Nat)
      /\ Len(n) = 1 /\ Len(m) = 1 /\ n[1] = Len(s) /\ m[1] = Len(t)
  BY LenProperties, U32IsNumber
<1>2. sx \in Seq(Nat) /\ ty \in Seq(Nat) /\ n \in Seq(Nat) /\ m \in Seq(Nat)
  BY <1>1, ConcatProperties
<1>3. Prefixed(s) = n \o s /\ Prefixed(t) = m \o t /\ Len(n) = Len(m)
  BY <1>1 DEF Prefixed
<1> HIDE DEF n, m
<1>4. (n \o s) \o x = n \o sx /\ (m \o t) \o y = m \o ty
  <2>1. n \in Seq(Nat)
    BY <1>2
  <2>2. (n \o s) \o x = n \o (s \o x)
    BY <2>1, Associated
  <2>3. m \in Seq(Nat)
    BY <1>2
  <2>4. (m \o t) \o y = m \o (t \o y)
    BY <2>3, Associated
  <2>5. QED
    BY <2>2, <2>4
<1> HIDE DEF sx, ty
<1>5. Prefixed(s) \o x = Prefixed(t) \o y => n \o sx = m \o ty
  BY <1>3, <1>4
<1>6. n \o sx = m \o ty => n = m /\ sx = ty
  <2>1. Len(n) = Len(m)
    BY <1>3
  <2>2. QED
    BY <1>2, <2>1, SamePrefix
<1>7. n = m => Len(s) = Len(t)
  BY <1>1
<1>8. Len(s) = Len(t) /\ sx = ty => s = t /\ x = y
  BY SamePrefix DEF sx, ty
<1>9. QED
  BY <1>5, <1>6, <1>7, <1>8

LEMMA DerIsNumbers ==
  ASSUME NEW cert \in Certificate
  PROVE  cert.der \in Seq(Nat) /\ Prefixed(cert.der) \in Seq(Nat)
<1>1. cert.der \in Seq(Nat)
  BY DEF Certificate
<1>2. QED
  BY <1>1, PrefixedIsNumbers

(* Each certificate is written behind those before it. *)
WithDer(v, cert) == v \o Prefixed(cert.der)
DersOfSteps(chain) ==
  [i \in 1 .. Len(chain) |-> [v \in Seq(Nat) |-> WithDer(v, chain[i])]]

LEMMA DersOfBySteps ==
  ASSUME NEW chain \in Seq(Certificate)
  PROVE  \E f : /\ Steps(f, Len(chain), Seq(Nat), <<>>, DersOfSteps(chain))
                /\ DersOf(chain) = f[Len(chain)]
<1> DEFINE N == Len(chain)
           Rec(f) == [i \in 0 .. N |->
                        IF i = 0 THEN <<>> ELSE WithDer(f[i - 1], chain[i])]
           upTo == CHOOSE f : f = Rec(f)
           g == DersOfSteps(chain)
           V == Seq(Nat)
<1>1. N \in Nat /\ <<>> \in V /\ \A i \in 1 .. N : chain[i] \in Certificate
  OBVIOUS
<1>2. DersOf(chain) = upTo[N]
  BY Zenon DEF DersOf, WithDer
<1>3. \A v \in V, i \in 1 .. N : WithDer(v, chain[i]) \in V
  BY <1>1, DerIsNumbers, ConcatProperties DEF WithDer, V
<1>4. \A v \in V, i \in 1 .. N : g[i][v] = WithDer(v, chain[i])
  BY DEF DersOfSteps
<1> HIDE DEF N, V
<1>5. g \in [1 .. N -> [V -> V]]
  BY <1>3 DEF DersOfSteps, N, V
<1>6. PICK f : Steps(f, N, V, <<>>, g)
  BY <1>1, <1>5, StepsExist
<1> HIDE DEF g
<1>7. f = Rec(f)
  <2>1. f = [i \in 0 .. N |-> f[i]] /\ f[0] = <<>>
    BY <1>6 DEF Steps
  <2>2. ASSUME NEW i \in 1 .. N PROVE f[i] = WithDer(f[i - 1], chain[i])
    <3>1. i - 1 \in 0 .. N
      BY <1>1
    <3>2. f[i - 1] \in V
      BY <1>6, <3>1 DEF Steps
    <3>3. QED
      BY <1>4, <1>6, <3>2 DEF Steps
  <2>3. ASSUME NEW i \in 0 .. N PROVE f[i] = Rec(f)[i]
    <3>1. CASE i = 0
      BY <1>1, <2>1, <3>1
    <3>2. CASE i # 0
      BY <1>1, <2>2, <3>2
    <3>3. QED
      BY <3>1, <3>2
  <2>4. QED
    BY <2>1, <2>3
<1>8. upTo = Rec(upTo)
  <2> HIDE DEF Rec
  <2>1. QED
    BY <1>7, Zenon
<1> HIDE DEF upTo
<1>9. Steps(upTo, N, V, <<>>, g)
  <2>1. upTo = [i \in 0 .. N |-> upTo[i]] /\ upTo[0] = <<>>
    BY <1>1, <1>8
  <2>2. \A i \in 1 .. N : upTo[i - 1] \in V => upTo[i] = g[i][upTo[i - 1]]
    BY <1>1, <1>4, <1>8
  <2>3. QED
    BY <1>1, <1>5, <2>1, <2>2, StepsOnly
<1>10. QED
  BY <1>2, <1>9 DEF g, N, V

(* One more certificate. *)
LEMMA DersOfOfAppend ==
  /\ DersOf(<<>>) = <<>>
  /\ \A chain \in Seq(Certificate) : DersOf(chain) \in Seq(Nat)
  /\ \A chain \in Seq(Certificate), x \in Certificate : DersOf(Append(chain, x)) = DersOf(chain) \o Prefixed(x.der)
<1>1. DersOf(<<>>) = <<>>
  <2>1. <<>> \in Seq(Certificate) /\ Len(<<>>) = 0
    OBVIOUS
  <2>2. QED
    BY <2>1, DersOfBySteps DEF Steps
<1>2. ASSUME NEW chain \in Seq(Certificate), NEW x \in Certificate
      PROVE  DersOf(Append(chain, x)) = DersOf(chain) \o Prefixed(x.der)
  <2> DEFINE N == Len(chain)
             M == N + 1
             V == Seq(Nat)
             none == <<>>
             more == Append(chain, x)
             g == DersOfSteps(chain)
             k == DersOfSteps(more)
  <2>1. /\ N \in Nat /\ more \in Seq(Certificate) /\ Len(more) = M
        /\ \A i \in 1 .. N : more[i] = chain[i]
        /\ more[M] = x
    OBVIOUS
  <2> HIDE DEF more
  <2>2. PICK f : Steps(f, N, V, none, g) /\ DersOf(chain) = f[N]
    BY DersOfBySteps
  <2>3. PICK h : Steps(h, M, V, none, k) /\ DersOf(more) = h[M]
    BY <2>1, DersOfBySteps
  <2>4. \A i \in 1 .. N, v \in V : g[i][v] = k[i][v]
    BY <2>1 DEF DersOfSteps
  <2>5. \A v \in V : k[M][v] = WithDer(v, more[M])
    BY <2>1 DEF DersOfSteps
  <2>6. Steps(f, N, V, none, g) /\ Steps(h, M, V, none, k)
    BY <2>2, <2>3
  <2>7. N \in Nat /\ M \in Nat /\ N < M /\ M <= N + 1
    BY <2>1
  <2> HIDE DEF N, M, V, none, g, k
  <2>8. f[N] \in V /\ h[M] = k[M][f[N]]
    BY <2>4, <2>6, <2>7, OneMoreStep
  <2>9. h[M] = WithDer(f[N], more[M])
    BY <2>5, <2>8
  <2>10. QED
    BY <2>1, <2>2, <2>3, <2>8, <2>9 DEF more, V, N, M, WithDer
<1>3. ASSUME NEW chain \in Seq(Certificate) PROVE DersOf(chain) \in Seq(Nat)
  <2>1. PICK f : /\ Steps(f, Len(chain), Seq(Nat), <<>>, DersOfSteps(chain))
                 /\ DersOf(chain) = f[Len(chain)]
    BY DersOfBySteps
  <2>2. Len(chain) \in 0 .. Len(chain)
    OBVIOUS
  <2>3. QED
    BY <2>1, <2>2 DEF Steps
<1>4. QED
  BY <1>1, <1>2, <1>3

(* Chains of as many certificates, of a set in which the bytes tell them   *)
(* apart, are told apart by their bytes, whatever comes behind.            *)
LEMMA DersApart ==
  ASSUME NEW P \in SUBSET Certificate, \A c, d \in P : c.der = d.der => c = d,
         \A c \in P : Len(c.der) < U32
  PROVE  \A c, d \in Seq(P) : \A x, y \in Seq(Nat) :
           Len(c) = Len(d) /\ DersOf(c) \o x = DersOf(d) \o y => c = d /\ x = y
<1> DEFINE Apart(c) == \A d \in Seq(P), x \in Seq(Nat), y \in Seq(Nat) :
             Len(c) = Len(d) /\ DersOf(c) \o x = DersOf(d) \o y => c = d /\ x = y
           T == {c \in Seq(P) : Apart(c)}
<1>1. \A c \in Seq(P) : c \in Seq(Certificate) /\ DersOf(c) \in Seq(Nat)
  BY SeqMonotonic, DersOfOfAppend
<1>2. <<>> \in T
  <2> SUFFICES ASSUME NEW d \in Seq(P), NEW x \in Seq(Nat), NEW y \in Seq(Nat),
                      Len(<<>>) = Len(d), DersOf(<<>>) \o x = DersOf(d) \o y
               PROVE  <<>> = d /\ x = y
    BY EmptySeq
  <2>1. d = <<>>
    BY EmptySeq
  <2>2. <<>> \o x = x /\ <<>> \o y = y
    BY ConcatEmptySeq
  <2>3. DersOf(<<>>) = <<>>
    BY DersOfOfAppend
  <2>4. QED
    BY <2>1, <2>2, <2>3
<1>3. ASSUME NEW c \in Seq(P), NEW u \in P, c \in T PROVE Append(c, u) \in T
  <2> DEFINE more == Append(c, u)
  <2>1. more \in Seq(P) /\ Len(more) = Len(c) + 1 /\ Len(c) \in Nat
    BY AppendProperties, LenProperties
  <2> HIDE DEF more
  <2>2. ASSUME NEW d \in Seq(P), NEW x \in Seq(Nat), NEW y \in Seq(Nat),
               Len(more) = Len(d), DersOf(more) \o x = DersOf(d) \o y
        PROVE  more = d /\ x = y
    <3>1. d # <<>>
      BY <2>1, <2>2, EmptySeq
    <3>2. PICK e \in Seq(P), w \in P : d = Append(e, w)
      BY <3>1, SequenceEmptyOrAppend
    <3>3. Len(d) = Len(e) + 1 /\ Len(e) \in Nat
      BY <3>2, AppendProperties, LenProperties
    <3>4. Len(c) = Len(e)
      BY <2>1, <2>2, <3>3
    <3> DEFINE pu == Prefixed(u.der)
               pw == Prefixed(w.der)
               dc == DersOf(c)
               de == DersOf(e)
    <3>5. /\ u.der \in Seq(Nat) /\ w.der \in Seq(Nat)
          /\ Len(u.der) < U32 /\ Len(w.der) < U32
          /\ pu \in Seq(Nat) /\ pw \in Seq(Nat)
      BY DerIsNumbers
    <3>6. dc \in Seq(Nat) /\ de \in Seq(Nat)
      BY <1>1
    <3>7. DersOf(more) = dc \o pu /\ DersOf(d) = de \o pw
      BY <1>1, <3>2, DersOfOfAppend DEF more
    <3> DEFINE px == pu \o x
               py == pw \o y
               du == u.der
               dw == w.der
    <3>8. (dc \o pu) \o x = dc \o px /\ (de \o pw) \o y = de \o py
      <4>1. pu \in Seq(Nat) /\ dc \in Seq(Nat)
        BY <3>5, <3>6
      <4>2. pw \in Seq(Nat) /\ de \in Seq(Nat)
        BY <3>5, <3>6
      <4> HIDE DEF pu, pw, dc, de
      <4>3. (dc \o pu) \o x = dc \o (pu \o x)
        BY <4>1, Associated
      <4>4. (de \o pw) \o y = de \o (pw \o y)
        BY <4>2, Associated
      <4>5. QED
        BY <4>3, <4>4
    <3> HIDE DEF pu, pw, dc, de
    <3>9. px \in Seq(Nat) /\ py \in Seq(Nat)
      BY <3>5, ConcatProperties
    <3> HIDE DEF px, py
    <3>10. dc \o px = de \o py
      BY <2>2, <3>7, <3>8
    <3>11. c = e /\ px = py
      BY <1>3, <3>4, <3>9, <3>10 DEF dc, de
    <3>12. du = dw /\ x = y
      <4>1. /\ du \in Seq(Nat) /\ dw \in Seq(Nat)
            /\ Len(du) < U32 /\ Len(dw) < U32
            /\ Prefixed(du) \o x = Prefixed(dw) \o y
        BY <3>5, <3>11 DEF px, py, pu, pw
      <4> HIDE DEF du, dw
      <4>2. Prefixed(du) \o x = Prefixed(dw) \o y => du = dw /\ x = y
        <5>1. /\ du \in Seq(Nat) /\ dw \in Seq(Nat)
              /\ Len(du) < U32 /\ Len(dw) < U32
          BY <4>1
        <5>2. QED
          BY <5>1, PrefixedApart
      <4>3. QED
        BY <4>1, <4>2
    <3>13. u = w
      BY <3>12
    <3>14. QED
      BY <3>2, <3>11, <3>12, <3>13 DEF more
  <2>3. QED
    BY <2>1, <2>2 DEF more
<1> HIDE DEF Apart
<1>4. \A c \in Seq(P) : c \in T
  <2> HIDE DEF T
  <2>1. QED
    BY <1>2, <1>3, AllSequences
<1>5. QED
  BY <1>4 DEF Apart

(* A host is known by its bytes: it has no label only if it has no bytes.  *)
LEMMA HostsApart ==
  ASSUME NEW p \in Seq(Label) \ {<<<<>>>>}, NEW h \in Seq(Label) \ {<<<<>>>>},
         Join(p) = Join(h)
  PROVE  p = h
<1> DEFINE c == [x \in Byte |-> x]
<1>1. KeepsDots(c)
  BY SanAssumption DEF KeepsDots
<1>2. \A q \in Seq(Label) : Join(q) \in Seq(Byte)
  BY JoinIsBytes
<1>3. \A s, t \in Seq(Byte) : Same(c, s, t) <=> s = t
  <2>1. ASSUME NEW s \in Seq(Byte), NEW t \in Seq(Byte), Same(c, s, t) PROVE s = t
    <3>1. \A i \in 1 .. Len(s) : s[i] \in Byte /\ t[i] \in Byte /\ c[s[i]] = c[t[i]]
      BY <2>1, ElementOfSeq DEF Same
    <3>2. Len(s) = Len(t) /\ \A i \in 1 .. Len(s) : s[i] = t[i]
      BY <2>1, <3>1 DEF Same
    <3>3. QED
      BY <3>2, SeqEqual
  <2>2. \A s, t \in Seq(Byte) : s = t => Same(c, s, t)
    BY DEF Same
  <2>3. QED
    BY <2>1, <2>2
<1> HIDE DEF c
<1>4. \A l, m \in Label : Same(c, l, m) => l = m
  BY <1>3 DEF Label
<1>5. \A q, g \in Seq(Label) : q # <<>> /\ g # <<>> /\ Join(q) = Join(g) => q = g
  <2> SUFFICES ASSUME NEW q \in Seq(Label), NEW g \in Seq(Label),
                      q # <<>>, g # <<>>, Join(q) = Join(g)
               PROVE  q = g
    OBVIOUS
  <2>1. Same(c, Join(q), Join(g))
    BY <1>2, <1>3
  <2>2. SameLabels(c, q, g)
    BY <1>1, <2>1, JoinSame
  <2>3. Len(q) = Len(g) /\ \A k \in 1 .. Len(q) : Same(c, q[k], g[k])
    BY <2>2 DEF SameLabels
  <2>4. \A k \in 1 .. Len(q) : q[k] \in Label /\ g[k] \in Label
    BY <2>3, ElementOfSeq
  <2>5. QED
    BY <1>4, <2>3, <2>4, SeqEqual
<1>6. Join(<<>>) = <<>> /\ Join(<<<<>>>>) = <<>> /\ <<<<>>>> \in Seq(Label) /\ <<<<>>>> # <<>>
  <2>1. <<>> \in Label
    BY EmptySeq DEF Label
  <2>2. QED
    BY <2>1, OneLabel, JoinOfAppend
<1>7. \A q \in Seq(Label) \ {<<<<>>>>} : q # <<>> => Join(q) # <<>>
  <2> DEFINE dot == <<<<>>>>
  <2> HIDE DEF dot
  <2>1. Join(dot) = <<>> /\ dot \in Seq(Label) /\ dot # <<>>
    BY <1>6 DEF dot
  <2>2. \A q \in Seq(Label) : q # dot /\ q # <<>> => Join(q) # <<>>
    BY <1>5, <2>1
  <2>3. QED
    BY <2>2 DEF dot
<1>8. QED
  BY <1>5, <1>6, <1>7

LEMMA RecordsApart ==
  ASSUME NEW P \in SUBSET Certificate, \A c, d \in P : c.der = d.der => c = d,
         \A c \in P : Len(c.der) < U32,
         NEW r \in AttestationRecord, r.chain \in Seq(P), Fits(r),
         NEW s \in AttestationRecord, s.chain \in Seq(P), Fits(s),
         ToAttestationBytes(r) = ToAttestationBytes(s)
  PROVE  r = s
<1> DEFINE Flag(q) == IF q.verified THEN 1 ELSE 0
           Front(q) == <<Flag(q), q.notAfter>>
           Host(q) == Join(q.host)
           Length(q) == <<AsU32(Len(q.chain))>>
           Ders(q) == DersOf(q.chain)
<1>1. \A q \in AttestationRecord :
        /\ Front(q) \in Seq(Nat) /\ Len(Front(q)) = 2
        /\ Host(q) \in Seq(Nat) /\ Prefixed(Host(q)) \in Seq(Nat)
        /\ Length(q) \in Seq(Nat) /\ Len(Length(q)) = 1
        /\ Ders(q) \in Seq(Nat)
  <2> SUFFICES ASSUME NEW q \in AttestationRecord
               PROVE  /\ Front(q) \in Seq(Nat) /\ Len(Front(q)) = 2
                      /\ Host(q) \in Seq(Nat) /\ Prefixed(Host(q)) \in Seq(Nat)
                      /\ Length(q) \in Seq(Nat) /\ Len(Length(q)) = 1
                      /\ Ders(q) \in Seq(Nat)
    OBVIOUS
  <2>1. q.notAfter \in Nat /\ q.host \in Seq(Label) /\ q.chain \in Seq(Certificate)
    BY DEF AttestationRecord
  <2>2. Host(q) \in Seq(Nat)
    BY <2>1, JoinIsBytes
  <2>3. Prefixed(Host(q)) \in Seq(Nat)
    BY <2>2, PrefixedIsNumbers
  <2>4. Ders(q) \in Seq(Nat) /\ Len(q.chain) \in Nat
    BY <2>1, DersOfOfAppend, LenProperties
  <2>7. AsU32(Len(q.chain)) \in Nat
    BY <2>4, U32IsNumber
  <2>5. Flag(q) \in Nat
    OBVIOUS
  <2> HIDE DEF Flag
  <2>6. QED
    BY <2>1, <2>2, <2>3, <2>4, <2>5, <2>7
<1>2. \A q \in AttestationRecord :
        ToAttestationBytes(q) =
          ((Front(q) \o Prefixed(Host(q))) \o Length(q)) \o Ders(q)
  BY DEF ToAttestationBytes
<1>0. Len(Host(r)) < U32 /\ Len(Host(s)) < U32
  BY DEF Fits
<1> HIDE DEF Front, Host, Length, Ders
<1>3. Front(r) \o (Prefixed(Host(r)) \o (Length(r) \o Ders(r)))
        = Front(s) \o (Prefixed(Host(s)) \o (Length(s) \o Ders(s)))
  <2>1. \A q \in AttestationRecord :
          ToAttestationBytes(q) =
            Front(q) \o (Prefixed(Host(q)) \o (Length(q) \o Ders(q)))
    <3> SUFFICES ASSUME NEW q \in AttestationRecord
                 PROVE  ToAttestationBytes(q) =
                          Front(q) \o (Prefixed(Host(q)) \o (Length(q) \o Ders(q)))
      OBVIOUS
    <3>1. /\ Front(q) \in Seq(Nat) /\ Prefixed(Host(q)) \in Seq(Nat)
          /\ Length(q) \in Seq(Nat) /\ Ders(q) \in Seq(Nat)
      BY <1>1
    <3>2. ((Front(q) \o Prefixed(Host(q))) \o Length(q)) \o Ders(q)
            = Front(q) \o (Prefixed(Host(q)) \o (Length(q) \o Ders(q)))
      <4> DEFINE f == Front(q)
                 h == Prefixed(Host(q))
                 l == Length(q)
                 d == Ders(q)
      <4>1. f \in Seq(Nat) /\ h \in Seq(Nat) /\ l \in Seq(Nat) /\ d \in Seq(Nat)
        BY <3>1
      <4> HIDE DEF f, h, l, d
      <4> DEFINE fh == f \o h
                 ld == l \o d
      <4>2. fh \in Seq(Nat)
        BY <4>1, ConcatProperties
      <4>3. ld \in Seq(Nat)
        BY <4>1, ConcatProperties
      <4>4. (f \o h) \o ld = f \o (h \o ld)
        <5> HIDE DEF fh, ld
        <5>1. \A y \in Seq(Nat) : (f \o h) \o y = f \o (h \o y)
          BY <4>1, Associated, Zenon
        <5>2. QED
          BY <4>3, <5>1, Zenon
      <4>5. (fh \o l) \o d = fh \o (l \o d)
        <5> HIDE DEF fh
        <5>1. QED
          BY <4>1, <4>2, Associated, Zenon
      <4>6. QED
        BY <4>4, <4>5, Zenon DEF f, h, l, d
    <3>3. QED
      BY <1>2, <3>2, Zenon
  <2>2. QED
    BY <2>1, Zenon
<1>4. ASSUME NEW q \in AttestationRecord
      PROVE  /\ Length(q) \o Ders(q) \in Seq(Nat)
             /\ Prefixed(Host(q)) \o (Length(q) \o Ders(q)) \in Seq(Nat)
  <2> DEFINE h == Prefixed(Host(q))
             l == Length(q)
             d == Ders(q)
  <2>1. h \in Seq(Nat) /\ l \in Seq(Nat) /\ d \in Seq(Nat)
    BY <1>1
  <2> HIDE DEF h, l, d
  <2>2. l \o d \in Seq(Nat) /\ h \o (l \o d) \in Seq(Nat)
    <3>1. l \o d \in Seq(Nat)
      BY <2>1, ConcatProperties
    <3> DEFINE ld == l \o d
    <3> HIDE DEF ld
    <3>2. h \o ld \in Seq(Nat)
      BY <2>1, <3>1, ConcatProperties DEF ld
    <3>3. QED
      BY <3>1, <3>2 DEF ld
  <2>3. QED
    BY <2>2, Zenon DEF h, l, d
<1> DEFINE fr == Front(r)
           fs == Front(s)
           hr == Host(r)
           hs == Host(s)
           lr == Length(r)
           ls == Length(s)
           dr == Ders(r)
           ds == Ders(s)
           tr == lr \o dr
           ts == ls \o ds
           ur == Prefixed(hr) \o tr
           us == Prefixed(hs) \o ts
<1>5. /\ fr \in Seq(Nat) /\ Len(fr) = 2 /\ hr \in Seq(Nat) /\ lr \in Seq(Nat)
       /\ Len(lr) = 1 /\ dr \in Seq(Nat) /\ tr \in Seq(Nat) /\ ur \in Seq(Nat)
       /\ Len(hr) < U32
  BY <1>0, <1>1, <1>4
<1>6. /\ fs \in Seq(Nat) /\ Len(fs) = 2 /\ hs \in Seq(Nat) /\ ls \in Seq(Nat)
       /\ Len(ls) = 1 /\ ds \in Seq(Nat) /\ ts \in Seq(Nat) /\ us \in Seq(Nat)
       /\ Len(hs) < U32
  BY <1>0, <1>1, <1>4
<1>7. fr \o ur = fs \o us
  BY <1>3
<1> HIDE DEF fr, fs, hr, hs, lr, ls, dr, ds
<1>8. fr = fs /\ ur = us
  <2> HIDE DEF ur, us
  <2>1. /\ fr \in Seq(Nat) /\ fs \in Seq(Nat) /\ ur \in Seq(Nat) /\ us \in Seq(Nat)
        /\ Len(fr) = Len(fs)
    BY <1>5, <1>6
  <2>2. fr \o ur = fs \o us => fr = fs /\ ur = us
    BY <2>1, SamePrefix
  <2>3. QED
    BY <1>7, <2>2
<1>9. hr = hs /\ tr = ts
  <2>1. Prefixed(hr) \o tr = Prefixed(hs) \o ts
    BY <1>8
  <2> HIDE DEF tr, ts
  <2>2. /\ hr \in Seq(Nat) /\ hs \in Seq(Nat) /\ tr \in Seq(Nat) /\ ts \in Seq(Nat)
        /\ Len(hr) < U32 /\ Len(hs) < U32
    BY <1>5, <1>6
  <2>3. Prefixed(hr) \o tr = Prefixed(hs) \o ts => hr = hs /\ tr = ts
    BY <2>2, PrefixedApart
  <2>4. QED
    BY <2>1, <2>3
<1>10. lr = ls /\ dr = ds
  <2>1. lr \o dr = ls \o ds
    BY <1>9
  <2>2. /\ lr \in Seq(Nat) /\ ls \in Seq(Nat) /\ dr \in Seq(Nat) /\ ds \in Seq(Nat)
        /\ Len(lr) = Len(ls)
    BY <1>5, <1>6
  <2>3. lr \o dr = ls \o ds => lr = ls /\ dr = ds
    BY <2>2, SamePrefix
  <2>4. QED
    BY <2>1, <2>3
<1> USE DEF fr, fs, hr, hs, lr, ls, dr, ds
<1>11. r.verified = s.verified /\ r.notAfter = s.notAfter
  <2>1. Flag(r) = Flag(s) /\ r.notAfter = s.notAfter
    BY <1>8 DEF Front
  <2>2. r.verified \in BOOLEAN /\ s.verified \in BOOLEAN
    BY DEF AttestationRecord
  <2>3. QED
    BY <2>1, <2>2
<1>12. r.host = s.host
  <2>1. r.host \in Seq(Label) \ {<<<<>>>>} /\ s.host \in Seq(Label) \ {<<<<>>>>}
    BY DEF AttestationRecord
  <2>2. Join(r.host) = Join(s.host)
    BY <1>9 DEF Host
  <2>3. QED
    BY <2>1, <2>2, HostsApart
<1>13. r.chain = s.chain
  <2>1. Len(r.chain) = Len(s.chain)
    <3>1. AsU32(Len(r.chain)) = AsU32(Len(s.chain))
      BY <1>10 DEF Length
    <3>2. /\ Len(r.chain) \in Nat /\ Len(s.chain) \in Nat
          /\ Len(r.chain) < U32 /\ Len(s.chain) < U32
      BY LenProperties DEF Fits
    <3>3. QED
      BY <3>1, <3>2, U32IsNumber
  <2>2. DersOf(r.chain) \o <<>> = DersOf(s.chain) \o <<>> /\ <<>> \in Seq(Nat)
    BY <1>10 DEF Ders
  <2>3. QED
    BY <2>1, <2>2, DersApart
<1>14. QED
  BY <1>11, <1>12, <1>13 DEF AttestationRecord

(* Two records, of the prover or of the answer, that are not the same are  *)
(* not written the same, as long as their parts are short enough for a u32 *)
(* to say how long (to_attestation_bytes).                                 *)
THEOREM RecordsEncodeApart == Spec => []DistinctRecordsEncodeApart
<1>1. ASSUME Inv PROVE DistinctRecordsEncodeApart
  <2> DEFINE P == Certificates(records)
             Q == {c \in P : Len(c.der) < U32}
  <2>1. /\ records \in Inputs /\ Len(records) \in Nat /\ DOMAIN records = 1 .. Len(records)
        /\ \A i \in 1 .. Len(records) : records[i] \in AttestationRecord
                                         /\ records[i].chain \in Seq(Certificate)
    BY <1>1, RecordsAreWellFormed, LenProperties DEF Inv
  <2>2. /\ Len(out) \in Nat /\ Len(out) <= Len(records) /\ DOMAIN out = 1 .. Len(out)
        /\ \A i \in 1 .. Len(out) : out[i] = Verdict(records[i])
    BY <1>1, LenProperties DEF Inv, Answered
  <2>3. ASSUME NEW i \in 1 .. Len(records) PROVE records[i].chain \in Seq(P)
    <3> DEFINE chain == records[i].chain
    <3>1. chain \in Seq(Certificate) /\ Len(chain) \in Nat /\ DOMAIN chain = 1 .. Len(chain)
      BY <2>1, LenProperties
    <3>2. \A k \in 1 .. Len(chain) : chain[k] \in P
      BY <2>1, <3>1 DEF Certificates
    <3> HIDE DEF P, chain
    <3>3. chain \in [1 .. Len(chain) -> P]
      BY <3>1, <3>2, LenProperties
    <3>4. QED
      BY <3>1, <3>3 DEF chain
  <2>4. P \subseteq Certificate
    <3>1. \A i \in 1 .. Len(records) : \A k \in DOMAIN records[i].chain :
            records[i].chain[k] \in Certificate
      BY <2>1, LenProperties, ElementOfSeq
    <3>2. QED
      BY <2>1, <3>1 DEF Certificates
  <2>5. \A c, d \in P : c.der = d.der => c = d
    BY <2>1, AttestationAssumption
  <2> HIDE DEF P
  <2>6. ASSUME NEW i \in 1 .. Len(out)
        PROVE  out[i] \in AttestationRecord /\ out[i].chain \in Seq(P)
    <3>1. i \in 1 .. Len(records) /\ out[i] = Verdict(records[i])
      BY <2>1, <2>2
    <3>2. \A r : Verdict(r).chain = r.chain \/ Verdict(r).chain = <<>>
      BY DEF Verdict, Record
    <3>3. <<>> \in Seq(P)
      BY EmptySeq
    <3>4. QED
      BY <2>1, <2>3, <3>1, <3>2, <3>3, VerdictIsRecord
  <2>7. \A r \in Written : r \in AttestationRecord /\ r.chain \in Seq(P)
    BY <2>1, <2>2, <2>3, <2>6 DEF Written
  <2>8. ASSUME NEW r \in Written, Fits(r) PROVE r.chain \in Seq(Q)
    <3> DEFINE chain == r.chain
    <3>1. /\ chain \in Seq(P) /\ Len(chain) \in Nat /\ DOMAIN chain = 1 .. Len(chain)
          /\ \A k \in 1 .. Len(chain) : Len(chain[k].der) < U32
      BY <2>7, <2>8, LenProperties DEF Fits
    <3>2. \A k \in 1 .. Len(chain) : chain[k] \in Q
      BY <3>1, ElementOfSeq
    <3> HIDE DEF Q, chain
    <3>3. chain \in [1 .. Len(chain) -> Q]
      BY <3>1, <3>2, LenProperties
    <3>4. QED
      BY <3>1, <3>3 DEF chain
  <2>9. /\ Q \subseteq Certificate /\ \A c, d \in Q : c.der = d.der => c = d
        /\ \A c \in Q : Len(c.der) < U32
    BY <2>4, <2>5
  <2> HIDE DEF Q
  <2>10. ASSUME NEW r \in Written, NEW s \in Written, Fits(r), Fits(s),
                ToAttestationBytes(r) = ToAttestationBytes(s)
         PROVE  r = s
    BY <2>7, <2>8, <2>9, <2>10, RecordsApart
  <2>11. QED
    BY <2>10 DEF DistinctRecordsEncodeApart
<1>2. QED
  BY <1>1, InvHolds, PTL

-----------------------------------------------------------------------------
(* The hash.  The places of the keys are listed one after the other.       *)

LEMMA FirstOnes ==
  ASSUME NEW E, NEW s \in Seq(E), NEW n \in Nat, n + 1 <= Len(s)
  PROVE  /\ SubSeq(s, 1, n) \in Seq(E)
         /\ s[n + 1] \in E
         /\ SubSeq(s, 1, n + 1) = Append(SubSeq(s, 1, n), s[n + 1])
<1> DEFINE m == n + 1
           first == SubSeq(s, 1, n)
<1>1. Len(s) \in Nat /\ m \in 1 .. Len(s) /\ 1 \in 1 .. Len(s) /\ m - 1 = n
  BY LenProperties
<1>2. s[m] \in E
  BY <1>1, ElementOfSeq
<1>3. first \in Seq(E)
  <2>1. \A i \in 1 .. n : s[i] \in E
    BY <1>1, ElementOfSeq
  <2>2. QED
    BY <2>1, SubSeqProperties
<1>4. SubSeq(s, 1, m) = first \o <<s[m]>>
  <2>1. SubSeq(s, 1, m) = SubSeq(s, 1, m - 1) \o <<s[m]>>
    <3> HIDE DEF m
    <3>1. QED
      BY <1>1, SubSeqRecursiveSecond
  <2>2. QED
    BY <1>1, <2>1
<1> HIDE DEF first
<1>5. Append(first, s[m]) = first \o <<s[m]>>
  BY <1>2, <1>3, AppendIsConcat
<1>6. QED
  BY <1>2, <1>3, <1>4, <1>5 DEF first

LEMMA AsManyAsListed ==
  ASSUME NEW n \in Nat, NEW f, \A i, j \in 1 .. n : f[i] = f[j] => i = j
  PROVE  Cardinality({f[i] : i \in 1 .. n}) = n
<1> DEFINE S == {f[i] : i \in 1 .. n}
           g == [i \in 1 .. n |-> f[i]]
<1>1. g \in Bijection(1 .. n, S)
  BY DEF Bijection, Injection, Surjection, IsInjective
<1>2. ExistsBijection(1 .. n, S)
  BY <1>1 DEF ExistsBijection
<1>3. QED
  BY <1>2, FS_CountingElements

Place == Nat \X Nat
Before(p, q) == p[1] < q[1] \/ (p[1] = q[1] /\ p[2] < q[2])

Listing(order, S) ==
  /\ order \in Seq(Place)
  /\ \A j, k \in 1 .. Len(order) : j < k => Before(order[j], order[k])
  /\ S = {order[j] : j \in 1 .. Len(order)}

IdAt(list, p) == list[p[1]].chain[p[2]].spki.id

Reading(list, order, keys) ==
  /\ keys \in Seq(Nat)
  /\ Len(keys) = Len(order)
  /\ \A j \in 1 .. Len(order) : keys[j] = IdAt(list, order[j])

LEMMA ListedInTurn ==
  ASSUME NEW a, NEW S, Listing(a, S), NEW b, NEW T, Listing(b, T),
         \A p \in S, q \in T : Before(p, q)
  PROVE  Listing(a \o b, S \cup T)
<1> DEFINE n == Len(a)
           m == Len(b)
           ab == a \o b
<1>1. /\ n \in Nat /\ m \in Nat
      /\ \A i \in 1 .. n : a[i] \in S
      /\ \A i \in 1 .. m : b[i] \in T
      /\ S = {a[j] : j \in 1 .. n} /\ T = {b[j] : j \in 1 .. m}
      /\ a \in Seq(Place) /\ b \in Seq(Place)
  BY LenProperties DEF Listing
<1>2. /\ ab \in Seq(Place) /\ Len(ab) = n + m
      /\ \A i \in 1 .. n + m : ab[i] = IF i <= n THEN a[i] ELSE b[i - n]
  BY <1>1, ConcatProperties
<1>3. /\ \A j, k \in 1 .. n : j < k => Before(a[j], a[k])
      /\ \A j, k \in 1 .. m : j < k => Before(b[j], b[k])
  BY DEF Listing
<1> HIDE DEF n, m, ab
<1>4. ASSUME NEW j \in 1 .. n + m, NEW k \in 1 .. n + m, j < k
      PROVE  Before(ab[j], ab[k])
  <2>1. CASE k <= n
    <3>1. j \in 1 .. n /\ k \in 1 .. n /\ j <= n
      BY <1>1, <1>4, <2>1
    <3>2. QED
      BY <1>2, <1>3, <1>4, <2>1, <3>1
  <2>2. CASE j <= n /\ ~(k <= n)
    <3>1. j \in 1 .. n /\ k - n \in 1 .. m
      BY <1>1, <2>2
    <3>2. a[j] \in S /\ b[k - n] \in T
      BY <1>1, <3>1
    <3>3. QED
      BY <1>2, <2>2, <3>2
  <2>3. CASE ~(j <= n)
    <3>1. j - n \in 1 .. m /\ k - n \in 1 .. m /\ j - n < k - n /\ ~(k <= n)
      BY <1>1, <1>4, <2>3
    <3>2. Before(b[j - n], b[k - n])
      BY <1>3, <3>1
    <3>3. QED
      BY <1>2, <2>3, <3>1, <3>2
  <2>4. QED
    BY <2>1, <2>2, <2>3
<1>5. S \cup T = {ab[j] : j \in 1 .. n + m}
  <2>1. ASSUME NEW j \in 1 .. n + m PROVE ab[j] \in S \cup T
    <3>1. CASE j <= n
      BY <1>1, <1>2, <3>1
    <3>2. CASE ~(j <= n)
      <4>1. j - n \in 1 .. m
        BY <1>1, <3>2
      <4>2. QED
        BY <1>1, <1>2, <3>2, <4>1
    <3>3. QED
      BY <3>1, <3>2
  <2>2. ASSUME NEW p \in S PROVE \E j \in 1 .. n + m : ab[j] = p
    <3>1. PICK j \in 1 .. n : a[j] = p
      BY <1>1
    <3>2. j \in 1 .. n + m /\ j <= n
      BY <1>1
    <3>3. QED
      BY <1>2, <3>1, <3>2
  <2>3. ASSUME NEW p \in T PROVE \E j \in 1 .. n + m : ab[j] = p
    <3>1. PICK j \in 1 .. m : b[j] = p
      BY <1>1
    <3>2. n + j \in 1 .. n + m /\ ~(n + j <= n) /\ (n + j) - n = j
      BY <1>1
    <3>3. QED
      BY <1>2, <3>1, <3>2
  <2>4. QED
    BY <2>1, <2>2, <2>3
<1>6. QED
  BY <1>2, <1>4, <1>5 DEF Listing, ab

LEMMA ReadInTurn ==
  ASSUME NEW list, NEW a \in Seq(Place), NEW b \in Seq(Place), NEW k, NEW l,
         Reading(list, a, k), Reading(list, b, l)
  PROVE  Reading(list, a \o b, k \o l)
<1> DEFINE n == Len(a)
           m == Len(b)
           ab == a \o b
           kl == k \o l
<1>1. /\ n \in Nat /\ m \in Nat /\ Len(k) = n /\ Len(l) = m
      /\ k \in Seq(Nat) /\ l \in Seq(Nat)
  BY LenProperties DEF Reading
<1>2. Len(ab) = n + m /\ \A i \in 1 .. n + m : ab[i] = IF i <= n THEN a[i] ELSE b[i - n]
  BY ConcatProperties
<1>3. /\ kl \in Seq(Nat) /\ Len(kl) = n + m
      /\ \A i \in 1 .. n + m : kl[i] = IF i <= n THEN k[i] ELSE l[i - n]
  <2>1. k \in Seq(Nat) /\ l \in Seq(Nat)
    BY <1>1
  <2>2. /\ kl \in Seq(Nat) /\ Len(kl) = Len(k) + Len(l)
        /\ \A i \in 1 .. Len(k) + Len(l) :
             kl[i] = IF i <= Len(k) THEN k[i] ELSE l[i - Len(k)]
    BY <2>1, ConcatProperties
  <2> HIDE DEF n, m, kl
  <2>3. QED
    BY <1>1, <2>2
<1>4. /\ \A j \in 1 .. n : k[j] = IdAt(list, a[j])
      /\ \A j \in 1 .. m : l[j] = IdAt(list, b[j])
  BY DEF Reading
<1> HIDE DEF n, m, ab, kl
<1>5. ASSUME NEW i \in 1 .. n + m PROVE kl[i] = IdAt(list, ab[i])
  <2>1. CASE i <= n
    <3>1. i \in 1 .. n
      BY <1>1, <2>1
    <3>2. QED
      BY <1>2, <1>3, <1>4, <2>1, <3>1
  <2>2. CASE ~(i <= n)
    <3>1. i - n \in 1 .. m
      BY <1>1, <2>2
    <3>2. QED
      BY <1>2, <1>3, <1>4, <2>2, <3>1
  <2>3. QED
    BY <2>1, <2>2
<1>6. QED
  BY <1>2, <1>3, <1>5 DEF Reading, ab, kl

LEMMA NothingListed ==
  ASSUME NEW list
  PROVE  Listing(<<>>, {}) /\ Reading(list, <<>>, <<>>)
<1>1. <<>> \in Seq(Place) /\ <<>> \in Seq(Nat) /\ Len(<<>>) = 0
  BY EmptySeq
<1>2. \A j \in 1 .. 0 : FALSE
  OBVIOUS
<1>3. QED
  BY <1>1, <1>2 DEF Listing, Reading

LEMMA OneListed ==
  ASSUME NEW list, NEW p \in Place, IdAt(list, p) \in Nat
  PROVE  Listing(<<p>>, {p}) /\ Reading(list, <<p>>, <<IdAt(list, p)>>)
<1> DEFINE id == IdAt(list, p)
<1> HIDE DEF id
<1>1. /\ <<p>> \in Seq(Place) /\ Len(<<p>>) = 1 /\ <<p>>[1] = p
  OBVIOUS
<1>2. /\ <<id>> \in Seq(Nat) /\ Len(<<id>>) = 1 /\ <<id>>[1] = id
  BY DEF id
<1>3. \A j \in 1 .. 1 : j = 1
  OBVIOUS
<1> DEFINE one == <<p>>
           key == <<id>>
<1>4. /\ one \in Seq(Place) /\ Len(one) = 1 /\ one[1] = p
      /\ key \in Seq(Nat) /\ Len(key) = 1 /\ key[1] = id
  BY <1>1, <1>2
<1> HIDE DEF one, key
<1>5. Listing(one, {p})
  <2>1. \A j, k \in 1 .. 1 : ~(j < k)
    OBVIOUS
  <2>2. {p} = {one[j] : j \in 1 .. 1}
    BY <1>3, <1>4
  <2>3. QED
    BY <1>4, <2>1, <2>2 DEF Listing
<1>6. Reading(list, one, key)
  BY <1>3, <1>4 DEF Reading, id
<1>7. QED
  BY <1>5, <1>6 DEF one, key, id

(* The places of the keys of the first n certificates of a record. *)
Row(list, i, n) == {<<i, k>> : k \in {m \in 1 .. n : HasXy(list[i].chain[m])}}

LEMMA RowsAreListed ==
  ASSUME NEW list \in Inputs, NEW i \in 1 .. Len(list)
  PROVE  \A n \in 0 .. Len(list[i].chain) :
           \E order : /\ Listing(order, Row(list, i, n))
                      /\ Reading(list, order, KeysOf(SubSeq(list[i].chain, 1, n)))
<1> DEFINE chain == list[i].chain
           N == Len(chain)
           Listed(n) == \E order : /\ Listing(order, Row(list, i, n))
                                   /\ Reading(list, order, KeysOf(SubSeq(chain, 1, n)))
           S == {n \in 0 .. N : Listed(n)}
<1>1. chain \in Seq(Certificate) /\ N \in Nat /\ i \in Nat
  BY RecordsAreWellFormed
<1>2. 0 \in S
  <2>1. Row(list, i, 0) = {}
    BY DEF Row
  <2>2. SubSeq(chain, 1, 0) = <<>>
    BY SubSeqEmpty
  <2>3. KeysOf(SubSeq(chain, 1, 0)) = <<>>
    BY <2>2, KeysOfOfAppend
  <2>4. Listing(<<>>, Row(list, i, 0)) /\ Reading(list, <<>>, KeysOf(SubSeq(chain, 1, 0)))
    BY <2>1, <2>3, NothingListed
  <2>5. QED
    BY <1>1, <2>4
<1>3. ASSUME NEW n \in 0 .. N - 1, n \in S PROVE n + 1 \in S
  <2> DEFINE m == n + 1
             p == <<i, m>>
             keys == KeysOf(SubSeq(chain, 1, n))
             old == Row(list, i, n)
             new == Row(list, i, m)
  <2>1. n \in Nat /\ m \in 0 .. N /\ m \in 1 .. N /\ n + 1 <= N
    BY <1>1
  <2>2. chain[m] \in Certificate
    BY <1>1, <2>1, ElementOfSeq
  <2>3. KeysOf(SubSeq(chain, 1, m)) = keys \o KeyOf(chain[m])
    <3>1. /\ SubSeq(chain, 1, n) \in Seq(Certificate)
          /\ SubSeq(chain, 1, m) = Append(SubSeq(chain, 1, n), chain[m])
      BY <1>1, <2>1, FirstOnes
    <3>2. QED
      BY <2>2, <3>1, KeysOfOfAppend
  <2>4. PICK order : Listing(order, old) /\ Reading(list, order, keys)
    BY <1>3
  <2>5. CASE HasXy(chain[m])
    <3>1. new = old \cup {p}
      <4>1. {k \in 1 .. m : HasXy(chain[k])} = {k \in 1 .. n : HasXy(chain[k])} \cup {m}
        BY <2>1, <2>5
      <4> HIDE DEF m, chain
      <4>2. QED
        BY <4>1 DEF Row, chain
    <3>2. p \in Place /\ IdAt(list, p) = chain[m].spki.id
      BY <1>1, <2>1 DEF Place, IdAt
    <3>3. IdAt(list, p) \in Nat
      BY <2>2, <3>2 DEF Certificate, PublicKey
    <3>4. KeyOf(chain[m]) = <<IdAt(list, p)>>
      BY <2>5, <3>2 DEF KeyOf
    <3>5. \A q \in old, x \in {p} : Before(q, x)
      BY <2>1 DEF Row, Before
    <3> HIDE DEF p
    <3>6. Listing(<<p>>, {p}) /\ Reading(list, <<p>>, <<IdAt(list, p)>>) /\ <<p>> \in Seq(Place)
      <4>1. p \in Place
        BY <3>2
      <4>2. <<p>> \in Seq(Place)
        BY <4>1
      <4>3. Listing(<<p>>, {p}) /\ Reading(list, <<p>>, <<IdAt(list, p)>>)
        BY <3>3, <4>1, OneListed
      <4>4. QED
        BY <4>2, <4>3
    <3> DEFINE one == <<p>>
               key == <<IdAt(list, p)>>
    <3>7. Listing(one, {p}) /\ Reading(list, one, key) /\ one \in Seq(Place)
      BY <3>6
    <3>8. order \in Seq(Place)
      BY <2>4 DEF Listing
    <3> HIDE DEF one, key, keys, old
    <3>9. Listing(order \o one, old \cup {p})
      BY <2>4, <3>5, <3>7, ListedInTurn
    <3>10. Reading(list, order \o one, keys \o key)
      BY <2>4, <3>7, <3>8, ReadInTurn
    <3>11. Listed(m)
      BY <2>3, <3>1, <3>4, <3>9, <3>10 DEF key
    <3>12. QED
      BY <2>1, <3>11
  <2>6. CASE ~HasXy(chain[m])
    <3>1. new = old
      <4>1. {k \in 1 .. m : HasXy(chain[k])} = {k \in 1 .. n : HasXy(chain[k])}
        BY <2>1, <2>6
      <4> HIDE DEF m, chain
      <4>2. QED
        BY <4>1 DEF Row, chain
    <3>2. keys \in Seq(Nat)
      BY <2>4 DEF Reading
    <3> HIDE DEF keys, old
    <3>3. keys \o <<>> = keys
      BY <3>2, ConcatEmptySeq
    <3>4. KeysOf(SubSeq(chain, 1, m)) = keys
      BY <2>3, <2>6, <3>3 DEF KeyOf
    <3>5. Listed(m)
      BY <2>4, <3>1, <3>4
    <3>6. QED
      BY <2>1, <3>5
  <2>7. QED
    BY <2>5, <2>6
<1> HIDE DEF S, N
<1>4. \A n \in 0 .. N : n \in S
  BY <1>1, <1>2, <1>3, NumbersUpTo
<1>5. QED
  BY <1>4 DEF S, N

(* The places of the keys of the genuine ones of the first n records. *)
Places(list, n) ==
  UNION {Row(list, i, Len(list[i].chain)) : i \in {m \in 1 .. n : Genuine(list[m])}}

LEMMA PlacesAreListed ==
  ASSUME NEW list \in Inputs, NEW answers \in Seq(AttestationRecord),
         Len(answers) = Len(list),
         \A i \in 1 .. Len(list) : answers[i] = Verdict(list[i])
  PROVE  \E order : /\ Listing(order, Places(list, Len(list)))
                    /\ Reading(list, order, HashInput(answers))
<1> DEFINE N == Len(list)
           Listed(n) == \E order : /\ Listing(order, Places(list, n))
                                   /\ Reading(list, order, HashInput(SubSeq(answers, 1, n)))
           S == {n \in 0 .. N : Listed(n)}
<1>1. N \in Nat /\ \A i \in 1 .. N : list[i].chain \in Seq(Certificate)
  BY RecordsAreWellFormed
<1>2. 0 \in S
  <2>1. Places(list, 0) = {}
    BY DEF Places
  <2>2. SubSeq(answers, 1, 0) = <<>>
    BY SubSeqEmpty
  <2>3. HashInput(SubSeq(answers, 1, 0)) = <<>>
    BY <2>2, HashInputOfAppend
  <2>4. /\ Listing(<<>>, Places(list, 0))
        /\ Reading(list, <<>>, HashInput(SubSeq(answers, 1, 0)))
    BY <2>1, <2>3, NothingListed
  <2>5. QED
    BY <1>1, <2>4
<1>3. ASSUME NEW n \in 0 .. N - 1, n \in S PROVE n + 1 \in S
  <2> DEFINE m == n + 1
             chain == list[m].chain
             row == Row(list, m, Len(chain))
             keys == HashInput(SubSeq(answers, 1, n))
             old == Places(list, n)
             new == Places(list, m)
  <2>1. n \in Nat /\ m \in 0 .. N /\ m \in 1 .. N /\ n + 1 <= Len(answers)
    BY <1>1
  <2>2. answers[m] = Verdict(list[m])
    BY <2>1
  <2>3. HashInput(SubSeq(answers, 1, m)) = keys \o KeysIn(answers[m])
    <3>1. /\ SubSeq(answers, 1, n) \in Seq(AttestationRecord)
          /\ answers[m] \in AttestationRecord
          /\ SubSeq(answers, 1, m) = Append(SubSeq(answers, 1, n), answers[m])
      BY <2>1, FirstOnes
    <3>2. QED
      BY <3>1, HashInputOfAppend
  <2>4. PICK order : Listing(order, old) /\ Reading(list, order, keys)
    BY <1>3
  <2>5. order \in Seq(Place)
    BY <2>4 DEF Listing
  <2>6. CASE Genuine(list[m])
    <3>1. new = old \cup row
      <4>1. {i \in 1 .. m : Genuine(list[i])} = {i \in 1 .. n : Genuine(list[i])} \cup {m}
        BY <2>1, <2>6
      <4> HIDE DEF m
      <4>2. QED
        BY <4>1 DEF Places
    <3>2. KeysIn(answers[m]) = KeysOf(chain)
      <4>1. Verdict(list[m]) = Record(chain, TRUE, list[m].host, chain[1].notAfter)
        BY <2>6 DEF Verdict
      <4>2. answers[m].verified /\ answers[m].chain = chain
        BY <2>2, <4>1 DEF Record
      <4>3. QED
        BY <4>2 DEF KeysIn
    <3>3. PICK more : Listing(more, row) /\ Reading(list, more, KeysOf(chain))
      <4>1. chain \in Seq(Certificate) /\ Len(chain) \in Nat
        BY <1>1, <2>1, LenProperties
      <4>2. SubSeq(chain, 1, Len(chain)) = chain
        BY <4>1, SubSeqFull
      <4>3. Len(chain) \in 0 .. Len(chain)
        BY <4>1
      <4> HIDE DEF m
      <4>4. \A k \in 0 .. Len(list[m].chain) :
              \E o : /\ Listing(o, Row(list, m, k))
                     /\ Reading(list, o, KeysOf(SubSeq(list[m].chain, 1, k)))
        BY <2>1, RowsAreListed
      <4>5. \E o : /\ Listing(o, Row(list, m, Len(chain)))
                   /\ Reading(list, o, KeysOf(SubSeq(chain, 1, Len(chain))))
        BY <4>3, <4>4
      <4>6. QED
        BY <4>2, <4>5
    <3>4. more \in Seq(Place)
      BY <3>3 DEF Listing
    <3>5. \A p \in old, q \in row : Before(p, q)
      <4> SUFFICES ASSUME NEW p \in old, NEW q \in row PROVE Before(p, q)
        OBVIOUS
      <4>1. PICK i \in 1 .. n : p \in Row(list, i, Len(list[i].chain))
        BY DEF Places
      <4>2. p[1] = i
        BY <4>1 DEF Row
      <4>3. q[1] = m
        BY DEF Row
      <4>4. i < m
        BY <2>1
      <4>5. QED
        BY <4>2, <4>3, <4>4 DEF Before
    <3> HIDE DEF row, old, keys
    <3>6. Listing(order \o more, old \cup row)
      BY <2>4, <3>3, <3>5, ListedInTurn
    <3>7. Reading(list, order \o more, keys \o KeysOf(chain))
      BY <2>4, <2>5, <3>3, <3>4, ReadInTurn
    <3>8. Listed(m)
      BY <2>3, <3>1, <3>2, <3>6, <3>7
    <3>9. QED
      BY <2>1, <3>8
  <2>7. CASE ~Genuine(list[m])
    <3>1. new = old
      <4>1. {i \in 1 .. m : Genuine(list[i])} = {i \in 1 .. n : Genuine(list[i])}
        BY <2>1, <2>7
      <4> HIDE DEF m
      <4>2. QED
        BY <4>1 DEF Places
    <3>2. KeysIn(answers[m]) = <<>>
      <4>1. Verdict(list[m]) = Record(<<>>, FALSE, <<>>, 0)
        BY <2>7 DEF Verdict
      <4>2. ~answers[m].verified
        BY <2>2, <4>1 DEF Record
      <4>3. QED
        BY <4>2 DEF KeysIn
    <3>3. keys \in Seq(Nat)
      BY <2>4 DEF Reading
    <3> HIDE DEF keys, old
    <3>4. keys \o <<>> = keys
      BY <3>3, ConcatEmptySeq
    <3>5. Listed(m)
      BY <2>3, <2>4, <3>1, <3>2, <3>4
    <3>6. QED
      BY <2>1, <3>5
  <2>8. QED
    BY <2>6, <2>7
<1> HIDE DEF S, N
<1>4. \A n \in 0 .. N : n \in S
  BY <1>1, <1>2, <1>3, NumbersUpTo
<1>5. Listed(N)
  BY <1>1, <1>4 DEF S
<1>6. SubSeq(answers, 1, N) = answers
  BY SubSeqFull DEF N
<1>7. QED
  BY <1>5, <1>6 DEF N

(* A key in a listing stands behind those that come before its place. *)
LEMMA ListedByCount ==
  ASSUME NEW order, NEW S, Listing(order, S)
  PROVE  /\ Cardinality(S) = Len(order)
         /\ \A p \in S : \E j \in 1 .. Len(order) :
              order[j] = p /\ Cardinality({q \in S : Before(q, p)}) = j - 1
<1> DEFINE n == Len(order)
<1>1. /\ n \in Nat /\ \A j \in 1 .. n : order[j] \in Place
      /\ S = {order[j] : j \in 1 .. n}
      /\ \A j, k \in 1 .. n : j < k => Before(order[j], order[k])
  BY LenProperties, ElementOfSeq DEF Listing
<1> HIDE DEF n
<1>2. \A p, q \in Place : Before(p, q) => p # q /\ ~Before(q, p)
  BY DEF Place, Before
<1>3. \A j, k \in 1 .. n : Before(order[j], order[k]) => j < k
  <2> SUFFICES ASSUME NEW j \in 1 .. n, NEW k \in 1 .. n,
                      Before(order[j], order[k]), ~(j < k)
               PROVE  FALSE
    OBVIOUS
  <2>1. CASE j = k
    BY <1>1, <1>2, <2>1
  <2>2. CASE k < j
    BY <1>1, <1>2, <2>2
  <2>3. QED
    BY <1>1, <2>1, <2>2
<1>4. \A j, k \in 1 .. n : order[j] = order[k] => j = k
  <2> SUFFICES ASSUME NEW j \in 1 .. n, NEW k \in 1 .. n, order[j] = order[k], j # k
               PROVE  FALSE
    OBVIOUS
  <2>1. j < k \/ k < j
    BY <1>1
  <2>2. Before(order[j], order[k]) \/ Before(order[k], order[j])
    BY <1>1, <2>1
  <2>3. QED
    BY <1>1, <1>2, <2>2
<1>5. Cardinality(S) = n
  BY <1>1, <1>4, AsManyAsListed
<1>6. ASSUME NEW j \in 1 .. n
      PROVE  Cardinality({q \in S : Before(q, order[j])}) = j - 1
  <2> DEFINE i == j - 1
  <2>1. i \in Nat /\ 1 .. i \subseteq 1 .. n /\ \A k \in 1 .. n : k < j <=> k \in 1 .. i
    BY <1>1
  <2>2. {q \in S : Before(q, order[j])} = {order[k] : k \in 1 .. i}
    BY <1>1, <1>3, <2>1
  <2>3. \A k, l \in 1 .. i : order[k] = order[l] => k = l
    BY <1>4, <2>1
  <2> HIDE DEF i
  <2>4. Cardinality({order[k] : k \in 1 .. i}) = i
    BY <2>1, <2>3, AsManyAsListed
  <2>5. QED
    BY <2>2, <2>4 DEF i
<1>7. ASSUME NEW p \in S
      PROVE  \E j \in 1 .. n :
               order[j] = p /\ Cardinality({q \in S : Before(q, p)}) = j - 1
  <2>1. PICK j \in 1 .. n : order[j] = p
    BY <1>1
  <2>2. Cardinality({q \in S : Before(q, p)}) = j - 1
    BY <1>6, <2>1, Zenon
  <2>3. QED
    BY <2>1, <2>2
<1>8. QED
  BY <1>5, <1>7 DEF n

(* The hash is over the readable P-256 keys of the genuine chains, each    *)
(* once, in the order of the records and of the chains                     *)
(* (compute_tls_attestation_hash over the reverified records).             *)
THEOREM GenuineKeysAreHashed == Spec => []HashIsOfGenuineKeys
<1>1. ASSUME Inv PROVE HashIsOfGenuineKeys
  <2> DEFINE places == UNION {{<<i, k>> : k \in {n \in DOMAIN records[i].chain :
                                                   HasXy(records[i].chain[n])}} :
                              i \in {n \in DOMAIN records : Genuine(records[n])}}
             before(p) == {q \in places : q[1] < p[1] \/ (q[1] = p[1] /\ q[2] < p[2])}
  <2> SUFFICES ASSUME pc = "done"
               PROVE  /\ Len(hashed) = Cardinality(places)
                      /\ \A p \in places :
                           hashed[Cardinality(before(p)) + 1] =
                             records[p[1]].chain[p[2]].spki.id
    BY DEF HashIsOfGenuineKeys
  <2>1. /\ records \in Inputs /\ out \in Seq(AttestationRecord)
        /\ Len(out) = Len(records) /\ hashed = HashInput(out)
        /\ \A i \in 1 .. Len(records) : out[i] = Verdict(records[i])
    BY <1>1 DEF Inv, Answered
  <2>2. /\ DOMAIN records = 1 .. Len(records)
        /\ \A i \in 1 .. Len(records) :
             DOMAIN records[i].chain = 1 .. Len(records[i].chain)
    BY <2>1, RecordsAreWellFormed, LenProperties
  <2>3. places = Places(records, Len(records))
    BY <2>2 DEF Places, Row
  <2>4. PICK order : Listing(order, places) /\ Reading(records, order, hashed)
    <3>1. \E order : /\ Listing(order, Places(records, Len(records)))
                     /\ Reading(records, order, HashInput(out))
      BY <2>1, PlacesAreListed
    <3>2. QED
      BY <2>1, <2>3, <3>1
  <2>5. \A p : before(p) = {q \in places : Before(q, p)}
    BY DEF Before
  <2> HIDE DEF places, before
  <2>6. /\ Cardinality(places) = Len(order)
        /\ \A p \in places : \E j \in 1 .. Len(order) :
             order[j] = p /\ Cardinality({q \in places : Before(q, p)}) = j - 1
    BY <2>4, ListedByCount
  <2>7. Len(hashed) = Len(order) /\ \A j \in 1 .. Len(order) : hashed[j] = IdAt(records, order[j])
    BY <2>4 DEF Reading
  <2>8. ASSUME NEW p \in places
        PROVE  hashed[Cardinality(before(p)) + 1] = records[p[1]].chain[p[2]].spki.id
    <3>1. PICK j \in 1 .. Len(order) :
            order[j] = p /\ Cardinality({q \in places : Before(q, p)}) = j - 1
      BY <2>6
    <3>2. Cardinality(before(p)) + 1 = j
      <4>1. before(p) = {q \in places : Before(q, p)}
        BY <2>5, Zenon
      <4>2. Cardinality(before(p)) = j - 1
        BY <3>1, <4>1, Zenon
      <4>3. QED
        BY <4>2
    <3>3. hashed[j] = IdAt(records, p)
      BY <2>7, <3>1
    <3>4. QED
      BY <3>2, <3>3 DEF IdAt
  <2>9. QED
    BY <2>6, <2>7, <2>8
<1>2. QED
  BY <1>1, InvHolds, PTL

(* Where a usize has 64 bits the reader never slices out of range, neither *)
(* at the wrapper of an extension nor at an entry of the walk, whatever is *)
(* in the extension (der_inner, der_read_tlv; WideReaderNeverPanics says   *)
(* it of every string of bytes).                                           *)
THEOREM ReaderNeverPanics == Wide => (Spec => []NeverPanics)
<1>1. ASSUME Inv, pc = "san", Cert(1).sans # <<>>
      PROVE  DerInner(SanBytes(Cert(1).sans[1]), SeqTag).kind # "panic"
  <2> DEFINE san == Cert(1).sans[1]
  <2>1. Current \in AttestationRecord /\ Current.chain # <<>>
    BY <1>1, TheRecordInHand DEF Inv, Started, Begun
  <2>2. san \in Extension
    BY <1>1, <2>1, FirstExtension DEF Cert
  <2> HIDE DEF san
  <2>3. DerInner(SanBytes(san), SeqTag)
          \in {Tlv("read", SeqTag, Names(san), 4 + san.kept), NoTlv}
    BY <2>2, SanIsRead DEF Names
  <2>4. DerInner(SanBytes(san), SeqTag).kind # "panic"
    BY <2>3 DEF Tlv, NoTlv
  <2>5. QED
    BY <2>4 DEF san
<1>2. ASSUME Wide, Inv, pc = "walk", pos < Len(names) PROVE Entry.kind # "panic"
  <2> DEFINE san == Cert(1).sans[1]
             data == SubSeq(names, pos + 1, Len(names))
  <2>1. san \in Extension /\ names = Names(san)
    BY <1>2, InTheWalk DEF Inv, Walks
  <2>2. PICK k \in 0 .. Len(san.entries) : pos = Len(UpTo(san.entries, k))
    BY <1>2, InTheWalk
  <2>3. pos \in Nat
    BY <2>1, <2>2, Lengths
  <2>4. names \in Seq(Byte)
    BY <2>1, NamesAreBytes DEF Names
  <2>5. data \in Seq(Byte)
    <3>1. Len(names) \in Nat /\ \A i \in pos + 1 .. Len(names) : names[i] \in Byte
      BY <2>3, <2>4, LenProperties, ElementOfSeq
    <3> DEFINE first == pos + 1
               last == Len(names)
    <3> HIDE DEF first, last
    <3>2. first \in Int /\ last \in Int /\ \A i \in first .. last : names[i] \in Byte
      BY <2>3, <3>1 DEF first, last
    <3>3. SubSeq(names, first, last) \in Seq(Byte)
      BY <3>2, SubSeqProperties
    <3>4. QED
      BY <3>3 DEF first, last
  <2> HIDE DEF data
  <2>6. DerReadTlv(data).kind # "panic"
    BY <1>2, <2>5, WideReaderNeverPanics
  <2>7. QED
    BY <2>6 DEF Entry, data
<1>3. Wide /\ Inv => NeverPanics
  BY <1>1, <1>2 DEF NeverPanics
<1> SUFFICES ASSUME Wide PROVE Spec => []NeverPanics
  OBVIOUS
<1>4. Inv => NeverPanics
  BY <1>3
<1>5. QED
  BY <1>4, InvHolds, PTL

=============================================================================

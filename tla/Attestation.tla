---------------------------- MODULE Attestation -----------------------------
(***************************************************************************)
(* Re-verification of TLS attestation records and the hash over them       *)
(* (src/tls/verify.rs and src/tls/mod.rs).  The prover hands over records  *)
(* with a certificate chain each and its own claim that the chain was      *)
(* verified; reverify_attestations takes nothing of the claim, walks every *)
(* chain again, and compute_tls_attestation_hash commits to the keys of    *)
(* the chains that stood the test.                                         *)
(*                                                                         *)
(* A certificate is what Certificate::from_der finds in it.  The key under *)
(* which its signature is valid is one of its fields; Poseidon2 is one to  *)
(* one, so a hash is known by what was hashed.                             *)
(***************************************************************************)
EXTENDS SubjectAltName, FiniteSets

CONSTANTS
  Roots,   \* the public keys of TLS_SERVER_ROOTS
  U32,     \* the values of a u32, which a length is cut to when it is written
  Inputs   \* the lists of records a prover may hand over

VARIABLES
  records,  \* the prover's records
  out,      \* the records reverify_attestations has answered so far
  pc,       \* what is done next, of the record after those in out
  link,     \* the certificate whose signature is checked next
  names,    \* the contents of the leaf's SAN extension
  pos,      \* how far they have been read
  hashed    \* what compute_tls_attestation_hash has hashed

vars == <<records, out, pc, link, names, pos, hashed>>

-----------------------------------------------------------------------------
(* Keys, certificates and signatures.  A key has an alg, an id and a form: *)
(* a point may be compressed, and a key may be bad, which does not decode. *)

SpkiIsP256(cert) == cert.spki.alg = "p256"

(* A key that does not decode verifies nothing, and every key wants a      *)
(* signature algorithm of its own family.                                  *)
VerifiesUnder(cert, key) ==
  /\ key.form # "bad"
  /\ \/ key.alg \in {"p256", "p384"} /\ cert.sigAlg = "ecdsa"
     \/ key.alg = "rsa" /\ cert.sigAlg = "rsa"
  /\ cert.signedBy = key.id

VerifyCertSig(child, issuer) == VerifiesUnder(child, issuer.spki)

IsSignedByMozillaRoot(cert) ==
  \/ cert.spki \in Roots
  \/ \E root \in Roots : VerifiesUnder(cert, root)

(* x and y of a P-256 key; only the uncompressed form has both. *)
HasXy(cert) ==
  /\ cert.parses
  /\ SpkiIsP256(cert)
  /\ cert.spki.form = "uncompressed"

-----------------------------------------------------------------------------
(* Records. *)

Record(chain, verified, host, notAfter) ==
  [chain |-> chain, verified |-> verified, host |-> host, notAfter |-> notAfter]

Unavailable == Record(<<>>, FALSE, <<>>, 0)
P256Verified(chain, host, notAfter) == Record(chain, TRUE, host, notAfter)

(* to_attestation_bytes: a record as one string of numbers, the u64 and    *)
(* every u32 in it as one. *)
AsU32(n) == n % U32
Prefixed(bytes) == <<AsU32(Len(bytes))>> \o bytes

(* A bug: a certificate is written without its length. *)
CertsRunTogether(record) ==
  LET ders[i \in 0 .. Len(record.chain)] ==
        IF i = 0 THEN <<>>
        ELSE ders[i - 1] \o record.chain[i].der
  IN  <<IF record.verified THEN 1 ELSE 0, record.notAfter>>
        \o Prefixed(Join(record.host))
        \o <<AsU32(Len(record.chain))>> \o ders[Len(record.chain)]

DersOf(chain) ==
  LET upTo[i \in 0 .. Len(chain)] ==
        IF i = 0 THEN <<>> ELSE upTo[i - 1] \o Prefixed(chain[i].der)
  IN  upTo[Len(chain)]

ToAttestationBytes(record) ==
  <<IF record.verified THEN 1 ELSE 0, record.notAfter>>
    \o Prefixed(Join(record.host))
    \o <<AsU32(Len(record.chain))>> \o DersOf(record.chain)

(* No part of the record is too long for its length to be written. *)
Fits(record) ==
  /\ Len(Join(record.host)) < U32
  /\ Len(record.chain) < U32
  /\ \A i \in DOMAIN record.chain : Len(record.chain[i].der) < U32

(* A bug: the first key without x and y ends the record's part. *)
KeysToFirstGap(chain) ==
  LET upTo[i \in 0 .. Len(chain)] ==
        IF i = 0 THEN <<>>
        ELSE upTo[i - 1] \o
             (IF \A j \in 1 .. i : HasXy(chain[j]) THEN <<chain[i].spki.id>> ELSE <<>>)
  IN  upTo[Len(chain)]

(* What compute_tls_attestation_hash feeds the sponge. *)
KeysOf(chain) ==
  LET upTo[i \in 0 .. Len(chain)] ==
        IF i = 0 THEN <<>>
        ELSE upTo[i - 1] \o
             (IF HasXy(chain[i]) THEN <<chain[i].spki.id>> ELSE <<>>)
  IN  upTo[Len(chain)]

HashInput(list) ==
  LET upTo[i \in 0 .. Len(list)] ==
        IF i = 0 THEN <<>>
        ELSE upTo[i - 1] \o
             (IF list[i].verified THEN KeysOf(list[i].chain) ELSE <<>>)
  IN  upTo[Len(list)]

EmptyHash == <<>>

-----------------------------------------------------------------------------
(* What a prover may hand over.  A certificate is what from_der makes of   *)
(* its bytes; a host of no bytes has no label.                             *)

PublicKey == [alg : {"p256", "p384", "rsa", "other"}, id : Nat,
              form : {"uncompressed", "compressed", "bad"}]
Certificate ==
  [parses : BOOLEAN, spki : PublicKey, sigAlg : {"ecdsa", "rsa", "other"},
   signedBy : Nat, sans : Seq(Extension), notAfter : Nat, der : Seq(Nat)]
AttestationRecord ==
  [chain : Seq(Certificate), verified : BOOLEAN,
   host : Seq(Label) \ {<<<<>>>>}, notAfter : Nat]

Certificates(list) ==
  UNION {{list[i].chain[k] : k \in DOMAIN list[i].chain} : i \in DOMAIN list}

ASSUME AttestationAssumption ==
  /\ U32 \in Nat \ {0}
  /\ Roots \subseteq PublicKey
  /\ Inputs \subseteq Seq(AttestationRecord)
  /\ \A list \in Inputs : \A c, d \in Certificates(list) : c.der = d.der => c = d

-----------------------------------------------------------------------------
(* reverify_attestations, one record after the other. *)

Init ==
  /\ records \in Inputs
  /\ out = <<>>
  /\ pc = "record"
  /\ link = 1
  /\ names = <<>>
  /\ pos = 0
  /\ hashed = EmptyHash

Current == records[Len(out) + 1]
Cert(i) == Current.chain[i]
Goto(step) == pc' = step

Answer(record) ==
  /\ out' = Append(out, record)
  /\ Goto("record")
  /\ link' = 1
  /\ names' = <<>>
  /\ pos' = 0
  /\ UNCHANGED <<records, hashed>>

(* No chain, no host, a certificate that does not parse, a leaf with       *)
(* another key than P-256.                                                 *)
BeginRecord ==
  /\ pc = "record"
  /\ Len(out) < Len(records)
  /\ IF \/ Current.chain = <<>>
        \/ Join(Current.host) = <<>>
        \/ \E i \in 1 .. Len(Current.chain) : ~Cert(i).parses
        \/ ~SpkiIsP256(Cert(1))
     THEN Answer(Unavailable)
     ELSE Goto("chain") /\ UNCHANGED <<records, out, link, names, pos, hashed>>

CheckLink ==
  /\ pc = "chain"
  /\ link < Len(Current.chain)
  /\ IF VerifyCertSig(Cert(link), Cert(link + 1))
     THEN link' = link + 1 /\ UNCHANGED <<records, out, pc, names, pos, hashed>>
     ELSE Answer(Unavailable)

CheckAnchor ==
  /\ pc = "chain"
  /\ link = Len(Current.chain)
  /\ IF IsSignedByMozillaRoot(Cert(link))
     THEN Goto("san") /\ UNCHANGED <<records, out, link, names, pos, hashed>>
     ELSE Answer(Unavailable)

(* The first SAN extension of the leaf is the only one that is read.  A    *)
(* panic has no next step.                                                 *)
OpenSan ==
  /\ pc = "san"
  /\ \/ /\ Cert(1).sans = <<>>
        /\ Answer(Unavailable)
     \/ /\ Cert(1).sans # <<>>
        /\ \E seq \in {DerInner(SanBytes(Cert(1).sans[1]), SeqTag)} :
             \/ seq.kind = "none" /\ Answer(Unavailable)
             \/ /\ seq.kind = "read"
                /\ Goto("walk")
                /\ names' = seq.content
                /\ UNCHANGED <<records, out, link, pos, hashed>>

Entry == DerReadTlv(SubSeq(names, pos + 1, Len(names)))
Matches ==
  /\ Entry.kind = "read"
  /\ Entry.tag = DnsTag
  /\ DnsNameMatches(Entry.content, Join(Current.host))

(* The end of the list, or an entry that cannot be read, ends the walk. *)
SanEnds ==
  /\ pc = "walk"
  /\ pos >= Len(names) \/ Entry.kind = "none"
  /\ Answer(Unavailable)

(* A bug: the tag is counted twice. *)
StepTooFar ==
  /\ pc = "walk"
  /\ pos < Len(names)
  /\ Entry.kind = "read" /\ ~Matches
  /\ pos' = pos + 1 + Entry.total
  /\ UNCHANGED <<records, out, pc, link, names, hashed>>

(* A bug: the walk goes on by the content's length. *)
StepByContent ==
  /\ pc = "walk"
  /\ pos < Len(names)
  /\ Entry.kind = "read" /\ ~Matches
  /\ pos' = pos + Len(Entry.content)
  /\ UNCHANGED <<records, out, pc, link, names, hashed>>

SanNext ==
  /\ pc = "walk"
  /\ pos < Len(names)
  /\ Entry.kind = "read" /\ ~Matches
  /\ pos' = pos + Entry.total
  /\ UNCHANGED <<records, out, pc, link, names, hashed>>

SanMatches ==
  /\ pc = "walk"
  /\ pos < Len(names)
  /\ Matches
  /\ Answer(P256Verified(Current.chain, Current.host, Cert(1).notAfter))

Hash ==
  /\ pc = "record"
  /\ Len(out) = Len(records)
  /\ hashed' = HashInput(out)
  /\ Goto("done")
  /\ UNCHANGED <<records, out, link, names, pos>>

Next ==
  \/ BeginRecord \/ CheckLink \/ CheckAnchor
  \/ OpenSan \/ SanNext \/ SanEnds \/ SanMatches
  \/ Hash

(* The functions run to their end. *)
Spec == Init /\ [][Next]_vars /\ WF_vars(Next)

-----------------------------------------------------------------------------
TypeOK ==
  /\ Len(out) <= Len(records)
  /\ \A i \in 1 .. Len(out) :
       out[i] = Unavailable \/ out[i].chain = records[i].chain
  /\ pc \in {"record", "chain", "san", "walk", "done"}
  /\ pc \in {"chain", "san", "walk"} => link \in 1 .. Len(Current.chain)
  /\ pos \in Nat
  /\ pc = "walk" => pos <= Len(names)
  /\ hashed \in Seq(Nat)

(* What a verified record stands for, said without the order of the checks *)
(* of verify_p256_chain and is_signed_by_mozilla_root.  Only the leaf's key *)
(* has to be P-256: what the comments say of the other keys is             *)
(* IssuersAreP256 below.                                                   *)
Trusted(chain) ==
  /\ chain # <<>>
  /\ \A i \in DOMAIN chain : chain[i].parses
  /\ chain[1].spki.alg = "p256"
  /\ \A i \in DOMAIN chain :
       \E key \in Roots \cup {chain[j].spki : j \in DOMAIN chain} :
         \/ VerifiesUnder(chain[i], key)
            /\ (i < Len(chain) => key = chain[i + 1].spki)
            /\ (i = Len(chain) => key \in Roots)
         \/ i = Len(chain) /\ chain[i].spki \in Roots

Genuine(record) ==
  /\ Join(record.host) # <<>>
  /\ Trusted(record.chain)
  /\ LET sans == record.chain[1].sans IN
     sans # <<>> /\ GoodFor(sans[1], record.host)

(* A record comes out as verified exactly if its chain, its host and the   *)
(* names of its leaf deserve it, whatever the prover claimed, in its own   *)
(* place of the list and with the leaf's own expiry (reverify_attestations,*)
(* verify_p256_chain, san_contains_hostname, dns_name_matches).            *)
OnlyTheGenuineAttest ==
  \A i \in 1 .. Len(out) :
    out[i] = IF Genuine(records[i])
             THEN Record(records[i].chain, TRUE, records[i].host,
                         records[i].chain[1].notAfter)
             ELSE Record(<<>>, FALSE, <<>>, 0)

(* The hash is over the readable P-256 keys of the genuine chains, each    *)
(* once, in the order of the records and of the chains, and over nothing   *)
(* else (compute_tls_attestation_hash over the reverified records): not    *)
(* over the expiry, which mod.rs:23 and docs/tls-attestation.md:36 leave   *)
(* out and docs/tls-attestation.md:47 promises.                            *)
HashIsOfGenuineKeys ==
  LET places == UNION {{<<i, k>> : k \in {n \in DOMAIN records[i].chain :
                                            HasXy(records[i].chain[n])}} :
                       i \in {n \in DOMAIN records : Genuine(records[n])}}
      before(p) == {q \in places : q[1] < p[1] \/ (q[1] = p[1] /\ q[2] < p[2])}
  IN  pc = "done" =>
        /\ Len(hashed) = Cardinality(places)
        /\ \A p \in places :
             hashed[Cardinality(before(p)) + 1] =
               records[p[1]].chain[p[2]].spki.id

(* Two records, of the prover or of the answer, that are not the same are  *)
(* not written the same, as long as no part of them is longer than a u32   *)
(* can say (to_attestation_bytes).                                         *)
Written == {records[i] : i \in DOMAIN records} \cup {out[i] : i \in DOMAIN out}
DistinctRecordsEncodeApart ==
  \A r, s \in {q \in Written : Fits(q)} :
    ToAttestationBytes(r) = ToAttestationBytes(s) => r = s

(* Neither the wrapper of an extension nor an entry of the walk makes the  *)
(* reader slice out of range: every damaged extension is a parse error,    *)
(* which is answered with `false` (verify_p256_chain, der_inner,           *)
(* der_read_tlv).                                                          *)
NeverPanics ==
  /\ pc = "san" /\ Cert(1).sans # <<>> =>
       DerInner(SanBytes(Cert(1).sans[1]), SeqTag).kind # "panic"
  /\ pc = "walk" /\ pos < Len(names) => Entry.kind # "panic"

(* Every list of records is answered: the walk along a SAN extension, how- *)
(* ever damaged, gets to an end (the loop of san_contains_hostname).       *)
Answers == <>(pc = "done")

-----------------------------------------------------------------------------
(* What the doc comment says of the code and the code does not keep.       *)

(* In a verified chain every key that signed another certificate of it is  *)
(* a P-256 key (the doc comment of verify_p256_chain).                     *)
IssuersAreP256 ==
  \A i \in DOMAIN out : out[i].verified =>
    \A k \in DOMAIN out[i].chain : k > 1 => SpkiIsP256(out[i].chain[k])
=============================================================================

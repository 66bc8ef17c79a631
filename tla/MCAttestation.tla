---------------------------- MODULE MCAttestation ---------------------------
(***************************************************************************)
(* Two families of inputs: chains of up to three certificates of a small   *)
(* pool, alone and in pairs of records, with a plain extension; and one    *)
(* good chain whose leaf has every small extension, against every host.    *)
(***************************************************************************)
EXTENDS Attestation

MCHalf == 8
MCWord == 16 * 16 * 16 * 16 * 16
MCGuestWord == 16 * 16 * 16 * 16   \* a usize of four octets
MCLower == [x \in 0 .. 15 |-> IF x = 2 THEN 1 ELSE x]
IpTag == 11
a == <<1>>
A == <<2>>
b == <<3>>

-----------------------------------------------------------------------------
(* Extensions. *)
DnsEntry(labels) == [tag |-> 13, form |-> "short", labels |-> labels]
San(entries, cut, wrapper) ==
  [entries |-> entries, wrapper |-> wrapper,
   kept |-> Len(EntriesBytes(entries)) - cut]
PlainSan == San(<<DnsEntry(<<a, b>>)>>, 0, "whole")

Names(labels) == {<<l>> : l \in labels} \cup (labels \X labels)
Hosts == {<<>>, <<a, b, a>>, <<b, a, b>>, <<a, a, b>>}
           \cup (Names({<<>>, a, A, b}) \ {<<<<>>>>})
Patterns == Names({<<>>, a, A, b, <<5>>})
              \cup {<<<<5>>, b, a>>, <<<<5>>, <<5>>, b>>, <<a, <<5>>, b>>, <<a, A, b>>}

(* Lists of two entries of every form, cut anywhere near their end. *)
Entry1 == [tag : {13, IpTag}, form : {"short", "long", "indefinite", "huge", "five"},
           labels : {<<a, b>>, <<b>>, <<<<>>>>}]
Lists == {<<>>} \cup (Entry1 \X {[tag |-> 13, form |-> f, labels |-> <<a, b>>] :
                                  f \in {"short", "long"}})
DamagedSans == {San(l, cut, w) : l \in Lists \ {<<>>}, cut \in 0 .. 5,
                                 w \in {"whole", "other_tag", "too_short"}}
                 \cup {San(<<>>, 0, "whole")}

-----------------------------------------------------------------------------
(* Certificates. *)
Key(alg, id) == [alg |-> alg, id |-> id, form |-> "uncompressed"]
CertificateOf(spki, sigAlg, signedBy, der) ==
  [parses |-> TRUE, spki |-> spki, sigAlg |-> sigAlg, signedBy |-> signedBy,
   sans |-> <<PlainSan>>, notAfter |-> signedBy, der |-> der]

MCRoots == {Key("rsa", 8), Key("p256", 9), Key("p384", 7), Key("other", 6)}

Leaf         == CertificateOf(Key("p256", 1), "ecdsa", 2, <<1>>)
Compressed   == CertificateOf([Key("p256", 3) EXCEPT !.form = "compressed"],
                            "ecdsa", 9, <<1, 1>>)
RsaLeaf      == CertificateOf(Key("rsa", 4), "ecdsa", 9, <<3>>)
Issuer       == CertificateOf(Key("p256", 2), "ecdsa", 5, <<1, 2, 1>>)
BadIssuer    == [Issuer EXCEPT !.spki.form = "bad", !.der = <<5>>]
Issuer384    == CertificateOf(Key("p384", 5), "rsa", 8, <<2, 1>>)
OldIssuer    == [Issuer384 EXCEPT !.sigAlg = "other", !.der = <<6>>]
WrongAlg     == [Issuer EXCEPT !.sigAlg = "ecdsa", !.signedBy = 8, !.der = <<7>>]
CrossSigned  == [Issuer EXCEPT !.spki = Key("p256", 9), !.signedBy = 99, !.der = <<8>>]
LeafOfCross  == [Leaf EXCEPT !.signedBy = 9, !.spki.id = 10, !.der = <<2>>]
Broken       == [Leaf EXCEPT !.parses = FALSE, !.der = <<9>>]

Pool == {Leaf, Compressed, RsaLeaf, Issuer, BadIssuer, Issuer384, OldIssuer,
         WrongAlg, CrossSigned, LeafOfCross, Broken}
Chains == {<<>>} \cup {<<c>> : c \in Pool} \cup (Pool \X Pool)
            \cup (Pool \X Pool \X Pool)

-----------------------------------------------------------------------------
Host == <<A, b>>
Claimed(chain, host) ==
  [chain |-> chain, verified |-> TRUE, host |-> host, notAfter |-> 50]

OneRecord == {<<Claimed(c, h)>> : c \in Chains, h \in {Host, <<b>>}}
GoodLeaf(sans) == <<[LeafOfCross EXCEPT !.sans = sans]>>
NameInputs == {<<Claimed(GoodLeaf(<<San(<<DnsEntry(p)>>, 0, "whole")>>), h)>> :
                 p \in Patterns, h \in Hosts}
DamagedInputs == {<<Claimed(GoodLeaf(<<s>>), Host)>> : s \in DamagedSans}
NoSans == {<<Claimed(GoodLeaf(<<>>), Host)>>,
           <<Claimed(GoodLeaf(<<San(<<>>, 0, "whole"), PlainSan>>), Host)>>}

PairRecords == {[Claimed(c, Host) EXCEPT !.verified = v] :
                  v \in BOOLEAN,
                  c \in {<<>>, <<Leaf, Issuer, Issuer384>>, <<LeafOfCross>>,
                         <<LeafOfCross, CrossSigned>>, <<Compressed>>,
                         <<LeafOfCross, Compressed>>, <<Compressed, LeafOfCross>>,
                         <<Compressed, CrossSigned>>, <<Compressed, Issuer384, Issuer384>>}}

MCInputs == OneRecord \cup NameInputs \cup DamagedInputs \cup NoSans
              \cup (PairRecords \X PairRecords)
              \cup {<<>>} \cup {<<r, r, s>> : r, s \in PairRecords}

-----------------------------------------------------------------------------
(* For the run `issuers`. *)
IssuerInputs == {<<Claimed(c, Host)>> : c \in (Pool \ {BadIssuer}) \X Pool}
=============================================================================

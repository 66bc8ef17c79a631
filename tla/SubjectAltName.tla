--------------------------- MODULE SubjectAltName ---------------------------
(***************************************************************************)
(* The names a certificate is good for (src/tls/verify.rs): the DER reader *)
(* of a SubjectAltName extension, and the match of a name in it with the   *)
(* host that was asked for.                                                *)
(*                                                                         *)
(* A byte has Base values instead of 256 and a usize Word; the rest of the *)
(* encoding is DER's.  A name is given by its labels, which Join turns     *)
(* into the bytes the code works on.                                       *)
(***************************************************************************)
EXTENDS Integers, Sequences

CONSTANTS
  Half,            \* 0x80: a length byte from here on is in the long form
  Word,            \* the values of a usize
  SeqTag, DnsTag,  \* 0x30 and 0x82
  Dot, Star,
  Lower            \* the lower case of every byte

Base == 2 * Half
Byte == 0 .. Base - 1
MaxOctets == 4     \* the longest length field the reader takes

(* A usize holds every number of MaxOctets octets: it has 32 bits, as in   *)
(* the zkVM guest, or more.                                                *)
ASSUME SanAssumption ==
  /\ Half \in Nat /\ Half > MaxOctets + 1
  /\ Word \in Nat /\ Word >= Base * Base * Base * Base
  /\ {SeqTag, DnsTag, Dot, Star} \subseteq Byte
  /\ SeqTag # DnsTag /\ Star # Dot
  /\ Lower \in [Byte -> Byte]
  /\ \A x \in Byte : Lower[x] = Lower[Dot] => x = Dot

(* It also holds every such number with a tag and a length field added to  *)
(* it: it has 64 bits, as on the host.                                     *)
Wide == Word > Base * Base * Base * Base + MaxOctets + 1

-----------------------------------------------------------------------------
(* The reader. *)

(* The octets of a number, the most significant first. *)
BigEndian(octets) ==
  LET upTo[i \in 0 .. Len(octets)] ==
        IF i = 0 THEN 0 ELSE (upTo[i - 1] * Base + octets[i]) % Word
  IN  upTo[Len(octets)]

(* The length and the bytes it took; none if it took no byte. *)
NoLength == [value |-> 0, used |-> 0]

DerReadLength(data) ==
  IF data = <<>> THEN NoLength
  ELSE IF data[1] < Half THEN [value |-> data[1], used |-> 1]
  ELSE LET octets == data[1] - Half IN
       IF octets \in 1 .. MaxOctets /\ Len(data) > octets
       THEN [value |-> BigEndian(SubSeq(data, 2, octets + 1)),
             used |-> octets + 1]
       ELSE NoLength

(* A tag, length and value.  A slice whose end lies before its start, as   *)
(* it does when the sum wraps, or behind the data is a panic.              *)
Tlv(kind, tag, content, total) ==
  [kind |-> kind, tag |-> tag, content |-> content, total |-> total]
NoTlv == Tlv("none", 0, <<>>, 0)
Sliced(data, start, total) ==
  IF total < start \/ Len(data) < total THEN Tlv("panic", 0, <<>>, 0)
  ELSE Tlv("read", data[1], SubSeq(data, start + 1, total), total)

(* A bug: the length is trusted. *)
ReadsPastTheEnd(data) ==
  LET length == DerReadLength(Tail(data))
      start == 1 + length.used
      total == (start + length.value) % Word
  IN  IF data = <<>> \/ length.used = 0 THEN NoTlv
      ELSE Sliced(data, start, total)

DerReadTlv(data) ==
  LET length == DerReadLength(Tail(data))
      start == 1 + length.used
      total == (start + length.value) % Word
  IN  IF data = <<>> \/ length.used = 0 \/ Len(data) < total THEN NoTlv
      ELSE Sliced(data, start, total)

DerInner(data, tag) ==
  IF data = <<>> \/ data[1] # tag THEN NoTlv ELSE DerReadTlv(data)

EqIgnoreCase(s, t) ==
  /\ Len(s) = Len(t)
  /\ \A i \in 1 .. Len(s) : Lower[s[i]] = Lower[t[i]]

(* A bug: a wildcard stands for any number of labels. *)
AnyDepth(pattern, host) ==
  IF Len(pattern) >= 2 /\ pattern[1] = Star /\ pattern[2] = Dot
  THEN \E d \in 1 .. Len(host) :
          /\ host[d] = Dot
          /\ EqIgnoreCase(SubSeq(host, d + 1, Len(host)),
                          SubSeq(pattern, 3, Len(pattern)))
  ELSE EqIgnoreCase(pattern, host)

DnsNameMatches(pattern, host) ==
  IF Len(pattern) >= 2 /\ pattern[1] = Star /\ pattern[2] = Dot
  THEN \E d \in 1 .. Len(host) :
          /\ host[d] = Dot
          /\ \A i \in 1 .. d - 1 : host[i] # Dot
          /\ EqIgnoreCase(SubSeq(host, d + 1, Len(host)),
                          SubSeq(pattern, 3, Len(pattern)))
  ELSE EqIgnoreCase(pattern, host)

-----------------------------------------------------------------------------
(* What an issuer writes.  An extension has a list of names and a wrapper  *)
(* that may be damaged; of its contents only the first `kept` bytes are    *)
(* there.  An entry has a tag, its labels and a form of length field.      *)

Join(labels) ==
  LET upTo[i \in 0 .. Len(labels)] ==
        IF i = 0 THEN <<>>
        ELSE IF i = 1 THEN labels[1]
        ELSE upTo[i - 1] \o <<Dot>> \o labels[i]
  IN  upTo[Len(labels)]

LengthField(form, n) ==
  CASE form = "short"      -> <<n>>
    [] form = "long"       -> <<Half + 2, n \div Base, n % Base>>
    [] form = "indefinite" -> <<Half>>
    [] form = "huge"       -> <<Half + 4, Base - 1, Base - 1, Base - 1, Base - 1>>
    [] form = "five"       -> <<Half + 5, 0, 0, 0, n \div Base, n % Base>>

(* A length in one of these forms is that of the content. *)
Readable == {"short", "long"}

EntryBytes(entry) ==
  LET content == Join(entry.labels) IN
  <<entry.tag>> \o LengthField(entry.form, Len(content)) \o content

EntriesBytes(entries) ==
  LET upTo[i \in 0 .. Len(entries)] ==
        IF i = 0 THEN <<>> ELSE upTo[i - 1] \o EntryBytes(entries[i])
  IN  upTo[Len(entries)]

SanBytes(san) ==
  LET kept == SubSeq(EntriesBytes(san.entries), 1, san.kept) IN
  CASE san.wrapper = "whole"     -> <<SeqTag>> \o LengthField("long", Len(kept)) \o kept
    [] san.wrapper = "other_tag" -> <<DnsTag>> \o LengthField("long", Len(kept)) \o kept
    [] san.wrapper = "too_short" -> <<SeqTag>> \o LengthField("long", Len(kept) + 1) \o kept

Forms == {"short", "long", "indefinite", "huge", "five"}
Label == {bytes \in Seq(Byte) : \A i \in DOMAIN bytes : bytes[i] # Dot}
NameEntry == [tag : Byte, form : Forms, labels : Seq(Label)]

(* The names are few enough for a long length of two octets, and a content *)
(* with a short length for that.                                           *)
Extension ==
  {san \in [entries : Seq(NameEntry),
            wrapper : {"whole", "other_tag", "too_short"}, kept : Nat] :
     /\ san.kept <= Len(EntriesBytes(san.entries))
     /\ Len(EntriesBytes(san.entries)) < Base * Base - 1
     /\ \A i \in DOMAIN san.entries :
          san.entries[i].form = "short" => Len(Join(san.entries[i].labels)) < Half}

-----------------------------------------------------------------------------
(* What the names mean, said of labels and entries: the reference the      *)
(* reader is checked against.                                              *)

(* Each label of the pattern is the host's, except that a first label `*`  *)
(* that is not the whole name stands for any one label.                    *)
Covers(pattern, host) ==
  /\ Len(pattern) = Len(host)
  /\ \A k \in 1 .. Len(host) :
       \/ EqIgnoreCase(pattern[k], host[k])
       \/ k = 1 /\ Len(pattern) > 1 /\ pattern[1] = <<Star>>

(* An entry counts if it and all before it are readable and are there. *)
Counts(san, k) ==
  /\ \A j \in 1 .. k : san.entries[j].form \in Readable
  /\ Len(EntriesBytes(SubSeq(san.entries, 1, k))) <= san.kept

GoodFor(san, host) ==
  /\ san.wrapper = "whole"
  /\ \E k \in 1 .. Len(san.entries) :
       /\ Counts(san, k)
       /\ san.entries[k].tag = DnsTag
       /\ Covers(san.entries[k].labels, host)
=============================================================================

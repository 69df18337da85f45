--------------------------- MODULE HttpConnProofs ---------------------------
(***************************************************************************)
(* HttpInv is inductive: one lemma per action or group of actions that do  *)
(* the same to the ring.  From it, the order of requests, the count of     *)
(* bodies and the settlement of claims.                                    *)
(***************************************************************************)
EXTENDS HttpConnInv, TLAPS, FiniteSetTheorems, SequenceTheorems

-----------------------------------------------------------------------------
(* What the HTTP/1.1 driver's operators return: the charges of a ring, the *)
(* marks of the peer's stream, the pieces of a request.                    *)

(* What an entry is charged with, in the ring or in its handler's record.  *)
Weight(e) == e.bytes + e.charge
OctetsOf(s, k) == {k} \X (1..Weight(s[k]))

(* A sequence of entries: its places and what they hold.                   *)
LEMMA EntriesFacts ==
  ASSUME NEW s \in Seq(Entries)
  PROVE  /\ Len(s) \in Nat /\ DOMAIN s = 1..Len(s)
         /\ \A i \in 1..Len(s) : s[i] \in Entries /\ Weight(s[i]) \in Nat
         /\ (s = <<>>) <=> (Len(s) = 0)
<1>1. Len(s) \in Nat /\ DOMAIN s = 1..Len(s) OBVIOUS
<1>2. \A i \in 1..Len(s) : s[i] \in Entries OBVIOUS
<1>3. \A e \in Entries : Weight(e) \in Nat BY DEF Weight, Entries
<1> QED BY <1>1, <1>2, <1>3

(* An octet is a place of the ring and a number within its charges.        *)
LEMMA OctetsElements ==
  ASSUME NEW s \in Seq(Entries)
  PROVE  Octets(s) = UNION {OctetsOf(s, k) : k \in 1..Len(s)}
BY EntriesFacts DEF Octets, OctetsOf, Weight

(* Membership in the octets, one by one.                                   *)
LEMMA OctetIn ==
  ASSUME NEW s \in Seq(Entries), NEW q
  PROVE  q \in Octets(s) <=> \E k \in 1..Len(s), w \in Nat \ {0} : q = <<k, w>> /\ w <= Weight(s[k])
<1>1. q \in Octets(s) <=> \E k \in 1..Len(s) : q \in OctetsOf(s, k) BY OctetsElements
<1>2. \A k \in 1..Len(s) : q \in OctetsOf(s, k) <=> \E w \in 1..Weight(s[k]) : q = <<k, w>>
  BY DEF OctetsOf
<1>3. \A k \in 1..Len(s) : Weight(s[k]) \in Nat BY EntriesFacts
<1>4. \A k \in 1..Len(s) : \A w : w \in 1..Weight(s[k]) <=> (w \in Nat \ {0} /\ w <= Weight(s[k]))
  BY <1>3
<1> QED BY <1>1, <1>2, <1>4

(* One place's octets are as many as its charges.                          *)
LEMMA OctetsOfOne ==
  ASSUME NEW s \in Seq(Entries), NEW k \in 1..Len(s)
  PROVE  IsFiniteSet(OctetsOf(s, k)) /\ Cardinality(OctetsOf(s, k)) = Weight(s[k])
<1>1. Weight(s[k]) \in Nat BY EntriesFacts
<1>2. IsFiniteSet({k}) /\ Cardinality({k}) = 1 BY FS_Singleton
<1>3. IsFiniteSet(1..Weight(s[k])) /\ Cardinality(1..Weight(s[k])) = Weight(s[k])
  BY <1>1, FS_Interval
<1>4. PICK A : A = {k} OBVIOUS
<1>5. PICK B : B = 1..Weight(s[k]) OBVIOUS
<1>6. IsFiniteSet(A \X B) /\ Cardinality(A \X B) = Cardinality(A) * Cardinality(B)
  BY <1>2, <1>3, <1>4, <1>5, FS_Product
<1>7. Cardinality(A) * Cardinality(B) = Weight(s[k]) BY <1>1, <1>2, <1>3, <1>4, <1>5
<1> QED BY <1>4, <1>5, <1>6, <1>7 DEF OctetsOf

(* A ring is charged with finitely many octets.                            *)
LEMMA OctetsFinite ==
  ASSUME NEW s \in Seq(Entries)
  PROVE  IsFiniteSet(Octets(s)) /\ Charges(s) \in Nat
<1> DEFINE S == 1..Len(s)
           T == {OctetsOf(s, k) : k \in S}
           f == [k \in S |-> OctetsOf(s, k)]
<1>1. IsFiniteSet(S) BY EntriesFacts, FS_Interval
<1>2. f \in Surjection(S, T) BY DEF Surjection
<1>3. IsFiniteSet(T)
  <2> HIDE DEF f, S, T
  <2> QED BY <1>1, <1>2, FS_Surjection
<1>4. \A t \in T : IsFiniteSet(t) BY OctetsOfOne
<1>5. IsFiniteSet(UNION T)
  <2> HIDE DEF T
  <2> QED BY <1>3, <1>4, FS_UNION
<1>6. IsFiniteSet(Octets(s)) BY <1>5, OctetsElements
<1> QED BY <1>6, FS_CardinalityType DEF Charges

(* Charges depend on the places and on what each is charged with.          *)
LEMMA ChargesSame ==
  ASSUME NEW s \in Seq(Entries), NEW t \in Seq(Entries), Len(s) = Len(t),
         \A i \in 1..Len(s) : Weight(s[i]) = Weight(t[i])
  PROVE  Charges(s) = Charges(t)
<1>1. \A q : q \in Octets(s) <=> q \in Octets(t) BY OctetIn
<1>2. Octets(s) = Octets(t) BY <1>1
<1> QED BY <1>2 DEF Charges

(* A ring without entries is charged with nothing.                         *)
LEMMA ChargesEmpty == Charges(<<>>) = 0
<1>1. Octets(<<>>) = {} BY DEF Octets
<1> QED BY <1>1, FS_EmptySet DEF Charges

(* Another weight at one place.                                            *)
LEMMA ChargesReplace ==
  ASSUME NEW s \in Seq(Entries), NEW t \in Seq(Entries), NEW i \in 1..Len(s), Len(t) = Len(s),
         \A k \in 1..Len(s) : k # i => Weight(t[k]) = Weight(s[k])
  PROVE  Charges(t) = Charges(s) - Weight(s[i]) + Weight(t[i])
<1> DEFINE A == OctetsOf(s, i)
           B == OctetsOf(t, i)
           C == Octets(s) \ A
<1>1. \A q : q \in A <=> \E w \in Nat \ {0} : q = <<i, w>> /\ w <= Weight(s[i])
  BY EntriesFacts DEF OctetsOf
<1>2. \A q : q \in B <=> \E w \in Nat \ {0} : q = <<i, w>> /\ w <= Weight(t[i])
  BY EntriesFacts DEF OctetsOf
<1>3. /\ IsFiniteSet(A) /\ Cardinality(A) = Weight(s[i])
      /\ IsFiniteSet(B) /\ Cardinality(B) = Weight(t[i])
      /\ IsFiniteSet(Octets(s)) /\ IsFiniteSet(Octets(t))
      /\ Weight(s[i]) \in Nat /\ Weight(t[i]) \in Nat
  BY OctetsOfOne, OctetsFinite, EntriesFacts
<1>4. \A q : q \in C <=> \E k \in 1..Len(s), w \in Nat \ {0} :
                            q = <<k, w>> /\ w <= Weight(s[k]) /\ k # i
  BY <1>1, OctetIn
<1>5. Octets(s) = C \cup A /\ C \cap A = {} BY <1>1, OctetIn
<1>6. Octets(t) = C \cup B
  <2>1. \A q : q \in Octets(t) <=> (q \in C \/ q \in B) BY <1>2, <1>4, OctetIn
  <2> QED BY <2>1
<1>7. C \cap B = {} BY <1>2, <1>4
<1>8. IsFiniteSet(C) BY <1>3, <1>5, FS_Subset
<1> HIDE DEF A, B, C
<1>9. Cardinality(C) \in Nat /\ Cardinality({}) = 0 BY <1>8, FS_CardinalityType, FS_EmptySet
<1>10. Cardinality(Octets(s)) = Cardinality(C) + Cardinality(A) - Cardinality(C \cap A)
  BY <1>3, <1>5, <1>8, FS_Union
<1>11. Cardinality(Octets(t)) = Cardinality(C) + Cardinality(B) - Cardinality(C \cap B)
  BY <1>3, <1>6, <1>8, FS_Union
<1>12. Cardinality(Octets(s)) = Cardinality(C) + Weight(s[i]) - 0 BY <1>3, <1>5, <1>9, <1>10
<1>13. Cardinality(Octets(t)) = Cardinality(C) + Weight(t[i]) - 0 BY <1>3, <1>7, <1>9, <1>11
<1> QED BY <1>3, <1>9, <1>12, <1>13 DEF Charges

(* A ring cut in two: its first n entries and the ones behind them.        *)
LEMMA ChargesSplit ==
  ASSUME NEW s \in Seq(Entries), NEW u \in Seq(Entries), NEW v \in Seq(Entries),
         Len(s) = Len(u) + Len(v),
         \A i \in 1..Len(u) : Weight(u[i]) = Weight(s[i]),
         \A i \in 1..Len(v) : Weight(v[i]) = Weight(s[Len(u) + i])
  PROVE  Charges(s) = Charges(u) + Charges(v)
<1> DEFINE n == Len(u)
           C == Octets(s) \ Octets(u)
           f == [q \in Octets(v) |-> <<q[1] + n, q[2]>>]
<1>0. n \in Nat /\ Len(v) \in Nat /\ Len(s) = n + Len(v) BY EntriesFacts
<1>1. \A q : q \in Octets(u) <=> \E k \in 1..n, w \in Nat \ {0} : q = <<k, w>> /\ w <= Weight(s[k])
  BY OctetIn
<1>2. \A q : q \in Octets(v) <=> \E k \in 1..Len(v), w \in Nat \ {0} :
                                    q = <<k, w>> /\ w <= Weight(s[n + k])
  BY OctetIn
<1>3. \A q : q \in Octets(s) <=> \E k \in 1..Len(s), w \in Nat \ {0} : q = <<k, w>> /\ w <= Weight(s[k])
  BY OctetIn
<1>4. Octets(u) \subseteq Octets(s)
  <2> SUFFICES ASSUME NEW q \in Octets(u) PROVE q \in Octets(s) OBVIOUS
  <2>1. PICK k \in 1..n, w \in Nat \ {0} : q = <<k, w>> /\ w <= Weight(s[k]) BY <1>1
  <2>2. k \in 1..Len(s) BY <1>0
  <2> QED BY <1>3, <2>1, <2>2
<1>5. \A q : q \in C <=> \E k \in (n + 1)..Len(s), w \in Nat \ {0} :
                            q = <<k, w>> /\ w <= Weight(s[k])
  <2> TAKE q
  <2>1. ASSUME q \in C
        PROVE  \E k \in (n + 1)..Len(s), w \in Nat \ {0} : q = <<k, w>> /\ w <= Weight(s[k])
    <3>1. PICK k \in 1..Len(s), w \in Nat \ {0} : q = <<k, w>> /\ w <= Weight(s[k])
      BY <1>3, <2>1
    <3>2. k \notin 1..n BY <1>1, <2>1, <3>1
    <3>3. k \in (n + 1)..Len(s) BY <1>0, <3>2
    <3> QED BY <3>1, <3>3
  <2>2. ASSUME NEW k \in (n + 1)..Len(s), NEW w \in Nat \ {0}, q = <<k, w>>, w <= Weight(s[k])
        PROVE  q \in C
    <3>1. k \in 1..Len(s) /\ k \notin 1..n BY <1>0
    <3>2. q \in Octets(s) BY <1>3, <2>2, <3>1
    <3>3. q \notin Octets(u) BY <1>1, <2>2, <3>1
    <3> QED BY <3>2, <3>3
  <2> QED BY <2>1, <2>2
<1>6. f \in Bijection(Octets(v), C)
  <2>1. ASSUME NEW q \in Octets(v)
        PROVE  /\ q = <<q[1], q[2]>> /\ q[1] \in 1..Len(v) /\ q[2] \in Nat
               /\ f[q] \in C
    <3>1. PICK k \in 1..Len(v), w \in Nat \ {0} : q = <<k, w>> /\ w <= Weight(s[n + k])
      BY <1>2
    <3>2. k + n \in (n + 1)..Len(s) /\ k + n = n + k BY <1>0
    <3>3. <<k + n, w>> \in C BY <1>5, <3>1, <3>2
    <3> HIDE DEF C
    <3> QED BY <3>1, <3>3
  <2>2. f \in [Octets(v) -> C]
    <3> HIDE DEF C
    <3> QED BY <2>1
  <2>3. \A a, b \in Octets(v) : f[a] = f[b] => a = b
    <3> SUFFICES ASSUME NEW a \in Octets(v), NEW b \in Octets(v), f[a] = f[b] PROVE a = b
      OBVIOUS
    <3>1. a[1] + n = b[1] + n /\ a[2] = b[2] OBVIOUS
    <3>2. a[1] = b[1] BY <1>0, <2>1, <3>1
    <3> HIDE DEF f, n
    <3> QED BY <2>1, <3>1, <3>2
  <2>4. ASSUME NEW c \in C PROVE \E a \in Octets(v) : f[a] = c
    <3>1. PICK k \in (n + 1)..Len(s), w \in Nat \ {0} : c = <<k, w>> /\ w <= Weight(s[k])
      BY <1>5
    <3>2. k - n \in 1..Len(v) /\ n + (k - n) = k /\ (k - n) + n = k BY <1>0
    <3>3. <<k - n, w>> \in Octets(v) BY <1>2, <3>1, <3>2
    <3>4. f[<<k - n, w>>] = <<(k - n) + n, w>> BY <3>3
    <3> HIDE DEF f, n
    <3> QED BY <3>1, <3>2, <3>3, <3>4
  <2> HIDE DEF f, C
  <2> QED BY <2>2, <2>3, <2>4 DEF Bijection, Injection, Surjection, IsInjective
<1>7. /\ IsFiniteSet(Octets(u)) /\ IsFiniteSet(Octets(v)) /\ IsFiniteSet(Octets(s))
      /\ Charges(u) \in Nat /\ Charges(v) \in Nat
  BY OctetsFinite
<1>8. Octets(s) = C \cup Octets(u) /\ C \cap Octets(u) = {} BY <1>4
<1>9. IsFiniteSet(C) /\ Cardinality(C) = Cardinality(Octets(v))
  <2> HIDE DEF f, C
  <2> QED BY <1>6, <1>7, FS_Bijection DEF ExistsBijection
<1> HIDE DEF C
<1>10. Cardinality({}) = 0 BY FS_EmptySet
<1>11. Cardinality(Octets(s)) = Cardinality(C) + Cardinality(Octets(u)) - Cardinality(C \cap Octets(u))
  BY <1>7, <1>8, <1>9, FS_Union
<1>12. Cardinality(Octets(s)) = Cardinality(Octets(v)) + Cardinality(Octets(u)) - 0
  BY <1>8, <1>9, <1>10, <1>11
<1> QED BY <1>7, <1>12 DEF Charges

(* An entry without charges at the ring's end.                             *)
LEMMA ChargesAppend ==
  ASSUME NEW s \in Seq(Entries), NEW e \in Entries, Weight(e) = 0
  PROVE  Charges(Append(s, e)) = Charges(s)
<1>1. /\ Append(s, e) \in Seq(Entries) /\ Len(Append(s, e)) = Len(s) + 1 /\ Len(s) \in Nat
      /\ \A i \in 1..Len(s) : Append(s, e)[i] = s[i]
      /\ Append(s, e)[Len(s) + 1] = e
  BY AppendProperties
<1>2. PICK t \in Seq(Entries) : t = Append(s, e) BY <1>1
<1>3. /\ Len(t) = Len(s) + 1 /\ \A i \in 1..Len(s) : t[i] = s[i]
      /\ t[Len(s) + 1] = e
  BY <1>1, <1>2
<1>4. \A q : q \in Octets(s) => q \in Octets(t)
  <2> SUFFICES ASSUME NEW q \in Octets(s) PROVE q \in Octets(t) OBVIOUS
  <2>1. PICK k \in 1..Len(s), w \in Nat \ {0} : q = <<k, w>> /\ w <= Weight(s[k]) BY OctetIn
  <2>2. k \in 1..Len(t) /\ t[k] = s[k] BY <1>1, <1>3
  <2> QED BY <2>1, <2>2, OctetIn
<1>5. \A q : q \in Octets(t) => q \in Octets(s)
  <2> SUFFICES ASSUME NEW q \in Octets(t) PROVE q \in Octets(s) OBVIOUS
  <2>1. PICK k \in 1..Len(t), w \in Nat \ {0} : q = <<k, w>> /\ w <= Weight(t[k]) BY OctetIn
  <2>2. k # Len(s) + 1 BY <1>3, <2>1
  <2>3. k \in 1..Len(s) /\ t[k] = s[k] BY <1>1, <1>3, <2>2
  <2> QED BY <2>1, <2>3, OctetIn
<1>6. Octets(t) = Octets(s) BY <1>4, <1>5
<1> QED BY <1>2, <1>6 DEF Charges

-----------------------------------------------------------------------------
(* The script is a sequence of kinds; a request has two pieces of head and *)
(* the pieces of its body.                                                 *)
PieceKinds == {"head", "rest", "octet", "junk", "line", "data", "last"}

(* The pieces of each kind of body.                                        *)
LEMMA BodyLengths ==
  /\ \A b \in {"none", "reject"} : BodyPieces(b) = <<>>
  /\ BodyPieces("length") = <<"octet", "octet">>
  /\ BodyPieces("huge") = <<"octet">>
  /\ BodyPieces("malformed") = <<"junk">>
  /\ \A b \in {"chunked", "over"} : BodyPieces(b) = <<"line", "data", "last">>
BY DEF BodyPieces

(* What the types say of the script.                                       *)
LEMMA AskedFacts ==
  ASSUME asked \in Scripts
  PROVE  /\ asked \in Seq(Kinds) /\ Len(asked) \in Nat /\ Len(asked) <= MaxRequests
         /\ DOMAIN asked = 1..Len(asked)
         /\ \A r \in DOMAIN asked :
              /\ asked[r] \in Kinds /\ r \in Request
              /\ asked[r].safe \in BOOLEAN /\ asked[r].upgrade \in BOOLEAN
              /\ asked[r].keep \in BOOLEAN
              /\ asked[r].body \in {"none", "length", "huge", "chunked", "over", "malformed", "reject"}
<1>1. asked \in Seq(Kinds) /\ Len(asked) <= MaxRequests BY HttpAssumption
<1>2. Len(asked) \in Nat /\ DOMAIN asked = 1..Len(asked) /\ \A r \in DOMAIN asked : asked[r] \in Kinds
  BY <1>1
<1>3. MaxRequests \in Nat BY HttpAssumption
<1>4. \A r \in DOMAIN asked : r \in Request BY <1>1, <1>2, <1>3 DEF Request
<1>5. \A k \in Kinds :
        /\ k.safe \in BOOLEAN /\ k.upgrade \in BOOLEAN /\ k.keep \in BOOLEAN
        /\ k.body \in {"none", "length", "huge", "chunked", "over", "malformed", "reject"}
  BY HttpAssumption
<1> QED BY <1>1, <1>2, <1>4, <1>5

(* A request has a head, its rest and the pieces of its body.              *)
LEMMA PieceFacts ==
  ASSUME NEW r \in DOMAIN asked, asked \in Scripts
  PROVE  /\ Len(BodyPieces(asked[r].body)) \in Nat
         /\ Len(Pieces(r)) = 2 + Len(BodyPieces(asked[r].body))
         /\ DOMAIN Pieces(r) = 1..Len(Pieces(r))
         /\ \A k \in 1..Len(BodyPieces(asked[r].body)) : Pieces(r)[2 + k] = BodyPieces(asked[r].body)[k]
<1>1. PICK b : b = asked[r].body OBVIOUS
<1>2. b \in {"none", "length", "huge", "chunked", "over", "malformed", "reject"}
  BY <1>1, AskedFacts
<1>3. BodyPieces(b) \in Seq(PieceKinds)
  <2>1. /\ <<>> \in Seq(PieceKinds) /\ <<"octet">> \in Seq(PieceKinds) /\ <<"junk">> \in Seq(PieceKinds)
        /\ <<"octet", "octet">> \in Seq(PieceKinds) /\ <<"line", "data", "last">> \in Seq(PieceKinds)
    BY DEF PieceKinds
  <2>2. \/ BodyPieces(b) = <<>> \/ BodyPieces(b) = <<"octet">> \/ BodyPieces(b) = <<"junk">>
        \/ BodyPieces(b) = <<"octet", "octet">> \/ BodyPieces(b) = <<"line", "data", "last">>
    BY <1>2, BodyLengths
  <2> QED BY <2>1, <2>2
<1>4. PICK t \in Seq(PieceKinds) : t = BodyPieces(b) BY <1>3
<1>5. <<"head", "rest">> \in Seq(PieceKinds) /\ Len(<<"head", "rest">>) = 2 BY DEF PieceKinds
<1>6. PICK h \in Seq(PieceKinds) : h = <<"head", "rest">> BY <1>5
<1>7. /\ h \o t \in Seq(PieceKinds) /\ Len(h \o t) = Len(h) + Len(t) /\ Len(t) \in Nat
      /\ \A i \in 1..Len(h) + Len(t) : (h \o t)[i] = IF i <= Len(h) THEN h[i] ELSE t[i - Len(h)]
  BY ConcatProperties
<1>8. \A k \in 1..Len(t) : (h \o t)[2 + k] = t[k]
  <2> SUFFICES ASSUME NEW k \in 1..Len(t) PROVE (h \o t)[2 + k] = t[k] OBVIOUS
  <2>1. Len(h) = 2 /\ 2 + k \in 1..Len(h) + Len(t) /\ ~(2 + k <= 2) /\ (2 + k) - 2 = k
    BY <1>5, <1>6, <1>7
  <2> QED BY <1>7, <2>1
<1>9. Pieces(r) = h \o t BY <1>1, <1>4, <1>6 DEF Pieces
<1>10. DOMAIN (h \o t) = 1..Len(h \o t) BY <1>7
<1> QED BY <1>1, <1>4, <1>5, <1>6, <1>7, <1>8, <1>9, <1>10

(* The marks of the stream, piece by piece to its end.                     *)
LEMMA MarkFacts ==
  ASSUME NEW m, asked \in Scripts
  PROVE  m \in Marks <=> \/ \E r \in 1..Len(asked) : \E k \in 1..Len(Pieces(r)) : m = <<r, k>>
                         \/ m = <<Len(asked) + 1, 1>>
<1>1. DOMAIN asked = 1..Len(asked) BY AskedFacts
<1>2. \A r \in 1..Len(asked) : DOMAIN Pieces(r) = 1..Len(Pieces(r)) BY <1>1, PieceFacts
<1>3. \A r \in 1..Len(asked) : m \in {r} \X DOMAIN Pieces(r)
                                 <=> \E k \in 1..Len(Pieces(r)) : m = <<r, k>>
  BY <1>2
<1>4. m \in Marks <=> (\E r \in 1..Len(asked) : m \in {r} \X DOMAIN Pieces(r)) \/ m = <<Len(asked) + 1, 1>>
  <2>1. m \in Marks <=> m = StreamEnd \/ (\E r \in DOMAIN asked : m \in MarksOf(r)) BY DEF Marks
  <2> QED BY <1>1, <2>1 DEF MarksOf, StreamEnd
<1> QED BY <1>3, <1>4

(* The parts of a mark are numbers.                                        *)
LEMMA MarkParts ==
  ASSUME NEW m \in Marks, asked \in Scripts
  PROVE  /\ m = <<m[1], m[2]>> /\ m[1] \in 1..(Len(asked) + 1) /\ m[2] \in Nat \ {0}
         /\ m[1] \in 1..Len(asked) => m[2] \in 1..Len(Pieces(m[1]))
         /\ m[1] = Len(asked) + 1 => m[2] = 1
<1>0. Len(asked) \in Nat /\ DOMAIN asked = 1..Len(asked) BY AskedFacts
<1>1. CASE m = <<Len(asked) + 1, 1>> BY <1>0, <1>1
<1>2. ASSUME NEW r \in 1..Len(asked), NEW k \in 1..Len(Pieces(r)), m = <<r, k>>
      PROVE  /\ m = <<m[1], m[2]>> /\ m[1] \in 1..(Len(asked) + 1) /\ m[2] \in Nat \ {0}
             /\ m[1] \in 1..Len(asked) => m[2] \in 1..Len(Pieces(m[1]))
             /\ m[1] = Len(asked) + 1 => m[2] = 1
  <2>1. Len(Pieces(r)) \in Nat BY <1>0, PieceFacts
  <2> QED BY <1>0, <1>2, <2>1
<1> QED BY <1>1, <1>2, MarkFacts

(* The next mark is a mark, and no later than any later mark.              *)
LEMMA AfterMark ==
  ASSUME NEW m \in Marks, asked \in Scripts, m[1] <= Len(asked)
  PROVE  /\ After(m) \in Marks /\ Precedes(m, After(m)) /\ m[1] \in DOMAIN asked
         /\ \A n \in Marks : Precedes(m, n) => ~Precedes(n, After(m))
<1>1. /\ Len(asked) \in Nat /\ DOMAIN asked = 1..Len(asked)
      /\ m = <<m[1], m[2]>> /\ m[1] \in 1..Len(asked) /\ m[2] \in 1..Len(Pieces(m[1]))
  BY AskedFacts, MarkParts
<1>2. PICK r \in 1..Len(asked) : \E k \in 1..Len(Pieces(r)) : m = <<r, k>> BY <1>1
<1>7. PICK k \in 1..Len(Pieces(r)) : m = <<r, k>> BY <1>2
<1>3. m[1] = r /\ m[2] = k BY <1>7
<1>4. Len(Pieces(r)) \in Nat /\ Len(Pieces(r)) >= 2 BY <1>1, PieceFacts
<1>5. CASE k < Len(Pieces(r))
  <2>1. After(m) = <<r, k + 1>> /\ k + 1 \in 1..Len(Pieces(r)) BY <1>3, <1>4, <1>5 DEF After
  <2>2. After(m) \in Marks BY <2>1, MarkFacts
  <2>3. Precedes(m, After(m)) BY <1>3, <1>4, <2>1 DEF Precedes
  <2>4. ASSUME NEW n \in Marks, Precedes(m, n) PROVE ~Precedes(n, After(m))
    <3>1. n[1] \in Nat /\ n[2] \in Nat BY <1>1, MarkParts
    <3>2. r < n[1] \/ (r = n[1] /\ k < n[2]) BY <1>3, <2>4 DEF Precedes
    <3> QED BY <1>4, <2>1, <3>1, <3>2 DEF Precedes
  <2> QED BY <1>1, <2>2, <2>3, <2>4
<1>6. CASE k = Len(Pieces(r))
  <2>1. After(m) = <<r + 1, 1>> BY <1>3, <1>4, <1>6 DEF After
  <2>2. After(m) \in Marks
    <3>1. CASE r = Len(asked) BY <2>1, <3>1, MarkFacts
    <3>2. CASE r < Len(asked)
      <4>1. r + 1 \in 1..Len(asked) BY <1>1, <3>2
      <4>2. PICK q \in DOMAIN asked : q = r + 1 BY <1>1, <4>1
      <4>3. Len(Pieces(q)) \in Nat /\ Len(Pieces(q)) >= 2 BY PieceFacts
      <4>4. 1 \in 1..Len(Pieces(q)) BY <4>3
      <4> QED BY <1>1, <2>1, <4>2, <4>4, MarkFacts
    <3> QED BY <1>1, <3>1, <3>2
  <2>3. Precedes(m, After(m)) BY <1>1, <1>3, <2>1 DEF Precedes
  <2>4. ASSUME NEW n \in Marks, Precedes(m, n) PROVE ~Precedes(n, After(m))
    <3>1. /\ n[1] \in 1..(Len(asked) + 1) /\ n[2] \in Nat \ {0}
          /\ n[1] \in 1..Len(asked) => n[2] \in 1..Len(Pieces(n[1]))
      BY MarkParts
    <3>2. r < n[1] \/ (r = n[1] /\ k < n[2]) BY <1>3, <2>4 DEF Precedes
    <3>3. r < n[1] BY <1>4, <1>6, <3>1, <3>2
    <3> QED BY <1>1, <2>1, <3>1, <3>3 DEF Precedes
  <2> QED BY <1>1, <2>2, <2>3, <2>4
<1> QED BY <1>4, <1>5, <1>6

(* Marks are in one order.                                                 *)
LEMMA MarkOrder ==
  ASSUME NEW m \in Marks, NEW n \in Marks, asked \in Scripts
  PROVE  /\ ~Precedes(n, m) => m = n \/ Precedes(m, n)
         /\ m = n => ~Precedes(n, m)
         /\ Precedes(m, n) => m[1] <= Len(asked) /\ ~Precedes(n, m)
         /\ \A l \in Marks : ~Precedes(l, m) /\ Precedes(l, n) => Precedes(m, n)
         /\ \A l \in Marks : ~Precedes(n, m) /\ ~Precedes(l, n) => ~Precedes(l, m)
<1>1. /\ Len(asked) \in Nat
      /\ \A l \in Marks : /\ l = <<l[1], l[2]>> /\ l[1] \in 1..(Len(asked) + 1) /\ l[2] \in Nat \ {0}
                          /\ l[1] = Len(asked) + 1 => l[2] = 1
  BY AskedFacts, MarkParts
<1>2. ASSUME ~Precedes(n, m) PROVE m = n \/ Precedes(m, n)
  <2>1. (m[1] = n[1] /\ m[2] = n[2]) \/ Precedes(m, n) BY <1>1, <1>2 DEF Precedes
  <2> QED BY <1>1, <2>1
<1>3. m = n => ~Precedes(n, m) BY <1>1 DEF Precedes
<1>4. ASSUME Precedes(m, n) PROVE m[1] <= Len(asked) /\ ~Precedes(n, m)
  BY <1>1, <1>4 DEF Precedes
<1>5. ASSUME NEW l \in Marks, ~Precedes(l, m), Precedes(l, n) PROVE Precedes(m, n)
  BY <1>1, <1>5 DEF Precedes
<1>6. ASSUME NEW l \in Marks, ~Precedes(n, m), ~Precedes(l, n) PROVE ~Precedes(l, m)
  BY <1>1, <1>6 DEF Precedes
<1> QED BY <1>2, <1>3, <1>4, <1>5, <1>6

-----------------------------------------------------------------------------
(* What the types say of the ring and of the wire, place by place.         *)
LEMMA RingFacts ==
  ASSUME ring \in Seq(Entries)
  PROVE  /\ Len(ring) \in Nat /\ DOMAIN ring = 1..Len(ring)
         /\ (ring = <<>>) <=> (Len(ring) = 0)
         /\ \A i \in 1..Len(ring) :
              /\ ring[i] \in Entries /\ ring[i].r \in Nat \ {0} /\ ring[i].r \in Request
              /\ ring[i].stage \in Stages /\ ring[i].claim \in ClaimOf /\ ring[i].claiming \in ClaimOf
              /\ ring[i].left \in Nat /\ ring[i].bytes \in Nat /\ ring[i].charge \in Nat
              /\ {ring[i].safe, ring[i].upgrade, ring[i].cont, ring[i].close} \subseteq BOOLEAN
              /\ {ring[i].says, ring[i].stray} \subseteq BOOLEAN
<1>1. Len(ring) \in Nat /\ DOMAIN ring = 1..Len(ring) /\ ((ring = <<>>) <=> (Len(ring) = 0))
      /\ \A i \in 1..Len(ring) : ring[i] \in Entries
  BY EntriesFacts
<1>2. Request \subseteq Nat \ {0} BY HttpAssumption DEF Request
<1>3. \A e \in Entries :
        /\ e.r \in Request /\ e.stage \in Stages /\ e.claim \in ClaimOf /\ e.claiming \in ClaimOf
        /\ e.left \in Nat /\ e.bytes \in Nat /\ e.charge \in Nat
        /\ {e.safe, e.upgrade, e.cont, e.close, e.says, e.stray} \subseteq BOOLEAN
  BY DEF Entries
<1> QED BY <1>1, <1>2, <1>3

(* The same of the wire.                                                   *)
LEMMA WireFacts ==
  ASSUME wire \in Seq(Responses)
  PROVE  /\ Len(wire) \in Nat /\ DOMAIN wire = 1..Len(wire)
         /\ \A k \in 1..Len(wire) :
              /\ wire[k] \in Responses /\ wire[k].r \in Nat \ {0} /\ wire[k].r \in Request
              /\ wire[k].claim \in ClaimOf /\ wire[k].says \in BOOLEAN /\ wire[k].stray \in BOOLEAN
<1>1. Len(wire) \in Nat /\ DOMAIN wire = 1..Len(wire) /\ \A k \in 1..Len(wire) : wire[k] \in Responses
  OBVIOUS
<1>2. Request \subseteq Nat \ {0} BY HttpAssumption DEF Request
<1>3. \A w \in Responses : /\ w.r \in Request /\ w.claim \in ClaimOf
                          /\ w.says \in BOOLEAN /\ w.stray \in BOOLEAN
  BY DEF Responses
<1> QED BY <1>1, <1>2, <1>3

(* How an entry may change while it is in the ring: a response, once it is *)
(* there, stays, but for the close that mark_close adds to it.             *)
EntryEvolves(e, f) ==
  /\ f.r = e.r /\ f.safe = e.safe /\ f.upgrade = e.upgrade
  /\ e.stage = "done" => f.stage = "done" /\ f.claim = e.claim /\ f.close = e.close
  /\ e.says /\ e.claim = "none" => f.says /\ f.claim = "none"
  /\ e.stage = "done" /\ ~e.stray => ~f.stray
  /\ f.stage # "done" => f.claim = "none" /\ ~f.says /\ ~f.close
  /\ f.close => Ends(f) \/ f.upgrade
  /\ f.stage = "body" => e.stage = "body"
  /\ f.cont => e.cont /\ f.stage = "body"
  /\ (f.claim = "upgrade" \/ f.claiming = "upgrade") => e.upgrade

(* How the ring may change without a new entry or a written one: its       *)
(* entries evolve, and those behind a response that ends the connection,   *)
(* or the one an end of the input cut short, are dropped.                  *)
RingEvolves ==
  /\ Len(ring') <= Len(ring)
  /\ \A i \in 1..Len(ring') :
       /\ EntryEvolves(ring[i], ring'[i])
       /\ Ends(ring'[i]) => Ends(ring[i]) \/ (i = Len(ring') /\ (close' \/ taking'))
  /\ Len(ring') < Len(ring) => \/ close' /\ ~head_since'
                               \/ Len(ring') > 0 /\ Ends(ring'[Len(ring')])
                               \/ pc' = "closed"
  /\ (close => close') /\ (taking => taking') /\ (head_since' => head_since \/ Open')
  /\ pc = "closed" => pc' = "closed"
  /\ asked' = asked /\ wire' = wire /\ requests' = requests

(* Entries of the ring that do not change, do evolve.                      *)
LEMMA EvolvesSame ==
  ASSUME HttpTyped, StageInv, OwedInv, TakingInv
  PROVE  \A i \in 1..Len(ring) : EntryEvolves(ring[i], ring[i])
<1>1. ring \in Seq(Entries) BY DEF HttpTyped
<1> QED BY <1>1, RingFacts DEF EntryEvolves, StageInv, OwedInv, TakingInv

(* What ends the connection still does when the entry evolves.             *)
LEMMA EndsEvolve ==
  ASSUME ring \in Seq(Entries), StageInv, NEW f, NEW i \in 1..Len(ring),
         EntryEvolves(ring[i], f), Ends(ring[i])
  PROVE  Ends(f) /\ ring[i].stage = "done"
<1>1. /\ ring[i].stage # "done" => ring[i].claim = "none" /\ ~ring[i].says
      /\ i \in DOMAIN ring
  BY RingFacts DEF StageInv
<1>2. ring[i].stage = "done" BY <1>1 DEF Ends
<1> QED BY <1>2 DEF Ends, EntryEvolves

(* The numbers of requests, what ends the connection and the order on the  *)
(* wire do not depend on how entries evolve.                               *)
LEMMA EvolveOrder ==
  ASSUME HttpTyped, StageInv, OrderInv, RingEvolves, ring' \in Seq(Entries)
  PROVE  OrderInv'
<1>1. /\ Len(ring) \in Nat /\ DOMAIN ring = 1..Len(ring)
      /\ (ring = <<>>) <=> (Len(ring) = 0)
      /\ \A i \in 1..Len(ring) : ring[i].r \in Nat
  BY RingFacts DEF HttpTyped
<1>2. /\ Len(ring') \in Nat /\ DOMAIN ring' = 1..Len(ring')
      /\ (ring' = <<>>) <=> (Len(ring') = 0)
  BY EntriesFacts
<1>3. /\ wire' = wire /\ Len(wire) \in Nat /\ DOMAIN wire = 1..Len(wire)
      /\ requests' = requests /\ requests \in Nat
  BY WireFacts DEF HttpTyped, RingEvolves
<1>0. Len(ring') <= Len(ring) BY DEF RingEvolves
<1>11. \A i \in 1..Len(ring') : i \in 1..Len(ring) BY <1>0, <1>1, <1>2
<1>4. /\ (close => close') /\ (taking => taking') /\ (head_since' => head_since \/ Open')
      /\ pc = "closed" => pc' = "closed"
      /\ Len(ring') < Len(ring) => \/ close' /\ ~head_since'
                                   \/ Len(ring') > 0 /\ Ends(ring'[Len(ring')])
                                   \/ pc' = "closed"
  BY DEF RingEvolves
<1>5. \A i \in 1..Len(ring') : /\ i \in 1..Len(ring) /\ ring'[i].r = ring[i].r
                               /\ EntryEvolves(ring[i], ring'[i])
                               /\ Ends(ring'[i]) => Ends(ring[i]) \/ (i = Len(ring') /\ (close' \/ taking'))
  BY <1>11 DEF RingEvolves, EntryEvolves
<1>6. \A i \in 1..Len(ring') : Ends(ring[i]) => Ends(ring'[i])
  <2> SUFFICES ASSUME NEW i \in 1..Len(ring'), Ends(ring[i]) PROVE Ends(ring'[i]) OBVIOUS
  <2>1. PICK f : f = ring'[i] OBVIOUS
  <2>2. Ends(f) BY <1>5, <2>1, EndsEvolve DEF HttpTyped
  <2> QED BY <2>1, <2>2
<1>7. NumberInv'
  <2>1. \A i, j \in 1..Len(ring') : i < j => ring'[i].r < ring'[j].r
    BY <1>1, <1>5 DEF OrderInv, NumberInv
  <2>2. \A k \in DOMAIN wire, i \in 1..Len(ring') : wire[k].r < ring'[i].r
    BY <1>1, <1>5 DEF OrderInv, NumberInv
  <2>3. \A i \in 1..Len(ring') : ring'[i].r <= requests \/ (close' /\ ~head_since')
    BY <1>1, <1>4, <1>5 DEF OrderInv, NumberInv, Open
  <2>4. \A k \in DOMAIN wire : wire[k].r <= requests \/ (close' /\ ~head_since')
    BY <1>4 DEF OrderInv, NumberInv, Open
  <2> QED BY <1>2, <1>3, <2>1, <2>2, <2>3, <2>4 DEF NumberInv
<1>8. EndInv'
  <2>1. ASSUME NEW i \in DOMAIN ring', Ends(ring'[i])
        PROVE  /\ close' \/ taking'
               /\ i < Len(ring') => /\ i = Len(ring') - 1 /\ ~head_since'
                                    /\ ring'[i + 1].stage = "done" /\ ring'[i + 1].says
                                    /\ ring'[i + 1].claim = "none"
    <3>1. i \in 1..Len(ring') /\ i \in 1..Len(ring) BY <1>2, <1>5
    <3>2. Ends(ring[i]) => close \/ taking BY <1>1, <3>1 DEF OrderInv, EndInv
    <3>3. close' \/ taking' BY <1>4, <1>5, <2>1, <3>1, <3>2
    <3>4. ASSUME i < Len(ring')
          PROVE  /\ i = Len(ring') - 1 /\ ~head_since'
                 /\ ring'[i + 1].stage = "done" /\ ring'[i + 1].says
                 /\ ring'[i + 1].claim = "none"
      <4>0. i # Len(ring') /\ i < Len(ring) BY <1>0, <1>1, <1>2, <3>1, <3>4
      <4>1. Ends(ring[i]) /\ i < Len(ring) BY <1>5, <2>1, <3>1, <4>0
      <4>2. /\ i = Len(ring) - 1 /\ ~head_since
            /\ ring[i + 1].stage = "done" /\ ring[i + 1].says /\ ring[i + 1].claim = "none"
        BY <1>1, <3>1, <4>1 DEF OrderInv, EndInv
      <4>4. i = Len(ring) - 1 BY <4>2
      <4>5. Len(ring) \in Nat /\ Len(ring') \in Nat /\ i \in Nat \ {0} BY <1>1, <1>2, <3>1
      <4>6. i = Len(ring') - 1 BY <1>0, <3>4, <4>4, <4>5
      <4>3. i + 1 \in 1..Len(ring') /\ i = Len(ring') - 1 BY <4>5, <4>6
      <4>7. ~head_since' BY <1>4, <3>3, <4>2 DEF Open
      <4> QED BY <1>5, <4>2, <4>3, <4>7 DEF EntryEvolves
    <3> QED BY <3>3, <3>4
  <2>2. ASSUME NEW k \in DOMAIN wire', Ends(wire'[k])
        PROVE  /\ close' \/ taking'
               /\ k >= Len(wire') - 1
               /\ k = Len(wire') =>
                    /\ Len(ring') <= 1
                    /\ ring' # <<>> => /\ ~head_since' /\ ring'[1].says
                                       /\ ring'[1].claim = "none" /\ ring'[1].stage = "done"
               /\ k # Len(wire') => ring' = <<>> /\ ~head_since'
    <3>1. k \in DOMAIN wire /\ Ends(wire[k]) BY <1>3, <2>2
    <3>2. /\ close \/ taking
          /\ k >= Len(wire) - 1
          /\ k = Len(wire) =>
               /\ Len(ring) <= 1
               /\ ring # <<>> => /\ ~head_since /\ ring[1].says
                                 /\ ring[1].claim = "none" /\ ring[1].stage = "done"
          /\ k # Len(wire) => ring = <<>> /\ ~head_since
      BY <3>1 DEF OrderInv, EndInv
    <3>3. ASSUME k = Len(wire), ring' # <<>>
          PROVE  ~head_since' /\ ring'[1].says /\ ring'[1].claim = "none" /\ ring'[1].stage = "done"
      <4>1. 1 \in 1..Len(ring') /\ ring # <<>> BY <1>0, <1>1, <1>2, <3>3
      <4>2. ~head_since' BY <1>4, <3>2, <3>3, <4>1 DEF Open
      <4> QED BY <1>5, <3>2, <3>3, <4>1, <4>2 DEF EntryEvolves
    <3>4. k = Len(wire) => Len(ring') <= 1 BY <1>0, <1>1, <1>2, <3>2
    <3>5. ring = <<>> => ring' = <<>> BY <1>0, <1>1, <1>2
    <3>6. ~head_since => ~head_since' BY <1>4, <3>2 DEF Open
    <3> QED BY <1>3, <1>4, <3>2, <3>3, <3>4, <3>5, <3>6
  <2> QED BY <2>1, <2>2 DEF EndInv
<1>9. CountInv'
  <2>1. WireOpen' <=> WireOpen BY <1>3 DEF WireOpen, Ends
  <2>2. ASSUME WireOpen, NEW i \in DOMAIN ring', \A j \in 1..(i - 1) : ~Ends(ring'[j])
        PROVE  ring'[i].r = Len(wire') + i
    <3>1. i \in 1..Len(ring') /\ i \in DOMAIN ring BY <1>1, <1>2, <1>5
    <3>2. \A j \in 1..(i - 1) : j \in 1..Len(ring') BY <1>2, <3>1
    <3>3. \A j \in 1..(i - 1) : ~Ends(ring[j]) BY <1>6, <2>2, <3>2
    <3>4. ring[i].r = Len(wire) + i BY <2>2, <3>1, <3>3 DEF OrderInv, CountInv
    <3> QED BY <1>3, <1>5, <3>1, <3>4
  <2>3. ASSUME WireOpen, RingOpen', Open' \/ (head_since' /\ pc' # "closed")
        PROVE  requests' = Len(wire') + Len(ring')
    <3>1. Len(ring') = Len(ring)
      <4>1. ~(Len(ring') > 0 /\ Ends(ring'[Len(ring')])) BY <1>2, <2>3 DEF RingOpen
      <4>2. ~(Len(ring') < Len(ring)) BY <1>4, <2>3, <4>1 DEF Open
      <4>3. Len(ring) \in Nat /\ Len(ring') \in Nat BY <1>1, <1>2
      <4> QED BY <1>0, <4>2, <4>3
    <3>2. RingOpen BY <1>1, <1>2, <1>6, <2>3, <3>1 DEF RingOpen
    <3>3. Open \/ (head_since /\ pc # "closed") BY <1>4, <2>3 DEF Open
    <3> QED BY <1>3, <2>3, <3>1, <3>2, <3>3 DEF OrderInv, CountInv
  <2> QED BY <2>1, <2>2, <2>3 DEF CountInv
<1>10. OneEach' BY <1>3 DEF OrderInv, OneEach, Ends
<1> QED BY <1>7, <1>8, <1>9, <1>10 DEF OrderInv

(* The stages of entries, when no handler starts but behind safe requests. *)
LEMMA EvolveStages ==
  ASSUME HttpTyped, StageInv, RingEvolves, ring' \in Seq(Entries),
         \A i \in 1..Len(ring') : (ring'[i].stage = "running" /\ i > 1) =>
            ring[i].stage = "running" \/ (\A j \in 1..i : ring[j].safe)
  PROVE  StageInv'
<1>1. /\ Len(ring) \in Nat /\ DOMAIN ring = 1..Len(ring)
  BY RingFacts DEF HttpTyped
<1>2. Len(ring') \in Nat /\ DOMAIN ring' = 1..Len(ring') BY EntriesFacts
<1>0. Len(ring') <= Len(ring) BY DEF RingEvolves
<1>7. \A i \in 1..Len(ring') : i \in 1..Len(ring) BY <1>0, <1>1, <1>2
<1>3. /\ Len(ring') <= Len(ring)
      /\ \A i \in 1..Len(ring') : i \in 1..Len(ring) /\ EntryEvolves(ring[i], ring'[i])
  BY <1>0, <1>7 DEF RingEvolves
<1>4. MaxPipelined \in Nat BY HttpAssumption
<1>5. Len(ring') <= MaxPipelined BY <1>1, <1>2, <1>3, <1>4 DEF StageInv
<1>6. ASSUME NEW i \in DOMAIN ring'
      PROVE  /\ ring'[i].stage = "body" => i = Len(ring')
             /\ ring'[i].stage # "done" => ring'[i].claim = "none" /\ ~ring'[i].says /\ ~ring'[i].close
             /\ ring'[i].close => Ends(ring'[i]) \/ ring'[i].upgrade
             /\ ring'[i].stage = "running" /\ i > 1 => \A j \in 1..i : ring'[j].safe
  <2>1. i \in 1..Len(ring') /\ i \in DOMAIN ring BY <1>1, <1>2, <1>3
  <2>2. ring'[i].stage = "body" => i = Len(ring')
    <3>1. ring'[i].stage = "body" => ring[i].stage = "body" BY <1>3, <2>1 DEF EntryEvolves
    <3>2. ring[i].stage = "body" => i = Len(ring) BY <2>1 DEF StageInv
    <3> QED BY <1>1, <1>2, <1>3, <2>1, <3>1, <3>2
  <2>3. /\ ring'[i].stage # "done" => ring'[i].claim = "none" /\ ~ring'[i].says /\ ~ring'[i].close
        /\ ring'[i].close => Ends(ring'[i]) \/ ring'[i].upgrade
    BY <1>3, <2>1 DEF EntryEvolves
  <2>4. ASSUME ring'[i].stage = "running", i > 1, NEW j \in 1..i PROVE ring'[j].safe
    <3>1. ring[j].safe BY <2>1, <2>4 DEF StageInv
    <3>2. j \in 1..Len(ring') BY <1>2, <2>1
    <3> QED BY <1>3, <3>1, <3>2 DEF EntryEvolves
  <2> QED BY <2>2, <2>3, <2>4
<1> QED BY <1>5, <1>6 DEF StageInv

(* The 100s, when none is written.                                         *)
LEMMA EvolveContinue ==
  ASSUME HttpTyped, ContinueInv, RingEvolves, ring' \in Seq(Entries), interim' = interim
  PROVE  /\ OwedInv' /\ InterimInv' /\ ContinueFirst'
         /\ writing' = writing => PrefixInv'
<1>1. Len(ring) \in Nat /\ DOMAIN ring = 1..Len(ring) BY RingFacts DEF HttpTyped
<1>2. Len(ring') \in Nat /\ DOMAIN ring' = 1..Len(ring') BY EntriesFacts
<1>8. Len(ring') <= Len(ring) BY DEF RingEvolves
<1>9. \A i \in DOMAIN ring' : i \in DOMAIN ring BY <1>1, <1>2, <1>8
<1>3. /\ asked' = asked /\ wire' = wire /\ requests' = requests
      /\ \A i \in DOMAIN ring' : i \in DOMAIN ring /\ EntryEvolves(ring[i], ring'[i])
  BY <1>2, <1>9 DEF RingEvolves
<1>4. OwedInv' BY <1>3 DEF ContinueInv, OwedInv, EntryEvolves
<1>5. InterimInv' BY <1>3 DEF ContinueInv, InterimInv
<1>6. ContinueFirst' BY <1>3 DEF ContinueInv, ContinueFirst
<1>7. writing' = writing => PrefixInv' BY <1>3 DEF ContinueInv, PrefixInv, EntryEvolves
<1> QED BY <1>4, <1>5, <1>6, <1>7

(* The request that claimed the connection, when none is written.          *)
LEMMA EvolveSettle ==
  ASSUME HttpTyped, StageInv, SettleInv, RingEvolves, ring' \in Seq(Entries),
         pc # "closed", pc' # "closed", pc' = "wait" => pc = "wait" \/ taken = 0, taken' = taken,
         \A i \in 1..Len(ring') : ring'[i].claim # "none" => ring[i].claim # "none" \/ taking',
         ring = <<>> /\ taken # 0 => parsed' = parsed
  PROVE  SettleInv'
<1>0. Len(ring') <= Len(ring) BY DEF RingEvolves
<1>1. /\ Len(ring) \in Nat /\ DOMAIN ring = 1..Len(ring) /\ ((ring = <<>>) <=> (Len(ring) = 0))
  BY RingFacts DEF HttpTyped
<1>2. /\ Len(ring') \in Nat /\ DOMAIN ring' = 1..Len(ring') /\ ((ring' = <<>>) <=> (Len(ring') = 0))
  BY EntriesFacts
<1>3. \A i \in 1..Len(ring') : i \in 1..Len(ring) BY <1>0, <1>1, <1>2
<1>4. /\ \A i \in 1..Len(ring') : EntryEvolves(ring[i], ring'[i])
      /\ wire' = wire /\ (taking => taking') /\ (head_since' => head_since \/ Open')
  BY DEF RingEvolves
<1>5. DOMAIN wire = 1..Len(wire) /\ \A k \in DOMAIN wire : wire[k].r # 0
  BY WireFacts DEF HttpTyped
<1>7. TakingInv'
  <2> SUFFICES ASSUME NEW i \in 1..Len(ring')
               PROVE  /\ ring'[i].claim # "none" => taking'
                      /\ (ring'[i].claim = "upgrade" \/ ring'[i].claiming = "upgrade")
                           => ring'[i].upgrade
    BY <1>2 DEF TakingInv
  <2>1. ring[i].claim # "none" => taking BY <1>1, <1>3 DEF SettleInv, TakingInv
  <2> QED BY <1>4, <2>1 DEF EntryEvolves
<1>8. TakenInv'
  <2>1. taken' # 0 => /\ taking' /\ pc' # "wait"
                      /\ \E k \in DOMAIN wire' : wire'[k].r = taken' /\ wire'[k].claim # "none"
    BY <1>4 DEF SettleInv, TakenInv
  <2>2. ASSUME NEW k \in DOMAIN wire', wire'[k].r = taken', wire'[k].claim = "upgrade"
        PROVE  ring' = <<>> /\ ~head_since' /\ parsed' = <<taken' + 1, 1>>
    <3>1. k \in DOMAIN wire /\ wire[k].r = taken /\ wire[k].claim = "upgrade" BY <1>4, <2>2
    <3>2. taken # 0 BY <1>5, <3>1
    <3>3. ring = <<>> /\ ~head_since /\ parsed = <<taken + 1, 1>>
      BY <3>1 DEF SettleInv, TakenInv
    <3>4. ring' = <<>> BY <1>0, <1>1, <1>2, <3>3
    <3>5. ~head_since' BY <1>4, <2>1, <3>2, <3>3 DEF Open
    <3> QED BY <3>2, <3>3, <3>4, <3>5
  <2> QED BY <2>1, <2>2 DEF TakenInv
<1> QED BY <1>7, <1>8 DEF SettleInv

(* Steps that leave the ring, the wire and the claims alone: they may read *)
(* input, discard it when the connection closes, and pass on in the turn.  *)
LEMMA SameRing ==
  ASSUME HttpInv, pc # "closed", pc' # "closed", pc' = "wait" => pc = "wait" \/ taken = 0,
         UNCHANGED <<asked, wire, interim, requests, ring, bodies, claims, taking, taken>>,
         close => close', head_since' => head_since, pc' = "wait" /\ want' => ~UpgradePending,
         parsed' = parsed \/ (close' /\ ~taking /\ ~UpgradePending /\ ~BodyPending)
  PROVE  /\ BodyInv' /\ HeadInv' /\ StageInv' /\ UpgradeInv' /\ OrderInv' /\ SettleInv'
         /\ OwedInv' /\ InterimInv' /\ ContinueFirst' /\ bodies' = Charges(ring')
         /\ writing' = writing => WritingInv' /\ PrefixInv'
<1> USE DEF HttpInv, StreamInv, RingInv
<1>1. /\ HttpTyped /\ ring \in Seq(Entries) /\ ring' \in Seq(Entries) BY DEF HttpTyped
<1>2. /\ Len(ring) \in Nat /\ DOMAIN ring = 1..Len(ring) /\ ((ring = <<>>) <=> (Len(ring) = 0))
  BY <1>1, RingFacts
<1>3. RingEvolves
  <2>1. \A i \in 1..Len(ring) : EntryEvolves(ring[i], ring[i])
    BY <1>1, EvolvesSame DEF ContinueInv, SettleInv
  <2>2. Len(ring') = Len(ring) /\ ~(Len(ring) < Len(ring)) /\ Len(ring) <= Len(ring) BY <1>2
  <2> QED BY <2>1, <2>2 DEF RingEvolves
<1>4. OrderInv' BY <1>1, <1>3, EvolveOrder
<1>5. StageInv' BY <1>1, <1>3, EvolveStages
<1>6. OwedInv' /\ InterimInv' /\ ContinueFirst' /\ (writing' = writing => PrefixInv')
  BY <1>1, <1>3, EvolveContinue
<1>7. BodyPending' = BodyPending /\ UpgradePending' = UpgradePending
  BY DEF BodyPending, UpgradePending
<1>8. BodyInv'
  BY <1>7 DEF BodyInv, BodyPending, Framing, Pieces
<1>9. HeadInv'
  <2>1. Open' => Open /\ parsed' = parsed BY DEF Open
  <2> QED BY <1>7, <2>1 DEF HeadInv
<1>10. UpgradeInv'
  <2>1. ASSUME NEW i \in DOMAIN ring, ring[i].upgrade
        PROVE  /\ i = Len(ring) /\ ~head_since'
               /\ ring[i].stage # "body" /\ (~ring[i].close \/ ring[i].claim # "none")
                    => parsed' = <<ring[i].r + 1, 1>>
    <3>1. /\ i = Len(ring) /\ ~head_since
          /\ ring[i].stage # "body" /\ (~ring[i].close \/ ring[i].claim # "none")
               => parsed = <<ring[i].r + 1, 1>>
      BY <2>1 DEF UpgradeInv
    <3>2. ring # <<>> BY <1>2, <2>1
    <3>3. ring[i].stage # "body" => UpgradePending
      BY <2>1, <3>1, <3>2 DEF UpgradePending, Last
    <3> QED BY <3>1, <3>3
  <2> QED BY <1>7, <2>1 DEF UpgradeInv
<1>11. SettleInv'
  <2>1. taken # 0 => taking BY DEF SettleInv, TakenInv
  <2> QED BY <1>1, <1>3, <2>1, EvolveSettle
<1>12. writing' = writing => WritingInv' BY DEF WritingInv
<1>13. bodies' = Charges(ring') OBVIOUS
<1> QED BY <1>4, <1>5, <1>6, <1>8, <1>9, <1>10, <1>11, <1>12, <1>13

-----------------------------------------------------------------------------
Places == {"expire", "input", "start", "plan", "wait", "end", "closed"}

(* The stream's marks are the script's.                                    *)
LEMMA MarksSame == ASSUME asked' = asked PROVE Marks' = Marks
BY DEF Marks, MarksOf, Pieces, StreamEnd

(* The marks one by one.                                                   *)
LEMMA StreamFacts ==
  ASSUME HttpInv
  PROVE  /\ asked \in Scripts /\ sent \in Marks /\ got \in Marks /\ parsed \in Marks
         /\ ~Precedes(got, parsed) /\ ~Precedes(sent, got)
BY DEF HttpInv, HttpTyped, StreamInv, MarkInv

(* What the types say of the 100s.                                         *)
LEMMA InterimFacts ==
  ASSUME interim \in Seq([r : Request, after : Nat])
  PROVE  /\ Len(interim) \in Nat /\ DOMAIN interim = 1..Len(interim)
         /\ \A k \in DOMAIN interim : /\ interim[k].r \in Request /\ interim[k].r \in Nat \ {0}
                                      /\ interim[k].after \in Nat
<1>1. PICK S : S = [r : Request, after : Nat] OBVIOUS
<1>2. interim \in Seq(S) BY <1>1
<1>3. Len(interim) \in Nat /\ DOMAIN interim = 1..Len(interim) /\ \A k \in DOMAIN interim : interim[k] \in S
  BY <1>2
<1>4. \A q \in S : q.r \in Request /\ q.after \in Nat BY <1>1
<1>5. Request \subseteq Nat \ {0} BY HttpAssumption DEF Request
<1> QED BY <1>3, <1>4, <1>5

(* A step that leaves the ring, the wire and the claims alone.             *)
LEMMA Quiet ==
  ASSUME HttpInv, pc # "closed", pc' \in Places \ {"closed"}, pc' = "wait" => pc = "wait",
         UNCHANGED <<asked, wire, interim, requests, ring, bodies, claims, taking, taken, writing>>,
         close => close', head_since' => head_since, pc' = "wait" => want' = want,
         want' \in BOOLEAN, head_since' \in BOOLEAN, close' \in BOOLEAN, aborted' \in BOOLEAN,
         parsed' = parsed \/ (close' /\ ~taking /\ ~UpgradePending /\ ~BodyPending),
         sent' \in Marks, got' \in Marks, parsed' \in Marks,
         ~Precedes(got', parsed'), ~Precedes(sent', got')
  PROVE  HttpInv'
<1>1. HttpTyped'
  <2>1. Marks' = Marks BY MarksSame
  <2> QED BY <2>1 DEF HttpInv, HttpTyped, Places
<1>2. MarkInv' BY DEF MarkInv
<1>3. pc' = "wait" /\ want' => ~UpgradePending BY DEF HttpInv, RingInv, UpgradeInv
<1>4. /\ BodyInv' /\ HeadInv' /\ StageInv' /\ UpgradeInv' /\ OrderInv' /\ SettleInv'
      /\ OwedInv' /\ InterimInv' /\ ContinueFirst' /\ bodies' = Charges(ring')
      /\ WritingInv' /\ PrefixInv'
  BY <1>3, SameRing
<1> QED BY <1>1, <1>2, <1>4 DEF HttpInv, StreamInv, RingInv, ContinueInv

(* What the peer, the server and the handlers' holds do.                   *)
LEMMA PeerSendsStep == ASSUME HttpInv, PeerSends PROVE HttpInv'
<1>1. /\ pc = "wait" /\ pc' = "wait" /\ sent' = After(sent) /\ sent[1] <= Len(asked)
      /\ UNCHANGED <<asked, wire, interim, requests, ring, bodies, claims, taking, taken, writing>>
      /\ UNCHANGED <<close, head_since, want, aborted, got, parsed>>
  BY DEF PeerSends, inputVars, ringVars, closeVars, takeVars, wireVars
<1>2. want \in BOOLEAN /\ head_since \in BOOLEAN /\ close \in BOOLEAN /\ aborted \in BOOLEAN
  BY DEF HttpInv, HttpTyped
<1>3. sent' \in Marks /\ Precedes(sent, sent') BY <1>1, StreamFacts, AfterMark
<1>4. ~Precedes(sent', got)
  <2>1. ~Precedes(sent', sent) BY <1>3, StreamFacts, MarkOrder
  <2> QED BY <1>3, <2>1, StreamFacts, MarkOrder
<1> QED BY <1>1, <1>2, <1>3, <1>4, StreamFacts, Quiet DEF Places

(* The peer closes, the server stops, a hold is taken or dropped.          *)
LEMMA PeerStep == ASSUME HttpInv, PeerCloses \/ RequestStop \/ TakeHold \/ DropHold PROVE HttpInv'
<1>1. /\ pc = "wait" /\ pc' = "wait"
      /\ UNCHANGED <<asked, wire, interim, requests, ring, bodies, claims, taking, taken, writing>>
      /\ UNCHANGED <<close, head_since, want, aborted, sent, got, parsed>>
  BY DEF PeerCloses, RequestStop, TakeHold, DropHold, peerVars, inputVars, ringVars, closeVars,
         takeVars, wireVars
<1>2. want \in BOOLEAN /\ head_since \in BOOLEAN /\ close \in BOOLEAN /\ aborted \in BOOLEAN
  BY DEF HttpInv, HttpTyped
<1> QED BY <1>1, <1>2, StreamFacts, Quiet DEF Places

(* Wakes that leave the ring alone.                                        *)
LEMMA WakeStep ==
  ASSUME HttpInv, ReadNoBudget \/ SocketFails \/ Timer \/ Progress
  PROVE  HttpInv'
<1>1. /\ pc = "wait" /\ pc' = "expire"
      /\ UNCHANGED <<asked, wire, interim, requests, ring, bodies, claims, taking, taken, writing>>
      /\ UNCHANGED <<close, head_since, want, sent, got, parsed>>
      /\ aborted' \in {aborted, TRUE}
  BY DEF ReadNoBudget, SocketFails, Timer, Progress, Woken, peerVars, inputVars, ringVars,
         closeVars, takeVars, wireVars
<1>2. want \in BOOLEAN /\ head_since \in BOOLEAN /\ close \in BOOLEAN /\ aborted \in BOOLEAN
  BY DEF HttpInv, HttpTyped
<1> QED BY <1>1, <1>2, StreamFacts, Quiet DEF Places

(* The connection reads some of what the peer has sent.                    *)
LEMMA ReadDataStep == ASSUME HttpInv, ReadData PROVE HttpInv'
<1>1. /\ pc = "wait" /\ pc' = "expire"
      /\ UNCHANGED <<asked, wire, interim, requests, ring, bodies, claims, taking, taken, writing>>
      /\ UNCHANGED <<close, head_since, want, aborted, sent, parsed>>
      /\ got' \in Marks /\ Precedes(got, got') /\ ~Precedes(sent, got')
  BY DEF ReadData, Woken, peerVars, ringVars, closeVars, takeVars, wireVars
<1>2. want \in BOOLEAN /\ head_since \in BOOLEAN /\ close \in BOOLEAN /\ aborted \in BOOLEAN
  BY DEF HttpInv, HttpTyped
<1>3. ~Precedes(got', parsed)
  <2>1. ~Precedes(got', got) BY <1>1, StreamFacts, MarkOrder
  <2> QED BY <1>1, <2>1, StreamFacts, MarkOrder
<1> QED BY <1>1, <1>2, <1>3, StreamFacts, Quiet DEF Places

(* Ticks in which no request's deadline fires.                             *)
LEMMA TickStep == ASSUME HttpInv, ExpireNone \/ ExpireSend \/ ExpireIdle PROVE HttpInv'
<1>1. /\ pc = "expire" /\ pc' = "input"
      /\ UNCHANGED <<asked, wire, interim, requests, ring, bodies, claims, taking, taken, writing>>
      /\ UNCHANGED <<head_since, want, sent, got, parsed>>
      /\ (aborted' = aborted \/ aborted' = TRUE) /\ (close' = close \/ close' = TRUE)
  BY DEF ExpireNone, ExpireSend, ExpireIdle, Ticks, peerVars, inputVars, ringVars, closeVars,
         takeVars, wireVars
<1>2. want \in BOOLEAN /\ head_since \in BOOLEAN /\ close \in BOOLEAN /\ aborted \in BOOLEAN
  BY DEF HttpInv, HttpTyped
<1>3. close' \in BOOLEAN /\ aborted' \in BOOLEAN /\ (close => close') BY Zenon, <1>1, <1>2
<1> QED BY <1>1, <1>2, <1>3, StreamFacts, Quiet DEF Places

(* Nothing more is parsed in this tick, or what is left is ignored.        *)
LEMMA InputDoneStep == ASSUME HttpInv, InputDone PROVE HttpInv'
<1>1. /\ pc = "input" /\ pc' = "start"
      /\ UNCHANGED <<asked, wire, interim, requests, ring, bodies, claims, taking, taken, writing>>
      /\ UNCHANGED <<close, head_since, want, aborted, sent, got>>
      /\ parsed' = parsed \/ (parsed' = got /\ close /\ ~taking /\ ~UpgradePending /\ ~BodyPending)
  BY DEF InputDone, inputFrame, peerVars, ringVars, takeVars, wireVars
<1>2. want \in BOOLEAN /\ head_since \in BOOLEAN /\ close \in BOOLEAN /\ aborted \in BOOLEAN
  BY DEF HttpInv, HttpTyped
<1>3. parsed' \in Marks /\ ~Precedes(got, parsed') BY <1>1, StreamFacts, MarkOrder
<1> QED BY <1>1, <1>2, <1>3, StreamFacts, Quiet DEF Places

-----------------------------------------------------------------------------
(* Before a head is parsed nothing ends the connection: the head is the    *)
(* next request's, no body is pending and no upgrade.                      *)
LEMMA ParsingFacts ==
  ASSUME HttpInv, Parsing
  PROVE  /\ pc = "input" /\ ~close /\ ~taking /\ Open /\ taken = 0
         /\ parsed = <<requests + 1, 1>> /\ requests + 1 \in DOMAIN asked /\ requests + 1 \in Request
         /\ Precedes(parsed, got) /\ Len(ring) < MaxPipelined
         /\ \A i \in 1..Len(ring) : /\ ~ring[i].upgrade /\ ring[i].stage # "body"
                                    /\ ~Ends(ring[i]) /\ ring[i].r <= requests
         /\ \A k \in 1..Len(wire) : ~Ends(wire[k]) /\ wire[k].r <= requests
         /\ requests = Len(wire) + Len(ring)
<1> USE DEF HttpInv, StreamInv, RingInv, OrderInv
<1>0. pc = "input" /\ ~close /\ ~taking /\ Open /\ ~BodyPending /\ ~UpgradePending /\ parsed # got
  BY DEF Parsing, Open, NoInput
<1>1. /\ Len(ring) \in Nat /\ DOMAIN ring = 1..Len(ring) /\ ((ring = <<>>) <=> (Len(ring) = 0))
      /\ DOMAIN wire = 1..Len(wire) /\ requests \in Nat
  BY RingFacts, WireFacts DEF HttpTyped
<1>2. taken = 0 BY <1>0 DEF SettleInv, TakenInv
<1>3. parsed = <<requests + 1, 1>> BY <1>0 DEF HeadInv
<1>4. Precedes(parsed, got) /\ parsed[1] \in DOMAIN asked
  <2>1. Precedes(parsed, got) BY <1>0, StreamFacts, MarkOrder
  <2>2. parsed[1] <= Len(asked) BY <2>1, StreamFacts, MarkOrder
  <2> QED BY <2>1, <2>2, StreamFacts, AfterMark
<1>5. requests + 1 \in DOMAIN asked /\ requests + 1 \in Request
  <2>1. parsed[1] = requests + 1 BY <1>3
  <2> QED BY <1>4, <2>1, StreamFacts, AskedFacts
<1>6. ASSUME NEW i \in 1..Len(ring)
      PROVE  ~ring[i].upgrade /\ ring[i].stage # "body" /\ ~Ends(ring[i]) /\ ring[i].r <= requests
  <2>1. ring # <<>> BY <1>1
  <2>2. ring[i].stage # "body" BY <1>0, <1>1, <2>1 DEF StageInv, BodyPending, Last
  <2>3. ~ring[i].upgrade BY <1>0, <1>1, <2>1, <2>2 DEF UpgradeInv, UpgradePending, Last
  <2>4. ~Ends(ring[i]) BY <1>0, <1>1 DEF EndInv
  <2>5. ring[i].r <= requests BY <1>0, <1>1 DEF NumberInv
  <2> QED BY <2>2, <2>3, <2>4, <2>5
<1>7. \A k \in 1..Len(wire) : ~Ends(wire[k]) /\ wire[k].r <= requests
  BY <1>0, <1>1 DEF EndInv, NumberInv
<1>8. requests = Len(wire) + Len(ring)
  BY <1>0, <1>1, <1>6, <1>7 DEF CountInv, WireOpen, RingOpen
<1>9. Len(ring) < MaxPipelined BY DEF Parsing
<1> QED BY <1>0, <1>2, <1>3, <1>4, <1>5, <1>6, <1>7, <1>8, <1>9

(* A head is not complete: its deadline starts.                            *)
LEMMA ParsePartialStep == ASSUME HttpInv, ParsePartial PROVE HttpInv'
<1>1. Parsing BY DEF ParsePartial
<1>2. /\ pc = "input" /\ pc' = "start" /\ head_since' = TRUE
      /\ UNCHANGED <<asked, wire, interim, requests, ring, bodies, claims, taking, taken, writing>>
      /\ UNCHANGED <<close, want, aborted, sent, got, parsed>>
  BY DEF ParsePartial, Parsing, inputFrame, peerVars, ringVars, takeVars, wireVars
<1>3. HttpTyped /\ ring \in Seq(Entries) /\ ring' \in Seq(Entries) BY <1>2 DEF HttpInv, HttpTyped
<1>4. Len(ring) \in Nat /\ DOMAIN ring = 1..Len(ring) BY <1>3, RingFacts
<1>5. HttpTyped'
  <2>1. Marks' = Marks BY <1>2, MarksSame
  <2> QED BY <1>2, <2>1 DEF HttpInv, HttpTyped
<1>6. RingEvolves
  <2>1. \A i \in 1..Len(ring) : EntryEvolves(ring[i], ring[i])
    BY <1>3, EvolvesSame DEF HttpInv, RingInv, ContinueInv, SettleInv
  <2>2. Len(ring') = Len(ring) /\ ~(Len(ring) < Len(ring)) /\ Len(ring) <= Len(ring) BY <1>2, <1>4
  <2>3. Open' BY <1>1, <1>2, ParsingFacts DEF Open
  <2> QED BY <1>2, <2>1, <2>2, <2>3 DEF RingEvolves
<1>7. OrderInv' BY <1>3, <1>6, EvolveOrder DEF HttpInv, RingInv
<1>8. StageInv' BY <1>2, <1>3, <1>6, EvolveStages DEF HttpInv, RingInv
<1>9. ContinueInv' BY <1>2, <1>3, <1>6, EvolveContinue DEF HttpInv, ContinueInv
<1>10. SettleInv' BY <1>2, <1>3, <1>6, EvolveSettle DEF HttpInv, RingInv
<1>11. ~BodyPending /\ ~BodyPending' BY <1>1, <1>2 DEF Parsing, BodyPending
<1>12. StreamInv'
  <2>1. requests < MaxRequests
    <3>1. requests + 1 \in Request BY <1>1, ParsingFacts
    <3> QED BY <3>1, HttpAssumption DEF HttpInv, HttpTyped, Request
  <2>2. MarkInv' BY <1>2 DEF HttpInv, StreamInv, MarkInv
  <2>3. HeadInv' BY <1>1, <1>2, <1>11, <2>1, ParsingFacts DEF HeadInv
  <2> QED BY <1>11, <2>2, <2>3 DEF StreamInv, BodyInv
<1>13. UpgradeInv' BY <1>1, <1>2, <1>4, ParsingFacts DEF UpgradeInv
<1>14. WritingInv' BY <1>2 DEF HttpInv, RingInv, WritingInv
<1>15. bodies' = Charges(ring') BY <1>2 DEF HttpInv
<1> QED BY <1>5, <1>7, <1>8, <1>9, <1>10, <1>12, <1>13, <1>14, <1>15 DEF HttpInv, RingInv

(* The entries to write are done, and the 100 is owed by the first one.    *)
LEMMA PlanWriteStep == ASSUME HttpInv, PlanWrite PROVE HttpInv'
<1>1. /\ pc = "plan" /\ pc' \in {"wait", "end"} /\ (pc' = "wait" => taken = 0) /\ want' = WantRead
      /\ UNCHANGED <<asked, wire, interim, requests, ring, bodies, claims, taking, taken>>
      /\ UNCHANGED <<close, head_since, aborted, sent, got, parsed>>
  BY DEF PlanWrite, peerVars, inputVars, ringVars, closeVars, takeVars, wireVars
<1>2. want' \in BOOLEAN BY <1>1 DEF WantRead
<1>3. want' => ~UpgradePending BY <1>1 DEF WantRead
<1>4. /\ BodyInv' /\ HeadInv' /\ StageInv' /\ UpgradeInv' /\ OrderInv' /\ SettleInv'
      /\ OwedInv' /\ InterimInv' /\ ContinueFirst' /\ bodies' = Charges(ring')
      /\ writing' = writing => WritingInv' /\ PrefixInv'
  BY <1>1, <1>3, SameRing
<1>5. MarkInv' BY <1>1 DEF HttpInv, StreamInv, MarkInv
<1>6. HttpTyped /\ ring \in Seq(Entries) BY DEF HttpInv, HttpTyped
<1>7. /\ Len(ring) \in Nat /\ DOMAIN ring = 1..Len(ring) /\ ((ring = <<>>) <=> (Len(ring) = 0))
      /\ \A i \in 1..Len(ring) : ring[i].r \in Nat \ {0} /\ ring[i].r \in Request
  BY <1>6, RingFacts
<1>8. CASE writing' = writing
  <2>1. HttpTyped'
    <3>1. Marks' = Marks BY <1>1, MarksSame
    <3> QED BY <1>1, <1>2, <1>6, <1>8, <3>1 DEF HttpTyped
  <2> QED BY <1>4, <1>5, <1>8, <2>1 DEF HttpInv, StreamInv, RingInv, ContinueInv
<1>9. ASSUME NEW n \in 0..Len(ring), DoneUpTo(n),
             writing' = [count |-> n, prefix |-> IF n = 0 /\ OwesContinue THEN ring[1].r ELSE 0]
      PROVE  HttpInv'
  <2>1. writing'.count = n /\ writing'.prefix = (IF n = 0 /\ OwesContinue THEN ring[1].r ELSE 0)
    BY <1>9
  <2>2. OwesContinue => 1 \in 1..Len(ring) /\ ring[1].stage = "body" /\ ring[1].cont
    BY <1>7 DEF OwesContinue
  <2>3. writing' \in [count : Nat, prefix : {0} \cup Request] BY <1>7, <1>9, <2>2
  <2>4. HttpTyped'
    <3>1. Marks' = Marks BY <1>1, MarksSame
    <3> QED BY <1>1, <1>2, <1>6, <2>3, <3>1 DEF HttpTyped
  <2>5. WritingInv' BY <1>1, <1>9, <2>1 DEF WritingInv, DoneUpTo
  <2>6. PrefixInv'
    <3> SUFFICES ASSUME writing'.prefix # 0
                 PROVE  /\ writing'.count = 0 /\ writing'.prefix <= requests
                        /\ asked[writing'.prefix].expect = "continue"
                        /\ \A k \in DOMAIN interim : interim[k].r # writing'.prefix
                        /\ \A k \in DOMAIN wire : wire[k].r # writing'.prefix
                        /\ \A i \in DOMAIN ring : ring[i].r >= writing'.prefix
      BY <1>1 DEF PrefixInv
    <3>1. n = 0 /\ OwesContinue /\ writing'.prefix = ring[1].r BY <2>1
    <3>2. 1 \in DOMAIN ring /\ ring[1].stage = "body" /\ ring[1].cont BY <1>7, <2>2, <3>1
    <3>3. Len(ring) = 1 /\ ring # <<>> BY <1>7, <3>2 DEF HttpInv, RingInv, StageInv
    <3>4. BodyPending /\ Last(ring) = ring[1] BY <3>2, <3>3 DEF BodyPending, Last
    <3>5. ring[1].r = requests /\ requests \in Nat BY <1>6, <3>4 DEF HttpInv, StreamInv, BodyInv, HttpTyped
    <3>6. /\ asked[ring[1].r].expect = "continue"
          /\ \A k \in DOMAIN interim : interim[k].r # ring[1].r
      BY <3>2 DEF HttpInv, ContinueInv, OwedInv
    <3>7. \A k \in DOMAIN wire : wire[k].r < ring[1].r BY <3>2 DEF HttpInv, OrderInv, NumberInv
    <3>8. \A k \in DOMAIN wire : wire[k].r \in Nat BY <1>6, WireFacts DEF HttpTyped
    <3>9. \A k \in DOMAIN wire : wire[k].r # ring[1].r BY <3>5, <3>7, <3>8
    <3>10. \A i \in DOMAIN ring : ring[i].r >= ring[1].r BY <1>7, <3>3
    <3> QED BY <2>1, <3>1, <3>5, <3>6, <3>9, <3>10
  <2> QED BY <1>4, <1>5, <2>4, <2>5, <2>6 DEF HttpInv, StreamInv, RingInv, ContinueInv
<1> QED BY <1>8, <1>9 DEF PlanWrite

-----------------------------------------------------------------------------
(* The ring cut behind its first n entries.                                *)
LEMMA CutFacts ==
  ASSUME NEW n \in 0..Len(ring), ring \in Seq(Entries)
  PROVE  /\ SubSeq(ring, 1, n) \in Seq(Entries) /\ Len(SubSeq(ring, 1, n)) = n
         /\ \A i \in 1..n : SubSeq(ring, 1, n)[i] = ring[i]
         /\ Behind(n) \in Seq(Entries) /\ Len(Behind(n)) = Len(ring) - n
         /\ \A i \in 1..(Len(ring) - n) : Behind(n)[i] = ring[n + i]
         /\ Charges(SubSeq(ring, 1, n)) \in Nat /\ Charges(Behind(n)) \in Nat
         /\ Charges(ring) = Charges(SubSeq(ring, 1, n)) + Charges(Behind(n))
<1>1. Len(ring) \in Nat /\ DOMAIN ring = 1..Len(ring) /\ \A i \in 1..Len(ring) : ring[i] \in Entries
  BY EntriesFacts
<1>2. PICK u : u = SubSeq(ring, 1, n) OBVIOUS
<1>3. PICK v : v = Behind(n) OBVIOUS
<1>4. u \in Seq(Entries) /\ Len(u) = n /\ \A i \in 1..n : u[i] = ring[i]
  <2>1. \A i \in 1..n : ring[i] \in Entries BY <1>1
  <2>2. /\ SubSeq(ring, 1, n) \in Seq(Entries)
        /\ Len(SubSeq(ring, 1, n)) = IF 1 <= n THEN n - 1 + 1 ELSE 0
        /\ \A i \in 1..n - 1 + 1 : SubSeq(ring, 1, n)[i] = ring[1 + i - 1]
    BY <1>1, <2>1, SubSeqProperties
  <2>3. n - 1 + 1 = n /\ \A i \in 1..n : 1 + i - 1 = i BY <1>1
  <2>4. Len(SubSeq(ring, 1, n)) = n BY <1>1, <2>2, <2>3
  <2> QED BY <1>2, <2>2, <2>3, <2>4
<1>5. v \in Seq(Entries) /\ Len(v) = Len(ring) - n /\ \A i \in 1..(Len(ring) - n) : v[i] = ring[n + i]
  <2>1. \A i \in (n + 1)..Len(ring) : ring[i] \in Entries BY <1>1
  <2>2. /\ SubSeq(ring, n + 1, Len(ring)) \in Seq(Entries)
        /\ Len(SubSeq(ring, n + 1, Len(ring))) = IF n + 1 <= Len(ring) THEN Len(ring) - (n + 1) + 1 ELSE 0
        /\ \A i \in 1..Len(ring) - (n + 1) + 1 : SubSeq(ring, n + 1, Len(ring))[i] = ring[n + 1 + i - 1]
    BY <1>1, <2>1, SubSeqProperties
  <2>3. Len(ring) - (n + 1) + 1 = Len(ring) - n /\ \A i \in 1..(Len(ring) - n) : n + 1 + i - 1 = n + i
    BY <1>1
  <2>5. Len(ring) \in Nat /\ n \in Nat /\ n <= Len(ring) BY <1>1
  <2>6. (IF n + 1 <= Len(ring) THEN Len(ring) - (n + 1) + 1 ELSE 0) = Len(ring) - n BY <2>5
  <2>4. Len(SubSeq(ring, n + 1, Len(ring))) = Len(ring) - n BY <2>2, <2>6
  <2> QED BY <1>3, <2>2, <2>3, <2>4 DEF Behind
<1>6. Charges(u) \in Nat /\ Charges(v) \in Nat BY <1>4, <1>5, OctetsFinite
<1>7. Charges(ring) = Charges(u) + Charges(v)
  <2>1. Len(ring) = Len(u) + Len(v) BY <1>1, <1>4, <1>5
  <2>2. \A i \in 1..Len(u) : Weight(u[i]) = Weight(ring[i]) BY <1>4
  <2>3. \A i \in 1..Len(v) : Weight(v[i]) = Weight(ring[Len(u) + i]) BY <1>4, <1>5
  <2>4. u \in Seq(Entries) /\ v \in Seq(Entries) BY <1>4, <1>5
  <2> QED BY <2>1, <2>2, <2>3, <2>4, ChargesSplit
<1> QED BY <1>2, <1>3, <1>4, <1>5, <1>6, <1>7

(* The claims of dropped entries are dropped or lost.                      *)
LEMMA DroppedFacts ==
  ASSUME NEW v, claims \in [Request -> ClaimStates]
  PROVE  DroppedClaims(v, claims) \in [Request -> ClaimStates]
BY DEF DroppedClaims, ClaimStates

(* The claims c of a ring that lost the entries behind the first n.        *)
DroppedBehind(n, c) ==
  \A r \in Request :
    c[r] = IF \E k \in (n + 1)..Len(ring) : ring[k].r = r /\ ring[k].claim # "none" THEN "dropped"
           ELSE IF \E k \in (n + 1)..Len(ring) : ring[k].r = r /\ ring[k].claiming # "none" THEN "lost"
           ELSE claims[r]

(* DroppedClaims, by the places of the entries that go.                    *)
LEMMA DroppedPlaces ==
  ASSUME NEW n \in 0..Len(ring), ring \in Seq(Entries)
  PROVE  DroppedBehind(n, DroppedClaims(Behind(n), claims))
<1>1. Len(ring) \in Nat BY EntriesFacts
<1>2. PICK v \in Seq(Entries) : v = Behind(n) BY CutFacts
<1>3. /\ DOMAIN v = 1..(Len(ring) - n) /\ \A i \in 1..(Len(ring) - n) : v[i] = ring[n + i]
  BY <1>2, CutFacts
<1>4. /\ \A i \in 1..(Len(ring) - n) : n + i \in (n + 1)..Len(ring)
      /\ \A k \in (n + 1)..Len(ring) : k - n \in 1..(Len(ring) - n) /\ n + (k - n) = k
  BY <1>1
<1>5. \A k \in (n + 1)..Len(ring) : k - n \in DOMAIN v /\ v[k - n] = ring[k] BY <1>3, <1>4
<1>6. \A i \in DOMAIN v : n + i \in (n + 1)..Len(ring) /\ v[i] = ring[n + i] BY <1>3, <1>4
<1> SUFFICES ASSUME NEW r \in Request
             PROVE  DroppedClaims(v, claims)[r] =
                      IF \E k \in (n + 1)..Len(ring) : ring[k].r = r /\ ring[k].claim # "none" THEN "dropped"
                      ELSE IF \E k \in (n + 1)..Len(ring) : ring[k].r = r /\ ring[k].claiming # "none"
                           THEN "lost" ELSE claims[r]
  BY <1>2 DEF DroppedBehind
<1>7. /\ (\E i \in DOMAIN v : v[i].r = r /\ v[i].claim # "none") <=>
           (\E k \in (n + 1)..Len(ring) : ring[k].r = r /\ ring[k].claim # "none")
      /\ (\E i \in DOMAIN v : v[i].r = r /\ v[i].claiming # "none") <=>
           (\E k \in (n + 1)..Len(ring) : ring[k].r = r /\ ring[k].claiming # "none")
  <2>1. ASSUME NEW i \in DOMAIN v
        PROVE  \E k \in (n + 1)..Len(ring) : /\ ring[k].r = v[i].r /\ ring[k].claim = v[i].claim
                                             /\ ring[k].claiming = v[i].claiming
    BY <1>6
  <2>2. ASSUME NEW k \in (n + 1)..Len(ring)
        PROVE  \E i \in DOMAIN v : /\ ring[k].r = v[i].r /\ ring[k].claim = v[i].claim
                                   /\ ring[k].claiming = v[i].claiming
    BY <1>5
  <2>3. ASSUME NEW i \in DOMAIN v, v[i].r = r, v[i].claim # "none"
        PROVE  \E k \in (n + 1)..Len(ring) : ring[k].r = r /\ ring[k].claim # "none"
    BY <2>1, <2>3
  <2>4. ASSUME NEW i \in DOMAIN v, v[i].r = r, v[i].claiming # "none"
        PROVE  \E k \in (n + 1)..Len(ring) : ring[k].r = r /\ ring[k].claiming # "none"
    BY <2>1, <2>4
  <2>5. ASSUME NEW k \in (n + 1)..Len(ring), ring[k].r = r, ring[k].claim # "none"
        PROVE  \E i \in DOMAIN v : v[i].r = r /\ v[i].claim # "none"
    BY <2>2, <2>5
  <2>6. ASSUME NEW k \in (n + 1)..Len(ring), ring[k].r = r, ring[k].claiming # "none"
        PROVE  \E i \in DOMAIN v : v[i].r = r /\ v[i].claiming # "none"
    BY <2>2, <2>6
  <2> QED BY Zenon, <2>3, <2>4, <2>5, <2>6
<1>8. DroppedClaims(v, claims)[r] =
        IF \E i \in DOMAIN v : v[i].r = r /\ v[i].claim # "none" THEN "dropped"
        ELSE IF \E i \in DOMAIN v : v[i].r = r /\ v[i].claiming # "none" THEN "lost" ELSE claims[r]
  BY DEF DroppedClaims
<1> QED BY <1>7, <1>8

(* What is left to show of a step by which entries evolve in their places. *)
LEMMA InPlace ==
  ASSUME HttpInv, RingEvolves, ring' \in Seq(Entries), Len(ring') = Len(ring),
         pc # "closed", pc' # "closed", pc' = "wait" => pc = "wait" /\ want' = want,
         \A i \in 1..Len(ring) : /\ (ring'[i].stage = "body") = (ring[i].stage = "body")
                                 /\ ring[i].stage = "body" => ring'[i].left = ring[i].left,
         \A i \in 1..Len(ring) : (ring'[i].stage = "running" /\ i > 1) =>
            ring[i].stage = "running" \/ (\A j \in 1..i : ring[j].safe),
         parsed' = parsed, head_since' => head_since
  PROVE  /\ BodyInv' /\ HeadInv' /\ OrderInv' /\ StageInv' /\ UpgradeInv'
         /\ writing' = writing => WritingInv'
<1> USE DEF HttpInv, StreamInv, RingInv
<1>1. HttpTyped /\ ring \in Seq(Entries) BY DEF HttpTyped
<1>2. /\ Len(ring) \in Nat /\ DOMAIN ring = 1..Len(ring) /\ DOMAIN ring' = 1..Len(ring)
      /\ ((ring = <<>>) <=> (Len(ring) = 0)) /\ ((ring' = <<>>) <=> (Len(ring) = 0))
  BY <1>1, EntriesFacts
<1>3. /\ asked' = asked /\ requests' = requests /\ (close => close') /\ (taking => taking')
      /\ \A i \in 1..Len(ring) : EntryEvolves(ring[i], ring'[i])
  BY DEF RingEvolves
<1>4. OrderInv' BY <1>1, EvolveOrder
<1>5. StageInv' BY <1>1, EvolveStages
<1>6. Last(ring') = ring'[Len(ring)] /\ Last(ring) = ring[Len(ring)] BY DEF Last
<1>7. Len(ring) # 0 => Len(ring) \in 1..Len(ring) BY <1>2
<1>8. BodyPending' <=> BodyPending BY <1>2, <1>6, <1>7 DEF BodyPending
<1>9. BodyInv'
  <2>1. ASSUME BodyPending
        PROVE  Last(ring').r = Last(ring).r /\ Last(ring').left = Last(ring).left
    BY <1>2, <1>3, <1>6, <1>7, <2>1 DEF BodyPending, EntryEvolves
  <2>2. ASSUME BodyPending PROVE Framing' = Framing
    BY <1>3, <2>1, <2>2 DEF Framing
  <2>3. \A r : Pieces(r)' = Pieces(r) BY <1>3 DEF Pieces
  <2> QED BY <1>3, <1>8, <2>1, <2>2, <2>3 DEF BodyInv
<1>10. HeadInv'
  <2>1. Open' => Open BY <1>3 DEF Open
  <2> QED BY <1>3, <1>8, <2>1 DEF HeadInv
<1>11. UpgradeInv'
  <2>1. ASSUME NEW i \in 1..Len(ring), ring'[i].upgrade
        PROVE  /\ i = Len(ring) /\ ~head_since'
               /\ ring'[i].stage # "body" /\ (~ring'[i].close \/ ring'[i].claim # "none")
                    => parsed' = <<ring'[i].r + 1, 1>>
    <3>1. ring[i].upgrade /\ ring'[i].r = ring[i].r BY <1>3, <2>1 DEF EntryEvolves
    <3>2. /\ i = Len(ring) /\ ~head_since
          /\ ring[i].stage # "body" /\ (~ring[i].close \/ ring[i].claim # "none")
               => parsed = <<ring[i].r + 1, 1>>
      BY <1>2, <3>1 DEF UpgradeInv
    <3>3. ring'[i].stage # "body" => ring[i].stage # "body" OBVIOUS
    <3>4. ring[i].close => ring'[i].close /\ ring'[i].claim = ring[i].claim
      <4>1. ring[i].close => ring[i].stage = "done" BY <1>2 DEF StageInv
      <4> QED BY <1>3, <4>1 DEF EntryEvolves
    <3> QED BY <3>1, <3>2, <3>3, <3>4
  <2>2. ASSUME pc' = "wait", want', UpgradePending' PROVE FALSE
    <3>1. pc = "wait" /\ want BY <2>2
    <3>2. Len(ring) \in 1..Len(ring) /\ ring # <<>> /\ ring'[Len(ring)].upgrade /\ ring'[Len(ring)].stage # "body"
      BY <1>2, <1>6, <1>7, <2>2 DEF UpgradePending
    <3>3. UpgradePending BY <1>3, <1>6, <3>2 DEF UpgradePending, EntryEvolves
    <3> QED BY <3>1, <3>3 DEF UpgradeInv
  <2> QED BY <1>2, <2>1, <2>2 DEF UpgradeInv
<1>12. ASSUME writing' = writing PROVE WritingInv'
  <2>1. writing.count \in Nat BY <1>1 DEF HttpTyped
  <2>2. \A i \in 1..writing.count : i \in 1..Len(ring) BY <1>2, <2>1 DEF WritingInv
  <2> QED BY <1>3, <1>12, <2>2 DEF WritingInv, EntryEvolves
<1> QED BY <1>4, <1>5, <1>9, <1>10, <1>11, <1>12

(* One entry evolves in its place.                                         *)
LEMMA OneEvolves ==
  ASSUME HttpInv, NEW i \in 1..Len(ring), NEW f \in Entries, ring' = [ring EXCEPT ![i] = f],
         EntryEvolves(ring[i], f), Ends(f) => Ends(ring[i]) \/ (i = Len(ring) /\ (close' \/ taking')),
         close => close', taking => taking', head_since' => head_since \/ Open', pc # "closed",
         UNCHANGED <<asked, wire, requests>>
  PROVE  /\ RingEvolves /\ ring' \in Seq(Entries) /\ Len(ring') = Len(ring)
         /\ ring'[i] = f /\ \A k \in 1..Len(ring) : k # i => ring'[k] = ring[k]
         /\ Charges(ring') = Charges(ring) - Weight(ring[i]) + Weight(f)
<1>1. HttpTyped /\ ring \in Seq(Entries) BY DEF HttpInv, HttpTyped
<1>2. Len(ring) \in Nat BY <1>1, EntriesFacts
<1>3. /\ ring' \in Seq(Entries) /\ Len(ring') = Len(ring)
      /\ \A j \in 1..Len(ring) : ring'[j] = IF j = i THEN f ELSE ring[j]
  BY <1>1, ExceptSeq
<1>4. \A j \in 1..Len(ring) : EntryEvolves(ring[j], ring[j])
  BY <1>1, EvolvesSame DEF HttpInv, RingInv, ContinueInv, SettleInv
<1>5. RingEvolves
  <2>1. ASSUME NEW j \in 1..Len(ring)
        PROVE  /\ EntryEvolves(ring[j], ring'[j])
               /\ Ends(ring'[j]) => Ends(ring[j]) \/ (j = Len(ring') /\ (close' \/ taking'))
    <3>1. CASE j = i BY <1>3, <3>1
    <3>2. CASE j # i BY <1>3, <1>4, <3>2
    <3> QED BY <3>1, <3>2
  <2>3. Len(ring') = Len(ring) BY <1>3
  <2>4. \A n \in Nat : n <= n /\ ~(n < n) OBVIOUS
  <2>5. Len(ring) <= Len(ring) /\ ~(Len(ring) < Len(ring)) BY <1>2, <2>4
  <2>2. Len(ring') <= Len(ring) /\ ~(Len(ring') < Len(ring)) BY Zenon, <2>3, <2>5
  <2> QED BY <1>3, <2>1, <2>2 DEF RingEvolves
<1>6. Charges(ring') = Charges(ring) - Weight(ring[i]) + Weight(f)
  <2>1. PICK t \in Seq(Entries) : t = ring' BY <1>3
  <2>2. Len(t) = Len(ring) /\ t[i] = f /\ \A k \in 1..Len(ring) : k # i => Weight(t[k]) = Weight(ring[k])
    BY <1>3, <2>1
  <2>3. Charges(t) = Charges(ring) - Weight(ring[i]) + Weight(t[i]) BY <1>1, <2>2, ChargesReplace
  <2> QED BY <2>1, <2>2, <2>3
<1> QED BY <1>3, <1>5, <1>6

(* A step in place that leaves the 100s and the responses' claims alone.   *)
LEMMA InPlaceKeeps ==
  ASSUME HttpInv, RingEvolves, ring' \in Seq(Entries), Len(ring') = Len(ring),
         pc # "closed", pc' # "closed", pc' = "wait" => pc = "wait",
         \A i \in 1..Len(ring) : ring'[i].claim = ring[i].claim,
         UNCHANGED <<interim, writing, taken>>, ring # <<>> \/ parsed' = parsed
  PROVE  ContinueInv' /\ SettleInv'
<1>1. HttpTyped /\ StageInv /\ ContinueInv /\ SettleInv BY DEF HttpInv, RingInv
<1>2. Len(ring) \in Nat BY RingFacts DEF HttpInv, HttpTyped
<1>3. ContinueInv' BY <1>1, EvolveContinue DEF ContinueInv
<1>4. SettleInv' BY <1>1, <1>2, EvolveSettle
<1> QED BY <1>3, <1>4

(* A handler exports its body's charge.                                    *)
LEMMA ExportStep == ASSUME HttpInv, NEW i \in DOMAIN ring, Export(i) PROVE HttpInv'
<1>0. HttpTyped /\ ring \in Seq(Entries) BY DEF HttpInv, HttpTyped
<1>1. /\ i \in 1..Len(ring) /\ ring[i] \in Entries /\ Len(ring) \in Nat
      /\ \A j \in 1..Len(ring) : ring[j] \in Entries /\ Weight(ring[j]) \in Nat
  BY <1>0, EntriesFacts
<1>2. /\ pc = "wait" /\ pc' = "wait" /\ ring[i].stage = "running"
      /\ ring' = [ring EXCEPT ![i] = [ring[i] EXCEPT !.charge = 0]]
      /\ bodies' = bodies - ring[i].charge
      /\ UNCHANGED <<asked, wire, interim, requests, claims, taking, taken, writing>>
      /\ UNCHANGED <<close, head_since, want, aborted, sent, got, parsed>>
  BY <1>0, <1>1 DEF Export, peerVars, inputVars, closeVars, takeVars, wireVars
<1>3. PICK e \in Entries : e = ring[i] BY <1>1
<1>4. PICK f : f = [e EXCEPT !.charge = 0] OBVIOUS
<1>5. /\ f \in Entries /\ f.r = e.r /\ f.stage = e.stage /\ f.safe = e.safe /\ f.upgrade = e.upgrade
      /\ f.cont = e.cont /\ f.bytes = e.bytes /\ f.charge = 0 /\ f.claim = e.claim
      /\ f.close = e.close /\ f.says = e.says /\ f.left = e.left
      /\ f.claiming = e.claiming /\ f.stray = e.stray
  BY <1>4 DEF Entries
<1>6. EntryEvolves(e, e)
  BY <1>0, <1>1, <1>3, EvolvesSame DEF HttpInv, RingInv, ContinueInv, SettleInv
<1>7. EntryEvolves(ring[i], f) BY <1>3, <1>5, <1>6 DEF EntryEvolves, Ends
<1>8. Ends(f) => Ends(ring[i]) BY <1>3, <1>5 DEF Ends
<1>9. ring' = [ring EXCEPT ![i] = f] BY <1>2, <1>3, <1>4
<1>10. /\ RingEvolves /\ ring' \in Seq(Entries) /\ Len(ring') = Len(ring)
       /\ ring'[i] = f /\ \A k \in 1..Len(ring) : k # i => ring'[k] = ring[k]
       /\ Charges(ring') = Charges(ring) - Weight(ring[i]) + Weight(f)
  BY <1>1, <1>2, <1>5, <1>7, <1>8, <1>9, OneEvolves
<1>11. \A k \in 1..Len(ring) : /\ ring'[k].stage = ring[k].stage /\ ring'[k].left = ring[k].left
                               /\ ring'[k].claim = ring[k].claim
  BY <1>3, <1>5, <1>10
<1>12. /\ BodyInv' /\ HeadInv' /\ OrderInv' /\ StageInv' /\ UpgradeInv' /\ WritingInv'
  BY <1>2, <1>10, <1>11, InPlace
<1>13. ContinueInv' /\ SettleInv' BY <1>2, <1>10, <1>11, InPlaceKeeps
<1>14. bodies' = Charges(ring')
  <2>1. Weight(ring[i]) = e.bytes + e.charge /\ Weight(f) = e.bytes /\ e.bytes \in Nat /\ e.charge \in Nat
    BY <1>3, <1>5 DEF Weight, Entries
  <2>2. bodies = Charges(ring) /\ Charges(ring) \in Nat BY <1>0, OctetsFinite DEF HttpInv
  <2>3. bodies' = Charges(ring) - e.charge BY <1>2, <1>3, <2>2
  <2> QED BY <1>10, <2>1, <2>2, <2>3
<1>15. HttpTyped'
  <2>1. Marks' = Marks BY <1>2, MarksSame
  <2> QED BY <1>0, <1>2, <1>10, <2>1 DEF HttpTyped
<1>16. MarkInv' BY <1>2 DEF HttpInv, StreamInv, MarkInv
<1> QED BY <1>12, <1>13, <1>14, <1>15, <1>16 DEF HttpInv, StreamInv, RingInv

(* A running handler claims the connection in its record.                  *)
LEMMA ClaimStep ==
  ASSUME HttpInv, NEW i \in DOMAIN ring, NEW kind \in {"upgrade", "stream"}, Claim(i, kind)
  PROVE  HttpInv'
<1>0. HttpTyped /\ ring \in Seq(Entries) BY DEF HttpInv, HttpTyped
<1>1. /\ i \in 1..Len(ring) /\ ring[i] \in Entries /\ Len(ring) \in Nat
  BY <1>0, EntriesFacts
<1>2. /\ pc = "wait" /\ pc' = "wait" /\ ring[i].stage = "running"
      /\ kind = "upgrade" => ring[i].upgrade
      /\ ring' = [ring EXCEPT ![i] = [ring[i] EXCEPT !.claiming = kind]]
      /\ claims' = [claims EXCEPT ![ring[i].r] = "claimed"]
      /\ UNCHANGED <<asked, wire, interim, requests, bodies, taking, taken, writing>>
      /\ UNCHANGED <<close, head_since, want, aborted, sent, got, parsed>>
  BY <1>0, <1>1 DEF Claim, peerVars, inputVars, closeVars, takeVars, wireVars
<1>3. PICK e \in Entries : e = ring[i] BY <1>1
<1>4. PICK f : f = [e EXCEPT !.claiming = kind] OBVIOUS
<1>5. /\ f \in Entries /\ f.r = e.r /\ f.stage = e.stage /\ f.safe = e.safe /\ f.upgrade = e.upgrade
      /\ f.cont = e.cont /\ f.bytes = e.bytes /\ f.charge = e.charge /\ f.claim = e.claim
      /\ f.close = e.close /\ f.says = e.says /\ f.left = e.left
      /\ f.claiming = kind /\ f.stray = e.stray
  BY <1>4 DEF Entries, ClaimOf
<1>6. EntryEvolves(e, e)
  BY <1>0, <1>1, <1>3, EvolvesSame DEF HttpInv, RingInv, ContinueInv, SettleInv
<1>7. EntryEvolves(ring[i], f) BY <1>2, <1>3, <1>5, <1>6 DEF EntryEvolves, Ends
<1>8. Ends(f) => Ends(ring[i]) BY <1>3, <1>5 DEF Ends
<1>9. ring' = [ring EXCEPT ![i] = f] BY <1>2, <1>3, <1>4
<1>10. /\ RingEvolves /\ ring' \in Seq(Entries) /\ Len(ring') = Len(ring)
       /\ ring'[i] = f /\ \A k \in 1..Len(ring) : k # i => ring'[k] = ring[k]
       /\ Charges(ring') = Charges(ring) - Weight(ring[i]) + Weight(f)
  BY <1>1, <1>2, <1>5, <1>7, <1>8, <1>9, OneEvolves
<1>11. \A k \in 1..Len(ring) : /\ ring'[k].stage = ring[k].stage /\ ring'[k].left = ring[k].left
                               /\ ring'[k].claim = ring[k].claim
  BY <1>3, <1>5, <1>10
<1>12. /\ BodyInv' /\ HeadInv' /\ OrderInv' /\ StageInv' /\ UpgradeInv' /\ WritingInv'
  BY <1>2, <1>10, <1>11, InPlace
<1>13. ContinueInv' /\ SettleInv' BY <1>2, <1>10, <1>11, InPlaceKeeps
<1>14. bodies' = Charges(ring')
  <2>1. Weight(ring[i]) = Weight(f) /\ Weight(f) \in Nat BY <1>3, <1>5 DEF Weight, Entries
  <2>2. bodies = Charges(ring) /\ Charges(ring) \in Nat BY <1>0, OctetsFinite DEF HttpInv
  <2> QED BY <1>2, <1>10, <2>1, <2>2
<1>15. HttpTyped'
  <2>1. Marks' = Marks BY <1>2, MarksSame
  <2>2. claims' \in [Request -> ClaimStates] BY <1>0, <1>2 DEF HttpTyped, ClaimStates
  <2> QED BY <1>0, <1>2, <1>10, <2>1, <2>2 DEF HttpTyped
<1>16. MarkInv' BY <1>2 DEF HttpInv, StreamInv, MarkInv
<1> QED BY <1>12, <1>13, <1>14, <1>15, <1>16 DEF HttpInv, StreamInv, RingInv

(* Framing that is incomplete takes back the 100 and waits for more.       *)
LEMMA FeedStalledStep == ASSUME HttpInv, FeedStalled PROVE HttpInv'
<1>0. HttpTyped /\ ring \in Seq(Entries) BY DEF HttpInv, HttpTyped
<1>1. /\ Len(ring) \in 1..Len(ring) /\ Len(ring) \in Nat /\ ring # <<>>
      /\ \A j \in 1..Len(ring) : ring[j] \in Entries /\ Weight(ring[j]) \in Nat
  BY <1>0, EntriesFacts DEF FeedStalled, Feeding, BodyPending
<1>2. /\ pc = "input" /\ pc' = "start"
      /\ ring' = [ring EXCEPT ![Len(ring)] = [ring[Len(ring)] EXCEPT !.cont = FALSE]]
      /\ UNCHANGED <<asked, wire, interim, requests, claims, taking, taken, writing, bodies>>
      /\ UNCHANGED <<close, head_since, want, aborted, sent, got, parsed>>
  BY <1>0, <1>1 DEF FeedStalled, Feeding, inputFrame, peerVars, takeVars, wireVars
<1> DEFINE i == Len(ring)
<1>3. PICK e \in Entries : e = ring[i] BY <1>1
<1>4. PICK f : f = [e EXCEPT !.cont = FALSE] OBVIOUS
<1>5. /\ f \in Entries /\ f.r = e.r /\ f.stage = e.stage /\ f.safe = e.safe /\ f.upgrade = e.upgrade
      /\ f.cont = FALSE /\ f.bytes = e.bytes /\ f.charge = e.charge /\ f.claim = e.claim
      /\ f.close = e.close /\ f.says = e.says /\ f.left = e.left
      /\ f.claiming = e.claiming /\ f.stray = e.stray
  BY <1>4 DEF Entries
<1>6. EntryEvolves(e, e)
  BY <1>0, <1>1, <1>3, EvolvesSame DEF HttpInv, RingInv, ContinueInv, SettleInv
<1>7. EntryEvolves(ring[i], f) BY <1>3, <1>5, <1>6 DEF EntryEvolves, Ends
<1>8. Ends(f) => Ends(ring[i]) BY <1>3, <1>5 DEF Ends
<1>9. ring' = [ring EXCEPT ![i] = f] BY <1>2, <1>3, <1>4
<1>10. /\ RingEvolves /\ ring' \in Seq(Entries) /\ Len(ring') = Len(ring)
       /\ ring'[i] = f /\ \A k \in 1..Len(ring) : k # i => ring'[k] = ring[k]
       /\ Charges(ring') = Charges(ring) - Weight(ring[i]) + Weight(f)
  BY <1>1, <1>2, <1>5, <1>7, <1>8, <1>9, OneEvolves
<1>11. \A k \in 1..Len(ring) : /\ ring'[k].stage = ring[k].stage /\ ring'[k].left = ring[k].left
                               /\ ring'[k].claim = ring[k].claim
  BY <1>3, <1>5, <1>10
<1>12. /\ BodyInv' /\ HeadInv' /\ OrderInv' /\ StageInv' /\ UpgradeInv' /\ WritingInv'
  BY <1>2, <1>10, <1>11, InPlace
<1>13. ContinueInv' /\ SettleInv' BY <1>2, <1>10, <1>11, InPlaceKeeps
<1>14. bodies' = Charges(ring')
  <2>1. Weight(ring[i]) = Weight(f) /\ Weight(f) \in Nat BY <1>3, <1>5 DEF Weight, Entries
  <2>2. bodies = Charges(ring) /\ Charges(ring) \in Nat BY <1>0, OctetsFinite DEF HttpInv
  <2> QED BY <1>2, <1>10, <2>1, <2>2
<1>15. HttpTyped'
  <2>1. Marks' = Marks BY <1>2, MarksSame
  <2> QED BY <1>0, <1>2, <1>10, <2>1 DEF HttpTyped
<1>16. MarkInv' BY <1>2 DEF HttpInv, StreamInv, MarkInv
<1> QED BY <1>12, <1>13, <1>14, <1>15, <1>16 DEF HttpInv, StreamInv, RingInv

(* A claim decides what the head says.                                     *)
LEMMA SaysFacts ==
  ASSUME NEW flag \in BOOLEAN
  PROVE  /\ Says("upgrade", flag) = FALSE /\ Says("stream", flag) = TRUE /\ Says("none", flag) = flag
         /\ \A c \in ClaimOf : Says(c, flag) \in BOOLEAN
BY DEF Says, ClaimOf

(* mark_close changes what the last response says, and nothing else.       *)
LEMMA MarkedFacts ==
  ASSUME NEW s \in Seq(Entries)
  PROVE  /\ Marked(s) \in Seq(Entries) /\ Len(Marked(s)) = Len(s)
         /\ \A i \in 1..Len(s) :
              /\ Marked(s)[i].r = s[i].r /\ Marked(s)[i].stage = s[i].stage
              /\ Marked(s)[i].safe = s[i].safe /\ Marked(s)[i].upgrade = s[i].upgrade
              /\ Marked(s)[i].left = s[i].left /\ Marked(s)[i].cont = s[i].cont
              /\ Marked(s)[i].claiming = s[i].claiming
              /\ Marked(s)[i].claim = s[i].claim /\ Marked(s)[i].close = s[i].close
              /\ Weight(Marked(s)[i]) = Weight(s[i])
              /\ \/ Marked(s)[i].says = s[i].says /\ Marked(s)[i].stray = s[i].stray
                 \/ /\ i = Len(s) /\ s[i].stage = "done" /\ ~Marked(s)[i].stray
                    /\ Marked(s)[i].says = Says(s[i].claim, TRUE)
<1>1. Len(s) \in Nat /\ (s # <<>> => Len(s) \in 1..Len(s)) /\ \A i \in 1..Len(s) : s[i] \in Entries
  BY EntriesFacts
<1>2. CASE ~(s # <<>> /\ Len(s) > writing.count /\ Last(s).stage = "done")
  <2>1. Marked(s) = s BY <1>2 DEF Marked
  <2> QED BY <2>1
<1>3. CASE s # <<>> /\ Len(s) > writing.count /\ Last(s).stage = "done"
  <2>1. PICK n \in 1..Len(s) : n = Len(s) BY <1>1, <1>3
  <2>2. PICK e \in Entries : e = s[n] BY <1>1
  <2>3. e = Last(s) /\ e.stage = "done" BY <1>3, <2>1, <2>2 DEF Last
  <2>4. Says(e.claim, TRUE) \in BOOLEAN BY SaysFacts DEF Entries
  <2>5. PICK f : f = [e EXCEPT !.says = Says(e.claim, TRUE), !.stray = FALSE] OBVIOUS
  <2>6. /\ f \in Entries /\ f.r = e.r /\ f.stage = e.stage /\ f.safe = e.safe /\ f.upgrade = e.upgrade
        /\ f.cont = e.cont /\ f.bytes = e.bytes /\ f.charge = e.charge /\ f.claim = e.claim
        /\ f.close = e.close /\ f.left = e.left /\ f.says = Says(e.claim, TRUE)
        /\ f.claiming = e.claiming /\ ~f.stray
    BY <2>4, <2>5 DEF Entries
  <2>7. Marked(s) = [s EXCEPT ![n] = f]
    <3>1. Marked(s) = [s EXCEPT ![n].says = Says(e.claim, TRUE), ![n].stray = FALSE]
      BY <1>3, <2>1, <2>3 DEF Marked
    <3>2. [s EXCEPT ![n].says = Says(e.claim, TRUE), ![n].stray = FALSE]
            = [s EXCEPT ![n] = [s[n] EXCEPT !.says = Says(e.claim, TRUE), !.stray = FALSE]]
      OBVIOUS
    <3> QED BY <2>2, <2>5, <3>1, <3>2
  <2>8. PICK t : t = [s EXCEPT ![n] = f] OBVIOUS
  <2>9. /\ t \in Seq(Entries) /\ Len(t) = Len(s)
        /\ \A j \in 1..Len(s) : t[j] = IF j = n THEN f ELSE s[j]
    BY <2>6, <2>8, ExceptSeq
  <2>10. Weight(f) = Weight(e) BY <2>6 DEF Weight
  <2>11. Marked(s) = t BY <2>7, <2>8
  <2>12. ASSUME NEW i \in 1..Len(s)
         PROVE  /\ t[i].r = s[i].r /\ t[i].stage = s[i].stage
                /\ t[i].safe = s[i].safe /\ t[i].upgrade = s[i].upgrade
                /\ t[i].left = s[i].left /\ t[i].cont = s[i].cont
                /\ t[i].claim = s[i].claim /\ t[i].close = s[i].close
                /\ t[i].claiming = s[i].claiming /\ Weight(t[i]) = Weight(s[i])
                /\ \/ t[i].says = s[i].says /\ t[i].stray = s[i].stray
                   \/ /\ i = Len(s) /\ s[i].stage = "done" /\ ~t[i].stray
                      /\ t[i].says = Says(s[i].claim, TRUE)
    <3>1. CASE i = n BY <2>1, <2>2, <2>3, <2>6, <2>9, <2>10, <3>1
    <3>2. CASE i # n BY <2>9, <3>2
    <3> QED BY <3>1, <3>2
  <2> HIDE DEF Weight
  <2> QED BY <2>9, <2>11, <2>12
<1> QED BY <1>2, <1>3

(* An entry marked to close evolves, and ends the connection if it did not *)
(* before.                                                                 *)
LEMMA MarkedEvolves ==
  ASSUME HttpInv, NEW n \in 0..Len(ring), NEW s \in Seq(Entries), Len(s) = n,
         \A i \in 1..n : s[i] = ring[i], NEW i \in 1..n
  PROVE  /\ EntryEvolves(ring[i], Marked(s)[i])
         /\ Ends(Marked(s)[i]) => Ends(ring[i]) \/ i = n
<1>1. HttpTyped /\ ring \in Seq(Entries) BY DEF HttpInv, HttpTyped
<1>2. i \in 1..Len(ring) BY <1>1, RingFacts
<1>3. PICK e : e = ring[i] OBVIOUS
<1>4. PICK f : f = Marked(s)[i] OBVIOUS
<1>5. /\ e.claim \in ClaimOf /\ s[i] = e BY <1>1, <1>2, <1>3, RingFacts
<1>6. /\ f.r = e.r /\ f.stage = e.stage /\ f.safe = e.safe /\ f.upgrade = e.upgrade
      /\ f.cont = e.cont /\ f.claim = e.claim /\ f.close = e.close /\ f.claiming = e.claiming
      /\ \/ f.says = e.says /\ f.stray = e.stray
         \/ i = n /\ e.stage = "done" /\ f.says = Says(e.claim, TRUE) /\ ~f.stray
  BY <1>4, <1>5, MarkedFacts
<1>7. EntryEvolves(e, e)
  BY <1>1, <1>2, <1>3, EvolvesSame DEF HttpInv, RingInv, ContinueInv, SettleInv
<1>8. EntryEvolves(e, f)
  <2>1. CASE f.says = e.says /\ f.stray = e.stray BY <1>6, <1>7, <2>1 DEF EntryEvolves, Ends
  <2>2. CASE e.stage = "done" /\ f.says = Says(e.claim, TRUE) /\ ~f.stray
    <3>1. e.claim = "none" => f.says BY <2>2, SaysFacts
    <3>2. e.claim = "stream" => f.says BY <2>2, SaysFacts
    <3>3. e.claim \in {"none", "stream", "upgrade"} BY <1>5 DEF ClaimOf
    <3> QED BY <1>6, <1>7, <2>2, <3>1, <3>2, <3>3 DEF EntryEvolves, Ends
  <2> QED BY <1>6, <2>1, <2>2
<1>9. Ends(f) => Ends(e) \/ i = n BY <1>6 DEF Ends
<1> QED BY <1>3, <1>4, <1>8, <1>9

(* The shutdown is seen: the connection closes, the last response says so. *)
LEMMA SeeShutdownStep == ASSUME HttpInv, SeeShutdown PROVE HttpInv'
<1>0. HttpTyped /\ ring \in Seq(Entries) BY DEF HttpInv, HttpTyped
<1>1. Len(ring) \in Nat /\ Len(ring) \in 0..Len(ring) BY <1>0, EntriesFacts
<1>2. /\ pc = "wait" /\ pc' = "expire" /\ ring' = Marked(ring) /\ close' = TRUE
      /\ UNCHANGED <<asked, wire, interim, requests, claims, taking, taken, writing, bodies>>
      /\ UNCHANGED <<head_since, want, aborted, sent, got, parsed>>
  BY DEF SeeShutdown, Woken, peerVars, inputVars, takeVars, wireVars
<1>3. PICK t : t = Marked(ring) OBVIOUS
<1>4. /\ t \in Seq(Entries) /\ Len(t) = Len(ring)
      /\ \A i \in 1..Len(ring) : /\ t[i].stage = ring[i].stage /\ t[i].left = ring[i].left
                                 /\ t[i].claim = ring[i].claim /\ Weight(t[i]) = Weight(ring[i])
  BY <1>0, <1>3, MarkedFacts
<1>5. \A i \in 1..Len(ring) : /\ EntryEvolves(ring[i], t[i])
                              /\ Ends(t[i]) => Ends(ring[i]) \/ i = Len(ring)
  BY <1>0, <1>1, <1>3, MarkedEvolves
<1>6. ring' = t BY <1>2, <1>3
<1>7. RingEvolves
  <2>1. Len(ring') = Len(ring) BY <1>4, <1>6
  <2>2. Len(ring') <= Len(ring) /\ ~(Len(ring') < Len(ring)) BY <1>1, <2>1
  <2> QED BY <1>2, <1>4, <1>5, <1>6, <2>1, <2>2 DEF RingEvolves
<1>8. /\ ring' \in Seq(Entries) /\ Len(ring') = Len(ring)
      /\ \A i \in 1..Len(ring) : /\ ring'[i].stage = ring[i].stage /\ ring'[i].left = ring[i].left
                                 /\ ring'[i].claim = ring[i].claim
  BY <1>4, <1>6
<1>9. BodyInv' /\ HeadInv' /\ OrderInv' /\ StageInv' /\ UpgradeInv' /\ WritingInv'
  BY <1>2, <1>7, <1>8, InPlace
<1>10. ContinueInv' /\ SettleInv' BY <1>2, <1>7, <1>8, InPlaceKeeps
<1>11. bodies' = Charges(ring')
  <2>1. Charges(ring) = Charges(t) BY <1>0, <1>4, ChargesSame
  <2> QED BY <1>2, <1>6, <2>1 DEF HttpInv
<1>12. HttpTyped'
  <2>1. Marks' = Marks BY <1>2, MarksSame
  <2> QED BY <1>0, <1>2, <1>8, <2>1 DEF HttpTyped
<1>13. MarkInv' BY <1>2 DEF HttpInv, StreamInv, MarkInv
<1> QED BY <1>9, <1>10, <1>11, <1>12, <1>13 DEF HttpInv, StreamInv, RingInv

(* Handlers start; a body's charge moves into the handler's record.        *)
LEMMA StartStep == ASSUME HttpInv, StartRunnable PROVE HttpInv'
<1>0. HttpTyped /\ ring \in Seq(Entries) BY DEF HttpInv, HttpTyped
<1>1. /\ Len(ring) \in Nat /\ DOMAIN ring = 1..Len(ring)
      /\ \A i \in 1..Len(ring) : ring[i] \in Entries
  BY <1>0, EntriesFacts
<1> DEFINE Started(i) == [ring[i] EXCEPT !.stage = "running", !.charge = @ + ring[i].bytes, !.bytes = 0]
           New(i) == IF Runnable(i) THEN Started(i) ELSE ring[i]
<1>2. /\ pc = "start" /\ pc' = "plan" /\ ring' = [i \in DOMAIN ring |-> New(i)]
      /\ UNCHANGED <<asked, wire, interim, requests, claims, taking, taken, writing, bodies>>
      /\ UNCHANGED <<close, head_since, want, aborted, sent, got, parsed>>
  BY DEF StartRunnable, peerVars, inputVars, closeVars, takeVars, wireVars
<1>3. ASSUME NEW i \in 1..Len(ring)
      PROVE  /\ New(i) \in Entries
             /\ New(i).r = ring[i].r /\ New(i).safe = ring[i].safe /\ New(i).upgrade = ring[i].upgrade
             /\ New(i).left = ring[i].left /\ New(i).cont = ring[i].cont
             /\ New(i).claim = ring[i].claim /\ New(i).close = ring[i].close
             /\ New(i).claiming = ring[i].claiming /\ New(i).stray = ring[i].stray
             /\ New(i).says = ring[i].says /\ Weight(New(i)) = Weight(ring[i])
             /\ \/ New(i).stage = ring[i].stage
                \/ New(i).stage = "running" /\ ring[i].stage = "waiting" /\ Runnable(i)
  <2>1. PICK e \in Entries : e = ring[i] BY <1>1
  <2>2. e.bytes \in Nat /\ e.charge \in Nat /\ e.charge + e.bytes = e.bytes + e.charge
    BY DEF Entries
  <2>3. PICK f : f = [e EXCEPT !.stage = "running", !.charge = e.charge + e.bytes, !.bytes = 0]
    OBVIOUS
  <2>4. /\ f \in Entries /\ f.r = e.r /\ f.stage = "running" /\ f.safe = e.safe /\ f.upgrade = e.upgrade
        /\ f.cont = e.cont /\ f.bytes = 0 /\ f.charge = e.charge + e.bytes /\ f.claim = e.claim
        /\ f.close = e.close /\ f.left = e.left /\ f.says = e.says
        /\ f.claiming = e.claiming /\ f.stray = e.stray
    <3>1. PICK n \in Nat : n = e.charge + e.bytes BY <2>2
    <3>2. f = [e EXCEPT !.stage = "running", !.charge = n, !.bytes = 0] BY <2>3, <3>1
    <3>3. "running" \in Stages /\ 0 \in Nat BY DEF Stages
    <3>4. f \in Entries BY <3>2, <3>3 DEF Entries
    <3>5. /\ f.r = e.r /\ f.stage = "running" /\ f.safe = e.safe /\ f.upgrade = e.upgrade
          /\ f.cont = e.cont /\ f.bytes = 0 /\ f.charge = n /\ f.claim = e.claim
          /\ f.close = e.close /\ f.left = e.left /\ f.says = e.says
          /\ f.claiming = e.claiming /\ f.stray = e.stray
      BY <3>2 DEF Entries
    <3> QED BY <3>1, <3>4, <3>5
  <2>5. Weight(f) = Weight(e) BY <2>2, <2>4 DEF Weight
  <2>6. Started(i) = f BY <2>1, <2>3
  <2>7. Runnable(i) => ring[i].stage = "waiting" BY DEF Runnable
  <2>8. CASE Runnable(i)
    <3>1. New(i) = f BY <2>6, <2>8
    <3> HIDE DEF New, Started
    <3> QED BY <2>1, <2>4, <2>5, <2>7, <2>8, <3>1
  <2>9. CASE ~Runnable(i)
    <3>1. New(i) = ring[i] BY <2>9
    <3> HIDE DEF New, Started
    <3> QED BY <1>1, <3>1
  <2> QED BY <2>8, <2>9
<1> HIDE DEF New
<1>4. /\ ring' \in Seq(Entries) /\ Len(ring') = Len(ring) /\ \A i \in 1..Len(ring) : ring'[i] = New(i)
  <2>1. ring' \in [1..Len(ring) -> Entries] BY <1>1, <1>2, <1>3
  <2>2. ring' \in Seq(Entries) BY <1>1, <2>1, SeqDef
  <2>3. DOMAIN ring' = 1..Len(ring) BY <2>1
  <2>4. Len(ring') = Len(ring) BY <1>1, <2>2, <2>3, LenProperties
  <2> QED BY <1>1, <1>2, <2>2, <2>4
<1>5. \A i \in 1..Len(ring) : EntryEvolves(ring[i], ring[i])
  BY <1>0, EvolvesSame DEF HttpInv, RingInv, ContinueInv, SettleInv
<1>6. ASSUME NEW i \in 1..Len(ring)
      PROVE  /\ EntryEvolves(ring[i], ring'[i]) /\ (Ends(ring'[i]) => Ends(ring[i]))
             /\ (ring'[i].stage = "body") = (ring[i].stage = "body")
             /\ ring'[i].left = ring[i].left /\ ring'[i].claim = ring[i].claim
             /\ Weight(ring[i]) = Weight(ring'[i])
             /\ (ring'[i].stage = "running" /\ i > 1) =>
                   ring[i].stage = "running" \/ (\A j \in 1..i : ring[j].safe)
  <2>1. PICK e : e = ring[i] OBVIOUS
  <2>2. PICK f : f = ring'[i] OBVIOUS
  <2>3. /\ f.r = e.r /\ f.safe = e.safe /\ f.upgrade = e.upgrade
        /\ f.left = e.left /\ f.cont = e.cont /\ f.claim = e.claim /\ f.close = e.close
        /\ f.claiming = e.claiming /\ f.stray = e.stray
        /\ f.says = e.says /\ Weight(f) = Weight(e)
        /\ \/ f.stage = e.stage
           \/ f.stage = "running" /\ e.stage = "waiting" /\ Runnable(i)
    BY <1>3, <1>4, <2>1, <2>2
  <2>4. EntryEvolves(e, e) BY <1>5, <2>1
  <2>5. EntryEvolves(e, f) BY <2>3, <2>4 DEF EntryEvolves, Ends
  <2>6. Ends(f) => Ends(e) BY <2>3 DEF Ends
  <2>7. Runnable(i) /\ i > 1 => \A j \in 1..i : ring[j].safe BY DEF Runnable
  <2> QED BY <2>1, <2>2, <2>3, <2>5, <2>6, <2>7
<1>7. RingEvolves
  <2>1. Len(ring') <= Len(ring) /\ ~(Len(ring') < Len(ring)) BY <1>1, <1>4
  <2> QED BY <1>2, <1>4, <1>6, <2>1 DEF RingEvolves
<1>8. BodyInv' /\ HeadInv' /\ OrderInv' /\ StageInv' /\ UpgradeInv' /\ WritingInv'
  BY <1>2, <1>4, <1>6, <1>7, InPlace
<1>9. ContinueInv' /\ SettleInv' BY <1>2, <1>4, <1>6, <1>7, InPlaceKeeps
<1>10. bodies' = Charges(ring')
  <2>1. PICK t \in Seq(Entries) : t = ring' BY <1>4
  <2>2. Charges(ring) = Charges(t) BY <1>0, <1>4, <1>6, <2>1, ChargesSame
  <2> QED BY <1>2, <2>1, <2>2 DEF HttpInv
<1>11. HttpTyped'
  <2>1. Marks' = Marks BY <1>2, MarksSame
  <2> QED BY <1>0, <1>2, <1>4, <2>1 DEF HttpTyped
<1>12. MarkInv' BY <1>2 DEF HttpInv, StreamInv, MarkInv
<1> QED BY <1>8, <1>9, <1>10, <1>11, <1>12 DEF HttpInv, StreamInv, RingInv

-----------------------------------------------------------------------------
(* Where the parser is in a pending body.                                  *)
LEMMA FeedingFacts ==
  ASSUME HttpInv, Feeding
  PROVE  /\ pc = "input" /\ Len(ring) \in 1..Len(ring) /\ Len(ring) \in Nat /\ ring # <<>>
         /\ ring[Len(ring)] \in Entries /\ Last(ring) = ring[Len(ring)]
         /\ ring[Len(ring)].stage = "body" /\ ring[Len(ring)].r = requests
         /\ requests \in DOMAIN asked /\ requests \in Nat /\ ~head_since
         /\ Framing = asked[requests].body
         /\ Len(BodyPieces(Framing)) \in Nat /\ Len(Pieces(requests)) = 2 + Len(BodyPieces(Framing))
         /\ ring[Len(ring)].left \in 1..Len(BodyPieces(Framing))
         /\ parsed = <<requests, Len(Pieces(requests)) + 1 - ring[Len(ring)].left>>
         /\ Piece = BodyPieces(Framing)[Len(BodyPieces(Framing)) + 1 - ring[Len(ring)].left]
         /\ Precedes(parsed, got) /\ parsed[1] <= Len(asked)
<1> DEFINE n == Len(ring)
           b == Len(BodyPieces(Framing))
<1>1. HttpTyped /\ ring \in Seq(Entries) /\ requests \in Nat BY DEF HttpInv, HttpTyped
<1>2. n \in 1..n /\ n \in Nat /\ ring # <<>> /\ ring[n] \in Entries
  BY <1>1, RingFacts DEF Feeding, BodyPending
<1>3. Last(ring) = ring[n] BY DEF Last
<1>4. /\ ring[n].r = requests /\ requests \in DOMAIN asked /\ ring[n].stage = "body"
      /\ ring[n].left \in 1..b
      /\ parsed = <<requests, Len(Pieces(requests)) + 1 - ring[n].left>>
      /\ ~head_since
  BY <1>3 DEF HttpInv, StreamInv, BodyInv, HeadInv, Feeding, BodyPending
<1>5. Framing = asked[requests].body BY <1>3, <1>4 DEF Framing
<1>6. /\ b \in Nat /\ Len(Pieces(requests)) = 2 + b
      /\ \A k \in 1..b : Pieces(requests)[2 + k] = BodyPieces(Framing)[k]
  BY <1>4, <1>5, StreamFacts, PieceFacts
<1>7. Piece = BodyPieces(Framing)[b + 1 - ring[n].left]
  <2> HIDE DEF b, n
  <2>1. PICK l \in 1..b : l = ring[n].left BY <1>4
  <2>2. b + 1 - l \in 1..b /\ 2 + (b + 1 - l) = 2 + b + 1 - l BY <1>6
  <2>3. parsed[1] = requests /\ parsed[2] = 2 + b + 1 - l BY <1>4, <1>6, <2>1
  <2> QED BY <1>6, <2>1, <2>2, <2>3 DEF Piece
<1>8. Precedes(parsed, got) /\ parsed[1] <= Len(asked)
  BY StreamFacts, MarkOrder DEF Feeding, NoInput
<1>9. pc = "input" BY DEF Feeding
<1> QED BY <1>1, <1>2, <1>3, <1>4, <1>5, <1>6, <1>7, <1>8, <1>9

(* feed_body consumed some pieces of the body and left the rest to come.   *)
LEMMA FedStep ==
  ASSUME HttpInv, Feeding, NEW n \in Nat, NEW left \in Nat, left < ring[Len(ring)].left, Fed(n, left),
         inputFrame, parsed' \in Marks, ~Precedes(got, parsed'),
         parsed' = IF left = 0 THEN <<requests + 1, 1>>
                               ELSE <<requests, Len(Pieces(requests)) + 1 - left>>
  PROVE  HttpInv'
<1>0. HttpTyped /\ ring \in Seq(Entries) BY DEF HttpInv, HttpTyped
<1> DEFINE i == Len(ring)
<1>1. /\ i \in 1..Len(ring) /\ i \in Nat /\ ring # <<>> /\ ring[i] \in Entries
      /\ ring[i].stage = "body" /\ ring[i].r = requests /\ requests \in DOMAIN asked /\ ~head_since
      /\ Framing = asked[requests].body /\ Len(BodyPieces(Framing)) \in Nat
      /\ ring[i].left \in 1..Len(BodyPieces(Framing)) /\ Last(ring) = ring[i]
  BY FeedingFacts
<1>2. PICK stage : stage = IF left = 0 THEN "waiting" ELSE "body" OBVIOUS
<1>3. PICK e \in Entries : e = ring[i] BY <1>1
<1>4. PICK f : f = [e EXCEPT !.bytes = e.bytes + n, !.left = left, !.cont = FALSE, !.stage = stage]
  OBVIOUS
<1>5. /\ pc = "input" /\ pc' = "input" /\ ring' = [ring EXCEPT ![i] = f] /\ bodies' = bodies + n
      /\ UNCHANGED <<asked, wire, interim, requests, claims, taking, taken, writing>>
      /\ UNCHANGED <<close, head_since, want, aborted, sent, got>>
  BY <1>1, <1>2, <1>3, <1>4 DEF Fed, Feeding, inputFrame, peerVars, takeVars, wireVars
<1>6. /\ f \in Entries /\ f.r = e.r /\ f.stage = stage /\ f.safe = e.safe /\ f.upgrade = e.upgrade
      /\ f.cont = FALSE /\ f.bytes = e.bytes + n /\ f.charge = e.charge /\ f.claim = e.claim
      /\ f.close = e.close /\ f.says = e.says /\ f.left = left
      /\ f.claiming = e.claiming /\ f.stray = e.stray
  <2>1. e.bytes \in Nat BY DEF Entries
  <2>2. PICK m \in Nat : m = e.bytes + n BY <2>1
  <2>3. stage \in Stages BY <1>2 DEF Stages
  <2>4. f = [e EXCEPT !.bytes = m, !.left = left, !.cont = FALSE, !.stage = stage] BY <1>4, <2>2
  <2>5. f \in Entries BY <2>3, <2>4 DEF Entries
  <2>6. /\ f.r = e.r /\ f.stage = stage /\ f.safe = e.safe /\ f.upgrade = e.upgrade
        /\ f.cont = FALSE /\ f.bytes = m /\ f.charge = e.charge /\ f.claim = e.claim
        /\ f.close = e.close /\ f.says = e.says /\ f.left = left
        /\ f.claiming = e.claiming /\ f.stray = e.stray
    BY <2>4 DEF Entries
  <2> QED BY <2>2, <2>5, <2>6
<1>7. /\ e.claim = "none" /\ ~e.says /\ ~e.close
      /\ e.claiming = "upgrade" => e.upgrade
  BY <1>0, <1>1, <1>3, RingFacts DEF HttpInv, RingInv, StageInv, SettleInv, TakingInv
<1>8. EntryEvolves(ring[i], f)
  <2>1. e.stage = "body" BY <1>1, <1>3
  <2> QED BY <1>2, <1>3, <1>6, <1>7, <2>1 DEF EntryEvolves
<1>9. Ends(f) => Ends(ring[i]) BY <1>3, <1>6 DEF Ends
<1>10. /\ RingEvolves /\ ring' \in Seq(Entries) /\ Len(ring') = Len(ring)
       /\ ring'[i] = f /\ \A k \in 1..Len(ring) : k # i => ring'[k] = ring[k]
       /\ Charges(ring') = Charges(ring) - Weight(ring[i]) + Weight(f)
  BY <1>1, <1>5, <1>6, <1>8, <1>9, OneEvolves
<1>11. OrderInv' BY <1>0, <1>10, EvolveOrder DEF HttpInv, RingInv
<1>12. StageInv'
  <2>1. \A k \in 1..Len(ring') : (ring'[k].stage = "running" /\ k > 1) => ring[k].stage = "running"
    BY <1>2, <1>6, <1>10
  <2> QED BY <1>0, <1>10, <2>1, EvolveStages DEF HttpInv, RingInv
<1>13. ContinueInv' /\ SettleInv'
  <2>1. \A k \in 1..Len(ring) : ring'[k].claim = ring[k].claim BY <1>3, <1>6, <1>10
  <2> QED BY <1>1, <1>5, <1>10, <2>1, InPlaceKeeps
<1>14. ring' # <<>> /\ Last(ring') = f BY <1>1, <1>10, EntriesFacts DEF Last
<1>15. BodyPending' <=> left # 0 BY <1>2, <1>6, <1>14 DEF BodyPending
<1>16. BodyInv'
  <2>1. Framing' = Framing BY <1>1, <1>3, <1>5, <1>6, <1>14 DEF Framing
  <2>2. left # 0 => left \in 1..Len(BodyPieces(Framing)) BY <1>1
  <2>3. Pieces(requests)' = Pieces(requests) BY <1>5 DEF Pieces
  <2> QED BY <1>1, <1>3, <1>5, <1>6, <1>14, <1>15, <2>1, <2>2, <2>3 DEF BodyInv
<1>17. HeadInv' BY <1>1, <1>5, <1>15 DEF HeadInv
<1>18. UpgradeInv'
  <2>1. Len(ring) \in Nat /\ DOMAIN ring = 1..Len(ring) /\ DOMAIN ring' = 1..Len(ring)
    BY <1>0, <1>10, EntriesFacts
  <2>2. ASSUME NEW k \in 1..Len(ring), ring'[k].upgrade
        PROVE  /\ k = Len(ring) /\ ~head_since'
               /\ ring'[k].stage # "body" => parsed' = <<ring'[k].r + 1, 1>>
    <3>1. ring[k].upgrade BY <1>3, <1>6, <1>10, <2>2
    <3>2. k = i BY <2>1, <3>1 DEF HttpInv, RingInv, UpgradeInv
    <3>3. ring'[k].stage # "body" => left = 0 BY <1>2, <1>6, <1>10, <3>2
    <3>4. ring'[k].r = requests BY <1>1, <1>3, <1>6, <1>10, <3>2
    <3> QED BY <1>1, <1>5, <3>2, <3>3, <3>4
  <2> QED BY <1>5, <1>10, <2>1, <2>2 DEF UpgradeInv
<1>19. WritingInv'
  <2>1. writing.count \in Nat /\ writing.count <= Len(ring) /\ pc # "closed"
    BY <1>0, <1>5 DEF HttpTyped, HttpInv, RingInv, WritingInv
  <2>2. \A k \in 1..writing.count : k \in 1..Len(ring) /\ ring[k].stage = "done"
    BY <1>1, <2>1 DEF HttpInv, RingInv, WritingInv
  <2>3. \A k \in 1..writing.count : k # i BY <1>1, <2>2
  <2> QED BY <1>5, <1>10, <2>1, <2>2, <2>3 DEF WritingInv
<1>20. bodies' = Charges(ring')
  <2>1. Weight(ring[i]) = e.bytes + e.charge /\ Weight(f) = e.bytes + n + e.charge
        /\ e.bytes \in Nat /\ e.charge \in Nat
    BY <1>3, <1>6 DEF Weight, Entries
  <2>2. bodies = Charges(ring) /\ Charges(ring) \in Nat BY <1>0, OctetsFinite DEF HttpInv
  <2>3. PICK c \in Nat, b \in Nat, w \in Nat : c = Charges(ring) /\ b = e.bytes /\ w = e.charge
    BY <2>1, <2>2
  <2>4. Charges(ring') = c - (b + w) + (b + n + w) BY <1>10, <2>1, <2>3
  <2>5. c - (b + w) + (b + n + w) = c + n OBVIOUS
  <2>6. bodies' = c + n BY <1>5, <2>2, <2>3
  <2> QED BY <2>4, <2>5, <2>6
<1>21. HttpTyped'
  <2>1. Marks' = Marks BY <1>5, MarksSame
  <2> QED BY <1>0, <1>5, <1>10, <2>1 DEF HttpTyped
<1>22. MarkInv' BY <1>5 DEF HttpInv, StreamInv, MarkInv
<1> QED BY <1>11, <1>12, <1>13, <1>16, <1>17, <1>18, <1>19, <1>20, <1>21, <1>22
        DEF HttpInv, StreamInv, RingInv

(* An octet of a body of known length.                                     *)
LEMMA FeedLengthStep == ASSUME HttpInv, FeedLength PROVE HttpInv'
<1> DEFINE l == ring[Len(ring)].left
<1>1. Feeding /\ Framing = "length" /\ Fed(1, l - 1) /\ parsed' = After(parsed) /\ inputFrame
  BY FeedingFacts DEF FeedLength
<1>8. BodyPieces(Framing) = <<"octet", "octet">> BY <1>1, BodyLengths
<1>9. Len(BodyPieces(Framing)) = 2 BY <1>8
<1>2. Len(BodyPieces(Framing)) = 2 /\ Len(Pieces(requests)) = 4
  <2>1. Len(Pieces(requests)) = 2 + Len(BodyPieces(Framing)) BY <1>1, FeedingFacts
  <2> QED BY <1>9, <2>1
<1>3. l \in 1..2 /\ parsed = <<requests, 4 + 1 - l>> /\ requests \in Nat
  BY <1>1, <1>2, FeedingFacts
<1> HIDE DEF l
<1>4. parsed' = IF l - 1 = 0 THEN <<requests + 1, 1>> ELSE <<requests, 4 + 1 - (l - 1)>>
  <2>1. CASE l = 1
    <3>1. parsed[1] = requests /\ parsed[2] = 4 BY <1>3, <2>1
    <3>3. Len(Pieces(parsed[1])) = 4 /\ ~(parsed[2] < 4) BY <1>2, <3>1
    <3>2. After(parsed) = <<requests + 1, 1>> BY <3>1, <3>3 DEF After
    <3> QED BY <1>1, <2>1, <3>2
  <2>2. CASE l = 2
    <3>1. parsed[1] = requests /\ parsed[2] = 3 BY <1>3, <2>2
    <3>3. Len(Pieces(parsed[1])) = 4 /\ parsed[2] < 4 /\ parsed[2] + 1 = 4 BY <1>2, <3>1
    <3>2. After(parsed) = <<requests, 4>> BY <3>1, <3>3 DEF After
    <3> QED BY <1>1, <2>2, <3>2
  <2> QED BY <1>3, <2>1, <2>2
<1>5. parsed' \in Marks /\ ~Precedes(got, parsed') BY <1>1, FeedingFacts, StreamFacts, AfterMark
<1>6. l - 1 \in Nat /\ l - 1 < l BY <1>3
<1>7. l = ring[Len(ring)].left BY DEF l
<1> QED BY <1>1, <1>2, <1>4, <1>5, <1>6, <1>7, FedStep

(* A chunk with its data, or the last one.                                 *)
LEMMA FeedChunkStep == ASSUME HttpInv, FeedChunk PROVE HttpInv'
<1> DEFINE l == ring[Len(ring)].left
<1>1. Feeding /\ Framing = "chunked" /\ inputFrame BY DEF FeedChunk
<1>2. BodyPieces(Framing) = <<"line", "data", "last">> /\ Len(Pieces(requests)) = 5
  <2>1. BodyPieces(Framing) = <<"line", "data", "last">> BY <1>1, BodyLengths
  <2>2. Len(BodyPieces(Framing)) = 3 BY <2>1
  <2>3. Len(Pieces(requests)) = 2 + Len(BodyPieces(Framing)) BY <1>1, FeedingFacts
  <2> QED BY <2>1, <2>2, <2>3
<1>3. /\ l \in 1..3 /\ parsed = <<requests, 5 + 1 - l>> /\ requests \in Nat
      /\ Piece = <<"line", "data", "last">>[3 + 1 - l]
  BY <1>1, <1>2, FeedingFacts
<1> HIDE DEF l
<1>4. (Piece = "line" => l = 3) /\ (Piece = "last" => l = 1) BY <1>3
<1>5. After(parsed) \in Marks /\ ~Precedes(got, After(parsed))
  BY <1>1, FeedingFacts, StreamFacts, AfterMark
<1>6. l = ring[Len(ring)].left BY DEF l
<1>7. CASE Piece = "line" /\ MoreInput /\ Fed(1, 1) /\ parsed' = After(After(parsed))
  <2>1. parsed[1] = requests /\ parsed[2] = 3 BY <1>3, <1>4, <1>7
  <2>2. After(parsed) = <<requests, 4>> BY <1>2, <2>1 DEF After
  <2>3. After(After(parsed)) = <<requests, 5>> BY <1>2, <2>2 DEF After
  <2>4. PICK m \in Marks : m = After(parsed) BY <1>5
  <2>5. m # got BY <1>7, <2>4 DEF MoreInput
  <2>6. Precedes(m, got) /\ m[1] <= Len(asked) BY <1>5, <2>4, <2>5, StreamFacts, MarkOrder
  <2>7. After(m) \in Marks /\ ~Precedes(got, After(m)) BY <2>6, StreamFacts, AfterMark
  <2>8. parsed' = IF 1 = 0 THEN <<requests + 1, 1>> ELSE <<requests, 5 + 1 - 1>> BY <1>7, <2>3
  <2>9. 1 < l BY <1>4, <1>7
  <2> QED BY <1>1, <1>2, <1>6, <1>7, <2>4, <2>7, <2>8, <2>9, FedStep
<1>8. CASE Piece = "last" /\ Fed(0, 0) /\ parsed' = After(parsed)
  <2>1. parsed[1] = requests /\ parsed[2] = 5 BY <1>3, <1>4, <1>8
  <2>5. Len(Pieces(parsed[1])) = 5 /\ ~(parsed[2] < 5) BY <1>2, <2>1
  <2>2. After(parsed) = <<requests + 1, 1>> BY <2>1, <2>5 DEF After
  <2>3. parsed' = IF 0 = 0 THEN <<requests + 1, 1>> ELSE <<requests, 5 + 1 - 0>> BY <1>8, <2>2
  <2>4. 0 < l BY <1>4, <1>8
  <2> QED BY <1>1, <1>2, <1>5, <1>6, <1>8, <2>3, <2>4, FedStep
<1> QED BY <1>7, <1>8 DEF FeedChunk

-----------------------------------------------------------------------------
(* The ring cut behind its first n entries, with another entry at i.       *)
IsReplaced(u, n, i, f) ==
  /\ u = [SubSeq(ring, 1, n) EXCEPT ![i] = f] /\ Len(u) = n /\ u[i] = f
  /\ \A k \in 1..n : k # i => u[k] = ring[k]

(* Such a ring is a sequence of entries again.                             *)
LEMMA ReplaceFacts ==
  ASSUME NEW n \in 0..Len(ring), NEW i \in 1..n, NEW f \in Entries, ring \in Seq(Entries)
  PROVE  \E u \in Seq(Entries) : IsReplaced(u, n, i, f)
<1>1. PICK s \in Seq(Entries) : s = SubSeq(ring, 1, n) BY CutFacts
<1>2. Len(s) = n /\ \A k \in 1..n : s[k] = ring[k] BY <1>1, CutFacts
<1>3. i \in 1..Len(s) BY <1>2
<1>4. /\ [s EXCEPT ![i] = f] \in Seq(Entries) /\ Len([s EXCEPT ![i] = f]) = Len(s)
      /\ \A j \in 1..Len(s) : [s EXCEPT ![i] = f][j] = IF j = i THEN f ELSE s[j]
  BY <1>3, ExceptSeq
<1>5. PICK u \in Seq(Entries) : u = [s EXCEPT ![i] = f] BY <1>4
<1>6. Len(u) = n /\ \A j \in 1..n : u[j] = IF j = i THEN f ELSE s[j] BY Zenon, <1>2, <1>4, <1>5
<1>7. u = [SubSeq(ring, 1, n) EXCEPT ![i] = f] BY Zenon, <1>1, <1>5
<1>8. u[i] = f /\ \A k \in 1..n : k # i => u[k] = ring[k] BY Zenon, <1>2, <1>6
<1> QED BY Zenon, <1>6, <1>7, <1>8 DEF IsReplaced

(* What it is charged with.                                                *)
LEMMA CutReplace ==
  ASSUME NEW n \in 0..Len(ring), NEW i \in 1..n, ring \in Seq(Entries),
         NEW u \in Seq(Entries), Len(u) = n, \A k \in 1..n : k # i => u[k] = ring[k]
  PROVE  Charges(u) = Charges(ring) - Charges(Behind(n)) - Weight(ring[i]) + Weight(u[i])
<1>1. PICK s \in Seq(Entries) : s = SubSeq(ring, 1, n) BY CutFacts
<1>2. /\ Len(s) = n /\ \A k \in 1..n : s[k] = ring[k]
      /\ Charges(s) \in Nat /\ Charges(Behind(n)) \in Nat
      /\ Charges(ring) = Charges(s) + Charges(Behind(n))
  BY <1>1, CutFacts
<1>3. i \in 1..Len(s) /\ Len(u) = Len(s) BY <1>2
<1>4. \A k \in 1..Len(s) : k # i => Weight(u[k]) = Weight(s[k]) BY <1>2
<1>5. Charges(u) = Charges(s) - Weight(s[i]) + Weight(u[i]) BY <1>3, <1>4, ChargesReplace
<1>6. s[i] = ring[i] BY <1>2
<1>7. Weight(s[i]) \in Nat /\ Weight(u[i]) \in Nat BY <1>3, EntriesFacts
<1>8. PICK a \in Nat, b \in Nat, v \in Nat, w \in Nat :
        a = Charges(s) /\ b = Charges(Behind(n)) /\ v = Weight(ring[i]) /\ w = Weight(u[i])
  BY <1>2, <1>6, <1>7
<1>9. (a + b) - b - v + w = a - v + w OBVIOUS
<1> QED BY <1>2, <1>5, <1>6, <1>8, <1>9

(* A step that drops entries behind one that ends the connection, or after *)
(* which no other head is parsed.                                          *)
LEMMA Cut ==
  ASSUME HttpInv, RingEvolves, ring' \in Seq(Entries), pc # "closed", pc' # "closed",
         pc' = "wait" => pc = "wait", ~BodyPending', ~Open', head_since' => head_since,
         \A i \in 1..Len(ring') : ring'[i].stage = "running" => ring[i].stage = "running",
         \A i \in 1..Len(ring') :
           (/\ ring'[i].upgrade /\ ring'[i].stage # "body"
            /\ ~ring'[i].close \/ ring'[i].claim # "none") => parsed' = <<ring'[i].r + 1, 1>>,
         pc' = "wait" /\ want' => ~UpgradePending',
         writing' = writing, writing.count <= Len(ring'), interim' = interim, taken' = taken,
         \A i \in 1..Len(ring') : ring'[i].claim # "none" => ring[i].claim # "none" \/ taking',
         ring = <<>> /\ taken # 0 => parsed' = parsed
  PROVE  /\ BodyInv' /\ HeadInv' /\ OrderInv' /\ StageInv' /\ UpgradeInv' /\ WritingInv'
         /\ ContinueInv' /\ SettleInv'
<1>1. HttpTyped /\ StageInv /\ UpgradeInv /\ OrderInv /\ ContinueInv /\ SettleInv /\ HeadInv /\ WritingInv
  BY DEF HttpInv, RingInv, StreamInv
<1>2. /\ Len(ring) \in Nat /\ DOMAIN ring = 1..Len(ring)
      /\ Len(ring') \in Nat /\ DOMAIN ring' = 1..Len(ring')
  BY <1>1, EntriesFacts DEF HttpTyped
<1>3. Len(ring') <= Len(ring) BY DEF RingEvolves
<1>4. \A i \in 1..Len(ring') : i \in 1..Len(ring) BY <1>2, <1>3
<1>5. /\ \A i \in 1..Len(ring') : EntryEvolves(ring[i], ring'[i])
      /\ requests' = requests
  BY DEF RingEvolves
<1>6. OrderInv' BY <1>1, EvolveOrder
<1>7. StageInv' BY <1>1, EvolveStages
<1>8. ContinueInv' BY <1>1, EvolveContinue DEF ContinueInv
<1>9. SettleInv' BY <1>1, EvolveSettle
<1>10. BodyInv' BY DEF BodyInv
<1>11. HeadInv'
  <2>1. head_since' => requests < MaxRequests /\ Len(ring) < MaxPipelined BY <1>1 DEF HeadInv
  <2>2. head_since' => Len(ring') < MaxPipelined BY <1>2, <1>3, <2>1, HttpAssumption
  <2> QED BY <1>5, <2>1, <2>2 DEF HeadInv
<1>12. UpgradeInv'
  <2>1. ASSUME NEW i \in 1..Len(ring'), ring'[i].upgrade PROVE i = Len(ring') /\ ~head_since'
    <3>1. ring[i].upgrade /\ i \in DOMAIN ring BY <1>2, <1>4, <1>5, <2>1 DEF EntryEvolves
    <3>2. i = Len(ring) /\ ~head_since BY <1>1, <3>1 DEF UpgradeInv
    <3>4. Len(ring) \in Nat /\ Len(ring') \in Nat BY <1>2
    <3>5. i \in Nat /\ i <= Len(ring') BY <3>4
    <3>3. i = Len(ring') BY <1>3, <3>2, <3>4, <3>5
    <3> QED BY <3>2, <3>3
  <2> QED BY <1>2, <2>1 DEF UpgradeInv
<1>13. WritingInv'
  <2>1. writing.count \in Nat BY <1>1 DEF HttpTyped
  <2>2. \A i \in 1..writing.count : i \in 1..Len(ring') BY <1>2, <2>1
  <2>3. \A i \in 1..writing.count : ring'[i].stage = "done"
    BY <1>1, <1>5, <2>2 DEF WritingInv, EntryEvolves
  <2> QED BY <2>3 DEF WritingInv
<1> QED BY <1>6, <1>7, <1>8, <1>9, <1>10, <1>11, <1>12, <1>13

(* What is being written ends before a request that is not done.           *)
LEMMA WritingBefore ==
  ASSUME HttpInv, pc # "closed", NEW i \in 1..Len(ring), ring[i].stage # "done"
  PROVE  writing.count < i
<1>1. writing.count \in Nat /\ Len(ring) \in Nat BY RingFacts DEF HttpInv, HttpTyped
<1>2. \A k \in 1..writing.count : ring[k].stage = "done" BY DEF HttpInv, RingInv, WritingInv
<1>3. i \notin 1..writing.count BY <1>2
<1> QED BY <1>1, <1>3

(* The driver answers request i, that is not done, and drops what follows. *)
LEMMA FailAtStep ==
  ASSUME HttpInv, NEW i \in 1..Len(ring), ring[i].stage # "done", FailAt(i), pc # "closed",
         pc' \in {"input", "start"}, head_since' = head_since,
         UNCHANGED <<asked, wire, interim, requests, taking, taken, writing, want, aborted, sent>>
  PROVE  HttpInv'
<1>0. HttpTyped /\ ring \in Seq(Entries) BY DEF HttpInv, HttpTyped
<1>1. /\ Len(ring) \in Nat /\ DOMAIN ring = 1..Len(ring) /\ i \in 0..Len(ring) /\ i \in 1..i /\ i \in Nat
      /\ ring # <<>>
  BY <1>0, EntriesFacts
<1>2. PICK e \in Entries : e = ring[i] BY <1>0, <1>1, EntriesFacts
<1>3. PICK f : f = [e EXCEPT !.stage = "done", !.close = TRUE, !.says = TRUE, !.stray = FALSE,
                             !.cont = FALSE, !.charge = 0, !.claiming = "none"]
  OBVIOUS
<1>4. /\ ring' = [SubSeq(ring, 1, i) EXCEPT ![i] = f]
      /\ bodies' = bodies - ring[i].charge - Charges(Behind(i))
      /\ claims' = DroppedClaims(Behind(i - 1), claims)
      /\ parsed' = got /\ close' = TRUE /\ got' = got
  BY <1>2, <1>3 DEF FailAt
<1>5. /\ f \in Entries /\ f.r = e.r /\ f.stage = "done" /\ f.safe = e.safe /\ f.upgrade = e.upgrade
      /\ f.cont = FALSE /\ f.bytes = e.bytes /\ f.charge = 0 /\ f.claim = e.claim
      /\ f.close = TRUE /\ f.says = TRUE /\ f.stray = FALSE /\ f.claiming = "none"
  <2>1. "done" \in Stages /\ 0 \in Nat /\ "none" \in ClaimOf BY DEF Stages, ClaimOf
  <2>2. f \in Entries BY <1>3, <2>1 DEF Entries
  <2>3. /\ f.r = e.r /\ f.stage = "done" /\ f.safe = e.safe /\ f.upgrade = e.upgrade
        /\ f.cont = FALSE /\ f.bytes = e.bytes /\ f.charge = 0 /\ f.claim = e.claim
        /\ f.close = TRUE /\ f.says = TRUE /\ f.stray = FALSE /\ f.claiming = "none"
    BY <1>3 DEF Entries
  <2> QED BY <2>2, <2>3
<1>24. PICK u \in Seq(Entries) : IsReplaced(u, i, i, f)
  BY <1>0, <1>1, <1>5, ReplaceFacts
<1>6. /\ u = [SubSeq(ring, 1, i) EXCEPT ![i] = f] /\ Len(u) = i /\ u[i] = f
      /\ \A k \in 1..i : k # i => u[k] = ring[k]
  BY <1>24 DEF IsReplaced
<1>7. /\ u \in Seq(Entries) /\ Len(u) = i /\ u[i] = f
      /\ \A k \in 1..i : k # i => u[k] = ring[k]
      /\ Charges(u) = Charges(ring) - Charges(Behind(i)) - Weight(ring[i]) + Weight(f)
  BY <1>0, <1>1, <1>6, CutReplace
<1>8. ring' = u BY Zenon, <1>4, <1>6
<1>9. e.claim = "none" /\ ~e.says /\ e.stage # "done"
  BY <1>1, <1>2 DEF HttpInv, RingInv, StageInv
<1>10. \A k \in 1..i : k \in 1..Len(ring) BY <1>1
<1>11. \A k \in 1..i : EntryEvolves(ring[k], u[k]) /\ (Ends(u[k]) => Ends(ring[k]) \/ k = i)
  <2>1. \A k \in 1..Len(ring) : EntryEvolves(ring[k], ring[k])
    BY <1>0, EvolvesSame DEF HttpInv, RingInv, ContinueInv, SettleInv
  <2>2. EntryEvolves(e, f) BY <1>5, <1>9 DEF EntryEvolves, Ends
  <2> QED BY <1>2, <1>7, <1>10, <2>1, <2>2
<1>12. RingEvolves
  <2>1. Len(ring') = i /\ i <= Len(ring) /\ i > 0 /\ Ends(ring'[i]) BY <1>1, <1>5, <1>7, <1>8 DEF Ends
  <2> QED BY <1>4, <1>8, <1>11, <2>1 DEF RingEvolves
<1>13. ~BodyPending' BY <1>5, <1>7, <1>8 DEF BodyPending, Last
<1>14. ~Open' BY <1>4 DEF Open
<1>15. \A k \in 1..Len(ring') : /\ ring'[k].stage = "running" => ring[k].stage = "running"
                                /\ ring'[k].claim # "none" => ring[k].claim # "none"
  BY <1>2, <1>5, <1>7, <1>8
<1>16. \A k \in 1..Len(ring') : ring'[k].upgrade => ring'[k].close /\ ring'[k].claim = "none"
  <2> SUFFICES ASSUME NEW k \in 1..i, u[k].upgrade PROVE u[k].close /\ u[k].claim = "none"
    BY <1>7, <1>8
  <2>1. ring[k].upgrade BY <1>11 DEF EntryEvolves
  <2>2. k = Len(ring) BY <1>1, <1>10, <2>1 DEF HttpInv, RingInv, UpgradeInv
  <2>4. Len(ring) \in Nat /\ i \in Nat /\ i <= Len(ring) BY <1>1
  <2>5. k \in Nat /\ k <= i BY <2>4
  <2>3. k = i BY <2>2, <2>4, <2>5
  <2> QED BY <1>5, <1>7, <1>9, <2>3
<1>17. writing.count <= Len(ring')
  <2>1. writing.count < i BY WritingBefore
  <2>2. writing.count \in Nat BY <1>0 DEF HttpTyped
  <2> QED BY <1>1, <1>7, <1>8, <2>1, <2>2
<1>19. ring' \in Seq(Entries) BY <1>7, <1>8
<1>20. /\ BodyInv' /\ HeadInv' /\ OrderInv' /\ StageInv' /\ UpgradeInv' /\ WritingInv'
       /\ ContinueInv' /\ SettleInv'
  BY <1>1, <1>12, <1>13, <1>14, <1>15, <1>16, <1>17, <1>19, Cut
<1>21. bodies' = Charges(ring')
  <2>1. Weight(ring[i]) = e.bytes + e.charge /\ Weight(f) = e.bytes
        /\ e.bytes \in Nat /\ e.charge \in Nat
    BY <1>2, <1>5 DEF Weight, Entries
  <2>2. bodies = Charges(ring) /\ Charges(ring) \in Nat BY <1>0, OctetsFinite DEF HttpInv
  <2>3. Charges(Behind(i)) \in Nat BY <1>0, <1>1, CutFacts
  <2>4. PICK c \in Nat, d \in Nat, b \in Nat, w \in Nat :
          c = Charges(ring) /\ d = Charges(Behind(i)) /\ b = e.bytes /\ w = e.charge
    BY <2>1, <2>2, <2>3
  <2>5. c - d - (b + w) + b = c - w - d OBVIOUS
  <2>6. bodies' = c - w - d BY <1>2, <1>4, <2>2, <2>4
  <2>7. Charges(u) = c - d - (b + w) + b BY <1>7, <2>1, <2>4
  <2> QED BY <1>8, <2>5, <2>6, <2>7
<1>22. HttpTyped'
  <2>1. Marks' = Marks BY MarksSame
  <2>2. claims' \in [Request -> ClaimStates] BY <1>0, <1>4, DroppedFacts DEF HttpTyped
  <2> QED BY <1>0, <1>4, <1>19, <2>1, <2>2 DEF HttpTyped
<1>23. MarkInv' BY <1>4, StreamFacts, MarkOrder DEF MarkInv
<1> QED BY <1>20, <1>21, <1>22, <1>23 DEF HttpInv, StreamInv, RingInv

(* The deadlines of a request and of its body, and a body that is refused. *)
LEMMA FailSteps == ASSUME HttpInv, ExpireTotal \/ ExpireBody \/ FeedReject PROVE HttpInv'
<1>0. ring \in Seq(Entries) BY DEF HttpInv, HttpTyped
<1>1. DOMAIN ring = 1..Len(ring) BY <1>0, EntriesFacts
<1>2. BodyPending => Len(ring) \in 1..Len(ring) /\ ring[Len(ring)].stage # "done"
  BY <1>0, EntriesFacts DEF BodyPending, Last
<1>3. \E i \in 1..Len(ring) : ring[i].stage # "done" /\ FailAt(i)
  <2>1. CASE ExpireTotal BY <1>1, <2>1 DEF ExpireTotal
  <2>2. CASE ExpireBody BY <1>2, <2>2 DEF ExpireBody
  <2>3. CASE FeedReject BY <1>2, <2>3 DEF FeedReject, Feeding
  <2> QED BY <2>1, <2>2, <2>3
<1>4. PICK i \in 1..Len(ring) : ring[i].stage # "done" /\ FailAt(i) BY <1>3
<1>5. /\ pc # "closed" /\ pc' \in {"input", "start"} /\ head_since' = head_since
      /\ UNCHANGED <<asked, wire, interim, requests, taking, taken, writing, want, aborted, sent>>
  <2>1. CASE ExpireTotal BY <2>1 DEF ExpireTotal, Ticks, peerVars, takeVars, wireVars
  <2>2. CASE ExpireBody BY <2>2 DEF ExpireBody, Ticks, peerVars, takeVars, wireVars
  <2>3. CASE FeedReject BY <2>3 DEF FeedReject, Feeding, inputFrame, peerVars, takeVars, wireVars
  <2> QED BY <2>1, <2>2, <2>3
<1> QED BY <1>4, <1>5, FailAtStep

(* The entry whose handler completed.                                      *)
IsAnswered(f, e, answer, flag) ==
  /\ f = Answered(e, answer, flag) /\ EntryEvolves(e, f) /\ Weight(f) = Weight(e)
  /\ f.stage = "done" /\ f.r = e.r /\ f.claiming = "none" /\ f.claim = KeptClaim(e, answer)
  /\ f.close = answer.close /\ (Ends(f) => f.claim # "none" \/ flag)

(* What an answered entry keeps, that its charge is still its own, and     *)
(* that it ends the connection only by its claim or because it closes.     *)
LEMMA AnsweredFacts ==
  ASSUME NEW e \in Entries, NEW answer \in Answers, NEW flag \in BOOLEAN,
         e.stage = "running", ~e.says, ~e.cont, e.claiming = "upgrade" => e.upgrade,
         answer.close => flag
  PROVE  \E f \in Entries : IsAnswered(f, e, answer, flag)
<1>0. /\ answer.fate \in {"kept", "void", "bare"} /\ answer.close \in BOOLEAN
      /\ e.claiming \in ClaimOf /\ e.bytes \in Nat /\ e.charge \in Nat
  BY HttpAssumption DEF Entries
<1>1. KeptClaim(e, answer) \in ClaimOf /\ HeadClaim(e, answer) \in ClaimOf
  BY <1>0 DEF KeptClaim, HeadClaim, ClaimOf
<1>2. PICK c \in ClaimOf : c = KeptClaim(e, answer) BY <1>1
<1>3. PICK b \in BOOLEAN : b = Says(HeadClaim(e, answer), flag) BY <1>1, SaysFacts
<1>4. PICK d \in BOOLEAN : d = (answer.fate = "bare" /\ e.claiming = "stream" /\ ~flag) OBVIOUS
<1>5. PICK n \in Nat : n = e.bytes + e.charge BY <1>0
<1>6. PICK f : f = [e EXCEPT !.stage = "done", !.claiming = "none", !.claim = c,
                             !.close = answer.close, !.says = b, !.stray = d,
                             !.bytes = n, !.charge = 0]
  OBVIOUS
<1>7. "done" \in Stages /\ 0 \in Nat /\ "none" \in ClaimOf BY DEF Stages, ClaimOf
<1>8. f \in Entries BY <1>0, <1>6, <1>7 DEF Entries
<1>9. /\ f.r = e.r /\ f.stage = "done" /\ f.safe = e.safe /\ f.upgrade = e.upgrade
      /\ f.cont = e.cont /\ f.bytes = n /\ f.charge = 0 /\ f.claim = c /\ f.claiming = "none"
      /\ f.close = answer.close /\ f.says = b /\ f.stray = d
  BY <1>6 DEF Entries
<1>10. f = Answered(e, answer, flag) BY <1>2, <1>3, <1>4, <1>5, <1>6 DEF Answered
<1>11. /\ c = "upgrade" => e.upgrade
       /\ (b /\ ~d) => c # "none" \/ flag
       /\ flag => c # "none" \/ (b /\ ~d) \/ e.upgrade
  <2>1. CASE answer.fate = "kept"
    <3>1. c = e.claiming /\ b = Says(e.claiming, flag) /\ ~d
      BY <1>2, <1>3, <1>4, <2>1 DEF KeptClaim, HeadClaim
    <3> QED BY <1>0, <3>1, SaysFacts DEF ClaimOf
  <2>2. CASE answer.fate = "void"
    <3>1. c = "none" /\ b = Says("none", flag) /\ ~d
      BY <1>2, <1>3, <1>4, <2>2 DEF KeptClaim, HeadClaim
    <3> QED BY <3>1, SaysFacts
  <2>3. CASE answer.fate = "bare"
    <3>1. c = "none" /\ b = Says(e.claiming, flag) /\ d = (e.claiming = "stream" /\ ~flag)
      BY <1>2, <1>3, <1>4, <2>3 DEF KeptClaim, HeadClaim
    <3> QED BY <1>0, <3>1, SaysFacts DEF ClaimOf
  <2> QED BY <1>0, <2>1, <2>2, <2>3
<1>12. EntryEvolves(e, f) BY <1>9, <1>11 DEF EntryEvolves, Ends
<1>13. Weight(f) = Weight(e) BY <1>0, <1>5, <1>9 DEF Weight
<1>14. Ends(f) => f.claim # "none" \/ flag BY <1>9, <1>11 DEF Ends
<1> QED BY <1>2, <1>8, <1>9, <1>10, <1>12, <1>13, <1>14 DEF IsAnswered

(* A handler completed: its response is in the ring, and the requests      *)
(* behind one that claims or closes the connection are not.                *)
LEMMA CompleteStep ==
  ASSUME HttpInv, NEW i \in DOMAIN ring, NEW answer \in Answers, Complete(i, answer)
  PROVE  HttpInv'
<1>0. HttpTyped /\ ring \in Seq(Entries) BY DEF HttpInv, HttpTyped
<1>1. /\ Len(ring) \in Nat /\ DOMAIN ring = 1..Len(ring) /\ i \in 1..Len(ring) /\ i \in Nat
      /\ ring # <<>>
  BY <1>0, EntriesFacts
<1>2. PICK e \in Entries : e = ring[i] BY <1>0, <1>1, EntriesFacts
<1>3. PICK claim : claim = KeptClaim(e, answer) OBVIOUS
<1>4. PICK cuts \in BOOLEAN : cuts = (claim # "none" \/ answer.close) OBVIOUS
<1>5. PICK n : n = IF cuts THEN i ELSE Len(ring) OBVIOUS
<1>6. PICK flag \in BOOLEAN : flag = (answer.close \/ (close /\ i = Len(ring))) OBVIOUS
<1>7. /\ pc = "wait" /\ pc' = "wait" /\ e.stage = "running"
      /\ ring' = [SubSeq(ring, 1, n) EXCEPT ![i] = Answered(e, answer, flag)]
      /\ bodies' = bodies - Charges(Behind(n))
      /\ claims' = [DroppedClaims(Behind(n), claims) EXCEPT
                      ![e.r] = IF e.claiming = "none" THEN @
                               ELSE IF claim # "none" THEN "kept" ELSE "void"]
      /\ taking' = (taking \/ claim # "none") /\ close' = (close \/ answer.close)
      /\ UNCHANGED <<asked, wire, interim, requests, taken, writing>>
      /\ UNCHANGED <<head_since, want, aborted, sent, got, parsed>>
  BY <1>2, <1>3, <1>4, <1>5, <1>6 DEF Complete, peerVars, inputVars, wireVars
<1>8. /\ e.claim = "none" /\ ~e.says /\ ~e.close /\ ~e.cont
      /\ e.claiming = "upgrade" => e.upgrade
  BY <1>1, <1>2, <1>7 DEF HttpInv, RingInv, StageInv, ContinueInv, OwedInv, SettleInv, TakingInv
<1>9. answer.close \in BOOLEAN BY HttpAssumption
<1>10. PICK f \in Entries : IsAnswered(f, e, answer, flag)
  BY <1>6, <1>7, <1>8, AnsweredFacts
<1>11. /\ f = Answered(e, answer, flag) /\ EntryEvolves(e, f) /\ Weight(f) = Weight(e)
       /\ f.stage = "done" /\ f.r = e.r /\ f.claim = claim /\ f.close = answer.close
       /\ Ends(f) => f.claim # "none" \/ flag
  BY <1>3, <1>10 DEF IsAnswered
<1>12. n \in 0..Len(ring) /\ i \in 1..n /\ n \in Nat
  <2>1. CASE n = Len(ring) BY <1>1, <2>1
  <2>2. CASE n = i BY <1>1, <2>2
  <2> QED BY <1>5, <2>1, <2>2
<1>13. PICK u \in Seq(Entries) : IsReplaced(u, n, i, f) BY <1>0, <1>12, ReplaceFacts
<1>14. /\ u = [SubSeq(ring, 1, n) EXCEPT ![i] = f] /\ Len(u) = n /\ u[i] = f
       /\ \A k \in 1..n : k # i => u[k] = ring[k]
  BY <1>13 DEF IsReplaced
<1>15. ring' = u BY Zenon, <1>7, <1>11, <1>14
<1>16. \A k \in 1..n : k \in 1..Len(ring) BY <1>1, <1>12
<1>17. \A k \in 1..n : EntryEvolves(ring[k], u[k]) /\ (k # i => (Ends(u[k]) => Ends(ring[k])))
  <2>1. \A k \in 1..Len(ring) : EntryEvolves(ring[k], ring[k])
    BY <1>0, EvolvesSame DEF HttpInv, RingInv, ContinueInv, SettleInv
  <2> QED BY <1>2, <1>11, <1>14, <1>16, <2>1
<1>18. /\ Ends(f) => i = n /\ (close' \/ taking')
       /\ n < Len(ring) => Ends(f)
  <2>1. claim # "none" => Ends(f) /\ n = i /\ taking' BY <1>4, <1>5, <1>7, <1>11 DEF Ends
  <2>2. flag => i = n /\ close' BY <1>4, <1>5, <1>6, <1>7
  <2>3. ASSUME n < Len(ring), answer.close, ~Ends(f) PROVE FALSE
    <3>1. f.upgrade /\ f.upgrade = e.upgrade BY <1>11, <2>3 DEF EntryEvolves
    <3>2. i = Len(ring) BY <1>1, <1>2, <3>1 DEF HttpInv, RingInv, UpgradeInv
    <3> QED BY <1>1, <1>5, <2>3, <3>2
  <2>4. n < Len(ring) => cuts BY <1>1, <1>5
  <2> QED BY <1>4, <1>9, <1>11, <2>1, <2>2, <2>3, <2>4
<1>19. RingEvolves
  <2>1. Len(ring') = n /\ n <= Len(ring) BY <1>1, <1>12, <1>14, <1>15
  <2>3. n > 0 BY <1>12
  <2>4. n < Len(ring) => n > 0 /\ Ends(ring'[n]) BY <1>14, <1>15, <1>18, <2>3
  <2>5. \A k \in 1..n : Ends(ring'[k]) => Ends(ring[k]) \/ (k = n /\ (close' \/ taking'))
    BY <1>14, <1>15, <1>17, <1>18
  <2> QED BY <1>7, <1>15, <1>17, <2>1, <2>4, <2>5 DEF RingEvolves
<1>20. ring' \in Seq(Entries) /\ Len(ring') = n BY <1>14, <1>15
<1>21. PICK d : d = DroppedClaims(Behind(n), claims) OBVIOUS
<1>22. d \in [Request -> ClaimStates] BY <1>0, <1>21, DroppedFacts DEF HttpTyped
<1>23. claims' \in [Request -> ClaimStates]
  <2>1. PICK x : x = IF e.claiming = "none" THEN d[e.r] ELSE IF claim # "none" THEN "kept" ELSE "void"
    OBVIOUS
  <2>2. claims' = [d EXCEPT ![e.r] = x] BY <1>7, <1>21, <2>1
  <2>3. e.r \in Request BY DEF Entries
  <2>4. x \in ClaimStates BY <1>22, <2>1, <2>3 DEF ClaimStates
  <2> QED BY <1>22, <2>2, <2>4
<1>25. \A k \in 1..Len(ring') : /\ ring'[k].claim # "none" => ring[k].claim # "none" \/ taking'
                                /\ ring'[k].stage = "running" => ring[k].stage = "running"
  <2>1. claim # "none" => taking' BY <1>7
  <2>2. \A k \in 1..n : /\ u[k].claim # "none" => ring[k].claim # "none" \/ claim # "none"
                        /\ u[k].stage = "running" => ring[k].stage = "running"
    BY <1>11, <1>14
  <2> QED BY <1>14, <1>15, <2>1, <2>2
<1>26. BodyInv' /\ HeadInv' /\ OrderInv' /\ StageInv' /\ UpgradeInv' /\ WritingInv' /\ ContinueInv' /\ SettleInv'
  <2>1. CASE ~cuts
    <3>1. n = Len(ring) /\ Len(ring') = Len(ring) BY <1>5, <1>20, <2>1
    <3>2. \A k \in 1..Len(ring) : /\ (ring'[k].stage = "body") = (ring[k].stage = "body")
                                  /\ ring[k].stage = "body" => ring'[k].left = ring[k].left
      BY <1>2, <1>7, <1>11, <1>14, <1>15, <3>1
    <3>3. BodyInv' /\ HeadInv' /\ OrderInv' /\ StageInv' /\ UpgradeInv' /\ WritingInv'
      BY <1>7, <1>19, <1>20, <1>25, <3>1, <3>2, InPlace
    <3>4. ContinueInv' BY <1>0, <1>7, <1>19, <1>20, EvolveContinue DEF HttpInv, ContinueInv
    <3>5. SettleInv' BY <1>0, <1>1, <1>7, <1>19, <1>20, <1>25, EvolveSettle DEF HttpInv, RingInv
    <3> QED BY <3>3, <3>4, <3>5
  <2>2. CASE cuts
    <3>1. n = i BY <1>5, <2>2
    <3>2. Last(ring') = f /\ ring' # <<>> BY <1>12, <1>14, <1>15, <3>1, EntriesFacts DEF Last
    <3>3. ~BodyPending' BY <1>11, <3>2 DEF BodyPending
    <3>4. ~Open' BY <1>4, <1>7, <2>2 DEF Open
    <3>5. ASSUME NEW k \in 1..Len(ring'), ring'[k].upgrade PROVE k = i /\ i = Len(ring) /\ e.upgrade
      <4>1. k \in 1..Len(ring) /\ k \in 1..i BY <1>14, <1>15, <1>16, <3>1
      <4>2. ring[k].upgrade BY <1>14, <1>15, <1>17, <3>1, <3>5, <4>1 DEF EntryEvolves
      <4>3. k = Len(ring) BY <1>1, <4>1, <4>2 DEF HttpInv, RingInv, UpgradeInv
      <4>4. Len(ring) \in Nat /\ i \in Nat /\ i <= Len(ring) BY <1>1
      <4>5. k \in Nat /\ k <= i BY <4>1, <4>4
      <4>6. k = i BY <4>3, <4>4, <4>5
      <4> QED BY <1>2, <4>2, <4>3, <4>6
    <3>6. \A k \in 1..Len(ring') : ring'[k].upgrade => parsed' = <<ring'[k].r + 1, 1>>
      <4>1. e.upgrade => parsed = <<e.r + 1, 1>>
        BY <1>1, <1>2, <1>7, <1>8 DEF HttpInv, RingInv, UpgradeInv
      <4> QED BY <1>7, <1>11, <1>14, <1>15, <3>5, <4>1
    <3>7. want => ~UpgradePending'
      <4> SUFFICES ASSUME want, UpgradePending' PROVE FALSE OBVIOUS
      <4>1. f.upgrade BY <3>2 DEF UpgradePending
      <4>2. i \in 1..Len(ring') /\ ring'[i] = f BY <1>12, <1>14, <1>15
      <4>3. i = Len(ring) /\ e.upgrade BY <3>5, <4>1, <4>2
      <4>4. UpgradePending BY <1>1, <1>2, <1>7, <4>3 DEF UpgradePending, Last
      <4> QED BY <1>7, <4>4 DEF HttpInv, RingInv, UpgradeInv
    <3>8. writing.count <= Len(ring')
      <4>1. writing.count < i BY <1>1, <1>2, <1>7, WritingBefore
      <4>2. writing.count \in Nat BY <1>0 DEF HttpTyped
      <4> QED BY <1>1, <1>20, <3>1, <4>1, <4>2
    <3> QED BY <1>1, <1>7, <1>19, <1>20, <1>25, <3>3, <3>4, <3>6, <3>7, <3>8, Cut
  <2> QED BY <2>1, <2>2
<1>27. bodies' = Charges(ring')
  <2>1. Charges(u) = Charges(ring) - Charges(Behind(n)) - Weight(ring[i]) + Weight(f)
    BY <1>0, <1>12, <1>14, CutReplace
  <2>2. bodies = Charges(ring) /\ Charges(ring) \in Nat BY <1>0, OctetsFinite DEF HttpInv
  <2>3. Charges(Behind(n)) \in Nat BY <1>0, <1>12, CutFacts
  <2>4. Weight(ring[i]) = Weight(e) /\ Weight(f) = Weight(e) /\ Weight(e) \in Nat
    BY <1>0, <1>1, <1>2, <1>11, EntriesFacts
  <2>5. PICK c \in Nat, d2 \in Nat, w \in Nat :
          c = Charges(ring) /\ d2 = Charges(Behind(n)) /\ w = Weight(e)
    BY <2>2, <2>3, <2>4
  <2>6. c - d2 - w + w = c - d2 OBVIOUS
  <2> QED BY <1>7, <1>15, <2>1, <2>2, <2>4, <2>5, <2>6
<1>28. HttpTyped'
  <2>1. Marks' = Marks BY <1>7, MarksSame
  <2> QED BY <1>0, <1>7, <1>20, <1>23, <2>1 DEF HttpTyped
<1>29. MarkInv' BY <1>7 DEF HttpInv, StreamInv, MarkInv
<1> QED BY <1>26, <1>27, <1>28, <1>29 DEF HttpInv, StreamInv, RingInv

(* The peer's end of input: an incomplete request is dropped unanswered.   *)
LEMMA ReadEofStep == ASSUME HttpInv, ReadEof PROVE HttpInv'
<1>0. HttpTyped /\ ring \in Seq(Entries) BY DEF HttpInv, HttpTyped
<1>1. Len(ring) \in Nat /\ DOMAIN ring = 1..Len(ring) /\ ((ring = <<>>) <=> (Len(ring) = 0))
  BY <1>0, EntriesFacts
<1>2. PICK n : n = EofKept OBVIOUS
<1>3. /\ pc = "wait" /\ pc' = "expire" /\ want /\ parsed' = got /\ head_since' = FALSE /\ close' = TRUE
      /\ ring' = Marked(SubSeq(ring, 1, n))
      /\ bodies' = bodies - Charges(Behind(n))
      /\ claims' = DroppedClaims(Behind(n), claims)
      /\ UNCHANGED <<asked, wire, interim, requests, taking, taken, writing>>
      /\ UNCHANGED <<want, aborted, sent, got>>
  BY <1>2 DEF ReadEof, Woken, peerVars, takeVars, holdVars, wireVars
<1>25. Len(ring) \in Nat BY <1>1
<1>26. n \in Nat /\ n <= Len(ring) /\ n \in 0..Len(ring)
  <2>1. (n = Len(ring) - 1 /\ Len(ring) # 0) \/ n = Len(ring) BY <1>1, <1>2 DEF EofKept, BodyPending
  <2> QED BY <1>25, <2>1
<1>27. n = Len(ring) => ~BodyPending
  <2>1. BodyPending => n = Len(ring) - 1 BY <1>2 DEF EofKept
  <2>2. Len(ring) # Len(ring) - 1 BY <1>25
  <2> QED BY <2>1, <2>2
<1>28. BodyPending => n = Len(ring) - 1 BY <1>2 DEF EofKept
<1>4. n \in 0..Len(ring) BY <1>26
<1>5. PICK s \in Seq(Entries) : s = SubSeq(ring, 1, n) BY <1>0, <1>4, CutFacts
<1>6. /\ Len(s) = n /\ (\A k \in 1..n : s[k] = ring[k])
      /\ Charges(s) \in Nat /\ Charges(Behind(n)) \in Nat
      /\ Charges(ring) = Charges(s) + Charges(Behind(n))
  BY <1>0, <1>4, <1>5, CutFacts
<1>7. PICK t : t = Marked(s) OBVIOUS
<1>8. /\ t \in Seq(Entries) /\ Len(t) = Len(s)
      /\ \A k \in 1..Len(s) : /\ t[k].stage = s[k].stage /\ t[k].upgrade = s[k].upgrade
                              /\ t[k].claim = s[k].claim /\ Weight(t[k]) = Weight(s[k])
  BY <1>7, MarkedFacts
<1>9. ring' = t BY <1>3, <1>5, <1>7
<1>10. \A k \in 1..n : EntryEvolves(ring[k], t[k]) /\ (Ends(t[k]) => Ends(ring[k]) \/ k = n)
  BY <1>4, <1>6, <1>7, MarkedEvolves
<1>11. \A k \in 1..n : k \in 1..Len(ring) BY <1>25, <1>26
<1>12. RingEvolves
  <2>1. Len(ring') = n /\ n <= Len(ring) BY <1>6, <1>8, <1>9, <1>26
  <2> QED BY <1>3, <1>9, <1>10, <2>1 DEF RingEvolves
<1>13. ring' \in Seq(Entries) /\ Len(ring') = n BY <1>6, <1>8, <1>9
<1>14. \A k \in 1..n : /\ ring'[k].stage = ring[k].stage /\ ring'[k].upgrade = ring[k].upgrade
                       /\ ring'[k].claim = ring[k].claim
  BY <1>6, <1>8, <1>9
<1>15. ~BodyPending'
  <2> SUFFICES ASSUME BodyPending' PROVE FALSE OBVIOUS
  <2>1. ring' # <<>> /\ ring'[n].stage = "body" BY <1>13 DEF BodyPending, Last
  <2>6. n # 0 BY <1>13, <2>1, EntriesFacts
  <2>2. n \in 1..n BY <1>26, <2>6
  <2>3. ring[n].stage = "body" /\ n \in DOMAIN ring BY <1>1, <1>11, <1>14, <2>1, <2>2
  <2>4. n = Len(ring) BY <2>3 DEF HttpInv, RingInv, StageInv
  <2>5. BodyPending BY <1>1, <2>3, <2>4 DEF BodyPending, Last
  <2> QED BY <1>27, <2>4, <2>5
<1>16. ~Open' BY <1>3 DEF Open
<1>17. \A k \in 1..n : ~ring'[k].upgrade
  <2> SUFFICES ASSUME NEW k \in 1..n, ring[k].upgrade PROVE FALSE BY <1>14
  <2>1. k = Len(ring) BY <1>1, <1>11 DEF HttpInv, RingInv, UpgradeInv
  <2>2. Len(ring) \in Nat /\ n \in Nat /\ n <= Len(ring) BY <1>25, <1>26
  <2>3. k \in Nat /\ k <= n /\ k # 0 BY <2>2
  <2>4. n = Len(ring) BY <2>1, <2>2, <2>3
  <2>5. ~BodyPending /\ ring # <<>> BY <1>1, <1>27, <2>1, <2>3, <2>4
  <2>6. UpgradePending BY <2>1, <2>5 DEF UpgradePending, BodyPending, Last
  <2> QED BY <1>3, <2>6 DEF HttpInv, RingInv, UpgradeInv
<1>18. writing.count <= Len(ring')
  <2>1. writing.count \in Nat /\ writing.count <= Len(ring)
    BY <1>0, <1>3 DEF HttpTyped, HttpInv, RingInv, WritingInv
  <2>2. CASE n = Len(ring) BY <1>13, <2>1, <2>2
  <2>3. CASE n # Len(ring)
    <3>1. BodyPending BY <1>2, <2>3 DEF EofKept
    <3>2. Len(ring) \in 1..Len(ring) /\ ring[Len(ring)].stage # "done" BY <1>1, <3>1 DEF BodyPending, Last
    <3>3. writing.count < Len(ring) BY <1>3, <3>2, WritingBefore
    <3>4. Len(ring') = Len(ring) - 1 BY <1>13, <1>28, <3>1
    <3> QED BY <1>25, <2>1, <3>3, <3>4
  <2> QED BY <2>2, <2>3
<1>19. claims' \in [Request -> ClaimStates] BY <1>0, <1>3, DroppedFacts DEF HttpTyped
<1>20. taken = 0 BY <1>3 DEF HttpInv, SettleInv, TakenInv
<1>21. /\ BodyInv' /\ HeadInv' /\ OrderInv' /\ StageInv' /\ UpgradeInv' /\ WritingInv'
       /\ ContinueInv' /\ SettleInv'
  BY <1>3, <1>12, <1>13, <1>14, <1>15, <1>16, <1>17, <1>18, <1>20, Cut
<1>22. bodies' = Charges(ring')
  <2>1. Charges(s) = Charges(t) BY <1>8, ChargesSame
  <2>2. PICK a \in Nat, b \in Nat : a = Charges(s) /\ b = Charges(Behind(n)) BY <1>6
  <2>3. a + b - b = a OBVIOUS
  <2>4. bodies = Charges(ring) BY DEF HttpInv
  <2>5. bodies' = a + b - b BY <1>3, <1>6, <2>2, <2>4
  <2> QED BY <1>9, <2>1, <2>2, <2>3, <2>5
<1>23. HttpTyped'
  <2>1. Marks' = Marks BY <1>3, MarksSame
  <2> QED BY <1>0, <1>3, <1>13, <1>19, <2>1 DEF HttpTyped
<1>24. MarkInv' BY <1>3, StreamFacts, MarkOrder DEF MarkInv
<1> QED BY <1>21, <1>22, <1>23, <1>24 DEF HttpInv, StreamInv, RingInv

-----------------------------------------------------------------------------
(* The task's end: what is left in the ring is dropped, and the claimed    *)
(* request is handed over or, when the socket failed, dropped as well.     *)
LEMMA EndStep == ASSUME HttpInv, End PROVE HttpInv'
<1>0. HttpTyped /\ ring \in Seq(Entries) BY DEF HttpInv, HttpTyped
<1>1. /\ pc = "end" /\ pc' = "closed" /\ ring' = <<>> /\ bodies' = bodies - Charges(ring)
      /\ claims' = [r \in Request |-> IF r # taken THEN DroppedClaims(ring, claims)[r]
                                     ELSE IF aborted THEN "dropped" ELSE "handed"]
      /\ UNCHANGED <<asked, wire, interim, requests, taking, taken, writing>>
      /\ UNCHANGED <<close, head_since, want, aborted, sent, got, parsed>>
  BY DEF End, peerVars, inputVars, closeVars, takeVars, wireVars
<1>2. ring' \in Seq(Entries) /\ Len(ring') = 0 /\ DOMAIN ring' = {} BY <1>1
<1>3. Len(ring) \in Nat /\ DOMAIN ring = 1..Len(ring) BY <1>0, EntriesFacts
<1>4. RingEvolves
  <2>1. 0 <= Len(ring) BY <1>3
  <2>2. \A i \in 1..0 : FALSE OBVIOUS
  <2> QED BY <1>1, <1>2, <2>1, <2>2 DEF RingEvolves
<1>5. OrderInv' BY <1>0, <1>2, <1>4, EvolveOrder DEF HttpInv, RingInv
<1>6. ContinueInv' BY <1>0, <1>1, <1>2, <1>4, EvolveContinue DEF HttpInv, ContinueInv
<1>7. ~BodyPending' BY <1>1 DEF BodyPending
<1>8. StreamInv'
  <2>1. MarkInv' BY <1>1 DEF HttpInv, StreamInv, MarkInv
  <2>2. MaxPipelined \in Nat \ {0} BY HttpAssumption
  <2>3. HeadInv' BY <1>1, <1>2, <1>7, <2>2 DEF HttpInv, StreamInv, HeadInv, Open
  <2> QED BY <1>7, <2>1, <2>3 DEF StreamInv, BodyInv
<1>9. RingInv'
  <2>1. 0 <= MaxPipelined BY HttpAssumption
  <2> QED BY <1>1, <1>2, <2>1 DEF RingInv, StageInv, UpgradeInv, WritingInv
<1>10. claims' \in [Request -> ClaimStates]
  <2>1. DroppedClaims(ring, claims) \in [Request -> ClaimStates] BY <1>0, DroppedFacts DEF HttpTyped
  <2>2. "dropped" \in ClaimStates /\ "handed" \in ClaimStates BY DEF ClaimStates
  <2> QED BY <1>1, <2>1, <2>2
<1>11. SettleInv'
  <2>2. TakingInv' BY <1>2 DEF TakingInv
  <2>3. TakenInv' BY <1>1 DEF HttpInv, SettleInv, TakenInv
  <2> QED BY <2>2, <2>3 DEF SettleInv
<1>12. bodies' = Charges(ring')
  <2>1. bodies = Charges(ring) /\ Charges(ring) \in Nat BY <1>0, OctetsFinite DEF HttpInv
  <2> QED BY <1>1, <2>1, ChargesEmpty
<1>13. HttpTyped'
  <2>1. Marks' = Marks BY <1>1, MarksSame
  <2> QED BY <1>0, <1>1, <1>2, <1>10, <2>1 DEF HttpTyped
<1> QED BY <1>5, <1>6, <1>8, <1>9, <1>11, <1>12, <1>13 DEF HttpInv

(* The driver's first state.                                               *)
LEMMA InitInv == Init => HttpInv
<1> SUFFICES ASSUME Init PROVE HttpInv OBVIOUS
<1>1. /\ asked \in Scripts /\ sent = <<1, 1>> /\ got = <<1, 1>> /\ parsed = <<1, 1>>
      /\ pc = "expire" /\ want = FALSE /\ head_since = FALSE /\ ring = <<>> /\ writing = NoWrite
      /\ requests = 0 /\ close = FALSE /\ aborted = FALSE /\ taking = FALSE /\ taken = 0 /\ bodies = 0
      /\ wire = <<>> /\ interim = <<>> /\ claims = [r \in Request |-> "none"]
  BY DEF Init
<1>2. <<1, 1>> \in Marks
  <2>1. Len(asked) \in Nat /\ DOMAIN asked = 1..Len(asked) BY <1>1, AskedFacts
  <2>2. CASE Len(asked) = 0 BY <1>1, <2>2, MarkFacts
  <2>3. CASE Len(asked) # 0
    <3>1. 1 \in 1..Len(asked) BY <2>1, <2>3
    <3>2. Len(Pieces(1)) \in Nat /\ Len(Pieces(1)) >= 2 BY <1>1, <2>1, <3>1, PieceFacts
    <3>3. 1 \in 1..Len(Pieces(1)) BY <3>2
    <3> QED BY <1>1, <3>1, <3>3, MarkFacts
  <2> QED BY <2>2, <2>3
<1>3. /\ Len(ring) = 0 /\ DOMAIN ring = {} /\ Len(wire) = 0 /\ DOMAIN wire = {} /\ DOMAIN interim = {}
      /\ writing.count = 0 /\ writing.prefix = 0
  BY <1>1 DEF NoWrite
<1>4. HttpTyped
  <2>1. NoWrite \in [count : Nat, prefix : {0} \cup Request] BY DEF NoWrite
  <2>2. <<>> \in Seq(Entries) /\ <<>> \in Seq(Responses) /\ <<>> \in Seq([r : Request, after : Nat]) OBVIOUS
  <2>3. [r \in Request |-> "none"] \in [Request -> ClaimStates] BY DEF ClaimStates
  <2> QED BY <1>1, <1>2, <2>1, <2>2, <2>3 DEF HttpTyped
<1>5. ~BodyPending BY <1>1 DEF BodyPending
<1>6. StreamInv
  <2>1. MarkInv BY <1>1 DEF MarkInv, Precedes
  <2>2. HeadInv BY <1>1 DEF HeadInv
  <2> QED BY <1>5, <2>1, <2>2 DEF StreamInv, BodyInv
<1>7. RingInv
  <2>1. 0 <= MaxPipelined BY HttpAssumption
  <2> QED BY <1>1, <1>3, <2>1 DEF RingInv, StageInv, UpgradeInv, WritingInv
<1>8. OrderInv BY <1>1, <1>3 DEF OrderInv, NumberInv, EndInv, CountInv, OneEach
<1>9. ContinueInv BY <1>1, <1>3 DEF ContinueInv, OwedInv, PrefixInv, InterimInv, ContinueFirst
<1>10. SettleInv BY <1>1, <1>3 DEF SettleInv, TakingInv, TakenInv
<1> QED BY <1>1, <1>4, <1>6, <1>7, <1>8, <1>9, <1>10, ChargesEmpty DEF HttpInv

-----------------------------------------------------------------------------
(* A new entry at the ring's end, not charged with anything yet.           *)
Pushed(e) ==
  /\ ring' \in Seq(Entries) /\ Len(ring') = Len(ring) + 1
  /\ \A i \in 1..Len(ring) : ring'[i] = ring[i]
  /\ ring'[Len(ring) + 1] = e /\ Charges(ring') = Charges(ring)

(* The places of a ring with a new entry.                                  *)
LEMMA PushedFacts ==
  ASSUME ring \in Seq(Entries), NEW e \in Entries, Weight(e) = 0, ring' = Append(ring, e)
  PROVE  Pushed(e)
<1>1. PICK t : t = Append(ring, e) OBVIOUS
<1>2. /\ t \in Seq(Entries) /\ Len(t) = Len(ring) + 1
      /\ (\A i \in 1..Len(ring) : t[i] = ring[i]) /\ t[Len(ring) + 1] = e
  BY <1>1, AppendProperties
<1>3. Charges(t) = Charges(ring) BY <1>1, ChargesAppend
<1>4. ring' = t BY Zenon, <1>1
<1> QED BY Zenon, <1>2, <1>3, <1>4 DEF Pushed

(* The entry of the next request, while a head may be parsed, or the       *)
(* driver's answer to a head that timed out, possibly behind a response    *)
(* that ends the connection.                                               *)
LEMMA PushOrder ==
  ASSUME HttpInv, NEW e \in Entries, Pushed(e), e.r = requests + 1, e.claim = "none",
         e.stage # "done" => ~e.says, e.stage # "running", pc # "closed",
         (~close /\ ~taking) \/ (head_since /\ e.stage = "done" /\ e.says),
         close => close', taking' = taking, ~head_since', e.says => close',
         requests' = requests + 1 \/ (requests' = requests /\ close'),
         wire' = wire
  PROVE  /\ OrderInv'
         /\ taken # 0 => ~(\E k \in DOMAIN wire : wire[k].r = taken /\ wire[k].claim = "upgrade")
<1> USE DEF HttpInv, OrderInv
<1>0. HttpTyped /\ ring \in Seq(Entries) /\ ring' \in Seq(Entries) BY DEF HttpTyped, Pushed
<1>1. /\ Len(ring) \in Nat /\ DOMAIN ring = 1..Len(ring) /\ ((ring = <<>>) <=> (Len(ring) = 0))
      /\ \A i \in 1..Len(ring) : ring[i].r \in Nat
  BY <1>0, RingFacts
<1>2. /\ Len(ring') = Len(ring) + 1 /\ (\A i \in 1..Len(ring) : ring'[i] = ring[i])
      /\ ring'[Len(ring) + 1] = e
  BY DEF Pushed
<1>3. DOMAIN ring' = 1..(Len(ring) + 1) /\ ring' # <<>> BY <1>0, <1>1, <1>2, EntriesFacts
<1>4. /\ Len(wire) \in Nat /\ DOMAIN wire = 1..Len(wire) /\ requests \in Nat
      /\ \A k \in 1..Len(wire) : wire[k].r \in Nat \ {0}
  BY <1>0, WireFacts DEF HttpTyped
<1>5. \A i \in 1..(Len(ring) + 1) : i \in 1..Len(ring) \/ i = Len(ring) + 1 BY <1>1
<1>6. (\A i \in 1..Len(ring) : ring[i].r <= requests) /\ (\A k \in 1..Len(wire) : wire[k].r <= requests)
  BY <1>1, <1>4 DEF NumberInv
<1>7. NumberInv'
  <2>1. ASSUME NEW i \in 1..(Len(ring) + 1), NEW j \in 1..(Len(ring) + 1), i < j
        PROVE  ring'[i].r < ring'[j].r
    <3>1. Len(ring) \in Nat BY <1>1
    <3>2. i \in 1..Len(ring) BY <2>1, <3>1
    <3>3. CASE j \in 1..Len(ring) BY <1>1, <1>2, <2>1, <3>2, <3>3 DEF NumberInv
    <3>4. CASE j = Len(ring) + 1
      <4>1. ring[i].r \in Nat /\ ring[i].r <= requests BY <1>1, <1>6, <3>2
      <4>2. ring[i].r < requests + 1 BY <1>4, <4>1
      <4> QED BY <1>2, <3>2, <3>4, <4>2
    <3> QED BY <1>5, <3>3, <3>4
  <2>2. ASSUME NEW k \in 1..Len(wire), NEW i \in 1..(Len(ring) + 1) PROVE wire[k].r < ring'[i].r
    <3>1. CASE i \in 1..Len(ring) BY <1>1, <1>2, <1>4, <3>1 DEF NumberInv
    <3>2. CASE i = Len(ring) + 1
      <4>1. wire[k].r \in Nat /\ wire[k].r <= requests BY <1>4, <1>6
      <4>2. wire[k].r < requests + 1 BY <1>4, <4>1
      <4> QED BY <1>2, <3>2, <4>2
    <3> QED BY <1>5, <3>1, <3>2
  <2>3. ASSUME NEW i \in 1..(Len(ring) + 1) PROVE ring'[i].r <= requests' \/ (close' /\ ~head_since')
    <3>1. CASE close' BY <3>1
    <3>2. CASE ~close'
      <4>1. requests' = requests + 1 BY <3>2
      <4>2. CASE i \in 1..Len(ring)
        <5>1. ring[i].r \in Nat /\ ring[i].r <= requests BY <1>1, <1>6, <4>2
        <5>2. ring[i].r <= requests + 1 BY <1>4, <5>1
        <5> QED BY <1>2, <4>1, <4>2, <5>2
      <4>3. CASE i = Len(ring) + 1
        <5>1. requests + 1 <= requests + 1 BY <1>4
        <5> QED BY <1>2, <4>1, <4>3, <5>1
      <4> QED BY <1>5, <4>2, <4>3
    <3> QED BY <3>1, <3>2
  <2>4. ASSUME NEW k \in 1..Len(wire) PROVE wire[k].r <= requests' \/ (close' /\ ~head_since')
    <3>1. wire[k].r \in Nat /\ wire[k].r <= requests BY <1>4, <1>6
    <3>2. wire[k].r <= requests + 1 BY <1>4, <3>1
    <3> QED BY <3>2
  <2> QED BY <1>3, <1>4, <2>1, <2>2, <2>3, <2>4 DEF NumberInv
<1>8. EndInv'
  <2>1. ASSUME NEW i \in 1..(Len(ring) + 1), Ends(ring'[i])
        PROVE  /\ close' \/ taking'
               /\ i < Len(ring') => /\ i = Len(ring') - 1 /\ ~head_since'
                                    /\ ring'[i + 1].stage = "done" /\ ring'[i + 1].says
                                    /\ ring'[i + 1].claim = "none"
    <3>1. CASE i = Len(ring) + 1
      <4>1. close' BY <1>2, <2>1, <3>1 DEF Ends
      <4>2. ~(i < Len(ring')) BY <1>1, <1>2, <3>1
      <4> QED BY <4>1, <4>2
    <3>2. CASE i \in 1..Len(ring)
      <4>1. Ends(ring[i]) BY <1>2, <2>1, <3>2
      <4>2. close \/ taking BY <1>1, <3>2, <4>1 DEF EndInv
      <4>3. head_since /\ e.stage = "done" /\ e.says BY <4>2
      <4>4. ~(i < Len(ring)) BY <1>1, <3>2, <4>1, <4>3 DEF EndInv
      <4>5. Len(ring) \in Nat BY <1>1
      <4>6. i = Len(ring) BY <3>2, <4>4, <4>5
      <4>7. i = Len(ring') - 1 /\ i + 1 = Len(ring) + 1 BY <1>2, <4>5, <4>6
      <4> QED BY <1>2, <4>2, <4>3, <4>7
    <3> QED BY <1>5, <3>1, <3>2
  <2>2. ASSUME NEW k \in 1..Len(wire), Ends(wire[k])
        PROVE  /\ close' \/ taking'
               /\ k >= Len(wire) - 1
               /\ k = Len(wire) /\ Len(ring') <= 1
               /\ ring'[1].says /\ ring'[1].claim = "none" /\ ring'[1].stage = "done"
    <3>1. /\ close \/ taking
          /\ k >= Len(wire) - 1
          /\ k = Len(wire) => (ring # <<>> => ~head_since)
          /\ k # Len(wire) => ~head_since
      BY <1>4, <2>2 DEF EndInv
    <3>2. head_since /\ e.stage = "done" /\ e.says BY <3>1
    <3>3. k = Len(wire) /\ Len(ring) = 0 BY <1>1, <3>1, <3>2
    <3>4. Len(ring') = 1 /\ ring'[1] = e /\ 1 <= 1 BY <1>2, <3>3
    <3> QED BY <3>1, <3>2, <3>3, <3>4
  <2> QED BY <1>3, <1>4, <2>1, <2>2 DEF EndInv
<1>9. CountInv'
  <2>1. ASSUME WireOpen, RingOpen PROVE requests = Len(wire) + Len(ring)
    <3>1. Open \/ (head_since /\ pc # "closed") BY DEF Open
    <3> QED BY <2>1, <3>1 DEF CountInv
  <2>2. ASSUME WireOpen, NEW i \in 1..(Len(ring) + 1), \A j \in 1..(i - 1) : ~Ends(ring'[j])
        PROVE  ring'[i].r = Len(wire) + i
    <3>1. CASE i \in 1..Len(ring)
      <4>1. \A j \in 1..(i - 1) : j \in 1..Len(ring) BY <1>1, <3>1
      <4>2. \A j \in 1..(i - 1) : ~Ends(ring[j]) BY <1>2, <2>2, <4>1
      <4> QED BY <1>1, <1>2, <2>2, <3>1, <4>2 DEF CountInv
    <3>2. CASE i = Len(ring) + 1
      <4>1. \A j \in 1..Len(ring) : j \in 1..(i - 1) BY <1>1, <3>2
      <4>2. RingOpen BY <1>1, <1>2, <2>2, <4>1 DEF RingOpen
      <4>3. requests = Len(wire) + Len(ring) BY <2>1, <2>2, <4>2
      <4>4. Len(wire) \in Nat /\ Len(ring) \in Nat BY <1>1, <1>4
      <4>5. requests + 1 = Len(wire) + i BY <3>2, <4>3, <4>4
      <4> QED BY <1>2, <3>2, <4>5
    <3> QED BY <1>5, <3>1, <3>2
  <2>3. ASSUME WireOpen, RingOpen', Open' PROVE requests' = Len(wire) + Len(ring')
    <3>1. \A i \in 1..Len(ring) : i \in 1..(Len(ring) + 1) BY <1>1
    <3>2. RingOpen BY <1>1, <1>2, <1>3, <2>3, <3>1 DEF RingOpen
    <3>3. requests = Len(wire) + Len(ring) /\ requests' = requests + 1 BY <2>1, <2>3, <3>2 DEF Open
    <3>4. Len(wire) \in Nat /\ Len(ring) \in Nat BY <1>1, <1>4
    <3> QED BY <1>2, <3>3, <3>4
  <2>4. WireOpen' <=> WireOpen BY DEF WireOpen, Ends
  <2> QED BY <1>3, <2>2, <2>3, <2>4 DEF CountInv
<1>10. OneEach' BY DEF OneEach, Ends
<1>11. ASSUME taken # 0, NEW k \in DOMAIN wire, wire[k].r = taken, wire[k].claim = "upgrade" PROVE FALSE
  <2>1. taking /\ ~head_since BY <1>11 DEF SettleInv, TakenInv
  <2> QED BY <2>1
<1> QED BY <1>7, <1>8, <1>9, <1>10, <1>11

(* What is left to show of a step that pushes an entry.                    *)
LEMMA PushStep ==
  ASSUME HttpInv, NEW e \in Entries, Pushed(e), e.r = requests + 1, e.claim = "none",
         e.claiming = "none", e.stray = FALSE, e.close => e.says,
         e.stage # "done" => ~e.says, e.stage # "running", pc # "closed", pc' \in {"input", "start"},
         (~close /\ ~taking) \/ (head_since /\ e.stage = "done" /\ e.says),
         close => close', ~head_since', e.says => close',
         head_since' \in BOOLEAN, close' \in BOOLEAN,
         requests' = requests + 1 \/ (requests' = requests /\ close'),
         UNCHANGED <<asked, wire, interim, bodies, claims, taking, taken, writing, want, aborted, sent, got>>,
         Len(ring) < MaxPipelined,
         \A i \in 1..Len(ring) : ~ring[i].upgrade /\ ring[i].stage # "body",
         parsed' \in Marks, ~Precedes(got, parsed'),
         e.cont => e.stage = "body" /\ asked[e.r].expect = "continue",
         e.upgrade /\ e.stage # "body" /\ ~e.close => parsed' = <<e.r + 1, 1>>,
         ~close' /\ e.stage # "body" => parsed' = <<requests' + 1, 1>>,
         e.stage = "body" => /\ e.r = requests' /\ e.r \in DOMAIN asked
                             /\ e.left \in 1..Len(BodyPieces(asked[e.r].body))
                             /\ parsed' = <<requests', Len(Pieces(requests')) + 1 - e.left>>
  PROVE  HttpInv'
<1> USE DEF HttpInv
<1>0. HttpTyped /\ ring \in Seq(Entries) /\ ring' \in Seq(Entries) BY DEF HttpTyped, Pushed
<1>1. Len(ring) \in Nat /\ DOMAIN ring = 1..Len(ring) BY <1>0, RingFacts
<1>2. /\ Len(ring') = Len(ring) + 1 /\ (\A i \in 1..Len(ring) : ring'[i] = ring[i])
      /\ ring'[Len(ring) + 1] = e /\ Charges(ring') = Charges(ring)
  BY DEF Pushed
<1>3. DOMAIN ring' = 1..(Len(ring) + 1) /\ ring' # <<>> BY <1>0, <1>1, <1>2, EntriesFacts
<1>4. Last(ring') = e BY <1>2 DEF Last
<1>5. \A i \in 1..(Len(ring) + 1) : i \in 1..Len(ring) \/ i = Len(ring) + 1 BY <1>1
<1>6. /\ OrderInv'
      /\ taken # 0 => ~(\E k \in DOMAIN wire : wire[k].r = taken /\ wire[k].claim = "upgrade")
  BY PushOrder
<1>7. requests \in Nat /\ requests' \in Nat /\ requests <= requests' BY <1>0 DEF HttpTyped
<1>8. StreamInv'
  <2>1. MarkInv' BY StreamFacts DEF MarkInv
  <2>2. BodyPending' <=> e.stage = "body" BY <1>3, <1>4 DEF BodyPending
  <2>3. BodyInv'
    <3>1. Framing' = asked[e.r].body BY <1>4 DEF Framing
    <3>2. Pieces(requests)' = Pieces(requests') BY DEF Pieces
    <3> QED BY <1>4, <2>2, <3>1, <3>2 DEF BodyInv
  <2>4. HeadInv' BY <2>2 DEF HeadInv, Open
  <2> QED BY <2>1, <2>3, <2>4 DEF StreamInv
<1>9. StageInv'
  <2>1. Len(ring') <= MaxPipelined
    <3>1. Len(ring) \in Nat /\ MaxPipelined \in Nat BY <1>1, HttpAssumption
    <3> QED BY <1>2, <3>1
  <2>2. ASSUME NEW i \in 1..(Len(ring) + 1)
        PROVE  /\ ring'[i].stage = "body" => i = Len(ring')
               /\ ring'[i].stage # "done" => ring'[i].claim = "none" /\ ~ring'[i].says /\ ~ring'[i].close
               /\ ring'[i].close => Ends(ring'[i]) \/ ring'[i].upgrade
               /\ ring'[i].stage = "running" /\ i > 1 => \A j \in 1..i : ring'[j].safe
    <3>1. CASE i = Len(ring) + 1 BY <1>2, <3>1 DEF Ends
    <3>2. CASE i \in 1..Len(ring)
      <4>1. /\ ring[i].stage # "body"
            /\ ring[i].stage # "done" => ring[i].claim = "none" /\ ~ring[i].says /\ ~ring[i].close
            /\ ring[i].close => Ends(ring[i]) \/ ring[i].upgrade
            /\ ring[i].stage = "running" /\ i > 1 => \A j \in 1..i : ring[j].safe
        BY <1>1, <3>2 DEF RingInv, StageInv
      <4>2. \A j \in 1..i : j \in 1..Len(ring) BY <1>1, <3>2
      <4>3. ring'[i] = ring[i] /\ \A j \in 1..i : ring'[j] = ring[j] BY <1>2, <3>2, <4>2
      <4> QED BY <4>1, <4>3
    <3> QED BY <1>5, <3>1, <3>2
  <2> QED BY <1>3, <2>1, <2>2 DEF StageInv
<1>10. UpgradeInv'
  <2>1. ASSUME NEW i \in 1..(Len(ring) + 1), ring'[i].upgrade PROVE i = Len(ring') /\ ring'[i] = e
    BY <1>2, <1>5, <2>1
  <2> QED BY <1>3, <2>1 DEF UpgradeInv
<1>11. WritingInv'
  <2>1. /\ writing.count \in Nat /\ writing.count <= Len(ring)
        /\ \A i \in 1..writing.count : ring[i].stage = "done"
    BY <1>0 DEF HttpTyped, RingInv, WritingInv
  <2>2. Len(ring) \in Nat BY <1>1
  <2>3. writing.count <= Len(ring') BY <1>2, <2>1, <2>2
  <2>4. \A i \in 1..writing.count : i \in 1..Len(ring) BY <2>1, <2>2
  <2> QED BY <1>2, <2>1, <2>3, <2>4 DEF WritingInv
<1>12. ContinueInv'
  <2>1. \A k \in DOMAIN interim : interim[k].r <= requests /\ interim[k].r \in Nat
    BY <1>0, InterimFacts DEF HttpTyped, ContinueInv, InterimInv
  <2>2. \A k \in DOMAIN interim : interim[k].r # e.r /\ interim[k].r <= requests' BY <1>7, <2>1
  <2>3. OwedInv'
    <3>1. ASSUME NEW i \in 1..(Len(ring) + 1), ring'[i].cont
          PROVE  /\ ring'[i].stage = "body" /\ asked[ring'[i].r].expect = "continue"
                 /\ \A k \in DOMAIN interim : interim[k].r # ring'[i].r
      <4>1. CASE i = Len(ring) + 1 BY <1>2, <2>2, <3>1, <4>1
      <4>2. CASE i \in 1..Len(ring) BY <1>1, <1>2, <3>1, <4>2 DEF ContinueInv, OwedInv
      <4> QED BY <1>5, <4>1, <4>2
    <3> QED BY <1>3, <3>1 DEF OwedInv
  <2>4. PrefixInv'
    <3>1. ASSUME writing.prefix # 0
          PROVE  /\ writing.prefix <= requests'
                 /\ \A i \in 1..(Len(ring) + 1) : ring'[i].r >= writing.prefix
      <4>1. writing.prefix \in Nat /\ writing.prefix <= requests
        <5>1. Request \subseteq Nat BY HttpAssumption DEF Request
        <5> QED BY <1>0, <3>1, <5>1 DEF HttpTyped, ContinueInv, PrefixInv
      <4>2. writing.prefix <= requests' /\ e.r >= writing.prefix BY <1>7, <4>1
      <4>3. \A i \in 1..Len(ring) : ring[i].r >= writing.prefix BY <1>1, <3>1 DEF ContinueInv, PrefixInv
      <4> QED BY <1>2, <1>5, <4>2, <4>3
    <3> QED BY <1>3, <3>1 DEF ContinueInv, PrefixInv
  <2>5. InterimInv' BY <2>2 DEF ContinueInv, InterimInv
  <2>6. ContinueFirst' BY DEF ContinueInv, ContinueFirst
  <2> QED BY <2>3, <2>4, <2>5, <2>6 DEF ContinueInv
<1>13. SettleInv'
  <2>2. TakingInv'
    <3>1. ASSUME NEW i \in 1..(Len(ring) + 1)
          PROVE  /\ ring'[i].claim # "none" => taking
                 /\ (ring'[i].claim = "upgrade" \/ ring'[i].claiming = "upgrade") => ring'[i].upgrade
      <4>1. CASE i = Len(ring) + 1 BY <1>2, <4>1
      <4>2. CASE i \in 1..Len(ring) BY <1>1, <1>2, <4>2 DEF SettleInv, TakingInv
      <4> QED BY <1>5, <4>1, <4>2
    <3> QED BY <1>3, <3>1 DEF TakingInv
  <2>3. TakenInv'
    <3>1. \A k \in DOMAIN wire : wire[k].r # 0 BY <1>0, WireFacts DEF HttpTyped
    <3>2. ~(\E k \in DOMAIN wire : wire[k].r = taken /\ wire[k].claim = "upgrade") BY <1>6, <3>1
    <3>3. taken # 0 => taking /\ \E k \in DOMAIN wire : wire[k].r = taken /\ wire[k].claim # "none"
      BY DEF SettleInv, TakenInv
    <3> QED BY <3>2, <3>3 DEF TakenInv
  <2> QED BY <2>2, <2>3 DEF SettleInv
<1>14. HttpTyped'
  <2>1. Marks' = Marks BY MarksSame
  <2> QED BY <1>0, <1>7, <2>1 DEF HttpTyped
<1> QED BY <1>2, <1>6, <1>8, <1>9, <1>10, <1>11, <1>12, <1>13, <1>14 DEF RingInv

(* The entry of a request whose head was parsed, or not.                   *)
IsNewEntry(e, r, stage, complete, left, cont) ==
  /\ e = NewEntry(r, stage, complete, left, cont) /\ Weight(e) = 0
  /\ e.r = r /\ e.stage = stage /\ e.left = left /\ e.cont = cont
  /\ e.bytes = 0 /\ e.charge = 0 /\ e.claiming = "none" /\ e.claim = "none" /\ e.close = FALSE
  /\ e.says = FALSE /\ e.stray = FALSE

(* NewEntry is such an entry.                                              *)
LEMMA NewEntryFacts ==
  ASSUME NEW r \in Request, NEW stage \in Stages, NEW complete \in BOOLEAN, NEW left \in Nat,
         NEW cont \in BOOLEAN, complete => asked[r].safe \in BOOLEAN /\ asked[r].upgrade \in BOOLEAN
  PROVE  \E e \in Entries : IsNewEntry(e, r, stage, complete, left, cont)
<1>1. PICK s \in BOOLEAN : s = (complete /\ asked[r].safe) OBVIOUS
<1>2. PICK g \in BOOLEAN : g = (complete /\ asked[r].upgrade) OBVIOUS
<1>3. PICK e : e = [r |-> r, stage |-> stage, safe |-> s, upgrade |-> g, left |-> left, cont |-> cont,
                    bytes |-> 0, charge |-> 0, claiming |-> "none", claim |-> "none",
                    close |-> FALSE, says |-> FALSE, stray |-> FALSE]
  OBVIOUS
<1>4. "none" \in ClaimOf /\ 0 \in Nat BY DEF ClaimOf
<1>5. e \in Entries BY <1>3, <1>4 DEF Entries
<1>6. /\ e.r = r /\ e.stage = stage /\ e.upgrade = g /\ e.left = left /\ e.cont = cont
      /\ e.bytes = 0 /\ e.charge = 0 /\ e.claiming = "none" /\ e.claim = "none" /\ e.close = FALSE
      /\ e.says = FALSE /\ e.stray = FALSE
  BY <1>3
<1>7. e = NewEntry(r, stage, complete, left, cont) BY <1>1, <1>2, <1>3 DEF NewEntry
<1>8. Weight(e) = 0 BY <1>6 DEF Weight
<1> QED BY <1>5, <1>6, <1>7, <1>8 DEF IsNewEntry

(* The driver answers the next head itself and closes.                     *)
LEMMA AnswerNowStep ==
  ASSUME HttpInv, NEW complete \in BOOLEAN, AnswerNow(requests + 1, complete), pc # "closed",
         pc' \in {"input", "start"}, head_since' = FALSE, requests + 1 \in Request,
         complete => requests + 1 \in DOMAIN asked, Len(ring) < MaxPipelined,
         (~close /\ ~taking) \/ head_since, requests' = requests + 1 \/ requests' = requests,
         \A i \in 1..Len(ring) : ~ring[i].upgrade /\ ring[i].stage # "body",
         UNCHANGED <<asked, wire, interim, taking, taken, writing, want, aborted, sent>>
  PROVE  HttpInv'
<1>0. ring \in Seq(Entries) BY DEF HttpInv, HttpTyped
<1>1. complete => asked[requests + 1].safe \in BOOLEAN /\ asked[requests + 1].upgrade \in BOOLEAN
  BY StreamFacts, AskedFacts
<1>2. PICK e \in Entries :
        /\ e = NewEntry(requests + 1, "done", complete, 0, FALSE)
        /\ e.r = requests + 1 /\ e.stage = "done" /\ e.cont = FALSE
        /\ e.bytes = 0 /\ e.charge = 0 /\ e.claiming = "none" /\ e.claim = "none" /\ e.stray = FALSE
  <2>1. "done" \in Stages /\ 0 \in Nat /\ FALSE \in BOOLEAN BY DEF Stages
  <2>2. PICK e \in Entries : IsNewEntry(e, requests + 1, "done", complete, 0, FALSE)
    BY <1>1, <2>1, NewEntryFacts
  <2> QED BY <2>2 DEF IsNewEntry
<1>3. PICK f : f = [e EXCEPT !.close = TRUE, !.says = TRUE] OBVIOUS
<1>4. f \in Entries BY <1>3 DEF Entries
<1>5. /\ f.r = requests + 1 /\ f.stage = "done" /\ f.cont = FALSE /\ f.bytes = 0 /\ f.charge = 0
      /\ f.claiming = "none" /\ f.claim = "none" /\ f.close = TRUE /\ f.says = TRUE /\ f.stray = FALSE
  BY <1>2, <1>3 DEF Entries
<1>6. Weight(f) = 0 BY <1>5 DEF Weight
<1>7. /\ ring' = Append(ring, f) /\ parsed' = got /\ close' = TRUE
      /\ UNCHANGED <<got, bodies, claims>>
  BY <1>2, <1>3 DEF AnswerNow
<1>8. Pushed(f) BY <1>0, <1>4, <1>6, <1>7, PushedFacts
<1>9. parsed' \in Marks /\ ~Precedes(got, parsed') BY <1>7, StreamFacts, MarkOrder
<1>10. UNCHANGED <<got, bodies, claims>> /\ close' = TRUE BY <1>7
<1> QED BY <1>4, <1>5, <1>8, <1>9, <1>10, PushStep

(* A head that timed out, or that the codec rejects.                       *)
LEMMA ExpireHeadStep == ASSUME HttpInv, ExpireHead PROVE HttpInv'
<1>0. HttpTyped /\ ring \in Seq(Entries) BY DEF HttpInv, HttpTyped
<1>1. /\ Len(ring) \in Nat /\ DOMAIN ring = 1..Len(ring) BY <1>0, EntriesFacts
<1>2. /\ pc = "expire" /\ pc' = "input" /\ head_since /\ head_since' = FALSE
      /\ AnswerNow(requests + 1, FALSE)
      /\ UNCHANGED <<asked, wire, interim, requests, taking, taken, writing, want, aborted, sent>>
  BY DEF ExpireHead, Ticks, peerVars, takeVars, wireVars
<1>3. requests < MaxRequests /\ Len(ring) < MaxPipelined /\ ~BodyPending
  BY <1>2 DEF HttpInv, StreamInv, HeadInv
<1>4. requests + 1 \in Request
  <2>1. requests \in Nat /\ MaxRequests \in Nat BY <1>0, HttpAssumption DEF HttpTyped
  <2> QED BY <1>3, <2>1 DEF Request
<1>5. ASSUME NEW i \in 1..Len(ring) PROVE ~ring[i].upgrade /\ ring[i].stage # "body"
  <2>1. ~ring[i].upgrade BY <1>1, <1>2 DEF HttpInv, RingInv, UpgradeInv
  <2>2. ring # <<>> BY <1>0, <1>1, EntriesFacts
  <2>3. ring[i].stage = "body" => i = Len(ring) BY <1>1 DEF HttpInv, RingInv, StageInv
  <2>4. ring[i].stage # "body" BY <1>3, <2>2, <2>3 DEF BodyPending, Last
  <2> QED BY <2>1, <2>4
<1>6. FALSE \in BOOLEAN OBVIOUS
<1> QED BY <1>2, <1>3, <1>4, <1>5, <1>6, AnswerNowStep

(* A head the codec rejects.                                               *)
LEMMA ParseRejectStep == ASSUME HttpInv, ParseReject PROVE HttpInv'
<1>1. Parsing BY DEF ParseReject
<1>2. parsed[1] = requests + 1 BY <1>1, ParsingFacts
<1>3. /\ pc' = "start" /\ head_since' = FALSE /\ AnswerNow(requests + 1, FALSE)
      /\ UNCHANGED <<asked, wire, interim, requests, taking, taken, writing, want, aborted, sent>>
  BY <1>2 DEF ParseReject, inputFrame, peerVars, takeVars, wireVars
<1>4. FALSE \in BOOLEAN OBVIOUS
<1>5. /\ pc = "input" /\ ~close /\ ~taking /\ Len(ring) < MaxPipelined /\ requests + 1 \in Request
      /\ \A i \in 1..Len(ring) : ~ring[i].upgrade /\ ring[i].stage # "body"
  BY <1>1, ParsingFacts
<1> QED BY <1>3, <1>4, <1>5, AnswerNowStep

(* A complete head becomes an entry, or is refused.                        *)
LEMMA AcceptStep == ASSUME HttpInv, Accept PROVE HttpInv'
<1>1. Parsing /\ MoreInput BY DEF Accept
<1>2. /\ pc = "input" /\ ~close /\ ~taking /\ Len(ring) < MaxPipelined
      /\ parsed = <<requests + 1, 1>> /\ requests + 1 \in Request /\ requests + 1 \in DOMAIN asked
      /\ \A i \in 1..Len(ring) : ~ring[i].upgrade /\ ring[i].stage # "body"
  BY <1>1, ParsingFacts
<1>3. PICK q : q = requests + 1 OBVIOUS
<1>4. PICK kind : kind = asked[q] OBVIOUS
<1>5. PICK left : left = Len(BodyPieces(kind.body)) OBVIOUS
<1>6. PICK rest : rest = After(After(parsed)) OBVIOUS
<1>7. parsed[1] = q BY <1>2, <1>3
<1>8. /\ pc' = pc /\ requests' = q /\ head_since' = FALSE
      /\ UNCHANGED <<asked, wire, interim, taking, taken, writing, want, aborted, sent, got>>
      /\ \/ AnswerNow(q, TRUE)
         \/ /\ parsed' = rest /\ close' = (close \/ ~kind.keep \/ requests + 1 >= MaxServed)
            /\ ring' = Append(ring, NewEntry(q, IF left = 0 THEN "waiting" ELSE "body", TRUE, left,
                                             left > 0 /\ kind.expect = "continue" /\ rest = got))
            /\ UNCHANGED <<bodies, claims>>
  BY <1>3, <1>4, <1>5, <1>6, <1>7 DEF Accept, inputFrame, peerVars, takeVars, wireVars
<1>9. CASE AnswerNow(q, TRUE)
  <2>1. TRUE \in BOOLEAN OBVIOUS
  <2>2. /\ pc' = "input" /\ requests' = requests + 1 /\ AnswerNow(requests + 1, TRUE)
        /\ UNCHANGED <<asked, wire, interim, taking, taken, writing, want, aborted, sent>>
    BY <1>2, <1>3, <1>8, <1>9
  <2> QED BY <1>2, <1>8, <2>1, <2>2, AnswerNowStep
<1>10. CASE /\ parsed' = rest /\ close' = (close \/ ~kind.keep \/ requests + 1 >= MaxServed)
            /\ ring' = Append(ring, NewEntry(q, IF left = 0 THEN "waiting" ELSE "body", TRUE, left,
                                             left > 0 /\ kind.expect = "continue" /\ rest = got))
            /\ UNCHANGED <<bodies, claims>>
  <2>0. ring \in Seq(Entries) /\ requests \in Nat BY DEF HttpInv, HttpTyped
  <2>1. PICK stage \in Stages : stage = IF left = 0 THEN "waiting" ELSE "body" BY DEF Stages
  <2>2. PICK cont \in BOOLEAN : cont = (left > 0 /\ kind.expect = "continue" /\ rest = got) OBVIOUS
  <2>3. left \in Nat /\ Len(Pieces(q)) = 2 + left BY <1>2, <1>3, <1>4, <1>5, StreamFacts, PieceFacts
  <2>4. asked[q].safe \in BOOLEAN /\ asked[q].upgrade \in BOOLEAN /\ TRUE \in BOOLEAN
    BY <1>2, <1>3, StreamFacts, AskedFacts
  <2>5. PICK e \in Entries :
          /\ e = NewEntry(q, stage, TRUE, left, cont) /\ Weight(e) = 0
          /\ e.r = q /\ e.stage = stage /\ e.left = left /\ e.cont = cont
          /\ e.claiming = "none" /\ e.claim = "none" /\ e.close = FALSE /\ e.says = FALSE
          /\ e.stray = FALSE
    <3>1. PICK e \in Entries : IsNewEntry(e, q, stage, TRUE, left, cont)
      BY <1>2, <1>3, <2>3, <2>4, NewEntryFacts
    <3> QED BY <3>1 DEF IsNewEntry
  <2>6. ring' = Append(ring, e) BY <1>10, <2>1, <2>2, <2>5
  <2>7. Pushed(e) BY <2>0, <2>5, <2>6, PushedFacts
  <2>8. After(parsed) = <<q, 2>>
    <3>1. parsed[1] = q /\ parsed[2] = 1 BY <1>2, <1>3
    <3>2. 1 < Len(Pieces(q)) BY <2>3
    <3> QED BY <3>1, <3>2 DEF After
  <2>9. rest = IF left = 0 THEN <<q + 1, 1>> ELSE <<q, 3>>
    <3>1. PICK m : m = <<q, 2>> OBVIOUS
    <3>2. m[1] = q /\ m[2] = 2 BY <3>1
    <3>3. 2 < Len(Pieces(q)) <=> left # 0 BY <2>3
    <3> QED BY <1>6, <2>8, <3>1, <3>2, <3>3 DEF After
  <2>10. rest \in Marks /\ ~Precedes(got, rest)
    <3>1. Precedes(parsed, got) BY <1>1, ParsingFacts
    <3>2. parsed[1] <= Len(asked) BY <3>1, StreamFacts, MarkOrder
    <3>3. After(parsed) \in Marks /\ ~Precedes(got, After(parsed)) BY <3>1, <3>2, StreamFacts, AfterMark
    <3>4. PICK m \in Marks : m = After(parsed) BY <3>3
    <3>5. m # got BY <1>1, <3>4 DEF MoreInput
    <3>6. Precedes(m, got) /\ m[1] <= Len(asked) BY <3>3, <3>4, <3>5, StreamFacts, MarkOrder
    <3>7. After(m) \in Marks /\ ~Precedes(got, After(m)) BY <3>6, StreamFacts, AfterMark
    <3> QED BY <1>6, <3>4, <3>7
  <2>11. left # 0 => left \in 1..left /\ Len(Pieces(q)) + 1 - left = 3 BY <2>3
  <2>12. stage = "body" <=> left # 0 BY <2>1
  <2>13. stage # "done" /\ stage # "running" BY <2>1
  <2>14. close' \in BOOLEAN /\ (close => close') BY <1>10
  <2>15. cont => left # 0 /\ asked[q].expect = "continue"
    <3>1. cont => left > 0 /\ asked[q].expect = "continue" BY <1>4, <2>2
    <3>2. left > 0 => left # 0 BY <2>3
    <3> QED BY <3>1, <3>2
  <2>16. /\ e.r = requests + 1 /\ e.claim = "none" /\ ~e.close /\ ~e.says /\ e.stage # "done"
         /\ e.claiming = "none" /\ e.stray = FALSE
         /\ e.stage # "running"
         /\ e.cont => e.stage = "body" /\ asked[e.r].expect = "continue"
    BY <1>3, <2>5, <2>12, <2>13, <2>15
  <2>17. e.stage # "body" => parsed' = <<e.r + 1, 1>> /\ parsed' = <<requests' + 1, 1>>
    BY <1>8, <1>10, <2>5, <2>9, <2>12
  <2>18. e.stage = "body" => /\ e.r = requests' /\ e.r \in DOMAIN asked
                             /\ e.left \in 1..Len(BodyPieces(asked[e.r].body))
                             /\ parsed' = <<requests', Len(Pieces(requests')) + 1 - e.left>>
    BY <1>2, <1>3, <1>4, <1>5, <1>8, <1>10, <2>5, <2>9, <2>11, <2>12
  <2>19. /\ pc # "closed" /\ pc' \in {"input", "start"} /\ ~head_since' /\ head_since' \in BOOLEAN
         /\ requests' = requests + 1 /\ parsed' \in Marks /\ ~Precedes(got, parsed')
         /\ UNCHANGED <<asked, wire, interim, bodies, claims, taking, taken, writing, want, aborted, sent, got>>
    BY <1>2, <1>3, <1>8, <1>10, <2>10
  <2> QED BY <1>2, <2>7, <2>14, <2>16, <2>17, <2>18, <2>19, PushStep
<1> QED BY <1>8, <1>9, <1>10

-----------------------------------------------------------------------------
(* The first entry's 100 is written; if the entry is still in the ring it  *)
(* is not owed another.                                                    *)
LEMMA UnowedFacts ==
  ASSUME HttpInv, pc # "closed", UNCHANGED <<asked, wire, requests, close, taking, head_since>>,
         ring' = IF ring = <<>> THEN ring ELSE [ring EXCEPT ![1].cont = FALSE]
  PROVE  /\ RingEvolves /\ ring' \in Seq(Entries) /\ Len(ring') = Len(ring) /\ Charges(ring') = Charges(ring)
         /\ \A k \in 1..Len(ring) : /\ ring'[k].stage = ring[k].stage /\ ring'[k].left = ring[k].left
                                    /\ ring'[k].claim = ring[k].claim /\ ring'[k].r = ring[k].r
                                    /\ ring'[k].claiming = ring[k].claiming
                                    /\ ring'[k].cont => ring[k].cont /\ k # 1
<1>0. HttpTyped /\ ring \in Seq(Entries) BY DEF HttpInv, HttpTyped
<1>1. Len(ring) \in Nat /\ ((ring = <<>>) <=> (Len(ring) = 0)) BY <1>0, EntriesFacts
<1>2. \A k \in 1..Len(ring) : EntryEvolves(ring[k], ring[k])
  BY <1>0, EvolvesSame DEF HttpInv, RingInv, ContinueInv, SettleInv
<1>3. CASE ring = <<>>
  <2>1. ring' = ring BY <1>3
  <2>2. Len(ring) = 0 /\ \A k \in 1..Len(ring) : FALSE BY <1>1, <1>3
  <2>3. Len(ring') <= Len(ring) /\ ~(Len(ring') < Len(ring)) BY <1>1, <2>1
  <2>4. RingEvolves BY <1>2, <2>1, <2>2, <2>3 DEF RingEvolves
  <2> QED BY <1>0, <2>1, <2>2, <2>4
<1>4. CASE ring # <<>>
  <2>1. 1 \in 1..Len(ring) BY <1>1, <1>4
  <2>2. PICK e \in Entries : e = ring[1] BY <1>0, <2>1, EntriesFacts
  <2>3. PICK f : f = [e EXCEPT !.cont = FALSE] OBVIOUS
  <2>4. /\ f \in Entries /\ f.r = e.r /\ f.stage = e.stage /\ f.safe = e.safe /\ f.upgrade = e.upgrade
        /\ f.cont = FALSE /\ f.bytes = e.bytes /\ f.charge = e.charge /\ f.claim = e.claim
        /\ f.close = e.close /\ f.says = e.says /\ f.left = e.left
        /\ f.claiming = e.claiming /\ f.stray = e.stray
    BY <2>3 DEF Entries
  <2>5. ring' = [ring EXCEPT ![1] = f]
    <3>1. ring' = [ring EXCEPT ![1].cont = FALSE] BY <1>4
    <3> QED BY <1>0, <2>1, <2>2, <2>3, <3>1
  <2>6. EntryEvolves(ring[1], f) BY <1>2, <2>1, <2>2, <2>4 DEF EntryEvolves, Ends
  <2>7. Ends(f) => Ends(ring[1]) BY <2>2, <2>4 DEF Ends
  <2>8. /\ RingEvolves /\ ring' \in Seq(Entries) /\ Len(ring') = Len(ring)
        /\ ring'[1] = f /\ (\A k \in 1..Len(ring) : k # 1 => ring'[k] = ring[k])
        /\ Charges(ring') = Charges(ring) - Weight(ring[1]) + Weight(f)
    BY <2>1, <2>4, <2>5, <2>6, <2>7, OneEvolves
  <2>9. \A k \in 1..Len(ring) : /\ ring'[k].stage = ring[k].stage /\ ring'[k].left = ring[k].left
                                /\ ring'[k].claim = ring[k].claim /\ ring'[k].r = ring[k].r
                                /\ ring'[k].claiming = ring[k].claiming
                                /\ ring'[k].cont => ring[k].cont /\ k # 1
    BY <2>2, <2>4, <2>8
  <2>10. Charges(ring') = Charges(ring)
    <3>1. Weight(f) = Weight(ring[1]) /\ Weight(f) \in Nat BY <2>2, <2>4 DEF Weight, Entries
    <3>2. Charges(ring) \in Nat BY <1>0, OctetsFinite
    <3> QED BY <2>8, <3>1, <3>2
  <2> QED BY <2>8, <2>9, <2>10
<1> QED BY <1>3, <1>4

(* What else a finished write leaves alone.                                *)
LEMMA WroteContinueStep == ASSUME HttpInv, Wrote, WroteContinue PROVE HttpInv'
<1> USE DEF HttpInv
<1>0. HttpTyped /\ ring \in Seq(Entries) BY DEF HttpTyped
<1>1. /\ pc = "wait" /\ pc' = "expire" /\ writing.prefix # 0 /\ writing' = NoWrite
      /\ interim' = Append(interim, [r |-> writing.prefix, after |-> Len(wire)])
      /\ ring' = IF ring = <<>> THEN ring ELSE [ring EXCEPT ![1].cont = FALSE]
      /\ UNCHANGED <<asked, wire, requests, bodies, claims, taking, taken>>
      /\ UNCHANGED <<close, head_since, want, aborted, sent, got, parsed>>
  BY DEF Wrote, WroteContinue, Woken, peerVars, inputVars, holdVars
<1>2. /\ RingEvolves /\ ring' \in Seq(Entries) /\ Len(ring') = Len(ring) /\ Charges(ring') = Charges(ring)
      /\ \A k \in 1..Len(ring) : /\ ring'[k].stage = ring[k].stage /\ ring'[k].left = ring[k].left
                                 /\ ring'[k].claim = ring[k].claim /\ ring'[k].r = ring[k].r
                                 /\ ring'[k].cont => ring[k].cont /\ k # 1
  BY <1>1, UnowedFacts
<1>3. /\ Len(ring) \in Nat /\ DOMAIN ring = 1..Len(ring) /\ DOMAIN ring' = 1..Len(ring)
      /\ \A i \in 1..Len(ring) : ring[i].r \in Nat
  BY <1>0, <1>2, RingFacts, EntriesFacts
<1>4. BodyInv' /\ HeadInv' /\ OrderInv' /\ StageInv' /\ UpgradeInv' BY <1>1, <1>2, InPlace
<1>5. WritingInv'
  <2>1. writing'.count = 0 BY <1>1 DEF NoWrite
  <2>2. 0 <= Len(ring) BY <1>3
  <2> QED BY <1>2, <2>1, <2>2 DEF WritingInv
<1>6. SettleInv'
  BY <1>0, <1>1, <1>2, EvolveSettle DEF RingInv
<1>7. PICK p : p = writing.prefix OBVIOUS
<1>8. /\ p \in Request /\ p \in Nat /\ p <= requests /\ asked[p].expect = "continue"
      /\ \A k \in DOMAIN interim : interim[k].r # p
      /\ \A k \in DOMAIN wire : wire[k].r # p
      /\ \A i \in DOMAIN ring : ring[i].r >= p
  <2>1. Request \subseteq Nat BY HttpAssumption DEF Request
  <2> QED BY <1>0, <1>1, <1>7, <2>1 DEF HttpTyped, ContinueInv, PrefixInv
<1>9. Len(wire) \in Nat /\ DOMAIN wire = 1..Len(wire) BY <1>0, WireFacts DEF HttpTyped
<1>10. PICK w \in [r : Request, after : Nat] : w = [r |-> p, after |-> Len(wire)] BY <1>8, <1>9
<1>11. w.r = p /\ w.after = Len(wire) BY <1>10
<1>12. /\ interim \in Seq([r : Request, after : Nat]) /\ Len(interim) \in Nat
       /\ DOMAIN interim = 1..Len(interim)
  BY <1>0, InterimFacts DEF HttpTyped
<1>13. /\ interim' \in Seq([r : Request, after : Nat]) /\ Len(interim') = Len(interim) + 1
       /\ DOMAIN interim' = 1..(Len(interim) + 1)
       /\ \A k \in 1..Len(interim) : interim'[k] = interim[k]
       /\ interim'[Len(interim) + 1] = w
  <2>1. PICK S : S = [r : Request, after : Nat] OBVIOUS
  <2>2. interim \in Seq(S) /\ w \in S BY <1>10, <1>12, <2>1
  <2>3. PICK t : t = Append(interim, w) OBVIOUS
  <2>4. /\ t \in Seq(S) /\ Len(t) = Len(interim) + 1 /\ t[Len(interim) + 1] = w
        /\ \A k \in 1..Len(interim) : t[k] = interim[k]
    BY <2>2, <2>3, AppendProperties
  <2>5. DOMAIN t = 1..Len(t) BY <2>4
  <2>6. interim' = t BY <1>1, <1>7, <1>10, <2>3
  <2> QED BY <2>1, <2>4, <2>5, <2>6
<1>14. \A k \in 1..(Len(interim) + 1) : k \in 1..Len(interim) \/ k = Len(interim) + 1 BY <1>12
<1>15. OwedInv'
  <2>1. ASSUME NEW i \in 1..Len(ring), ring'[i].cont
        PROVE  /\ ring'[i].stage = "body" /\ asked[ring'[i].r].expect = "continue"
               /\ \A k \in 1..(Len(interim) + 1) : interim'[k].r # ring'[i].r
    <3>1. ring[i].cont /\ i # 1 BY <1>2, <2>1
    <3>2. /\ ring[i].stage = "body" /\ asked[ring[i].r].expect = "continue"
          /\ \A k \in DOMAIN interim : interim[k].r # ring[i].r
      BY <1>3, <3>1 DEF ContinueInv, OwedInv
    <3>3. Len(ring) \in Nat BY <1>3
    <3>4. 1 \in 1..Len(ring) /\ 1 < i BY <3>1, <3>3
    <3>5. ring[1].r < ring[i].r /\ ring[1].r >= p BY <1>3, <1>8, <3>4 DEF OrderInv, NumberInv
    <3>6. ring[1].r \in Nat /\ ring[i].r \in Nat BY <1>3, <3>4
    <3>7. p # ring[i].r BY <1>8, <3>5, <3>6
    <3>8. \A k \in 1..(Len(interim) + 1) : interim'[k].r # ring[i].r
      BY <1>11, <1>12, <1>13, <1>14, <3>2, <3>7
    <3> QED BY <1>2, <3>2, <3>8
  <2> QED BY <1>1, <1>3, <1>13, <2>1 DEF OwedInv
<1>16. PrefixInv'
  <2>1. writing'.prefix = 0 BY <1>1 DEF NoWrite
  <2> QED BY <2>1 DEF PrefixInv
<1>17. InterimInv'
  <2>1. \A k \in 1..Len(interim) : interim[k].r <= requests /\ interim[k].after <= Len(wire)
    BY <1>12 DEF ContinueInv, InterimInv
  <2>2. Len(wire) <= Len(wire) BY <1>9
  <2>3. \A k \in 1..(Len(interim) + 1) : interim'[k].r <= requests /\ interim'[k].after <= Len(wire)
    BY <1>8, <1>11, <1>13, <1>14, <2>1, <2>2
  <2> QED BY <1>1, <1>13, <2>3 DEF InterimInv
<1>18. ContinueFirst'
  <2>1. ASSUME NEW k \in 1..(Len(interim) + 1)
        PROVE  /\ asked[interim'[k].r].expect = "continue"
               /\ \A j \in 1..(k - 1) : interim'[j].r # interim'[k].r
               /\ \A j \in 1..interim'[k].after : wire[j].r # interim'[k].r
    <3>0. Len(interim) \in Nat BY <1>12
    <3>1. \A j \in 1..(k - 1) : j \in 1..Len(interim) BY <3>0
    <3>2. CASE k \in 1..Len(interim)
      <4>1. /\ asked[interim[k].r].expect = "continue"
            /\ \A j \in 1..(k - 1) : interim[j].r # interim[k].r
            /\ \A j \in 1..interim[k].after : wire[j].r # interim[k].r
        BY <1>12, <3>2 DEF ContinueInv, ContinueFirst
      <4> QED BY <1>13, <3>1, <3>2, <4>1
    <3>3. CASE k = Len(interim) + 1
      <4>1. interim'[k] = w BY <1>13, <3>3
      <4>2. \A j \in 1..(k - 1) : interim'[j].r # p BY <1>8, <1>12, <1>13, <3>1
      <4> QED BY <1>8, <1>9, <1>11, <4>1, <4>2
    <3> QED BY <1>14, <3>2, <3>3
  <2> QED BY <1>1, <1>13, <2>1 DEF ContinueFirst
<1>19. HttpTyped'
  <2>1. Marks' = Marks BY <1>1, MarksSame
  <2>2. NoWrite \in [count : Nat, prefix : {0} \cup Request] BY DEF NoWrite
  <2> QED BY <1>0, <1>1, <1>2, <1>13, <2>1, <2>2 DEF HttpTyped
<1>20. MarkInv' BY <1>1 DEF StreamInv, MarkInv
<1>21. bodies' = Charges(ring') BY <1>1, <1>2
<1> QED BY <1>4, <1>5, <1>6, <1>15, <1>16, <1>17, <1>18, <1>19, <1>20, <1>21
        DEF StreamInv, RingInv, ContinueInv

-----------------------------------------------------------------------------
(* The first n entries are written: they are on the wire, and the others,  *)
(* unless one of the n closes the connection, are the ring.                *)
Written(n) ==
  /\ n \in 1..Len(ring)
  /\ wire' \in Seq(Responses) /\ Len(wire') = Len(wire) + n
  /\ \A k \in 1..Len(wire) : wire'[k] = wire[k]
  /\ \A k \in 1..n : /\ wire'[Len(wire) + k].r = ring[k].r /\ wire'[Len(wire) + k].says = ring[k].says
                     /\ wire'[Len(wire) + k].claim = ring[k].claim
                     /\ wire'[Len(wire) + k].stray = ring[k].stray /\ ring[k].stage = "done"
  /\ ring' \in Seq(Entries)
  /\ \/ Len(ring') = Len(ring) - n
     \/ Len(ring') = 0 /\ close' /\ \E k \in 1..n : ring[k].close
  /\ \A i \in 1..Len(ring') : ring'[i] = ring[n + i]

(* The places of ring and wire before and after.                           *)
LEMMA WrittenPlaces ==
  ASSUME HttpInv, NEW n, Written(n)
  PROVE  /\ n \in 1..Len(ring) /\ n \in Nat \ {0}
         /\ DOMAIN ring = 1..Len(ring) /\ DOMAIN wire = 1..Len(wire)
         /\ DOMAIN ring' = 1..Len(ring') /\ DOMAIN wire' = 1..Len(wire')
         /\ ring # <<>> /\ ((ring' = <<>>) <=> (Len(ring') = 0))
         /\ \A i \in 1..Len(ring') : n + i \in 1..Len(ring) /\ ring'[i] = ring[n + i]
         /\ \A k \in 1..Len(wire') : /\ k \in 1..Len(wire) \/ k - Len(wire) \in 1..n
                                     /\ k \in 1..Len(wire) => wire'[k] = wire[k]
                                     /\ \A j \in 1..n : k - Len(wire) = j =>
                                          /\ wire'[k].r = ring[j].r /\ wire'[k].says = ring[j].says
                                          /\ wire'[k].claim = ring[j].claim
                                          /\ wire'[k].stray = ring[j].stray
         /\ \A j \in 1..n : j \in 1..Len(ring)
<1>0. HttpTyped /\ ring \in Seq(Entries) /\ ring' \in Seq(Entries) /\ wire' \in Seq(Responses)
  BY DEF HttpInv, HttpTyped, Written
<1>1. /\ Len(ring) \in Nat /\ DOMAIN ring = 1..Len(ring) /\ ((ring = <<>>) <=> (Len(ring) = 0))
      /\ Len(ring') \in Nat /\ DOMAIN ring' = 1..Len(ring') /\ ((ring' = <<>>) <=> (Len(ring') = 0))
  BY <1>0, EntriesFacts
<1>2. Len(wire) \in Nat /\ DOMAIN wire = 1..Len(wire) BY <1>0, WireFacts DEF HttpTyped
<1>3. DOMAIN wire' = 1..Len(wire') /\ Len(wire') = Len(wire) + n BY <1>0 DEF Written
<1>4. n \in 1..Len(ring) BY DEF Written
<1>5. Len(ring) \in Nat /\ Len(ring') \in Nat /\ Len(wire) \in Nat BY <1>1, <1>2
<1>6. n \in Nat \ {0} /\ n <= Len(ring) BY <1>4, <1>5
<1>7. Len(ring') = Len(ring) - n \/ Len(ring') = 0 BY DEF Written
<1>8. \A i \in 1..Len(ring') : n + i \in 1..Len(ring) BY <1>5, <1>6, <1>7
<1>9. \A i \in 1..Len(ring') : ring'[i] = ring[n + i] BY DEF Written
<1>10. ASSUME NEW k \in 1..Len(wire')
       PROVE  /\ k \in 1..Len(wire) \/ k - Len(wire) \in 1..n
              /\ k \in 1..Len(wire) => wire'[k] = wire[k]
              /\ \A j \in 1..n : k - Len(wire) = j =>
                   /\ wire'[k].r = ring[j].r /\ wire'[k].says = ring[j].says
                   /\ wire'[k].claim = ring[j].claim /\ wire'[k].stray = ring[j].stray
  <2>1. k \in Nat /\ k <= Len(wire) + n /\ k >= 1 BY <1>3, <1>5, <1>6
  <2>2. k \in 1..Len(wire) \/ k - Len(wire) \in 1..n BY <1>5, <1>6, <2>1
  <2>3. k \in 1..Len(wire) => wire'[k] = wire[k] BY DEF Written
  <2>4. ASSUME NEW j \in 1..n, k - Len(wire) = j
        PROVE  /\ wire'[k].r = ring[j].r /\ wire'[k].says = ring[j].says
               /\ wire'[k].claim = ring[j].claim /\ wire'[k].stray = ring[j].stray
    <3>1. k = Len(wire) + j BY <1>5, <2>1, <2>4
    <3> QED BY <3>1 DEF Written
  <2> QED BY <2>2, <2>3, <2>4
<1>11. \A j \in 1..n : j \in 1..Len(ring) BY <1>5, <1>6
<1>12. ring # <<>> BY <1>1, <1>6
<1> QED BY <1>1, <1>2, <1>3, <1>4, <1>6, <1>8, <1>9, <1>10, <1>11, <1>12

(* What is written ends the connection when its entry did.                 *)
LEMMA WrittenEnds ==
  ASSUME HttpInv, NEW n, Written(n), NEW k \in 1..Len(wire'), NEW j \in 1..n, k - Len(wire) = j
  PROVE  Ends(wire'[k]) <=> Ends(ring[j])
BY WrittenPlaces DEF Ends

(* The numbers, through ring and wire.                                     *)
LEMMA WrittenNumbers ==
  ASSUME HttpInv, NEW n, Written(n), requests' = requests, head_since' = head_since, close => close'
  PROVE  NumberInv'
<1> USE DEF HttpInv, OrderInv
<1>0. /\ Len(ring) \in Nat /\ Len(ring') \in Nat /\ Len(wire) \in Nat /\ n \in Nat
  BY WrittenPlaces, RingFacts, WireFacts, EntriesFacts DEF HttpTyped, Written
<1>1. \A i, j \in 1..Len(ring) : i < j => ring[i].r < ring[j].r BY WrittenPlaces DEF NumberInv
<1>2. \A k \in 1..Len(wire), i \in 1..Len(ring) : wire[k].r < ring[i].r BY WrittenPlaces DEF NumberInv
<1>3. /\ \A i \in 1..Len(ring) : ring[i].r <= requests \/ (close' /\ ~head_since')
      /\ \A k \in 1..Len(wire) : wire[k].r <= requests \/ (close' /\ ~head_since')
  BY WrittenPlaces DEF NumberInv
<1>8. /\ \A i \in 1..Len(ring') : n + i \in 1..Len(ring) /\ ring'[i] = ring[n + i]
      /\ \A j \in 1..n : j \in 1..Len(ring)
  BY WrittenPlaces
<1>9. \A k \in 1..Len(wire') : /\ k \in 1..Len(wire) \/ k - Len(wire) \in 1..n
                               /\ k \in 1..Len(wire) => wire'[k] = wire[k]
                               /\ \A j \in 1..n : k - Len(wire) = j => wire'[k].r = ring[j].r
  BY WrittenPlaces
<1>4. ASSUME NEW i \in 1..Len(ring'), NEW j \in 1..Len(ring'), i < j PROVE ring'[i].r < ring'[j].r
  <2>1. n + i < n + j BY <1>0, <1>4
  <2> QED BY <1>1, <1>8, <2>1
<1>5. ASSUME NEW k \in 1..Len(wire'), NEW i \in 1..Len(ring') PROVE wire'[k].r < ring'[i].r
  <2>1. CASE k \in 1..Len(wire) BY <1>2, <1>8, <1>9, <2>1
  <2>2. CASE k - Len(wire) \in 1..n
    <3>1. PICK j \in 1..n : j = k - Len(wire) BY <2>2
    <3>2. j < n + i BY <1>0
    <3>3. ring[j].r < ring[n + i].r BY <1>1, <1>8, <3>2
    <3> QED BY <1>8, <1>9, <3>1, <3>3
  <2> QED BY <1>9, <2>1, <2>2
<1>6. ASSUME NEW k \in 1..Len(wire') PROVE wire'[k].r <= requests \/ (close' /\ ~head_since')
  <2>1. CASE k \in 1..Len(wire) BY <1>3, <1>9, <2>1
  <2>2. CASE k - Len(wire) \in 1..n
    <3>1. PICK j \in 1..n : j = k - Len(wire) BY <2>2
    <3> QED BY <1>3, <1>8, <1>9, <3>1
  <2> QED BY <1>9, <2>1, <2>2
<1>7. \A i \in 1..Len(ring') : ring'[i].r <= requests \/ (close' /\ ~head_since') BY <1>3, <1>8
<1> QED BY <1>4, <1>5, <1>6, <1>7, WrittenPlaces DEF NumberInv

(* What ends the connection, through ring and wire.                        *)
LEMMA WrittenEnd ==
  ASSUME HttpInv, NEW n, Written(n), head_since' = head_since, close => close', taking' = taking
  PROVE  EndInv'
<1> USE DEF HttpInv, OrderInv
<1>0. /\ Len(ring) \in Nat /\ Len(ring') \in Nat /\ Len(wire) \in Nat /\ n \in Nat /\ n > 0 /\ n <= Len(ring)
      /\ Len(wire') = Len(wire) + n
  <2>1. Len(ring) \in Nat /\ Len(ring') \in Nat /\ Len(wire) \in Nat /\ n \in Nat \ {0} /\ n \in 1..Len(ring)
    BY WrittenPlaces, RingFacts, WireFacts, EntriesFacts DEF HttpTyped, Written
  <2>2. Len(wire') = Len(wire) + n BY DEF Written
  <2> QED BY <2>1, <2>2
<1>1. /\ \A i \in 1..Len(ring') : n + i \in 1..Len(ring) /\ ring'[i] = ring[n + i]
      /\ \A j \in 1..n : j \in 1..Len(ring)
  BY WrittenPlaces
<1>2. \A k \in 1..Len(wire') : /\ k \in 1..Len(wire) \/ k - Len(wire) \in 1..n
                               /\ k \in 1..Len(wire) => wire'[k] = wire[k]
  BY WrittenPlaces
<1>3. /\ DOMAIN ring = 1..Len(ring) /\ DOMAIN wire = 1..Len(wire) /\ DOMAIN ring' = 1..Len(ring')
      /\ DOMAIN wire' = 1..Len(wire') /\ ring # <<>> /\ ((ring' = <<>>) <=> (Len(ring') = 0))
  BY WrittenPlaces
<1>4. Len(ring') = Len(ring) - n \/ Len(ring') = 0 BY DEF Written
<1>5. \A i \in 1..Len(ring) : Ends(ring[i]) =>
        /\ close \/ taking
        /\ i < Len(ring) => /\ i = Len(ring) - 1 /\ ~head_since
                            /\ ring[i + 1].stage = "done" /\ ring[i + 1].says /\ ring[i + 1].claim = "none"
  BY <1>3 DEF EndInv
<1>6. ASSUME NEW i \in 1..Len(ring'), Ends(ring'[i])
      PROVE  /\ close' \/ taking'
             /\ i < Len(ring') => /\ i = Len(ring') - 1 /\ ~head_since'
                                  /\ ring'[i + 1].stage = "done" /\ ring'[i + 1].says
                                  /\ ring'[i + 1].claim = "none"
  <2>1. n + i \in 1..Len(ring) /\ Ends(ring[n + i]) BY <1>1, <1>6
  <2>2. close \/ taking BY <1>5, <2>1
  <2>3. ASSUME i < Len(ring')
        PROVE  /\ i = Len(ring') - 1 /\ ~head_since'
               /\ ring'[i + 1].stage = "done" /\ ring'[i + 1].says /\ ring'[i + 1].claim = "none"
    <3>1. i \in Nat /\ i \in 1..Len(ring') BY <1>0
    <3>2. Len(ring') = Len(ring) - n BY <1>0, <1>4, <2>3, <3>1
    <3>3. n + i < Len(ring) BY <1>0, <2>3, <3>1, <3>2
    <3>4. /\ n + i = Len(ring) - 1 /\ ~head_since
          /\ ring[n + i + 1].stage = "done" /\ ring[n + i + 1].says /\ ring[n + i + 1].claim = "none"
      BY <1>5, <2>1, <3>3
    <3>5. n + i = Len(ring) - 1 BY <3>4
    <3>6. i = Len(ring') - 1 /\ i + 1 \in 1..Len(ring') /\ n + (i + 1) = n + i + 1
      BY <1>0, <3>1, <3>2, <3>5
    <3> QED BY <1>1, <3>4, <3>6
  <2> QED BY <2>2, <2>3
<1>7. ASSUME NEW k \in 1..Len(wire'), Ends(wire'[k])
      PROVE  /\ close' \/ taking'
             /\ k >= Len(wire') - 1
             /\ k = Len(wire') => /\ Len(ring') <= 1
                                  /\ ring' # <<>> => /\ ~head_since' /\ ring'[1].says
                                                     /\ ring'[1].claim = "none" /\ ring'[1].stage = "done"
             /\ k # Len(wire') => ring' = <<>> /\ ~head_since'
  <2>0. k \in Nat BY <1>0
  <2>1. CASE k \in 1..Len(wire)
    <3>1. k \in DOMAIN wire /\ Ends(wire[k]) BY <1>2, <1>3, <1>7, <2>1
    <3>2. /\ close \/ taking
          /\ k = Len(wire) => Len(ring) <= 1 /\ (ring # <<>> => ~head_since)
          /\ k # Len(wire) => ring = <<>>
      BY <3>1 DEF EndInv
    <3>3. k = Len(wire) /\ Len(ring) <= 1 /\ ~head_since BY <1>3, <3>2
    <3>4. k = Len(wire) /\ Len(ring) <= 1 BY <3>3
    <3>5. n = 1 /\ Len(ring') = 0 /\ k # Len(wire') /\ k >= Len(wire') - 1 BY <1>0, <1>4, <3>4
    <3> QED BY <1>3, <3>2, <3>3, <3>5
  <2>2. CASE k - Len(wire) \in 1..n
    <3>1. PICK j \in 1..n : j = k - Len(wire) BY <2>2
    <3>2. Ends(ring[j]) /\ j \in 1..Len(ring) BY <1>1, <1>7, <3>1, WrittenEnds
    <3>3. /\ close \/ taking
          /\ j < Len(ring) => /\ j = Len(ring) - 1 /\ ~head_since
                              /\ ring[j + 1].stage = "done" /\ ring[j + 1].says /\ ring[j + 1].claim = "none"
      BY <1>5, <3>2
    <3>4. j < Len(ring) => j = Len(ring) - 1 BY <3>3
    <3>5. j \in Nat /\ j <= n /\ j <= Len(ring) /\ k = Len(wire) + j BY <1>0, <2>0, <3>1
    <3>6. k >= Len(wire') - 1 BY <1>0, <3>4, <3>5
    <3>7. ASSUME k = Len(wire'), ring' # <<>>
          PROVE  /\ ~head_since' /\ ring'[1].says /\ ring'[1].claim = "none" /\ ring'[1].stage = "done"
      <4>1. Len(ring') # 0 BY <1>3, <3>7
      <4>2. j = n /\ 1 \in 1..Len(ring') /\ j < Len(ring) BY <1>0, <1>4, <3>5, <3>7, <4>1
      <4>3. ring'[1] = ring[j + 1] BY <1>1, <4>2
      <4> QED BY <3>3, <4>2, <4>3
    <3>8. k = Len(wire') => Len(ring') <= 1 BY <1>0, <1>4, <3>4, <3>5
    <3>9. ASSUME k # Len(wire') PROVE ring' = <<>> /\ ~head_since'
      <4>1. j < n /\ j < Len(ring) BY <1>0, <3>5, <3>9
      <4>2. Len(ring') = 0 BY <1>0, <1>4, <3>4, <3>5, <4>1
      <4> QED BY <1>3, <3>3, <4>1, <4>2
    <3> QED BY <3>3, <3>6, <3>7, <3>8, <3>9
  <2> QED BY <1>2, <2>1, <2>2
<1> QED BY <1>3, <1>6, <1>7 DEF EndInv

(* No request is skipped in the ring or on the wire.                       *)
LEMMA WrittenCount ==
  ASSUME HttpInv, NEW n, Written(n), EndInv', NumberInv', requests' = requests, head_since' = head_since,
         close => close', taking' = taking, pc # "closed"
  PROVE  CountInv' /\ OneEach'
<1> USE DEF HttpInv, OrderInv
<1>0. /\ Len(ring) \in Nat /\ Len(ring') \in Nat /\ Len(wire) \in Nat /\ n \in Nat /\ n > 0 /\ n <= Len(ring)
      /\ Len(wire') = Len(wire) + n
  <2>1. Len(ring) \in Nat /\ Len(ring') \in Nat /\ Len(wire) \in Nat /\ n \in Nat \ {0} /\ n \in 1..Len(ring)
    BY WrittenPlaces, RingFacts, WireFacts, EntriesFacts DEF HttpTyped, Written
  <2>2. Len(wire') = Len(wire) + n BY DEF Written
  <2> QED BY <2>1, <2>2
<1>1. /\ \A i \in 1..Len(ring') : n + i \in 1..Len(ring) /\ ring'[i] = ring[n + i]
      /\ \A j \in 1..n : j \in 1..Len(ring)
  BY WrittenPlaces
<1>2. \A k \in 1..Len(wire') : /\ k \in 1..Len(wire) \/ k - Len(wire) \in 1..n
                               /\ k \in 1..Len(wire) => wire'[k] = wire[k]
                               /\ \A j \in 1..n : k - Len(wire) = j => wire'[k].r = ring[j].r
  BY WrittenPlaces
<1>3. /\ DOMAIN ring = 1..Len(ring) /\ DOMAIN wire = 1..Len(wire) /\ DOMAIN ring' = 1..Len(ring')
      /\ DOMAIN wire' = 1..Len(wire')
  BY WrittenPlaces
<1>4. \A k \in 1..Len(wire) : k \in 1..Len(wire') BY <1>0
<1>5. \A j \in 1..n : Len(wire) + j \in 1..Len(wire') /\ (Len(wire) + j) - Len(wire) = j BY <1>0
<1>6. \A j \in 1..n : Ends(wire'[Len(wire) + j]) <=> Ends(ring[j]) BY <1>5, WrittenEnds
<1>7. ASSUME WireOpen' PROVE WireOpen /\ \A j \in 1..n : ~Ends(ring[j])
  <2>1. \A k \in 1..Len(wire') : ~Ends(wire'[k]) BY <1>3, <1>7 DEF WireOpen
  <2>2. WireOpen BY <1>2, <1>3, <1>4, <2>1 DEF WireOpen
  <2> QED BY <1>5, <1>6, <2>1, <2>2
<1>8. ASSUME WireOpen, NEW i \in 1..Len(ring), \A j \in 1..(i - 1) : ~Ends(ring[j])
      PROVE  ring[i].r = Len(wire) + i
  BY <1>3, <1>8 DEF CountInv
<1>9. CountInv'
  <2>1. ASSUME WireOpen', NEW i \in 1..Len(ring'), \A j \in 1..(i - 1) : ~Ends(ring'[j])
        PROVE  ring'[i].r = Len(wire') + i
    <3>1. ASSUME NEW j \in 1..((n + i) - 1) PROVE ~Ends(ring[j])
      <4>1. CASE j \in 1..n BY <1>7, <2>1, <4>1
      <4>2. CASE j - n \in 1..(i - 1)
        <5>1. j - n \in 1..Len(ring') /\ n + (j - n) = j BY <1>0, <4>2
        <5>2. ring'[j - n] = ring[j] BY <1>1, <5>1
        <5> QED BY <2>1, <4>2, <5>2
      <4>3. j \in 1..n \/ j - n \in 1..(i - 1) BY <1>0
      <4> QED BY <4>1, <4>2, <4>3
    <3>2. PICK q \in 1..Len(ring) : q = n + i BY <1>1
    <3>3. ring[q].r = Len(wire) + q BY <1>7, <1>8, <2>1, <3>1, <3>2
    <3>4. Len(wire) + (n + i) = Len(wire') + i BY <1>0
    <3> QED BY <1>1, <3>2, <3>3, <3>4
  <2>2. ASSUME WireOpen', RingOpen', Open' \/ (head_since' /\ pc' # "closed")
        PROVE  requests' = Len(wire') + Len(ring')
    <3>1. ASSUME close', NEW j \in 1..n, ring[j].close PROVE FALSE
      <4>1. Ends(ring[j]) \/ ring[j].upgrade BY <1>1, <1>3, <3>1 DEF RingInv, StageInv
      <4>2. ring[j].upgrade BY <1>7, <2>2, <4>1
      <4>3. ~head_since BY <1>1, <1>3, <4>2 DEF RingInv, UpgradeInv
      <4> QED BY <2>2, <3>1, <4>3 DEF Open
    <3>2. Len(ring') = Len(ring) - n BY <3>1 DEF Written
    <3>3. ASSUME NEW j \in 1..Len(ring) PROVE ~Ends(ring[j])
      <4>1. CASE j \in 1..n BY <1>7, <2>2, <4>1
      <4>2. CASE j \notin 1..n
        <5>1. j - n \in 1..Len(ring') /\ n + (j - n) = j BY <1>0, <3>2, <4>2
        <5>2. ring'[j - n] = ring[j] BY <1>1, <5>1
        <5> QED BY <1>3, <2>2, <5>1, <5>2 DEF RingOpen
      <4> QED BY <4>1, <4>2
    <3>4. WireOpen /\ RingOpen BY <1>3, <1>7, <2>2, <3>3 DEF RingOpen
    <3>5. Open \/ (head_since /\ pc # "closed") BY <2>2 DEF Open
    <3>6. requests = Len(wire) + Len(ring) BY <3>4, <3>5 DEF CountInv
    <3>7. Len(wire) + Len(ring) = Len(wire') + Len(ring') BY <1>0, <3>2
    <3> QED BY <3>6, <3>7
  <2> QED BY <1>3, <2>1, <2>2 DEF CountInv
<1>10. OneEach'
  <2> SUFFICES ASSUME NEW k \in 1..Len(wire')
               PROVE  /\ (\A j \in 1..(k - 1) : ~Ends(wire'[j])) => wire'[k].r = k
                      /\ \A j \in 1..(k - 1) : /\ wire'[j].r < wire'[k].r
                                               /\ Ends(wire'[j]) => k = j + 1 /\ k = Len(wire')
    BY <1>3 DEF OneEach
  <2>0. k \in Nat BY <1>0
  <2>1. ASSUME \A j \in 1..(k - 1) : ~Ends(wire'[j]) PROVE wire'[k].r = k
    <3>1. CASE k \in 1..Len(wire)
      <4>1. \A j \in 1..(k - 1) : j \in 1..Len(wire) /\ j \in 1..Len(wire') BY <1>0, <3>1
      <4>2. \A j \in 1..(k - 1) : ~Ends(wire[j]) BY <1>2, <2>1, <4>1
      <4>3. wire[k].r = k BY <1>3, <3>1, <4>2 DEF OneEach
      <4> QED BY <1>2, <3>1, <4>3
    <3>2. CASE k - Len(wire) \in 1..n
      <4>1. PICK i \in 1..n : i = k - Len(wire) BY <3>2
      <4>2. i \in Nat /\ i >= 1 /\ k = Len(wire) + i BY <1>0, <2>0, <4>1
      <4>3. \A j \in 1..Len(wire) : j \in 1..(k - 1) /\ j \in 1..Len(wire') BY <1>0, <4>2
      <4>4. WireOpen BY <1>2, <1>3, <2>1, <4>3 DEF WireOpen
      <4>5. \A j \in 1..(i - 1) : j \in 1..n /\ Len(wire) + j \in 1..(k - 1) BY <1>0, <4>2
      <4>6. \A j \in 1..(i - 1) : ~Ends(ring[j]) BY <1>6, <2>1, <4>5
      <4>7. ring[i].r = Len(wire) + i BY <1>1, <1>8, <4>4, <4>6
      <4> QED BY <1>2, <4>1, <4>2, <4>7
    <3> QED BY <1>2, <3>1, <3>2
  <2>2. ASSUME NEW j \in 1..(k - 1)
        PROVE  /\ wire'[j].r < wire'[k].r
               /\ Ends(wire'[j]) => k = j + 1 /\ k = Len(wire')
    <3>0. j \in Nat /\ j < k /\ j \in 1..Len(wire') BY <1>0, <2>0
    <3>1. Ends(wire'[j]) => k = j + 1 /\ k = Len(wire')
      <4>1. Ends(wire'[j]) => j >= Len(wire') - 1 BY <1>3, <3>0 DEF EndInv
      <4> QED BY <1>0, <2>0, <3>0, <4>1
    <3>2. CASE k \in 1..Len(wire)
      <4>1. j \in 1..Len(wire) BY <1>0, <3>0, <3>2
      <4>2. wire[j].r < wire[k].r BY <1>3, <3>2 DEF OneEach
      <4> QED BY <1>2, <3>0, <3>1, <3>2, <4>1, <4>2
    <3>3. CASE k - Len(wire) \in 1..n
      <4>1. PICK i \in 1..n : i = k - Len(wire) BY <3>3
      <4>2. wire'[k].r = ring[i].r /\ i \in 1..Len(ring) BY <1>1, <1>2, <4>1
      <4>3. CASE j \in 1..Len(wire)
        <5>1. wire[j].r < ring[i].r BY <1>3, <4>2, <4>3 DEF NumberInv
        <5> QED BY <1>2, <3>0, <3>1, <4>2, <4>3, <5>1
      <4>4. CASE j - Len(wire) \in 1..n
        <5>1. PICK l \in 1..n : l = j - Len(wire) BY <4>4
        <5>2. wire'[j].r = ring[l].r /\ l \in 1..Len(ring) BY <1>1, <1>2, <3>0, <5>1
        <5>3. l < i BY <1>0, <2>0, <3>0, <4>1, <5>1
        <5>4. ring[l].r < ring[i].r BY <1>3, <4>2, <5>2, <5>3 DEF NumberInv
        <5> QED BY <3>1, <4>2, <5>2, <5>4
      <4> QED BY <1>2, <3>0, <4>3, <4>4
    <3> QED BY <1>2, <3>2, <3>3
  <2> QED BY <2>1, <2>2
<1> QED BY <1>9, <1>10


(* What wrote does with a batch of responses: they are on the wire, their  *)
(* entries and those behind one that closes are gone with their charges    *)
(* and claims, and the last claim among them is taken.                     *)
Taking(n) ==
  \/ \E k \in 1..n : /\ ring[k].claim # "none" /\ taken' = ring[k].r
                     /\ \A j \in 1..n : ring[j].claim # "none" => j <= k
  \/ (\A k \in 1..n : ring[k].claim = "none") /\ taken' = taken

(* The batch is a part of the ring, and not empty.                         *)
LEMMA WroteBatchFacts ==
  ASSUME HttpInv, Wrote, WroteBatch, NEW n, n = writing.count
  PROVE  /\ Written(n) /\ Taking(n) /\ bodies' = Charges(ring')
         /\ claims' \in [Request -> ClaimStates]
         /\ \/ Len(ring') = Len(ring) - n /\ claims' = claims
            \/ Len(ring') = 0 /\ DroppedBehind(n, claims')
<1>0. HttpTyped /\ ring \in Seq(Entries) /\ wire \in Seq(Responses) BY DEF HttpInv, HttpTyped
<1>1. /\ pc = "wait" /\ writing # NoWrite /\ writing.prefix = 0 BY DEF Wrote, Woken, WroteBatch
<1>2. Len(ring) \in Nat /\ DOMAIN ring = 1..Len(ring) /\ ((ring = <<>>) <=> (Len(ring) = 0))
  BY <1>0, EntriesFacts
<1>3. n \in Nat /\ n <= Len(ring) /\ \A k \in 1..n : ring[k].stage = "done"
  BY <1>0, <1>1 DEF HttpTyped, HttpInv, RingInv, WritingInv
<1>4. n # 0
  <2>1. writing = [count |-> writing.count, prefix |-> writing.prefix] BY <1>0 DEF HttpTyped
  <2> QED BY <1>1, <2>1 DEF NoWrite
<1>5. n \in 1..Len(ring) /\ n \in 0..Len(ring) BY <1>2, <1>3, <1>4
<1>6. PICK b \in Seq(Entries) : b = Batch BY <1>0, <1>5, CutFacts DEF Batch
<1>7. /\ Len(b) = n /\ DOMAIN b = 1..n /\ \A k \in 1..n : b[k] = ring[k]
      /\ Charges(b) \in Nat /\ Charges(ring) = Charges(b) + Charges(Behind(n))
  BY <1>0, <1>5, <1>6, CutFacts DEF Batch
<1>8. PICK v \in Seq(Entries) : v = Behind(n) BY <1>0, <1>5, CutFacts
<1>9. /\ Len(v) = Len(ring) - n /\ \A i \in 1..(Len(ring) - n) : v[i] = ring[n + i]
      /\ Charges(v) \in Nat
  BY <1>0, <1>5, <1>8, CutFacts
<1>10. PICK f : f = [k \in 1..n |-> Final(b[k])] OBVIOUS
<1>11. PICK gone \in {v, <<>>} : /\ gone = IF \E k \in 1..n : ring[k].close THEN v ELSE <<>>
  OBVIOUS
<1>12. /\ wire' = wire \o f
       /\ ring' = IF \E k \in 1..n : ring[k].close THEN <<>> ELSE v
       /\ bodies' = bodies - Charges(b) - Charges(gone)
       /\ claims' = DroppedClaims(gone, claims)
       /\ close' = (close \/ \E k \in 1..n : ring[k].close)
       /\ Taking(n)
  BY <1>6, <1>7, <1>8, <1>10, <1>11 DEF WroteBatch, Taking
<1>13. Len(ring) \in Nat /\ n \in Nat /\ n <= Len(ring) /\ n # 0 BY <1>2, <1>3, <1>4
<1>14. f \in Seq(Responses) /\ Len(f) = n /\ \A k \in 1..n : /\ f[k].r = ring[k].r /\ f[k].says = ring[k].says
                                                             /\ f[k].claim = ring[k].claim
                                                             /\ f[k].stray = ring[k].stray
  <2>1. ASSUME NEW k \in 1..n
        PROVE  /\ Final(b[k]) \in Responses /\ Final(b[k]).r = ring[k].r /\ Final(b[k]).says = ring[k].says
               /\ Final(b[k]).claim = ring[k].claim /\ Final(b[k]).stray = ring[k].stray
    <3>1. b[k] \in Entries /\ b[k] = ring[k] BY <1>7
    <3>2. PICK e \in Entries : e = b[k] BY <3>1
    <3>3. /\ Final(e) \in Responses /\ Final(e).r = e.r /\ Final(e).says = e.says
          /\ Final(e).claim = e.claim /\ Final(e).stray = e.stray
      BY DEF Final, Responses, Entries
    <3> QED BY <3>1, <3>2, <3>3
  <2>2. f \in [1..n -> Responses] BY <1>10, <2>1
  <2>3. f \in Seq(Responses) /\ Len(f) = n BY <1>13, <2>2
  <2> QED BY <1>10, <2>1, <2>3
<1>15. /\ wire' \in Seq(Responses) /\ Len(wire') = Len(wire) + n
       /\ \A k \in 1..Len(wire) : wire'[k] = wire[k]
       /\ \A k \in 1..n : wire'[Len(wire) + k] = f[k]
  <2>1. /\ wire' \in Seq(Responses) /\ Len(wire') = Len(wire) + n
        /\ \A i \in 1..(Len(wire) + n) : wire'[i] = IF i <= Len(wire) THEN wire[i] ELSE f[i - Len(wire)]
    <3>1. PICK S : S = Responses OBVIOUS
    <3>2. wire \in Seq(S) /\ f \in Seq(S) /\ Len(f) = n BY <1>0, <1>14, <3>1
    <3>3. PICK u : u = wire \o f OBVIOUS
    <3>4. /\ u \in Seq(S) /\ Len(u) = Len(wire) + Len(f)
          /\ \A i \in 1..(Len(wire) + Len(f)) : u[i] = IF i <= Len(wire) THEN wire[i] ELSE f[i - Len(wire)]
      BY <3>2, <3>3, ConcatProperties
    <3>5. wire' = u BY <1>12, <3>3
    <3> QED BY <3>1, <3>2, <3>4, <3>5
  <2>2. Len(wire) \in Nat BY <1>0, WireFacts
  <2>3. \A k \in 1..Len(wire) : k \in 1..(Len(wire) + n) /\ k <= Len(wire) BY <1>13, <2>2
  <2>4. \A k \in 1..n : /\ Len(wire) + k \in 1..(Len(wire) + n) /\ ~(Len(wire) + k <= Len(wire))
                        /\ (Len(wire) + k) - Len(wire) = k
    BY <1>13, <2>2
  <2>5. \A k \in 1..Len(wire) : wire'[k] = wire[k] BY <2>1, <2>3
  <2>6. \A k \in 1..n : wire'[Len(wire) + k] = f[k] BY <2>1, <2>4
  <2> QED BY <2>1, <2>5, <2>6
<1>18. /\ wire' \in Seq(Responses) /\ Len(wire') = Len(wire) + n
       /\ \A k \in 1..Len(wire) : wire'[k] = wire[k]
       /\ \A k \in 1..n : /\ wire'[Len(wire) + k].r = ring[k].r
                          /\ wire'[Len(wire) + k].says = ring[k].says
                          /\ wire'[Len(wire) + k].claim = ring[k].claim
                          /\ wire'[Len(wire) + k].stray = ring[k].stray
  BY <1>14, <1>15
<1>16. CASE \E k \in 1..n : ring[k].close
  <2>1. ring' = <<>> /\ gone = v /\ close' BY <1>11, <1>12, <1>16
  <2>2. ring' \in Seq(Entries) /\ Len(ring') = 0 BY <2>1
  <2>3. Written(n)
    <3>1. \A i \in 1..Len(ring') : ring'[i] = ring[n + i] BY <2>2
    <3>2. Len(ring') = 0 /\ close' /\ \E k \in 1..n : ring[k].close BY <1>16, <2>1, <2>2
    <3>3. ring' \in Seq(Entries) BY <2>2
    <3> QED BY <1>3, <1>5, <1>18, <3>1, <3>2, <3>3 DEF Written
  <2>4. claims' \in [Request -> ClaimStates] /\ DroppedBehind(n, claims')
    <3>1. claims \in [Request -> ClaimStates] BY <1>0 DEF HttpTyped
    <3>2. claims' = DroppedClaims(Behind(n), claims) BY <1>8, <1>12, <2>1
    <3>3. DroppedBehind(n, DroppedClaims(Behind(n), claims)) BY <1>0, <1>5, DroppedPlaces
    <3>4. DroppedClaims(Behind(n), claims) \in [Request -> ClaimStates] BY <3>1, DroppedFacts
    <3> QED BY <3>2, <3>3, <3>4
  <2>5. bodies' = Charges(ring')
    <3>1. bodies = Charges(b) + Charges(v) BY <1>7, <1>8 DEF HttpInv
    <3>2. bodies' = 0 BY <1>7, <1>9, <1>12, <2>1, <3>1
    <3> QED BY <2>1, <3>2, ChargesEmpty
  <2> QED BY <1>12, <2>2, <2>3, <2>4, <2>5
<1>17. CASE ~\E k \in 1..n : ring[k].close
  <2>1. ring' = v /\ gone = <<>> BY <1>11, <1>12, <1>17
  <2>2. ring' \in Seq(Entries) /\ Len(ring') = Len(ring) - n BY <1>9, <2>1
  <2>3. Written(n)
    <3>1. \A i \in 1..Len(ring') : ring'[i] = ring[n + i] BY <1>9, <2>1, <2>2
    <3> QED BY <1>3, <1>5, <1>18, <2>2, <3>1 DEF Written
  <2>4. claims \in [Request -> ClaimStates] BY <1>0 DEF HttpTyped
  <2>5. claims' = claims BY <1>12, <2>1, <2>4 DEF DroppedClaims
  <2>7. bodies' = Charges(ring')
    <3>1. bodies = Charges(b) + Charges(v) BY <1>7, <1>8 DEF HttpInv
    <3>2. Charges(gone) = 0 BY <2>1, ChargesEmpty
    <3>3. bodies' = Charges(v) BY <1>7, <1>9, <1>12, <3>1, <3>2
    <3> QED BY <2>1, <3>3
  <2> QED BY <1>12, <2>2, <2>3, <2>4, <2>5, <2>7
<1> QED BY <1>16, <1>17


(* The lengths of ring and wire, for arithmetic.                           *)
LEMMA WrittenLengths ==
  ASSUME HttpInv, NEW n, Written(n)
  PROVE  /\ Len(ring) \in Nat /\ Len(ring') \in Nat /\ Len(wire) \in Nat /\ n \in Nat /\ n > 0 /\ n <= Len(ring)
         /\ Len(wire') = Len(wire) + n /\ (Len(ring') = Len(ring) - n \/ Len(ring') = 0)
<1>1. Len(ring) \in Nat /\ Len(ring') \in Nat /\ Len(wire) \in Nat /\ n \in Nat \ {0} /\ n \in 1..Len(ring)
  BY WrittenPlaces, RingFacts, WireFacts, EntriesFacts DEF HttpInv, HttpTyped, Written
<1>2. Len(wire') = Len(wire) + n /\ (Len(ring') = Len(ring) - n \/ Len(ring') = 0) BY DEF Written
<1> QED BY <1>1, <1>2

(* What stays in the ring moves up; a body that arrives is still last.     *)
LEMMA WrittenRing ==
  ASSUME HttpInv, NEW n, Written(n), pc = "wait", pc' = "expire", close => close',
         UNCHANGED <<asked, requests, head_since, taking, parsed>>
  PROVE  StageInv' /\ UpgradeInv' /\ BodyInv' /\ HeadInv'
<1> USE DEF HttpInv, RingInv, StreamInv
<1>1. /\ Len(ring) \in Nat /\ Len(ring') \in Nat /\ n \in Nat /\ n > 0 /\ n <= Len(ring)
      /\ (Len(ring') = Len(ring) - n \/ Len(ring') = 0)
  BY WrittenLengths
<1>2. /\ DOMAIN ring = 1..Len(ring) /\ DOMAIN ring' = 1..Len(ring')
      /\ ring # <<>> /\ ((ring' = <<>>) <=> (Len(ring') = 0))
      /\ \A i \in 1..Len(ring') : n + i \in 1..Len(ring) /\ ring'[i] = ring[n + i]
  BY WrittenPlaces
<1>3. \A i \in 1..Len(ring') : n + i = Len(ring) => i = Len(ring') BY <1>1
<1>4. StageInv'
  <2>1. Len(ring) <= MaxPipelined BY DEF StageInv
  <2>2. Len(ring') <= MaxPipelined BY <1>1, <2>1, HttpAssumption
  <2>3. ASSUME NEW i \in 1..Len(ring')
        PROVE  /\ ring'[i].stage = "body" => i = Len(ring')
               /\ ring'[i].stage # "done" => ring'[i].claim = "none" /\ ~ring'[i].says /\ ~ring'[i].close
               /\ ring'[i].close => Ends(ring'[i]) \/ ring'[i].upgrade
               /\ ring'[i].stage = "running" /\ i > 1 => \A j \in 1..i : ring'[j].safe
    <3>1. PICK q \in 1..Len(ring) : q = n + i /\ ring'[i] = ring[q] BY <1>2
    <3>2. /\ ring[q].stage = "body" => q = Len(ring)
          /\ ring[q].stage # "done" => ring[q].claim = "none" /\ ~ring[q].says /\ ~ring[q].close
          /\ ring[q].close => Ends(ring[q]) \/ ring[q].upgrade
          /\ ring[q].stage = "running" /\ q > 1 => \A j \in 1..q : ring[j].safe
      BY <1>2 DEF StageInv
    <3>3. q > 1 /\ \A j \in 1..i : j \in 1..Len(ring') /\ n + j \in 1..q BY <1>1, <3>1
    <3>4. ring[q].stage = "running" => \A j \in 1..i : ring'[j].safe BY <1>2, <3>2, <3>3
    <3>5. ring[q].stage = "body" => i = Len(ring') BY <1>3, <3>1, <3>2
    <3> QED BY <3>1, <3>2, <3>4, <3>5
  <2> QED BY <1>2, <2>2, <2>3 DEF StageInv
<1>5. UpgradeInv'
  <2>1. ASSUME NEW i \in 1..Len(ring'), ring'[i].upgrade
        PROVE  /\ i = Len(ring') /\ ~head_since'
               /\ ring'[i].stage # "body" /\ (~ring'[i].close \/ ring'[i].claim # "none")
                    => parsed' = <<ring'[i].r + 1, 1>>
    <3>1. PICK q \in 1..Len(ring) : q = n + i /\ ring'[i] = ring[q] BY <1>2
    <3>2. /\ q = Len(ring) /\ ~head_since
          /\ ring[q].stage # "body" /\ (~ring[q].close \/ ring[q].claim # "none")
               => parsed = <<ring[q].r + 1, 1>>
      BY <1>2, <2>1, <3>1 DEF UpgradeInv
    <3> QED BY <1>3, <3>1, <3>2
  <2> QED BY <1>2, <2>1 DEF UpgradeInv
<1>6. BodyPending' => BodyPending /\ Last(ring)' = Last(ring)
  <2> SUFFICES ASSUME BodyPending' PROVE BodyPending /\ Last(ring)' = Last(ring) OBVIOUS
  <2>1. ring' # <<>> /\ ring'[Len(ring')].stage = "body" BY DEF BodyPending, Last
  <2>2. Len(ring') # 0 BY <1>2, <2>1
  <2>3. Len(ring') \in 1..Len(ring') /\ n + Len(ring') = Len(ring) BY <1>1, <2>2
  <2>4. ring'[Len(ring')] = ring[Len(ring)] BY <1>2, <2>3
  <2> QED BY <1>2, <2>1, <2>4 DEF BodyPending, Last
<1>7. BodyPending => BodyPending' \/ close'
  <2> SUFFICES ASSUME BodyPending, ~close' PROVE BodyPending' OBVIOUS
  <2>1. ring[Len(ring)].stage = "body" BY DEF BodyPending, Last
  <2>2. n # Len(ring)
    <3>1. n \in 1..n BY <1>1
    <3>2. ring[n].stage = "done" BY <3>1 DEF Written
    <3> QED BY <2>1, <3>2
  <2>3. Len(ring') = Len(ring) - n BY DEF Written
  <2>4. Len(ring') \in 1..Len(ring') /\ n + Len(ring') = Len(ring) /\ Len(ring') # 0 BY <1>1, <2>2, <2>3
  <2>5. ring'[Len(ring')] = ring[Len(ring)] BY <1>2, <2>4
  <2> QED BY <1>2, <2>1, <2>4, <2>5 DEF BodyPending, Last
<1>8. BodyInv'
  <2> SUFFICES ASSUME BodyPending'
               PROVE  /\ Last(ring)'.r = requests' /\ requests' \in DOMAIN asked'
                      /\ Last(ring)'.left \in 1..Len(BodyPieces(Framing'))
                      /\ parsed' = <<requests', Len(Pieces(requests)') + 1 - Last(ring)'.left>>
    BY DEF BodyInv
  <2>1. /\ Last(ring).r = requests /\ requests \in DOMAIN asked
        /\ Last(ring).left \in 1..Len(BodyPieces(Framing))
        /\ parsed = <<requests, Len(Pieces(requests)) + 1 - Last(ring).left>>
    BY <1>6 DEF BodyInv
  <2>2. Framing' = Framing /\ Pieces(requests)' = Pieces(requests) BY <1>6 DEF Framing, Pieces
  <2> QED BY <1>6, <2>1, <2>2
<1>9. HeadInv'
  <2>1. Open' /\ ~BodyPending' => Open /\ ~BodyPending BY <1>7 DEF Open
  <2>2. Open' /\ ~BodyPending' => parsed' = <<requests' + 1, 1>> BY <2>1 DEF HeadInv
  <2>3. Len(ring) < MaxPipelined => Len(ring') < MaxPipelined BY <1>1, HttpAssumption
  <2>4. head_since' => requests' < MaxRequests /\ Len(ring') < MaxPipelined /\ ~BodyPending'
    BY <1>6, <2>3 DEF HeadInv
  <2> QED BY <2>2, <2>4 DEF HeadInv
<1> QED BY <1>4, <1>5, <1>8, <1>9

(* The 100s written stay ahead of their responses.                         *)
LEMMA WrittenContinue ==
  ASSUME HttpInv, NEW n, Written(n), UNCHANGED <<asked, requests, interim>>
  PROVE  OwedInv' /\ InterimInv' /\ ContinueFirst'
<1> USE DEF HttpInv, ContinueInv
<1>1. Len(wire) \in Nat /\ n \in Nat /\ n > 0 /\ Len(wire') = Len(wire) + n BY WrittenLengths
<1>2. /\ DOMAIN ring = 1..Len(ring) /\ DOMAIN ring' = 1..Len(ring')
      /\ \A i \in 1..Len(ring') : n + i \in 1..Len(ring) /\ ring'[i] = ring[n + i]
  BY WrittenPlaces
<1>3. \A k \in 1..Len(wire) : wire'[k] = wire[k] BY DEF Written
<1>4. \A k \in DOMAIN interim : interim[k].after \in Nat /\ interim[k].r \in Nat BY InterimFacts DEF HttpTyped
<1>5. OwedInv' BY <1>2 DEF OwedInv
<1>6. \A k \in DOMAIN interim : interim[k].r <= requests /\ interim[k].after <= Len(wire) BY DEF InterimInv
<1>7. \A k \in DOMAIN interim : interim[k].after <= Len(wire') BY <1>1, <1>4, <1>6
<1>8. InterimInv' BY <1>6, <1>7 DEF InterimInv
<1>9. \A k \in DOMAIN interim : \A j \in 1..interim[k].after : j \in 1..Len(wire) BY <1>1, <1>4, <1>6
<1>10. ContinueFirst' BY <1>3, <1>9 DEF ContinueFirst
<1> QED BY <1>5, <1>8, <1>10


(* A claim that is written is taken: the last one among the responses is   *)
(* the only one, since nothing but the driver's answer follows a claim.    *)
LEMMA WrittenSettle ==
  ASSUME HttpInv, NEW n, Written(n), Taking(n), pc = "wait", pc' = "expire",
         UNCHANGED <<head_since, taking, parsed>>
  PROVE  SettleInv'
<1> USE DEF HttpInv, SettleInv
<1>1. /\ Len(ring) \in Nat /\ Len(ring') \in Nat /\ Len(wire) \in Nat /\ n \in Nat /\ n > 0 /\ n <= Len(ring)
      /\ (Len(ring') = Len(ring) - n \/ Len(ring') = 0) /\ Len(wire') = Len(wire) + n
  BY WrittenLengths
<1>2. /\ DOMAIN ring = 1..Len(ring) /\ DOMAIN ring' = 1..Len(ring') /\ DOMAIN wire = 1..Len(wire)
      /\ DOMAIN wire' = 1..Len(wire') /\ ((ring' = <<>>) <=> (Len(ring') = 0))
      /\ \A i \in 1..Len(ring') : n + i \in 1..Len(ring) /\ ring'[i] = ring[n + i]
      /\ \A j \in 1..n : j \in 1..Len(ring)
  BY WrittenPlaces
<1>3. taken = 0 BY DEF TakenInv
<1>4. /\ \A r \in Request : r # 0
      /\ \A k \in 1..Len(wire') : wire'[k].r \in Request
      /\ \A i \in 1..Len(ring) : ring[i].r \in Request /\ ring[i].r \in Nat
  <2>1. \A r \in Request : r # 0 BY HttpAssumption DEF Request
  <2>2. \A i \in 1..Len(ring) : ring[i].r \in Request /\ ring[i].r \in Nat BY RingFacts DEF HttpTyped
  <2>3. \A w \in Responses : w.r \in Request BY DEF Responses
  <2>4. \A k \in 1..Len(wire') : wire'[k] \in Responses BY DEF Written
  <2> QED BY <2>1, <2>2, <2>3, <2>4
<1>7. TakingInv' BY <1>2 DEF TakingInv
<1>8. ASSUME taken' # 0
      PROVE  taking' /\ \E k \in 1..Len(wire') : wire'[k].r = taken' /\ wire'[k].claim # "none"
  <2>1. PICK k \in 1..n : ring[k].claim # "none" /\ taken' = ring[k].r BY <1>3, <1>8 DEF Taking
  <2>2. taking BY <1>2, <2>1 DEF TakingInv
  <2>3. Len(wire) + k \in 1..Len(wire') BY <1>1
  <2>4. wire'[Len(wire) + k].r = ring[k].r /\ wire'[Len(wire) + k].claim = ring[k].claim BY DEF Written
  <2> QED BY <2>1, <2>2, <2>3, <2>4
<1>9. ASSUME NEW k \in 1..Len(wire'), wire'[k].r = taken', wire'[k].claim = "upgrade"
      PROVE  ring' = <<>> /\ ~head_since' /\ parsed' = <<taken' + 1, 1>>
  <2>1. taken' # 0 BY <1>4, <1>9
  <2>2. PICK l \in 1..n : taken' = ring[l].r BY <1>3, <2>1 DEF Taking
  <2>3. CASE k \in 1..Len(wire)
    <3>1. wire'[k] = wire[k] BY <2>3 DEF Written
    <3>2. wire[k].r < ring[l].r BY <1>2, <2>3 DEF OrderInv, NumberInv
    <3>3. ~(ring[l].r < ring[l].r) BY <1>2, <1>4
    <3> QED BY <1>9, <2>2, <3>1, <3>2, <3>3
  <2>4. CASE k - Len(wire) \in 1..n
    <3>1. PICK j \in 1..n : j = k - Len(wire) BY <2>4
    <3>2. wire'[k].r = ring[j].r /\ wire'[k].claim = ring[j].claim BY <3>1, WrittenPlaces
    <3>3. j = l
      <4>1. \A a, b \in 1..n : a < b => ring[a].r < ring[b].r BY <1>2 DEF OrderInv, NumberInv
      <4>2. ring[j].r = ring[l].r /\ ring[j].r \in Nat BY <1>2, <1>4, <1>9, <2>2, <3>2
      <4>3. ~(j < l) /\ ~(l < j) BY <4>1, <4>2
      <4> QED BY <1>1, <4>3
    <3>4. ring[j].upgrade /\ ring[j].claim # "none" BY <1>2, <1>9, <3>2 DEF TakingInv
    <3>5. ring[j].stage = "done" BY DEF Written
    <3>6. j = Len(ring) /\ ~head_since /\ parsed = <<ring[j].r + 1, 1>>
      BY <1>2, <3>4, <3>5 DEF RingInv, UpgradeInv
    <3>7. j = Len(ring) /\ j <= n BY <1>1, <3>6
    <3>8. Len(ring') = 0 BY <1>1, <3>7
    <3> QED BY <1>2, <2>2, <3>3, <3>6, <3>8
  <2> QED BY <2>3, <2>4, WrittenPlaces
<1>10. TakenInv' BY <1>2, <1>8, <1>9 DEF TakenInv
<1> QED BY <1>7, <1>10

(* A batch of responses is written.                                        *)
LEMMA WroteBatchStep == ASSUME HttpInv, Wrote, WroteBatch PROVE HttpInv'
<1>0. HttpTyped BY DEF HttpInv
<1>1. /\ pc = "wait" /\ pc' = "expire" /\ writing' = NoWrite /\ (close => close')
      /\ UNCHANGED <<asked, interim, requests, head_since, taking, parsed>>
      /\ UNCHANGED <<want, aborted, sent, got>>
  BY DEF Wrote, Woken, WroteBatch, peerVars, inputVars, holdVars
<1>2. PICK n : n = writing.count OBVIOUS
<1>3. Written(n) /\ Taking(n) /\ bodies' = Charges(ring') /\ claims' \in [Request -> ClaimStates]
  BY <1>2, WroteBatchFacts
<1>4. StageInv' /\ UpgradeInv' /\ BodyInv' /\ HeadInv' BY <1>1, <1>3, WrittenRing
<1>5. OwedInv' /\ InterimInv' /\ ContinueFirst' BY <1>1, <1>3, WrittenContinue
<1>6. SettleInv' BY <1>1, <1>3, WrittenSettle
<1>7. NumberInv' BY <1>1, <1>3, WrittenNumbers
<1>8. EndInv' BY <1>1, <1>3, WrittenEnd
<1>9. CountInv' /\ OneEach' BY <1>1, <1>3, <1>7, <1>8, WrittenCount
<1>10. writing'.count = 0 /\ writing'.prefix = 0 BY <1>1 DEF NoWrite
<1>11. PrefixInv' BY <1>10 DEF PrefixInv
<1>12. WritingInv'
  <2>1. ring' \in Seq(Entries) BY <1>3 DEF Written
  <2>2. 0 <= Len(ring') BY <2>1, EntriesFacts
  <2> QED BY <1>10, <2>2 DEF WritingInv
<1>13. MarkInv' BY <1>1 DEF HttpInv, StreamInv, MarkInv
<1>14. HttpTyped'
  <2>1. Marks' = Marks BY <1>1, MarksSame
  <2>2. NoWrite \in [count : Nat, prefix : {0} \cup Request] BY DEF NoWrite
  <2>3. ring' \in Seq(Entries) /\ wire' \in Seq(Responses) BY <1>3 DEF Written
  <2>4. close' \in BOOLEAN BY <1>0 DEF WroteBatch, HttpTyped
  <2>5. taken' \in {0} \cup Request
    <3>1. \A i \in 1..n : ring[i].r \in Request
      BY <1>0, <1>3, RingFacts, WrittenPlaces DEF HttpTyped
    <3> QED BY <1>0, <1>3, <3>1 DEF Taking, HttpTyped
  <2> QED BY <1>0, <1>1, <1>3, <2>1, <2>2, <2>3, <2>4, <2>5 DEF HttpTyped
<1> QED BY <1>3, <1>4, <1>5, <1>6, <1>7, <1>8, <1>9, <1>11, <1>12, <1>13, <1>14
        DEF HttpInv, StreamInv, RingInv, OrderInv, ContinueInv


-----------------------------------------------------------------------------
(* A step that changes nothing.                                            *)
LEMMA Stutter == ASSUME HttpInv, UNCHANGED vars PROVE HttpInv'
<1>1. /\ UNCHANGED <<asked, sent, pc, want, got, parsed, head_since, ring, writing, requests>>
      /\ UNCHANGED <<close, aborted, taking, taken, bodies, wire, interim, claims>>
  BY DEF vars
<1>2. UNCHANGED <<Marks, BodyPending, UpgradePending, Framing, Open>> /\ \A r : UNCHANGED Pieces(r)
  BY <1>1 DEF Marks, MarksOf, Pieces, StreamEnd, BodyPending, UpgradePending, Framing, Open
<1>3. HttpTyped' BY <1>1, <1>2 DEF HttpInv, HttpTyped
<1>4. StreamInv' BY <1>1, <1>2 DEF HttpInv, StreamInv, MarkInv, BodyInv, HeadInv
<1>5. RingInv' BY <1>1, <1>2 DEF HttpInv, RingInv, StageInv, UpgradeInv, WritingInv
<1>6. OrderInv'
  BY <1>1, <1>2 DEF HttpInv, OrderInv, NumberInv, EndInv, CountInv, OneEach, WireOpen, RingOpen
<1>7. ContinueInv'
  BY <1>1 DEF HttpInv, ContinueInv, OwedInv, PrefixInv, InterimInv, ContinueFirst
<1>8. SettleInv' BY <1>1 DEF HttpInv, SettleInv, TakingInv, TakenInv
<1>9. bodies' = Charges(ring') BY <1>1 DEF HttpInv
<1> QED BY <1>3, <1>4, <1>5, <1>6, <1>7, <1>8, <1>9 DEF HttpInv

(* Every step of the driver and of what surrounds it keeps the invariant.  *)
LEMMA NextInv == ASSUME HttpInv, [Next]_vars PROVE HttpInv'
<1>1. CASE Peer BY <1>1, PeerSendsStep, PeerStep DEF Peer
<1>2. CASE Handler BY <1>2, PeerStep, ExportStep, ClaimStep, CompleteStep DEF Handler
<1>3. CASE Wake
  <2>1. CASE Wrote BY <2>1, WroteContinueStep, WroteBatchStep DEF Wrote
  <2> QED BY <1>3, <2>1, ReadDataStep, ReadEofStep, WakeStep, SeeShutdownStep DEF Wake
<1>4. CASE Expire BY <1>4, TickStep, ExpireHeadStep, FailSteps DEF Expire
<1>5. CASE Process
  BY <1>5, FeedLengthStep, FeedChunkStep, FeedStalledStep, FailSteps, InputDoneStep, ParsePartialStep,
     ParseRejectStep, AcceptStep DEF Process
<1>6. CASE StartRunnable \/ PlanWrite \/ End BY <1>6, StartStep, PlanWriteStep, EndStep
<1>7. CASE UNCHANGED vars BY <1>7, Stutter
<1> QED BY <1>1, <1>2, <1>3, <1>4, <1>5, <1>6, <1>7 DEF Next

-----------------------------------------------------------------------------
(* Two entries of the ring, or a response and an entry, are of different   *)
(* requests.                                                               *)
LEMMA NumbersDiffer ==
  ASSUME HttpInv
  PROVE  /\ \A i, j \in 1..Len(ring) : ring[i].r = ring[j].r => i = j
         /\ \A k \in DOMAIN wire, i \in 1..Len(ring) : wire[k].r # ring[i].r
         /\ \A k, l \in DOMAIN wire : wire[k].r = wire[l].r => k = l
<1>1. /\ Len(ring) \in Nat /\ DOMAIN ring = 1..Len(ring)
      /\ \A i \in 1..Len(ring) : ring[i].r \in Nat
  BY RingFacts DEF HttpInv, HttpTyped
<1>2. /\ Len(wire) \in Nat /\ DOMAIN wire = 1..Len(wire)
      /\ \A k \in 1..Len(wire) : wire[k].r \in Nat \ {0}
  BY WireFacts DEF HttpInv, HttpTyped
<1>3. ASSUME NEW i \in 1..Len(ring), NEW j \in 1..Len(ring), ring[i].r = ring[j].r PROVE i = j
  <2>1. (i < j => ring[i].r < ring[j].r) /\ (j < i => ring[j].r < ring[i].r)
    BY <1>1 DEF HttpInv, OrderInv, NumberInv
  <2>2. ring[i].r \in Nat BY <1>1
  <2>3. ~(i < j) /\ ~(j < i) BY <1>3, <2>1, <2>2
  <2> QED BY <2>3
<1>4. ASSUME NEW k \in 1..Len(wire), NEW i \in 1..Len(ring) PROVE wire[k].r # ring[i].r
  <2>1. wire[k].r < ring[i].r BY <1>1, <1>2 DEF HttpInv, OrderInv, NumberInv
  <2> QED BY <1>1, <2>1
<1>5. ASSUME NEW k \in 1..Len(wire), NEW l \in 1..Len(wire), wire[k].r = wire[l].r PROVE k = l
  <2>1. Len(wire) \in Nat BY <1>2
  <2>2. (k < l => k \in 1..(l - 1)) /\ (l < k => l \in 1..(k - 1)) BY <2>1
  <2>3. (k < l => wire[k].r < wire[l].r) /\ (l < k => wire[l].r < wire[k].r)
    BY <1>2, <2>2 DEF HttpInv, OrderInv, OneEach
  <2>4. wire[k].r \in Nat BY <1>2
  <2>5. ~(k < l) /\ ~(l < k) BY <1>5, <2>3, <2>4
  <2> QED BY <2>5
<1> QED BY <1>1, <1>2, <1>3, <1>4, <1>5

(* A claim that is taken is that of a response on the wire, and no entry's. *)
LEMMA TakenFacts ==
  ASSUME HttpInv, ClaimInv
  PROVE  /\ taken # 0 => /\ taken \in Request /\ taking /\ pc # "wait"
                         /\ \A i \in 1..Len(ring) : ring[i].r # taken
         /\ pc # "closed" => \A r \in Request : claims[r] # "handed"
<1>1. taken # 0 => /\ taking /\ pc # "wait"
                   /\ \E k \in DOMAIN wire : wire[k].r = taken
  BY DEF HttpInv, SettleInv, TakenInv
<1>2. taken \in {0} \cup Request BY DEF HttpInv, HttpTyped
<1>3. taken # 0 => \A i \in 1..Len(ring) : ring[i].r # taken BY <1>1, NumbersDiffer
<1> QED BY <1>1, <1>2, <1>3 DEF ClaimInv, PlaceInv

(* How claims fare when entries keep their places but for those dropped    *)
(* behind the last, and the handler of one entry, if p is not 0, claims,   *)
(* completes or is canceled.                                               *)
LEMMA ClaimCut ==
  ASSUME HttpInv, HttpInv', ClaimInv, Len(ring') <= Len(ring), NEW p \in 0..Len(ring'),
         pc # "closed", pc' # "closed", UNCHANGED <<wire, taken, requests>>,
         \A i \in 1..Len(ring') : ring'[i].r = ring[i].r,
         \A i \in 1..Len(ring') : i # p =>
           /\ ring'[i].claim = ring[i].claim /\ ring'[i].claiming = ring[i].claiming
           /\ ring'[i].stage # "done" => ring[i].stage # "done"
           /\ ring[i].stage = "running" => ring'[i].stage = "running",
         \A r \in Request : (p = 0 \/ r # ring[p].r) =>
           claims'[r] = IF \E k \in (Len(ring') + 1)..Len(ring) : ring[k].r = r /\ ring[k].claim # "none"
                        THEN "dropped"
                        ELSE IF \E k \in (Len(ring') + 1)..Len(ring) : ring[k].r = r /\ ring[k].claiming # "none"
                             THEN "lost" ELSE claims[r],
         p # 0 => /\ ring[p].stage # "done"
                  /\ claims'[ring[p].r] = "claimed" => ring'[p].claiming # "none"
                  /\ (claims'[ring[p].r] = "kept") <=> (ring'[p].claim # "none")
                  /\ claims'[ring[p].r] # "dropped" /\ claims'[ring[p].r] # "handed"
                  /\ ring'[p].claiming # "none" => ring'[p].stage = "running",
         pc' = "wait" => ~aborted',
         taken # 0 => ~aborted' /\ (pc' # "end" => writing' = NoWrite)
  PROVE  ClaimInv'
<1>0. ring \in Seq(Entries) /\ ring' \in Seq(Entries) BY DEF HttpInv, HttpTyped
<1>1. /\ Len(ring) \in Nat /\ DOMAIN ring = 1..Len(ring) /\ Len(ring') \in Nat /\ DOMAIN ring' = 1..Len(ring')
      /\ \A i \in 1..Len(ring) : ring[i] \in Entries
  BY <1>0, EntriesFacts
<1>2. \A i \in 1..Len(ring') : i \in 1..Len(ring)
  <2>1. Len(ring) \in Nat /\ Len(ring') \in Nat BY <1>1
  <2> QED BY <2>1
<1>3. \A k \in (Len(ring') + 1)..Len(ring) : k \in 1..Len(ring) /\ \A i \in 1..Len(ring') : k # i
  <2>1. Len(ring) \in Nat /\ Len(ring') \in Nat BY <1>1
  <2> QED BY <2>1
<1>4. \A i \in 1..Len(ring) : i \in 1..Len(ring') \/ i \in (Len(ring') + 1)..Len(ring)
  <2>1. Len(ring) \in Nat /\ Len(ring') \in Nat BY <1>1
  <2> QED BY <2>1
<1>5. p = 0 \/ (p \in 1..Len(ring') /\ p \in 1..Len(ring))
  <2>1. Len(ring) \in Nat /\ Len(ring') \in Nat BY <1>1
  <2> QED BY <2>1
<1>6. \A i \in 1..Len(ring) : ring[i].r \in Request BY <1>0, RingFacts
<1>7. /\ \A i, j \in 1..Len(ring) : ring[i].r = ring[j].r => i = j
      /\ \A k \in DOMAIN wire, i \in 1..Len(ring) : wire[k].r # ring[i].r
  BY NumbersDiffer
<1>8. /\ taken # 0 => taken \in Request /\ \A i \in 1..Len(ring) : ring[i].r # taken
      /\ \A r \in Request : claims[r] # "handed"
  BY TakenFacts
<1>9. ASSUME NEW i \in 1..Len(ring'), i # p
      PROVE  claims'[ring[i].r] = claims[ring[i].r] /\ (p = 0 \/ ring[i].r # ring[p].r)
  <2>1. p = 0 \/ ring[i].r # ring[p].r BY <1>2, <1>5, <1>7, <1>9
  <2>2. \A k \in (Len(ring') + 1)..Len(ring) : ring[k].r # ring[i].r BY <1>2, <1>3, <1>7
  <2> QED BY <1>2, <1>6, <2>1, <2>2
<1>10. PlaceInv'
  <2> SUFFICES ASSUME NEW r \in Request
               PROVE  /\ claims'[r] = "claimed" => \E i \in 1..Len(ring') : ring'[i].r = r /\ ring'[i].claiming # "none"
                      /\ claims'[r] = "kept" => \/ \E i \in 1..Len(ring') : ring'[i].r = r /\ ring'[i].claim # "none"
                                                \/ taken = r
                      /\ claims'[r] # "handed"
                      /\ claims'[r] = "dropped" => /\ r <= requests
                                                   /\ \A i \in 1..Len(ring') : ring[i].r # r
                                                   /\ \A k \in DOMAIN wire : wire[k].r # r
    BY <1>1 DEF PlaceInv
  <2>1. CASE p # 0 /\ r = ring[p].r BY <1>5, <2>1
  <2>2. CASE p = 0 \/ r # ring[p].r
    <3>1. CASE \E k \in (Len(ring') + 1)..Len(ring) : ring[k].r = r /\ ring[k].claim # "none"
      <4>1. PICK k \in (Len(ring') + 1)..Len(ring) : ring[k].r = r /\ ring[k].claim # "none" BY <3>1
      <4>2. claims'[r] = "dropped" BY <2>2, <3>1
      <4>3. r <= requests BY <1>1, <1>3, <4>1 DEF ClaimInv, RecordInv
      <4>4. \A i \in 1..Len(ring') : ring[i].r # r BY <1>2, <1>3, <1>7, <4>1
      <4>5. \A j \in DOMAIN wire : wire[j].r # r BY <1>3, <1>7, <4>1
      <4> QED BY <4>2, <4>3, <4>4, <4>5
    <3>2. CASE ~\E k \in (Len(ring') + 1)..Len(ring) : ring[k].r = r /\ ring[k].claim # "none"
      <4>1. CASE \E k \in (Len(ring') + 1)..Len(ring) : ring[k].r = r /\ ring[k].claiming # "none"
        BY <2>2, <3>2, <4>1
      <4>2. CASE ~\E k \in (Len(ring') + 1)..Len(ring) : ring[k].r = r /\ ring[k].claiming # "none"
        <5>1. claims'[r] = claims[r] BY <2>2, <3>2, <4>2
        <5>2. ASSUME claims[r] = "claimed"
              PROVE  \E i \in 1..Len(ring') : ring'[i].r = r /\ ring'[i].claiming # "none"
          <6>1. PICK i \in 1..Len(ring) : ring[i].r = r /\ ring[i].claiming # "none"
            BY <1>1, <5>2 DEF ClaimInv, PlaceInv
          <6>2. i \in 1..Len(ring') /\ i # p BY <1>4, <1>5, <2>2, <4>2, <6>1
          <6> QED BY <6>1, <6>2
        <5>3. ASSUME claims[r] = "kept", taken # r
              PROVE  \E i \in 1..Len(ring') : ring'[i].r = r /\ ring'[i].claim # "none"
          <6>1. PICK i \in 1..Len(ring) : ring[i].r = r /\ ring[i].claim # "none"
            BY <1>1, <5>3 DEF ClaimInv, PlaceInv
          <6>2. i \in 1..Len(ring') /\ i # p BY <1>4, <1>5, <2>2, <3>2, <6>1
          <6> QED BY <6>1, <6>2
        <5>4. claims[r] = "dropped" => /\ r <= requests
                                       /\ \A i \in 1..Len(ring) : ring[i].r # r
                                       /\ \A k \in DOMAIN wire : wire[k].r # r
          BY <1>1 DEF ClaimInv, PlaceInv
        <5> QED BY <1>2, <1>8, <5>1, <5>2, <5>3, <5>4
      <4> QED BY <4>1, <4>2
    <3> QED BY <3>1, <3>2
  <2> QED BY <2>1, <2>2
<1>11. RecordInv'
  <2> SUFFICES ASSUME NEW i \in 1..Len(ring')
               PROVE  /\ ring'[i].stage # "done" => ring[i].r <= requests
                      /\ ring'[i].claiming # "none" => ring'[i].stage = "running"
                      /\ ring'[i].claim # "none" => ring[i].r <= requests /\ claims'[ring[i].r] = "kept"
    BY <1>1 DEF RecordInv
  <2>1. /\ ring[i].stage # "done" => ring[i].r <= requests
        /\ ring[i].claiming # "none" => ring[i].stage = "running"
        /\ ring[i].claim # "none" => ring[i].r <= requests /\ claims[ring[i].r] = "kept"
    BY <1>1, <1>2 DEF ClaimInv, RecordInv
  <2>2. CASE i = p BY <1>5, <2>1, <2>2
  <2>3. CASE i # p BY <1>9, <2>1, <2>3
  <2> QED BY <2>2, <2>3
<1>12. HandInv'
  <2>1. ASSUME taken # 0 PROVE claims'[taken] = "kept"
    <3>1. claims[taken] = "kept" BY <2>1 DEF ClaimInv, HandInv
    <3>2. \A k \in (Len(ring') + 1)..Len(ring) : ring[k].r # taken BY <1>3, <1>8, <2>1
    <3>3. p = 0 \/ taken # ring[p].r BY <1>5, <1>8, <2>1
    <3> QED BY <1>8, <2>1, <3>1, <3>2, <3>3
  <2>2. \A k \in DOMAIN wire : wire[k].claim # "none" => taken = wire[k].r BY DEF ClaimInv, HandInv
  <2> QED BY <2>1, <2>2 DEF HandInv
<1> QED BY <1>10, <1>11, <1>12 DEF ClaimInv

(* The same when every entry keeps its place and its claim.                *)
LEMMA ClaimKept ==
  ASSUME HttpInv, HttpInv', ClaimInv, Len(ring') = Len(ring), pc # "closed", pc' # "closed",
         UNCHANGED <<claims, wire, taken, requests>>,
         \A i \in 1..Len(ring) :
           /\ ring'[i].r = ring[i].r
           /\ ring'[i].claim = ring[i].claim /\ ring'[i].claiming = ring[i].claiming
           /\ ring'[i].stage # "done" => ring[i].stage # "done"
           /\ ring[i].stage = "running" => ring'[i].stage = "running",
         pc' = "wait" => ~aborted',
         taken # 0 => ~aborted' /\ (pc' # "end" => writing' = NoWrite)
  PROVE  ClaimInv'
<1>1. Len(ring) \in Nat BY EntriesFacts DEF HttpInv, HttpTyped
<1>2. 0 \in 0..Len(ring') /\ Len(ring') <= Len(ring) BY <1>1
<1>3. \A k \in (Len(ring') + 1)..Len(ring) : FALSE BY <1>1
<1>4. \A r \in Request :
        claims'[r] = IF \E k \in (Len(ring') + 1)..Len(ring) : ring[k].r = r /\ ring[k].claim # "none"
                     THEN "dropped"
                     ELSE IF \E k \in (Len(ring') + 1)..Len(ring) : ring[k].r = r /\ ring[k].claiming # "none"
                          THEN "lost" ELSE claims[r]
  BY <1>3
<1> QED BY <1>2, <1>4, ClaimCut

(* Steps that touch neither the ring nor what is written or taken.         *)
LEMMA ClaimQuiet ==
  ASSUME HttpInv, HttpInv', ClaimInv, pc # "closed", pc' # "closed",
         UNCHANGED <<ring, claims, wire, taken, requests>>,
         pc' = "wait" => ~aborted',
         taken # 0 => ~aborted' /\ (pc' # "end" => writing' = NoWrite)
  PROVE  ClaimInv'
BY ClaimKept

(* The peer, a handler that claims nothing, and what only wakes the task.  *)
LEMMA ClaimWaiting ==
  ASSUME HttpInv, HttpInv', ClaimInv,
         \/ PeerSends \/ PeerCloses \/ RequestStop \/ TakeHold \/ DropHold
         \/ ReadData \/ ReadNoBudget \/ SocketFails \/ Timer \/ Progress
  PROVE  ClaimInv'
<1>1. pc = "wait" /\ pc' # "closed"
  BY DEF PeerSends, PeerCloses, RequestStop, TakeHold, DropHold, ReadData, ReadNoBudget, SocketFails,
         Timer, Progress, Woken
<1>2. UNCHANGED <<ring, claims, wire, taken, requests>>
  BY DEF PeerSends, PeerCloses, RequestStop, TakeHold, DropHold, ReadData, ReadNoBudget, SocketFails,
         Timer, Progress, ringVars, wireVars, takeVars
<1>3. pc' = "wait" => aborted' = aborted
  BY DEF PeerSends, PeerCloses, RequestStop, TakeHold, DropHold, ReadData, ReadNoBudget, SocketFails,
         Timer, Progress, Woken, closeVars
<1>4. taken = 0 /\ ~aborted BY <1>1, TakenFacts DEF ClaimInv, HandInv
<1> QED BY <1>1, <1>2, <1>3, <1>4, ClaimQuiet

(* A deadline of the connection, input that makes no entry, and the plan   *)
(* of a write: a send that expires is not one of a response that claims.   *)
LEMMA ClaimTicking ==
  ASSUME HttpInv, HttpInv', ClaimInv,
         ExpireNone \/ ExpireSend \/ ExpireIdle \/ InputDone \/ ParsePartial \/ PlanWrite
  PROVE  ClaimInv'
<1>1. taken # 0 => ~aborted /\ (pc \notin {"end", "closed"} => writing = NoWrite)
  BY DEF ClaimInv, HandInv
<1>2. CASE ExpireNone \/ ExpireIdle
  <2>1. /\ pc = "expire" /\ pc' = "input" /\ UNCHANGED <<ring, claims, wire, taken, requests, aborted, writing>>
    BY <1>2 DEF ExpireNone, ExpireIdle, Ticks, ringVars, wireVars, takeVars, closeVars
  <2> QED BY <1>1, <2>1, ClaimQuiet
<1>3. CASE ExpireSend
  <2>1. /\ pc = "expire" /\ pc' = "input" /\ UNCHANGED <<ring, claims, wire, taken, requests, writing>>
        /\ writing # NoWrite
    BY <1>3 DEF ExpireSend, Ticks, ringVars, wireVars, takeVars
  <2> QED BY <1>1, <2>1, ClaimQuiet
<1>4. CASE InputDone \/ ParsePartial
  <2>1. /\ pc = "input" /\ pc' = "start" /\ UNCHANGED <<ring, claims, wire, taken, requests, aborted, writing>>
    BY <1>4 DEF InputDone, ParsePartial, Parsing, inputFrame, ringVars, wireVars, takeVars
  <2> QED BY <1>1, <2>1, ClaimQuiet
<1>5. CASE PlanWrite
  <2>1. /\ pc = "plan" /\ pc' = (IF taken # 0 \/ aborted \/ (close /\ ring = <<>> /\ writing' = NoWrite)
                                 THEN "end" ELSE "wait")
        /\ UNCHANGED <<ring, claims, wire, taken, requests, aborted>>
    BY <1>5 DEF PlanWrite, ringVars, wireVars, takeVars, closeVars
  <2> QED BY <1>1, <2>1, ClaimQuiet
<1> QED BY <1>2, <1>3, <1>4, <1>5

(* Entries that change in their places, their claims as they were.         *)
LEMMA ClaimInPlace ==
  ASSUME HttpInv, HttpInv', ClaimInv, NEW i \in 1..Len(ring), NEW f \in Entries,
         ring' = [ring EXCEPT ![i] = f], f.r = ring[i].r, f.claim = ring[i].claim,
         f.claiming = ring[i].claiming, f.stage # "done" => ring[i].stage # "done",
         ring[i].stage = "running" => f.stage = "running",
         pc # "closed", pc' # "closed", UNCHANGED <<claims, wire, taken, requests>>,
         pc' = "wait" => ~aborted',
         taken # 0 => ~aborted' /\ (pc' # "end" => writing' = NoWrite)
  PROVE  ClaimInv'
<1>1. ring \in Seq(Entries) BY DEF HttpInv, HttpTyped
<1>2. Len(ring') = Len(ring) /\ \A j \in 1..Len(ring) : ring'[j] = IF j = i THEN f ELSE ring[j]
  BY <1>1, ExceptSeq
<1>3. \A j \in 1..Len(ring) :
        /\ ring'[j].r = ring[j].r
        /\ ring'[j].claim = ring[j].claim /\ ring'[j].claiming = ring[j].claiming
        /\ ring'[j].stage # "done" => ring[j].stage # "done"
        /\ ring[j].stage = "running" => ring'[j].stage = "running"
  BY <1>2
<1> QED BY <1>2, <1>3, ClaimKept

(* An export, a part of a body, the 100 written.                           *)
LEMMA ClaimExport ==
  ASSUME HttpInv, HttpInv', ClaimInv, NEW i \in DOMAIN ring, Export(i)
  PROVE  ClaimInv'
<1>0. ring \in Seq(Entries) BY DEF HttpInv, HttpTyped
<1>1. i \in 1..Len(ring) /\ ring[i] \in Entries BY <1>0, EntriesFacts
<1>2. /\ pc = "wait" /\ pc' = "wait" /\ ring' = [ring EXCEPT ![i] = [ring[i] EXCEPT !.charge = 0]]
      /\ UNCHANGED <<claims, wire, taken, requests, aborted>>
  BY <1>0, <1>1 DEF Export, closeVars, takeVars, wireVars
<1>3. PICK e \in Entries : e = ring[i] BY <1>1
<1>4. PICK f : f = [e EXCEPT !.charge = 0] OBVIOUS
<1>5. /\ f \in Entries /\ f.r = e.r /\ f.stage = e.stage /\ f.claim = e.claim /\ f.claiming = e.claiming
  BY <1>4 DEF Entries
<1>6. ring' = [ring EXCEPT ![i] = f] BY <1>2, <1>3, <1>4
<1>7. taken = 0 /\ ~aborted BY <1>2, TakenFacts DEF ClaimInv, HandInv
<1> QED BY <1>1, <1>2, <1>3, <1>5, <1>6, <1>7, ClaimInPlace

(* A piece of a body, or framing that waits for more.                      *)
LEMMA ClaimFed ==
  ASSUME HttpInv, HttpInv', ClaimInv, FeedLength \/ FeedChunk \/ FeedStalled
  PROVE  ClaimInv'
<1>0. ring \in Seq(Entries) BY DEF HttpInv, HttpTyped
<1>1. Feeding BY DEF FeedLength, FeedChunk, FeedStalled
<1> DEFINE i == Len(ring)
<1>2. pc = "input" /\ i \in 1..Len(ring) /\ ring[i] \in Entries /\ ring[i].stage = "body" BY <1>1, FeedingFacts
<1>3. PICK e \in Entries : e = ring[i] BY <1>2
<1>4. \E f \in Entries : /\ ring' = [ring EXCEPT ![i] = f] /\ f.r = e.r /\ f.stage \in {"body", "waiting"}
                         /\ f.claim = e.claim /\ f.claiming = e.claiming
  <2>1. ASSUME NEW n \in Nat, NEW left \in Nat, Fed(n, left)
        PROVE  \E f \in Entries : /\ ring' = [ring EXCEPT ![i] = f] /\ f.r = e.r /\ f.stage \in {"body", "waiting"}
                                  /\ f.claim = e.claim /\ f.claiming = e.claiming
    <3>1. PICK stage \in {"body", "waiting"} : stage = IF left = 0 THEN "waiting" ELSE "body" OBVIOUS
    <3>2. PICK b \in Nat : b = e.bytes + n BY DEF Entries
    <3>3. PICK f : f = [e EXCEPT !.bytes = b, !.left = left, !.cont = FALSE, !.stage = stage] OBVIOUS
    <3>4. /\ f \in Entries /\ f.r = e.r /\ f.stage = stage /\ f.claim = e.claim /\ f.claiming = e.claiming
      <4>1. stage \in Stages BY DEF Stages
      <4> QED BY <3>3, <4>1 DEF Entries
    <3>5. ring' = [ring EXCEPT ![i] = f] BY <1>3, <2>1, <3>1, <3>2, <3>3 DEF Fed
    <3> QED BY <3>4, <3>5
  <2>2. CASE FeedLength
    <3>1. ring[i].left \in Nat /\ ring[i].left # 0 /\ Last(ring) = ring[i]
      <4>1. /\ ring[i].left \in 1..Len(BodyPieces(Framing)) /\ Len(BodyPieces(Framing)) \in Nat
            /\ Last(ring) = ring[i]
        BY <1>1, FeedingFacts
      <4> QED BY <4>1
    <3>2. 1 \in Nat /\ ring[i].left - 1 \in Nat BY <3>1
    <3>3. Fed(1, ring[i].left - 1) BY <2>2, <3>1 DEF FeedLength
    <3> QED BY <2>1, <3>2, <3>3
  <2>3. CASE FeedChunk
    <3>1. 0 \in Nat /\ 1 \in Nat OBVIOUS
    <3>2. Fed(1, 1) \/ Fed(0, 0) BY <2>3 DEF FeedChunk
    <3> QED BY <2>1, <3>1, <3>2
  <2>4. CASE FeedStalled
    <3>1. PICK f : f = [e EXCEPT !.cont = FALSE] OBVIOUS
    <3>2. f \in Entries /\ f.r = e.r /\ f.stage = e.stage /\ f.claim = e.claim /\ f.claiming = e.claiming
      BY <3>1 DEF Entries
    <3>3. ring' = [ring EXCEPT ![i].cont = FALSE] BY <2>4 DEF FeedStalled
    <3>4. ring' = [ring EXCEPT ![i] = f] BY <1>0, <1>2, <1>3, <3>1, <3>3
    <3> QED BY <1>2, <1>3, <3>2, <3>4
  <2> QED BY <2>2, <2>3, <2>4
<1>5. /\ pc' \in {"input", "start"} /\ UNCHANGED <<claims, wire, taken, requests, aborted, writing>>
  <2>1. UNCHANGED <<wire, taken, aborted, writing>> BY DEF FeedLength, FeedChunk, FeedStalled, inputFrame, wireVars, takeVars
  <2>2. pc' \in {"input", "start"} /\ UNCHANGED <<claims, requests>>
    BY <1>2 DEF FeedLength, FeedChunk, FeedStalled, Fed
  <2> QED BY <2>1, <2>2
<1>6. taken # 0 => ~aborted /\ writing = NoWrite BY <1>2 DEF ClaimInv, HandInv
<1>7. PICK f \in Entries : /\ ring' = [ring EXCEPT ![i] = f] /\ f.r = e.r /\ f.stage \in {"body", "waiting"}
                           /\ f.claim = e.claim /\ f.claiming = e.claiming
  BY <1>4
<1> QED BY <1>2, <1>3, <1>5, <1>6, <1>7, ClaimInPlace

(* The requests that start, the mark of a shutdown, the 100 written.       *)
LEMMA ClaimMoves ==
  ASSUME HttpInv, HttpInv', ClaimInv, StartRunnable \/ SeeShutdown \/ (Wrote /\ WroteContinue)
  PROVE  ClaimInv'
<1>0. ring \in Seq(Entries) BY DEF HttpInv, HttpTyped
<1>1. DOMAIN ring = 1..Len(ring) /\ Len(ring) \in Nat /\ \A i \in 1..Len(ring) : ring[i] \in Entries
  BY <1>0, EntriesFacts
<1>2. CASE StartRunnable
  <2>1. /\ pc = "start" /\ pc' = "plan" /\ UNCHANGED <<claims, wire, taken, requests, aborted, writing>>
    BY <1>2 DEF StartRunnable, wireVars, takeVars, closeVars
  <2>2. ring' = [i \in DOMAIN ring |->
                   IF Runnable(i)
                   THEN [ring[i] EXCEPT !.stage = "running", !.charge = @ + ring[i].bytes, !.bytes = 0]
                   ELSE ring[i]]
    BY <1>2 DEF StartRunnable
  <2>3. Len(ring') = Len(ring)
    <3>1. DOMAIN ring' = 1..Len(ring) BY <1>1, <2>2
    <3>2. ring' \in Seq(Entries) BY DEF HttpInv, HttpTyped
    <3>3. DOMAIN ring' = 1..Len(ring') /\ Len(ring') \in Nat BY <3>2, EntriesFacts
    <3> QED BY <1>1, <3>1, <3>3
  <2>4. ASSUME NEW i \in 1..Len(ring)
        PROVE  /\ ring'[i].r = ring[i].r
               /\ ring'[i].claim = ring[i].claim /\ ring'[i].claiming = ring[i].claiming
               /\ ring'[i].stage # "done" => ring[i].stage # "done"
               /\ ring[i].stage = "running" => ring'[i].stage = "running"
    <3>1. CASE Runnable(i)
      <4>1. PICK e \in Entries : e = ring[i] BY <1>1
      <4>2. PICK f : f = [e EXCEPT !.stage = "running", !.charge = @ + e.bytes, !.bytes = 0] OBVIOUS
      <4>3. f.r = e.r /\ f.claim = e.claim /\ f.claiming = e.claiming /\ f.stage = "running"
        BY <4>2 DEF Entries
      <4>4. ring'[i] = f BY <1>1, <2>2, <3>1, <4>1, <4>2
      <4>5. ring[i].stage = "waiting" BY <3>1 DEF Runnable
      <4> QED BY <4>1, <4>3, <4>4, <4>5
    <3>2. CASE ~Runnable(i)
      <4>1. ring'[i] = ring[i] BY <1>1, <2>2, <3>2
      <4> QED BY <4>1
    <3> QED BY <3>1, <3>2
  <2>5. taken # 0 => ~aborted /\ writing = NoWrite BY <2>1 DEF ClaimInv, HandInv
  <2> QED BY <2>1, <2>3, <2>4, <2>5, ClaimKept
<1>3. CASE SeeShutdown
  <2>1. /\ pc = "wait" /\ pc' = "expire" /\ ring' = Marked(ring)
        /\ UNCHANGED <<claims, wire, taken, requests, aborted>>
    BY <1>3 DEF SeeShutdown, Woken, wireVars, takeVars
  <2>2. /\ Len(Marked(ring)) = Len(ring)
        /\ \A i \in 1..Len(ring) :
             /\ Marked(ring)[i].r = ring[i].r /\ Marked(ring)[i].stage = ring[i].stage
             /\ Marked(ring)[i].claiming = ring[i].claiming /\ Marked(ring)[i].claim = ring[i].claim
    BY <1>0, MarkedFacts
  <2>3. taken = 0 /\ ~aborted BY <2>1, TakenFacts DEF ClaimInv, HandInv
  <2> QED BY <2>1, <2>2, <2>3, ClaimKept
<1>4. CASE Wrote /\ WroteContinue
  <2>1. /\ pc = "wait" /\ pc' = "expire"
        /\ ring' = IF ring = <<>> THEN ring ELSE [ring EXCEPT ![1].cont = FALSE]
        /\ UNCHANGED <<asked, wire, requests, close, taking, head_since>>
        /\ UNCHANGED <<claims, taken, aborted>>
    BY <1>4 DEF Wrote, WroteContinue, Woken, peerVars
  <2>2. /\ Len(ring') = Len(ring)
        /\ \A k \in 1..Len(ring) : /\ ring'[k].stage = ring[k].stage
                                   /\ ring'[k].claim = ring[k].claim /\ ring'[k].r = ring[k].r
                                   /\ ring'[k].claiming = ring[k].claiming
    BY <2>1, UnowedFacts
  <2>3. taken = 0 /\ ~aborted BY <2>1, TakenFacts DEF ClaimInv, HandInv
  <2> QED BY <2>1, <2>2, <2>3, ClaimKept
<1> QED BY <1>2, <1>3, <1>4

(* The end of the input drops the request it cut short.                    *)
LEMMA ClaimEof ==
  ASSUME HttpInv, HttpInv', ClaimInv, ReadEof
  PROVE  ClaimInv'
<1>0. ring \in Seq(Entries) BY DEF HttpInv, HttpTyped
<1>1. Len(ring) \in Nat /\ ((ring = <<>>) <=> (Len(ring) = 0)) BY <1>0, EntriesFacts
<1>2. PICK n : n = EofKept OBVIOUS
<1>3. /\ pc = "wait" /\ pc' = "expire" /\ ring' = Marked(SubSeq(ring, 1, n))
      /\ claims' = DroppedClaims(Behind(n), claims) /\ UNCHANGED <<wire, requests, taken, aborted>>
  BY <1>2 DEF ReadEof, Woken, takeVars, wireVars
<1>4. n \in 0..Len(ring) /\ n \in Nat /\ n <= Len(ring)
  <2>1. (n = Len(ring) - 1 /\ Len(ring) # 0) \/ n = Len(ring) BY <1>1, <1>2 DEF EofKept, BodyPending
  <2>2. Len(ring) \in Nat BY <1>1
  <2> QED BY <2>1, <2>2
<1>5. PICK s \in Seq(Entries) : s = SubSeq(ring, 1, n) BY <1>0, <1>4, CutFacts
<1>6. Len(s) = n /\ \A k \in 1..n : s[k] = ring[k] BY <1>0, <1>4, <1>5, CutFacts
<1>7. /\ Len(Marked(s)) = Len(s)
      /\ \A i \in 1..Len(s) :
           /\ Marked(s)[i].r = s[i].r /\ Marked(s)[i].stage = s[i].stage
           /\ Marked(s)[i].claiming = s[i].claiming /\ Marked(s)[i].claim = s[i].claim
  BY MarkedFacts
<1>8. /\ Len(ring') = n
      /\ \A i \in 1..n : /\ ring'[i].r = ring[i].r /\ ring'[i].stage = ring[i].stage
                         /\ ring'[i].claiming = ring[i].claiming /\ ring'[i].claim = ring[i].claim
  BY <1>3, <1>5, <1>6, <1>7
<1>9. DroppedBehind(n, claims') BY <1>0, <1>3, <1>4, DroppedPlaces
<1>10. taken = 0 /\ ~aborted BY <1>3, TakenFacts DEF ClaimInv, HandInv
<1>11. 0 \in 0..Len(ring') BY <1>4, <1>8
<1>12. \A r \in Request :
         claims'[r] = IF \E k \in (Len(ring') + 1)..Len(ring) : ring[k].r = r /\ ring[k].claim # "none"
                      THEN "dropped"
                      ELSE IF \E k \in (Len(ring') + 1)..Len(ring) : ring[k].r = r /\ ring[k].claiming # "none"
                           THEN "lost" ELSE claims[r]
  BY <1>8, <1>9 DEF DroppedBehind
<1> QED BY <1>3, <1>4, <1>8, <1>10, <1>11, <1>12, ClaimCut

(* A request whose handler claimed nothing has no claim.                   *)
LEMMA Unclaimed ==
  ASSUME HttpInv, ClaimInv, pc # "closed", NEW i \in 1..Len(ring),
         ring[i].claiming = "none", ring[i].claim = "none"
  PROVE  claims[ring[i].r] \notin {"claimed", "kept", "dropped", "handed"}
<1>0. DOMAIN ring = 1..Len(ring) BY EntriesFacts DEF HttpInv, HttpTyped
<1>1. ring[i].r \in Request BY RingFacts DEF HttpInv, HttpTyped
<1>2. \A j \in 1..Len(ring) : ring[j].r = ring[i].r => j = i BY NumbersDiffer
<1>3. taken # ring[i].r
  <2>1. ring[i].r # 0 BY <1>1, HttpAssumption DEF Request
  <2> QED BY <2>1, TakenFacts
<1>4. claims[ring[i].r] # "claimed" /\ claims[ring[i].r] # "kept"
  BY <1>0, <1>1, <1>2, <1>3 DEF ClaimInv, PlaceInv
<1>5. claims[ring[i].r] # "dropped" /\ claims[ring[i].r] # "handed"
  BY <1>0, <1>1 DEF ClaimInv, PlaceInv
<1> QED BY <1>4, <1>5

(* A handler claims the connection.                                        *)
LEMMA ClaimMade ==
  ASSUME HttpInv, HttpInv', ClaimInv, NEW i \in DOMAIN ring, NEW kind \in {"upgrade", "stream"},
         Claim(i, kind)
  PROVE  ClaimInv'
<1>0. ring \in Seq(Entries) /\ claims \in [Request -> ClaimStates] BY DEF HttpInv, HttpTyped
<1>1. DOMAIN ring = 1..Len(ring) /\ Len(ring) \in Nat /\ i \in 1..Len(ring) /\ ring[i] \in Entries
  BY <1>0, EntriesFacts
<1>2. /\ pc = "wait" /\ pc' = "wait" /\ ring[i].stage = "running"
      /\ ring' = [ring EXCEPT ![i] = [ring[i] EXCEPT !.claiming = kind]]
      /\ claims' = [claims EXCEPT ![ring[i].r] = "claimed"]
      /\ UNCHANGED <<wire, requests, taken, aborted>>
  BY <1>0, <1>1 DEF Claim, closeVars, takeVars, wireVars
<1>3. PICK e \in Entries : e = ring[i] BY <1>1
<1>4. PICK f : f = [e EXCEPT !.claiming = kind] OBVIOUS
<1>5. f \in Entries /\ f.r = e.r /\ f.stage = e.stage /\ f.claim = e.claim /\ f.claiming = kind
  BY <1>4 DEF Entries, ClaimOf
<1>6. ring' = [ring EXCEPT ![i] = f] BY <1>2, <1>3, <1>4
<1>7. Len(ring') = Len(ring) /\ \A j \in 1..Len(ring) : ring'[j] = IF j = i THEN f ELSE ring[j]
  BY <1>0, <1>1, <1>5, <1>6, ExceptSeq
<1>8. e.claim = "none" BY <1>1, <1>2, <1>3 DEF HttpInv, RingInv, StageInv
<1>9. taken = 0 /\ ~aborted BY <1>2, TakenFacts DEF ClaimInv, HandInv
<1>10. e.r \in Request BY DEF Entries
<1>11. claims'[e.r] = "claimed" /\ \A r \in Request : r # e.r => claims'[r] = claims[r]
  BY <1>0, <1>2, <1>3, <1>10
<1>12. \A k \in (Len(ring') + 1)..Len(ring) : FALSE BY <1>1, <1>7
<1>13. \A r \in Request : r # ring[i].r =>
         claims'[r] = IF \E k \in (Len(ring') + 1)..Len(ring) : ring[k].r = r /\ ring[k].claim # "none"
                      THEN "dropped"
                      ELSE IF \E k \in (Len(ring') + 1)..Len(ring) : ring[k].r = r /\ ring[k].claiming # "none"
                           THEN "lost" ELSE claims[r]
  BY <1>3, <1>11, <1>12
<1>14. i \in 0..Len(ring') /\ i # 0 /\ Len(ring') <= Len(ring) BY <1>1, <1>7
<1>15. /\ ring'[i].claiming = kind /\ ring'[i].claim = "none" /\ ring'[i].stage = "running"
       /\ \A j \in 1..Len(ring) : ring'[j].r = ring[j].r /\ (j # i => ring'[j] = ring[j])
  BY <1>1, <1>2, <1>3, <1>5, <1>7, <1>8
<1>16. claims'[ring[i].r] = "claimed" BY <1>3, <1>11
<1>17. /\ ring[i].stage # "done"
       /\ claims'[ring[i].r] = "claimed" => ring'[i].claiming # "none"
       /\ (claims'[ring[i].r] = "kept") <=> (ring'[i].claim # "none")
       /\ claims'[ring[i].r] # "dropped" /\ claims'[ring[i].r] # "handed"
       /\ ring'[i].claiming # "none" => ring'[i].stage = "running"
  BY <1>2, <1>15, <1>16
<1>18. /\ \A j \in 1..Len(ring') : ring'[j].r = ring[j].r
       /\ \A j \in 1..Len(ring') : j # i =>
            /\ ring'[j].claim = ring[j].claim /\ ring'[j].claiming = ring[j].claiming
            /\ ring'[j].stage # "done" => ring[j].stage # "done"
            /\ ring[j].stage = "running" => ring'[j].stage = "running"
  BY <1>7, <1>15
<1> QED BY <1>2, <1>9, <1>13, <1>14, <1>17, <1>18, ClaimCut

(* Request i is answered by the driver: the claim of its handler is lost.  *)
LEMMA ClaimFailAt ==
  ASSUME HttpInv, HttpInv', ClaimInv, NEW i \in 1..Len(ring), ring[i].stage # "done", FailAt(i),
         pc \in {"expire", "input"}, pc' \in {"input", "start"},
         UNCHANGED <<wire, requests, taken, writing, aborted>>
  PROVE  ClaimInv'
<1>0. ring \in Seq(Entries) BY DEF HttpInv, HttpTyped
<1>1. /\ Len(ring) \in Nat /\ DOMAIN ring = 1..Len(ring) /\ i \in 0..Len(ring) /\ i \in 1..i /\ i \in Nat
      /\ i # 0 /\ i <= Len(ring) /\ i - 1 \in 0..Len(ring) /\ (i - 1) + 1 = i
  BY <1>0, EntriesFacts
<1>2. PICK e \in Entries : e = ring[i] BY <1>0, <1>1, EntriesFacts
<1>3. PICK f : f = [e EXCEPT !.stage = "done", !.close = TRUE, !.says = TRUE, !.stray = FALSE,
                             !.cont = FALSE, !.charge = 0, !.claiming = "none"]
  OBVIOUS
<1>4. /\ ring' = [SubSeq(ring, 1, i) EXCEPT ![i] = f]
      /\ claims' = DroppedClaims(Behind(i - 1), claims)
  BY <1>2, <1>3 DEF FailAt
<1>5. f \in Entries /\ f.r = e.r /\ f.stage = "done" /\ f.claim = e.claim /\ f.claiming = "none"
  <2>1. "done" \in Stages /\ 0 \in Nat /\ "none" \in ClaimOf BY DEF Stages, ClaimOf
  <2> QED BY <1>3, <2>1 DEF Entries
<1>6. PICK u \in Seq(Entries) : IsReplaced(u, i, i, f) BY <1>0, <1>1, <1>5, ReplaceFacts
<1>7. /\ u = [SubSeq(ring, 1, i) EXCEPT ![i] = f] /\ Len(u) = i /\ u[i] = f
      /\ \A k \in 1..i : k # i => u[k] = ring[k]
  BY <1>6 DEF IsReplaced
<1>8. ring' = u BY Zenon, <1>4, <1>7
<1>9. e.claim = "none" BY <1>1, <1>2 DEF HttpInv, RingInv, StageInv
<1>10. DroppedBehind(i - 1, claims') BY <1>0, <1>1, <1>4, DroppedPlaces
<1>11. \A j, k \in 1..Len(ring) : ring[j].r = ring[k].r => j = k BY NumbersDiffer
<1>12. \A k \in i..Len(ring) : k \in 1..Len(ring) /\ (k = i \/ k \in (i + 1)..Len(ring))
  <2>1. Len(ring) \in Nat /\ i \in Nat /\ i # 0 BY <1>1
  <2> QED BY <2>1
<1>13. \A k \in (i + 1)..Len(ring) : k \in i..Len(ring)
  <2>1. Len(ring) \in Nat /\ i \in Nat BY <1>1
  <2> QED BY <2>1
<1>14. \A r \in Request :
         claims'[r] = IF \E k \in i..Len(ring) : ring[k].r = r /\ ring[k].claim # "none" THEN "dropped"
                      ELSE IF \E k \in i..Len(ring) : ring[k].r = r /\ ring[k].claiming # "none" THEN "lost"
                      ELSE claims[r]
  BY <1>1, <1>10 DEF DroppedBehind
<1>15. ASSUME NEW r \in Request, r # e.r
       PROVE  claims'[r] = IF \E k \in (i + 1)..Len(ring) : ring[k].r = r /\ ring[k].claim # "none"
                           THEN "dropped"
                           ELSE IF \E k \in (i + 1)..Len(ring) : ring[k].r = r /\ ring[k].claiming # "none"
                                THEN "lost" ELSE claims[r]
  <2>1. \A k \in i..Len(ring) : ring[k].r = r => k \in (i + 1)..Len(ring) BY <1>2, <1>12, <1>15
  <2>2. /\ (\E k \in i..Len(ring) : ring[k].r = r /\ ring[k].claim # "none") <=>
             (\E k \in (i + 1)..Len(ring) : ring[k].r = r /\ ring[k].claim # "none")
        /\ (\E k \in i..Len(ring) : ring[k].r = r /\ ring[k].claiming # "none") <=>
             (\E k \in (i + 1)..Len(ring) : ring[k].r = r /\ ring[k].claiming # "none")
    BY Zenon, <1>13, <2>1
  <2> QED BY <1>14, <2>2
<1>16. claims'[e.r] \notin {"claimed", "kept", "dropped", "handed"}
  <2>1. e.r \in Request /\ pc # "closed" BY DEF Entries
  <2>2. ~\E k \in i..Len(ring) : ring[k].r = e.r /\ ring[k].claim # "none" BY <1>2, <1>9, <1>11, <1>12
  <2>3. claims'[e.r] = "lost" \/ (claims'[e.r] = claims[e.r] /\ e.claiming = "none")
    <3>1. i \in i..Len(ring) BY <1>1
    <3>2. claims'[e.r] = IF \E k \in i..Len(ring) : ring[k].r = e.r /\ ring[k].claiming # "none" THEN "lost"
                         ELSE claims[e.r]
      BY <1>14, <2>1, <2>2
    <3>3. CASE \E k \in i..Len(ring) : ring[k].r = e.r /\ ring[k].claiming # "none" BY <3>2, <3>3
    <3>4. CASE ~\E k \in i..Len(ring) : ring[k].r = e.r /\ ring[k].claiming # "none"
      <4>1. e.claiming = "none" BY <1>2, <3>1, <3>4
      <4> QED BY <3>2, <3>4, <4>1
    <3> QED BY <3>3, <3>4
  <2>4. e.claiming = "none" => claims[e.r] \notin {"claimed", "kept", "dropped", "handed"}
    BY <1>2, <1>9, <2>1, Unclaimed
  <2> QED BY <2>3, <2>4
<1>17. taken # 0 => ~aborted /\ writing = NoWrite BY DEF ClaimInv, HandInv
<1>18. Len(ring') = i /\ i \in 0..Len(ring') /\ Len(ring') <= Len(ring) BY <1>1, <1>7, <1>8
<1>19. /\ ring[i].stage # "done" /\ ring'[i].claiming = "none" /\ ring'[i].claim = "none"
       /\ claims'[ring[i].r] \notin {"claimed", "kept", "dropped", "handed"}
  BY <1>2, <1>5, <1>7, <1>8, <1>9, <1>16
<1>20. /\ \A j \in 1..Len(ring') : ring'[j].r = ring[j].r
       /\ \A j \in 1..Len(ring') : j # i =>
            /\ ring'[j].claim = ring[j].claim /\ ring'[j].claiming = ring[j].claiming
            /\ ring'[j].stage # "done" => ring[j].stage # "done"
            /\ ring[j].stage = "running" => ring'[j].stage = "running"
  BY <1>2, <1>5, <1>7, <1>8
<1>21. /\ claims'[ring[i].r] = "claimed" => ring'[i].claiming # "none"
       /\ (claims'[ring[i].r] = "kept") <=> (ring'[i].claim # "none")
       /\ claims'[ring[i].r] # "dropped" /\ claims'[ring[i].r] # "handed"
       /\ ring'[i].claiming # "none" => ring'[i].stage = "running"
  BY <1>19
<1>22. \A r \in Request : r # ring[i].r =>
         claims'[r] = IF \E k \in (Len(ring') + 1)..Len(ring) : ring[k].r = r /\ ring[k].claim # "none"
                      THEN "dropped"
                      ELSE IF \E k \in (Len(ring') + 1)..Len(ring) : ring[k].r = r /\ ring[k].claiming # "none"
                           THEN "lost" ELSE claims[r]
  BY <1>2, <1>15, <1>18
<1> QED BY <1>1, <1>17, <1>18, <1>20, <1>21, <1>22, ClaimCut

(* The deadlines of a request and of its body, and a body that is refused. *)
LEMMA ClaimFail ==
  ASSUME HttpInv, HttpInv', ClaimInv, ExpireTotal \/ ExpireBody \/ FeedReject
  PROVE  ClaimInv'
<1>0. ring \in Seq(Entries) BY DEF HttpInv, HttpTyped
<1>1. DOMAIN ring = 1..Len(ring) BY <1>0, EntriesFacts
<1>2. BodyPending => Len(ring) \in 1..Len(ring) /\ ring[Len(ring)].stage # "done"
  BY <1>0, EntriesFacts DEF BodyPending, Last
<1>3. \E i \in 1..Len(ring) : ring[i].stage # "done" /\ FailAt(i)
  <2>1. CASE ExpireTotal BY <1>1, <2>1 DEF ExpireTotal
  <2>2. CASE ExpireBody BY <1>2, <2>2 DEF ExpireBody
  <2>3. CASE FeedReject BY <1>2, <2>3 DEF FeedReject, Feeding
  <2> QED BY <2>1, <2>2, <2>3
<1>4. PICK i \in 1..Len(ring) : ring[i].stage # "done" /\ FailAt(i) BY <1>3
<1>5. /\ pc \in {"expire", "input"} /\ pc' \in {"input", "start"}
      /\ UNCHANGED <<wire, requests, taken, writing, aborted>>
  <2>1. CASE ExpireTotal BY <2>1 DEF ExpireTotal, Ticks, takeVars, wireVars
  <2>2. CASE ExpireBody BY <2>2 DEF ExpireBody, Ticks, takeVars, wireVars
  <2>3. CASE FeedReject BY <2>3 DEF FeedReject, Feeding, inputFrame, takeVars, wireVars
  <2> QED BY <2>1, <2>2, <2>3
<1> QED BY <1>4, <1>5, ClaimFailAt

(* A handler completed: its claim goes with the response, or is void.      *)
LEMMA ClaimComplete ==
  ASSUME HttpInv, HttpInv', ClaimInv, NEW i \in DOMAIN ring, NEW answer \in Answers, Complete(i, answer)
  PROVE  ClaimInv'
<1>0. ring \in Seq(Entries) /\ claims \in [Request -> ClaimStates] BY DEF HttpInv, HttpTyped
<1>1. /\ Len(ring) \in Nat /\ DOMAIN ring = 1..Len(ring) /\ i \in 1..Len(ring) /\ i \in Nat /\ i # 0
  BY <1>0, EntriesFacts
<1>2. PICK e \in Entries : e = ring[i] BY <1>0, <1>1, EntriesFacts
<1>3. PICK claim : claim = KeptClaim(e, answer) OBVIOUS
<1>4. PICK cuts \in BOOLEAN : cuts = (claim # "none" \/ answer.close) OBVIOUS
<1>5. PICK n : n = IF cuts THEN i ELSE Len(ring) OBVIOUS
<1>6. PICK flag \in BOOLEAN : flag = (answer.close \/ (close /\ i = Len(ring))) OBVIOUS
<1>7. /\ pc = "wait" /\ pc' = "wait" /\ e.stage = "running"
      /\ ring' = [SubSeq(ring, 1, n) EXCEPT ![i] = Answered(e, answer, flag)]
      /\ claims' = [DroppedClaims(Behind(n), claims) EXCEPT
                      ![e.r] = IF e.claiming = "none" THEN @
                               ELSE IF claim # "none" THEN "kept" ELSE "void"]
      /\ UNCHANGED <<wire, requests, taken, aborted>>
  BY <1>2, <1>3, <1>4, <1>5, <1>6 DEF Complete, wireVars
<1>8. /\ e.claim = "none" /\ ~e.says /\ ~e.close /\ ~e.cont
      /\ e.claiming = "upgrade" => e.upgrade
  BY <1>1, <1>2, <1>7 DEF HttpInv, RingInv, StageInv, ContinueInv, OwedInv, SettleInv, TakingInv
<1>9. PICK f \in Entries : IsAnswered(f, e, answer, flag)
  BY <1>6, <1>7, <1>8, AnsweredFacts
<1>10. f = Answered(e, answer, flag) /\ f.stage = "done" /\ f.r = e.r /\ f.claiming = "none" /\ f.claim = claim
  BY <1>3, <1>9 DEF IsAnswered
<1>11. n \in 0..Len(ring) /\ i \in 1..n /\ i \in 0..n /\ n \in Nat /\ n <= Len(ring)
  <2>1. CASE n = Len(ring) BY <1>1, <2>1
  <2>2. CASE n = i BY <1>1, <2>2
  <2> QED BY <1>5, <2>1, <2>2
<1>12. PICK u \in Seq(Entries) : IsReplaced(u, n, i, f) BY <1>0, <1>11, ReplaceFacts
<1>13. /\ u = [SubSeq(ring, 1, n) EXCEPT ![i] = f] /\ Len(u) = n /\ u[i] = f
       /\ \A k \in 1..n : k # i => u[k] = ring[k]
  BY <1>12 DEF IsReplaced
<1>14. ring' = u BY Zenon, <1>7, <1>10, <1>13
<1>15. PICK d : d = DroppedClaims(Behind(n), claims) OBVIOUS
<1>16. d \in [Request -> ClaimStates] BY <1>0, <1>15, DroppedFacts
<1>17. DroppedBehind(n, d) BY <1>0, <1>11, <1>15, DroppedPlaces
<1>18. e.r \in Request BY DEF Entries
<1>19. /\ \A r \in Request : r # e.r => claims'[r] = d[r]
       /\ claims'[e.r] = IF e.claiming = "none" THEN d[e.r] ELSE IF claim # "none" THEN "kept" ELSE "void"
  BY <1>7, <1>15, <1>16, <1>18
<1>20. taken = 0 /\ ~aborted BY <1>7, TakenFacts DEF ClaimInv, HandInv
<1>21. d[e.r] = claims[e.r]
  <2>1. \A k \in (n + 1)..Len(ring) : k \in 1..Len(ring) /\ k # i
    <3>1. Len(ring) \in Nat /\ n \in Nat /\ i \in 1..n BY <1>1, <1>11
    <3> QED BY <3>1
  <2>2. \A k \in (n + 1)..Len(ring) : ring[k].r # e.r BY <1>1, <1>2, <2>1, NumbersDiffer
  <2> QED BY <1>17, <1>18, <2>2 DEF DroppedBehind
<1>22. /\ claims'[e.r] # "claimed" /\ claims'[e.r] # "dropped" /\ claims'[e.r] # "handed"
       /\ (claims'[e.r] = "kept") <=> (claim # "none")
  <2>1. CASE e.claiming # "none" BY <1>19, <2>1
  <2>2. CASE e.claiming = "none"
    <3>1. claims[e.r] \notin {"claimed", "kept", "dropped", "handed"}
      BY <1>1, <1>2, <1>7, <1>8, <2>2, Unclaimed
    <3>2. claim = "none" BY <1>3, <2>2 DEF KeptClaim
    <3> QED BY <1>19, <1>21, <2>2, <3>1, <3>2
  <2> QED BY <2>1, <2>2
<1>23. Len(ring') = n /\ i \in 0..Len(ring') /\ Len(ring') <= Len(ring) BY <1>11, <1>13, <1>14
<1>24. ring[i].stage = "running" /\ ring'[i].claiming = "none" /\ ring'[i].claim = claim
  BY <1>2, <1>7, <1>10, <1>13, <1>14
<1>25. /\ ring[i].stage # "done"
       /\ claims'[ring[i].r] = "claimed" => ring'[i].claiming # "none"
       /\ (claims'[ring[i].r] = "kept") <=> (ring'[i].claim # "none")
       /\ claims'[ring[i].r] # "dropped" /\ claims'[ring[i].r] # "handed"
       /\ ring'[i].claiming # "none" => ring'[i].stage = "running"
  BY <1>2, <1>22, <1>24
<1>26. /\ \A j \in 1..Len(ring') : ring'[j].r = ring[j].r
       /\ \A j \in 1..Len(ring') : j # i =>
            /\ ring'[j].claim = ring[j].claim /\ ring'[j].claiming = ring[j].claiming
            /\ ring'[j].stage # "done" => ring[j].stage # "done"
            /\ ring[j].stage = "running" => ring'[j].stage = "running"
  BY <1>2, <1>10, <1>13, <1>14
<1>27. \A r \in Request : r # ring[i].r =>
         claims'[r] = IF \E k \in (Len(ring') + 1)..Len(ring) : ring[k].r = r /\ ring[k].claim # "none"
                      THEN "dropped"
                      ELSE IF \E k \in (Len(ring') + 1)..Len(ring) : ring[k].r = r /\ ring[k].claiming # "none"
                           THEN "lost" ELSE claims[r]
  BY <1>2, <1>17, <1>19, <1>23 DEF DroppedBehind
<1> QED BY <1>1, <1>7, <1>20, <1>23, <1>25, <1>26, <1>27, ClaimCut

(* A new entry makes no claim, and is not of a request that was dropped.   *)
LEMMA ClaimPush ==
  ASSUME HttpInv, ClaimInv, NEW e \in Entries, Pushed(e), e.r = requests + 1, e.claim = "none",
         e.claiming = "none", e.stage # "done" => requests' = requests + 1,
         requests' \in {requests, requests + 1}, pc \in {"expire", "input"}, pc' \in {"input", "start"},
         UNCHANGED <<claims, wire, taken, writing, aborted>>
  PROVE  ClaimInv'
<1>0. ring \in Seq(Entries) /\ requests \in Nat BY DEF HttpInv, HttpTyped
<1>1. Len(ring) \in Nat /\ DOMAIN ring = 1..Len(ring) BY <1>0, EntriesFacts
<1>2. /\ ring' \in Seq(Entries) /\ Len(ring') = Len(ring) + 1
      /\ \A i \in 1..Len(ring) : ring'[i] = ring[i]
      /\ ring'[Len(ring) + 1] = e
  BY DEF Pushed
<1>3. DOMAIN ring' = 1..Len(ring') BY <1>2, EntriesFacts
<1>4. /\ \A i \in 1..Len(ring) : i \in 1..Len(ring')
      /\ \A i \in 1..Len(ring') : i \in 1..Len(ring) \/ i = Len(ring) + 1
  <2>1. Len(ring) \in Nat /\ Len(ring') = Len(ring) + 1 BY <1>1, <1>2
  <2> QED BY <2>1
<1>5. /\ \A r \in Request : r \in Nat /\ (r <= requests => r <= requests' /\ r # requests + 1)
      /\ \A i \in 1..Len(ring) : ring[i].r \in Request
  <2>1. \A r \in Request : r \in Nat BY HttpAssumption DEF Request
  <2>2. \A r \in Nat : r <= requests => r <= requests' /\ r # requests + 1 BY <1>0
  <2>3. \A i \in 1..Len(ring) : ring[i].r \in Request BY <1>0, RingFacts
  <2> QED BY <2>1, <2>2, <2>3
<1>6. PlaceInv'
  <2> SUFFICES ASSUME NEW r \in Request
               PROVE  /\ claims[r] = "claimed" => \E i \in 1..Len(ring') : ring'[i].r = r /\ ring'[i].claiming # "none"
                      /\ claims[r] = "kept" => \/ \E i \in 1..Len(ring') : ring'[i].r = r /\ ring'[i].claim # "none"
                                               \/ taken = r /\ pc' # "closed"
                      /\ claims[r] = "handed" => pc' = "closed" /\ taken = r
                      /\ claims[r] = "dropped" => /\ r <= requests'
                                                  /\ \A i \in 1..Len(ring') : ring'[i].r # r
                                                  /\ \A k \in DOMAIN wire : wire[k].r # r
    BY <1>3 DEF PlaceInv
  <2>1. /\ claims[r] = "claimed" => \E i \in 1..Len(ring) : ring[i].r = r /\ ring[i].claiming # "none"
        /\ claims[r] = "kept" => \/ \E i \in 1..Len(ring) : ring[i].r = r /\ ring[i].claim # "none"
                                 \/ taken = r /\ pc # "closed"
        /\ claims[r] # "handed"
        /\ claims[r] = "dropped" => /\ r <= requests
                                    /\ \A i \in 1..Len(ring) : ring[i].r # r
                                    /\ \A k \in DOMAIN wire : wire[k].r # r
    BY <1>1 DEF ClaimInv, PlaceInv
  <2>2. claims[r] = "claimed" => \E i \in 1..Len(ring') : ring'[i].r = r /\ ring'[i].claiming # "none"
    BY <1>2, <1>4, <2>1
  <2>3. claims[r] = "kept" => \/ \E i \in 1..Len(ring') : ring'[i].r = r /\ ring'[i].claim # "none"
                              \/ taken = r /\ pc' # "closed"
    BY <1>2, <1>4, <2>1
  <2>4. ASSUME claims[r] = "dropped", NEW i \in 1..Len(ring') PROVE ring'[i].r # r
    <3>1. CASE i \in 1..Len(ring) BY <1>2, <2>1, <2>4, <3>1
    <3>2. CASE i = Len(ring) + 1 BY <1>2, <1>5, <2>1, <2>4, <3>2
    <3> QED BY <1>4, <3>1, <3>2
  <2> QED BY <1>5, <2>1, <2>2, <2>3, <2>4
<1>7. RecordInv'
  <2> SUFFICES ASSUME NEW i \in 1..Len(ring')
               PROVE  /\ ring'[i].stage # "done" => ring'[i].r <= requests'
                      /\ ring'[i].claiming # "none" => ring'[i].stage = "running"
                      /\ ring'[i].claim # "none" => ring'[i].r <= requests' /\ claims[ring'[i].r] = "kept"
    BY <1>3 DEF RecordInv
  <2>1. CASE i \in 1..Len(ring)
    <3>1. /\ ring[i].stage # "done" => ring[i].r <= requests
          /\ ring[i].claiming # "none" => ring[i].stage = "running"
          /\ ring[i].claim # "none" => ring[i].r <= requests /\ claims[ring[i].r] = "kept"
      BY <1>1, <2>1 DEF ClaimInv, RecordInv
    <3> QED BY <1>2, <1>5, <2>1, <3>1
  <2>2. CASE i = Len(ring) + 1
    <3>1. ring'[i] = e BY <1>2, <2>2
    <3>2. requests + 1 <= requests + 1 BY <1>0
    <3> QED BY <3>1, <3>2
  <2> QED BY <1>4, <2>1, <2>2
<1>8. HandInv' BY DEF ClaimInv, HandInv
<1> QED BY <1>6, <1>7, <1>8 DEF ClaimInv

(* The driver answers a head itself.                                       *)
LEMMA ClaimAnswerNow ==
  ASSUME HttpInv, ClaimInv, NEW complete \in BOOLEAN, AnswerNow(requests + 1, complete),
         requests + 1 \in Request, complete => requests + 1 \in DOMAIN asked,
         requests' \in {requests, requests + 1}, pc \in {"expire", "input"}, pc' \in {"input", "start"},
         UNCHANGED <<wire, taken, writing, aborted>>
  PROVE  ClaimInv'
<1>0. ring \in Seq(Entries) BY DEF HttpInv, HttpTyped
<1>1. complete => asked[requests + 1].safe \in BOOLEAN /\ asked[requests + 1].upgrade \in BOOLEAN
  BY StreamFacts, AskedFacts
<1>2. PICK e \in Entries :
        /\ e = NewEntry(requests + 1, "done", complete, 0, FALSE)
        /\ e.r = requests + 1 /\ e.stage = "done" /\ e.bytes = 0 /\ e.charge = 0
        /\ e.claiming = "none" /\ e.claim = "none"
  <2>1. "done" \in Stages /\ 0 \in Nat /\ FALSE \in BOOLEAN BY DEF Stages
  <2>2. PICK e \in Entries : IsNewEntry(e, requests + 1, "done", complete, 0, FALSE)
    BY <1>1, <2>1, NewEntryFacts
  <2> QED BY <2>2 DEF IsNewEntry
<1>3. PICK f : f = [e EXCEPT !.close = TRUE, !.says = TRUE] OBVIOUS
<1>4. f \in Entries BY <1>3 DEF Entries
<1>5. /\ f.r = requests + 1 /\ f.stage = "done" /\ f.bytes = 0 /\ f.charge = 0
      /\ f.claiming = "none" /\ f.claim = "none"
  BY <1>2, <1>3 DEF Entries
<1>6. Weight(f) = 0 BY <1>5 DEF Weight
<1>7. ring' = Append(ring, f) /\ UNCHANGED claims BY <1>2, <1>3 DEF AnswerNow
<1>8. Pushed(f) BY <1>0, <1>4, <1>6, <1>7, PushedFacts
<1> QED BY <1>4, <1>5, <1>7, <1>8, ClaimPush

(* A head that timed out, was rejected, or becomes an entry.               *)
LEMMA ClaimHead ==
  ASSUME HttpInv, ClaimInv, ExpireHead \/ ParseReject \/ Accept
  PROVE  ClaimInv'
<1>1. CASE ExpireHead
  <2>1. /\ pc = "expire" /\ pc' = "input" /\ head_since /\ AnswerNow(requests + 1, FALSE)
        /\ UNCHANGED <<wire, requests, taken, writing, aborted>>
    BY <1>1 DEF ExpireHead, Ticks, takeVars, wireVars
  <2>2. requests < MaxRequests BY <2>1 DEF HttpInv, StreamInv, HeadInv
  <2>3. requests \in Nat /\ MaxRequests \in Nat BY HttpAssumption DEF HttpInv, HttpTyped
  <2>4. requests + 1 \in Request BY <2>2, <2>3 DEF Request
  <2>5. FALSE \in BOOLEAN OBVIOUS
  <2> QED BY <2>1, <2>4, <2>5, ClaimAnswerNow
<1>2. CASE ParseReject
  <2>1. Parsing BY <1>2 DEF ParseReject
  <2>2. pc = "input" /\ parsed[1] = requests + 1 /\ requests + 1 \in Request BY <2>1, ParsingFacts
  <2>3. /\ pc' = "start" /\ AnswerNow(requests + 1, FALSE)
        /\ UNCHANGED <<wire, requests, taken, writing, aborted>>
    BY <1>2, <2>2 DEF ParseReject, inputFrame, takeVars, wireVars
  <2>4. FALSE \in BOOLEAN OBVIOUS
  <2> QED BY <2>2, <2>3, <2>4, ClaimAnswerNow
<1>3. CASE Accept
  <2>1. Parsing BY <1>3 DEF Accept
  <2>2. /\ pc = "input" /\ parsed[1] = requests + 1 /\ requests + 1 \in Request
        /\ requests + 1 \in DOMAIN asked
    BY <2>1, ParsingFacts
  <2>3. PICK q : q = requests + 1 OBVIOUS
  <2>4. PICK left : left = Len(BodyPieces(asked[q].body)) OBVIOUS
  <2>5. PICK rest : rest = After(After(parsed)) OBVIOUS
  <2>6. /\ pc' = pc /\ requests' = q /\ UNCHANGED <<wire, taken, writing, aborted>>
        /\ \/ AnswerNow(q, TRUE)
           \/ /\ ring' = Append(ring, NewEntry(q, IF left = 0 THEN "waiting" ELSE "body", TRUE, left,
                                               left > 0 /\ asked[q].expect = "continue" /\ rest = got))
              /\ UNCHANGED claims
    BY <1>3, <2>2, <2>3, <2>4, <2>5 DEF Accept, inputFrame, takeVars, wireVars
  <2>7. CASE AnswerNow(q, TRUE)
    <3>1. TRUE \in BOOLEAN OBVIOUS
    <3> QED BY <2>2, <2>3, <2>6, <2>7, <3>1, ClaimAnswerNow
  <2>8. CASE /\ ring' = Append(ring, NewEntry(q, IF left = 0 THEN "waiting" ELSE "body", TRUE, left,
                                              left > 0 /\ asked[q].expect = "continue" /\ rest = got))
             /\ UNCHANGED claims
    <3>0. ring \in Seq(Entries) BY DEF HttpInv, HttpTyped
    <3>1. PICK stage \in Stages : stage = IF left = 0 THEN "waiting" ELSE "body" BY DEF Stages
    <3>2. PICK cont \in BOOLEAN : cont = (left > 0 /\ asked[q].expect = "continue" /\ rest = got) OBVIOUS
    <3>3. left \in Nat BY <2>2, <2>3, <2>4, StreamFacts, PieceFacts
    <3>4. asked[q].safe \in BOOLEAN /\ asked[q].upgrade \in BOOLEAN /\ TRUE \in BOOLEAN
      BY <2>2, <2>3, StreamFacts, AskedFacts
    <3>5. PICK e \in Entries :
            /\ e = NewEntry(q, stage, TRUE, left, cont) /\ Weight(e) = 0 /\ e.r = q
            /\ e.claiming = "none" /\ e.claim = "none"
      <4>1. PICK e \in Entries : IsNewEntry(e, q, stage, TRUE, left, cont)
        BY <2>2, <2>3, <3>3, <3>4, NewEntryFacts
      <4> QED BY <4>1 DEF IsNewEntry
    <3>6. ring' = Append(ring, e) BY <2>8, <3>1, <3>2, <3>5
    <3>7. Pushed(e) BY <3>0, <3>5, <3>6, PushedFacts
    <3> QED BY <2>2, <2>3, <2>6, <2>8, <3>5, <3>7, ClaimPush
  <2> QED BY <2>6, <2>7, <2>8
<1> QED BY <1>1, <1>2, <1>3

(* A batch is written: the claim among its responses, at most one since    *)
(* nothing but the driver's answer follows a claim, is taken.              *)
LEMMA ClaimWritten ==
  ASSUME HttpInv, ClaimInv, Wrote, WroteBatch
  PROVE  ClaimInv'
<1>0. HttpTyped /\ ring \in Seq(Entries) BY DEF HttpInv, HttpTyped
<1>1. pc = "wait" /\ pc' = "expire" /\ writing' = NoWrite /\ UNCHANGED <<requests, aborted>>
  BY DEF Wrote, Woken
<1>2. PICK n : n = writing.count OBVIOUS
<1>3. /\ Written(n) /\ Taking(n)
      /\ \/ Len(ring') = Len(ring) - n /\ claims' = claims
         \/ Len(ring') = 0 /\ DroppedBehind(n, claims')
  BY <1>2, WroteBatchFacts
<1>4. /\ Len(ring) \in Nat /\ Len(ring') \in Nat /\ Len(wire) \in Nat /\ n \in Nat /\ n > 0 /\ n <= Len(ring)
  BY <1>3, WrittenLengths
<1>5. /\ DOMAIN ring = 1..Len(ring) /\ DOMAIN ring' = 1..Len(ring') /\ DOMAIN wire = 1..Len(wire)
      /\ DOMAIN wire' = 1..Len(wire')
      /\ \A i \in 1..Len(ring') : n + i \in 1..Len(ring) /\ ring'[i] = ring[n + i]
      /\ \A k \in 1..Len(wire') : /\ k \in 1..Len(wire) \/ k - Len(wire) \in 1..n
                                  /\ k \in 1..Len(wire) => wire'[k] = wire[k]
                                  /\ \A j \in 1..n : k - Len(wire) = j =>
                                       wire'[k].r = ring[j].r /\ wire'[k].claim = ring[j].claim
  BY <1>3, WrittenPlaces
<1>6. /\ \A j \in 1..n : j \in 1..Len(ring)
      /\ \A i \in 1..Len(ring) : i \in 1..n \/ i \in (n + 1)..Len(ring)
      /\ \A i \in (n + 1)..Len(ring) : i \in 1..Len(ring) /\ \A j \in 1..n : i # j
  BY <1>4
<1>7. \A j \in 1..n : ring[j].stage = "done" /\ ring[j].claiming = "none"
  <2>1. \A j \in 1..n : ring[j].stage = "done" BY <1>3 DEF Written
  <2> QED BY <1>5, <1>6, <2>1 DEF ClaimInv, RecordInv
<1>8. taken = 0 /\ ~aborted /\ (\A r \in Request : r # 0 /\ claims[r] # "handed")
  <2>1. \A r \in Request : r # 0 BY HttpAssumption DEF Request
  <2> QED BY <1>1, <2>1, TakenFacts DEF ClaimInv, HandInv
<1>9. \A k \in 1..Len(wire) : wire[k].claim = "none"
  <2>1. \A k \in 1..Len(wire) : wire[k].r \in Request BY <1>0, WireFacts DEF HttpTyped, Responses
  <2> QED BY <1>5, <1>8, <2>1 DEF ClaimInv, HandInv
<1>10. /\ \A i, j \in 1..Len(ring) : ring[i].r = ring[j].r => i = j
       /\ \A k \in 1..Len(wire), i \in 1..Len(ring) : wire[k].r # ring[i].r
       /\ \A i \in 1..Len(ring) : ring[i].r \in Request
  BY <1>0, <1>5, NumbersDiffer, RingFacts
<1>11. \A j \in 1..n : claims'[ring[j].r] = claims[ring[j].r]
  <2>1. CASE claims' = claims BY <2>1
  <2>2. CASE DroppedBehind(n, claims')
    <3>1. ASSUME NEW j \in 1..n PROVE claims'[ring[j].r] = claims[ring[j].r]
      <4>1. \A k \in (n + 1)..Len(ring) : ring[k].r # ring[j].r BY <1>6, <1>10
      <4>2. ring[j].r \in Request BY <1>6, <1>10
      <4> QED BY <2>2, <4>1, <4>2 DEF DroppedBehind
    <3> QED BY <3>1
  <2> QED BY <1>3, <2>1, <2>2
<1>12. ASSUME NEW j \in 1..n, NEW k \in 1..n, ring[j].claim # "none", ring[k].claim # "none" PROVE ~(j < k)
  <2> SUFFICES ASSUME j < k PROVE FALSE OBVIOUS
  <2>1. Ends(ring[j]) BY <1>12 DEF Ends
  <2>2. j < Len(ring) BY <1>4
  <2>3. j = Len(ring) - 1 /\ ring[j + 1].claim = "none"
    BY <1>5, <1>6, <2>1, <2>2 DEF HttpInv, OrderInv, EndInv
  <2>4. k = j + 1 BY <1>4, <2>3
  <2> QED BY <1>12, <2>3, <2>4
<1>13. \A j \in 1..n : ring[j].claim # "none" => taken' = ring[j].r
  <2>1. ASSUME NEW j \in 1..n, ring[j].claim # "none" PROVE taken' = ring[j].r
    <3>1. PICK k \in 1..n : ring[k].claim # "none" /\ taken' = ring[k].r BY <1>3, <2>1 DEF Taking
    <3>2. ~(j < k) /\ ~(k < j) BY <1>12, <2>1, <3>1
    <3>3. j = k BY <1>4, <3>2
    <3> QED BY <3>1, <3>3
  <2> QED BY <2>1
<1>14. taken' # 0 => \E k \in 1..n : ring[k].claim # "none" /\ taken' = ring[k].r
  BY <1>3, <1>8 DEF Taking
<1>15. ASSUME NEW r \in Request, NEW i \in 1..Len(ring), ring[i].r = r,
              \A k \in 1..Len(wire) : wire[k].r # r, i \in (n + 1)..Len(ring)
       PROVE  \A k \in 1..Len(wire') : wire'[k].r # r
  <2>1. \A j \in 1..n : ring[j].r # r BY <1>6, <1>10, <1>15
  <2> QED BY <1>5, <1>15, <2>1
<1>16. PlaceInv'
  <2>0. pc' = "expire" /\ requests' = requests /\ DOMAIN ring' = 1..Len(ring') /\ DOMAIN wire' = 1..Len(wire')
    BY <1>1, <1>5
  <2> SUFFICES ASSUME NEW r \in Request
               PROVE  /\ claims'[r] = "claimed" => \E i \in 1..Len(ring') : ring'[i].r = r /\ ring'[i].claiming # "none"
                      /\ claims'[r] = "kept" => \/ \E i \in 1..Len(ring') : ring'[i].r = r /\ ring'[i].claim # "none"
                                                \/ taken' = r
                      /\ claims'[r] # "handed"
                      /\ claims'[r] = "dropped" => /\ r <= requests
                                                   /\ \A i \in 1..Len(ring') : ring'[i].r # r
                                                   /\ \A k \in 1..Len(wire') : wire'[k].r # r
    BY <2>0 DEF PlaceInv
  <2>1. /\ claims[r] = "claimed" => \E i \in 1..Len(ring) : ring[i].r = r /\ ring[i].claiming # "none"
        /\ claims[r] = "kept" => \E i \in 1..Len(ring) : ring[i].r = r /\ ring[i].claim # "none"
        /\ claims[r] = "dropped" => /\ r <= requests
                                    /\ \A i \in 1..Len(ring) : ring[i].r # r
                                    /\ \A k \in 1..Len(wire) : wire[k].r # r
    BY <1>5, <1>8 DEF ClaimInv, PlaceInv
  <2>2. claims[r] = "dropped" => /\ r <= requests
                                 /\ \A i \in 1..Len(ring') : ring'[i].r # r
                                 /\ \A k \in 1..Len(wire') : wire'[k].r # r
    BY <1>5, <1>6, <2>1
  <2>3. claims[r] = "claimed" => \E i \in (n + 1)..Len(ring) : ring[i].r = r /\ ring[i].claiming # "none"
    BY <1>6, <1>7, <2>1
  <2>4. claims[r] = "kept" => \/ \E i \in (n + 1)..Len(ring) : ring[i].r = r /\ ring[i].claim # "none"
                              \/ taken' = r
    BY <1>6, <1>13, <2>1
  <2>5. CASE Len(ring') = Len(ring) - n /\ claims' = claims
    <3>1. \A i \in (n + 1)..Len(ring) : i - n \in 1..Len(ring') /\ n + (i - n) = i BY <1>4, <2>5
    <3>2. \A i \in (n + 1)..Len(ring) : i - n \in 1..Len(ring') /\ ring'[i - n] = ring[i] BY <1>5, <3>1
    <3>3. claims[r] = "claimed" => \E i \in 1..Len(ring') : ring'[i].r = r /\ ring'[i].claiming # "none"
      <4> SUFFICES ASSUME claims[r] = "claimed"
                   PROVE  \E i \in 1..Len(ring') : ring'[i].r = r /\ ring'[i].claiming # "none"
        OBVIOUS
      <4>1. PICK i \in (n + 1)..Len(ring) : ring[i].r = r /\ ring[i].claiming # "none" BY <2>3
      <4>2. PICK j \in 1..Len(ring') : ring'[j] = ring[i] BY <3>2
      <4> QED BY <4>1, <4>2
    <3>4. claims[r] = "kept" => \/ \E i \in 1..Len(ring') : ring'[i].r = r /\ ring'[i].claim # "none"
                                \/ taken' = r
      <4> SUFFICES ASSUME claims[r] = "kept", taken' # r
                   PROVE  \E i \in 1..Len(ring') : ring'[i].r = r /\ ring'[i].claim # "none"
        OBVIOUS
      <4>1. PICK i \in (n + 1)..Len(ring) : ring[i].r = r /\ ring[i].claim # "none" BY <2>4
      <4>2. PICK j \in 1..Len(ring') : ring'[j] = ring[i] BY <3>2
      <4> QED BY <4>1, <4>2
    <3> QED BY <1>8, <2>2, <2>5, <3>3, <3>4
  <2>6. CASE Len(ring') = 0 /\ DroppedBehind(n, claims')
    <3>0. claims'[r] = IF \E k \in (n + 1)..Len(ring) : ring[k].r = r /\ ring[k].claim # "none" THEN "dropped"
                       ELSE IF \E k \in (n + 1)..Len(ring) : ring[k].r = r /\ ring[k].claiming # "none" THEN "lost"
                       ELSE claims[r]
      BY <2>6 DEF DroppedBehind
    <3>1. CASE \E k \in (n + 1)..Len(ring) : ring[k].r = r /\ ring[k].claim # "none"
      <4>1. PICK k \in (n + 1)..Len(ring) : ring[k].r = r /\ ring[k].claim # "none" BY <3>1
      <4>2. claims'[r] = "dropped" BY <3>0, <3>1
      <4>3. r <= requests BY <1>5, <1>6, <4>1 DEF ClaimInv, RecordInv
      <4>4. \A j \in 1..Len(wire') : wire'[j].r # r BY <1>6, <1>10, <1>15, <4>1
      <4>5. \A i \in 1..Len(ring') : FALSE BY <2>6
      <4> QED BY <4>2, <4>3, <4>4, <4>5
    <3>2. CASE ~\E k \in (n + 1)..Len(ring) : ring[k].r = r /\ ring[k].claim # "none"
      <4>1. CASE \E k \in (n + 1)..Len(ring) : ring[k].r = r /\ ring[k].claiming # "none"
        BY <3>0, <3>2, <4>1
      <4>2. CASE ~\E k \in (n + 1)..Len(ring) : ring[k].r = r /\ ring[k].claiming # "none"
        <5>1. claims'[r] = claims[r] BY <3>0, <3>2, <4>2
        <5>2. claims[r] # "claimed" BY <2>3, <4>2
        <5>3. claims[r] = "kept" => taken' = r BY <2>4, <3>2
        <5> QED BY <1>8, <2>2, <5>1, <5>2, <5>3
      <4> QED BY <4>1, <4>2
    <3> QED BY <3>1, <3>2
  <2> QED BY <1>3, <2>5, <2>6
<1>17. RecordInv'
  <2> SUFFICES ASSUME NEW i \in 1..Len(ring')
               PROVE  /\ ring'[i].stage # "done" => ring'[i].r <= requests
                      /\ ring'[i].claiming # "none" => ring'[i].stage = "running"
                      /\ ring'[i].claim # "none" => ring'[i].r <= requests /\ claims'[ring'[i].r] = "kept"
    BY <1>1, <1>5 DEF RecordInv
  <2>1. Len(ring') # 0 BY <1>4
  <2>2. claims' = claims BY <1>3, <2>1
  <2>3. n + i \in 1..Len(ring) /\ ring'[i] = ring[n + i] BY <1>5
  <2> QED BY <1>5, <2>2, <2>3 DEF ClaimInv, RecordInv
<1>18. HandInv'
  <2>1. ASSUME taken' # 0 PROVE claims'[taken'] = "kept"
    <3>1. PICK k \in 1..n : ring[k].claim # "none" /\ taken' = ring[k].r BY <1>14, <2>1
    <3>2. claims[ring[k].r] = "kept" BY <1>5, <1>6, <3>1 DEF ClaimInv, RecordInv
    <3> QED BY <1>11, <3>1, <3>2
  <2>2. ASSUME NEW k \in 1..Len(wire'), wire'[k].claim # "none" PROVE taken' = wire'[k].r
    <3>1. CASE k \in 1..Len(wire) BY <1>5, <1>9, <2>2, <3>1
    <3>2. CASE k - Len(wire) \in 1..n
      <4>1. PICK j \in 1..n : k - Len(wire) = j BY <3>2
      <4>2. wire'[k].r = ring[j].r /\ wire'[k].claim = ring[j].claim BY <1>5, <4>1
      <4> QED BY <1>13, <2>2, <4>2
    <3> QED BY <1>5, <3>1, <3>2
  <2> QED BY <1>1, <1>5, <1>8, <2>1, <2>2 DEF HandInv
<1> QED BY <1>16, <1>17, <1>18 DEF ClaimInv

(* The task's end settles every claim that is left.                        *)
LEMMA ClaimEnd ==
  ASSUME HttpInv, ClaimInv, End
  PROVE  ClaimInv'
<1>0. ring \in Seq(Entries) BY DEF HttpInv, HttpTyped
<1>1. DOMAIN ring = 1..Len(ring) BY <1>0, EntriesFacts
<1>2. /\ pc = "end" /\ pc' = "closed" /\ ring' = <<>>
      /\ claims' = [r \in Request |-> IF r # taken THEN DroppedClaims(ring, claims)[r]
                                     ELSE IF aborted THEN "dropped" ELSE "handed"]
      /\ UNCHANGED <<wire, requests, taken, aborted>>
  BY DEF End, closeVars, takeVars, wireVars
<1>3. DOMAIN ring' = {} BY <1>2
<1>4. \A r \in Request : r # 0 BY HttpAssumption DEF Request
<1>5. taken # 0 => ~aborted /\ taken \in Request BY TakenFacts DEF ClaimInv, HandInv
<1>6. \A r \in Request : DroppedClaims(ring, claims)[r] =
        IF \E k \in DOMAIN ring : ring[k].r = r /\ ring[k].claim # "none" THEN "dropped"
        ELSE IF \E k \in DOMAIN ring : ring[k].r = r /\ ring[k].claiming # "none" THEN "lost" ELSE claims[r]
  BY DEF DroppedClaims
<1>7. PlaceInv'
  <2> SUFFICES ASSUME NEW r \in Request
               PROVE  /\ claims'[r] # "claimed" /\ claims'[r] # "kept"
                      /\ claims'[r] = "handed" => taken = r
                      /\ claims'[r] = "dropped" => r <= requests /\ \A k \in DOMAIN wire : wire[k].r # r
    BY <1>2, <1>3 DEF PlaceInv
  <2>1. CASE r = taken
    <3>1. claims'[r] = "handed" BY <1>2, <1>4, <1>5, <2>1
    <3> QED BY <2>1, <3>1
  <2>2. CASE r # taken
    <3>0. claims'[r] = DroppedClaims(ring, claims)[r] BY <1>2, <2>2
    <3>1. CASE \E k \in DOMAIN ring : ring[k].r = r /\ ring[k].claim # "none"
      <4>1. PICK k \in DOMAIN ring : ring[k].r = r /\ ring[k].claim # "none" BY <3>1
      <4>2. claims'[r] = "dropped" BY <1>6, <3>0, <3>1
      <4>3. r <= requests BY <4>1 DEF ClaimInv, RecordInv
      <4>4. \A j \in DOMAIN wire : wire[j].r # r BY <1>1, <4>1, NumbersDiffer
      <4> QED BY <4>2, <4>3, <4>4
    <3>2. CASE ~\E k \in DOMAIN ring : ring[k].r = r /\ ring[k].claim # "none"
      <4>1. CASE \E k \in DOMAIN ring : ring[k].r = r /\ ring[k].claiming # "none"
        <5>1. claims'[r] = "lost" BY <1>6, <3>0, <3>2, <4>1
        <5> QED BY <5>1
      <4>2. CASE ~\E k \in DOMAIN ring : ring[k].r = r /\ ring[k].claiming # "none"
        <5>1. claims'[r] = claims[r] BY <1>6, <3>0, <3>2, <4>2
        <5>2. claims[r] # "claimed" /\ claims[r] # "kept" /\ claims[r] # "handed"
          BY <1>2, <2>2, <3>2, <4>2 DEF ClaimInv, PlaceInv
        <5>3. claims[r] = "dropped" => r <= requests /\ \A k \in DOMAIN wire : wire[k].r # r
          BY DEF ClaimInv, PlaceInv
        <5> QED BY <5>1, <5>2, <5>3
      <4> QED BY <4>1, <4>2
    <3> QED BY <3>1, <3>2
  <2> QED BY <2>1, <2>2
<1>8. RecordInv' BY <1>3 DEF RecordInv
<1>9. HandInv'
  <2>1. taken # 0 => claims'[taken] = "handed" BY <1>2, <1>5
  <2>2. \A k \in DOMAIN wire : wire[k].claim # "none" => taken = wire[k].r BY DEF ClaimInv, HandInv
  <2> QED BY <1>2, <1>5, <2>1, <2>2 DEF HandInv
<1> QED BY <1>7, <1>8, <1>9 DEF ClaimInv

(* Every step keeps the claims in their places.                            *)
LEMMA ClaimNext ==
  ASSUME HttpInv, HttpInv', ClaimInv, [Next]_vars
  PROVE  ClaimInv'
<1>1. CASE Peer \/ Handler
  BY <1>1, ClaimWaiting, ClaimExport, ClaimMade, ClaimComplete DEF Peer, Handler
<1>2. CASE Wake
  BY <1>2, ClaimWaiting, ClaimEof, ClaimMoves, ClaimWritten DEF Wake, Wrote
<1>3. CASE Expire BY <1>3, ClaimTicking, ClaimHead, ClaimFail DEF Expire
<1>4. CASE Process BY <1>4, ClaimTicking, ClaimFed, ClaimFail, ClaimHead DEF Process
<1>5. CASE StartRunnable \/ PlanWrite \/ End BY <1>5, ClaimMoves, ClaimTicking, ClaimEnd
<1>6. CASE UNCHANGED vars
  BY <1>6 DEF vars, ClaimInv, PlaceInv, RecordInv, HandInv
<1> QED BY <1>1, <1>2, <1>3, <1>4, <1>5, <1>6 DEF Next

(* Only its end closes the task, with an empty ring.                       *)
LEMMA ClosedStep == ASSUME ClosedInv, [Next]_vars PROVE ClosedInv'
<1>1. CASE Peer \/ Handler
  BY <1>1 DEF Peer, Handler, PeerSends, PeerCloses, RequestStop, TakeHold, DropHold, Export, Claim, Complete,
              ClosedInv
<1>2. CASE Wake
  BY <1>2 DEF Wake, Woken, ReadData, ReadEof, ReadNoBudget, SocketFails, Wrote, Timer, Progress, SeeShutdown,
              ClosedInv
<1>3. CASE Expire
  BY <1>3 DEF Expire, Ticks, ExpireNone, ExpireSend, ExpireIdle, ExpireHead, ExpireTotal, ExpireBody, ClosedInv
<1>4. CASE Process
  BY <1>4 DEF Process, Feeding, Parsing, Fed, FeedLength, FeedChunk, FeedStalled, FeedReject, InputDone,
              ParsePartial, ParseReject, Accept, ClosedInv
<1>5. CASE StartRunnable \/ PlanWrite \/ End BY <1>5 DEF StartRunnable, PlanWrite, End, ClosedInv
<1>6. CASE UNCHANGED vars BY <1>6 DEF vars, ClosedInv
<1> QED BY <1>1, <1>2, <1>3, <1>4, <1>5, <1>6 DEF Next

(* The inductive invariant holds of the driver for every script, every     *)
(* limit and every order of handlers, reads, writes and deadlines.         *)
THEOREM HttpInvariant == Spec => [](HttpInv /\ ClosedInv /\ ClaimInv)
<1>1. Init => HttpInv /\ ClosedInv /\ ClaimInv
  <2>1. Init => ClaimInv
    <3> SUFFICES ASSUME Init PROVE ClaimInv OBVIOUS
    <3>1. /\ pc = "expire" /\ DOMAIN ring = {} /\ DOMAIN wire = {} /\ taken = 0
          /\ \A r \in Request : claims[r] = "none"
      BY DEF Init
    <3> QED BY <3>1 DEF ClaimInv, PlaceInv, RecordInv, HandInv
  <2> QED BY <2>1, InitInv DEF Init, ClosedInv
<1>2. (HttpInv /\ ClosedInv /\ ClaimInv) /\ [Next]_vars => (HttpInv /\ ClosedInv /\ ClaimInv)'
  BY NextInv, ClosedStep, ClaimNext
<1> QED BY <1>1, <1>2, PTL DEF Spec

(* RFC 9112 9.3.2, the ring, owes_continue and start_runnable: responses   *)
(* in the order of the requests, none skipped and none repeated; a 100 at  *)
(* most once and before its response; no handler beside an unsafe one's.   *)
THEOREM HttpInOrder == Spec => []InOrder
<1>1. HttpInv => InOrder
  <2> SUFFICES ASSUME HttpInv PROVE InOrder OBVIOUS
  <2>1. OneEach /\ ContinueFirst BY DEF HttpInv, OrderInv, ContinueInv
  <2>2. ASSUME NEW i \in DOMAIN ring, NEW j \in DOMAIN ring, i < j,
               ring[i].stage = "running", ring[j].stage = "running"
        PROVE  ring[i].safe /\ ring[j].safe
    <3>1. DOMAIN ring = 1..Len(ring) /\ Len(ring) \in Nat BY RingFacts DEF HttpInv, HttpTyped
    <3>2. j > 1 /\ i \in 1..j /\ j \in 1..j BY <2>2, <3>1
    <3> QED BY <2>2, <3>2 DEF HttpInv, RingInv, StageInv
  <2>3. \A i, j \in DOMAIN ring : i # j => i < j \/ j < i BY RingFacts DEF HttpInv, HttpTyped
  <2>4. UnsafeAlone BY <2>2, <2>3 DEF UnsafeAlone
  <2> QED BY <2>1, <2>4 DEF InOrder
<1> QED BY <1>1, HttpInvariant, PTL

(* count_body, uncount_body: the body budget is exactly what the ring's    *)
(* entries and their handlers' records hold, and the ring has room for the *)
(* answer to a head that timed out.                                        *)
THEOREM HttpBodiesCounted == Spec => []BodiesCounted
<1>1. HttpInv => BodiesCounted BY DEF HttpInv, RingInv, StageInv, BodiesCounted
<1> QED BY <1>1, HttpInvariant, PTL

(* run's end, wrote, release_entry, give_record: when the task has ended   *)
(* no claim is open; one was handed over only with its head on the wire,   *)
(* and reported dropped only if its request was never answered; and a      *)
(* claim that was void, or lost with its handler, never reached the wire.  *)
THEOREM HttpClaimSettled == Spec => []ClaimSettled
<1>1. HttpInv /\ ClosedInv /\ ClaimInv => ClaimSettled
  <2> SUFFICES ASSUME HttpInv, ClosedInv, ClaimInv, NEW r \in Request
               PROVE  /\ pc = "closed" => claims[r] # "claimed" /\ claims[r] # "kept"
                      /\ claims[r] = "handed" => \E k \in DOMAIN wire : wire[k].r = r /\ wire[k].claim # "none"
                      /\ claims[r] = "dropped" => \A k \in DOMAIN wire : wire[k].r # r
                      /\ \A k \in DOMAIN wire :
                           (wire[k].r = r /\ wire[k].claim # "none") => claims[r] \in {"kept", "handed"}
    BY DEF ClaimSettled
  <2>1. pc = "closed" => DOMAIN ring = {} BY RingFacts DEF ClosedInv, HttpInv, HttpTyped
  <2>2. pc = "closed" => claims[r] # "claimed" /\ claims[r] # "kept"
    BY <2>1 DEF ClaimInv, PlaceInv
  <2>3. r # 0 BY HttpAssumption DEF Request
  <2>4. claims[r] = "handed" => \E k \in DOMAIN wire : wire[k].r = r /\ wire[k].claim # "none"
    BY <2>3 DEF ClaimInv, PlaceInv, HttpInv, SettleInv, TakenInv
  <2>5. claims[r] = "dropped" => \A k \in DOMAIN wire : wire[k].r # r BY DEF ClaimInv, PlaceInv
  <2>6. ASSUME NEW k \in DOMAIN wire, wire[k].r = r, wire[k].claim # "none"
        PROVE  claims[r] \in {"kept", "handed"}
    BY <2>3, <2>6 DEF ClaimInv, HandInv
  <2> QED BY <2>2, <2>4, <2>5, <2>6
<1> QED BY <1>1, HttpInvariant, PTL

(* upgrade_pending, take: what the peer sent behind an upgrade request is  *)
(* handed over complete, from the octet right behind it.                   *)
THEOREM HttpUpgradeKeepsInput == Spec => []UpgradeKeepsInput
<1>1. HttpInv /\ ClaimInv => UpgradeKeepsInput
  <2> SUFFICES ASSUME HttpInv, ClaimInv, NEW k \in DOMAIN wire, wire[k].claim = "upgrade",
                      claims[wire[k].r] = "handed"
               PROVE  parsed = <<wire[k].r + 1, 1>>
    BY DEF UpgradeKeepsInput
  <2>1. wire[k].r \in Request BY WireFacts DEF HttpInv, HttpTyped
  <2>2. taken = wire[k].r BY <2>1 DEF ClaimInv, PlaceInv
  <2> QED BY <2>2 DEF HttpInv, SettleInv, TakenInv
<1> QED BY <1>1, HttpInvariant, PTL
=============================================================================

---------------------------- MODULE RequestProofs ----------------------------
(***************************************************************************)
(* Proofs about the text of an order, for any number of lines: what is     *)
(* read from the whole message are its lines, and what is read from a part *)
(* of it, if anything, are the first of them, the last perhaps with fewer  *)
(* units.                                                                  *)
(***************************************************************************)
EXTENDS Request, SumProofs, SequenceTheorems

-----------------------------------------------------------------------------
(* FlattenSeq                                                              *)

\* The concatenations of the first sequences of s.
Joins(s) == CHOOSE j : j = [i \in 1 .. Len(s) |-> IF i = 1 THEN s[i] ELSE j[i - 1] \o s[i]]

\* FlattenSeq is the last of them.
LEMMA FlattenIsJoins ==
  ASSUME NEW s PROVE FlattenSeq(s) = IF Len(s) = 0 THEN s ELSE Joins(s)[Len(s)]
BY DEF FlattenSeq, Joins

\* They exist: they are built up one by one.
LEMMA JoinsExist ==
  ASSUME NEW s, NEW n \in Nat
  PROVE  \E j : j = [i \in 1 .. n |-> IF i = 1 THEN s[i] ELSE j[i - 1] \o s[i]]
<1> DEFINE J(k, j) == [i \in 1 .. k |-> IF i = 1 THEN s[i] ELSE j[i - 1] \o s[i]]
           T == {k \in Nat : \E j : j = J(k, j)}
<1>1. 0 \in T
  <2>1. [i \in 1 .. 0 |-> 0] = J(0, [i \in 1 .. 0 |-> 0])
    OBVIOUS
  <2>2. \E j : j = J(0, j)
    BY <2>1
  <2> HIDE DEF J
  <2> QED BY <2>2
<1>2. ASSUME NEW k \in Nat, k \in T PROVE k + 1 \in T
  <2>1. PICK j : j = J(k, j)
    BY <1>2
  <2>2. PICK h : h = J(k + 1, j)
    OBVIOUS
  <2>3. \A i \in 1 .. k : h[i] = j[i]
    <3>1. \A i \in 1 .. k : i \in 1 .. k + 1
      OBVIOUS
    <3>2. \A i \in 1 .. k : j[i] = IF i = 1 THEN s[i] ELSE j[i - 1] \o s[i]
      BY <2>1
    <3>3. \A i \in 1 .. k + 1 : h[i] = IF i = 1 THEN s[i] ELSE j[i - 1] \o s[i]
      BY <2>2
    <3> QED BY <3>1, <3>2, <3>3
  <2>4. \A i \in 1 .. k + 1 : i # 1 => i - 1 \in 1 .. k
    OBVIOUS
  <2>5. J(k + 1, j) = J(k + 1, h)
    BY <2>3, <2>4
  <2>6. \E g : g = J(k + 1, g)
    <3> HIDE DEF J
    <3> QED BY <2>2, <2>5
  <2> HIDE DEF J
  <2> QED BY <2>6
<1>3. n \in T
  <2> HIDE DEF T
  <2> QED BY <1>1, <1>2, Numbers
<1> QED BY <1>3

\* So they are what their equation says.
LEMMA JoinsEquation ==
  ASSUME NEW s, Len(s) \in Nat, NEW i \in 1 .. Len(s)
  PROVE  Joins(s)[i] = IF i = 1 THEN s[i] ELSE Joins(s)[i - 1] \o s[i]
<1>1. Joins(s) = [h \in 1 .. Len(s) |-> IF h = 1 THEN s[h] ELSE Joins(s)[h - 1] \o s[h]]
  BY JoinsExist DEF Joins
<1> QED BY <1>1

\* Sequences that begin alike have the same concatenations.
LEMMA JoinsSame ==
  ASSUME NEW s, NEW t, Len(s) \in Nat, Len(t) \in Nat, NEW n \in Nat,
         n <= Len(s), n <= Len(t), \A i \in 1 .. n : s[i] = t[i]
  PROVE  \A i \in 1 .. n : Joins(s)[i] = Joins(t)[i]
<1> DEFINE T == {k \in Nat : k \in 1 .. n => Joins(s)[k] = Joins(t)[k]}
<1>1. 0 \in T
  OBVIOUS
<1>2. ASSUME NEW k \in Nat, k \in T PROVE k + 1 \in T
  <2>1. ASSUME k + 1 \in 1 .. n PROVE Joins(s)[k + 1] = Joins(t)[k + 1]
    <3>1. /\ Joins(s)[k + 1] = IF k + 1 = 1 THEN s[k + 1] ELSE Joins(s)[(k + 1) - 1] \o s[k + 1]
          /\ Joins(t)[k + 1] = IF k + 1 = 1 THEN t[k + 1] ELSE Joins(t)[(k + 1) - 1] \o t[k + 1]
      <4>1. k + 1 \in 1 .. Len(s) /\ k + 1 \in 1 .. Len(t)
        BY <2>1
      <4> QED BY <4>1, JoinsEquation
    <3>2. k + 1 # 1 => Joins(s)[k] = Joins(t)[k]
      BY <1>2, <2>1
    <3> QED BY <2>1, <3>1, <3>2
  <2> QED BY <2>1
<1>3. Nat \subseteq T
  <2> HIDE DEF T
  <2> QED BY <1>1, <1>2, Numbers
<1> QED BY <1>3

\* Of no sequence.
LEMMA FlattenEmpty == FlattenSeq(<<>>) = <<>>
BY FlattenIsJoins

\* One sequence more.
LEMMA FlattenAppend ==
  ASSUME NEW S, NEW s \in Seq(Seq(S)), NEW x \in Seq(S)
  PROVE  FlattenSeq(Append(s, x)) = FlattenSeq(s) \o x
<1> DEFINE t == Append(s, x)
           n == Len(s)
<1>1. /\ Len(t) = n + 1 /\ n \in Nat /\ t[n + 1] = x
      /\ \A i \in 1 .. n : t[i] = s[i]
  OBVIOUS
<1>2. Joins(t)[n + 1] = IF n + 1 = 1 THEN x ELSE Joins(t)[(n + 1) - 1] \o x
  <2>1. n + 1 \in 1 .. Len(t) /\ Len(t) \in Nat
    BY <1>1
  <2> HIDE DEF t, n
  <2> QED BY <1>1, <2>1, JoinsEquation
<1>3. n # 0 => Joins(t)[n] = Joins(s)[n]
  <2>1. Len(s) \in Nat /\ Len(t) \in Nat /\ n <= Len(s) /\ n <= Len(t)
    BY <1>1
  <2>2. \A i \in 1 .. n : Joins(t)[i] = Joins(s)[i]
    <3> HIDE DEF t, n
    <3> QED BY <1>1, <2>1, JoinsSame
  <2>3. n # 0 => n \in 1 .. n
    BY <1>1
  <2> QED BY <2>2, <2>3
<1>4. FlattenSeq(t) = Joins(t)[n + 1]
  <2> HIDE DEF t
  <2> QED BY <1>1, FlattenIsJoins
<1>5. CASE n = 0
  <2>1. s = <<>> /\ <<>> \o x = x
    BY <1>5
  <2> QED BY <1>2, <1>4, <1>5, <2>1, FlattenEmpty
<1>6. CASE n # 0
  <2>1. FlattenSeq(s) = Joins(s)[n]
    BY <1>6, FlattenIsJoins
  <2> HIDE DEF t, n
  <2>2. (n + 1) - 1 = n /\ n + 1 # 1
    BY <1>1, <1>6
  <2> QED BY <1>2, <1>3, <1>4, <1>6, <2>1, <2>2 DEF t
<1> QED BY <1>5, <1>6

\* A sequence that is not empty has a last element.
LEMMA SplitLast ==
  ASSUME NEW S, NEW s \in Seq(S), NEW n \in Nat, Len(s) = n + 1
  PROVE  \E t \in Seq(S), x \in S : s = Append(t, x) /\ Len(t) = n
<1> DEFINE t == [i \in 1 .. n |-> s[i]]
<1>1. t \in Seq(S) /\ Len(t) = n /\ s[n + 1] \in S
  OBVIOUS
<1>2. s = Append(t, s[n + 1])
  BY <1>1
<1> QED BY <1>1, <1>2

\* Of sequences over S, one over S.
LEMMA FlattenType ==
  ASSUME NEW S, NEW s \in Seq(Seq(S)) PROVE FlattenSeq(s) \in Seq(S)
<1> DEFINE T == {n \in Nat : \A t \in Seq(Seq(S)) : Len(t) = n => FlattenSeq(t) \in Seq(S)}
<1>1. 0 \in T
  <2>1. \A t \in Seq(Seq(S)) : Len(t) = 0 => t = <<>>
    OBVIOUS
  <2> QED BY <2>1, FlattenEmpty
<1>2. ASSUME NEW n \in Nat, n \in T PROVE n + 1 \in T
  <2>1. ASSUME NEW t \in Seq(Seq(S)), Len(t) = n + 1 PROVE FlattenSeq(t) \in Seq(S)
    <3>1. PICK u \in Seq(Seq(S)), x \in Seq(S) : t = Append(u, x) /\ Len(u) = n
      BY <2>1, SplitLast
    <3>2. FlattenSeq(u) \in Seq(S) /\ FlattenSeq(t) = FlattenSeq(u) \o x
      BY <1>2, <3>1, FlattenAppend
    <3> QED BY <3>1, <3>2, ConcatProperties
  <2> QED BY <2>1
<1>3. Nat \subseteq T
  <2> HIDE DEF T
  <2> QED BY <1>1, <1>2, Numbers
<1> QED BY <1>3

\* With every element of each of them.
LEMMA FlattenHas ==
  ASSUME NEW S, NEW s \in Seq(Seq(S)), NEW i \in DOMAIN s, NEW k \in DOMAIN s[i]
  PROVE  \E j \in DOMAIN FlattenSeq(s) : FlattenSeq(s)[j] = s[i][k]
<1> DEFINE Has(t, x) == \E j \in DOMAIN FlattenSeq(t) : FlattenSeq(t)[j] = x
           T == {n \in Nat : \A t \in Seq(Seq(S)) : Len(t) = n =>
                   \A h \in DOMAIN t : \A g \in DOMAIN t[h] : Has(t, t[h][g])}
<1>1. 0 \in T
  <2>1. \A t \in Seq(Seq(S)) : Len(t) = 0 => DOMAIN t = {}
    OBVIOUS
  <2> QED BY <2>1
<1>2. ASSUME NEW n \in Nat, n \in T PROVE n + 1 \in T
  <2>1. ASSUME NEW t \in Seq(Seq(S)), Len(t) = n + 1, NEW h \in DOMAIN t, NEW g \in DOMAIN t[h]
        PROVE  Has(t, t[h][g])
    <3>1. PICK u \in Seq(Seq(S)), x \in Seq(S) : t = Append(u, x) /\ Len(u) = n
      BY <2>1, SplitLast
    <3>2. FlattenSeq(t) = FlattenSeq(u) \o x
      BY <3>1, FlattenAppend
    <3>3. PICK a \in Seq(S) : a = FlattenSeq(u)
      BY FlattenType
    <3>4. /\ Len(a \o x) = Len(a) + Len(x)
          /\ \A j \in 1 .. Len(a) : (a \o x)[j] = a[j] /\ j \in 1 .. Len(a \o x)
          /\ \A j \in 1 .. Len(x) : (a \o x)[Len(a) + j] = x[j] /\ Len(a) + j \in 1 .. Len(a \o x)
      <4>1. /\ Len(a \o x) = Len(a) + Len(x)
            /\ \A j \in 1 .. Len(a) + Len(x) :
                 (a \o x)[j] = IF j <= Len(a) THEN a[j] ELSE x[j - Len(a)]
        BY ConcatProperties
      <4>2. Len(a) \in Nat /\ Len(x) \in Nat
        OBVIOUS
      <4>3. \A j \in 1 .. Len(a) : j \in 1 .. Len(a) + Len(x) /\ j <= Len(a)
        BY <4>2
      <4>4. \A j \in 1 .. Len(x) : /\ Len(a) + j \in 1 .. Len(a) + Len(x)
                                    /\ ~(Len(a) + j <= Len(a))
                                    /\ Len(a) + j - Len(a) = j
        BY <4>2
      <4> QED BY <4>1, <4>3, <4>4
    <3>5. CASE h = n + 1
      <4>1. t[h] = x /\ g \in 1 .. Len(x)
        BY <3>1, <3>5
      <4>2. Len(a) + g \in DOMAIN (a \o x) /\ (a \o x)[Len(a) + g] = t[h][g]
        <5>1. DOMAIN (a \o x) = 1 .. Len(a \o x)
          OBVIOUS
        <5> QED BY <3>4, <4>1, <5>1
      <4> QED BY <3>2, <3>3, <4>2
    <3>6. CASE h # n + 1
      <4>1. h \in DOMAIN u /\ t[h] = u[h] /\ g \in DOMAIN u[h]
        BY <3>1, <3>6
      <4>2. PICK j \in DOMAIN FlattenSeq(u) : FlattenSeq(u)[j] = u[h][g]
        BY <1>2, <3>1, <4>1
      <4>3. j \in DOMAIN (a \o x) /\ (a \o x)[j] = u[h][g]
        <5>1. DOMAIN (a \o x) = 1 .. Len(a \o x) /\ DOMAIN a = 1 .. Len(a)
          OBVIOUS
        <5> QED BY <3>3, <3>4, <4>2, <5>1
      <4> QED BY <3>2, <3>3, <4>1, <4>3
    <3> QED BY <3>5, <3>6
  <2> HIDE DEF Has
  <2> QED BY <2>1
<1>3. Nat \subseteq T
  <2> HIDE DEF T
  <2> QED BY <1>1, <1>2, Numbers
<1>4. Len(s) \in T
  BY <1>3
<1> QED BY <1>4

-----------------------------------------------------------------------------
(* Reading a text                                                          *)

Keys   == {"user_id", "user_name", "dest_x", "dest_y",
           "product_id", "product_name", "quantity"}
Fields == [key : Keys, value : Int]
OrderLines == [product : Nat, quantity : Nat]

\* What a field adds to the values of a key.
Value(f, k) == IF f.key = k THEN <<f.value>> ELSE <<>>

\* A function on the first numbers is a sequence.
LEMMA FunctionIsSeq ==
  ASSUME NEW S, NEW n \in Nat, NEW h, h \in [1 .. n -> S] PROVE h \in Seq(S) /\ Len(h) = n
OBVIOUS

\* A text without a field has no values.
LEMMA HeaderMapEmpty == ASSUME NEW k PROVE headerMap(<<>>, k) = <<>>
BY FlattenIsJoins DEF headerMap

\* One field more adds its value.
LEMMA HeaderMapAppend ==
  ASSUME NEW m \in Seq(Fields), NEW f \in Fields, NEW k
  PROVE  headerMap(Append(m, f), k) = headerMap(m, k) \o Value(f, k)
<1> DEFINE h(t) == [i \in DOMAIN t |-> Value(t[i], k)]
<1>1. \A g \in Fields : Value(g, k) \in Seq(Int)
  BY DEF Value, Fields
<1>2. h(m) \in Seq(Seq(Int)) /\ Value(f, k) \in Seq(Int)
  <2>1. Len(m) \in Nat /\ DOMAIN m = 1 .. Len(m) /\ \A i \in DOMAIN m : m[i] \in Fields
    OBVIOUS
  <2>2. h(m) \in [1 .. Len(m) -> Seq(Int)]
    BY <1>1, <2>1
  <2>3. h(m) \in Seq(Seq(Int))
    <3> HIDE DEF h
    <3> QED BY <2>1, <2>2, FunctionIsSeq
  <2> QED BY <1>1, <2>3
<1>3. h(Append(m, f)) = Append(h(m), Value(f, k))
  OBVIOUS
<1>4. \A t : headerMap(t, k) = FlattenSeq(h(t))
  BY DEF headerMap, Value
<1> HIDE DEF h
<1>5. FlattenSeq(Append(h(m), Value(f, k))) = FlattenSeq(h(m)) \o Value(f, k)
  BY <1>2, FlattenAppend
<1> QED BY <1>3, <1>4, <1>5

\* The values are numbers.
LEMMA HeaderMapType ==
  ASSUME NEW m \in Seq(Fields), NEW k PROVE headerMap(m, k) \in Seq(Int)
<1> DEFINE h == [i \in DOMAIN m |-> Value(m[i], k)]
<1>1. \A g \in Fields : Value(g, k) \in Seq(Int)
  BY DEF Value, Fields
<1>2. h \in Seq(Seq(Int))
  <2>1. Len(m) \in Nat /\ DOMAIN m = 1 .. Len(m) /\ \A i \in DOMAIN m : m[i] \in Fields
    OBVIOUS
  <2>2. h \in [1 .. Len(m) -> Seq(Int)]
    BY <1>1, <2>1
  <2> HIDE DEF h
  <2> QED BY <2>1, <2>2, FunctionIsSeq
<1>3. headerMap(m, k) = FlattenSeq(h)
  BY DEF headerMap, Value
<1> HIDE DEF h
<1> QED BY <1>2, <1>3, FlattenType

\* No field of a key, no value.
LEMMA NoValues ==
  ASSUME NEW m \in Seq(Fields), NEW k, \A i \in DOMAIN m : m[i].key # k
  PROVE  headerMap(m, k) = <<>>
<1> DEFINE T == {n \in Nat : \A t \in Seq(Fields) :
                   Len(t) = n /\ (\A i \in DOMAIN t : t[i].key # k) => headerMap(t, k) = <<>>}
<1>1. 0 \in T
  <2>1. \A t \in Seq(Fields) : Len(t) = 0 => t = <<>>
    OBVIOUS
  <2> QED BY <2>1, HeaderMapEmpty
<1>2. ASSUME NEW n \in Nat, n \in T PROVE n + 1 \in T
  <2>1. ASSUME NEW t \in Seq(Fields), Len(t) = n + 1, \A i \in DOMAIN t : t[i].key # k
        PROVE  headerMap(t, k) = <<>>
    <3>1. PICK u \in Seq(Fields), f \in Fields : t = Append(u, f) /\ Len(u) = n
      BY <2>1, SplitLast
    <3>2. f.key # k /\ \A i \in DOMAIN u : u[i].key # k
      <4>1. n + 1 \in DOMAIN t /\ t[n + 1] = f /\ \A i \in DOMAIN u : i \in DOMAIN t /\ t[i] = u[i]
        BY <3>1
      <4> QED BY <2>1, <4>1
    <3>3. headerMap(u, k) = <<>> /\ Value(f, k) = <<>>
      BY <1>2, <3>1, <3>2 DEF Value
    <3> QED BY <3>1, <3>3, HeaderMapAppend
  <2> QED BY <2>1
<1>3. Len(m) \in Nat /\ Nat \subseteq T
  <2> HIDE DEF T
  <2> QED BY <1>1, <1>2, Numbers
<1> QED BY <1>3

\* A field more: its value is the last of its key, and the other keys have theirs.
LEMMA OneMore ==
  ASSUME NEW m \in Seq(Fields), NEW f \in Fields
  PROVE  \E t \in Seq(Fields) :
           /\ t = Append(m, f)
           /\ \A k : headerMap(t, k) = IF f.key = k THEN Append(headerMap(m, k), f.value)
                                                    ELSE headerMap(m, k)
<1>1. ASSUME NEW k
      PROVE  headerMap(Append(m, f), k) = IF f.key = k THEN Append(headerMap(m, k), f.value)
                                                       ELSE headerMap(m, k)
  <2>1. PICK h \in Seq(Int) : h = headerMap(m, k)
    BY HeaderMapType
  <2>2. f.value \in Int
    BY DEF Fields
  <2>3. PICK v \in Int : v = f.value
    BY <2>2
  <2>4. h \o <<>> = h /\ h \o <<v>> = Append(h, v)
    OBVIOUS
  <2>5. headerMap(Append(m, f), k) = h \o (IF f.key = k THEN <<v>> ELSE <<>>)
    BY <2>1, <2>3, HeaderMapAppend DEF Value
  <2> QED BY <2>1, <2>3, <2>4, <2>5
<1>2. Append(m, f) \in Seq(Fields)
  OBVIOUS
<1>3. PICK t \in Seq(Fields) : t = Append(m, f)
  BY <1>2
<1> QED BY <1>1, <1>3

-----------------------------------------------------------------------------
(* The whole message                                                       *)

IdField(l)   == Field("product_id", l.product)
NameField(l) == Field("product_name", l.product)
QuantityField(l) == Field("quantity", l.quantity)

\* The fields of a line are fields of a text.
LEMMA FieldTypes ==
  ASSUME NEW l \in OrderLines
  PROVE  /\ IdField(l) \in Fields /\ NameField(l) \in Fields /\ QuantityField(l) \in Fields
         /\ LineFields(l) \in Seq(Fields)
<1>1. \A k \in Keys, v \in Int : Field(k, v) \in Fields
  BY DEF Field, Fields
<1>2. l.product \in Int /\ l.quantity \in Int
  BY DEF OrderLines
<1>3. IdField(l) \in Fields /\ NameField(l) \in Fields /\ QuantityField(l) \in Fields
  BY <1>1, <1>2 DEF Keys, IdField, NameField, QuantityField
<1>4. LineFields(l) = <<IdField(l), NameField(l), QuantityField(l)>>
  BY DEF LineFields, IdField, NameField, QuantityField
<1> QED BY <1>3, <1>4

\* The same, for a field that is written out.
LEMMA OneFieldMore ==
  ASSUME NEW m \in Seq(Fields), NEW c \in Keys, NEW v \in Int
  PROVE  \E t \in Seq(Fields) :
           /\ t = Append(m, Field(c, v))
           /\ \A k : headerMap(t, k) = IF c = k THEN Append(headerMap(m, k), v) ELSE headerMap(m, k)
<1>1. PICK f \in Fields : f = Field(c, v) /\ f.key = c /\ f.value = v
  <2>1. Field(c, v) \in Fields /\ Field(c, v).key = c /\ Field(c, v).value = v
    BY DEF Field, Fields
  <2> QED BY <2>1
<1>2. PICK t \in Seq(Fields) :
        /\ t = Append(m, f)
        /\ \A k : headerMap(t, k) = IF f.key = k THEN Append(headerMap(m, k), f.value)
                                                 ELSE headerMap(m, k)
  BY OneMore
<1> QED BY <1>1, <1>2

\* Those of the header.
LEMMA HeaderFields ==
  /\ Field("user_id", 1) \in Fields /\ Field("user_name", 1) \in Fields
  /\ Field("dest_x", 0) \in Fields /\ Field("dest_y", 0) \in Fields
<1>1. \A k \in Keys, v \in Int : Field(k, v) \in Fields
  BY DEF Field, Fields
<1> QED BY <1>1 DEF Keys

\* The header is a text.
LEMMA HeaderType == Header \in Seq(Fields)
BY HeaderFields DEF Header

\* A message without a line is its header.
LEMMA MessageEmpty == construct_order_message(<<>>) = Header
<1>1. FlattenSeq([i \in DOMAIN <<>> |-> LineFields(<<>>[i])]) = <<>>
  BY FlattenIsJoins
<1> QED BY <1>1, HeaderType, ConcatEmptySeq DEF construct_order_message

\* A message is a text.
LEMMA MessageType ==
  ASSUME NEW lines \in Seq(OrderLines) PROVE construct_order_message(lines) \in Seq(Fields)
<1> DEFINE h == [i \in DOMAIN lines |-> LineFields(lines[i])]
<1>1. h \in Seq(Seq(Fields))
  <2>1. Len(lines) \in Nat /\ DOMAIN lines = 1 .. Len(lines)
        /\ \A i \in DOMAIN lines : lines[i] \in OrderLines
    OBVIOUS
  <2>2. h \in [1 .. Len(lines) -> Seq(Fields)]
    BY <2>1, FieldTypes
  <2> HIDE DEF h
  <2> QED BY <2>1, <2>2, FunctionIsSeq
<1>2. FlattenSeq(h) \in Seq(Fields)
  <2> HIDE DEF h
  <2> QED BY <1>1, FlattenType
<1> QED BY <1>2, HeaderType, ConcatProperties DEF construct_order_message

\* Its last three fields are those of its last line.
LEMMA MessageAppend ==
  ASSUME NEW lines \in Seq(OrderLines), NEW l \in OrderLines
  PROVE  construct_order_message(Append(lines, l)) =
           Append(Append(Append(construct_order_message(lines), IdField(l)), NameField(l)),
                  QuantityField(l))
<1> DEFINE h(t) == [i \in DOMAIN t |-> LineFields(t[i])]
<1>1. h(lines) \in Seq(Seq(Fields)) /\ LineFields(l) \in Seq(Fields)
  <2>1. Len(lines) \in Nat /\ DOMAIN lines = 1 .. Len(lines)
        /\ \A i \in DOMAIN lines : lines[i] \in OrderLines
    OBVIOUS
  <2>2. h(lines) \in [1 .. Len(lines) -> Seq(Fields)]
    BY <2>1, FieldTypes
  <2>3. h(lines) \in Seq(Seq(Fields))
    <3> HIDE DEF h
    <3> QED BY <2>1, <2>2, FunctionIsSeq
  <2> QED BY <2>3, FieldTypes
<1>2. h(Append(lines, l)) = Append(h(lines), LineFields(l))
  OBVIOUS
<1>3. \A t : construct_order_message(t) = Header \o FlattenSeq(h(t))
  BY DEF construct_order_message
<1> HIDE DEF h
<1>4. PICK s \in Seq(Fields) : s = FlattenSeq(h(lines))
  BY <1>1, FlattenType
<1>5. construct_order_message(Append(lines, l)) = Header \o (s \o LineFields(l))
  BY <1>1, <1>2, <1>3, <1>4, FlattenAppend
<1>6. Header \o (s \o LineFields(l)) = (Header \o s) \o LineFields(l)
  <2>1. PICK a, c : a = Header /\ c = LineFields(l)
    OBVIOUS
  <2>2. a \in Seq(Fields) /\ c \in Seq(Fields)
    BY <1>1, <2>1, HeaderType
  <2>3. a \o (s \o c) = (a \o s) \o c
    BY <2>2
  <2> QED BY <2>1, <2>3
<1>7. PICK t \in Seq(Fields) : t = Header \o s
  BY HeaderType, ConcatProperties
<1>8. t \o LineFields(l) = Append(Append(Append(t, IdField(l)), NameField(l)), QuantityField(l))
  <2>1. LineFields(l) = <<IdField(l), NameField(l), QuantityField(l)>>
    BY DEF LineFields, IdField, NameField, QuantityField
  <2>2. IdField(l) \in Fields /\ NameField(l) \in Fields /\ QuantityField(l) \in Fields
    BY FieldTypes
  <2> QED BY <2>1, <2>2
<1> QED BY <1>3, <1>4, <1>5, <1>6, <1>7, <1>8

Ids(lines)        == [i \in DOMAIN lines |-> lines[i].product]
Quantities(lines) == [i \in DOMAIN lines |-> lines[i].quantity]

\* What the back end reads from the header, and from the fields of the lines.
ReadsHeader(m) == /\ \A k \in {"user_id", "user_name"} : headerMap(m, k) = <<1>>
                  /\ \A k \in {"dest_x", "dest_y"} : headerMap(m, k) = <<0>>
ReadsLines(m, lines) == /\ headerMap(m, "product_id") = Ids(lines)
                        /\ headerMap(m, "product_name") = Ids(lines)
                        /\ headerMap(m, "quantity") = Quantities(lines)

\* The header alone is read as a message without lines.
LEMMA HeaderReads == ReadsHeader(Header) /\ ReadsLines(Header, <<>>)
<1> DEFINE f1 == Field("user_id", 1)
           f2 == Field("user_name", 1)
           f3 == Field("dest_x", 0)
           f4 == Field("dest_y", 0)
<1>1. f1 \in Fields /\ f2 \in Fields /\ f3 \in Fields /\ f4 \in Fields
  BY HeaderFields
<1>2. /\ Header = Append(Append(Append(Append(<<>>, f1), f2), f3), f4)
      /\ Append(<<>>, f1) \in Seq(Fields) /\ Append(Append(<<>>, f1), f2) \in Seq(Fields)
      /\ Append(Append(Append(<<>>, f1), f2), f3) \in Seq(Fields) /\ <<>> \in Seq(Fields)
  BY <1>1 DEF Header
<1>3. ASSUME NEW k
      PROVE  headerMap(Header, k) =
               (((<<>> \o Value(f1, k)) \o Value(f2, k)) \o Value(f3, k)) \o Value(f4, k)
  <2> HIDE DEF f1, f2, f3, f4
  <2>1. headerMap(Append(<<>>, f1), k) = <<>> \o Value(f1, k)
    <3>1. headerMap(Append(<<>>, f1), k) = headerMap(<<>>, k) \o Value(f1, k)
      BY <1>1, <1>2, HeaderMapAppend
    <3> QED BY <3>1, HeaderMapEmpty
  <2>2. headerMap(Append(Append(<<>>, f1), f2), k) =
          headerMap(Append(<<>>, f1), k) \o Value(f2, k)
    BY <1>1, <1>2, HeaderMapAppend
  <2>3. headerMap(Append(Append(Append(<<>>, f1), f2), f3), k) =
          headerMap(Append(Append(<<>>, f1), f2), k) \o Value(f3, k)
    BY <1>1, <1>2, HeaderMapAppend
  <2>4. headerMap(Header, k) =
          headerMap(Append(Append(Append(<<>>, f1), f2), f3), k) \o Value(f4, k)
    BY <1>1, <1>2, HeaderMapAppend
  <2> QED BY <2>1, <2>2, <2>3, <2>4
<1>4. headerMap(Header, "user_id") = <<1>> /\ headerMap(Header, "user_name") = <<1>>
  BY <1>3 DEF Value, Field
<1>5. headerMap(Header, "dest_x") = <<0>> /\ headerMap(Header, "dest_y") = <<0>>
  BY <1>3 DEF Value, Field
<1>6. /\ headerMap(Header, "product_id") = <<>> /\ headerMap(Header, "product_name") = <<>>
      /\ headerMap(Header, "quantity") = <<>>
  BY <1>3 DEF Value, Field
<1> QED BY <1>4, <1>5, <1>6 DEF ReadsHeader, ReadsLines, Ids, Quantities

\* A line more: the back end reads it too.
LEMMA LineReads ==
  ASSUME NEW m \in Seq(Fields), NEW lines \in Seq(OrderLines), NEW l \in OrderLines,
         ReadsHeader(m), ReadsLines(m, lines)
  PROVE  LET n == Append(Append(Append(m, IdField(l)), NameField(l)), QuantityField(l))
         IN  ReadsHeader(n) /\ ReadsLines(n, Append(lines, l))
<1> DEFINE n == Append(Append(Append(m, IdField(l)), NameField(l)), QuantityField(l))
<1>1. /\ IdField(l) \in Fields /\ NameField(l) \in Fields /\ QuantityField(l) \in Fields
      /\ Append(m, IdField(l)) \in Seq(Fields)
      /\ Append(Append(m, IdField(l)), NameField(l)) \in Seq(Fields)
  BY FieldTypes
<1>2. ASSUME NEW k
      PROVE  headerMap(n, k) = CASE k = "product_id" -> Append(headerMap(m, k), l.product)
                                 [] k = "product_name" -> Append(headerMap(m, k), l.product)
                                 [] k = "quantity" -> Append(headerMap(m, k), l.quantity)
                                 [] OTHER -> headerMap(m, k)
  <2>0. "product_id" \in Keys /\ "product_name" \in Keys /\ "quantity" \in Keys
        /\ l.product \in Int /\ l.quantity \in Int
    BY DEF Keys, OrderLines
  <2>1. PICK m1 \in Seq(Fields) :
          /\ m1 = Append(m, Field("product_id", l.product))
          /\ \A j : headerMap(m1, j) = IF "product_id" = j THEN Append(headerMap(m, j), l.product)
                                                           ELSE headerMap(m, j)
    BY <2>0, OneFieldMore
  <2>2. PICK m2 \in Seq(Fields) :
          /\ m2 = Append(m1, Field("product_name", l.product))
          /\ \A j : headerMap(m2, j) = IF "product_name" = j THEN Append(headerMap(m1, j), l.product)
                                                             ELSE headerMap(m1, j)
    BY <2>0, OneFieldMore
  <2>3. PICK m3 \in Seq(Fields) :
          /\ m3 = Append(m2, Field("quantity", l.quantity))
          /\ \A j : headerMap(m3, j) = IF "quantity" = j THEN Append(headerMap(m2, j), l.quantity)
                                                         ELSE headerMap(m2, j)
    BY <2>0, OneFieldMore
  <2>4. m3 = n
    BY <2>1, <2>2, <2>3 DEF IdField, NameField, QuantityField
  <2> HIDE DEF n
  <2> QED BY <2>1, <2>2, <2>3, <2>4
<1> HIDE DEF n
<1>7. /\ headerMap(n, "product_id") = Append(Ids(lines), l.product)
      /\ headerMap(n, "product_name") = Append(Ids(lines), l.product)
      /\ headerMap(n, "quantity") = Append(Quantities(lines), l.quantity)
  BY <1>2 DEF ReadsLines
<1>8. \A k \in {"user_id", "user_name", "dest_x", "dest_y"} : headerMap(n, k) = headerMap(m, k)
  BY <1>2
<1>9. /\ Append(Ids(lines), l.product) = Ids(Append(lines, l))
      /\ Append(Quantities(lines), l.quantity) = Quantities(Append(lines, l))
  BY DEF Ids, Quantities
<1>10. ReadsHeader(n)
  BY <1>8 DEF ReadsHeader
<1>11. ReadsLines(n, Append(lines, l))
  BY <1>7, <1>9 DEF ReadsLines
<1> QED BY <1>10, <1>11 DEF n

\* The whole message is read as it was written.
LEMMA MessageReads ==
  ASSUME NEW lines \in Seq(OrderLines)
  PROVE  ReadsHeader(construct_order_message(lines))
         /\ ReadsLines(construct_order_message(lines), lines)
<1> DEFINE M(t) == construct_order_message(t)
           T == {n \in Nat : \A t \in Seq(OrderLines) :
                   Len(t) = n => ReadsHeader(M(t)) /\ ReadsLines(M(t), t)}
<1>1. 0 \in T
  <2>1. \A t \in Seq(OrderLines) : Len(t) = 0 => t = <<>>
    OBVIOUS
  <2> QED BY <2>1, MessageEmpty, HeaderReads
<1>2. ASSUME NEW n \in Nat, n \in T PROVE n + 1 \in T
  <2>1. ASSUME NEW t \in Seq(OrderLines), Len(t) = n + 1
        PROVE  ReadsHeader(M(t)) /\ ReadsLines(M(t), t)
    <3>1. PICK u \in Seq(OrderLines), l \in OrderLines : t = Append(u, l) /\ Len(u) = n
      BY <2>1, SplitLast
    <3>2. M(u) \in Seq(Fields) /\ ReadsHeader(M(u)) /\ ReadsLines(M(u), u)
      BY <1>2, <3>1, MessageType
    <3>3. M(t) = Append(Append(Append(M(u), IdField(l)), NameField(l)), QuantityField(l))
      BY <3>1, MessageAppend
    <3> HIDE DEF M
    <3> QED BY <3>1, <3>2, <3>3, LineReads
  <2> QED BY <2>1
<1>3. Len(lines) \in T
  <2> HIDE DEF T
  <2> QED BY <1>1, <1>2, Numbers
<1> QED BY <1>3

\* Where the header and some lines can be read, these lines are the order.
LEMMA ReadText ==
  ASSUME NEW m, NEW lines \in Seq(OrderLines), ReadsHeader(m), ReadsLines(m, lines)
  PROVE  get_products_order(m) = lines
<1>1. /\ DOMAIN Ids(lines) = DOMAIN lines /\ DOMAIN Quantities(lines) = DOMAIN lines
      /\ \A i \in DOMAIN lines : /\ Ids(lines)[i] = lines[i].product
                                 /\ Quantities(lines)[i] = lines[i].quantity
                                 /\ lines[i] \in OrderLines
                                 /\ Ids(lines)[i] # -1 /\ Quantities(lines)[i] # -1
  <2>1. \A i \in DOMAIN lines : lines[i] \in OrderLines
    OBVIOUS
  <2>2. \A l \in OrderLines : l.product # -1 /\ l.quantity # -1
    BY DEF OrderLines
  <2> QED BY <2>1, <2>2 DEF Ids, Quantities
<1>2. CASE lines = <<>>
  <2>1. headerMap(m, "product_id") = <<>>
    BY <1>2 DEF ReadsLines, Ids
  <2> QED BY <1>2, <2>1 DEF get_products_order, Readable, NoOrder
<1>3. CASE lines # <<>>
  <2>1. Ids(lines) # <<>>
    BY <1>1, <1>3
  <2>2. Readable(m)
    BY <1>1, <2>1 DEF Readable, HasNumber, Empty, ReadsHeader, ReadsLines
  <2>3. get_products_order(m) = [i \in DOMAIN lines |-> [product |-> lines[i].product,
                                                         quantity |-> lines[i].quantity]]
    BY <1>1, <2>2 DEF get_products_order, ReadsLines
  <2>4. \A i \in DOMAIN lines : lines[i] = [product |-> lines[i].product,
                                            quantity |-> lines[i].quantity]
    BY <1>1 DEF OrderLines
  <2> QED BY <2>3, <2>4
<1> QED BY <1>2, <1>3

\* construct_order_message and get_products_order: what the page writes is what the
\* back end reads, for any lines.
THEOREM WholeMessage ==
  ASSUME NEW lines \in Seq(OrderLines)
  PROVE  get_products_order(construct_order_message(lines)) = lines
BY MessageReads, ReadText

-----------------------------------------------------------------------------
(* A part of a message                                                     *)

\* A shorter value of a field.
LEMMA ShorterType ==
  ASSUME NEW v \in Nat, NEW w \in Shorter(v) PROVE w = Empty \/ (w \in Nat /\ w <= v)
BY DEF Shorter, PowersOfTen

\* The parts of a text with a field more: those of the text, the text, and the text
\* with a part of the field.
LEMMA CutsAppend ==
  ASSUME NEW m \in Seq(Fields), NEW f \in Fields, NEW text \in Cuts(Append(m, f))
  PROVE  \/ text \in Cuts(m)
         \/ text = m
         \/ \E v \in Shorter(f.value) : text = Append(m, Field(f.key, v))
<1> DEFINE a == Append(m, f)
<1>1. /\ Len(m) \in Nat /\ Len(a) = Len(m) + 1 /\ DOMAIN a = 1 .. Len(m) + 1
      /\ a[Len(m) + 1] = f /\ \A n \in 1 .. Len(m) : a[n] = m[n]
      /\ DOMAIN m = 1 .. Len(m)
  OBVIOUS
<1>2. \A n \in 0 .. Len(m) : SubSeq(a, 1, n) = SubSeq(m, 1, n)
  OBVIOUS
<1>3. SubSeq(m, 1, Len(m)) = m
  OBVIOUS
<1> HIDE DEF a
<1>4. \/ \E n \in 0 .. Len(a) - 1 : text = SubSeq(a, 1, n)
      \/ \E n \in DOMAIN a : \E v \in Shorter(a[n].value) :
           text = Append(SubSeq(a, 1, n - 1), Field(a[n].key, v))
  BY DEF Cuts, a
<1>5. ASSUME NEW n \in 0 .. Len(a) - 1, text = SubSeq(a, 1, n)
      PROVE  text \in Cuts(m) \/ text = m
  <2>1. CASE n = Len(m)
    BY <1>2, <1>3, <1>5, <2>1
  <2>2. CASE n # Len(m)
    <3>1. n \in 0 .. Len(m) - 1 /\ n \in 0 .. Len(m)
      <4>1. PICK k \in Nat : k = Len(m) /\ Len(a) = k + 1
        BY <1>1
      <4>2. n \in 0 .. (k + 1) - 1 /\ n # k
        BY <2>2, <4>1
      <4> QED BY <4>1, <4>2
    <3>2. text = SubSeq(m, 1, n)
      BY <1>2, <1>5, <3>1
    <3> QED BY <3>1, <3>2 DEF Cuts
  <2> QED BY <2>1, <2>2
<1>6. ASSUME NEW n \in DOMAIN a, NEW v \in Shorter(a[n].value),
             text = Append(SubSeq(a, 1, n - 1), Field(a[n].key, v))
      PROVE  text \in Cuts(m) \/ \E w \in Shorter(f.value) : text = Append(m, Field(f.key, w))
  <2>0. n - 1 \in 0 .. Len(m)
    BY <1>1
  <2>1. CASE n = Len(m) + 1
    <3>1. n - 1 = Len(m) /\ a[n] = f
      BY <1>1, <2>1
    <3>2. SubSeq(a, 1, n - 1) = m
      BY <1>2, <1>3, <2>0, <3>1
    <3> QED BY <1>6, <3>1, <3>2
  <2>2. CASE n # Len(m) + 1
    <3>1. n \in DOMAIN m /\ a[n] = m[n]
      BY <1>1, <2>2
    <3>2. text = Append(SubSeq(m, 1, n - 1), Field(m[n].key, v)) /\ v \in Shorter(m[n].value)
      BY <1>2, <1>6, <2>0, <3>1
    <3>3. text \in {Append(SubSeq(m, 1, n - 1), Field(m[n].key, w)) : w \in Shorter(m[n].value)}
      BY <3>2
    <3>4. text \in UNION {{Append(SubSeq(m, 1, k - 1), Field(m[k].key, w)) :
                              w \in Shorter(m[k].value)} : k \in DOMAIN m}
      BY <3>1, <3>3
    <3> QED BY <3>4 DEF Cuts
  <2> QED BY <2>1, <2>2
<1> QED BY <1>4, <1>5, <1>6

\* From the header, whole or in part, no order is read.
LEMMA HeaderHasNoOrder ==
  ASSUME NEW text \in Cuts(Header) PROVE get_products_order(text) = NoOrder
<1>1. /\ Len(Header) = 4 /\ DOMAIN Header = 1 .. 4
      /\ \A i \in 1 .. 4 : Header[i].key # "product_id" /\ Header[i].key \in Keys
                           /\ Header[i].value \in {0, 1} /\ Header[i] \in Fields
  BY HeaderFields DEF Header, Field, Keys
<1>2. PICK h \in Seq(Fields) : h = Header
  BY HeaderType
<1>3. text \in Seq(Fields) /\ \A i \in DOMAIN text : text[i].key # "product_id"
  <2>1. ASSUME NEW n \in 0 .. 3
        PROVE  /\ SubSeq(h, 1, n) \in Seq(Fields)
               /\ \A i \in DOMAIN SubSeq(h, 1, n) : SubSeq(h, 1, n)[i].key # "product_id"
    BY <1>1, <1>2
  <2>2. CASE \E n \in 0 .. Len(h) - 1 : text = SubSeq(h, 1, n)
    BY <1>1, <1>2, <2>1, <2>2
  <2>3. ASSUME NEW n \in DOMAIN h, NEW v \in Shorter(h[n].value),
               text = Append(SubSeq(h, 1, n - 1), Field(h[n].key, v))
        PROVE  text \in Seq(Fields) /\ \A i \in DOMAIN text : text[i].key # "product_id"
    <3>1. n - 1 \in 0 .. 3
      BY <1>1, <1>2
    <3>2. v \in Int
      BY <1>1, <1>2, ShorterType DEF Empty
    <3>3. Field(h[n].key, v) \in Fields /\ Field(h[n].key, v).key # "product_id"
      BY <1>1, <1>2, <3>2 DEF Field, Fields
    <3>4. PICK s \in Seq(Fields) : /\ s = SubSeq(h, 1, n - 1)
                                   /\ \A i \in DOMAIN s : s[i].key # "product_id"
      BY <2>1, <3>1
    <3>5. PICK g \in Fields : g = Field(h[n].key, v) /\ g.key # "product_id"
      BY <3>3
    <3>6. Append(s, g) \in Seq(Fields) /\ \A i \in DOMAIN Append(s, g) : Append(s, g)[i].key # "product_id"
      BY <3>4, <3>5
    <3> QED BY <2>3, <3>4, <3>5, <3>6
  <2>4. \/ \E n \in 0 .. Len(h) - 1 : text = SubSeq(h, 1, n)
        \/ \E n \in DOMAIN h : \E v \in Shorter(h[n].value) :
             text = Append(SubSeq(h, 1, n - 1), Field(h[n].key, v))
    BY <1>2 DEF Cuts
  <2> QED BY <2>2, <2>3, <2>4
<1>4. headerMap(text, "product_id") = <<>>
  BY <1>3, NoValues
<1> QED BY <1>4 DEF get_products_order, Readable

\* An order of the first of some lines, the last perhaps with fewer units.
FirstLines(order, lines) ==
  LET n == Len(order)
  IN  /\ n \in 1 .. Len(lines)
      /\ order \in Seq(OrderLines)
      /\ SubSeq(order, 1, n - 1) = SubSeq(lines, 1, n - 1)
      /\ order[n].product = lines[n].product
      /\ order[n].quantity \in {lines[n].quantity} \cup (Shorter(lines[n].quantity) \ {Empty})

\* The first lines of some lines are first lines of more.
LEMMA FirstOfMore ==
  ASSUME NEW order, NEW lines \in Seq(OrderLines), NEW l \in OrderLines, FirstLines(order, lines)
  PROVE  FirstLines(order, Append(lines, l))
<1> DEFINE n == Len(order)
<1>1. n \in 1 .. Len(lines) /\ Len(lines) \in Nat
  BY DEF FirstLines
<1>2. /\ n \in 1 .. Len(Append(lines, l)) /\ Append(lines, l)[n] = lines[n]
      /\ SubSeq(Append(lines, l), 1, n - 1) = SubSeq(lines, 1, n - 1)
  <2> HIDE DEF n
  <2> QED BY <1>1
<1> QED BY <1>2 DEF FirstLines

\* So are all of them and a line with fewer units.
LEMMA FirstAndShorter ==
  ASSUME NEW lines \in Seq(OrderLines), NEW l \in OrderLines, NEW k \in OrderLines,
         k.product = l.product,
         k.quantity \in {l.quantity} \cup (Shorter(l.quantity) \ {Empty})
  PROVE  FirstLines(Append(lines, k), Append(lines, l))
<1> DEFINE n == Len(lines) + 1
<1>1. /\ Len(Append(lines, k)) = n /\ Len(Append(lines, l)) = n /\ n \in 1 .. n /\ n - 1 = Len(lines)
      /\ Append(lines, k) \in Seq(OrderLines)
      /\ Append(lines, k)[n] = k /\ Append(lines, l)[n] = l
  OBVIOUS
<1>2. SubSeq(Append(lines, k), 1, Len(lines)) = SubSeq(Append(lines, l), 1, Len(lines))
  OBVIOUS
<1> QED BY <1>1, <1>2 DEF FirstLines

\* So are all of them, of one more.
LEMMA AllOfMore ==
  ASSUME NEW lines \in Seq(OrderLines), NEW l \in OrderLines, lines # <<>>
  PROVE  FirstLines(lines, Append(lines, l))
<1>1. PICK n \in Nat : Len(lines) = n + 1
  <2>1. Len(lines) - 1 \in Nat /\ Len(lines) = (Len(lines) - 1) + 1
    OBVIOUS
  <2> QED BY <2>1
<1>2. PICK t \in Seq(OrderLines), k \in OrderLines : lines = Append(t, k) /\ Len(t) = n
  BY <1>1, SplitLast
<1>3. FirstLines(lines, lines)
  BY <1>2, FirstAndShorter
<1> QED BY <1>3, FirstOfMore

\* A part of the fields of a line: its number without a name, its name without a
\* quantity (at() throws), or fewer units than were ordered.
LEMMA PartOfLine ==
  ASSUME NEW m \in Seq(Fields), NEW lines \in Seq(OrderLines), NEW l \in OrderLines,
         ReadsHeader(m), ReadsLines(m, lines)
  PROVE  /\ \A v \in Int : get_products_order(Append(m, Field("product_id", v))) = NoOrder
         /\ \A v \in Int : get_products_order(Append(Append(m, IdField(l)), Field("product_name", v)))
                             = NoOrder
         /\ \A v \in Shorter(l.quantity) :
              LET o == get_products_order(
                         Append(Append(Append(m, IdField(l)), NameField(l)), Field("quantity", v)))
              IN  o = NoOrder \/ FirstLines(o, Append(lines, l))
<1> DEFINE n == Len(lines)
<1>0. n \in Nat /\ l.product \in Nat /\ l.quantity \in Nat
  BY DEF OrderLines
<1>1. \A k \in Keys, v \in Int : Field(k, v) \in Fields
  BY DEF Field, Fields
<1>2. IdField(l) \in Fields /\ NameField(l) \in Fields
  BY FieldTypes
<1>3. /\ headerMap(m, "product_id") = Ids(lines) /\ headerMap(m, "product_name") = Ids(lines)
      /\ headerMap(m, "quantity") = Quantities(lines)
      /\ Ids(lines) \in Seq(Int) /\ Len(Ids(lines)) = n
      /\ Quantities(lines) \in Seq(Int) /\ Len(Quantities(lines)) = n
  <2>1. headerMap(m, "product_id") \in Seq(Int) /\ headerMap(m, "quantity") \in Seq(Int)
    BY HeaderMapType
  <2>2. DOMAIN Ids(lines) = 1 .. n /\ DOMAIN Quantities(lines) = 1 .. n
    BY DEF Ids, Quantities
  <2>3. PICK i \in Seq(Int), q \in Seq(Int) :
          i = headerMap(m, "product_id") /\ q = headerMap(m, "quantity")
    BY <2>1
  <2>4. i = Ids(lines) /\ q = Quantities(lines)
    BY <2>3 DEF ReadsLines
  <2>5. Len(i) = n /\ Len(q) = n
    BY <1>0, <2>2, <2>4
  <2> QED BY <2>3, <2>4, <2>5 DEF ReadsLines
<1>4. "product_id" \in Keys /\ "product_name" \in Keys /\ "quantity" \in Keys
      /\ l.product \in Int
  BY <1>0 DEF Keys
<1>5. ASSUME NEW v \in Int PROVE get_products_order(Append(m, Field("product_id", v))) = NoOrder
  <2>1. PICK t \in Seq(Fields) :
          /\ t = Append(m, Field("product_id", v))
          /\ \A j : headerMap(t, j) = IF "product_id" = j THEN Append(headerMap(m, j), v)
                                                          ELSE headerMap(m, j)
    BY <1>4, OneFieldMore
  <2>2. /\ headerMap(t, "product_id") = Append(Ids(lines), v)
        /\ headerMap(t, "product_name") = Ids(lines)
    BY <1>3, <2>1
  <2>3. /\ n + 1 \in DOMAIN headerMap(t, "product_id")
        /\ n + 1 \notin DOMAIN headerMap(t, "product_name")
    BY <1>0, <1>3, <2>2
  <2>4. get_products_order(t) = NoOrder
    BY <2>3 DEF get_products_order, Readable
  <2> QED BY <2>1, <2>4
<1>6. PICK u \in Seq(Fields) :
        /\ u = Append(m, Field("product_id", l.product))
        /\ \A j : headerMap(u, j) = IF "product_id" = j THEN Append(headerMap(m, j), l.product)
                                                        ELSE headerMap(m, j)
  BY <1>4, OneFieldMore
<1>7. ASSUME NEW v \in Int PROVE get_products_order(Append(u, Field("product_name", v))) = NoOrder
  <2>1. PICK t \in Seq(Fields) :
          /\ t = Append(u, Field("product_name", v))
          /\ \A j : headerMap(t, j) = IF "product_name" = j THEN Append(headerMap(u, j), v)
                                                            ELSE headerMap(u, j)
    BY <1>4, OneFieldMore
  <2>2. /\ headerMap(t, "product_id") = Append(Ids(lines), l.product)
        /\ headerMap(t, "quantity") = Quantities(lines)
    BY <1>3, <1>6, <2>1
  <2>3. /\ n + 1 \in DOMAIN headerMap(t, "product_id")
        /\ n + 1 \notin DOMAIN headerMap(t, "quantity")
    BY <1>0, <1>3, <2>2
  <2>4. get_products_order(t) = NoOrder
    BY <2>3 DEF get_products_order, Readable, HasNumber
  <2> QED BY <2>1, <2>4
<1>8. PICK w \in Seq(Fields) :
        /\ w = Append(u, Field("product_name", l.product))
        /\ \A j : headerMap(w, j) = IF "product_name" = j THEN Append(headerMap(u, j), l.product)
                                                          ELSE headerMap(u, j)
  BY <1>4, OneFieldMore
<1>9. u = Append(m, IdField(l)) /\ w = Append(u, NameField(l))
  BY <1>6, <1>8 DEF IdField, NameField
<1>10. ASSUME NEW v \in Shorter(l.quantity)
       PROVE  LET o == get_products_order(Append(w, Field("quantity", v)))
              IN  o = NoOrder \/ FirstLines(o, Append(lines, l))
  <2>1. v = Empty \/ v \in Nat
    BY <1>0, ShorterType
  <2>2. CASE v = Empty
    <3>1. PICK t \in Seq(Fields) :
            /\ t = Append(w, Field("quantity", v))
            /\ \A j : headerMap(t, j) = IF "quantity" = j THEN Append(headerMap(w, j), v)
                                                          ELSE headerMap(w, j)
      <4>1. v \in Int
        BY <2>2 DEF Empty
      <4> QED BY <1>4, <4>1, OneFieldMore
    <3>2. /\ headerMap(t, "product_id") = Append(Ids(lines), l.product)
          /\ headerMap(t, "quantity") = Append(Quantities(lines), v)
      BY <1>3, <1>6, <1>8, <3>1
    <3>3. n + 1 \in DOMAIN headerMap(t, "product_id") /\ headerMap(t, "quantity")[n + 1] = Empty
      BY <1>0, <1>3, <2>2, <3>2
    <3>4. get_products_order(t) = NoOrder
      BY <3>3 DEF get_products_order, Readable, HasNumber
    <3> QED BY <3>1, <3>4
  <2>3. CASE v \in Nat
    <3> DEFINE k == [product |-> l.product, quantity |-> v]
    <3>1. k \in OrderLines /\ k.product = l.product /\ k.quantity = v /\ v # Empty
      BY <1>0, <2>3 DEF OrderLines, Empty
    <3>2. IdField(k) = IdField(l) /\ NameField(k) = NameField(l) /\ QuantityField(k) = Field("quantity", v)
      BY DEF IdField, NameField, QuantityField
    <3> HIDE DEF k
    <3>3. PICK t : t = Append(w, Field("quantity", v))
      OBVIOUS
    <3>7. ReadsHeader(t) /\ ReadsLines(t, Append(lines, k))
      BY <1>9, <3>1, <3>2, <3>3, LineReads
    <3>4. Append(lines, k) \in Seq(OrderLines)
      BY <3>1
    <3>5. get_products_order(t) = Append(lines, k)
      BY <3>4, <3>7, ReadText
    <3>6. FirstLines(Append(lines, k), Append(lines, l))
      BY <3>1, FirstAndShorter
    <3> QED BY <3>3, <3>5, <3>6
  <2> QED BY <2>1, <2>2, <2>3
<1>11. /\ \A v \in Int : get_products_order(Append(Append(m, IdField(l)), Field("product_name", v)))
                            = NoOrder
       /\ \A v \in Shorter(l.quantity) :
            LET o == get_products_order(
                       Append(Append(Append(m, IdField(l)), NameField(l)), Field("quantity", v)))
            IN  o = NoOrder \/ FirstLines(o, Append(lines, l))
  BY <1>7, <1>9, <1>10
<1> QED BY <1>5, <1>11

\* recvData and get_products_order: from a part of a message no order is read, or
\* the first of its lines, the last perhaps with fewer units. Never another product,
\* never more units.
THEOREM PartOfMessage ==
  ASSUME NEW lines \in Seq(OrderLines), NEW text \in Cuts(construct_order_message(lines))
  PROVE  \/ get_products_order(text) = NoOrder
         \/ FirstLines(get_products_order(text), lines)
<1> DEFINE M(t) == construct_order_message(t)
           Part(x, t) == get_products_order(x) = NoOrder \/ FirstLines(get_products_order(x), t)
           T == {n \in Nat : \A t \in Seq(OrderLines) :
                   Len(t) = n => \A x \in Cuts(M(t)) : Part(x, t)}
<1>1. 0 \in T
  <2>1. \A t \in Seq(OrderLines) : Len(t) = 0 => t = <<>>
    OBVIOUS
  <2> QED BY <2>1, MessageEmpty, HeaderHasNoOrder
<1>2. ASSUME NEW n \in Nat, n \in T PROVE n + 1 \in T
  <2>1. ASSUME NEW t \in Seq(OrderLines), Len(t) = n + 1, NEW x \in Cuts(M(t)) PROVE Part(x, t)
    <3>1. PICK u \in Seq(OrderLines), l \in OrderLines : t = Append(u, l) /\ Len(u) = n
      BY <2>1, SplitLast
    <3>2. PICK m \in Seq(Fields) : m = M(u) /\ ReadsHeader(m) /\ ReadsLines(m, u)
      BY <3>1, MessageType, MessageReads
    <3>3. IdField(l) \in Fields /\ NameField(l) \in Fields /\ QuantityField(l) \in Fields
      BY <3>1, FieldTypes
    <3>0. \A s \in Seq(Fields), f \in Fields : Append(s, f) \in Seq(Fields)
      OBVIOUS
    <3>4. PICK m1 \in Seq(Fields) : m1 = Append(m, IdField(l))
      BY <3>0, <3>2, <3>3
    <3>5. PICK m2 \in Seq(Fields) : m2 = Append(m1, NameField(l))
      BY <3>0, <3>3, <3>4
    <3>6. x \in Cuts(Append(m2, QuantityField(l)))
      BY <2>1, <3>1, <3>2, <3>4, <3>5, MessageAppend
    <3>7. \/ x \in Cuts(m2) \/ x = m2
          \/ \E v \in Shorter(l.quantity) : x = Append(m2, Field("quantity", v))
      <4>1. QuantityField(l).value = l.quantity /\ QuantityField(l).key = "quantity"
        BY DEF QuantityField, Field
      <4> QED BY <3>3, <3>6, <4>1, CutsAppend
    <3>8. x \in Cuts(m2) => \/ x \in Cuts(m1) \/ x = m1
                            \/ \E v \in Shorter(l.product) : x = Append(m1, Field("product_name", v))
      <4>1. NameField(l).value = l.product /\ NameField(l).key = "product_name"
        BY DEF NameField, Field
      <4> QED BY <3>3, <3>5, <4>1, CutsAppend
    <3>9. x \in Cuts(m1) => \/ x \in Cuts(m) \/ x = m
                            \/ \E v \in Shorter(l.product) : x = Append(m, Field("product_id", v))
      <4>1. IdField(l).value = l.product /\ IdField(l).key = "product_id"
        BY DEF IdField, Field
      <4> QED BY <3>3, <3>4, <4>1, CutsAppend
    <3>10. l.product \in Nat /\ \A v \in Shorter(l.product) : v \in Int
      BY <3>1, ShorterType DEF OrderLines, Empty
    <3>11. CASE x \in Cuts(m)
      <4>1. Part(x, u)
        BY <1>2, <3>1, <3>2, <3>11
      <4> QED BY <3>1, <4>1, FirstOfMore
    <3>12. CASE x = m
      <4>1. get_products_order(x) = u
        BY <3>1, <3>2, <3>12, ReadText
      <4> QED BY <3>1, <4>1, AllOfMore DEF NoOrder
    <3>13. CASE \E v \in Int : x = Append(m, Field("product_id", v))
      BY <3>1, <3>2, <3>13, PartOfLine
    <3>14. CASE \E v \in Int : x = Append(m1, Field("product_name", v))
      BY <3>1, <3>2, <3>4, <3>14, PartOfLine
    <3>15. CASE \E v \in Shorter(l.quantity) : x = Append(m2, Field("quantity", v))
      BY <3>1, <3>2, <3>4, <3>5, <3>15, PartOfLine
    <3>16. m1 = Append(m, Field("product_id", l.product)) /\ m2 = Append(m1, Field("product_name", l.product))
      BY <3>4, <3>5 DEF IdField, NameField
    <3> HIDE DEF Part
    <3>17. CASE x = m1 \/ \E v \in Shorter(l.product) : x = Append(m, Field("product_id", v))
      BY <3>10, <3>13, <3>16, <3>17
    <3>18. CASE x = m2 \/ \E v \in Shorter(l.product) : x = Append(m1, Field("product_name", v))
      BY <3>10, <3>14, <3>16, <3>18
    <3> QED BY <3>7, <3>8, <3>9, <3>11, <3>12, <3>15, <3>17, <3>18
  <2> QED BY <2>1
<1>3. Len(lines) \in T
  <2> HIDE DEF T
  <2> QED BY <1>1, <1>2, Numbers
<1> QED BY <1>3
=============================================================================

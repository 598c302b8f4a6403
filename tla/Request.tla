------------------------------- MODULE Request -------------------------------
(***************************************************************************)
(* An order as text: how the front end writes it (construct_order_message),*)
(* what one recv of the back end may get of it (recvData does not go on    *)
(* reading until the end of the message), and how that is parsed           *)
(* (ServerRequest, get_products_order).                                    *)
(*                                                                         *)
(* A message is a sequence of fields, lines "key:value" in the code. Values*)
(* are numerals; a name stands for the number of its product.              *)
(***************************************************************************)
EXTENDS Integers, Sequences, SequencesExt

Field(k, v) == [key |-> k, value |-> v]
Empty   == -1       \* a value without a character: std::stoul throws
NoOrder == <<>>     \* handleOrder caught an exception of the parser

\* The customer and the address: any values of one digit.
Header == <<Field("user_id", 1), Field("user_name", 1),
            Field("dest_x", 0), Field("dest_y", 0)>>

LineFields(l) == <<Field("product_id", l.product),
                   Field("product_name", l.product),
                   Field("quantity", l.quantity)>>

construct_order_message(lines) ==
  Header \o FlattenSeq([i \in DOMAIN lines |-> LineFields(lines[i])])

\* A value that ends early: no character of it, or its first digits. Numerals have
\* up to ten digits, as those of an int have.
PowersOfTen == {10, 100, 1000, 10000, 100000, 1000000, 10000000, 100000000, 1000000000}
Shorter(v) == {Empty} \cup ({v \div d : d \in PowersOfTen} \ {0})

\* What has arrived of message m when recv returns, if not all of it. A part of a
\* key has no colon and is passed over, and so is a part of "order\n": both are
\* the fields before it.
Cuts(m) ==
  {SubSeq(m, 1, n) : n \in 0 .. Len(m) - 1} \cup
  UNION {{Append(SubSeq(m, 1, n - 1), Field(m[n].key, v)) : v \in Shorter(m[n].value)} :
           n \in DOMAIN m}

\* headerMap: the values of each key, in order (push_back).
headerMap(m, k) ==
  FlattenSeq([i \in DOMAIN m |-> IF m[i].key = k THEN <<m[i].value>> ELSE <<>>])

HasNumber(m, k, i) == /\ i \in DOMAIN headerMap(m, k)
                      /\ headerMap(m, k)[i] # Empty

\* No .at() and no std::stoul of handleOrder throws.
Readable(m) ==
  /\ \A k \in {"user_id", "dest_x", "dest_y"} : HasNumber(m, k, 1)
  /\ 1 \in DOMAIN headerMap(m, "user_name")
  /\ headerMap(m, "product_id") # <<>>
  /\ \A i \in DOMAIN headerMap(m, "product_id") :
       /\ HasNumber(m, "product_id", i)
       /\ i \in DOMAIN headerMap(m, "product_name")
       /\ HasNumber(m, "quantity", i)

\* Mutant: the quantity of the first line is taken for every line.
FirstQuantity(m) ==
  IF ~Readable(m) THEN NoOrder
  ELSE [i \in DOMAIN headerMap(m, "product_id") |->
          [product  |-> headerMap(m, "product_id")[i],
           quantity |-> headerMap(m, "quantity")[1]]]
get_products_order(m) ==
  IF ~Readable(m) THEN NoOrder
  ELSE [i \in DOMAIN headerMap(m, "product_id") |->
          [product  |-> headerMap(m, "product_id")[i],
           quantity |-> headerMap(m, "quantity")[i]]]
=============================================================================

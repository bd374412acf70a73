---------------------------- MODULE Pricing_proofs ----------------------------
(***************************************************************************)
(* Proofs about Pricing: what an edit of the catalog can change of the     *)
(* price of a cart.  Checkout takes this for any rule of prices as its     *)
(* SourceAssumption; here it is shown of the rule the code has, for every  *)
(* catalog and every cart.  A catalog may have more tables than the three  *)
(* that prices are made from.                                              *)
(***************************************************************************)
EXTENDS Pricing, TLAPS

\* The rows of a line: its product or promotion, and its options.
SameRows(k, l, line) ==
    /\ line.item \in Products => k.product[line.item] = l.product[line.item]
    /\ line.item \in Promotions => k.promotion[line.item] = l.promotion[line.item]
    /\ \A j \in DOMAIN line.options :
         k.option[line.options[j]] = l.option[line.options[j]]

LEMMA LinesHaveTheRows ==
    ASSUME NEW k, NEW l, NEW lines, RowsOf(k, lines) = RowsOf(l, lines),
           NEW i \in DOMAIN lines
    PROVE  SameRows(k, l, lines[i])
  <1>. DEFINE items == {lines[h].item : h \in DOMAIN lines}
              options == UNION {{lines[h].options[j] : j \in DOMAIN lines[h].options} :
                                  h \in DOMAIN lines}
              products(c) == [p \in items \cap Products |-> c.product[p]]
              promotions(c) == [p \in items \cap Promotions |-> c.promotion[p]]
              chosen(c) == [o \in options |-> c.option[o]]
  <1>1. \A c : RowsOf(c, lines) =
                 [product |-> products(c), promotion |-> promotions(c), option |-> chosen(c)]
    BY DEF RowsOf
  <1>2. /\ products(k) = products(l)
        /\ promotions(k) = promotions(l)
        /\ chosen(k) = chosen(l)
    <2>. HIDE DEF products, promotions, chosen
    <2>. QED  BY <1>1
  <1>3. /\ \A p \in items \cap Products : k.product[p] = l.product[p]
        /\ \A p \in items \cap Promotions : k.promotion[p] = l.promotion[p]
        /\ \A o \in options : k.option[o] = l.option[o]
    <2>. HIDE DEF items, options
    <2>1. \A p \in items \cap Products : products(k)[p] = k.product[p] /\ products(l)[p] = l.product[p]
      OBVIOUS
    <2>2. \A p \in items \cap Promotions :
            promotions(k)[p] = k.promotion[p] /\ promotions(l)[p] = l.promotion[p]
      OBVIOUS
    <2>3. \A o \in options : chosen(k)[o] = k.option[o] /\ chosen(l)[o] = l.option[o]
      OBVIOUS
    <2>. HIDE DEF products, promotions, chosen
    <2>. QED  BY <1>2, <2>1, <2>2, <2>3
  <1>4. /\ lines[i].item \in items
        /\ \A j \in DOMAIN lines[i].options : lines[i].options[j] \in options
    OBVIOUS
  <1>. HIDE DEF items, options
  <1>. QED  BY <1>3, <1>4 DEF SameRows

\* Whether a line is sold, and for how much, depends on its own rows only.
LEMMA SameLine ==
    ASSUME NEW k, NEW l, NEW line, line.item \in Products \cup Promotions,
           SameRows(k, l, line)
    PROVE  /\ LineAccepted(k, line) <=> LineAccepted(l, line)
           /\ UnitPrice(k, line) = UnitPrice(l, line)
  <1>1. CASE line.item \in Products
    <2>1. [j \in DOMAIN line.options |-> k.option[line.options[j]].price]
            = [j \in DOMAIN line.options |-> l.option[line.options[j]].price]
      BY DEF SameRows
    <2>2. \A j \in DOMAIN line.options :
            OptionAccepted(k, line, line.options[j]) <=> OptionAccepted(l, line, line.options[j])
      BY DEF OptionAccepted, SameRows
    <2>3. k.product[line.item] = l.product[line.item]
      BY <1>1 DEF SameRows
    <2>4. ProductAccepted(k, line) <=> ProductAccepted(l, line)
      BY <2>2, <2>3 DEF ProductAccepted
    <2>. QED  BY <1>1, <2>1, <2>3, <2>4 DEF LineAccepted, UnitPrice
  <1>2. CASE line.item \notin Products
    <2>1. k.promotion[line.item] = l.promotion[line.item]
      BY <1>2 DEF SameRows
    <2>. QED  BY <1>2, <2>1 DEF LineAccepted, UnitPrice, PromotionAccepted
  <1>. QED  BY <1>1, <1>2

\* A cart is refused, or costs the same, in every two catalogs that agree on the
\* products, promotions and options it is made of: no other row that
\* OrderPricingService._build_items could read changes its answer.
THEOREM RowsDecideThePrice ==
    ASSUME NEW k, NEW l, NEW lines \in Seq(Line), RowsOf(k, lines) = RowsOf(l, lines)
    PROVE  ItemsSubtotal(k, lines) = ItemsSubtotal(l, lines)
  <1>1. \A i \in DOMAIN lines : lines[i].item \in Products \cup Promotions
    <2>1. \A i \in DOMAIN lines : lines[i] \in Line
      OBVIOUS
    <2>2. \A line \in Line : line.item \in Products \cup Promotions
      BY DEF Line
    <2>. QED  BY <2>1, <2>2
  <1>2. \A i \in DOMAIN lines :
          /\ LineAccepted(k, lines[i]) <=> LineAccepted(l, lines[i])
          /\ UnitPrice(k, lines[i]) = UnitPrice(l, lines[i])
    BY <1>1, LinesHaveTheRows, SameLine
  <1>3. [i \in DOMAIN lines |-> UnitPrice(k, lines[i]) * lines[i].quantity]
          = [i \in DOMAIN lines |-> UnitPrice(l, lines[i]) * lines[i].quantity]
    BY <1>2
  <1>. QED  BY <1>2, <1>3 DEF ItemsSubtotal

=============================================================================

------------------------------- MODULE Pricing -------------------------------
(***************************************************************************)
(* What the lines of a cart cost: OrderPricingService._build_items.  A     *)
(* line is a product with chosen modifier options, or a promotion; it is   *)
(* refused when something in it is not for sale or the choice breaks the   *)
(* rules of a modifier group.  Prices are whole pesos, as their columns    *)
(* (Numeric(10, 0)) are.  A product that does not exist and one that is    *)
(* not available are refused alike, so they are one case here.             *)
(***************************************************************************)
EXTENDS Integers, FiniteSets, SequencesExt

CONSTANTS
    Products,    \* products.id
    Promotions,  \* promotions.id
    Options,     \* modifier_options.id
    Groups,      \* modifier_groups.id
    ProductOf,   \* group -> its product
    GroupOf,     \* option -> its group
    Rule,        \* group -> [required, min, max] selections
    SlotsOf,     \* promotion -> its slots
    NoSlot,      \* no promotion_slot_id
    Refused      \* instead of a subtotal: the cart is refused

ASSUME PricingAssumption ==
    /\ Products \cap Promotions = {}
    /\ ProductOf \in [Groups -> Products]
    /\ GroupOf \in [Options -> Groups]
    /\ Rule \in [Groups -> [required : BOOLEAN, min : Nat, max : Nat]]
    /\ Refused \notin Nat

\* The catalog: prices and availability.
Catalog ==
    [product : [Products -> [price : Nat, sold : BOOLEAN]],
     option : [Options -> [price : Nat, sold : BOOLEAN]],
     promotion : [Promotions -> [price : Nat, sold : BOOLEAN]]]

\* OrderItemInput: item is product_id, or promotion_id if there is none, and
\* options the selected_modifiers, in which one option may be repeated.
Line ==
    [item : Products \cup Promotions, slot : UNION {SlotsOf[p] : p \in Promotions} \cup {NoSlot},
     quantity : 1..99, options : Seq(Options)]

Sum(amounts) == FoldLeft(LAMBDA a, b : a + b, 0, amounts)

\* How often a line chooses from a group, repetitions included.
Selections(line, g) ==
    Cardinality({i \in DOMAIN line.options : GroupOf[line.options[i]] = g})

\* The rules of a group: a required group needs its minimum, an optional one
\* needs it once anything is chosen, and neither takes more than its maximum.
GroupAccepts(line, g) ==
    LET n == Selections(line, g) IN
    /\ Rule[g].required \/ n > 0 => n >= Rule[g].min
    /\ n <= Rule[g].max

\* Every option belongs to the product and is available.
OptionAccepted(catalog, line, o) ==
    ProductOf[GroupOf[o]] = line.item /\ catalog.option[o].sold

ProductAccepted(catalog, line) ==
    /\ catalog.product[line.item].sold
    /\ \A i \in DOMAIN line.options : OptionAccepted(catalog, line, line.options[i])
    /\ \A g \in Groups : ProductOf[g] = line.item => GroupAccepts(line, g)

\* The modifiers chosen with a promotion are kept, but neither checked nor priced.
PromotionAccepted(catalog, line) ==
    /\ catalog.promotion[line.item].sold
    /\ line.slot \in SlotsOf[line.item] \cup {NoSlot}

LineAccepted(catalog, line) ==
    IF line.item \in Products THEN ProductAccepted(catalog, line)
                              ELSE PromotionAccepted(catalog, line)

UnitPrice(catalog, line) ==
    IF line.item \in Products
      THEN catalog.product[line.item].price
             + Sum([i \in DOMAIN line.options |-> catalog.option[line.options[i]].price])
      ELSE catalog.promotion[line.item].price

\* The subtotal of a cart, or Refused.
ItemsSubtotal(catalog, lines) ==
    IF \A i \in DOMAIN lines : LineAccepted(catalog, lines[i])
      THEN Sum([i \in DOMAIN lines |-> UnitPrice(catalog, lines[i]) * lines[i].quantity])
      ELSE Refused

\* The rows of the catalog a cart is priced from: its products, promotions and
\* options, and nothing else.
RowsOf(catalog, lines) ==
    LET items == {lines[i].item : i \in DOMAIN lines}
        options == UNION {{lines[i].options[j] : j \in DOMAIN lines[i].options} : i \in DOMAIN lines}
    IN [product |-> [p \in items \cap Products |-> catalog.product[p]],
        promotion |-> [p \in items \cap Promotions |-> catalog.promotion[p]],
        option |-> [o \in options |-> catalog.option[o]]]

=============================================================================

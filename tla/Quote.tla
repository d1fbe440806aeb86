------------------------------- MODULE Quote -------------------------------
(***************************************************************************)
(* buildCartWorkbook: the sheet of a quote.  The header has fixed places;  *)
(* from row 17 on a cursor (currentRow) goes down over the items, the      *)
(* empty rows that fill the table up, the totals and the footer.  The      *)
(* background is painted first, over a number of rows computed from the    *)
(* number of items.                                                        *)
(*                                                                         *)
(* Amounts are exact, in cents: with the DTO's limits (50 items, 1000      *)
(* pieces, prices to 1,000,000.00) what doubles lose stays far below one.  *)
(* Fonts, heights, borders, fills and formats are left out.                *)
(***************************************************************************)
EXTENDS Integers, Sequences, FiniteSets, FiniteSetsExt, Functions

CONSTANTS
    Names,        \* nombre
    Quantities,   \* cantidad
    Prices,       \* precio
    MaxItems      \* ArrayMaxSize

ASSUME QuoteAssumption ==
    /\ Quantities \subseteq Nat
    /\ Prices \subseteq Nat
    /\ MaxItems \in Nat

VARIABLES
    cart,         \* dto.items
    placed,       \* items and empty rows placed
    row,          \* currentRow
    subtotal,
    cells,        \* what has been written: a function from <<column, row>>
    next          \* the part of the sheet that comes next

vars == <<cart, placed, row, subtotal, cells, next>>

-----------------------------------------------------------------------------
Item == [nombre : Names, cantidad : Quantities, precio : Prices]
Carts == UNION {[1 .. n -> Item] : n \in 1 .. MaxItems}

FirstRow == 17
MinItemRows == 7

\* The table has a row for each item, and no less than MIN_ITEM_ROWS.
\* Mutant of TableRows: the background is sized for the items alone.
ItemRows(c) == Len(c)
TableRows(c) == Max({Len(c), MinItemRows})

\* The cells painted first.
Background(c) == {"A", "B", "C", "D", "E", "F"} \X (1 .. FirstRow + TableRows(c) + 12)

Text(t) == <<"text", t>>
Amount(n) == <<"amount", n>>
Merged == <<"merged">>    \* a cell that shows its neighbour's value

Header ==
    LET letterhead == {"B"} \X {2, 3, 5, 6, 7} \cup {<<"E", 2>>}
        info == {"D"} \X {5, 6, 7}
        merged == {"E"} \X {5, 6, 7}
        titles == {"B", "C", "D", "E"} \X {16} IN
    [at \in letterhead \cup info \cup merged \cup titles |->
        CASE at \in letterhead -> Text("letterhead")
          [] at \in info -> Text("info")
          [] at \in merged -> Merged
          [] at \in titles -> Text("title")]

\* The columns of item k, and of the row for no item.
ItemCells(item) ==
    [B |-> Text(item.nombre), C |-> Amount(item.cantidad),
     D |-> Amount(item.precio), E |-> Amount(item.cantidad * item.precio)]

\* The record `values` is written into the row.
Write(values) ==
    LET at == (DOMAIN values) \X {row} IN
    cells' = [c \in DOMAIN cells \cup at |->
                 IF c \in at THEN values[c[1]] ELSE cells[c]]

-----------------------------------------------------------------------------
Init ==
    /\ cart \in Carts
    /\ placed = 0
    /\ row = FirstRow
    /\ subtotal = 0
    /\ cells = Header
    /\ next = "items"

\* Mutant of PlaceItem: the row is not counted on.
PlaceItemOverLast ==
    /\ next = "items"
    /\ placed < Len(cart)
    /\ Write(ItemCells(cart[placed + 1]))
    /\ subtotal' = subtotal + cart[placed + 1].cantidad * cart[placed + 1].precio
    /\ placed' = placed + 1
    /\ UNCHANGED <<cart, row, next>>

\* One turn of dto.items.forEach.
PlaceItem ==
    LET item == cart[placed + 1] IN
    /\ next = "items"
    /\ placed < Len(cart)
    /\ Write(ItemCells(item))
    /\ subtotal' = subtotal + item.cantidad * item.precio
    /\ row' = row + 1
    /\ placed' = placed + 1
    /\ UNCHANGED <<cart, next>>

\* Mutant of Pad: one empty row too many.
PadOneMore ==
    /\ next = "items"
    /\ placed >= Len(cart)
    /\ IF placed <= MinItemRows
         THEN /\ placed' = placed + 1
              /\ UNCHANGED next
         ELSE /\ next' = "subtotal"
              /\ UNCHANGED placed
    /\ row' = row + 1
    /\ UNCHANGED <<cart, subtotal, cells>>

\* The loop that fills up to MIN_ITEM_ROWS, and the space after the table.
Pad ==
    /\ next = "items"
    /\ placed >= Len(cart)
    /\ IF placed < MinItemRows
         THEN /\ placed' = placed + 1
              /\ UNCHANGED next
         ELSE /\ next' = "subtotal"
              /\ UNCHANGED placed
    /\ row' = row + 1
    /\ UNCHANGED <<cart, subtotal, cells>>

Subtotal ==
    /\ next = "subtotal"
    /\ Write([D |-> Text("SUBTOTAL"), E |-> Amount(subtotal)])
    /\ row' = row + 1
    /\ next' = "iva"
    /\ UNCHANGED <<cart, placed, subtotal>>

\* The amount of IVA is for the seller to write.
Iva ==
    /\ next = "iva"
    /\ Write([D |-> Text("IVA")])
    /\ row' = row + 2
    /\ next' = "total"
    /\ UNCHANGED <<cart, placed, subtotal>>

\* Mutant of Total: the amount goes into the row of IVA.
TotalTooHigh ==
    /\ next = "total"
    /\ cells' = [c \in DOMAIN cells \cup {<<"D", row>>, <<"E", row - 1>>} |->
                    IF c = <<"D", row>> THEN Text("TOTAL")
                    ELSE IF c = <<"E", row - 1>> THEN Amount(subtotal)
                    ELSE cells[c]]
    /\ row' = row + 4
    /\ next' = "footer"
    /\ UNCHANGED <<cart, placed, subtotal>>

Total ==
    /\ next = "total"
    /\ Write([D |-> Text("TOTAL"), E |-> Amount(subtotal)])
    /\ row' = row + 4
    /\ next' = "footer"
    /\ UNCHANGED <<cart, placed, subtotal>>

Footer ==
    /\ next = "footer"
    /\ Write([B |-> Text("thanks"), C |-> Merged, D |-> Merged, E |-> Merged])
    /\ next' = "done"
    /\ UNCHANGED <<cart, placed, row, subtotal>>

Next == PlaceItem \/ Pad \/ Subtotal \/ Iva \/ Total \/ Footer

Spec == Init /\ [][Next]_vars

-----------------------------------------------------------------------------
(* Properties *)

TypeOK ==
    /\ cart \in Carts
    /\ placed \in 0 .. Max({Len(cart), MinItemRows})
    /\ row \in Nat
    /\ subtotal \in Nat
    /\ next \in {"items", "subtotal", "iva", "total", "footer", "done"}

\* Nothing written into the sheet is written over, and no cell that has a
\* value is hidden by a merge: the cursor never meets the header or itself.
NothingIsOverwritten ==
    [][\A c \in DOMAIN cells : cells'[c] = cells[c]]_vars

\* Whatever is written stands on the background, whose number of rows is
\* computed apart from the cursor, and the footer is not its last row.
AllOnTheBackground ==
    /\ DOMAIN cells \subseteq Background(cart)
    /\ row < FirstRow + TableRows(cart) + 12

\* What a reader of the finished sheet adds up: each row of the table with a
\* name holds its quantity times its price, there are as many as items, and
\* both SUBTOTAL and TOTAL are the sum of those rows.
SheetAddsUp ==
    LET table == FirstRow .. FirstRow + TableRows(cart) - 1
        lines == {r \in table : <<"B", r>> \in DOMAIN cells}
        amount(col, r) == cells[<<col, r>>][2]
        lineTotal == [k \in DOMAIN cart |-> cart[k].cantidad * cart[k].precio]
        labelled(t) == {r \in 1 .. row : <<"D", r>> \in DOMAIN cells
                                          /\ cells[<<"D", r>>] = Text(t)} IN
    next = "done" =>
        /\ Cardinality(lines) = Len(cart)
        /\ \A r \in lines : amount("E", r) = amount("C", r) * amount("D", r)
        /\ \A t \in {"SUBTOTAL", "TOTAL"} :
              \E r \in labelled(t) :
                  /\ <<"E", r>> \in DOMAIN cells
                  /\ amount("E", r) = SumFunctionOnSet(lineTotal, DOMAIN cart)
=============================================================================

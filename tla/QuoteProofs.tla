---------------------------- MODULE QuoteProofs ----------------------------
(***************************************************************************)
(* The layout of a quote, for any cart: nothing is written over, and all   *)
(* of it stands on the background.  Both follow from where the cursor is   *)
(* in each part of the sheet, and from its being below whatever has been   *)
(* written.  The amounts add up because the subtotal is, all the while, the *)
(* sum of the rows placed so far.                                          *)
(***************************************************************************)
EXTENDS Quote, SumProofs

Columns == {"A", "B", "C", "D", "E", "F"}

\* Where the cursor is, in each part of the sheet.
Cursor ==
    /\ next \in {"items", "subtotal", "iva", "total", "footer", "done"}
    /\ next = "items" => row = FirstRow + placed
    /\ next = "subtotal" => row = FirstRow + TableRows(cart) + 1
    /\ next = "iva" => row = FirstRow + TableRows(cart) + 2
    /\ next = "total" => row = FirstRow + TableRows(cart) + 4
    /\ next \in {"footer", "done"} => row = FirstRow + TableRows(cart) + 8

\* It is below all that has been written, until the footer is there.
Below ==
    \A c \in DOMAIN cells :
        /\ c \in Columns \X (Nat \ {0})
        /\ IF next = "done" THEN c[2] <= row ELSE c[2] < row

Layout ==
    /\ cart \in Carts
    /\ placed \in Nat /\ placed <= TableRows(cart)
    /\ row \in Nat
    /\ Cursor
    /\ Below

\* The table has room for the items, and the cart's length is a number.
LEMMA TableRowsFit ==
    ASSUME NEW c \in Carts
    PROVE  /\ Len(c) \in Nat
           /\ TableRows(c) \in Nat
           /\ TableRows(c) >= Len(c)
           /\ TableRows(c) >= MinItemRows
           /\ TableRows(c) = Len(c) \/ TableRows(c) = MinItemRows
<1>1. Len(c) \in Nat
  BY DEF Carts
<1> DEFINE m == IF Len(c) >= 7 THEN Len(c) ELSE 7
<1>2. m \in {Len(c), 7} /\ \A y \in {Len(c), 7} : m >= y
  BY <1>1
<1>3. TableRows(c) \in {Len(c), 7} /\ \A y \in {Len(c), 7} : TableRows(c) >= y
  BY <1>2 DEF TableRows, MinItemRows, Max
<1>4. QED
  BY <1>1, <1>3 DEF MinItemRows

\* Writing into the row of the cursor, and going on below it unless it was the
\* last, writes over nothing and leaves the cursor below all there is.
LEMMA WriteKeeps ==
    ASSUME Layout, row > 0, next # "done",
           NEW values, DOMAIN values \subseteq Columns, Write(values),
           row' \in Nat, IF next' = "done" THEN row' = row ELSE row' > row
    PROVE  Below' /\ \A c \in DOMAIN cells : cells'[c] = cells[c]
<1> DEFINE at == (DOMAIN values) \X {row}
<1>1. /\ DOMAIN cells' = DOMAIN cells \cup at
      /\ \A c \in DOMAIN cells \cup at :
            cells'[c] = IF c \in at THEN values[c[1]] ELSE cells[c]
  BY DEF Write
<1>2. \A c \in at : c \in Columns \X (Nat \ {0}) /\ c[2] = row
  BY DEF Layout
<1>3. \A c \in DOMAIN cells : c \in Columns \X (Nat \ {0}) /\ c[2] < row
  BY DEF Layout, Below
<1>4. \A c \in DOMAIN cells : c \notin at
  BY <1>2, <1>3 DEF Layout
<1>5. Below'
  BY <1>1, <1>2, <1>3 DEF Layout, Below
<1>6. QED
  BY <1>1, <1>4, <1>5

\* The layout holds before the first row.
LEMMA InitLayout == Init => Layout
<1> SUFFICES ASSUME Init PROVE Layout
  OBVIOUS
<1>1. cart \in Carts /\ placed = 0 /\ row = 17 /\ next = "items"
  BY DEF Init, FirstRow
<1>2. TableRows(cart) \in Nat
  BY <1>1, TableRowsFit
<1>3. \A c \in DOMAIN Header : c \in Columns \X (Nat \ {0}) /\ c[2] < 17
  BY DEF Header, Columns
<1>4. QED
  BY <1>1, <1>2, <1>3 DEF Init, Layout, Cursor, Below, FirstRow

\* A step keeps the layout and everything that has been written.
LEMMA NextLayout ==
    Layout /\ [Next]_vars =>
        Layout' /\ \A c \in DOMAIN cells : cells'[c] = cells[c]
<1> SUFFICES ASSUME Layout, [Next]_vars
             PROVE  Layout' /\ \A c \in DOMAIN cells : cells'[c] = cells[c]
  OBVIOUS
<1> USE DEF FirstRow, MinItemRows
<1>0. /\ Len(cart) \in Nat
      /\ TableRows(cart) \in Nat
      /\ TableRows(cart) >= Len(cart)
      /\ TableRows(cart) >= 7
      /\ TableRows(cart) = Len(cart) \/ TableRows(cart) = 7
  BY TableRowsFit DEF Layout
<1>1. CASE PlaceItem
  <2> DEFINE v == ItemCells(cart[placed + 1])
  <2>1. /\ Write(v) /\ row' = row + 1 /\ cart' = cart /\ placed' = placed + 1
        /\ next = "items" /\ next' = next /\ placed < Len(cart)
    BY <1>1 DEF PlaceItem
  <2>2. DOMAIN v \subseteq Columns
    BY DEF ItemCells, Columns
  <2>3. /\ Cursor' /\ row \in Nat \ {0} /\ row' \in Nat
        /\ placed' \in Nat /\ placed' <= TableRows(cart')
    BY <1>0, <2>1 DEF Layout, Cursor, TableRows
  <2> HIDE DEF v
  <2>4. Below' /\ \A c \in DOMAIN cells : cells'[c] = cells[c]
    BY <2>1, <2>2, <2>3, WriteKeeps
  <2>5. QED
    BY <2>1, <2>3, <2>4 DEF Layout
<1>2. CASE Pad
  <2>1. /\ Cursor' /\ row' \in Nat /\ cart' \in Carts /\ row < row'
        /\ placed' \in Nat /\ placed' <= TableRows(cart')
    BY <1>0, <1>2 DEF Pad, Layout, Cursor, TableRows
  <2>2. Below' /\ cells' = cells
    BY <1>2, <2>1 DEF Pad, Layout, Below
  <2>3. QED
    BY <2>1, <2>2 DEF Layout
<1>3. CASE Subtotal
  <2> DEFINE v == [D |-> Text("SUBTOTAL"), E |-> Amount(subtotal)]
  <2>1. /\ Write(v) /\ row' = row + 1 /\ cart' = cart /\ placed' = placed
        /\ next = "subtotal" /\ next' = "iva"
    BY <1>3 DEF Subtotal
  <2>2. DOMAIN v \subseteq Columns
    BY DEF Columns
  <2>3. Cursor' /\ row \in Nat \ {0} /\ row' \in Nat
    BY <1>0, <2>1 DEF Layout, Cursor, TableRows
  <2> HIDE DEF v
  <2>4. Below' /\ \A c \in DOMAIN cells : cells'[c] = cells[c]
    BY <2>1, <2>2, <2>3, WriteKeeps
  <2>5. QED
    BY <2>1, <2>3, <2>4 DEF Layout
<1>4. CASE Iva
  <2> DEFINE v == [D |-> Text("IVA")]
  <2>1. /\ Write(v) /\ row' = row + 2 /\ cart' = cart /\ placed' = placed
        /\ next = "iva" /\ next' = "total"
    BY <1>4 DEF Iva
  <2>2. DOMAIN v \subseteq Columns
    BY DEF Columns
  <2>3. Cursor' /\ row \in Nat \ {0} /\ row' \in Nat
    BY <1>0, <2>1 DEF Layout, Cursor, TableRows
  <2> HIDE DEF v
  <2>4. Below' /\ \A c \in DOMAIN cells : cells'[c] = cells[c]
    BY <2>1, <2>2, <2>3, WriteKeeps
  <2>5. QED
    BY <2>1, <2>3, <2>4 DEF Layout
<1>5. CASE Total
  <2> DEFINE v == [D |-> Text("TOTAL"), E |-> Amount(subtotal)]
  <2>1. /\ Write(v) /\ row' = row + 4 /\ cart' = cart /\ placed' = placed
        /\ next = "total" /\ next' = "footer"
    BY <1>5 DEF Total
  <2>2. DOMAIN v \subseteq Columns
    BY DEF Columns
  <2>3. Cursor' /\ row \in Nat \ {0} /\ row' \in Nat
    BY <1>0, <2>1 DEF Layout, Cursor, TableRows
  <2> HIDE DEF v
  <2>4. Below' /\ \A c \in DOMAIN cells : cells'[c] = cells[c]
    BY <2>1, <2>2, <2>3, WriteKeeps
  <2>5. QED
    BY <2>1, <2>3, <2>4 DEF Layout
<1>6. CASE Footer
  <2> DEFINE v == [B |-> Text("thanks"), C |-> Merged, D |-> Merged, E |-> Merged]
  <2>1. /\ Write(v) /\ row' = row /\ cart' = cart /\ placed' = placed
        /\ next = "footer" /\ next' = "done"
    BY <1>6 DEF Footer
  <2>2. DOMAIN v \subseteq Columns
    BY DEF Columns
  <2>3. Cursor' /\ row \in Nat \ {0} /\ row' \in Nat
    BY <1>0, <2>1 DEF Layout, Cursor, TableRows
  <2> HIDE DEF v
  <2>4. Below' /\ \A c \in DOMAIN cells : cells'[c] = cells[c]
    BY <2>1, <2>2, <2>3, WriteKeeps
  <2>5. QED
    BY <2>1, <2>3, <2>4 DEF Layout
<1>7. CASE UNCHANGED vars
  BY <1>7 DEF vars, Layout, Cursor, Below
<1> QED
  BY <1>1, <1>2, <1>3, <1>4, <1>5, <1>6, <1>7 DEF Next

\* The layout is an invariant.
LEMMA LayoutInv == Spec => []Layout
<1>1. Layout /\ [Next]_vars => Layout'
  BY NextLayout
<1>2. QED
  BY InitLayout, <1>1, PTL DEF Spec

\* For any cart, nothing written into the sheet is written over or hidden.
THEOREM NothingLost == Spec => NothingIsOverwritten
<1>1. Layout /\ [Next]_vars => [\A c \in DOMAIN cells : cells'[c] = cells[c]]_vars
  BY NextLayout
<1>2. QED
  BY LayoutInv, <1>1, PTL DEF Spec, NothingIsOverwritten

\* For any cart, whatever is written stands on the background.
THEOREM BackgroundIsEnough == Spec => []AllOnTheBackground
<1>1. Layout => AllOnTheBackground
  <2> SUFFICES ASSUME Layout PROVE AllOnTheBackground
    OBVIOUS
  <2>1. /\ TableRows(cart) \in Nat
        /\ TableRows(cart) >= 7
    BY TableRowsFit DEF Layout, MinItemRows
  <2>2. row \in Nat /\ row < 17 + TableRows(cart) + 12
    BY <2>1 DEF Layout, Cursor, FirstRow
  <2>3. \A c \in DOMAIN cells : c \in Columns \X (Nat \ {0}) /\ c[2] <= row
    BY <2>2 DEF Layout, Below
  <2>4. \A c \in DOMAIN cells : c \in Background(cart)
    BY <2>1, <2>2, <2>3 DEF Background, FirstRow, Columns
  <2>5. QED
    BY <2>2, <2>4 DEF AllOnTheBackground, FirstRow
<1>2. QED
  BY LayoutInv, <1>1, PTL

-----------------------------------------------------------------------------
(* The amounts *)

LineTotals(c) == [k \in DOMAIN c |-> c[k].cantidad * c[k].precio]

\* The items that have their row.
Rows == {k \in 1 .. Len(cart) : k <= placed}

\* Each of them is in the sheet, no other row of the table has a name, and the
\* subtotal is their sum.
ItemsWritten ==
    /\ \A k \in Rows, col \in {"B", "C", "D", "E"} :
          /\ <<col, FirstRow + k - 1>> \in DOMAIN cells
          /\ cells[<<col, FirstRow + k - 1>>] = ItemCells(cart[k])[col]
    /\ \A r \in FirstRow .. FirstRow + TableRows(cart) - 1 :
          <<"B", r>> \in DOMAIN cells => r - FirstRow + 1 \in Rows
    /\ subtotal = SumFunctionOnSet(LineTotals(cart), Rows)
    /\ next # "items" => placed >= Len(cart)

\* The subtotal stands beside the text t.
ShownAt(t, r) ==
    /\ {<<"D", r>>, <<"E", r>>} \subseteq DOMAIN cells
    /\ cells[<<"D", r>>] = Text(t)
    /\ cells[<<"E", r>>] = Amount(subtotal)

TotalsWritten ==
    /\ next \in {"iva", "total", "footer", "done"} =>
          ShownAt("SUBTOTAL", FirstRow + TableRows(cart) + 1)
    /\ next \in {"footer", "done"} =>
          ShownAt("TOTAL", FirstRow + TableRows(cart) + 4)

\* What a write leaves behind.
LEMMA WriteSets ==
    ASSUME NEW values, Write(values)
    PROVE  /\ \A col \in DOMAIN values : /\ <<col, row>> \in DOMAIN cells'
                                           /\ cells'[<<col, row>>] = values[col]
           /\ DOMAIN cells \subseteq DOMAIN cells'
           /\ \A c \in DOMAIN cells' : c \in DOMAIN cells
                                        \/ \E col \in DOMAIN values : c = <<col, row>>
<1> DEFINE at == (DOMAIN values) \X {row}
<1>1. cells' = [c \in DOMAIN cells \cup at |->
                    IF c \in at THEN values[c[1]] ELSE cells[c]]
  BY DEF Write
<1>2. /\ \A col \in DOMAIN values : <<col, row>> \in at /\ <<col, row>>[1] = col
      /\ \A c \in at : \E col \in DOMAIN values : c = <<col, row>>
  OBVIOUS
<1> HIDE DEF at
<1>3. \A col \in DOMAIN values : cells'[<<col, row>>] = values[col]
  BY <1>1, <1>2
<1>4. DOMAIN cells' = DOMAIN cells \cup at
  BY <1>1
<1> QED
  BY <1>2, <1>3, <1>4

\* What is written stays.
LEMMA CellsStay ==
    ASSUME Layout, [Next]_vars
    PROVE  \A c \in DOMAIN cells : c \in DOMAIN cells' /\ cells'[c] = cells[c]
<1>1. \A c \in DOMAIN cells : cells'[c] = cells[c]
  BY NextLayout
<1>2. CASE \E values : Write(values)
  BY <1>1, <1>2, WriteSets
<1>3. CASE UNCHANGED cells
  BY <1>1, <1>3
<1>4. (\E values : Write(values)) \/ UNCHANGED cells
  BY DEF Next, PlaceItem, Pad, Subtotal, Iva, Total, Footer, vars
<1> QED
  BY <1>2, <1>3, <1>4

\* The rows of a cart are finitely many numbers, with an amount each.
LEMMA RowsAre ==
    ASSUME Layout
    PROVE  /\ IsFiniteSet(Rows) /\ Rows \subseteq DOMAIN cart
           /\ DOMAIN cart = 1 .. Len(cart) /\ Len(cart) \in Nat /\ cart \in Seq(Item)
           /\ \A k \in DOMAIN cart : LineTotals(cart)[k] \in Nat
           /\ SumFunctionOnSet(LineTotals(cart), Rows) \in Nat
<1>1. DOMAIN cart = 1 .. Len(cart) /\ Len(cart) \in Nat /\ cart \in Seq(Item)
  BY DEF Layout, Carts
<1>2. IsFiniteSet(Rows) /\ Rows \subseteq DOMAIN cart
  <2>1. IsFiniteSet(1 .. Len(cart)) /\ Rows \subseteq 1 .. Len(cart)
    BY <1>1, FS_Interval DEF Rows
  <2> QED
    BY <1>1, <2>1, FS_Subset
<1>3. ASSUME NEW k \in DOMAIN cart
      PROVE  LineTotals(cart)[k] \in Nat
  <2>1. cart[k].cantidad \in Nat /\ cart[k].precio \in Nat
    <3>1. cart[k] \in Item
      BY <1>1
    <3> QED
      BY <3>1, QuoteAssumption DEF Item
  <2>2. \A x, y \in Nat : x * y \in Nat
    OBVIOUS
  <2> QED
    BY <2>1, <2>2 DEF LineTotals
<1> QED
  BY <1>1, <1>2, <1>3, SumNat

\* Nothing has been added up before the first row.
LEMMA InitAmounts == Init => ItemsWritten /\ TotalsWritten
<1> SUFFICES ASSUME Init PROVE ItemsWritten /\ TotalsWritten
  OBVIOUS
<1>1. /\ Layout /\ cart \in Carts /\ placed = 0 /\ subtotal = 0
      /\ cells = Header /\ next = "items"
  BY InitLayout DEF Init
<1>2. Rows = {}
  BY <1>1, TableRowsFit DEF Rows
<1>3. \A r \in FirstRow .. FirstRow + TableRows(cart) - 1 : <<"B", r>> \notin DOMAIN cells
  BY <1>1, TableRowsFit DEF Header, FirstRow
<1> QED
  BY <1>1, <1>2, <1>3, SumEmpty DEF ItemsWritten, TotalsWritten

\* An item's row: its cells, and its amount in the subtotal.
LEMMA PlaceItemAdds ==
    ASSUME Layout, ItemsWritten, PlaceItem
    PROVE  ItemsWritten'
<1>1. PICK k : k = placed + 1
  OBVIOUS
<1>2. PICK v : v = ItemCells(cart[k])
  OBVIOUS
<1>3. /\ Write(v) /\ cart' = cart /\ placed' = k /\ k <= Len(cart) /\ k \in Nat \ {0}
      /\ subtotal' = subtotal + cart[k].cantidad * cart[k].precio
      /\ next = "items" /\ next' = "items" /\ row = FirstRow + k - 1
      /\ Len(cart) \in Nat /\ placed \in Nat
  BY <1>1, <1>2, RowsAre DEF PlaceItem, Layout, Cursor, FirstRow
<1>4. DOMAIN v = {"B", "C", "D", "E"}
  BY <1>2 DEF ItemCells
<1>5. /\ Rows' = Rows \cup {k} /\ k \notin Rows /\ k \in 1 .. Len(cart)
  BY <1>1, <1>3 DEF Rows
<1>6. \A c \in DOMAIN cells : c \in DOMAIN cells' /\ cells'[c] = cells[c]
  BY CellsStay DEF Next
<1>7. /\ \A col \in DOMAIN v : /\ <<col, row>> \in DOMAIN cells'
                                 /\ cells'[<<col, row>>] = v[col]
      /\ \A c \in DOMAIN cells' : c \in DOMAIN cells
                                   \/ \E col \in DOMAIN v : c = <<col, row>>
  BY <1>3, WriteSets
<1>8. ASSUME NEW j \in Rows', NEW col \in {"B", "C", "D", "E"}
      PROVE  /\ <<col, FirstRow + j - 1>> \in DOMAIN cells'
             /\ cells'[<<col, FirstRow + j - 1>>] = ItemCells(cart'[j])[col]
  <2>1. CASE j = k
    <3>1. <<col, row>> \in DOMAIN cells' /\ cells'[<<col, row>>] = v[col]
      BY <1>4, <1>7
    <3> QED
      BY <1>2, <1>3, <2>1, <3>1
  <2>2. CASE j \in Rows
    <3>1. /\ <<col, FirstRow + j - 1>> \in DOMAIN cells
          /\ cells[<<col, FirstRow + j - 1>>] = ItemCells(cart[j])[col]
      BY <2>2 DEF ItemsWritten
    <3> QED
      BY <1>3, <1>6, <3>1
  <2> QED
    BY <1>5, <2>1, <2>2
<1>9. ASSUME NEW r \in FirstRow .. FirstRow + TableRows(cart) - 1, <<"B", r>> \in DOMAIN cells'
      PROVE  r - FirstRow + 1 \in Rows'
  <2>1. CASE <<"B", r>> \in DOMAIN cells
    BY <1>5, <2>1 DEF ItemsWritten
  <2>2. CASE r = row
    BY <1>3, <1>5, <2>2 DEF FirstRow
  <2>3. <<"B", r>> \in DOMAIN cells \/ r = row
    BY <1>7, <1>9
  <2> QED
    BY <2>1, <2>2, <2>3
<1>10. subtotal' = SumFunctionOnSet(LineTotals(cart'), Rows')
  <2>1. PICK f : f = LineTotals(cart)
    OBVIOUS
  <2>2. PICK new : new = Rows'
    OBVIOUS
  <2>3. f[k] = cart[k].cantidad * cart[k].precio
    BY <1>5, <2>1, RowsAre DEF LineTotals
  <2>4. IsFiniteSet(Rows) /\ new = Rows \cup {k} /\ k \in new /\ new \ {k} = Rows
    BY <1>5, <2>2, RowsAre
  <2>5. IsFiniteSet(new) /\ \A j \in new : f[j] \in Nat
    BY <1>5, <2>1, <2>4, RowsAre, FS_AddElement
  <2>6. SumFunctionOnSet(f, new) = f[k] + SumFunctionOnSet(f, new \ {k})
    BY <2>4, <2>5, SumRemove
  <2>7. subtotal = SumFunctionOnSet(f, Rows) /\ SumFunctionOnSet(f, Rows) \in Nat /\ f[k] \in Nat
    BY <2>1, <2>4, <2>5, RowsAre DEF ItemsWritten
  <2>8. subtotal' = subtotal + f[k]
    BY <1>3, <2>3
  <2>9. subtotal' = SumFunctionOnSet(f, new)
    <3>1. SumFunctionOnSet(f, new) = f[k] + subtotal
      BY <2>4, <2>6, <2>7
    <3>2. subtotal \in Nat /\ f[k] \in Nat
      BY <2>7
    <3> QED
      BY <2>8, <3>1, <3>2
  <2>10. LineTotals(cart') = f
    BY <1>3, <2>1
  <2> QED
    BY <2>2, <2>9, <2>10
<1> QED
  BY <1>3, <1>8, <1>9, <1>10 DEF ItemsWritten

\* No other step writes a name into the table or touches the items and the sum.
LEMMA ItemsStay ==
    ASSUME Layout, ItemsWritten, [Next]_vars, ~ PlaceItem
    PROVE  ItemsWritten' /\ subtotal' = subtotal /\ cart' = cart
<1>0. /\ Len(cart) \in Nat /\ placed \in Nat /\ row \in Nat /\ TableRows(cart) \in Nat
      /\ TableRows(cart) >= Len(cart)
  BY RowsAre, TableRowsFit DEF Layout
<1>1. /\ cart' = cart /\ subtotal' = subtotal
      /\ placed' = placed \/ (placed' = placed + 1 /\ placed >= Len(cart))
      /\ next' # "items" => placed' >= Len(cart)
  BY <1>0 DEF Next, Pad, Subtotal, Iva, Total, Footer, vars, ItemsWritten
<1>2. Rows' = Rows
  BY <1>0, <1>1 DEF Rows
<1>3. \A c \in DOMAIN cells : c \in DOMAIN cells' /\ cells'[c] = cells[c]
  BY CellsStay
<1>4. ASSUME NEW r \in FirstRow .. FirstRow + TableRows(cart) - 1, <<"B", r>> \in DOMAIN cells'
      PROVE  <<"B", r>> \in DOMAIN cells
  <2>1. CASE Footer
    <3>1. PICK v : v = [B |-> Text("thanks"), C |-> Merged, D |-> Merged, E |-> Merged]
      OBVIOUS
    <3>2. Write(v) /\ row = FirstRow + TableRows(cart) + 8
      BY <2>1, <3>1 DEF Footer, Layout, Cursor
    <3>3. r # row
      BY <1>0, <3>2 DEF FirstRow
    <3> QED
      BY <1>4, <3>2, <3>3, WriteSets
  <2>2. CASE Subtotal \/ Iva \/ Total
    <3>1. PICK v : Write(v) /\ "B" \notin DOMAIN v
      <4>1. "B" \notin DOMAIN [D |-> Text("SUBTOTAL"), E |-> Amount(subtotal)]
        OBVIOUS
      <4>2. "B" \notin DOMAIN [D |-> Text("IVA")]
        OBVIOUS
      <4>3. "B" \notin DOMAIN [D |-> Text("TOTAL"), E |-> Amount(subtotal)]
        OBVIOUS
      <4> QED
        BY <2>2, <4>1, <4>2, <4>3 DEF Subtotal, Iva, Total
    <3> QED
      BY <1>4, <3>1, WriteSets
  <2>3. CASE UNCHANGED cells
    BY <1>4, <2>3
  <2> QED
    BY <2>1, <2>2, <2>3 DEF Next, Pad, vars
<1>5. SumFunctionOnSet(LineTotals(cart'), Rows') = SumFunctionOnSet(LineTotals(cart), Rows)
  BY <1>1, <1>2
<1> QED
  BY <1>1, <1>2, <1>3, <1>4, <1>5 DEF ItemsWritten

\* The two amounts below the table stay, and are written in their turn.
LEMMA NextTotals ==
    ASSUME Layout, ItemsWritten, TotalsWritten, [Next]_vars
    PROVE  TotalsWritten'
<1>1. \A c \in DOMAIN cells : c \in DOMAIN cells' /\ cells'[c] = cells[c]
  BY CellsStay
<1>2. CASE PlaceItem
  BY <1>2 DEF PlaceItem, TotalsWritten
<1>3. CASE ~ PlaceItem
  <2>1. subtotal' = subtotal /\ cart' = cart
    BY <1>3, ItemsStay
  <2>2. \A t, r : ShownAt(t, r) => ShownAt(t, r)'
    BY <1>1, <2>1 DEF ShownAt
  <2>3. ASSUME NEW t, NEW r, r = row, Write([D |-> Text(t), E |-> Amount(subtotal)])
        PROVE  ShownAt(t, r)'
    <3>1. PICK v : v = [D |-> Text(t), E |-> Amount(subtotal)]
      OBVIOUS
    <3>2. DOMAIN v = {"D", "E"} /\ v["D"] = Text(t) /\ v["E"] = Amount(subtotal)
      BY <3>1
    <3> QED
      BY <2>1, <2>3, <3>1, <3>2, WriteSets DEF ShownAt
  <2>4. CASE Subtotal
    <3>1. PICK r : r = row
      OBVIOUS
    <3>2. ShownAt("SUBTOTAL", r)'
      BY <2>3, <2>4, <3>1 DEF Subtotal
    <3>3. r = FirstRow + TableRows(cart') + 1 /\ next' = "iva"
      BY <2>1, <2>4, <3>1 DEF Subtotal, Layout, Cursor
    <3> QED
      BY <3>2, <3>3 DEF TotalsWritten
  <2>5. CASE Total
    <3>1. PICK r : r = row
      OBVIOUS
    <3>2. ShownAt("TOTAL", r)'
      BY <2>3, <2>5, <3>1 DEF Total
    <3>3. r = FirstRow + TableRows(cart') + 4 /\ next' = "footer"
      BY <2>1, <2>5, <3>1 DEF Total, Layout, Cursor
    <3>4. ShownAt("SUBTOTAL", FirstRow + TableRows(cart) + 1)'
      <4>1. PICK s : s = FirstRow + TableRows(cart) + 1
        OBVIOUS
      <4>2. ShownAt("SUBTOTAL", s)
        BY <2>5, <4>1 DEF Total, TotalsWritten
      <4>3. ShownAt("SUBTOTAL", s)'
        BY <2>2, <4>2
      <4> QED
        BY <2>1, <4>1, <4>3
    <3> QED
      BY <3>2, <3>3, <3>4 DEF TotalsWritten
  <2>6. CASE Iva \/ Footer
    BY <2>1, <2>2, <2>6 DEF Iva, Footer, TotalsWritten
  <2>7. CASE Pad
    BY <2>1, <2>7 DEF Pad, TotalsWritten
  <2>8. CASE UNCHANGED vars
    BY <2>1, <2>2, <2>8 DEF vars, TotalsWritten
  <2> QED
    BY <1>3, <2>4, <2>5, <2>6, <2>7, <2>8 DEF Next
<1> QED
  BY <1>2, <1>3

\* The layout and the amounts are an invariant.
LEMMA AmountsInv == Spec => [](Layout /\ ItemsWritten /\ TotalsWritten)
<1>1. Init => Layout /\ ItemsWritten /\ TotalsWritten
  BY InitLayout, InitAmounts
<1>2. (Layout /\ ItemsWritten /\ TotalsWritten) /\ [Next]_vars
          => (Layout /\ ItemsWritten /\ TotalsWritten)'
  <2> SUFFICES ASSUME Layout, ItemsWritten, TotalsWritten, [Next]_vars
               PROVE  Layout' /\ ItemsWritten' /\ TotalsWritten'
    OBVIOUS
  <2>1. Layout'
    BY NextLayout
  <2>2. ItemsWritten'
    BY PlaceItemAdds, ItemsStay
  <2>3. TotalsWritten'
    BY NextTotals
  <2> QED
    BY <2>1, <2>2, <2>3
<1> QED
  BY <1>1, <1>2, PTL DEF Spec

\* For any cart, the variables have their types: the rows placed are never more
\* than the table's, and the subtotal is an amount (buildCartWorkbook).
THEOREM TypeCorrect == Spec => []TypeOK
<1>1. ASSUME Layout, ItemsWritten
      PROVE  TypeOK
  <2>1. subtotal \in Nat
    BY <1>1, RowsAre DEF ItemsWritten
  <2>2. placed \in 0 .. TableRows(cart)
    BY <1>1, TableRowsFit DEF Layout
  <2> QED
    BY <1>1, <2>1, <2>2 DEF TypeOK, Layout, Cursor, TableRows
<1> QED
  BY <1>1, AmountsInv, PTL

\* For any cart, SUBTOTAL and TOTAL are the sum of the rows that show an item,
\* each its quantity times its price, and there are as many as items
\* (buildCartWorkbook).
THEOREM SheetAlwaysAddsUp == Spec => []SheetAddsUp
<1>1. ASSUME Layout, ItemsWritten, TotalsWritten, next = "done"
      PROVE  SheetAddsUp
  <2> DEFINE table == FirstRow .. FirstRow + TableRows(cart) - 1
             lines == {r \in table : <<"B", r>> \in DOMAIN cells}
             amount(col, r) == cells[<<col, r>>][2]
             labelled(t) == {r \in 1 .. row : <<"D", r>> \in DOMAIN cells
                                               /\ cells[<<"D", r>>] = Text(t)}
  <2>1. /\ Len(cart) \in Nat /\ TableRows(cart) \in Nat /\ TableRows(cart) >= Len(cart)
        /\ row = FirstRow + TableRows(cart) + 8 /\ FirstRow = 17
        /\ placed \in Nat /\ placed >= Len(cart) /\ DOMAIN cart = 1 .. Len(cart)
    BY <1>1, RowsAre, TableRowsFit DEF Layout, Cursor, FirstRow, ItemsWritten
  <2>2. Rows = 1 .. Len(cart)
    BY <2>1 DEF Rows
  <2>3. ASSUME NEW r \in FirstRow .. FirstRow + Len(cart) - 1
        PROVE  /\ r - FirstRow + 1 \in Rows
               /\ \A col \in {"B", "C", "D", "E"} :
                     /\ <<col, r>> \in DOMAIN cells
                     /\ cells[<<col, r>>] = ItemCells(cart[r - FirstRow + 1])[col]
    <3>1. PICK k : k = r - FirstRow + 1
      OBVIOUS
    <3>2. k \in Rows /\ r = FirstRow + k - 1
      BY <2>1, <2>2, <3>1
    <3> QED
      BY <1>1, <3>1, <3>2 DEF ItemsWritten
  <2>4. lines = FirstRow .. FirstRow + Len(cart) - 1
    <3>1. ASSUME NEW r \in lines
          PROVE  r \in FirstRow .. FirstRow + Len(cart) - 1
      <4>1. r \in table /\ r - FirstRow + 1 \in Rows
        BY <1>1 DEF ItemsWritten
      <4> QED
        BY <2>1, <2>2, <4>1
    <3>2. ASSUME NEW r \in FirstRow .. FirstRow + Len(cart) - 1
          PROVE  r \in lines
      <4>1. r \in table
        BY <2>1
      <4> QED
        BY <2>3, <4>1
    <3> QED
      BY <3>1, <3>2
  <2>5. Cardinality(lines) = Len(cart)
    <3>1. PICK a, b : a = FirstRow /\ b = FirstRow + Len(cart) - 1
      OBVIOUS
    <3>2. a \in Int /\ b \in Int
      BY <2>1, <3>1
    <3>3. Cardinality(a .. b) = IF a > b THEN 0 ELSE b - a + 1
      BY <3>2, FS_Interval
    <3>4. (IF a > b THEN 0 ELSE b - a + 1) = Len(cart)
      BY <2>1, <3>1
    <3>5. lines = a .. b
      BY <2>4, <3>1
    <3> HIDE DEF lines
    <3> QED
      BY <3>3, <3>4, <3>5
  <2>6. ASSUME NEW r \in lines
        PROVE  amount("E", r) = amount("C", r) * amount("D", r)
    <3>1. PICK item : item = cart[r - FirstRow + 1]
      OBVIOUS
    <3>2. \A col \in {"B", "C", "D", "E"} : cells[<<col, r>>] = ItemCells(item)[col]
      BY <2>3, <2>4, <3>1
    <3>3. PICK c, d : c = item.cantidad /\ d = item.precio
      OBVIOUS
    <3>4. /\ cells[<<"C", r>>] = <<"amount", c>>
          /\ cells[<<"D", r>>] = <<"amount", d>>
          /\ cells[<<"E", r>>] = <<"amount", c * d>>
      BY <3>2, <3>3 DEF ItemCells, Amount
    <3> QED
      BY <3>4
  <2>7. ASSUME NEW t \in {"SUBTOTAL", "TOTAL"}
        PROVE  \E r \in labelled(t) :
                  /\ <<"E", r>> \in DOMAIN cells
                  /\ amount("E", r) = SumFunctionOnSet(LineTotals(cart), DOMAIN cart)
    <3>1. PICK r \in 1 .. row : ShownAt(t, r)
      BY <1>1, <2>1 DEF TotalsWritten
    <3>2. amount("E", r) = subtotal
      BY <3>1 DEF ShownAt, Amount
    <3>3. subtotal = SumFunctionOnSet(LineTotals(cart), DOMAIN cart)
      BY <1>1, <2>1, <2>2 DEF ItemsWritten
    <3> QED
      BY <3>1, <3>2, <3>3 DEF ShownAt
  <2> QED
    BY <2>5, <2>6, <2>7 DEF SheetAddsUp, LineTotals
<1>2. Layout /\ ItemsWritten /\ TotalsWritten => SheetAddsUp
  BY <1>1 DEF SheetAddsUp
<1> QED
  BY <1>2, AmountsInv, PTL
=============================================================================

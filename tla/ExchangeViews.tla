--------------------------- MODULE ExchangeViews ---------------------------
(***************************************************************************)
(* getActiveOrders, the view the trading screens page through: a loop over *)
(* every order ever created, which collects the orders of one pair.        *)
(***************************************************************************)
EXTENDS Exchange

CONSTANTS
  MaxScanLimit,   \* MAX_SCAN_LIMIT
  DefaultLimit,   \* what a limit of 0 stands for
  Offsets, Limits \* the pages callers ask for

ASSUME PageAssumption ==
  /\ MaxScanLimit \in Nat /\ DefaultLimit \in 1 .. MaxScanLimit
  /\ Offsets \subseteq Nat /\ Limits \subseteq 0 .. MaxScanLimit

\* The loop's condition on an order: it expires the moment its deadline comes.
Listed(o, sell, buy) ==
  /\ Open(o) /\ o.tokenSell = sell /\ o.tokenBuy = buy
  /\ o.deadline = 0 \/ o.deadline > now

PageSize(limit) == IF limit = 0 THEN DefaultLimit ELSE limit

\* Variant: the offset counts ids instead of matches.
ScanStepById(s, i, sell, buy, offset, limit) ==
  IF Len(s.page) = limit THEN s
  ELSE LET hit == Listed(orders[i], sell, buy) IN
       [scanned |-> s.scanned + 1, matched |-> s.matched,
        page    |-> IF hit /\ i >= offset THEN Append(s.page, i) ELSE s.page]

\* The loop's state after its first n orders: how many orders it looked at, how
\* many matched, and the page.  A full page ends the loop.
ScanStep(s, i, sell, buy, offset, limit) ==
  IF Len(s.page) = limit THEN s
  ELSE LET hit == Listed(orders[i], sell, buy) IN
       [scanned |-> s.scanned + 1,
        matched |-> IF hit THEN s.matched + 1 ELSE s.matched,
        page    |-> IF hit /\ s.matched >= offset THEN Append(s.page, i) ELSE s.page]

Scan(sell, buy, offset, limit) ==
  LET after[n \in 0 .. nextOrderId] ==
        IF n = 0 THEN [scanned |-> 0, matched |-> 0, page |-> <<>>]
        ELSE ScanStep(after[n - 1], n - 1, sell, buy, offset, PageSize(limit))
  IN after[nextOrderId]

GetActiveOrders(sell, buy, offset, limit) == Scan(sell, buy, offset, limit).page

-----------------------------------------------------------------------------
\* The listed orders of a pair, and how many of ids come before one of them.
ListedIds(sell, buy) == {i \in 0 .. nextOrderId - 1 : Listed(orders[i], sell, buy)}
Before(ids, i) == Cardinality({j \in ids : j < i})

\* A page is the slice of the pair's listed orders, in the order of creation,
\* that its offset and limit name: pages that tile the offsets neither repeat
\* nor lose an order of the book they are read from.
PageIsSlice ==
  \A sell, buy \in Assets, offset \in Offsets, limit \in Limits :
    LET ids  == ListedIds(sell, buy)
        page == GetActiveOrders(sell, buy, offset, limit)
    IN /\ \A k, l \in 1 .. Len(page) : k < l => page[k] < page[l]
       /\ {page[k] : k \in 1 .. Len(page)} =
            {i \in ids : Before(ids, i) \in offset .. offset + PageSize(limit) - 1}

\* Whatever a page offers could be filled now as far as the checks of
\* _validateOrderActive go: no cancelled, sold-out or expired order is shown.
OfferedIsActive ==
  \A sell, buy \in Assets, offset \in Offsets, limit \in Limits :
    LET page == GetActiveOrders(sell, buy, offset, limit)
    IN \A k \in 1 .. Len(page) : Active(orders[page[k]])

PagesAreFaithful == PageIsSlice /\ OfferedIsActive
=============================================================================

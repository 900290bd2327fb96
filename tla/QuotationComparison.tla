------------------------ MODULE QuotationComparison ------------------------
(***************************************************************************)
(* compareQuotes of modules/supplier/quotation.service.ts: the numbers a   *)
(* buyer sees next to every response before accepting one.  Prices are     *)
(* whole units: rounding to cents is left out.                             *)
(***************************************************************************)
EXTENDS Quotation, FiniteSetsExt

(* lineQtyByItem is filled line by line, a later line overwrites.          *)
LineQuantity(item) ==
    LET asked == {n \in DOMAIN quote.lines : quote.lines[n].item = item}
    IN  quote.lines[Max(asked)].quantity

(* The sum of a function whose values are natural numbers: it has as many  *)
(* units as there are pairs of an argument and a number up to its value.   *)
Total(f) == Cardinality(UNION {{x} \X (1..f[x]) : x \in DOMAIN f})

TotalCost(s) ==
    LET r == quote.response[s]
    IN  Total([i \in DOMAIN r |-> LineQuantity(i) * r[i]])

(* Mutant: complete when every requested item has a price.                 *)
CompleteByItem(s) ==
    quote.response[s] # NoResponse /\ DOMAIN quote.response[s] = Requested

(* isComplete compares the number of priced items with the number of lines *)
IsComplete(s) ==
    /\ quote.response[s] # NoResponse
    /\ Cardinality(DOMAIN quote.response[s]) = Len(quote.lines)

(* The cheapest complete responses: the first of them in the order of the  *)
(* invitations is recommended.                                             *)
Recommended ==
    {s \in quote.invited :
        /\ IsComplete(s)
        /\ \A t \in quote.invited : IsComplete(t) => TotalCost(s) <= TotalCost(t)}

OrderTotal(lines) ==
    Total([n \in DOMAIN lines |-> lines[n].quantity * lines[n].price])

(* The order that accepting a recommended response drafts costs what the   *)
(* comparison said and leaves out none of the lines, although the          *)
(* comparison counts by item and the draft goes line by line               *)
(* (quotation.service.ts compareQuotes, buildPoFromAcceptedQuote).         *)
RecommendationHolds ==
    \A s \in Recommended :
        LET lines == OrderLines(quote.lines, quote.response[s]) IN
        /\ DOMAIN lines = DOMAIN quote.lines
        /\ OrderTotal(lines) = TotalCost(s)
=============================================================================

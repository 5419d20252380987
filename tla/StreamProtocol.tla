--------------------------- MODULE StreamProtocol ---------------------------
(***************************************************************************)
(* What a streamed answer promises its client, whatever the format: the    *)
(* answer starts once, its items (output items of the Responses API,       *)
(* content blocks of the Messages API) get the indexes 0, 1, 2, ... as     *)
(* they open, fragments go only into an item that is open, and the answer  *)
(* is complete only when every item is closed.  Nothing follows the end.   *)
(***************************************************************************)
EXTENDS Naturals, FiniteSets, Sequences, SequencesExt

CONSTANTS
    Kinds,    \* of items
    Whole     \* kinds of items that come in one piece, with their closing

VARIABLES status, items

Item(k, t, o) == [kind |-> k, text |-> t, open |-> o]

Init == status = "none" /\ items = [i \in {} |-> <<>>]

Start ==
    /\ status = "none"
    /\ status' = "open"
    /\ UNCHANGED items

(* The new item has the first index not yet used. *)
OpenItem(k) ==
    /\ status = "open"
    /\ LET n == Cardinality(DOMAIN items) IN
         /\ DOMAIN items = 0..(n - 1)
         /\ items' = [i \in 0..n |-> IF i = n THEN Item(k, <<>>, TRUE)
                                     ELSE items[i]]
    /\ UNCHANGED status

Grow(i) ==
    /\ status = "open" /\ items[i].open
    /\ DOMAIN items' = DOMAIN items
    /\ IsPrefix(items[i].text, items'[i].text)
    /\ items' = [items EXCEPT ![i] = Item(items[i].kind, items'[i].text, TRUE)]
    /\ UNCHANGED status

(* Closing an item repeats its text and does not change it. *)
CloseItem(i) ==
    /\ status = "open" /\ items[i].open
    /\ DOMAIN items' = DOMAIN items
    /\ items[i].kind \in Whole \/ items'[i].text = items[i].text
    /\ items' = [items EXCEPT ![i] = Item(items[i].kind, items'[i].text, FALSE)]
    /\ UNCHANGED status

Complete ==
    /\ status = "open"
    /\ \A i \in DOMAIN items : ~items[i].open
    /\ status' = "completed"
    /\ UNCHANGED items

(* The stream breaks off: an error reaches the client, or the end comes    *)
(* without the closing events.                                             *)
Break ==
    /\ status \in {"none", "open"}
    /\ status' = "broken"
    /\ UNCHANGED items

Next ==
    \/ Start \/ Complete \/ Break
    \/ \E k \in Kinds : OpenItem(k)
    \/ \E i \in DOMAIN items : CloseItem(i) \/ Grow(i)

Spec == Init /\ [][Next]_<<status, items>>
=============================================================================

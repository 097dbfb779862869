------------------------------ MODULE Pagination ------------------------------
(***************************************************************************)
(* Collecting a cursor-paginated list:                                     *)
(*   app/integrations/base.py                        get_paginated         *)
(*   app/integrations/enrichment/threat_intel.py     list_indicators       *)
(*   app/integrations/vulnerability/asset_intel.py   list_findings         *)
(* and the two mock vendors, whose cursor is the offset of the next page.  *)
(* A provider may also be loose: it answers any page with any cursor.  One *)
(* page request is one get(), retries included (module IntegrationClient). *)
(***************************************************************************)
EXTENDS Integers, Sequences

CONSTANTS
    Records,   \* what a list is made of
    Valid,     \* the records that meet the vendor's schema and the platform's
    Lists,     \* the lists a vendor may have
    Cursors,   \* the cursors a loose provider may answer, NoCursor among them
    PageSize,  \* page size of the vendor
    MaxPages,  \* max_pages, a limit of every caller
    MaxItems   \* max_items, a limit of list_findings only

NoCursor == 0

ASSUME LimitsAssumption ==
    /\ Valid \subseteq Records
    /\ Lists \subseteq Seq(Records)
    /\ NoCursor \in Cursors
    /\ Cursors \subseteq Nat
    /\ {PageSize, MaxPages, MaxItems} \subseteq Nat \ {0}

Consumers == {"list_indicators", "list_findings"}

VARIABLES
    consumer,   \* who collects
    conduct,    \* "offset", the mock vendor's, or "loose"
    list,       \* the vendor's list; it does not change meanwhile
    asked,      \* the cursors of the requests made, the current one last
    followed,   \* seen_cursors
    collected,  \* the items of the pages so far
    ended,      \* how get_paginated ended, or NotYet
    delivered   \* what the consumer has given its caller, or NotYet

vars == <<consumer, conduct, list, asked, followed, collected, ended, delivered>>

-------------------------------------------------------------------------------
Least(m, n) == IF m <= n THEN m ELSE n

\* One page of the vendor, from the offset the cursor gives.
OffsetPage(start) ==
    LET next == start + PageSize
    IN  [isList   |-> TRUE,
         items    |-> SubSeq(list, start + 1, Least(next, Len(list))),
         cursor   |-> IF next < Len(list) THEN next ELSE NoCursor,
         hashable |-> TRUE,
         hasMore  |-> next < Len(list)]

\* A page with or without its list of items, short of or beyond the page size, its
\* cursor a value that a set can hold or another (a JSON list or object).
LoosePages ==
    [isList : BOOLEAN, items : {SubSeq(list, 1, n) : n \in {0, Least(PageSize + 1, Len(list))}},
     cursor : Cursors, hashable : BOOLEAN, hasMore : BOOLEAN]

PagesFor(start) == IF conduct = "offset" THEN {OffsetPage(start)} ELSE LoosePages

NotYet == [kind |-> "not_yet"]

\* An exception: an IntegrationError, or the TypeError of a cursor that no set holds.
Failed == [kind |-> "error"]

Items(s, reason) == [kind |-> "items", items |-> s, reason |-> reason]

TruncatedReason == {"max_items_reached", "max_pages_reached", "duplicate_cursor_detected"}

Result == {NotYet, Failed} \cup [kind : {"items"}, items : Seq(Records),
                                 reason : TruncatedReason \cup {"complete"}]

TypeOK ==
    /\ consumer \in Consumers
    /\ conduct \in {"offset", "loose"}
    /\ list \in Lists
    /\ asked \in Seq(Nat)
    /\ followed \subseteq Nat \ {NoCursor}
    /\ collected \in Seq(Records)
    /\ ended \in Result
    /\ delivered \in Result

Init ==
    /\ consumer \in Consumers
    /\ conduct \in {"offset", "loose"}
    /\ list \in Lists
    /\ asked = <<NoCursor>>
    /\ followed = {}
    /\ collected = <<>>
    /\ ended = NotYet
    /\ delivered = NotYet

Limited == consumer = "list_findings"

ReadsHasMore == consumer = "list_findings"

\* Slip: the items are cut, and the list passed off as whole.
Reason_Silent(page, got) ==
    IF Limited /\ Len(got) >= MaxItems THEN "complete"
    ELSE IF page.cursor = NoCursor THEN "complete"
    ELSE IF page.cursor \in followed THEN "duplicate_cursor_detected"
    ELSE IF Len(asked) = MaxPages THEN "max_pages_reached"
    ELSE "none"

\* Slip: the cursors followed are not remembered.
Reason_Forgets(page, got) ==
    IF Limited /\ Len(got) >= MaxItems THEN "max_items_reached"
    ELSE IF page.cursor = NoCursor THEN "complete"
    ELSE IF Len(asked) = MaxPages THEN "max_pages_reached"
    ELSE "none"

\* Slip: a limit named as its parameter is.
Reason_Misnamed(page, got) ==
    IF Limited /\ Len(got) >= MaxItems THEN "max_items_reached"
    ELSE IF page.cursor = NoCursor THEN "complete"
    ELSE IF page.cursor \in followed THEN "duplicate_cursor_detected"
    ELSE IF Len(asked) = MaxPages THEN "max_pages"
    ELSE "none"

\* Why the collection ends with this page, or "none" if it goes on.
Reason(page, got) ==
    IF Limited /\ Len(got) >= MaxItems THEN "max_items_reached"
    ELSE IF page.cursor = NoCursor THEN "complete"
    ELSE IF page.cursor \in followed THEN "duplicate_cursor_detected"
    ELSE IF Len(asked) = MaxPages THEN "max_pages_reached"
    ELSE "none"

\* The page has no list of items, contradicts itself, or has a cursor that cannot
\* be looked up among those followed.
Malformed(page, got) ==
    \/ ~page.isList
    \/ /\ Reason(page, got) # "max_items_reached"
       /\ \/ ReadsHasMore /\ page.hasMore /\ page.cursor = NoCursor
          \/ page.cursor # NoCursor /\ ~page.hashable

\* Slip: a repeated cursor starts the collection over.
ReceivePage_StartsOver(page) ==
    LET got    == collected \o page.items
        reason == Reason(page, got)
    IN  /\ ended = NotYet
        /\ UNCHANGED <<consumer, conduct, list, delivered>>
        /\ \/ /\ Malformed(page, got)
              /\ ended' = Failed
              /\ UNCHANGED <<asked, followed, collected>>
           \/ /\ ~Malformed(page, got)
              /\ reason = "duplicate_cursor_detected"
              /\ asked' = <<NoCursor>> /\ followed' = {} /\ collected' = <<>>
              /\ UNCHANGED ended
           \/ /\ ~Malformed(page, got)
              /\ reason = "none"
              /\ asked' = Append(asked, page.cursor)
              /\ followed' = followed \cup {page.cursor} /\ collected' = got
              /\ UNCHANGED ended
           \/ /\ ~Malformed(page, got)
              /\ reason \notin {"none", "duplicate_cursor_detected"}
              /\ ended' = Items(IF reason = "max_items_reached"
                                   THEN SubSeq(got, 1, MaxItems) ELSE got, reason)
              /\ UNCHANGED <<asked, followed, collected>>

\* One more page has come.
ReceivePage(page) ==
    LET got    == collected \o page.items
        reason == Reason(page, got)
    IN  /\ ended = NotYet
        /\ UNCHANGED <<consumer, conduct, list, delivered>>
        /\ \/ /\ Malformed(page, got)
              /\ ended' = Failed
              /\ UNCHANGED <<asked, followed, collected>>
           \/ /\ ~Malformed(page, got)
              /\ collected' = got
              /\ IF reason = "none"
                   THEN /\ asked' = Append(asked, page.cursor)
                        /\ UNCHANGED ended
                   ELSE /\ ended' = Items(IF reason = "max_items_reached"
                                            THEN SubSeq(got, 1, MaxItems) ELSE got,
                                          reason)
                        /\ UNCHANGED asked
              /\ followed' = followed \cup
                    (IF reason \in {"none", "max_pages_reached"} THEN {page.cursor} ELSE {})

\* A page cannot be had, its retries used up: the pages so far are dropped.
PageFails ==
    /\ ended = NotYet
    /\ ended' = Failed
    /\ UNCHANGED <<consumer, conduct, list, asked, followed, collected, delivered>>

\* Slip: the records that fail validation are left out.
Delivery_SkipsBad(result) ==
    IF result.kind = "error" THEN Failed
    ELSE IF consumer = "list_indicators" /\ result.reason # "complete" THEN Failed
    ELSE Items(SelectSeq(result.items, LAMBDA r : r \in Valid), result.reason)

\* list_indicators refuses a list that is not complete, and both refuse a list
\* with one record that fails validation.
Delivery(result) ==
    IF result.kind = "error" THEN Failed
    ELSE IF consumer = "list_indicators" /\ result.reason # "complete" THEN Failed
    ELSE IF \E i \in DOMAIN result.items : result.items[i] \notin Valid THEN Failed
    ELSE result

Deliver ==
    /\ ended # NotYet
    /\ delivered = NotYet
    /\ delivered' = Delivery(ended)
    /\ UNCHANGED <<consumer, conduct, list, asked, followed, collected, ended>>

Request == \E page \in PagesFor(asked[Len(asked)]) : ReceivePage(page)

Done == delivered # NotYet /\ UNCHANGED vars

Next == Request \/ PageFails \/ Deliver \/ Done

Spec == Init /\ [][Next]_vars

\* Every get() returns or raises (module IntegrationClient).
FairSpec == Spec /\ WF_vars(Request \/ PageFails) /\ WF_vars(Deliver)

-------------------------------------------------------------------------------
\* Nothing partial passes for the whole list: what a caller of list_indicators is
\* given, and what a caller of list_findings is given as complete, is the list of
\* a vendor that keeps to its offsets, to the last record (base.py:321-390,
\* threat_intel.py:161-181).
CompleteIsWhole ==
    conduct = "offset" /\ delivered.kind = "items" =>
        /\ consumer = "list_indicators" => delivered.reason = "complete"
        /\ delivered.reason = "complete" => delivered.items = list

\* A bounded list is a beginning of the list, of at most MaxItems records, without
\* a gap, a repetition or a record that fails validation, and such a vendor is
\* never blamed for repeating a cursor (base.py:340-343, asset_intel.py:288-299).
BoundedIsPrefix ==
    conduct = "offset" /\ delivered.kind = "items" =>
        /\ Len(delivered.items) <= Len(list)
        /\ delivered.items = SubSeq(list, 1, Len(delivered.items))
        /\ Limited => Len(delivered.items) <= MaxItems
        /\ \A i \in DOMAIN delivered.items : delivered.items[i] \in Valid
        /\ delivered.reason # "duplicate_cursor_detected"

\* However a provider strings its cursors together, no cursor is asked for twice
\* and no more than MaxPages pages are (base.py:319-390).
NoPageTwice ==
    /\ Len(asked) <= MaxPages
    /\ \A i, j \in DOMAIN asked : asked[i] = asked[j] => i = j

\* Every collection comes to an end, in whatever order a provider repeats its
\* cursors (base.py:319-390).
EveryListEnds == <>(delivered # NotYet)

\* What the docstring of PaginatedResult says: complete=False means that fewer
\* than the full collection were received (base.py:83-84).
TruncatedMeansFewer ==
    conduct = "offset" /\ ended.kind = "items" =>
        (ended.reason # "complete" => Len(ended.items) < Len(list))
===============================================================================

---------------------------- MODULE PaginationProofs ----------------------------
(***************************************************************************)
(* Proofs about Pagination, for lists of any length, any page size and     *)
(* limits, and any cursors a loose provider may answer.                    *)
(***************************************************************************)
EXTENDS Pagination, SequenceTheorems, TLAPS

-------------------------------------------------------------------------------
\* The cursor of the page that is awaited.
Current == asked[Len(asked)]

\* The cursors asked for, the first apart, are among those followed, each once.
AskedTells ==
    /\ Len(asked) \in 1 .. MaxPages
    /\ asked[1] = NoCursor
    /\ \A i \in 2 .. Len(asked) : asked[i] \in followed
    /\ \A i, j \in 1 .. Len(asked) : asked[i] = asked[j] => i = j

\* While it goes on, what an offset vendor has sent is its list up to the cursor.
CursorTells ==
    conduct = "offset" /\ ended = NotYet =>
        /\ Current <= Len(list)
        /\ collected = SubSeq(list, 1, Current)
        /\ \A n \in followed : n <= Current

\* How a collection from an offset vendor has ended.
EndTells ==
    conduct = "offset" /\ ended.kind = "items" =>
        /\ Len(ended.items) <= Len(list)
        /\ ended.items = SubSeq(list, 1, Len(ended.items))
        /\ Limited => Len(ended.items) <= MaxItems
        /\ ended.reason # "duplicate_cursor_detected"
        /\ ended.reason = "complete" => ended.items = list

DeliveryTells == delivered # NotYet => ended # NotYet /\ delivered = Delivery(ended)

IndInv == TypeOK /\ AskedTells /\ CursorTells /\ EndTells /\ DeliveryTells

-------------------------------------------------------------------------------
(***************************************************************************)
(* Sequences and pages.                                                    *)
(***************************************************************************)

\* A beginning of a sequence is a sequence of its length, and of the same elements.
LEMMA Beginning ==
    ASSUME NEW S, NEW s \in Seq(S), NEW n \in 0 .. Len(s)
    PROVE  /\ SubSeq(s, 1, n) \in Seq(S)
           /\ Len(SubSeq(s, 1, n)) = n
           /\ \A i \in 1 .. n : SubSeq(s, 1, n)[i] = s[i]
<1>1. \A i \in 1 .. n : s[i] \in S
  OBVIOUS
<1>2. /\ SubSeq(s, 1, n) \in Seq(S)
      /\ Len(SubSeq(s, 1, n)) = (IF 1 <= n THEN n - 1 + 1 ELSE 0)
      /\ \A i \in 1 .. n - 1 + 1 : SubSeq(s, 1, n)[i] = s[1 + i - 1]
  BY <1>1, SubSeqProperties
<1> QED
  BY <1>2

\* What an offset vendor sends next continues what it has sent so far.
LEMMA PageContinues ==
    ASSUME NEW S, list \in Seq(S), PageSize \in Nat \ {0},
           NEW start \in 0 .. Len(list)
    PROVE  LET stop == Least(start + PageSize, Len(list))
           IN  /\ stop \in start .. Len(list)
               /\ OffsetPage(start).items \in Seq(S)
               /\ SubSeq(list, 1, start) \o OffsetPage(start).items = SubSeq(list, 1, stop)
<1> DEFINE stop == Least(start + PageSize, Len(list))
<1>1. Len(list) \in Nat
  OBVIOUS
<1>2. stop \in start .. Len(list)
  BY <1>1 DEF Least
<1>3. OffsetPage(start).items = SubSeq(list, start + 1, stop)
  BY DEF OffsetPage
<1>4. SubSeq(list, 1, start) \o SubSeq(list, start + 1, stop) = SubSeq(list, 1, stop)
  <2>1. /\ 1 \in 1 .. Len(list) + 1
        /\ start \in 1 - 1 .. Len(list)
    BY <1>1
  <2> HIDE DEF stop
  <2> QED
    BY <1>2, <2>1, ConcatAdjacentSubSeq
<1>5. SubSeq(list, start + 1, stop) \in Seq(S)
  <2>1. \A i \in start + 1 .. stop : list[i] \in S
    BY <1>1, <1>2
  <2>2. start + 1 \in Int /\ stop \in Int
    BY <1>1, <1>2
  <2> HIDE DEF stop
  <2> QED
    BY <2>1, <2>2, SubSeqProperties
<1> QED
  BY <1>2, <1>3, <1>4, <1>5

\* Every page a provider may send has a sequence of records and a cursor.
LEMMA PageType ==
    ASSUME TypeOK, CursorTells, AskedTells, ended = NotYet, NEW page \in PagesFor(Current)
    PROVE  page.items \in Seq(Records) /\ page.cursor \in Nat
<1>1. list \in Seq(Records) /\ PageSize \in Nat \ {0} /\ Cursors \subseteq Nat
  BY LimitsAssumption DEF TypeOK
<1>2. Current \in Nat
  BY DEF TypeOK, AskedTells, Current
<1>3. CASE conduct = "offset"
  <2>1. page = OffsetPage(Current) /\ Current \in 0 .. Len(list)
    BY <1>1, <1>2, <1>3 DEF PagesFor, CursorTells
  <2>2. page.items \in Seq(Records)
    BY <1>1, <2>1, PageContinues
  <2>3. page.cursor \in Nat
    BY <1>1, <1>2, <2>1 DEF OffsetPage, NoCursor
  <2> QED
    BY <2>2, <2>3
<1>4. CASE conduct # "offset"
  <2>1. page \in LoosePages
    BY <1>4 DEF PagesFor
  <2>2. PICK n \in {0, Least(PageSize + 1, Len(list))} : page.items = SubSeq(list, 1, n)
    BY <2>1 DEF LoosePages
  <2>3. n \in 0 .. Len(list)
    BY <1>1 DEF Least
  <2>4. page.items \in Seq(Records)
    BY <1>1, <2>2, <2>3, Beginning
  <2> QED
    BY <1>1, <2>1, <2>4 DEF LoosePages
<1> QED
  BY <1>3, <1>4

LEMMA InitiallyInv == Init => IndInv
<1> SUFFICES ASSUME Init PROVE IndInv
  OBVIOUS
<1>1. list \in Seq(Records) /\ MaxPages \in Nat \ {0}
  BY LimitsAssumption DEF Init
<1>2. TypeOK
  BY DEF Init, TypeOK, NoCursor, Result
<1>3. AskedTells
  BY <1>1 DEF Init, AskedTells
<1>4. Current = 0 /\ SubSeq(list, 1, 0) = <<>>
  BY SubSeqEmpty DEF Init, Current, NoCursor
<1>5. CursorTells
  BY <1>1, <1>4 DEF Init, CursorTells
<1>6. EndTells /\ DeliveryTells
  BY DEF Init, EndTells, DeliveryTells, NotYet
<1> QED
  BY <1>2, <1>3, <1>5, <1>6 DEF IndInv

\* A page that ends the collection of an offset vendor ends it as it should.
LEMMA OffsetPageEnds ==
    ASSUME IndInv, ended = NotYet, conduct = "offset",
           NEW page, page = OffsetPage(Current), NEW got, got = collected \o page.items
    PROVE  /\ Current \in 0 .. Len(list)
           /\ page.cursor # NoCursor =>
                /\ page.cursor > Current /\ page.cursor <= Len(list)
                /\ got = SubSeq(list, 1, page.cursor)
                /\ page.cursor \notin followed
           /\ page.cursor = NoCursor => got = list
           /\ Len(got) <= Len(list)
           /\ got = SubSeq(list, 1, Len(got))
<1>1. list \in Seq(Records) /\ PageSize \in Nat \ {0}
  BY LimitsAssumption DEF IndInv, TypeOK
<1>2. Current \in 0 .. Len(list)
  BY <1>1 DEF IndInv, TypeOK, AskedTells, CursorTells, Current
<1> DEFINE stop == Least(Current + PageSize, Len(list))
<1>3. stop \in Current .. Len(list) /\ got = SubSeq(list, 1, stop)
  BY <1>1, <1>2, PageContinues DEF IndInv, CursorTells
<1>4. Len(got) = stop
  <2>1. stop \in 0 .. Len(list)
    BY <1>2, <1>3
  <2> HIDE DEF stop
  <2> QED
    BY <1>1, <1>3, <2>1, Beginning
<1>5. CASE page.cursor # NoCursor
  <2>1. page.cursor = Current + PageSize /\ Current + PageSize < Len(list)
    BY <1>5 DEF OffsetPage
  <2>2. stop = page.cursor /\ page.cursor > Current
    BY <1>1, <1>2, <2>1 DEF Least
  <2>3. page.cursor \notin followed
    <3>1. Current \in Nat /\ page.cursor \in Nat
      BY <1>1, <1>2, <2>1
    <3>2. \A n \in followed : n <= Current
      BY DEF IndInv, CursorTells
    <3> QED
      BY <2>2, <3>1, <3>2
  <2> QED
    BY <1>2, <1>3, <1>4, <1>5, <2>1, <2>2, <2>3
<1>6. CASE page.cursor = NoCursor
  <2>1. Current + PageSize >= Len(list)
    BY <1>1, <1>2, <1>6 DEF OffsetPage, NoCursor
  <2>2. stop = Len(list)
    BY <1>1, <1>2, <2>1 DEF Least
  <2>3. got = list
    BY <1>1, <1>3, <2>2, SubSeqFull
  <2> QED
    BY <1>2, <1>3, <1>4, <1>6, <2>3
<1> QED
  BY <1>5, <1>6

-------------------------------------------------------------------------------
(***************************************************************************)
(* Preservation.                                                           *)
(***************************************************************************)

\* One more page, whatever it says, keeps the invariant.
LEMMA ReceivePageKeeps ==
    ASSUME IndInv, NEW page \in PagesFor(Current), ReceivePage(page)
    PROVE  IndInv'
<1> DEFINE got == collected \o page.items
           reason == Reason(page, got)
<1>1. /\ ended = NotYet
      /\ UNCHANGED <<consumer, conduct, list, delivered>>
  BY DEF ReceivePage
<1>2. page.items \in Seq(Records) /\ page.cursor \in Nat
  BY <1>1, PageType DEF IndInv
<1>3. /\ got \in Seq(Records) /\ Len(got) \in Nat
      /\ Current \in Nat /\ Len(asked) \in Nat \ {0}
      /\ MaxItems \in Nat \ {0} /\ MaxPages \in Nat \ {0}
  BY <1>2, LimitsAssumption DEF IndInv, TypeOK, AskedTells, Current
<1>4. delivered = NotYet /\ delivered' = NotYet
  BY <1>1 DEF IndInv, DeliveryTells
<1>5. CASE Malformed(page, got)
  <2>1. ended' = Failed /\ UNCHANGED <<asked, followed, collected>>
    BY <1>5 DEF ReceivePage
  <2>2. TypeOK'
    BY <1>1, <2>1 DEF IndInv, TypeOK, Result
  <2> QED
    BY <1>1, <1>4, <2>1, <2>2
       DEF IndInv, AskedTells, CursorTells, EndTells, DeliveryTells, NotYet, Failed, Current
<1>6. CASE ~Malformed(page, got)
  <2>1. /\ collected' = got
        /\ IF reason = "none"
             THEN asked' = Append(asked, page.cursor) /\ UNCHANGED ended
             ELSE /\ ended' = Items(IF reason = "max_items_reached"
                                      THEN SubSeq(got, 1, MaxItems) ELSE got, reason)
                  /\ UNCHANGED asked
        /\ followed' = followed \cup
              (IF reason \in {"none", "max_pages_reached"} THEN {page.cursor} ELSE {})
    BY <1>6 DEF ReceivePage
  <2>2. /\ reason \in TruncatedReason \cup {"complete", "none"}
        /\ reason = "max_items_reached" => Limited /\ Len(got) >= MaxItems
        /\ reason # "max_items_reached" => (Limited => Len(got) < MaxItems)
        /\ reason = "complete" => page.cursor = NoCursor
        /\ reason = "duplicate_cursor_detected" =>
              page.cursor # NoCursor /\ page.cursor \in followed
        /\ reason \in {"none", "max_pages_reached"} =>
              page.cursor # NoCursor /\ page.cursor \notin followed
        /\ reason = "none" => Len(asked) # MaxPages
    BY <1>3 DEF Reason, TruncatedReason
  <2> HIDE DEF got, reason
  <2>3. CASE reason = "none"
    <3>1. /\ asked' = Append(asked, page.cursor) /\ ended' = NotYet /\ collected' = got
          /\ followed' = followed \cup {page.cursor}
      BY <1>1, <2>1, <2>3
    <3>2. /\ asked' \in Seq(Nat) /\ Len(asked') = Len(asked) + 1
          /\ \A i \in 1 .. Len(asked) : asked'[i] = asked[i]
          /\ asked'[Len(asked) + 1] = page.cursor
      BY <1>2, <3>1 DEF IndInv, TypeOK
    <3>3. TypeOK'
      BY <1>1, <1>2, <1>3, <2>2, <2>3, <3>1, <3>2 DEF IndInv, TypeOK, Result
    <3>4. AskedTells'
      <4>1. Len(asked') \in 1 .. MaxPages
        BY <1>3, <2>2, <2>3, <3>2 DEF IndInv, AskedTells
      <4>2. asked'[1] = NoCursor
        BY <1>3, <3>2 DEF IndInv, AskedTells
      <4>3. \A i \in 2 .. Len(asked') : asked'[i] \in followed'
        BY <1>3, <3>1, <3>2 DEF IndInv, AskedTells
      <4>4. \A i \in 1 .. Len(asked) : asked[i] # page.cursor
        BY <1>3, <2>2, <2>3 DEF IndInv, AskedTells
      <4>5. \A i, j \in 1 .. Len(asked') : asked'[i] = asked'[j] => i = j
        BY <1>3, <3>2, <4>4 DEF IndInv, AskedTells
      <4> QED
        BY <4>1, <4>2, <4>3, <4>5 DEF AskedTells
    <3>5. CursorTells'
      <4> SUFFICES ASSUME conduct = "offset" PROVE CursorTells'
        BY <1>1 DEF CursorTells
      <4>1. page = OffsetPage(Current)
        BY DEF PagesFor
      <4>2. /\ Current \in 0 .. Len(list)
            /\ page.cursor > Current /\ page.cursor <= Len(list)
            /\ got = SubSeq(list, 1, page.cursor)
        BY <1>1, <2>2, <2>3, <4>1, OffsetPageEnds DEF got
      <4>3. Current' = page.cursor
        BY <3>2 DEF Current
      <4>4. \A n \in followed' : n <= page.cursor
        <5>1. \A n \in followed : n \in Nat /\ n <= Current
          BY <1>1 DEF IndInv, TypeOK, CursorTells
        <5> QED
          BY <1>2, <1>3, <3>1, <4>2, <5>1
      <4> QED
        BY <1>1, <3>1, <4>2, <4>3, <4>4 DEF CursorTells
    <3>6. EndTells' /\ DeliveryTells'
      BY <1>1, <1>4, <3>1 DEF EndTells, DeliveryTells, NotYet
    <3> QED
      BY <3>3, <3>4, <3>5, <3>6 DEF IndInv
  <2>4. CASE reason # "none"
    <3> DEFINE items == IF reason = "max_items_reached" THEN SubSeq(got, 1, MaxItems) ELSE got
    <3>1. /\ ended' = Items(items, reason) /\ asked' = asked /\ collected' = got
          /\ followed' = followed \cup
                (IF reason = "max_pages_reached" THEN {page.cursor} ELSE {})
      BY <2>1, <2>4
    <3>2. /\ items \in Seq(Records)
          /\ Len(items) = (IF reason = "max_items_reached" THEN MaxItems ELSE Len(got))
      <4>1. CASE reason = "max_items_reached"
        <5>1. MaxItems \in 0 .. Len(got)
          BY <1>3, <2>2, <4>1
        <5> QED
          BY <1>3, <4>1, <5>1, Beginning
      <4> QED
        BY <1>3, <4>1
    <3> HIDE DEF items
    <3>3. ended'.kind = "items" /\ ended'.items = items /\ ended'.reason = reason
      BY <3>1 DEF Items
    <3>4. TypeOK'
      <4>1. ended' \in Result
        BY <2>2, <2>4, <3>1, <3>2 DEF Items, Result
      <4>2. followed' \subseteq Nat \ {NoCursor}
        BY <1>2, <2>2, <3>1 DEF IndInv, TypeOK
      <4> QED
        BY <1>1, <1>3, <3>1, <4>1, <4>2 DEF IndInv, TypeOK
    <3>5. AskedTells'
      BY <3>1 DEF IndInv, AskedTells
    <3>6. CursorTells' /\ DeliveryTells'
      BY <1>4, <3>3 DEF CursorTells, DeliveryTells, NotYet
    <3>7. EndTells'
      <4> SUFFICES ASSUME conduct = "offset" PROVE EndTells'
        BY <1>1 DEF EndTells
      <4>1. page = OffsetPage(Current)
        BY DEF PagesFor
      <4>2. /\ page.cursor # NoCursor => page.cursor \notin followed
            /\ page.cursor = NoCursor => got = list
            /\ Len(got) <= Len(list)
            /\ got = SubSeq(list, 1, Len(got))
        BY <1>1, <4>1, OffsetPageEnds DEF got
      <4>3. list \in Seq(Records) /\ Len(list) \in Nat
        BY LimitsAssumption DEF IndInv, TypeOK
      <4>4. Len(items) <= Len(list) /\ items = SubSeq(list, 1, Len(items))
        <5>1. CASE reason = "max_items_reached"
          <6>1. MaxItems \in 0 .. Len(got) /\ MaxItems \in 0 .. Len(list)
            BY <1>3, <2>2, <4>2, <4>3, <5>1
          <6>2. SubSeq(got, 1, MaxItems) = SubSeq(list, 1, MaxItems)
            <7>1. /\ Len(got) \in 0 .. Len(list)
                  /\ \A i \in 1 .. Len(got) : got[i] = list[i]
              <8>1. Len(got) \in 0 .. Len(list)
                BY <1>3, <4>2, <4>3
              <8>2. \A i \in 1 .. Len(got) : SubSeq(list, 1, Len(got))[i] = list[i]
                BY <4>3, <8>1, Beginning
              <8> QED
                BY <4>2, <8>1, <8>2
            <7>2. /\ SubSeq(got, 1, MaxItems) \in Seq(Records)
                  /\ SubSeq(list, 1, MaxItems) \in Seq(Records)
                  /\ Len(SubSeq(got, 1, MaxItems)) = MaxItems
                  /\ Len(SubSeq(list, 1, MaxItems)) = MaxItems
                  /\ \A i \in 1 .. MaxItems : SubSeq(got, 1, MaxItems)[i] = got[i]
                  /\ \A i \in 1 .. MaxItems : SubSeq(list, 1, MaxItems)[i] = list[i]
              BY <1>3, <4>3, <6>1, Beginning
            <7>3. \A i \in 1 .. MaxItems : got[i] = list[i]
              BY <1>3, <6>1, <7>1
            <7> QED
              BY <7>2, <7>3, SeqEqual
          <6> QED
            BY <3>2, <5>1, <6>1, <6>2 DEF items
        <5>2. CASE reason # "max_items_reached"
          BY <3>2, <4>2, <5>2 DEF items
        <5> QED
          BY <5>1, <5>2
      <4>5. Limited => Len(items) <= MaxItems
        BY <1>3, <2>2, <3>2
      <4>6. reason # "duplicate_cursor_detected"
        BY <2>2, <4>2
      <4>7. reason = "complete" => items = list
        BY <2>2, <4>2 DEF items
      <4> QED
        BY <1>1, <3>3, <4>4, <4>5, <4>6, <4>7 DEF EndTells, Limited
    <3> QED
      BY <3>4, <3>5, <3>6, <3>7 DEF IndInv
  <2> QED
    BY <2>3, <2>4
<1> QED
  BY <1>5, <1>6

LEMMA EveryStepKeeps == IndInv /\ [Next]_vars => IndInv'
<1> SUFFICES ASSUME IndInv, [Next]_vars PROVE IndInv'
  OBVIOUS
<1>1. CASE Request
  BY <1>1, ReceivePageKeeps DEF Request, Current
<1>2. CASE PageFails
  <2>1. /\ ended = NotYet /\ ended' = Failed
        /\ UNCHANGED <<consumer, conduct, list, asked, followed, collected, delivered>>
    BY <1>2 DEF PageFails
  <2>2. TypeOK'
    BY <2>1 DEF IndInv, TypeOK, Result
  <2> QED
    BY <2>1, <2>2
       DEF IndInv, AskedTells, CursorTells, EndTells, DeliveryTells, NotYet, Failed, Current
<1>3. CASE Deliver
  <2>1. /\ ended # NotYet /\ delivered' = Delivery(ended)
        /\ UNCHANGED <<consumer, conduct, list, asked, followed, collected, ended>>
    BY <1>3 DEF Deliver
  <2>2. Delivery(ended) \in {Failed, ended}
    BY DEF Delivery
  <2>3. TypeOK'
    BY <2>1, <2>2 DEF IndInv, TypeOK, Result
  <2>4. DeliveryTells'
    BY <2>1 DEF DeliveryTells, Delivery
  <2> QED
    BY <2>1, <2>3, <2>4
       DEF IndInv, AskedTells, CursorTells, EndTells, Current, Limited
<1>4. CASE UNCHANGED vars
  <2>1. UNCHANGED <<consumer, conduct, list, asked, followed, collected, ended, delivered>>
    BY <1>4 DEF vars
  <2> QED
    BY <2>1 DEF IndInv, TypeOK, AskedTells, CursorTells, EndTells, DeliveryTells,
                Current, Limited, Delivery
<1> QED
  BY <1>1, <1>2, <1>3, <1>4 DEF Next, Done

-------------------------------------------------------------------------------
\* The inductive invariant: what the cursors, the collection and its end tell of
\* each other (base.py:319-390).
THEOREM Invariance == Spec => []IndInv
<1>1. Init => IndInv
  BY InitiallyInv
<1>2. IndInv /\ [Next]_vars => IndInv'
  BY EveryStepKeeps
<1> QED
  BY <1>1, <1>2, PTL DEF Spec

\* What get_paginated and its consumers hold is always of its type, and the
\* cursors followed are never the absent one (base.py:308-390).
THEOREM TypeCorrect == Spec => []TypeOK
<1>1. IndInv => TypeOK
  BY DEF IndInv
<1> QED
  BY <1>1, Invariance, PTL

\* No page is asked for twice, and never more than MaxPages are, whatever
\* cursors the provider answers (base.py:319-390).
THEOREM PagesAreNotRepeated == Spec => []NoPageTwice
<1>1. IndInv => NoPageTwice
  <2> SUFFICES ASSUME IndInv PROVE NoPageTwice
    OBVIOUS
  <2>1. DOMAIN asked = 1 .. Len(asked) /\ MaxPages \in Nat
    BY LimitsAssumption DEF IndInv, TypeOK
  <2> QED
    BY <2>1 DEF IndInv, AskedTells, NoPageTwice
<1> QED
  BY <1>1, Invariance, PTL

\* Nothing partial passes for whole: what a caller gets as the complete list is
\* the offset vendor's list (base.py:321-390, threat_intel.py:161-181).
THEOREM CompleteIsAll == Spec => []CompleteIsWhole
<1>1. IndInv => CompleteIsWhole
  <2> SUFFICES ASSUME IndInv, conduct = "offset", delivered.kind = "items"
               PROVE  /\ consumer = "list_indicators" => delivered.reason = "complete"
                      /\ delivered.reason = "complete" => delivered.items = list
    BY DEF CompleteIsWhole
  <2>1. delivered = Delivery(ended)
    BY DEF IndInv, DeliveryTells, NotYet
  <2>2. /\ delivered = ended
        /\ consumer = "list_indicators" => ended.reason = "complete"
    BY <2>1 DEF Delivery, Failed
  <2> QED
    BY <2>2 DEF IndInv, EndTells
<1> QED
  BY <1>1, Invariance, PTL

\* A bounded list is a beginning of the offset vendor's list, within its limit
\* and valid throughout, and the vendor is never blamed for repeating a cursor
\* (base.py:340-343, asset_intel.py:288-299).
THEOREM BoundedIsABeginning == Spec => []BoundedIsPrefix
<1>1. IndInv => BoundedIsPrefix
  <2> SUFFICES ASSUME IndInv, conduct = "offset", delivered.kind = "items"
               PROVE  BoundedIsPrefix
    BY DEF BoundedIsPrefix
  <2>1. delivered = Delivery(ended)
    BY DEF IndInv, DeliveryTells, NotYet
  <2>2. /\ delivered = ended
        /\ \A i \in DOMAIN ended.items : ended.items[i] \in Valid
    BY <2>1 DEF Delivery, Failed
  <2> QED
    BY <2>2 DEF IndInv, EndTells, BoundedIsPrefix
<1> QED
  BY <1>1, Invariance, PTL

-------------------------------------------------------------------------------
\* How many steps a collection may still take.
ToGo == IF delivered # NotYet THEN 0
        ELSE IF ended # NotYet THEN 1
        ELSE 2 + MaxPages - Len(asked)

ComesNearer == ToGo \in Nat /\ ToGo' \in 0 .. ToGo - 1

\* Every step of a collection brings it nearer to its end, whatever cursors the
\* provider answers: it cannot be kept going, and ends within MaxPages + 1 steps
\* (base.py:319-390).
THEOREM EveryStepNearsTheEnd == Spec => [][ComesNearer]_vars
<1>1. IndInv /\ IndInv' /\ [Next]_vars => [ComesNearer]_vars
  <2> SUFFICES ASSUME IndInv, IndInv', Next, ~(UNCHANGED vars)
               PROVE  ToGo \in Nat /\ ToGo' \in 0 .. ToGo - 1
    BY DEF ComesNearer
  <2>1. /\ Len(asked) \in 1 .. MaxPages /\ Len(asked') \in 1 .. MaxPages
        /\ MaxPages \in Nat
    BY LimitsAssumption DEF IndInv, AskedTells
  <2>2. ToGo \in Nat /\ ToGo' \in Nat
    BY <2>1 DEF ToGo
  <2>3. ASSUME ended = NotYet
        PROVE  delivered = NotYet /\ ToGo = 2 + MaxPages - Len(asked)
    BY <2>3 DEF IndInv, DeliveryTells, ToGo
  <2>4. ASSUME ended = NotYet, ended' # NotYet
        PROVE  ToGo' < ToGo
    BY <2>1, <2>3, <2>4 DEF ToGo
  <2>5. CASE Request
    <3>1. PICK page \in PagesFor(Current) : ReceivePage(page)
      BY <2>5 DEF Request, Current
    <3>2. ended = NotYet /\ UNCHANGED delivered
      BY <3>1 DEF ReceivePage
    <3>3. CASE ended' # NotYet
      BY <2>2, <2>4, <3>2, <3>3
    <3>4. CASE ended' = NotYet
      <4>1. asked' = Append(asked, page.cursor)
        BY <3>1, <3>4 DEF ReceivePage, NotYet, Failed, Items
      <4>2. Len(asked') = Len(asked) + 1
        BY <3>1, <4>1, AppendProperties DEF IndInv, TypeOK
      <4> QED
        BY <2>1, <2>3, <3>2, <3>4, <4>2 DEF ToGo
    <3> QED
      BY <2>2, <3>3, <3>4
  <2>6. CASE PageFails
    BY <2>2, <2>4, <2>6 DEF PageFails, NotYet, Failed
  <2>7. CASE Deliver
    <3>1. delivered = NotYet /\ ended # NotYet
      BY <2>7 DEF Deliver
    <3>2. delivered' # NotYet
      BY <2>7 DEF Deliver, Delivery, NotYet, Failed
    <3> QED
      BY <3>1, <3>2 DEF ToGo
  <2> QED
    BY <2>2, <2>5, <2>6, <2>7 DEF Next, Done
<1> QED
  BY <1>1, Invariance, PTL DEF Spec
===============================================================================

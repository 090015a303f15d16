------------------------ MODULE OfflineReview_proofs ------------------------
(***************************************************************************)
(* Proofs about the offline reviews, for every list of cards and every     *)
(* number of pages, ratings, requests and failures.                        *)
(***************************************************************************)
EXTENDS OfflineReview, WellFoundedInduction, SequenceTheorems, TLAPS

-----------------------------------------------------------------------------
(* Who has a review in hand.                                                *)

\* The coroutine of item i has claimed its current review and not finished with it.
Hand(q, i) == Working(q, i) /\ request[q].at[i] # "claim"

\* TypeOK, with what is known of the reviews in a batch and of requests to come.
Batches ==
    /\ \A q \in Requests : /\ request[q].todo \cup request[q].errors \subseteq 1 .. rated
                           /\ q > requests => request[q] = NoRequest
    /\ \A q \in Requests, i \in Items : request[q].seen[i] \in Seq(1 .. rated)
    /\ \A f \in Flushes : /\ flush[f].batch \subseteq 1 .. rated
                          /\ flush[f].at = "posting" => flush[f].request \in 1 .. requests

\* Only the learner's own requests get to write, the others give back.
OwnWrites ==
    \A q \in Requests, i \in Items :
        /\ request[q].at[i] = "write" => request[q].own
        /\ request[q].at[i] = "release" => ~request[q].own

\* A review in hand is in the log, in one hand, and nowhere else yet.
HeldOnce ==
    \A q \in Requests, i \in Items :
        Hand(q, i) =>
            /\ Current(q, i) \in claimed
            /\ Current(q, i) \notin interrupted \cup overwritten \cup Counted(i)
            /\ \A p \in Requests : Hand(p, i) /\ Current(p, i) = Current(q, i) => p = q
            /\ \A p \in Requests : \A n \in DOMAIN request[p].seen[i] : request[p].seen[i][n] # Current(q, i)

\* A history that the row holds or a coroutine has read: claimed reviews of the item, each once.
Once(list) == \A m, n \in DOMAIN list : list[m] = list[n] => m = n
HistoryOf(i, list) == Once(list) /\ \A n \in DOMAIN list : list[n] \in claimed /\ item[list[n]] = i
Histories ==
    \A i \in Items : /\ HistoryOf(i, stability[i])
                     /\ \A q \in Requests : HistoryOf(i, request[q].seen[i])

CountInv == TypeOK /\ Batches /\ OwnWrites /\ HeldOnce /\ Histories

-----------------------------------------------------------------------------
(* What becomes of a claim, and of a batch.                                 *)

\* Request q has review r in hand.
HandedTo(q, r) == Hand(q, item[r]) /\ Current(q, item[r]) = r

\* What a claim stands for, and what lets a review leave the queue.
Kept(r) ==
    \/ r \in Counted(item[r]) \cup interrupted \cup overwritten
    \/ \E q \in Requests : HandedTo(q, r)
Safe(r) ==
    \/ r \in Counted(item[r]) \cup interrupted \cup misled \cup overwritten
    \/ \E q \in Requests : request[q].own /\ HandedTo(q, r)

ClaimsKept == \A r \in claimed : Kept(r)

\* A flush waits for a request of its own, whose work and errors make up the batch.
Posted ==
    /\ \A f, g \in Flushes :
         flush[f].at = "posting" /\ flush[g].at = "posting" /\ flush[f].request = flush[g].request => f = g
    /\ \A f \in Flushes : \A r \in flush[f].batch :
         /\ flush[f].at = "posting" => Safe(r) \/ r \in request[flush[f].request].todo \cup request[flush[f].request].errors
         /\ flush[f].at = "answered" => Safe(r) \/ r \in flush[f].failed

QueueInv == ClaimsKept /\ Posted /\ \A r \in (1 .. rated) \ queue : Safe(r)

-----------------------------------------------------------------------------
(* The order, for an item that one request at a time works on.              *)

\* The review is in the log for good.
Settled(r) == r \in claimed /\ \A q \in Requests : HandedTo(q, r) => request[q].own

\* At most one request works on the item.
Alone(i) == \A p, q \in Requests : Working(p, i) /\ Working(q, i) => p = q

NoneMisled(i) == \A r \in misled : item[r] # i

\* What is older than a review that counts is settled, and so is what is older
\* than one that the learner's request has to do and is not to do itself.
OlderSettled(i) ==
    \A r \in 1 .. rated : item[r] = i =>
        /\ \A n \in DOMAIN stability[i] : r < stability[i][n] => Settled(r)
        /\ \A q \in Requests : request[q].own /\ Working(q, i) /\ r \notin TodoOf(q, i) =>
             \A s \in TodoOf(q, i) : r < s => Settled(r)

\* What is in hand is newer than all that counts, and that is what was read.
NewestInHand(i) ==
    \A q \in Requests :
        request[q].own /\ Hand(q, i) =>
            /\ \A n \in DOMAIN stability[i] : stability[i][n] < Current(q, i)
            /\ request[q].at[i] = "write" => request[q].seen[i] = stability[i]

Sorted(i) == \A m, n \in DOMAIN stability[i] : m < n => stability[i][m] < stability[i][n]

OrderOf(i) == Alone(i) /\ NoneMisled(i) /\ OlderSettled(i) /\ NewestInHand(i) /\ Sorted(i)
OrderInv == \A i \in Items \ mixed : OrderOf(i)

-----------------------------------------------------------------------------
(* Operators.                                                               *)

\* What the proofs keep taking from CountInv.
LEMMA CountBasics ==
    ASSUME CountInv
    PROVE  TypeOK /\ Batches /\ claimed \subseteq 1 .. rated /\ rated \in Nat
<1>1. TypeOK /\ Batches
  BY DEF CountInv
<1>2. claimed \subseteq 1 .. rated /\ rated \in 0 .. MaxReviews
  BY <1>1 DEF TypeOK
<1> QED
  BY <1>1, <1>2, OfflineReviewAssumption

\* A set of numbers that is not empty has its minimum.
LEMMA MinIn ==
    ASSUME NEW S \in SUBSET Nat, S # {}
    PROVE  Min(S) \in S /\ \A s \in S : Min(S) <= s
<1>1. PICK x \in S : \A y \in S : ~ (<<y, x>> \in OpToRel(<, Nat))
  BY WFMin, NatLessThanWellFounded
<1>2. \A y \in S : x <= y
  <2> SUFFICES ASSUME NEW y \in S PROVE x <= y
    OBVIOUS
  <2>1. x \in Nat /\ y \in Nat
    OBVIOUS
  <2>2. (y < x) => <<y, x>> \in OpToRel(<, Nat)
    BY <2>1, Zenon DEF OpToRel
  <2>3. ~ (y < x)
    BY <1>1, <2>2, Zenon
  <2> QED
    BY <2>1, <2>3
<1> QED
  BY <1>2 DEF Min

\* The current review of a coroutine is the oldest that it has to do.
LEMMA CurrentIn ==
    ASSUME TypeOK, Batches, NEW q \in Requests, NEW i \in Items, TodoOf(q, i) # {}
    PROVE  /\ Current(q, i) \in TodoOf(q, i)
           /\ Current(q, i) \in 1 .. rated /\ item[Current(q, i)] = i
           /\ Current(q, i) \in request[q].todo
           /\ \A s \in TodoOf(q, i) : Current(q, i) <= s
<1>1. TodoOf(q, i) \subseteq Nat
  BY DEF Batches, TodoOf, TypeOK
<1>2. Current(q, i) \in TodoOf(q, i) /\ \A s \in TodoOf(q, i) : Current(q, i) <= s
  BY <1>1, MinIn DEF Current
<1> QED
  BY <1>2 DEF TodoOf, Batches

\* One more element on a sequence that is given as a function.
Row(n, S) == [1 .. n -> S]
LEMMA OneMore ==
    ASSUME NEW S, NEW n \in Nat, NEW f \in Row(n, S), NEW x \in S
    PROVE  /\ Append(f, x) \in Row(n + 1, S)
           /\ \A k \in 1 .. n : Append(f, x)[k] = f[k]
<1>1. f \in Seq(S) /\ Len(f) = n
  BY SeqDef, LenProperties DEF Row
<1>2. Append(f, x) \in Seq(S) /\ \A k \in 1 .. n : Append(f, x)[k] = f[k]
  BY <1>1, AppendProperties
<1>3. Append(f, x) \in [1 .. Len(Append(f, x)) -> S] /\ Len(Append(f, x)) = n + 1
  BY <1>1, <1>2, AppendProperties, LenProperties
<1> QED
  BY <1>2, <1>3 DEF Row

\* A list of cards is a sequence of items.
LEMMA ListsAreSeqs ==
    ASSUME NEW list \in Lists
    PROVE  /\ list \in Seq(Items) /\ Len(list) \in Nat
           /\ \A n \in 1 .. Len(list) : list[n] \in Items
<1>1. Len(Cards) \in Nat
  BY OfflineReviewAssumption, LenProperties
<1>2. PICK n \in Nat : list \in [1 .. n -> Items]
  BY <1>1 DEF Lists
<1>3. list \in Seq(Items)
  BY <1>2, SeqDef
<1> QED
  BY <1>3, LenProperties, ElementOfSeq

LEMMA CardsAndNone == Cards \in Lists /\ <<>> \in Lists
<1>1. Cards \in [1 .. Len(Cards) -> Items] /\ Len(Cards) \in Nat /\ DOMAIN Cards = 1 .. Len(Cards)
  BY OfflineReviewAssumption, LenProperties DEF Items
<1>2. Cards \in Lists
  <2>1. Cards \in UNION {[1 .. n -> Items] : n \in 0 .. Len(Cards)}
    BY <1>1
  <2> QED
    BY <1>1, <2>1 DEF Lists
<1>3. <<>> \in Lists
  <2>1. <<>> \in [1 .. 0 -> Items]
    OBVIOUS
  <2>2. <<>> \in UNION {[1 .. n -> Items] : n \in 0 .. Len(Cards)}
    BY <1>1, <2>1
  <2> QED
    BY <2>2 DEF Lists
<1> QED
  BY <1>2, <1>3

-----------------------------------------------------------------------------
(* One step of one coroutine.                                               *)

agentQuiet == <<clientVars, pageVars, sync, flush, requests, mixed>>

\* A step of the coroutine of item i in request q, which comes to pc with list
\* read; gone and failed: the reviews it takes off the batch, and reports.
WorkStep(q, i, gone, failed, pc, list) ==
    /\ Working(q, i) /\ q <= requests
    /\ request' \in [Requests -> RequestStates]
    /\ \A p \in Requests \ {q} : request'[p] = request[p]
    /\ request'[q].own = request[q].own
    /\ request'[q].todo = request[q].todo \ gone
    /\ request'[q].errors = request[q].errors \cup failed
    /\ request'[q].at[i] = pc /\ request'[q].seen[i] = list
    /\ \A j \in Items \ {i} : request'[q].at[j] = request[q].at[j] /\ request'[q].seen[j] = request[q].seen[j]
    /\ UNCHANGED agentQuiet
    /\ faults' \in 0 .. MaxFaults

\* Only a request that was posted has work.
LEMMA WorkingPosted ==
    ASSUME TypeOK, Batches, NEW q \in Requests, NEW i \in Items, Working(q, i)
    PROVE  q <= requests /\ request[q] \in RequestStates /\ TodoOf(q, i) # {}
<1>1. requests \in Nat /\ q \in Nat
  BY DEF TypeOK, Requests
<1>2. q > requests => request[q].todo = {}
  BY DEF Batches, NoRequest
<1> QED
  BY <1>1, <1>2 DEF TypeOK, Working, TodoOf

LEMMA Edit ==
    ASSUME TypeOK, Batches, NEW q \in Requests, NEW i \in Items, Working(q, i),
           NEW gone, NEW failed \in SUBSET Reviews, NEW pc \in Coroutines, NEW list \in Seq(Reviews),
           UNCHANGED agentQuiet, faults' \in 0 .. MaxFaults,
           NEW rec \in RequestStates, request' = [request EXCEPT ![q] = rec],
           rec.own = request[q].own, rec.todo = request[q].todo \ gone,
           rec.at = [request[q].at EXCEPT ![i] = pc], rec.seen = [request[q].seen EXCEPT ![i] = list],
           rec.errors = request[q].errors \cup failed
    PROVE  WorkStep(q, i, gone, failed, pc, list)
<1>1. q <= requests /\ request[q] \in RequestStates /\ request \in [Requests -> RequestStates]
  BY WorkingPosted DEF TypeOK
<1>2. request[q].at \in [Items -> Coroutines] /\ request[q].seen \in [Items -> Seq(Reviews)]
  BY <1>1 DEF RequestStates
<1>4. /\ request' \in [Requests -> RequestStates] /\ request'[q] = rec
      /\ \A p \in Requests \ {q} : request'[p] = request[p]
  BY <1>1
<1>5. /\ rec.at[i] = pc /\ rec.seen[i] = list
      /\ \A j \in Items \ {i} : rec.at[j] = request[q].at[j] /\ rec.seen[j] = request[q].seen[j]
  BY <1>2
<1> QED
  BY <1>1, <1>4, <1>5 DEF WorkStep

LEMMA ClaimStep ==
    ASSUME TypeOK, Batches, NEW q \in Requests, NEW i \in Items, Claim(q, i)
    PROVE  /\ request[q].at[i] = "claim"
           /\ Current(q, i) \in claimed => WorkStep(q, i, {Current(q, i)}, {}, "claim", request[q].seen[i])
           /\ Current(q, i) \notin claimed => WorkStep(q, i, {}, {}, "read", request[q].seen[i])
<1>1. Working(q, i) /\ request[q].at[i] = "claim" /\ UNCHANGED agentQuiet /\ faults' \in 0 .. MaxFaults
  BY DEF Claim, agentFrame, agentQuiet, TypeOK
<1>2. /\ request \in [Requests -> RequestStates] /\ request[q] \in RequestStates
      /\ request[q].at \in [Items -> Coroutines] /\ request[q].seen \in [Items -> Seq(Reviews)]
      /\ request[q].seen[i] \in Seq(Reviews)
  BY DEF TypeOK, RequestStates
<1>3. CASE Current(q, i) \in claimed
  <2> DEFINE rec == [request[q] EXCEPT !.todo = @ \ {Current(q, i)}]
  <2>1. request' = [request EXCEPT ![q] = rec]
    BY <1>3 DEF Claim
  <2>2. rec \in RequestStates
    BY <1>2 DEF RequestStates
  <2>3. /\ rec.own = request[q].own /\ rec.todo = request[q].todo \ {Current(q, i)}
        /\ rec.at = [request[q].at EXCEPT ![i] = "claim"]
        /\ rec.seen = [request[q].seen EXCEPT ![i] = request[q].seen[i]]
        /\ rec.errors = request[q].errors \cup {}
    BY <1>1, <1>2 DEF RequestStates
  <2> QED
    BY <2>1, <2>2, <2>3, <1>1, <1>2, <1>3, Edit DEF Coroutines
<1>4. CASE Current(q, i) \notin claimed
  <2> DEFINE rec == [request[q] EXCEPT !.at[i] = "read"]
  <2>1. request' = [request EXCEPT ![q] = rec]
    BY <1>4 DEF Claim
  <2>2. rec \in RequestStates
    BY <1>2 DEF RequestStates, Coroutines
  <2>3. /\ rec.own = request[q].own /\ rec.todo = request[q].todo \ {}
        /\ rec.at = [request[q].at EXCEPT ![i] = "read"]
        /\ rec.seen = [request[q].seen EXCEPT ![i] = request[q].seen[i]]
        /\ rec.errors = request[q].errors \cup {}
    BY <1>1, <1>2 DEF RequestStates
  <2> QED
    BY <2>1, <2>2, <2>3, <1>1, <1>2, <1>4, Edit DEF Coroutines
<1> QED
  BY <1>1, <1>3, <1>4

LEMMA RequestReads ==
    ASSUME TypeOK, NEW q \in Requests, NEW i \in Items
    PROVE  /\ request \in [Requests -> RequestStates] /\ request[q] \in RequestStates
           /\ request[q].at \in [Items -> Coroutines] /\ request[q].seen \in [Items -> Seq(Reviews)]
           /\ request[q].seen[i] \in Seq(Reviews) /\ request[q].own \in BOOLEAN
BY DEF TypeOK, RequestStates

LEMMA StabilityReads ==
    ASSUME TypeOK, NEW i \in Items
    PROVE  /\ stability \in [Items -> Seq(1 .. rated)] /\ stability[i] \in Seq(1 .. rated)
           /\ stability[i] \in Seq(Reviews) /\ 1 .. rated \subseteq Reviews
<1>1. stability[i] \in Seq(1 .. rated) /\ 1 .. rated \subseteq Reviews
  BY OfflineReviewAssumption DEF TypeOK, Reviews
<1> QED
  BY <1>1, SeqMonotonic DEF TypeOK

LEMMA ReadStep ==
    ASSUME TypeOK, Batches, NEW q \in Requests, NEW i \in Items, ReadStability(q, i)
    PROVE  /\ request[q].at[i] = "read" /\ UNCHANGED <<claimed, stability, history>>
           /\ request[q].own => WorkStep(q, i, {}, {}, "write", stability[i])
           /\ ~request[q].own => WorkStep(q, i, {}, {}, "release", request[q].seen[i])
<1>1. Working(q, i) /\ request[q].at[i] = "read" /\ UNCHANGED <<claimed, stability, history>> /\ UNCHANGED agentQuiet /\ faults' \in 0 .. MaxFaults
  BY OfflineReviewAssumption DEF ReadStability, agentFrame, clientVars, pageVars, history, agentQuiet, TypeOK, Fault
<1>2. /\ request[q] \in RequestStates /\ request[q].at \in [Items -> Coroutines]
      /\ request[q].seen \in [Items -> Seq(Reviews)] /\ request[q].seen[i] \in Seq(Reviews)
  BY RequestReads
<1>3. CASE request[q].own
  <2>0. stability[i] \in Seq(Reviews)
    BY StabilityReads
  <2> DEFINE rec == [request[q] EXCEPT !.at[i] = "write", !.seen[i] = stability[i]]
  <2>1. request' = [request EXCEPT ![q] = rec]
    BY <1>3 DEF ReadStability
  <2>2. rec \in RequestStates
    BY <1>2, <2>0 DEF RequestStates, Coroutines
  <2>3. /\ rec.own = request[q].own /\ rec.todo = request[q].todo \ {}
       /\ rec.at = [request[q].at EXCEPT ![i] = "write"]
       /\ rec.seen = [request[q].seen EXCEPT ![i] = stability[i]]
       /\ rec.errors = request[q].errors \cup {}
    BY <1>1, <1>2, <2>0 DEF RequestStates
  <2> QED
    BY <2>1, <2>2, <2>3, <1>1, <1>2, <2>0, <1>3, Edit DEF Coroutines
<1>4. CASE ~request[q].own
  <2> DEFINE rec == [request[q] EXCEPT !.at[i] = "release"]
  <2>1. request' = [request EXCEPT ![q] = rec]
    BY <1>4 DEF ReadStability
  <2>2. rec \in RequestStates
    BY <1>2 DEF RequestStates, Coroutines
  <2>3. /\ rec.own = request[q].own /\ rec.todo = request[q].todo \ {}
       /\ rec.at = [request[q].at EXCEPT ![i] = "release"]
       /\ rec.seen = [request[q].seen EXCEPT ![i] = request[q].seen[i]]
       /\ rec.errors = request[q].errors \cup {}
    BY <1>1, <1>2 DEF RequestStates
  <2> QED
    BY <2>1, <2>2, <2>3, <1>1, <1>2, <1>4, Edit DEF Coroutines
<1> QED
  BY <1>1, <1>3, <1>4

LEMMA WriteStep ==
    ASSUME TypeOK, Batches, NEW q \in Requests, NEW i \in Items, WriteStability(q, i)
    PROVE  /\ request[q].at[i] = "write" /\ UNCHANGED <<claimed, interrupted, misled>>
           /\ stability' = [stability EXCEPT ![i] = Append(request[q].seen[i], Current(q, i))]
           /\ overwritten' = overwritten \cup (Counted(i) \ {request[q].seen[i][n] : n \in DOMAIN request[q].seen[i]})
           /\ WorkStep(q, i, {Current(q, i)}, {}, "claim", <<>>)
<1>1. Working(q, i) /\ request[q].at[i] = "write" /\ UNCHANGED agentQuiet /\ faults' \in 0 .. MaxFaults
  BY OfflineReviewAssumption DEF WriteStability, agentFrame, clientVars, pageVars, history, agentQuiet, TypeOK, Fault
<1>2. /\ request[q] \in RequestStates /\ request[q].at \in [Items -> Coroutines]
      /\ request[q].seen \in [Items -> Seq(Reviews)] /\ request[q].seen[i] \in Seq(Reviews)
  BY RequestReads
<1>3. /\ UNCHANGED <<claimed, interrupted, misled>>
      /\ stability' = [stability EXCEPT ![i] = Append(request[q].seen[i], Current(q, i))]
      /\ overwritten' = overwritten \cup (Counted(i) \ {request[q].seen[i][n] : n \in DOMAIN request[q].seen[i]})
  BY DEF WriteStability, Counted
<1>4. WorkStep(q, i, {Current(q, i)}, {}, "claim", <<>>)
  <2>0. <<>> \in Seq(Reviews)
    BY EmptySeq
  <2> DEFINE rec == [request[q] EXCEPT !.todo = @ \ {Current(q, i)}, !.at[i] = "claim", !.seen[i] = <<>>]
  <2>1. request' = [request EXCEPT ![q] = rec]
    BY DEF WriteStability
  <2>2. rec \in RequestStates
    BY <1>2, <2>0 DEF RequestStates, Coroutines
  <2>3. /\ rec.own = request[q].own /\ rec.todo = request[q].todo \ {Current(q, i)}
       /\ rec.at = [request[q].at EXCEPT ![i] = "claim"]
       /\ rec.seen = [request[q].seen EXCEPT ![i] = <<>>]
       /\ rec.errors = request[q].errors \cup {}
    BY <1>1, <1>2, <2>0 DEF RequestStates
  <2> QED
    BY <2>1, <2>2, <2>3, <1>1, <1>2, <2>0, Edit DEF Coroutines
<1> QED
  BY <1>1, <1>3, <1>4

LEMMA ReleaseStep ==
    ASSUME TypeOK, Batches, NEW q \in Requests, NEW i \in Items, Release(q, i)
    PROVE  /\ request[q].at[i] = "release" /\ UNCHANGED <<stability, history>>
           /\ claimed' = claimed \ {Current(q, i)}
           /\ WorkStep(q, i, {Current(q, i)}, {Current(q, i)}, "claim", request[q].seen[i])
<1>1. Working(q, i) /\ request[q].at[i] = "release" /\ UNCHANGED <<stability, history>> /\ claimed' = claimed \ {Current(q, i)} /\ UNCHANGED agentQuiet /\ faults' \in 0 .. MaxFaults
  BY OfflineReviewAssumption DEF Release, agentFrame, clientVars, pageVars, history, agentQuiet, TypeOK, Fault
<1>2. /\ request[q] \in RequestStates /\ request[q].at \in [Items -> Coroutines]
      /\ request[q].seen \in [Items -> Seq(Reviews)] /\ request[q].seen[i] \in Seq(Reviews)
  BY RequestReads
<1>3. Current(q, i) \in Reviews
  BY <1>1, CurrentIn, StabilityReads DEF Working
<1>4. WorkStep(q, i, {Current(q, i)}, {Current(q, i)}, "claim", request[q].seen[i])
  <2> DEFINE rec == [request[q] EXCEPT !.todo = @ \ {Current(q, i)}, !.at[i] = "claim", !.errors = @ \cup {Current(q, i)}]
  <2>1. request' = [request EXCEPT ![q] = rec]
    BY DEF Release
  <2>2. rec \in RequestStates
    BY <1>2, <1>3 DEF RequestStates, Coroutines
  <2>3. /\ rec.own = request[q].own /\ rec.todo = request[q].todo \ {Current(q, i)}
       /\ rec.at = [request[q].at EXCEPT ![i] = "claim"]
       /\ rec.seen = [request[q].seen EXCEPT ![i] = request[q].seen[i]]
       /\ rec.errors = request[q].errors \cup {Current(q, i)}
    BY <1>1, <1>2, <1>3 DEF RequestStates
  <2> QED
    BY <2>1, <2>2, <2>3, <1>1, <1>2, <1>3, Edit DEF Coroutines
<1> QED
  BY <1>1, <1>4

LEMMA FailStep ==
    ASSUME TypeOK, Batches, NEW q \in Requests, NEW i \in Items, StatementFails(q, i)
    PROVE  /\ UNCHANGED <<claimed, stability, misled, overwritten>>
           /\ interrupted' = IF request[q].at[i] = "claim" THEN interrupted ELSE interrupted \cup {Current(q, i)}
           /\ WorkStep(q, i, {}, {}, "dead", request[q].seen[i])
<1>1. Working(q, i) /\ UNCHANGED agentQuiet /\ faults' \in 0 .. MaxFaults
  BY OfflineReviewAssumption DEF StatementFails, agentFrame, clientVars, pageVars, history, agentQuiet, TypeOK, Fault
<1>2. /\ request[q] \in RequestStates /\ request[q].at \in [Items -> Coroutines]
      /\ request[q].seen \in [Items -> Seq(Reviews)] /\ request[q].seen[i] \in Seq(Reviews)
  BY RequestReads
<1>3. /\ UNCHANGED <<claimed, stability, misled, overwritten>>
      /\ interrupted' = IF request[q].at[i] = "claim" THEN interrupted ELSE interrupted \cup {Current(q, i)}
  BY DEF StatementFails
<1>4. WorkStep(q, i, {}, {}, "dead", request[q].seen[i])
  <2> DEFINE rec == [request[q] EXCEPT !.at[i] = "dead"]
  <2>1. request' = [request EXCEPT ![q] = rec]
    BY DEF StatementFails
  <2>2. rec \in RequestStates
    BY <1>2 DEF RequestStates, Coroutines
  <2>3. /\ rec.own = request[q].own /\ rec.todo = request[q].todo \ {}
       /\ rec.at = [request[q].at EXCEPT ![i] = "dead"]
       /\ rec.seen = [request[q].seen EXCEPT ![i] = request[q].seen[i]]
       /\ rec.errors = request[q].errors \cup {}
    BY <1>1, <1>2 DEF RequestStates
  <2> QED
    BY <2>1, <2>2, <2>3, <1>1, <1>2, Edit DEF Coroutines
<1> QED
  BY <1>3, <1>4

\* The other coroutines are where they were.
LEMMA OtherWork ==
    ASSUME TypeOK, Batches, NEW q \in Requests, NEW i \in Items, NEW gone \in SUBSET {Current(q, i)},
           NEW failed, NEW pc, NEW list, WorkStep(q, i, gone, failed, pc, list),
           NEW p \in Requests, NEW j \in Items, p # q \/ j # i
    PROVE  /\ TodoOf(p, j)' = TodoOf(p, j) /\ Current(p, j)' = Current(p, j)
           /\ Working(p, j)' <=> Working(p, j)
           /\ Hand(p, j)' <=> Hand(p, j)
           /\ request'[p].own = request[p].own
           /\ request'[p].at[j] = request[p].at[j] /\ request'[p].seen[j] = request[p].seen[j]
<1>1. Working(q, i) /\ item' = item
  BY DEF WorkStep, agentQuiet, clientVars
<1>2. item[Current(q, i)] = i
  BY <1>1, CurrentIn DEF Working
<1>3. TodoOf(p, j)' = TodoOf(p, j)
  <2>1. CASE p # q
    BY <2>1, <1>1 DEF WorkStep, TodoOf
  <2>2. CASE p = q /\ j # i
    BY <2>2, <1>1, <1>2 DEF WorkStep, TodoOf
  <2> QED
    BY <2>1, <2>2
<1>4. /\ request'[p].own = request[p].own
      /\ request'[p].at[j] = request[p].at[j] /\ request'[p].seen[j] = request[p].seen[j]
  BY DEF WorkStep
<1>5. Current(p, j)' = Current(p, j)
  BY <1>3 DEF Current
<1> QED
  BY <1>3, <1>4, <1>5 DEF Working, Hand

\* The coroutine itself works on, or has a review less to do.
LEMMA SelfWork ==
    ASSUME TypeOK, Batches, NEW q \in Requests, NEW i \in Items, NEW gone \in SUBSET {Current(q, i)},
           NEW failed, NEW pc, NEW list, WorkStep(q, i, gone, failed, pc, list)
    PROVE  /\ Working(q, i) /\ TodoOf(q, i)' = TodoOf(q, i) \ gone
           /\ gone = {} => Current(q, i)' = Current(q, i)
           /\ gone = {} /\ pc \notin {"claim", "dead"} => Hand(q, i)'
           /\ pc \in {"claim", "dead"} => ~Hand(q, i)'
           /\ request'[q].own = request[q].own /\ request'[q].at[i] = pc /\ request'[q].seen[i] = list
           /\ Current(q, i) \in TodoOf(q, i) /\ Current(q, i) \in 1 .. rated /\ item[Current(q, i)] = i
           /\ rated' = rated /\ item' = item
<1>1. /\ Working(q, i) /\ item' = item /\ rated' = rated
      /\ request'[q].own = request[q].own /\ request'[q].at[i] = pc /\ request'[q].seen[i] = list
  BY DEF WorkStep, agentQuiet, clientVars
<1>2. TodoOf(q, i)' = TodoOf(q, i) \ gone
  BY <1>1 DEF WorkStep, TodoOf
<1>3. gone = {} => Current(q, i)' = Current(q, i)
  BY <1>2 DEF Current
<1>4. Current(q, i) \in TodoOf(q, i) /\ Current(q, i) \in 1 .. rated /\ item[Current(q, i)] = i
  BY <1>1, CurrentIn DEF Working
<1> QED
  BY <1>1, <1>2, <1>3, <1>4 DEF Working, Hand

\* A step of a coroutine keeps the types, if what it writes has them.
LEMMA WorkTypes ==
    ASSUME TypeOK, Batches, NEW q \in Requests, NEW i \in Items, NEW gone \in SUBSET {Current(q, i)},
           NEW failed \in SUBSET {Current(q, i)}, NEW pc, NEW list \in Seq(1 .. rated),
           WorkStep(q, i, gone, failed, pc, list),
           claimed' \subseteq 1 .. rated, stability' \in [Items -> Seq(1 .. rated)],
           interrupted' \cup overwritten' \subseteq claimed', misled' \subseteq 1 .. rated
    PROVE  TypeOK' /\ Batches'
<1>1. UNCHANGED agentQuiet /\ faults' \in 0 .. MaxFaults /\ request' \in [Requests -> RequestStates]
  BY DEF WorkStep
<1>2. TypeOK'
  BY <1>1 DEF TypeOK, agentQuiet, clientVars, pageVars
<1>3. Current(q, i) \in 1 .. rated /\ q <= requests /\ requests \in Nat
  <2>1. Current(q, i) \in 1 .. rated
    BY SelfWork
  <2> QED
    BY <2>1 DEF WorkStep, TypeOK
<1>4. ASSUME NEW p \in Requests
      PROVE  request'[p].todo \cup request'[p].errors \subseteq 1 .. rated
             /\ (p > requests => request'[p] = NoRequest)
  <2>1. CASE p = q
    <3>1. request'[p].todo \cup request'[p].errors \subseteq 1 .. rated
      BY <2>1, <1>3 DEF WorkStep, Batches
    <3> QED
      BY <2>1, <3>1, <1>3 DEF Requests
  <2>2. CASE p # q
    BY <2>2 DEF WorkStep, Batches
  <2> QED
    BY <2>1, <2>2
<1>5. ASSUME NEW p \in Requests, NEW j \in Items
      PROVE  request'[p].seen[j] \in Seq(1 .. rated)
  <2>1. CASE p = q /\ j = i
    BY <2>1 DEF WorkStep
  <2>2. CASE ~(p = q /\ j = i)
    <3>1. request'[p].seen[j] = request[p].seen[j]
      BY <2>2, OtherWork
    <3> QED
      BY <3>1 DEF Batches
  <2> QED
    BY <2>1, <2>2
<1> QED
  BY <1>1, <1>2, <1>4, <1>5 DEF Batches, agentQuiet, clientVars

-----------------------------------------------------------------------------
(* A review counts once: the steps of the coroutines.                       *)

\* What a step of a coroutine must not do to the other hands, to its own hand
\* and to the histories.
OthersFit(q, i, list) ==
    \A p \in Requests, j \in Items : (p # q \/ j # i) /\ Hand(p, j) =>
        /\ Current(p, j) \in claimed'
        /\ Current(p, j) \notin interrupted' \cup overwritten' \cup Counted(j)'
        /\ j = i => \A n \in DOMAIN list : list[n] # Current(p, i)
SelfFits(q, i, gone, list) ==
    /\ gone = {} /\ Current(q, i) \in claimed'
    /\ Current(q, i) \notin interrupted' \cup overwritten' \cup Counted(i)'
    /\ \A p \in Requests \ {q} : /\ Hand(p, i) => Current(p, i) # Current(q, i)
                                 /\ \A n \in DOMAIN request[p].seen[i] : request[p].seen[i][n] # Current(q, i)
    /\ \A n \in DOMAIN list : list[n] # Current(q, i)
HistoriesFit(q, i, list) ==
    /\ \A j \in Items : HistoryOf(j, stability[j])'
    /\ Once(list) /\ \A n \in DOMAIN list : list[n] \in claimed' /\ item'[list[n]] = i
    /\ \A p \in Requests, j \in Items : p # q \/ j # i =>
         \A n \in DOMAIN request[p].seen[j] : request[p].seen[j][n] \in claimed'

LEMMA WorkCounts ==
    ASSUME CountInv, NEW q \in Requests, NEW i \in Items, NEW gone \in SUBSET {Current(q, i)},
           NEW failed, NEW pc, NEW list, WorkStep(q, i, gone, failed, pc, list),
           pc = "write" => request[q].own, pc = "release" => ~request[q].own,
           TypeOK', Batches',
           OthersFit(q, i, list), pc \notin {"claim", "dead"} => SelfFits(q, i, gone, list),
           HistoriesFit(q, i, list)
    PROVE  CountInv'
<1> TypeOK /\ Batches /\ OwnWrites /\ HeldOnce /\ Histories
  BY DEF CountInv
<1>1. OwnWrites'
  <2> SUFFICES ASSUME NEW p \in Requests, NEW j \in Items
               PROVE  /\ request'[p].at[j] = "write" => request'[p].own
                      /\ request'[p].at[j] = "release" => ~request'[p].own
    BY DEF OwnWrites
  <2>1. CASE p = q /\ j = i
    BY <2>1, SelfWork
  <2>2. CASE p # q \/ j # i
    <3>1. request'[p].own = request[p].own /\ request'[p].at[j] = request[p].at[j]
      BY <2>2, OtherWork
    <3> QED
      BY <3>1 DEF OwnWrites
  <2> QED
    BY <2>1, <2>2
<1>2. HeldOnce'
  <2> SUFFICES ASSUME NEW p \in Requests, NEW j \in Items, Hand(p, j)'
               PROVE  /\ Current(p, j)' \in claimed'
                      /\ Current(p, j)' \notin interrupted' \cup overwritten' \cup Counted(j)'
                      /\ \A u \in Requests : Hand(u, j)' /\ Current(u, j)' = Current(p, j)' => u = p
                      /\ \A u \in Requests : \A n \in DOMAIN request'[u].seen[j] : request'[u].seen[j][n] # Current(p, j)'
    BY DEF HeldOnce
  <2>1. CASE p = q /\ j = i
    <3>0. Hand(q, i)'
      BY <2>1, Zenon
    <3>1. pc \notin {"claim", "dead"} /\ gone = {}
      BY <3>0, SelfWork DEF SelfFits
    <3>2. Current(q, i)' = Current(q, i) /\ request'[q].seen[i] = list
      BY <3>1, SelfWork
    <3>3. \A u \in Requests \ {q} : /\ (Hand(u, i)' <=> Hand(u, i)) /\ Current(u, i)' = Current(u, i)
                                    /\ request'[u].seen[i] = request[u].seen[i]
      <4> SUFFICES ASSUME NEW u \in Requests, u # q
                   PROVE  /\ (Hand(u, i)' <=> Hand(u, i)) /\ Current(u, i)' = Current(u, i)
                          /\ request'[u].seen[i] = request[u].seen[i]
        OBVIOUS
      <4> QED
        BY OtherWork
    <3> QED
      BY <2>1, <3>1, <3>2, <3>3 DEF SelfFits
  <2>2. CASE p # q \/ j # i
    <3>1. Hand(p, j) /\ Current(p, j)' = Current(p, j)
      BY <2>2, OtherWork
    <3>2. /\ Current(p, j)' \in claimed'
          /\ Current(p, j)' \notin interrupted' \cup overwritten' \cup Counted(j)'
      BY <2>2, <3>1 DEF OthersFit
    <3>3. ASSUME NEW u \in Requests, Hand(u, j)', Current(u, j)' = Current(p, j)'
          PROVE  u = p
      <4>1. CASE u = q /\ j = i
        <5>0. Hand(q, i)'
          BY <4>1, <3>3, Zenon
        <5>1. pc \notin {"claim", "dead"} /\ gone = {}
          BY <5>0, SelfWork DEF SelfFits
        <5>2. Current(q, i)' = Current(q, i)
          BY <5>1, SelfWork
        <5> QED
          BY <5>1, <5>2, <4>1, <3>1, <3>3, <2>2 DEF SelfFits
      <4>2. CASE u # q \/ j # i
        <5>1. Hand(u, j) /\ Current(u, j)' = Current(u, j)
          BY <4>2, <3>3, OtherWork
        <5> QED
          BY <5>1, <3>1, <3>3 DEF HeldOnce
      <4> QED
        BY <4>1, <4>2
    <3>4. ASSUME NEW u \in Requests, NEW n \in DOMAIN request'[u].seen[j]
          PROVE  request'[u].seen[j][n] # Current(p, j)'
      <4>1. CASE u = q /\ j = i
        <5>1. request'[u].seen[j] = list
          BY <4>1, SelfWork
        <5> QED
          BY <5>1, <4>1, <3>1, <3>4, <2>2 DEF OthersFit
      <4>2. CASE u # q \/ j # i
        <5>1. request'[u].seen[j] = request[u].seen[j]
          BY <4>2, OtherWork
        <5> QED
          BY <5>1, <3>1, <3>4 DEF HeldOnce
      <4> QED
        BY <4>1, <4>2
    <3> QED
      BY <3>2, <3>3, <3>4
  <2> QED
    BY <2>1, <2>2
<1>3. Histories'
  <2> SUFFICES ASSUME NEW p \in Requests, NEW j \in Items
               PROVE  HistoryOf(j, request[p].seen[j])'
    BY DEF Histories, HistoriesFit
  <2>1. CASE p = q /\ j = i
    <3>1. request'[p].seen[j] = list
      BY <2>1, SelfWork
    <3> QED
      BY <2>1, <3>1 DEF HistoryOf, Once, HistoriesFit
  <2>2. CASE p # q \/ j # i
    <3>1. request'[p].seen[j] = request[p].seen[j] /\ item' = item
      <4>1. request'[p].seen[j] = request[p].seen[j]
        BY <2>2, OtherWork
      <4> QED
        BY <4>1, SelfWork
    <3>2. HistoryOf(j, request[p].seen[j])
      BY DEF Histories
    <3> QED
      BY <2>2, <3>1, <3>2 DEF HistoryOf, Once, HistoriesFit
  <2> QED
    BY <2>1, <2>2
<1> QED
  BY <1>1, <1>2, <1>3 DEF CountInv

\* What CountInv says of one hand, and of the histories.
LEMMA HandFacts ==
    ASSUME CountInv, NEW q \in Requests, NEW i \in Items, Hand(q, i)
    PROVE  /\ Current(q, i) \in claimed /\ Current(q, i) \in 1 .. rated /\ item[Current(q, i)] = i
           /\ Current(q, i) \notin interrupted \cup overwritten \cup Counted(i)
           /\ \A p \in Requests : Hand(p, i) /\ Current(p, i) = Current(q, i) => p = q
           /\ \A p \in Requests : \A n \in DOMAIN request[p].seen[i] : request[p].seen[i][n] # Current(q, i)
<1>1. TypeOK /\ Batches /\ HeldOnce
  BY DEF CountInv
<1>2. TodoOf(q, i) # {}
  BY DEF Hand, Working
<1>3. Current(q, i) \in 1 .. rated /\ item[Current(q, i)] = i
  BY <1>1, <1>2, CurrentIn
<1> QED
  BY <1>1, <1>3 DEF HeldOnce

\* Nothing but a release or a write touches what the histories say.
LEMMA SameHistories ==
    ASSUME CountInv, NEW q \in Requests, NEW i \in Items, NEW list, HistoryOf(i, list),
           UNCHANGED <<stability, item>>, claimed \subseteq claimed'
    PROVE  HistoriesFit(q, i, list)
BY DEF CountInv, Histories, HistoriesFit, HistoryOf, Once

LEMMA ClaimCounts ==
    ASSUME CountInv, NEW q \in Requests, NEW i \in Items, Claim(q, i)
    PROVE  CountInv'
<1>1. TypeOK /\ Batches /\ Histories /\ request[q].at[i] = "claim"
  BY ClaimStep DEF CountInv
<1>2. /\ UNCHANGED <<stability, interrupted, overwritten, mixed>>
      /\ Current(q, i) \in claimed => claimed' = claimed /\ misled' \subseteq misled \cup {Current(q, i)}
      /\ Current(q, i) \notin claimed => claimed' = claimed \cup {Current(q, i)} /\ misled' = misled
  BY DEF Claim
<1>3. /\ Current(q, i) \in 1 .. rated /\ item[Current(q, i)] = i
  BY <1>1, CurrentIn DEF Claim, Working
<1>4. request[q].seen[i] \in Seq(1 .. rated) /\ HistoryOf(i, request[q].seen[i])
  BY <1>1 DEF Batches, Histories
<1>5. /\ claimed \subseteq claimed' /\ claimed' \subseteq 1 .. rated /\ misled' \subseteq 1 .. rated
      /\ stability' \in [Items -> Seq(1 .. rated)] /\ interrupted' \cup overwritten' \subseteq claimed'
      /\ UNCHANGED <<stability, item>>
  BY <1>1, <1>2, <1>3 DEF TypeOK, Claim, agentFrame, clientVars
<1>6. HistoriesFit(q, i, request[q].seen[i])
  BY <1>4, <1>5, SameHistories
<1>7. OthersFit(q, i, request[q].seen[i])
  BY <1>2, <1>5, HandFacts DEF OthersFit, Counted
<1>8. CASE Current(q, i) \in claimed
  <2>1. WorkStep(q, i, {Current(q, i)}, {}, "claim", request[q].seen[i])
    BY <1>1, <1>8, ClaimStep
  <2>2. TypeOK' /\ Batches'
    BY <2>1, <1>1, <1>4, <1>5, WorkTypes
  <2> QED
    BY <2>1, <2>2, <1>6, <1>7, WorkCounts
<1>9. CASE Current(q, i) \notin claimed
  <2>1. WorkStep(q, i, {}, {}, "read", request[q].seen[i])
    BY <1>1, <1>9, ClaimStep
  <2>2. TypeOK' /\ Batches'
    BY <2>1, <1>1, <1>4, <1>5, WorkTypes
  <2>3. Current(q, i) \notin Counted(i) /\ Current(q, i) \notin interrupted \cup overwritten
    BY <1>1, <1>9 DEF Histories, HistoryOf, Counted, TypeOK
  <2>4. \A p \in Requests : \A n \in DOMAIN request[p].seen[i] : request[p].seen[i][n] # Current(q, i)
    BY <1>1, <1>9 DEF Histories, HistoryOf
  <2>5. \A p \in Requests : Hand(p, i) => Current(p, i) # Current(q, i)
    BY <1>9, HandFacts
  <2>6. SelfFits(q, i, {}, request[q].seen[i])
    BY <1>2, <1>9, <2>3, <2>4, <2>5 DEF SelfFits, Counted
  <2> QED
    BY <2>1, <2>2, <2>6, <1>6, <1>7, WorkCounts
<1> QED
  BY <1>8, <1>9

LEMMA ReadCounts ==
    ASSUME CountInv, NEW q \in Requests, NEW i \in Items, ReadStability(q, i)
    PROVE  CountInv'
<1>1. /\ TypeOK /\ Batches /\ Histories /\ request[q].at[i] = "read" /\ UNCHANGED <<claimed, stability, history>>
      /\ Hand(q, i)
  BY ReadStep DEF CountInv, ReadStability, Hand
<1>2. /\ claimed' \subseteq 1 .. rated /\ misled' \subseteq 1 .. rated
      /\ stability' \in [Items -> Seq(1 .. rated)] /\ interrupted' \cup overwritten' \subseteq claimed'
      /\ UNCHANGED <<stability, item, claimed, interrupted, overwritten, misled>>
  BY <1>1 DEF TypeOK, ReadStability, agentFrame, clientVars, history
<1>3. ASSUME NEW list \in {stability[i], request[q].seen[i]}
      PROVE  /\ list \in Seq(1 .. rated)
             /\ HistoriesFit(q, i, list) /\ OthersFit(q, i, list) /\ SelfFits(q, i, {}, list)
  <2>1. list \in Seq(1 .. rated) /\ HistoryOf(i, list)
    BY <1>1 DEF Batches, Histories, TypeOK
  <2>2. HistoriesFit(q, i, list)
    BY <2>1, <1>2, SameHistories
  <2>3. ASSUME NEW p \in Requests, Hand(p, i), NEW n \in DOMAIN list
        PROVE  list[n] # Current(p, i)
    <3>1. CASE list = stability[i]
      BY <3>1, <2>3, HandFacts DEF Counted
    <3>2. CASE list = request[q].seen[i]
      BY <3>2, <2>3, HandFacts
    <3> QED
      BY <3>1, <3>2
  <2>4. OthersFit(q, i, list)
    BY <2>3, <1>2, HandFacts DEF OthersFit, Counted
  <2>5. SelfFits(q, i, {}, list)
    BY <2>3, <1>1, <1>2, HandFacts DEF SelfFits, Counted
  <2> QED
    BY <2>1, <2>2, <2>4, <2>5
<1>4. CASE request[q].own
  <2>1. WorkStep(q, i, {}, {}, "write", stability[i])
    BY <1>1, <1>4, ReadStep
  <2>2. TypeOK' /\ Batches'
    BY <2>1, <1>1, <1>2, <1>3, WorkTypes
  <2> QED
    BY <2>1, <2>2, <1>3, <1>4, WorkCounts
<1>5. CASE ~request[q].own
  <2>1. WorkStep(q, i, {}, {}, "release", request[q].seen[i])
    BY <1>1, <1>5, ReadStep
  <2>2. TypeOK' /\ Batches'
    BY <2>1, <1>1, <1>2, <1>3, WorkTypes
  <2> QED
    BY <2>1, <2>2, <1>3, <1>5, WorkCounts
<1> QED
  BY <1>4, <1>5

LEMMA WriteCounts ==
    ASSUME CountInv, NEW q \in Requests, NEW i \in Items, WriteStability(q, i)
    PROVE  CountInv'
<1> DEFINE r == Current(q, i)
           seen == request[q].seen[i]
<1>1. /\ TypeOK /\ Batches /\ Histories /\ Hand(q, i) /\ UNCHANGED <<claimed, interrupted, misled, item, rated>>
      /\ stability' = [stability EXCEPT ![i] = Append(seen, r)]
      /\ overwritten' = overwritten \cup (Counted(i) \ {seen[n] : n \in DOMAIN seen})
      /\ WorkStep(q, i, {r}, {}, "claim", <<>>)
  BY WriteStep DEF CountInv, WriteStability, Hand, agentFrame, clientVars
<1>2. /\ r \in claimed /\ r \in 1 .. rated /\ item[r] = i
      /\ \A n \in DOMAIN seen : seen[n] # r
  BY <1>1, HandFacts
<1>3. seen \in Seq(1 .. rated) /\ HistoryOf(i, seen) /\ stability[i] \in Seq(1 .. rated)
  BY <1>1 DEF Batches, Histories, TypeOK
<1>4. /\ Append(seen, r) \in Seq(1 .. rated) /\ DOMAIN Append(seen, r) = 1 .. Len(seen) + 1
      /\ Append(seen, r)[Len(seen) + 1] = r /\ DOMAIN seen = 1 .. Len(seen) /\ Len(seen) \in Nat
      /\ \A n \in 1 .. Len(seen) : Append(seen, r)[n] = seen[n]
  BY <1>2, <1>3, AppendProperties, LenProperties
<1>5. /\ stability \in [Items -> Seq(1 .. rated)]
      /\ stability' \in [Items -> Seq(1 .. rated)] /\ stability'[i] = Append(seen, r)
      /\ \A j \in Items \ {i} : stability'[j] = stability[j]
  BY <1>1, <1>4 DEF TypeOK
<1>6. Counted(i) \subseteq claimed
  BY <1>1 DEF Histories, HistoryOf, Counted
<1>7. interrupted' \cup overwritten' \subseteq claimed'
  BY <1>1, <1>6 DEF TypeOK
<1>8. TypeOK' /\ Batches'
  <2>1. <<>> \in Seq(1 .. rated)
    BY EmptySeq
  <2>2. misled' \subseteq 1 .. rated /\ claimed' \subseteq 1 .. rated
    BY <1>1 DEF TypeOK
  <2> QED
    BY <2>1, <2>2, <1>1, <1>5, <1>7, WorkTypes
<1>9. HistoriesFit(q, i, <<>>)
  <2>0. /\ \A n \in DOMAIN seen : seen[n] \in claimed /\ item[seen[n]] = i /\ seen[n] # r
        /\ \A m, n \in DOMAIN seen : seen[m] = seen[n] => m = n
    BY <1>2, <1>3 DEF HistoryOf, Once
  <2>1. /\ \A n \in 1 .. Len(seen) + 1 : Append(seen, r)[n] \in claimed /\ item[Append(seen, r)[n]] = i
        /\ \A m, n \in 1 .. Len(seen) + 1 : Append(seen, r)[m] = Append(seen, r)[n] => m = n
    <3>1. \A n \in 1 .. Len(seen) + 1 : n \in 1 .. Len(seen) \/ n = Len(seen) + 1
      BY <1>4
    <3> HIDE DEF r, seen
    <3> QED
      BY <2>0, <3>1, <1>2, <1>4
  <2>2. \A j \in Items : HistoryOf(j, stability[j])'
    <3> SUFFICES ASSUME NEW j \in Items PROVE HistoryOf(j, stability[j])'
      OBVIOUS
    <3>1. CASE j = i
      <4>1. stability'[j] = Append(seen, r) /\ DOMAIN stability'[j] = 1 .. Len(seen) + 1
        BY <3>1, <1>4, <1>5
      <4>2. /\ \A n \in DOMAIN stability'[j] : stability'[j][n] \in claimed' /\ item'[stability'[j][n]] = j
            /\ \A m, n \in DOMAIN stability'[j] : stability'[j][m] = stability'[j][n] => m = n
        <5> HIDE DEF r, seen
        <5> QED
          BY <4>1, <3>1, <2>1, <1>1
      <4> QED
        BY <4>2 DEF HistoryOf, Once
    <3>2. CASE j # i
      BY <3>2, <1>1, <1>5 DEF Histories, HistoryOf, Once
    <3> QED
      BY <3>1, <3>2
  <2>3. Once(<<>>)
    BY DEF Once
  <2> QED
    BY <2>2, <2>3, <1>1 DEF HistoriesFit, Histories, HistoryOf
<1>10. OthersFit(q, i, <<>>)
  <2> SUFFICES ASSUME NEW p \in Requests, NEW j \in Items, p # q \/ j # i, Hand(p, j)
               PROVE  /\ Current(p, j) \in claimed'
                      /\ Current(p, j) \notin interrupted' \cup overwritten' \cup Counted(j)'
    BY DEF OthersFit
  <2>1. /\ Current(p, j) \in claimed /\ item[Current(p, j)] = j
        /\ Current(p, j) \notin interrupted \cup overwritten \cup Counted(j)
        /\ \A n \in DOMAIN seen : j = i => seen[n] # Current(p, j)
    BY HandFacts
  <2>2. Current(p, j) \notin Counted(i)
    BY <2>1, <1>1 DEF Counted, Histories, HistoryOf
  <2>3. j = i => Current(p, j) # r
    BY <1>1, HandFacts
  <2>4. Current(p, j) \notin Counted(j)'
    <3>1. CASE j = i
      BY <3>1, <2>1, <2>3, <1>4, <1>5 DEF Counted
    <3>2. CASE j # i
      BY <3>2, <2>1, <1>5 DEF Counted
    <3> QED
      BY <3>1, <3>2
  <2> QED
    BY <2>1, <2>2, <2>4, <1>1
<1> QED
  BY <1>1, <1>8, <1>9, <1>10, WorkCounts

LEMMA ReleaseCounts ==
    ASSUME CountInv, NEW q \in Requests, NEW i \in Items, Release(q, i)
    PROVE  CountInv'
<1> DEFINE r == Current(q, i)
           seen == request[q].seen[i]
<1>1. /\ TypeOK /\ Batches /\ Histories /\ Hand(q, i) /\ claimed' = claimed \ {r}
      /\ UNCHANGED <<stability, interrupted, misled, overwritten, item, rated>>
      /\ WorkStep(q, i, {r}, {r}, "claim", seen)
  BY ReleaseStep DEF CountInv, Release, Hand, agentFrame, clientVars, history
<1>2. /\ r \in claimed /\ r \in 1 .. rated /\ item[r] = i /\ r \notin interrupted \cup overwritten \cup Counted(i)
      /\ \A p \in Requests : \A n \in DOMAIN request[p].seen[i] : request[p].seen[i][n] # r
  BY <1>1, HandFacts
<1>3. seen \in Seq(1 .. rated) /\ HistoryOf(i, seen)
  BY <1>1 DEF Batches, Histories
<1>4. TypeOK' /\ Batches'
  <2>1. /\ misled' \subseteq 1 .. rated /\ claimed' \subseteq 1 .. rated
        /\ interrupted' \cup overwritten' \subseteq claimed' /\ stability' \in [Items -> Seq(1 .. rated)]
    BY <1>1, <1>2 DEF TypeOK
  <2> QED
    BY <2>1, <1>1, <1>3, WorkTypes
<1>5. HistoriesFit(q, i, seen)
  <2>1. \A j \in Items : \A n \in DOMAIN stability[j] : stability[j][n] # r
    BY <1>1, <1>2 DEF Histories, HistoryOf, Counted
  <2>2. \A p \in Requests, j \in Items : \A n \in DOMAIN request[p].seen[j] : request[p].seen[j][n] # r
    BY <1>1, <1>2 DEF Histories, HistoryOf
  <2>3. \A j \in Items : HistoryOf(j, stability[j])'
    BY <2>1, <1>1 DEF Histories, HistoryOf, Once
  <2>4. Once(seen) /\ \A n \in DOMAIN seen : seen[n] \in claimed' /\ item'[seen[n]] = i
    BY <1>1, <1>2, <1>3 DEF HistoryOf
  <2>5. \A p \in Requests, j \in Items : \A n \in DOMAIN request[p].seen[j] : request[p].seen[j][n] \in claimed'
    BY <2>2, <1>1 DEF Histories, HistoryOf
  <2> QED
    BY <2>3, <2>4, <2>5 DEF HistoriesFit
<1>6. OthersFit(q, i, seen)
  <2> SUFFICES ASSUME NEW p \in Requests, NEW j \in Items, p # q \/ j # i, Hand(p, j)
               PROVE  /\ Current(p, j) \in claimed'
                      /\ Current(p, j) \notin interrupted' \cup overwritten' \cup Counted(j)'
                      /\ j = i => \A n \in DOMAIN seen : seen[n] # Current(p, i)
    BY DEF OthersFit
  <2>1. /\ Current(p, j) \in claimed /\ item[Current(p, j)] = j
        /\ Current(p, j) \notin interrupted \cup overwritten \cup Counted(j)
        /\ \A n \in DOMAIN seen : j = i => seen[n] # Current(p, j)
    BY HandFacts
  <2>2. Current(p, j) # r
    BY <2>1, <1>1, <1>2, HandFacts
  <2> QED
    BY <2>1, <2>2, <1>1 DEF Counted
<1> QED
  BY <1>1, <1>4, <1>5, <1>6, WorkCounts

LEMMA FailCounts ==
    ASSUME CountInv, NEW q \in Requests, NEW i \in Items, StatementFails(q, i)
    PROVE  CountInv'
<1> DEFINE seen == request[q].seen[i]
<1>1. /\ TypeOK /\ Batches /\ Histories
      /\ interrupted' = IF request[q].at[i] = "claim" THEN interrupted ELSE interrupted \cup {Current(q, i)}
      /\ UNCHANGED <<claimed, stability, misled, overwritten, item, rated>>
      /\ WorkStep(q, i, {}, {}, "dead", seen)
  BY FailStep DEF CountInv, StatementFails, clientVars
<1>2. Working(q, i) /\ (request[q].at[i] # "claim" => Hand(q, i))
  BY DEF StatementFails, Hand
<1>3. seen \in Seq(1 .. rated) /\ HistoryOf(i, seen)
  BY <1>1 DEF Batches, Histories
<1>4. TypeOK' /\ Batches'
  <2>1. request[q].at[i] # "claim" => Current(q, i) \in claimed
    BY <1>2, HandFacts
  <2>2. /\ misled' \subseteq 1 .. rated /\ claimed' \subseteq 1 .. rated
        /\ interrupted' \cup overwritten' \subseteq claimed' /\ stability' \in [Items -> Seq(1 .. rated)]
    BY <2>1, <1>1 DEF TypeOK
  <2> QED
    BY <2>2, <1>1, <1>3, WorkTypes
<1>5. HistoriesFit(q, i, seen)
  BY <1>1, <1>3, SameHistories
<1>6. OthersFit(q, i, seen)
  <2> SUFFICES ASSUME NEW p \in Requests, NEW j \in Items, p # q \/ j # i, Hand(p, j)
               PROVE  /\ Current(p, j) \in claimed'
                      /\ Current(p, j) \notin interrupted' \cup overwritten' \cup Counted(j)'
                      /\ j = i => \A n \in DOMAIN seen : seen[n] # Current(p, i)
    BY DEF OthersFit
  <2>1. /\ Current(p, j) \in claimed /\ item[Current(p, j)] = j
        /\ Current(p, j) \notin interrupted \cup overwritten \cup Counted(j)
        /\ \A n \in DOMAIN seen : j = i => seen[n] # Current(p, j)
    BY HandFacts
  <2>2. request[q].at[i] # "claim" => Current(p, j) # Current(q, i)
    BY <2>1, <1>2, HandFacts
  <2> QED
    BY <2>1, <2>2, <1>1 DEF Counted
<1> QED
  BY <1>1, <1>4, <1>5, <1>6, WorkCounts

\* After a restart nothing is in hand.
LEMMA CrashStep ==
    ASSUME TypeOK, Batches, AgentCrashes
    PROVE  /\ request' \in [Requests -> RequestStates] /\ UNCHANGED agentQuiet /\ faults' \in 0 .. MaxFaults
           /\ UNCHANGED <<claimed, stability, misled, overwritten>>
           /\ \A q \in Requests :
                /\ request'[q].own = request[q].own /\ request'[q].todo = request[q].todo
                /\ request'[q].seen = request[q].seen /\ request'[q].errors = request[q].errors
           /\ \A q \in Requests, i \in Items :
                /\ request'[q].at[i] = IF Working(q, i) THEN "dead" ELSE request[q].at[i]
                /\ TodoOf(q, i)' = TodoOf(q, i)
                /\ ~Working(q, i)'
           /\ \A r : r \in interrupted' <=>
                r \in interrupted \/ \E q \in Requests, i \in Items : Hand(q, i) /\ Current(q, i) = r
<1>1. /\ UNCHANGED agentQuiet /\ faults' \in 0 .. MaxFaults
      /\ UNCHANGED <<claimed, stability, misled, overwritten, item>>
  BY OfflineReviewAssumption DEF AgentCrashes, Fault, agentQuiet, clientVars, pageVars, TypeOK
<1>2. request \in [Requests -> RequestStates]
  BY DEF TypeOK
<1>3. ASSUME NEW q \in Requests
      PROVE  /\ request'[q].own = request[q].own /\ request'[q].todo = request[q].todo
             /\ request'[q].seen = request[q].seen /\ request'[q].errors = request[q].errors
             /\ request'[q].at = [i \in Items |-> IF Working(q, i) THEN "dead" ELSE request[q].at[i]]
             /\ request'[q] \in RequestStates
  <2> DEFINE rec == [request[q] EXCEPT !.at = [i \in Items |-> IF Working(q, i) THEN "dead" ELSE request[q].at[i]]]
  <2>1. request'[q] = rec
    BY DEF AgentCrashes
  <2>2. request[q] \in RequestStates /\ request[q].at \in [Items -> Coroutines]
    BY RequestReads DEF RequestStates, TypeOK
  <2>3. [i \in Items |-> IF Working(q, i) THEN "dead" ELSE request[q].at[i]] \in [Items -> Coroutines]
    BY <2>2 DEF Coroutines
  <2> HIDE DEF Working
  <2>4. rec \in RequestStates
    BY <2>2, <2>3 DEF RequestStates
  <2>5. /\ rec.own = request[q].own /\ rec.todo = request[q].todo
        /\ rec.seen = request[q].seen /\ rec.errors = request[q].errors
        /\ rec.at = [i \in Items |-> IF Working(q, i) THEN "dead" ELSE request[q].at[i]]
    BY <2>2 DEF RequestStates
  <2> QED
    BY <2>1, <2>4, <2>5
<1>4. request' \in [Requests -> RequestStates]
  <2>1. request' = [q \in Requests |-> request'[q]]
    BY DEF AgentCrashes
  <2> QED
    BY <2>1, <1>3
<1>5. ASSUME NEW q \in Requests, NEW i \in Items
      PROVE  /\ request'[q].at[i] = IF Working(q, i) THEN "dead" ELSE request[q].at[i]
             /\ TodoOf(q, i)' = TodoOf(q, i)
             /\ ~Working(q, i)'
  <2>1. TodoOf(q, i)' = TodoOf(q, i)
    BY <1>1, <1>3 DEF TodoOf
  <2>2. request'[q].at[i] = IF Working(q, i) THEN "dead" ELSE request[q].at[i]
    BY <1>3
  <2> QED
    BY <2>1, <2>2 DEF Working
<1>6. ASSUME NEW r
      PROVE  r \in interrupted' <=>
                r \in interrupted \/ \E q \in Requests, i \in Items : Hand(q, i) /\ Current(q, i) = r
  <2> DEFINE P == {p \in Requests \X Items : Working(p[1], p[2]) /\ request[p[1]].at[p[2]] # "claim"}
  <2>1. interrupted' = interrupted \cup {Current(p[1], p[2]) : p \in P}
    BY DEF AgentCrashes
  <2>2. ASSUME r \in {Current(p[1], p[2]) : p \in P}
        PROVE  \E q \in Requests, i \in Items : Hand(q, i) /\ Current(q, i) = r
    <3>1. PICK p \in P : r = Current(p[1], p[2])
      BY <2>2
    <3> QED
      BY <3>1 DEF Hand
  <2>3. ASSUME NEW q \in Requests, NEW i \in Items, Hand(q, i), Current(q, i) = r
        PROVE  r \in {Current(p[1], p[2]) : p \in P}
    <3>1. <<q, i>> \in P
      BY <2>3 DEF Hand
    <3> QED
      BY <3>1, <2>3
  <2> QED
    BY <2>1, <2>2, <2>3
<1> QED
  BY <1>1, <1>3, <1>4, <1>5, <1>6

LEMMA CrashCounts ==
    ASSUME CountInv, AgentCrashes
    PROVE  CountInv'
<1>1. TypeOK /\ Batches /\ Histories /\ OwnWrites
  BY DEF CountInv
<1>2. \A r \in interrupted' : r \in claimed
  BY <1>1, CrashStep, HandFacts DEF TypeOK
<1>3. TypeOK'
  BY <1>1, <1>2, CrashStep DEF TypeOK, agentQuiet, clientVars, pageVars
<1>4. Batches'
  <2> SUFFICES ASSUME NEW q \in Requests
               PROVE  /\ request'[q].todo \cup request'[q].errors \subseteq 1 .. rated
                      /\ q > requests => request'[q] = NoRequest
                      /\ \A i \in Items : request'[q].seen[i] \in Seq(1 .. rated)
    BY <1>1, CrashStep DEF Batches, agentQuiet, clientVars
  <2>1. q > requests => request'[q] = NoRequest
    <3> SUFFICES ASSUME q > requests PROVE request'[q] = NoRequest
      OBVIOUS
    <3>1. request[q] = NoRequest
      BY <1>1 DEF Batches
    <3>2. \A i \in Items : ~Working(q, i)
      BY <3>1 DEF Working, TodoOf, NoRequest
    <3>3. request'[q] = [request[q] EXCEPT !.at = [i \in Items |-> IF Working(q, i) THEN "dead" ELSE request[q].at[i]]]
      BY DEF AgentCrashes
    <3>4. [i \in Items |-> IF Working(q, i) THEN "dead" ELSE request[q].at[i]] = NoRequest.at
      BY <3>1, <3>2 DEF NoRequest
    <3>5. request'[q] = [NoRequest EXCEPT !.at = NoRequest.at]
      BY <3>1, <3>3, <3>4
    <3> QED
      BY <3>5 DEF NoRequest
  <2> QED
    BY <2>1, <1>1, CrashStep DEF Batches
<1>5. OwnWrites'
  BY <1>1, CrashStep DEF OwnWrites
<1>6. HeldOnce'
  BY <1>1, CrashStep DEF HeldOnce, Hand
<1>7. Histories'
  BY <1>1, CrashStep DEF Histories, HistoryOf, Once, agentQuiet, clientVars
<1> QED
  BY <1>3, <1>4, <1>5, <1>6, <1>7 DEF CountInv

-----------------------------------------------------------------------------
(* A review counts once: posts, replies and the page.                       *)

\* No hand is touched.
HandsKept ==
    /\ UNCHANGED <<claimed, stability, interrupted, overwritten>>
    /\ \A r \in 1 .. rated : item'[r] = item[r]
    /\ \A q \in Requests, i \in Items :
         /\ Hand(q, i)' <=> Hand(q, i)
         /\ Hand(q, i) => Current(q, i)' = Current(q, i)
         /\ request'[q].seen[i] \in {request[q].seen[i], <<>>}
         /\ request'[q].at[i] # "claim" => request'[q].at[i] = request[q].at[i] /\ request'[q].own = request[q].own

LEMMA KeptCounts ==
    ASSUME CountInv, HandsKept, TypeOK', Batches'
    PROVE  CountInv'
<1>1. TypeOK /\ OwnWrites /\ HeldOnce /\ Histories
  BY DEF CountInv
<1>2. OwnWrites'
  BY <1>1 DEF OwnWrites, HandsKept
<1>3. HeldOnce'
  <2> SUFFICES ASSUME NEW q \in Requests, NEW i \in Items, Hand(q, i)'
               PROVE  /\ Current(q, i)' \in claimed'
                      /\ Current(q, i)' \notin interrupted' \cup overwritten' \cup Counted(i)'
                      /\ \A p \in Requests : Hand(p, i)' /\ Current(p, i)' = Current(q, i)' => p = q
                      /\ \A p \in Requests : \A n \in DOMAIN request'[p].seen[i] : request'[p].seen[i][n] # Current(q, i)'
    BY DEF HeldOnce
  <2>1. Hand(q, i) /\ Current(q, i)' = Current(q, i) /\ Counted(i)' = Counted(i)
        /\ UNCHANGED <<claimed, interrupted, overwritten>>
    BY DEF HandsKept, Counted
  <2>2. /\ Current(q, i) \in claimed
        /\ Current(q, i) \notin interrupted \cup overwritten \cup Counted(i)
        /\ \A p \in Requests : Hand(p, i) /\ Current(p, i) = Current(q, i) => p = q
        /\ \A p \in Requests : \A n \in DOMAIN request[p].seen[i] : request[p].seen[i][n] # Current(q, i)
    BY <2>1, <1>1 DEF HeldOnce
  <2>3. \A p \in Requests : Hand(p, i)' => Hand(p, i) /\ Current(p, i)' = Current(p, i)
    BY DEF HandsKept
  <2>4. \A p \in Requests : request'[p].seen[i] = request[p].seen[i] \/ request'[p].seen[i] = <<>>
    BY DEF HandsKept
  <2>5. \A p \in Requests : \A n \in DOMAIN request'[p].seen[i] : request'[p].seen[i][n] # Current(q, i)
    BY <2>2, <2>4
  <2> QED
    BY <2>1, <2>2, <2>3, <2>5
<1>4. Histories'
  <2>1. ASSUME NEW j \in Items, NEW n \in DOMAIN stability[j]
        PROVE  stability[j][n] \in claimed /\ item'[stability[j][n]] = j
    <3>1. stability[j][n] \in claimed /\ item[stability[j][n]] = j
      BY <1>1 DEF Histories, HistoryOf
    <3>2. claimed \subseteq 1 .. rated
      BY <1>1 DEF TypeOK
    <3>3. \A r \in 1 .. rated : item'[r] = item[r]
      BY DEF HandsKept
    <3> QED
      BY <3>1, <3>2, <3>3
  <2>2. \A j \in Items : HistoryOf(j, stability[j])'
    BY <2>1, <1>1 DEF Histories, HistoryOf, Once, HandsKept
  <2>3. ASSUME NEW q \in Requests, NEW j \in Items
        PROVE  HistoryOf(j, request[q].seen[j])'
    <3>1. CASE request'[q].seen[j] = <<>>
      BY <3>1 DEF HistoryOf, Once
    <3>2. CASE request'[q].seen[j] = request[q].seen[j]
      <4>1. \A n \in DOMAIN request[q].seen[j] : request[q].seen[j][n] \in claimed /\ item'[request[q].seen[j][n]] = j
        <5>1. HistoryOf(j, request[q].seen[j]) /\ claimed \subseteq 1 .. rated
          BY <1>1 DEF Histories, TypeOK
        <5> QED
          BY <5>1 DEF HistoryOf, HandsKept
      <4> QED
        BY <4>1, <3>2, <1>1 DEF Histories, HistoryOf, Once, HandsKept
    <3> QED
      BY <3>1, <3>2 DEF HandsKept
  <2> QED
    BY <2>2, <2>3 DEF Histories
<1> QED
  BY <1>2, <1>3, <1>4 DEF CountInv

\* What a post changes.
PostEffect(f, pending, itemOf) ==
    /\ requests' = requests + 1 /\ requests' \in Requests /\ requests \in 0 .. MaxRequests
    /\ flush[f].at = "idle" /\ request[requests'] = NoRequest
    /\ flush' \in [Flushes -> FlushStates] /\ request' \in [Requests -> RequestStates]
    /\ flush'[f].at = "posting" /\ flush'[f].batch = pending /\ flush'[f].request = requests'
    /\ \A g \in Flushes \ {f} : flush'[g] = flush[g]
    /\ request'[requests'].own = owner /\ request'[requests'].todo = pending
    /\ request'[requests'].at = NoRequest.at /\ request'[requests'].seen = NoRequest.seen
    /\ request'[requests'].errors = {}
    /\ \A q \in Requests : q # requests' => request'[q] = request[q]
    /\ mixed' = mixed \cup Mixing(itemOf, pending)

LEMMA PostReads ==
    ASSUME TypeOK, Batches, NEW f \in Flushes, NEW pending \in SUBSET Reviews, NEW itemOf, Post(f, pending, itemOf)
    PROVE  PostEffect(f, pending, itemOf)
<1>1. /\ requests' = requests + 1 /\ requests' \in Requests /\ requests \in 0 .. MaxRequests
      /\ flush[f].at = "idle" /\ mixed' = mixed \cup Mixing(itemOf, pending)
  BY OfflineReviewAssumption DEF Post, TypeOK, Requests
<1>2. request[requests'] = NoRequest
  BY <1>1 DEF Batches
<1>3. NoRequest \in RequestStates /\ owner \in BOOLEAN
  BY EmptySeq DEF NoRequest, RequestStates, Coroutines, TypeOK
<1> DEFINE call == [Idle EXCEPT !.at = "posting", !.batch = pending, !.request = requests + 1]
           rec == [NoRequest EXCEPT !.own = owner, !.todo = pending]
<1>4. call \in FlushStates /\ call.at = "posting" /\ call.batch = pending /\ call.request = requests + 1
  <2>1. requests + 1 \in 0 .. MaxRequests
    BY <1>1 DEF Requests
  <2> QED
    BY <2>1 DEF Idle, FlushStates
<1>5. flush' = [flush EXCEPT ![f] = call]
  BY DEF Post
<1>6. rec \in RequestStates /\ rec.own = owner /\ rec.todo = pending /\ rec.at = NoRequest.at
      /\ rec.seen = NoRequest.seen /\ rec.errors = {}
  BY <1>3 DEF RequestStates, NoRequest
<1>7. request' = [request EXCEPT ![requests + 1] = [request[requests + 1] EXCEPT !.own = owner, !.todo = pending]]
  BY DEF Post
<1>8. request' = [request EXCEPT ![requests + 1] = rec]
  BY <1>1, <1>2, <1>7
<1>9. flush' \in [Flushes -> FlushStates] /\ flush'[f] = call /\ \A g \in Flushes \ {f} : flush'[g] = flush[g]
  <2> HIDE DEF call
  <2> QED
    BY <1>4, <1>5 DEF TypeOK
<1>10. /\ request' \in [Requests -> RequestStates] /\ request'[requests'] = rec
       /\ \A q \in Requests : q # requests' => request'[q] = request[q]
  <2> HIDE DEF rec
  <2> QED
    BY <1>1, <1>6, <1>8 DEF TypeOK
<1> QED
  BY <1>1, <1>2, <1>4, <1>6, <1>9, <1>10 DEF PostEffect

LEMMA PostTypes ==
    ASSUME TypeOK, Batches, NEW f \in Flushes, NEW pending, NEW itemOf, Post(f, pending, itemOf),
           rated' \in rated .. MaxReviews, pending \subseteq 1 .. rated'
    PROVE  /\ Batches'
           /\ flush' \in [Flushes -> FlushStates] /\ request' \in [Requests -> RequestStates]
           /\ requests' \in 0 .. MaxRequests /\ mixed' \subseteq Items
<1>0. pending \in SUBSET Reviews /\ 1 .. rated \subseteq 1 .. rated' /\ rated' \in Nat
  BY OfflineReviewAssumption DEF Reviews, TypeOK
<1>9. PostEffect(f, pending, itemOf)
  BY <1>0, PostReads
<1>1. ASSUME NEW q \in Requests
      PROVE  /\ request'[q].todo \cup request'[q].errors \subseteq 1 .. rated'
             /\ q > requests' => request'[q] = NoRequest
             /\ \A i \in Items : request'[q].seen[i] \in Seq(1 .. rated')
  <2>1. CASE q = requests'
    BY <2>1, <1>0, <1>9, EmptySeq DEF PostEffect, NoRequest, Requests
  <2>2. CASE q # requests'
    <3>1. request'[q] = request[q] /\ requests' = requests + 1 /\ requests \in Nat
      BY <2>2, <1>9 DEF PostEffect
    <3>2. \A i \in Items : request[q].seen[i] \in Seq(1 .. rated)
      BY DEF Batches
    <3>3. \A i \in Items : request[q].seen[i] \in Seq(1 .. rated')
      BY <3>2, <1>0, SeqMonotonic
    <3> QED
      BY <3>1, <3>3, <1>0 DEF Batches, Requests
  <2> QED
    BY <2>1, <2>2
<1>2. ASSUME NEW g \in Flushes
      PROVE  /\ flush'[g].batch \subseteq 1 .. rated'
             /\ flush'[g].at = "posting" => flush'[g].request \in 1 .. requests'
  <2>1. requests' = requests + 1 /\ requests \in Nat /\ 1 .. requests \subseteq 1 .. requests' /\ requests' \in 1 .. requests'
    BY <1>9, OfflineReviewAssumption DEF PostEffect
  <2>2. CASE g = f
    BY <2>1, <2>2, <1>9 DEF PostEffect
  <2>3. CASE g # f
    <3>1. flush'[g] = flush[g]
      BY <2>3, <1>9 DEF PostEffect
    <3>2. flush[g].batch \subseteq 1 .. rated /\ (flush[g].at = "posting" => flush[g].request \in 1 .. requests)
      BY DEF Batches
    <3> QED
      BY <3>1, <3>2, <2>1, <1>0
  <2> QED
    BY <2>2, <2>3
<1>3. Batches'
  BY <1>1, <1>2 DEF Batches
<1> QED
  BY <1>0, <1>3, <1>9 DEF PostEffect, TypeOK, Mixing, Requests

LEMMA PostHands ==
    ASSUME TypeOK, Batches, NEW f \in Flushes, NEW pending \in SUBSET Reviews, NEW itemOf, Post(f, pending, itemOf),
           UNCHANGED <<claimed, stability, interrupted, overwritten>>,
           \A r \in 1 .. rated : item'[r] = item[r]
    PROVE  /\ HandsKept
           /\ \A p \in Requests, i \in Items : p # requests' => /\ TodoOf(p, i)' = TodoOf(p, i)
                                                               /\ Working(p, i)' <=> Working(p, i)
           /\ \A i \in Items : ~Working(requests', i)
<1>0. PostEffect(f, pending, itemOf)
  BY PostReads
<1>1. ASSUME NEW p \in Requests, NEW i \in Items, p # requests'
      PROVE  /\ TodoOf(p, i)' = TodoOf(p, i) /\ (Working(p, i)' <=> Working(p, i))
             /\ (Hand(p, i)' <=> Hand(p, i)) /\ Current(p, i)' = Current(p, i)
  <2>1. request'[p] = request[p]
    BY <1>0, <1>1 DEF PostEffect
  <2>2. TodoOf(p, i)' = TodoOf(p, i)
    BY <2>1 DEF TodoOf, Batches
  <2> QED
    BY <2>1, <2>2 DEF Working, Hand, Current
<1>2. ASSUME NEW i \in Items
      PROVE  ~Working(requests', i)
  BY <1>0 DEF PostEffect, Working, TodoOf, NoRequest
<1>3. ASSUME NEW p \in Requests, NEW i \in Items
      PROVE  /\ Hand(p, i)' <=> Hand(p, i)
             /\ Hand(p, i) => Current(p, i)' = Current(p, i)
             /\ request'[p].seen[i] \in {request[p].seen[i], <<>>}
             /\ request'[p].at[i] # "claim" => request'[p].at[i] = request[p].at[i] /\ request'[p].own = request[p].own
  <2>1. CASE p # requests'
    <3>1. request'[p] = request[p]
      BY <2>1, <1>0 DEF PostEffect
    <3> QED
      BY <2>1, <3>1, <1>1
  <2>2. CASE p = requests'
    <3>1. request'[p].seen[i] = <<>> /\ request'[p].at[i] = "claim" /\ request[p].at[i] = "claim"
      BY <2>2, <1>0 DEF PostEffect, NoRequest
    <3> QED
      BY <3>1 DEF Hand
  <2> QED
    BY <2>1, <2>2
<1> QED
  BY <1>1, <1>2, <1>3 DEF HandsKept

\* No flush begins.
FlushesFall ==
    /\ flush' \in [Flushes -> FlushStates]
    /\ \A f \in Flushes : /\ flush'[f].batch \subseteq flush[f].batch
                          /\ flush'[f].at = "posting" => flush'[f] = flush[f]

\* A request that holds nothing may go.
LEMMA ResetKeeps ==
    ASSUME TypeOK, Batches, NEW q \in Requests, request' = [request EXCEPT ![q] = NoRequest],
           \A i \in Items : ~Hand(q, i),
           UNCHANGED <<claimed, stability, interrupted, overwritten, item, rated, requests>>,
           FlushesFall
    PROVE  HandsKept /\ Batches' /\ request' \in [Requests -> RequestStates]
<1>1. NoRequest \in RequestStates
  BY EmptySeq DEF NoRequest, RequestStates, Coroutines
<1>2. /\ request' \in [Requests -> RequestStates] /\ request'[q] = NoRequest
      /\ \A p \in Requests \ {q} : request'[p] = request[p]
  BY <1>1 DEF TypeOK
<1>3. ASSUME NEW p \in Requests, NEW i \in Items
      PROVE  /\ Hand(p, i)' <=> Hand(p, i)
             /\ Hand(p, i) => Current(p, i)' = Current(p, i)
             /\ request'[p].seen[i] \in {request[p].seen[i], <<>>}
             /\ request'[p].at[i] # "claim" => request'[p].at[i] = request[p].at[i] /\ request'[p].own = request[p].own
  <2>1. CASE p = q
    <3>1. ~Hand(p, i) /\ ~Hand(p, i)'
      BY <2>1, <1>2 DEF Hand, NoRequest
    <3> QED
      BY <3>1, <2>1, <1>2 DEF NoRequest
  <2>2. CASE p # q
    <3>1. request'[p] = request[p] /\ TodoOf(p, i)' = TodoOf(p, i)
      BY <2>2, <1>2 DEF TodoOf
    <3> QED
      BY <3>1 DEF Hand, Working, Current
  <2> QED
    BY <2>1, <2>2
<1>4. HandsKept
  BY <1>3 DEF HandsKept
<1>5. Batches'
  <2>1. ASSUME NEW p \in Requests
        PROVE  /\ request'[p].todo \cup request'[p].errors \subseteq 1 .. rated
               /\ p > requests => request'[p] = NoRequest
               /\ \A i \in Items : request'[p].seen[i] \in Seq(1 .. rated)
    BY <1>2, EmptySeq DEF Batches, NoRequest
  <2> QED
    BY <2>1 DEF Batches, FlushesFall
<1> QED
  BY <1>2, <1>4, <1>5

\* What the page and the network do is nothing to the hands.
LEMMA QuietKeeps ==
    ASSUME TypeOK, Batches,
           UNCHANGED <<request, requests, claimed, stability, interrupted, overwritten, item, rated>>,
           FlushesFall
    PROVE  HandsKept /\ Batches'
BY DEF HandsKept, Batches, FlushesFall, Hand, Working, TodoOf, Current

LEMMA FlushEnds ==
    ASSUME TypeOK, Batches, NEW f \in Flushes, NEW call \in FlushStates, flush' = [flush EXCEPT ![f] = call],
           call.batch \subseteq flush[f].batch, call.at # "posting"
    PROVE  FlushesFall /\ flush'[f] = call /\ \A g \in Flushes \ {f} : flush'[g] = flush[g]
<1>1. flush' \in [Flushes -> FlushStates] /\ flush'[f] = call /\ \A g \in Flushes \ {f} : flush'[g] = flush[g]
  BY DEF TypeOK
<1> QED
  BY <1>1 DEF FlushesFall

LEMMA ReplyReads ==
    ASSUME TypeOK, Batches, NEW f \in Flushes, Reply(f)
    PROVE  /\ flush[f].at = "posting" /\ flush[f].request \in Requests /\ FlushesFall
           /\ flush'[f].batch = flush[f].batch /\ \A g \in Flushes \ {f} : flush'[g] = flush[g]
           /\ \/ /\ flush'[f].at = "answered" /\ flush'[f].failed = request[flush[f].request].errors
                 /\ ~Broken(flush[f].request) /\ request[flush[f].request].todo = {}
                 /\ request' = [request EXCEPT ![flush[f].request] = NoRequest]
              \/ flush'[f].at = "refused" /\ UNCHANGED request
<1>1. flush[f] \in FlushStates /\ flush[f].at = "posting" /\ flush[f].request \in Requests
  <2>1. flush[f].at = "posting"
    BY DEF Reply
  <2>2. flush[f].request \in 1 .. requests
    BY <2>1 DEF Batches
  <2>3. requests \in 0 .. MaxRequests /\ flush[f] \in FlushStates
    BY DEF TypeOK
  <2>4. flush[f].request \in Requests
    BY <2>2, <2>3, OfflineReviewAssumption DEF Requests
  <2> QED
    BY <2>1, <2>3, <2>4
<1>2. request[flush[f].request].errors \in SUBSET Reviews
  BY <1>1 DEF TypeOK, RequestStates
<1>3. CASE /\ ~Broken(flush[f].request) /\ request[flush[f].request].todo = {}
           /\ flush' = [flush EXCEPT ![f].at = "answered", ![f].failed = request[flush[f].request].errors]
           /\ request' = [request EXCEPT ![flush[f].request] = NoRequest]
  <2> DEFINE call == [flush[f] EXCEPT !.at = "answered", !.failed = request[flush[f].request].errors]
  <2>1. call \in FlushStates /\ call.at = "answered" /\ call.batch = flush[f].batch
        /\ call.failed = request[flush[f].request].errors
    BY <1>1, <1>2 DEF FlushStates
  <2>2. flush' = [flush EXCEPT ![f] = call]
    BY <1>3
  <2> HIDE DEF call
  <2>3. FlushesFall /\ flush'[f] = call /\ \A g \in Flushes \ {f} : flush'[g] = flush[g]
    BY <2>1, <2>2, FlushEnds
  <2> QED
    BY <1>1, <1>3, <2>1, <2>3
<1>4. CASE flush' = [flush EXCEPT ![f].at = "refused"] /\ UNCHANGED request
  <2> DEFINE call == [flush[f] EXCEPT !.at = "refused"]
  <2>1. call \in FlushStates /\ call.at = "refused" /\ call.batch = flush[f].batch
    BY <1>1 DEF FlushStates
  <2>2. flush' = [flush EXCEPT ![f] = call]
    BY <1>4
  <2> HIDE DEF call
  <2>3. FlushesFall /\ flush'[f] = call /\ \A g \in Flushes \ {f} : flush'[g] = flush[g]
    BY <2>1, <2>2, FlushEnds
  <2> QED
    BY <1>1, <1>4, <2>1, <2>3
<1> QED
  BY <1>3, <1>4 DEF Reply

LEMMA LostReads ==
    ASSUME TypeOK, Batches, NEW f \in Flushes, RequestLost(f)
    PROVE  /\ flush[f].at = "posting" /\ flush[f].request \in Requests /\ FlushesFall
           /\ flush'[f].at = "refused" /\ \A g \in Flushes \ {f} : flush'[g] = flush[g]
           /\ \/ UNCHANGED request
              \/ /\ \A i \in Items : request[flush[f].request].at[i] = "claim"
                 /\ request' = [request EXCEPT ![flush[f].request] = NoRequest]
<1>1. flush[f] \in FlushStates /\ flush[f].at = "posting" /\ flush[f].request \in Requests
  <2>1. flush[f].at = "posting"
    BY DEF RequestLost
  <2>2. flush[f].request \in 1 .. requests
    BY <2>1 DEF Batches
  <2>3. requests \in 0 .. MaxRequests /\ flush[f] \in FlushStates
    BY DEF TypeOK
  <2>4. flush[f].request \in Requests
    BY <2>2, <2>3, OfflineReviewAssumption DEF Requests
  <2> QED
    BY <2>1, <2>3, <2>4
<1> DEFINE call == [flush[f] EXCEPT !.at = "refused"]
<1>2. call \in FlushStates /\ call.at = "refused" /\ call.batch = flush[f].batch
  BY <1>1 DEF FlushStates
<1>3. flush' = [flush EXCEPT ![f] = call]
  BY DEF RequestLost
<1> HIDE DEF call
<1>4. FlushesFall /\ flush'[f] = call /\ \A g \in Flushes \ {f} : flush'[g] = flush[g]
  BY <1>2, <1>3, FlushEnds
<1>5. \/ UNCHANGED request
      \/ /\ request[flush[f].request].at = NoRequest.at
         /\ request' = [request EXCEPT ![flush[f].request] = NoRequest]
  BY DEF RequestLost
<1>6. \A i \in Items : NoRequest.at[i] = "claim"
  BY DEF NoRequest
<1> QED
  BY <1>1, <1>2, <1>4, <1>5, <1>6

LEMMA DoneReads ==
    ASSUME TypeOK, Batches, NEW f \in Flushes, DeleteHandled(f) \/ Throw(f)
    PROVE  /\ FlushesFall /\ flush'[f] = Idle /\ \A g \in Flushes \ {f} : flush'[g] = flush[g]
           /\ UNCHANGED <<dueCards, rated, item, owner, pageVars, serverVars, history, faults>>
           /\ sync' \in {"none", "registered", sync}
<1>1. Idle \in FlushStates /\ Idle.batch = {} /\ Idle.at # "posting"
  BY OfflineReviewAssumption DEF Idle, FlushStates
<1>2. flush' = [flush EXCEPT ![f] = Idle]
  BY DEF DeleteHandled, Throw
<1>3. FlushesFall /\ flush'[f] = Idle /\ \A g \in Flushes \ {f} : flush'[g] = flush[g]
  BY <1>1, <1>2, FlushEnds
<1> QED
  BY <1>3 DEF DeleteHandled, Throw, SyncEnds, clientVars

\* The part of TypeOK that the browser keeps.
ClientTypes ==
    /\ queue \subseteq 1 .. rated /\ rated \in 0 .. MaxReviews
    /\ dueCards \in Lists
    /\ item \in [1 .. rated -> Items]
    /\ {tab, owner, online, registering} \subseteq BOOLEAN /\ opens \in 0 .. MaxOpens
    /\ page \in Pages /\ (page.status # "success" => page.items = <<>>)
    /\ package \in {[at |-> "none", list |-> <<>>], [at |-> "asked", list |-> <<>>]} \cup [at : {"got"}, list : Lists]
    /\ sync \in {"none", "registered", "firing", "again"}
    /\ faults \in 0 .. MaxFaults

LEMMA ReplyCounts ==
    ASSUME CountInv, NEW f \in Flushes, Reply(f) \/ RequestLost(f)
    PROVE  CountInv'
<1>1. TypeOK /\ Batches
  BY DEF CountInv
<1>2. /\ UNCHANGED <<clientVars, pageVars, sync, requests, claimed, stability, history>>
      /\ faults' \in 0 .. MaxFaults
  BY <1>1, OfflineReviewAssumption DEF Reply, RequestLost, Fault, TypeOK
<1>3. PICK q \in Requests :
        /\ FlushesFall
        /\ \/ UNCHANGED request
           \/ (\A i \in Items : ~Hand(q, i)) /\ request' = [request EXCEPT ![q] = NoRequest]
  <2>1. CASE Reply(f)
    BY <2>1, <1>1, ReplyReads DEF Hand, Working, TodoOf
  <2>2. CASE RequestLost(f)
    BY <2>2, <1>1, LostReads DEF Hand
  <2> QED
    BY <2>1, <2>2
<1>4. HandsKept /\ Batches' /\ request' \in [Requests -> RequestStates]
  <2>1. CASE UNCHANGED request
    BY <2>1, <1>1, <1>2, <1>3, QuietKeeps DEF TypeOK, clientVars, history
  <2>2. CASE (\A i \in Items : ~Hand(q, i)) /\ request' = [request EXCEPT ![q] = NoRequest]
    BY <2>2, <1>1, <1>2, <1>3, ResetKeeps DEF clientVars, history
  <2> QED
    BY <2>1, <2>2, <1>3
<1>5. TypeOK'
  BY <1>1, <1>2, <1>3, <1>4 DEF TypeOK, FlushesFall, clientVars, pageVars, history
<1> QED
  BY <1>4, <1>5, KeptCounts

LEMMA QuietCounts ==
    ASSUME CountInv, ClientTypes', UNCHANGED <<item, rated, serverVars, history>>, FlushesFall
    PROVE  CountInv'
<1>1. TypeOK /\ Batches
  BY DEF CountInv
<1>2. HandsKept /\ Batches'
  BY <1>1, QuietKeeps DEF serverVars, history
<1>3. TypeOK'
  BY <1>1 DEF TypeOK, ClientTypes, FlushesFall, serverVars, history
<1> QED
  BY <1>2, <1>3, KeptCounts

LEMMA ClientCounts ==
    ASSUME CountInv, ClientTypes', NEW pending, NEW itemOf, pending \subseteq 1 .. rated',
           NoFlush \/ \E f \in Flushes : Post(f, pending, itemOf),
           UNCHANGED <<claimed, stability, interrupted, misled, overwritten>>,
           rated' \in rated .. MaxReviews, \A r \in 1 .. rated : item'[r] = item[r]
    PROVE  CountInv'
<1>1. TypeOK /\ Batches
  BY DEF CountInv
<1>2. /\ 1 .. rated \subseteq 1 .. rated' /\ pending \in SUBSET Reviews
      /\ rated \in Nat /\ rated' \in Nat
  BY <1>1, OfflineReviewAssumption DEF Reviews, TypeOK
<1>3. stability' \in [Items -> Seq(1 .. rated')]
  <2>1. \A i \in Items : stability[i] \in Seq(1 .. rated)
    BY <1>1 DEF TypeOK
  <2>2. \A i \in Items : stability[i] \in Seq(1 .. rated')
    BY <2>1, <1>2, SeqMonotonic
  <2> QED
    BY <2>2, <1>1 DEF TypeOK
<1>4. /\ Batches' /\ HandsKept
      /\ flush' \in [Flushes -> FlushStates] /\ request' \in [Requests -> RequestStates]
      /\ requests' \in 0 .. MaxRequests /\ mixed' \subseteq Items
  <2>1. CASE NoFlush
    <3>1. UNCHANGED <<flush, request, requests, mixed>>
      BY <2>1 DEF NoFlush
    <3>2. \A q \in Requests, i \in Items : request[q].seen[i] \in Seq(1 .. rated')
      BY <1>1, <1>2, SeqMonotonic DEF Batches
    <3>3. Batches'
      BY <1>1, <1>2, <3>1, <3>2 DEF Batches
    <3>4. \A q \in Requests, i \in Items : TodoOf(q, i)' = TodoOf(q, i)
      BY <1>1, <3>1 DEF Batches, TodoOf
    <3>5. HandsKept
      BY <3>1, <3>4 DEF HandsKept, Hand, Working, Current
    <3> QED
      BY <1>1, <3>1, <3>3, <3>5 DEF TypeOK
  <2>2. ASSUME NEW f \in Flushes, Post(f, pending, itemOf)
        PROVE  <1>4!1 /\ <1>4!2 /\ <1>4!3
    BY <2>2, <1>1, <1>2, PostTypes, PostHands
  <2> QED
    BY <2>1, <2>2
<1>5. TypeOK'
  BY <1>1, <1>2, <1>3, <1>4 DEF TypeOK, ClientTypes
<1> QED
  BY <1>4, <1>5, KeptCounts

\* Each action of the browser keeps its types.
LEMMA PageRecords ==
    ASSUME TypeOK
    PROVE  /\ ClientTypes /\ NoPackage \in {NoPackage, [at |-> "asked", list |-> <<>>]}
           /\ Loading \in Pages /\ Loading.items = <<>>
           /\ page.status \in {"loading", "success", "error"} /\ page.items \in Lists /\ page.index \in Nat
           /\ \A list \in Lists, n \in Nat : [status |-> "success", items |-> list, index |-> n] \in Pages
           /\ \A n \in Nat : [status |-> "error", items |-> <<>>, index |-> n] \in Pages
           /\ page = [status |-> page.status, items |-> page.items, index |-> page.index]
BY CardsAndNone DEF TypeOK, ClientTypes, Pages, Loading

LEMMA DoneTypes ==
    ASSUME CountInv, NEW f \in Flushes, DeleteHandled(f) \/ Throw(f)
    PROVE  CountInv'
<1>1. TypeOK /\ Batches
  BY DEF CountInv
<1>2. /\ FlushesFall /\ UNCHANGED <<dueCards, rated, item, owner, pageVars, serverVars, history, faults>>
      /\ sync' \in {"none", "registered", sync} /\ queue' \subseteq queue
  BY <1>1, DoneReads DEF DeleteHandled, Throw, clientVars
<1>3. ClientTypes'
  BY <1>1, <1>2 DEF TypeOK, ClientTypes, pageVars
<1> QED
  BY <1>2, <1>3, QuietCounts

LEMMA PageTypes ==
    ASSUME CountInv, LoadsNothing \/ PackageAnswered \/ PackageStored \/ PackageFails
    PROVE  CountInv'
<1>1. TypeOK
  BY DEF CountInv
<1>2. /\ UNCHANGED <<queue, rated, item, owner, tab, opens, online, registering, sync, flush, serverVars, history>>
      /\ faults' \in 0 .. MaxFaults
  BY <1>1, OfflineReviewAssumption DEF LoadsNothing, PackageAnswered, PackageStored, PackageFails, pageFrame, Fault, TypeOK
<1>3. page' \in Pages /\ (page'.status # "success" => page'.items = <<>>) /\ dueCards' \in Lists
      /\ package' \in {[at |-> "none", list |-> <<>>], [at |-> "asked", list |-> <<>>]} \cup [at : {"got"}, list : Lists]
  <2>1. CASE LoadsNothing
    <3>1. page' = [status |-> "error", items |-> <<>>, index |-> page.index] /\ UNCHANGED <<dueCards, package>>
      BY <2>1, <1>1, PageRecords DEF LoadsNothing, TypeOK
    <3> QED
      BY <3>1, <1>1, PageRecords DEF TypeOK
  <2>2. CASE PackageAnswered
    <3>1. UNCHANGED <<page, dueCards>> /\ package' \in [at : {"got"}, list : Lists]
      BY <2>2 DEF PackageAnswered
    <3> QED
      BY <3>1, <1>1 DEF TypeOK
  <2>3. CASE PackageStored
    <3>1. package.list \in Lists
      BY <2>3, <1>1 DEF PackageStored, TypeOK
    <3>2. /\ page' = [status |-> "success", items |-> package.list, index |-> page.index]
          /\ dueCards' = package.list /\ package' = [at |-> "none", list |-> <<>>]
      BY <2>3, <1>1, PageRecords DEF PackageStored, NoPackage
    <3> QED
      BY <3>1, <3>2, <1>1, PageRecords
  <2>4. CASE PackageFails
    <3>1. UNCHANGED dueCards /\ package' = [at |-> "none", list |-> <<>>]
          /\ page' = IF page.status = "success" THEN page ELSE [page EXCEPT !.status = "error"]
      BY <2>4 DEF PackageFails, pageFrame, NoPackage
    <3>2. page.status # "success" => page' = [status |-> "error", items |-> <<>>, index |-> page.index]
      BY <3>1, <1>1, PageRecords DEF TypeOK
    <3> QED
      BY <3>1, <3>2, <1>1, PageRecords DEF TypeOK
  <2> QED
    BY <2>1, <2>2, <2>3, <2>4
<1>4. ClientTypes'
  BY <1>1, <1>2, <1>3 DEF TypeOK, ClientTypes
<1>5. FlushesFall
  BY <1>1, <1>2 DEF TypeOK, FlushesFall
<1> QED
  BY <1>2, <1>4, <1>5, QuietCounts

LEMMA BrowserTypes ==
    ASSUME CountInv, RegisterBackgroundSync \/ CloseTab \/ SwitchAccount \/ GoOffline
    PROVE  CountInv'
<1>1. TypeOK
  BY DEF CountInv
<1>2. /\ UNCHANGED <<queue, dueCards, rated, item, opens, serverVars, history>> /\ faults' \in 0 .. MaxFaults
      /\ sync' \in {"none", "registered", "firing", "again"}
      /\ {tab', owner', online', registering'} \subseteq BOOLEAN
  <2>1. CASE RegisterBackgroundSync
    <3>1. UNCHANGED <<clientVars, tab, opens, online, page, package, flush, serverVars, history, faults>>
          /\ registering' = FALSE
          /\ sync' = IF sync = "none" THEN "registered" ELSE IF sync = "firing" THEN "again" ELSE sync
      BY <2>1 DEF RegisterBackgroundSync
    <3> QED
      BY <3>1, <1>1 DEF TypeOK, clientVars
  <2>2. CASE CloseTab
    BY <2>2, <1>1 DEF CloseTab, TypeOK, clientVars
  <2>3. CASE SwitchAccount
    <3>1. /\ owner' = ~owner /\ faults' \in 0 .. MaxFaults
          /\ UNCHANGED <<queue, dueCards, rated, item, pageVars, sync, flush, serverVars, history>>
      BY <2>3, <1>1, OfflineReviewAssumption DEF SwitchAccount, TypeOK, Fault
    <3>2. owner' \in BOOLEAN
      BY <3>1
    <3> QED
      BY <3>1, <3>2, <1>1 DEF TypeOK, pageVars
  <2>4. CASE GoOffline
    <3>1. /\ online' = FALSE /\ faults' \in 0 .. MaxFaults
          /\ UNCHANGED <<clientVars, tab, opens, page, package, registering, sync, flush, serverVars, history>>
      BY <2>4, <1>1, OfflineReviewAssumption DEF GoOffline, TypeOK, Fault
    <3> QED
      BY <3>1, <1>1 DEF TypeOK, clientVars
  <2> QED
    BY <2>1, <2>2, <2>3, <2>4
<1>3. page' \in {page, Loading} /\ package' \in {package, [at |-> "none", list |-> <<>>]}
  BY DEF RegisterBackgroundSync, CloseTab, SwitchAccount, GoOffline, pageVars, NoPackage
<1>4. ClientTypes'
  BY <1>1, <1>2, <1>3, PageRecords DEF TypeOK, ClientTypes
<1>5. FlushesFall
  <2>1. Idle \in FlushStates /\ Idle.batch = {} /\ Idle.at # "posting"
    BY OfflineReviewAssumption DEF Idle, FlushStates
  <2>2. CASE CloseTab
    BY <2>1, <2>2, <1>1 DEF CloseTab, FlushesFall, TypeOK
  <2>3. CASE UNCHANGED flush
    BY <2>3, <1>1 DEF FlushesFall, TypeOK
  <2> QED
    BY <2>2, <2>3 DEF RegisterBackgroundSync, SwitchAccount, GoOffline
<1> QED
  BY <1>2, <1>4, <1>5, QuietCounts

\* The steps that may flush: what they post is the queue, and its items are known.
FlushStep ==
    /\ \E pending, itemOf :
         /\ pending = queue' /\ itemOf = item'
         /\ NoFlush \/ \E f \in Flushes : Post(f, pending, itemOf)
    /\ UNCHANGED <<dueCards, owner, claimed, stability, interrupted, misled, overwritten, faults>>
    /\ queue \subseteq queue'
    /\ rated' \in rated .. MaxReviews /\ \A r \in 1 .. rated : item'[r] = item[r]
    /\ \A r \in 1 .. rated' : r > rated => r \in queue'
    /\ ClientTypes'

LEMMA SyncFlushes == ASSUME TypeOK, SyncFires PROVE FlushStep
<1>1. /\ sync' \in {"none", "firing"}
      /\ NoFlush \/ Post(Worker, queue, item)
      /\ UNCHANGED <<clientVars, pageVars, claimed, stability, interrupted, misled, overwritten, faults>>
  BY DEF SyncFires
<1>2. ClientTypes'
  BY <1>1 DEF TypeOK, ClientTypes, clientVars, pageVars
<1>3. Worker \in Flushes
  BY DEF Flushes
<1> QED
  BY <1>1, <1>2, <1>3 DEF FlushStep, TypeOK, clientVars

LEMMA OpenFlushes == ASSUME TypeOK, OpenTab PROVE FlushStep
<1>1. /\ tab' = TRUE /\ opens' \in 0 .. MaxOpens
      /\ NoFlush \/ \E f \in Flushes : Post(f, queue, item)
      /\ UNCHANGED <<clientVars, online, registering, sync, claimed, stability, interrupted, misled, overwritten, faults>>
  BY OfflineReviewAssumption DEF OpenTab, TabFlush, Flushes, TypeOK
<1>2. package' \in {[at |-> "none", list |-> <<>>], [at |-> "asked", list |-> <<>>]}
  BY DEF OpenTab, NoPackage
<1>3. page' \in {Loading, [status |-> "success", items |-> dueCards, index |-> 0]}
  BY DEF OpenTab, Loading
<1>4. ClientTypes'
  BY <1>1, <1>2, <1>3, PageRecords DEF TypeOK, ClientTypes, clientVars
<1> QED
  BY <1>1, <1>4 DEF FlushStep, TypeOK, clientVars

LEMMA OnlineFlushes == ASSUME TypeOK, GoOnline PROVE FlushStep
<1>1. /\ online' = TRUE
      /\ NoFlush \/ \E f \in Flushes : Post(f, queue, item)
      /\ UNCHANGED <<clientVars, tab, opens, page, package, registering, sync, claimed, stability, interrupted, misled, overwritten, faults>>
  BY DEF GoOnline, TabFlush, Flushes
<1>2. ClientTypes'
  BY <1>1 DEF TypeOK, ClientTypes, clientVars
<1> QED
  BY <1>1, <1>2 DEF FlushStep, TypeOK, clientVars

LEMMA RatingFlushes == ASSUME TypeOK, SubmitRating PROVE FlushStep
<1> DEFINE card == page.items[page.index + 1]
<1>1. /\ Shown /\ rated < MaxReviews /\ rated' = rated + 1 /\ item' = Append(item, card)
      /\ queue' = queue \cup {rated + 1} /\ registering' = HasSync
      /\ page' = [page EXCEPT !.index = @ + 1]
      /\ NoFlush \/ \E f \in Flushes : Post(f, queue \cup {rated + 1}, item')
      /\ UNCHANGED <<dueCards, owner, tab, opens, online, package, sync, claimed, stability, interrupted, misled, overwritten, faults>>
  BY DEF SubmitRating, TabFlush, Flushes
<1>2. page.items \in Lists /\ page.index \in Nat /\ page.status = "success" /\ page.index < Len(page.items)
  BY <1>1, PageRecords DEF Shown
<1>3. card \in Items
  <2>1. page.index + 1 \in 1 .. Len(page.items)
    BY <1>2, ListsAreSeqs
  <2> QED
    BY <1>2, <2>1, ListsAreSeqs
<1>4. /\ item' \in [1 .. rated + 1 -> Items] /\ \A r \in 1 .. rated : item'[r] = item[r]
      /\ rated \in Nat /\ rated' \in rated .. MaxReviews /\ rated' \in 0 .. MaxReviews
      /\ queue' \subseteq 1 .. rated' /\ \A r \in 1 .. rated' : r > rated => r \in queue'
  <2>1. rated \in Nat /\ item \in [1 .. rated -> Items] /\ queue \subseteq 1 .. rated
    BY OfflineReviewAssumption DEF TypeOK
  <2>2. item' \in [1 .. rated + 1 -> Items] /\ \A r \in 1 .. rated : item'[r] = item[r]
    <3> HIDE DEF card
    <3>1. item \in Row(rated, Items)
      BY <2>1 DEF Row
    <3>2. Append(item, card) \in Row(rated + 1, Items)
      BY <1>3, <2>1, <3>1, OneMore
    <3>3. \A r \in 1 .. rated : Append(item, card)[r] = item[r]
      BY <1>3, <2>1, <3>1, OneMore
    <3> QED
      BY <1>1, <3>2, <3>3 DEF Row
  <2> QED
    BY <1>1, <2>1, <2>2, OfflineReviewAssumption
<1>5. page' = [status |-> "success", items |-> page.items, index |-> page.index + 1]
  BY <1>1, <1>2, PageRecords
<1>6. ClientTypes'
  <2>1. page' \in Pages /\ page'.status = "success"
    BY <1>2, <1>5, PageRecords
  <2>2. registering' \in BOOLEAN
    BY <1>1, OfflineReviewAssumption
  <2> QED
    BY <1>1, <1>4, <2>1, <2>2 DEF TypeOK, ClientTypes
<1> QED
  BY <1>1, <1>4, <1>6 DEF FlushStep

LEMMA FlushCounts ==
    ASSUME CountInv, FlushStep
    PROVE  CountInv'
<1>1. TypeOK /\ ClientTypes' /\ rated' \in rated .. MaxReviews /\ \A r \in 1 .. rated : item'[r] = item[r]
  BY DEF CountInv, FlushStep
<1>2. UNCHANGED <<claimed, stability, interrupted, misled, overwritten>>
  BY DEF FlushStep
<1>3. PICK pending, itemOf :
        pending = queue' /\ (NoFlush \/ \E f \in Flushes : Post(f, pending, itemOf))
  BY DEF FlushStep
<1>4. pending \subseteq 1 .. rated'
  BY <1>1, <1>3 DEF ClientTypes
<1> QED
  BY <1>1, <1>2, <1>3, <1>4, ClientCounts

LEMMA CountInit == Init => CountInv
<1> SUFFICES ASSUME Init PROVE CountInv
  OBVIOUS
<1>1. NoRequest \in RequestStates /\ Idle \in FlushStates
  BY OfflineReviewAssumption, EmptySeq DEF NoRequest, RequestStates, Coroutines, Idle, FlushStates
<1>2. TypeOK
  <2>1. /\ queue \subseteq 1 .. rated /\ rated \in 0 .. MaxReviews /\ opens \in 0 .. MaxOpens
        /\ item \in [1 .. rated -> Items] /\ requests \in 0 .. MaxRequests /\ faults \in 0 .. MaxFaults
        /\ {tab, owner, online, registering} \subseteq BOOLEAN
    <3>1. <<>> \in [1 .. 0 -> Items]
      OBVIOUS
    <3>2. rated = 0 /\ item = <<>> /\ queue = {} /\ opens = 0 /\ requests = 0 /\ faults = 0
      BY DEF Init
    <3>3. {tab, owner, online, registering} \subseteq BOOLEAN
      BY DEF Init
    <3> QED
      BY <3>1, <3>2, <3>3, OfflineReviewAssumption
  <2>2. /\ dueCards \in Lists /\ page \in Pages /\ page.items = <<>>
        /\ package = [at |-> "none", list |-> <<>>]
    BY CardsAndNone DEF Init, Pages, Loading, NoPackage
  <2>3. /\ flush \in [Flushes -> FlushStates] /\ request \in [Requests -> RequestStates]
        /\ claimed \subseteq 1 .. rated /\ interrupted \cup overwritten \subseteq claimed
        /\ misled \subseteq 1 .. rated /\ mixed \subseteq Items
        /\ sync \in {"none", "registered", "firing", "again"}
    BY <1>1 DEF Init
  <2>4. stability \in [Items -> Seq(1 .. rated)]
    BY EmptySeq DEF Init
  <2> QED
    BY <2>1, <2>2, <2>3, <2>4 DEF TypeOK
<1>3. Batches
  BY EmptySeq DEF Init, Batches, NoRequest, Idle
<1>4. \A q \in Requests, i \in Items : request[q].at[i] = "claim" /\ request[q].seen[i] = <<>>
  BY DEF Init, NoRequest
<1>5. OwnWrites /\ HeldOnce
  BY <1>4 DEF OwnWrites, HeldOnce, Hand
<1>6. Histories
  BY <1>4 DEF Histories, HistoryOf, Once, Init
<1> QED
  BY <1>2, <1>3, <1>5, <1>6 DEF CountInv

LEMMA CountNext == CountInv /\ [Next]_vars => CountInv'
<1> SUFFICES ASSUME CountInv, [Next]_vars PROVE CountInv'
  OBVIOUS
<1>1. CASE Agent
  BY <1>1, ClaimCounts, ReadCounts, WriteCounts, ReleaseCounts DEF Agent
<1>2. CASE Flushing
  BY <1>2, ReplyCounts, DoneTypes DEF Flushing
<1>3. CASE User
  BY <1>3, OpenFlushes, RatingFlushes, FlushCounts, BrowserTypes DEF User, CountInv
<1>4. CASE PageLoads
  BY <1>4, PageTypes DEF PageLoads
<1>5. CASE Failures
  BY <1>5, CrashCounts, BrowserTypes, PageTypes, FailCounts, ReplyCounts DEF Failures
<1>6. CASE SyncFires \/ RegisterBackgroundSync \/ GoOnline
  BY <1>6, SyncFlushes, OnlineFlushes, FlushCounts, BrowserTypes DEF CountInv
<1>7. CASE UNCHANGED vars
  <2>1. ClientTypes' /\ FlushesFall
    BY <1>7 DEF CountInv, TypeOK, ClientTypes, FlushesFall, vars, clientVars, pageVars
  <2> QED
    BY <2>1, <1>7, QuietCounts DEF vars, clientVars, serverVars
<1> QED
  BY <1>1, <1>2, <1>3, <1>4, <1>5, <1>6, <1>7 DEF Next

\* The variables have their types; of the log: what a failure interrupted or a
\* later write undid is in it still.
THEOREM TypeCorrect == Spec => []TypeOK
<1>1. CountInv => TypeOK
  BY DEF CountInv
<1> QED
  BY <1>1, CountInit, CountNext, PTL DEF Spec

\* A review moves the stability of its item once, however often the page and the
\* worker post it: the claim in offline_review_log is taken once, and what a
\* coroutine writes back is what it read and the one review it holds.
THEOREM CountsOnce == Spec => []CountedOnce
<1>1. CountInv => CountedOnce
  BY DEF CountInv, Histories, HistoryOf, Once, CountedOnce
<1> QED
  BY <1>1, CountInit, CountNext, PTL DEF Spec

-----------------------------------------------------------------------------
(* A review leaves the queue when it is safe.                               *)

\* In hand is what one of the learner's own requests has.
LEMMA SafeMeans ==
    ASSUME CountInv, NEW r \in 1 .. rated
    PROVE  /\ Safe(r) <=> r \in Counted(item[r]) \cup InHand \cup interrupted \cup misled \cup overwritten
           /\ HeldByStranger(r) <=> \E q \in Requests : ~request[q].own /\ HandedTo(q, r)
<1>1. item[r] \in Items /\ OwnWrites
  BY DEF CountInv, TypeOK
<1>2. \A q \in Requests : request[q].at[item[r]] \in Coroutines /\ request[q].own \in BOOLEAN
  BY <1>1, RequestReads DEF CountInv
<1>3. ASSUME NEW q \in Requests
      PROVE  request[q].own /\ HandedTo(q, r) <=>
             /\ request[q].own /\ Working(q, item[r]) /\ Current(q, item[r]) = r
             /\ request[q].at[item[r]] \in {"read", "write"}
  BY <1>1, <1>2 DEF OwnWrites, HandedTo, Hand, Working, Coroutines
<1>4. r \in InHand <=> \E q \in Requests : request[q].own /\ HandedTo(q, r)
  BY <1>3 DEF InHand
<1>5. HeldByStranger(r) <=> \E q \in Requests : ~request[q].own /\ HandedTo(q, r)
  BY DEF HeldByStranger, HandedTo, Hand
<1> QED
  BY <1>4, <1>5 DEF Safe

\* What is kept is safe, unless a stranger has it.
LEMMA KeptOrStranger ==
    ASSUME CountInv, NEW r \in 1 .. rated, Kept(r)
    PROVE  Safe(r) \/ HeldByStranger(r)
BY SafeMeans DEF Kept, Safe

\* Nothing that made a review safe is undone by a step that leaves the hands alone.
LEMMA KeptSafe ==
    ASSUME CountInv, HandsKept, misled \subseteq misled', NEW r \in 1 .. rated
    PROVE  (Safe(r) => Safe(r)') /\ (Kept(r) => Kept(r)')
<1>1. item'[r] = item[r] /\ item[r] \in Items /\ UNCHANGED <<claimed, stability, interrupted, overwritten>>
  BY DEF HandsKept, CountInv, TypeOK
<1>2. Counted(item[r])' = Counted(item[r])
  BY <1>1 DEF Counted
<1>3. ASSUME NEW q \in Requests, HandedTo(q, r)
      PROVE  HandedTo(q, r)' /\ request'[q].own = request[q].own
  <2>1. Hand(q, item[r]) /\ Current(q, item[r]) = r
    BY <1>3 DEF HandedTo
  <2>2. PICK i \in Items : i = item[r]
    BY <1>1
  <2>3. Hand(q, i)' /\ Current(q, i)' = r
    BY <2>1, <2>2 DEF HandsKept
  <2>4. request'[q].own = request[q].own
    BY <2>3 DEF HandsKept, Hand
  <2>5. HandedTo(q, r)'
    BY <2>2, <2>3, <1>1 DEF HandedTo, Hand, Working, Current, TodoOf
  <2> QED
    BY <2>4, <2>5
<1> QED
  BY <1>1, <1>2, <1>3 DEF Safe, Kept

\* A step of a coroutine keeps the reviews safe that it does not handle, and the
\* one it handles if that counts, was interrupted, or stays in the same hand.
LEMMA WorkSafe ==
    ASSUME CountInv, NEW q \in Requests, NEW i \in Items, NEW gone \in SUBSET {Current(q, i)},
           NEW failed, NEW pc, NEW list, WorkStep(q, i, gone, failed, pc, list),
           interrupted \subseteq interrupted', misled \subseteq misled', overwritten \subseteq overwritten',
           \A j \in Items : Counted(j) \subseteq Counted(j)' \cup overwritten',
           NEW r \in 1 .. rated,
           Hand(q, i) /\ Current(q, i) = r =>
               \/ gone = {} /\ pc \notin {"claim", "dead"}
               \/ r \in Counted(i)' \cup interrupted'
               \/ ~request[q].own /\ r \notin claimed'
    PROVE  (Safe(r) => Safe(r)') /\ (Kept(r) /\ r \in claimed' => Kept(r)')
<1>1. TypeOK /\ Batches /\ item' = item /\ item[r] \in Items
  BY DEF CountInv, TypeOK, WorkStep, agentQuiet, clientVars
<1>2. r \in Counted(item[r]) \cup interrupted \cup overwritten => r \in Counted(item[r])' \cup interrupted' \cup overwritten'
  BY <1>1 DEF Counted
<1>3. ASSUME NEW p \in Requests, HandedTo(p, r)
      PROVE  \/ r \in Counted(item[r])' \cup interrupted'
             \/ HandedTo(p, r)' /\ request'[p].own = request[p].own
             \/ ~request[p].own /\ r \notin claimed'
  <2>1. PICK j \in Items : j = item[r]
    BY <1>1
  <2>2. Hand(p, j) /\ Current(p, j) = r
    BY <1>3, <2>1 DEF HandedTo
  <2>3. ASSUME Hand(p, j)', Current(p, j)' = r
        PROVE  HandedTo(p, r)'
    BY <2>1, <2>3, <1>1 DEF HandedTo, Hand, Working, Current, TodoOf
  <2>4. CASE p = q /\ j = i
    <3>1. CASE gone = {} /\ pc \notin {"claim", "dead"}
      <4>1. Current(q, i)' = Current(q, i) /\ Hand(q, i)' /\ request'[q].own = request[q].own
        BY <3>1, <1>1, SelfWork
      <4> QED
        BY <4>1, <2>1, <2>2, <2>3, <2>4 DEF HandedTo, Hand, Working, Current, TodoOf
    <3>2. CASE r \in Counted(i)' \cup interrupted'
      BY <3>2, <2>1, <2>4, <1>1 DEF Counted
    <3>3. CASE ~request[q].own /\ r \notin claimed'
      BY <3>3, <2>4
    <3> QED
      BY <3>1, <3>2, <3>3, <2>2, <2>4
  <2>5. CASE p # q \/ j # i
    <3>1. Hand(p, j)' /\ Current(p, j)' = r /\ request'[p].own = request[p].own
      <4>1. Hand(p, j)' <=> Hand(p, j)
        BY <2>5, <1>1, OtherWork
      <4>2. Current(p, j)' = Current(p, j)
        BY <2>5, <1>1, OtherWork
      <4>3. request'[p].own = request[p].own
        BY DEF WorkStep
      <4> QED
        BY <4>1, <4>2, <4>3, <2>2
    <3> QED
      BY <3>1, <2>3
  <2> QED
    BY <2>4, <2>5
<1>4. Safe(r) => Safe(r)'
  <2>1. r \in misled => Safe(r)'
    BY DEF Safe
  <2>2. r \in Counted(item[r])' \cup interrupted' \cup overwritten' => Safe(r)'
    BY <1>1 DEF Safe, Counted
  <2>3. ASSUME NEW p \in Requests, request[p].own, HandedTo(p, r)
        PROVE  Safe(r)'
    BY <2>2, <2>3, <1>3 DEF Safe
  <2> QED
    BY <2>1, <2>2, <2>3, <1>2 DEF Safe
<1>5. Kept(r) /\ r \in claimed' => Kept(r)'
  <2>2. r \in Counted(item[r])' \cup interrupted' \cup overwritten' => Kept(r)'
    BY <1>1 DEF Kept, Counted
  <2>3. ASSUME NEW p \in Requests, HandedTo(p, r), r \in claimed'
        PROVE  Kept(r)'
    BY <2>2, <2>3, <1>3 DEF Kept
  <2> QED
    BY <2>2, <2>3, <1>2 DEF Kept
<1> QED
  BY <1>4, <1>5

LEMMA WorkQueue ==
    ASSUME CountInv, QueueInv, NEW q \in Requests, NEW i \in Items, NEW gone \in SUBSET {Current(q, i)},
           NEW failed, NEW pc, NEW list, WorkStep(q, i, gone, failed, pc, list),
           \A r \in 1 .. rated : (Safe(r) => Safe(r)') /\ (Kept(r) /\ r \in claimed' => Kept(r)'),
           \A r \in claimed' \ claimed : Kept(r)',
           \A r \in gone : Safe(r)' \/ r \in failed
    PROVE  QueueInv'
<1>1. /\ TypeOK /\ Batches /\ UNCHANGED <<queue, rated, item, flush, requests>>
      /\ claimed \subseteq 1 .. rated
  BY DEF CountInv, TypeOK, WorkStep, agentQuiet, clientVars
<1>2. ClaimsKept'
  BY <1>1 DEF QueueInv, ClaimsKept
<1>3. \A r \in (1 .. rated') \ queue' : Safe(r)'
  BY <1>1 DEF QueueInv
<1>4. Posted'
  <2>1. \A f, g \in Flushes :
          flush'[f].at = "posting" /\ flush'[g].at = "posting" /\ flush'[f].request = flush'[g].request => f = g
    BY <1>1 DEF QueueInv, Posted
  <2>2. ASSUME NEW f \in Flushes, NEW r \in flush[f].batch, flush[f].at = "posting"
        PROVE  Safe(r)' \/ r \in request'[flush[f].request].todo \cup request'[flush[f].request].errors
    <3>1. r \in 1 .. rated
      BY <1>1 DEF Batches
    <3>2. CASE Safe(r)
      BY <3>1, <3>2
    <3>3. CASE r \in request[flush[f].request].todo \cup request[flush[f].request].errors
      <4>1. PICK p : p = flush[f].request
        OBVIOUS
      <4>2. p \in Requests
        <5>1. p \in 1 .. requests
          BY <4>1, <2>2, <1>1 DEF Batches
        <5>2. requests \in 0 .. MaxRequests
          BY <1>1 DEF TypeOK
        <5> QED
          BY <5>1, <5>2, OfflineReviewAssumption DEF Requests
      <4>3. CASE p = q
        <5>1. request'[q].todo = request[q].todo \ gone /\ request'[q].errors = request[q].errors \cup failed
          BY DEF WorkStep
        <5> QED
          BY <5>1, <4>1, <4>3, <3>3
      <4>4. CASE p # q
        BY <4>1, <4>2, <4>4, <3>3 DEF WorkStep
      <4> QED
        BY <4>3, <4>4
    <3> QED
      BY <2>2, <3>2, <3>3 DEF QueueInv, Posted
  <2>3. ASSUME NEW f \in Flushes, NEW r \in flush[f].batch, flush[f].at = "answered"
        PROVE  Safe(r)' \/ r \in flush[f].failed
    <3>1. r \in 1 .. rated
      BY <1>1 DEF Batches
    <3>2. Safe(r) \/ r \in flush[f].failed
      BY <2>3 DEF QueueInv, Posted
    <3> QED
      BY <3>1, <3>2
  <2> QED
    BY <2>1, <2>2, <2>3, <1>1 DEF Posted
<1> QED
  BY <1>2, <1>3, <1>4 DEF QueueInv

LEMMA ClaimQueue ==
    ASSUME CountInv, QueueInv, NEW q \in Requests, NEW i \in Items, Claim(q, i)
    PROVE  QueueInv'
<1>1. PICK c : c = Current(q, i)
  OBVIOUS
<1>2. /\ TypeOK /\ Batches /\ UNCHANGED <<stability, interrupted, overwritten, rated, item>>
      /\ ~Hand(q, i) /\ TodoOf(q, i) # {}
  BY ClaimStep DEF CountInv, Claim, Hand, Working, agentFrame, clientVars
<1>3. /\ c \in claimed => claimed' = claimed /\ misled' = IF HeldByStranger(c) THEN misled \cup {c} ELSE misled
      /\ c \notin claimed => claimed' = claimed \cup {c} /\ misled' = misled
  BY <1>1 DEF Claim
<1>4. c \in 1 .. rated /\ item[c] = i
  BY <1>1, <1>2, CurrentIn
<1>5. \A j \in Items : Counted(j)' = Counted(j)
  BY <1>2 DEF Counted
<1>6. misled \subseteq misled'
  BY <1>3
<1>7. CASE c \in claimed
  <2>1. WorkStep(q, i, {c}, {}, "claim", request[q].seen[i])
    BY <1>1, <1>2, <1>7, ClaimStep
  <2>2. \A r \in 1 .. rated : (Safe(r) => Safe(r)') /\ (Kept(r) /\ r \in claimed' => Kept(r)')
    BY <2>1, <1>1, <1>2, <1>5, <1>6, WorkSafe
  <2>3. Safe(c)'
    <3>1. Safe(c) \/ HeldByStranger(c)
      BY <1>4, <1>7, KeptOrStranger DEF QueueInv, ClaimsKept
    <3>2. HeldByStranger(c) => c \in misled'
      BY <1>3, <1>7
    <3> QED
      BY <3>1, <3>2, <2>2, <1>4 DEF Safe
  <2> QED
    BY <2>1, <2>2, <2>3, <1>1, <1>3, <1>7, WorkQueue
<1>8. CASE c \notin claimed
  <2>1. WorkStep(q, i, {}, {}, "read", request[q].seen[i])
    BY <1>1, <1>2, <1>8, ClaimStep
  <2>2. \A r \in 1 .. rated : (Safe(r) => Safe(r)') /\ (Kept(r) /\ r \in claimed' => Kept(r)')
    BY <2>1, <1>1, <1>2, <1>5, <1>6, WorkSafe
  <2>3. Kept(c)'
    <3>1. Hand(q, i)' /\ Current(q, i)' = c
      BY <2>1, <1>1, <1>2, SelfWork
    <3>2. HandedTo(q, c)'
      BY <3>1, <1>2, <1>4 DEF HandedTo, Hand, Working, Current, TodoOf
    <3> QED
      BY <3>2 DEF Kept
  <2> QED
    BY <2>1, <2>2, <2>3, <1>3, <1>8, WorkQueue
<1> QED
  BY <1>7, <1>8

LEMMA ReadQueue ==
    ASSUME CountInv, QueueInv, NEW q \in Requests, NEW i \in Items, ReadStability(q, i)
    PROVE  QueueInv'
<1>1. /\ TypeOK /\ Batches
      /\ UNCHANGED <<claimed, stability, interrupted, misled, overwritten>>
  BY ReadStep DEF CountInv, history
<1>2. \A j \in Items : Counted(j)' = Counted(j)
  BY <1>1 DEF Counted
<1>3. PICK pc, list : pc \in {"write", "release"} /\ WorkStep(q, i, {}, {}, pc, list)
  <2>1. request[q].own => WorkStep(q, i, {}, {}, "write", stability[i])
    BY <1>1, ReadStep
  <2>2. ~request[q].own => WorkStep(q, i, {}, {}, "release", request[q].seen[i])
    BY <1>1, ReadStep
  <2> QED
    BY <2>1, <2>2
<1>4. \A r \in 1 .. rated : (Safe(r) => Safe(r)') /\ (Kept(r) /\ r \in claimed' => Kept(r)')
  BY <1>1, <1>2, <1>3, WorkSafe
<1> QED
  BY <1>1, <1>3, <1>4, WorkQueue

LEMMA WriteQueue ==
    ASSUME CountInv, QueueInv, NEW q \in Requests, NEW i \in Items, WriteStability(q, i)
    PROVE  QueueInv'
<1>1. PICK c, seen : c = Current(q, i) /\ seen = request[q].seen[i]
  OBVIOUS
<1>2. /\ TypeOK /\ Batches /\ UNCHANGED <<claimed, interrupted, misled, rated, item>>
      /\ WorkStep(q, i, {c}, {}, "claim", <<>>) /\ Working(q, i)
      /\ stability' = [stability EXCEPT ![i] = Append(seen, c)]
      /\ overwritten' = overwritten \cup (Counted(i) \ {seen[n] : n \in DOMAIN seen})
  <2>1. TypeOK /\ Batches
    BY DEF CountInv
  <2>2. UNCHANGED <<rated, item>> /\ Working(q, i)
    BY DEF WriteStability, agentFrame, clientVars
  <2>3. /\ UNCHANGED <<claimed, interrupted, misled>> /\ WorkStep(q, i, {c}, {}, "claim", <<>>)
        /\ stability' = [stability EXCEPT ![i] = Append(seen, c)]
        /\ overwritten' = overwritten \cup (Counted(i) \ {seen[n] : n \in DOMAIN seen})
    <3>1. UNCHANGED <<claimed, interrupted, misled>> /\ WorkStep(q, i, {Current(q, i)}, {}, "claim", <<>>)
      BY <2>1, WriteStep
    <3>2. stability' = [stability EXCEPT ![i] = Append(request[q].seen[i], Current(q, i))]
      BY DEF WriteStability
    <3>3. overwritten' = overwritten \cup (Counted(i) \ {request[q].seen[i][n] : n \in DOMAIN request[q].seen[i]})
      BY DEF WriteStability, Counted
    <3> QED
      BY <1>1, <3>1, <3>2, <3>3
  <2> QED
    BY <2>1, <2>2, <2>3
<1>3. c \in 1 .. rated /\ item[c] = i
  BY <1>1, <1>2, CurrentIn DEF Working
<1>4. seen \in Seq(1 .. rated)
  BY <1>1, <1>2 DEF Batches
<1>5. /\ DOMAIN Append(seen, c) = 1 .. Len(seen) + 1 /\ Append(seen, c)[Len(seen) + 1] = c
      /\ DOMAIN seen = 1 .. Len(seen) /\ Len(seen) \in Nat
      /\ \A n \in 1 .. Len(seen) : Append(seen, c)[n] = seen[n]
  BY <1>3, <1>4, AppendProperties, LenProperties
<1>6. stability'[i] = Append(seen, c) /\ \A j \in Items \ {i} : stability'[j] = stability[j]
  BY <1>2 DEF TypeOK
<1>7. /\ c \in Counted(i)' /\ \A n \in DOMAIN seen : seen[n] \in Counted(i)'
      /\ \A j \in Items \ {i} : Counted(j)' = Counted(j)
  BY <1>5, <1>6 DEF Counted
<1>8. \A j \in Items : Counted(j) \subseteq Counted(j)' \cup overwritten'
  BY <1>2, <1>7
<1>9. \A r \in 1 .. rated : (Safe(r) => Safe(r)') /\ (Kept(r) /\ r \in claimed' => Kept(r)')
  BY <1>1, <1>2, <1>7, <1>8, WorkSafe
<1>10. Safe(c)'
  BY <1>2, <1>3, <1>7 DEF Safe, Counted
<1> QED
  BY <1>1, <1>2, <1>9, <1>10, WorkQueue

LEMMA ReleaseQueue ==
    ASSUME CountInv, QueueInv, NEW q \in Requests, NEW i \in Items, Release(q, i)
    PROVE  QueueInv'
<1>1. PICK c : c = Current(q, i)
  OBVIOUS
<1>2. /\ TypeOK /\ Batches /\ UNCHANGED <<stability, interrupted, misled, overwritten>> /\ claimed' = claimed \ {c}
      /\ WorkStep(q, i, {c}, {c}, "claim", request[q].seen[i]) /\ ~request[q].own
  BY <1>1, ReleaseStep DEF CountInv, OwnWrites, history
<1>3. \A j \in Items : Counted(j)' = Counted(j)
  BY <1>2 DEF Counted
<1>4. \A r \in 1 .. rated : (Safe(r) => Safe(r)') /\ (Kept(r) /\ r \in claimed' => Kept(r)')
  BY <1>1, <1>2, <1>3, WorkSafe
<1> QED
  BY <1>1, <1>2, <1>4, WorkQueue

LEMMA FailQueue ==
    ASSUME CountInv, QueueInv, NEW q \in Requests, NEW i \in Items, StatementFails(q, i)
    PROVE  QueueInv'
<1>1. /\ TypeOK /\ Batches /\ UNCHANGED <<claimed, stability, misled, overwritten>>
      /\ interrupted' = IF request[q].at[i] = "claim" THEN interrupted ELSE interrupted \cup {Current(q, i)}
      /\ WorkStep(q, i, {}, {}, "dead", request[q].seen[i])
  BY FailStep DEF CountInv
<1>2. \A j \in Items : Counted(j)' = Counted(j)
  BY <1>1 DEF Counted
<1>3. Hand(q, i) => Current(q, i) \in interrupted'
  BY <1>1 DEF Hand
<1>4. \A r \in 1 .. rated : (Safe(r) => Safe(r)') /\ (Kept(r) /\ r \in claimed' => Kept(r)')
  BY <1>1, <1>2, <1>3, WorkSafe
<1> QED
  BY <1>1, <1>4, WorkQueue

LEMMA CrashQueue ==
    ASSUME CountInv, QueueInv, AgentCrashes
    PROVE  QueueInv'
<1>1. TypeOK /\ Batches /\ claimed \subseteq 1 .. rated /\ item \in [1 .. rated -> Items]
  BY DEF CountInv, TypeOK
<1>2. UNCHANGED <<queue, rated, item, flush, requests, claimed, stability, misled, overwritten>>
  BY <1>1, CrashStep DEF agentQuiet, clientVars
<1>3. ASSUME NEW r \in 1 .. rated
      PROVE  (Safe(r) => Safe(r)') /\ (Kept(r) => Kept(r)')
  <2>1. r \in interrupted => r \in interrupted'
    BY <1>1, CrashStep
  <2>2. ASSUME NEW q \in Requests, HandedTo(q, r)
        PROVE  r \in interrupted'
    <3>1. item[r] \in Items
      BY <1>1
    <3> QED
      BY <1>1, <2>2, <3>1, CrashStep DEF HandedTo
  <2>3. Counted(item[r])' = Counted(item[r])
    BY <1>2 DEF Counted
  <2> QED
    BY <2>1, <2>2, <2>3, <1>2 DEF Safe, Kept
<1>4. ClaimsKept' /\ \A r \in (1 .. rated') \ queue' : Safe(r)'
  BY <1>1, <1>2, <1>3 DEF QueueInv, ClaimsKept
<1>5. \A q \in Requests : request'[q].todo = request[q].todo /\ request'[q].errors = request[q].errors
  BY <1>1, CrashStep
<1>6. \A f \in Flushes : flush[f].at = "posting" => flush[f].request \in Requests
  BY <1>1, OfflineReviewAssumption DEF Batches, TypeOK, Requests
<1>7. \A f \in Flushes : flush[f].batch \subseteq 1 .. rated
  BY <1>1 DEF Batches
<1>8. Posted'
  BY <1>2, <1>3, <1>5, <1>6, <1>7 DEF QueueInv, Posted
<1> QED
  BY <1>4, <1>8 DEF QueueInv

\* When no hand is touched, the flushes and the queue are what is left to see.
LEMMA QueueFrame ==
    ASSUME CountInv, QueueInv, HandsKept, misled \subseteq misled', rated' \in Nat, Posted',
           \A r \in (1 .. rated') \ queue' : r <= rated /\ (r \notin queue \/ Safe(r))
    PROVE  QueueInv'
<1>1. claimed \subseteq 1 .. rated /\ rated \in Nat
  BY CountBasics
<1>2. \A r \in 1 .. rated : (Safe(r) => Safe(r)') /\ (Kept(r) => Kept(r)')
  BY KeptSafe
<1>3. ClaimsKept'
  BY <1>1, <1>2 DEF QueueInv, ClaimsKept, HandsKept
<1>4. \A r \in (1 .. rated') \ queue' : Safe(r)'
  BY <1>1, <1>2 DEF QueueInv
<1> QED
  BY <1>3, <1>4 DEF QueueInv

LEMMA ReplyQueue ==
    ASSUME CountInv, QueueInv, NEW f \in Flushes, Reply(f) \/ RequestLost(f)
    PROVE  QueueInv'
<1>1. TypeOK /\ Batches /\ Posted
  BY DEF CountInv, QueueInv
<1>2. /\ UNCHANGED <<queue, rated, item, requests, claimed, stability, interrupted, misled, overwritten>>
      /\ rated \in Nat
  BY <1>1, OfflineReviewAssumption DEF Reply, RequestLost, clientVars, history, TypeOK
<1>3. PICK q \in Requests :
        /\ q = flush[f].request /\ flush[f].at = "posting" /\ FlushesFall
        /\ \A g \in Flushes \ {f} : flush'[g] = flush[g]
        /\ flush'[f].batch \subseteq flush[f].batch
        /\ \/ /\ flush'[f].at = "answered" /\ flush'[f].failed = request[q].errors
              /\ request[q].todo = {} /\ request' = [request EXCEPT ![q] = NoRequest]
           \/ /\ flush'[f].at = "refused"
              /\ \/ UNCHANGED request
                 \/ /\ \A i \in Items : request[q].at[i] = "claim"
                    /\ request' = [request EXCEPT ![q] = NoRequest]
  <2>1. CASE Reply(f)
    BY <2>1, <1>1, ReplyReads
  <2>2. CASE RequestLost(f)
    BY <2>2, <1>1, LostReads DEF FlushesFall
  <2> QED
    BY <2>1, <2>2
<1>4. HandsKept
  <2>1. CASE UNCHANGED request
    BY <2>1, <1>1, <1>2, <1>3, QuietKeeps
  <2>2. CASE request' = [request EXCEPT ![q] = NoRequest] /\ \A i \in Items : ~Hand(q, i)
    BY <2>2, <1>1, <1>2, <1>3, ResetKeeps
  <2> QED
    BY <2>1, <2>2, <1>3 DEF Hand, Working, TodoOf
<1>5. \A r \in 1 .. rated : Safe(r) => Safe(r)'
  BY <1>2, <1>4, KeptSafe
<1>6. \A p \in Requests \ {q} : request'[p] = request[p]
  BY <1>1, <1>3 DEF TypeOK
<1>7. Posted'
  <2>1. \A g, h \in Flushes :
          flush'[g].at = "posting" /\ flush'[h].at = "posting" /\ flush'[g].request = flush'[h].request => g = h
    BY <1>1, <1>3 DEF Posted
  <2>2. ASSUME NEW g \in Flushes \ {f}, NEW r \in flush[g].batch
        PROVE  /\ flush[g].at = "posting" =>
                    Safe(r)' \/ r \in request'[flush[g].request].todo \cup request'[flush[g].request].errors
               /\ flush[g].at = "answered" => Safe(r)' \/ r \in flush[g].failed
    <3>0. requests \in 0 .. MaxRequests
      BY <1>1 DEF TypeOK
    <3>4. flush[g].batch \subseteq 1 .. rated /\ (flush[g].at = "posting" => flush[g].request \in 1 .. requests)
      BY <1>1 DEF Batches
    <3>1. r \in 1 .. rated /\ (flush[g].at = "posting" => flush[g].request \in Requests)
      BY <3>0, <3>4, OfflineReviewAssumption DEF Requests
    <3>2. flush[g].at = "posting" => flush[g].request # q
      BY <1>1, <1>3 DEF Posted
    <3>3. flush[g].at = "posting" => request'[flush[g].request] = request[flush[g].request]
      BY <3>1, <3>2, <1>6
    <3> QED
      BY <3>1, <3>3, <1>1, <1>5 DEF Posted
  <2>3. ASSUME NEW r \in flush'[f].batch, flush'[f].at = "answered"
        PROVE  Safe(r)' \/ r \in flush'[f].failed
    <3>1. r \in flush[f].batch /\ r \in 1 .. rated
      BY <1>1, <1>3, <2>3 DEF Batches
    <3>2. Safe(r) \/ r \in request[q].todo \cup request[q].errors
      BY <3>1, <1>1, <1>3 DEF Posted
    <3> QED
      BY <3>1, <3>2, <2>3, <1>3, <1>5
  <2> QED
    BY <2>1, <2>2, <2>3, <1>3 DEF Posted
<1> QED
  BY <1>2, <1>4, <1>7, QueueFrame

\* A step that serves no request and begins no flush.
LEMMA QuietQueue ==
    ASSUME CountInv, QueueInv, UNCHANGED <<item, rated, serverVars, history>>,
           \A f \in Flushes : flush'[f] \in {flush[f], Idle},
           FlushesFall, \A r \in queue \ queue' : Safe(r)
    PROVE  QueueInv'
<1>1. TypeOK /\ Batches /\ Posted /\ rated \in Nat
  BY OfflineReviewAssumption DEF CountInv, QueueInv, TypeOK
<1>2. HandsKept
  BY <1>1, QuietKeeps DEF serverVars, history
<1>3. \A r \in 1 .. rated : Safe(r) => Safe(r)'
  BY <1>2, KeptSafe DEF history
<1>4. Posted'
  <2>1. Idle.at = "idle" /\ Idle.batch = {}
    BY DEF Idle
  <2>2. \A f \in Flushes : flush'[f].at = "posting" \/ flush'[f].at = "answered" => flush'[f] = flush[f]
    BY <2>1
  <2>3. \A f \in Flushes : flush[f].batch \subseteq 1 .. rated
    BY <1>1 DEF Batches
  <2> QED
    BY <2>2, <2>3, <1>1, <1>3 DEF Posted, serverVars
<1> QED
  BY <1>1, <1>2, <1>4, QueueFrame DEF history

LEMMA DoneQueue ==
    ASSUME CountInv, QueueInv, NEW f \in Flushes, DeleteHandled(f) \/ Throw(f)
    PROVE  QueueInv'
<1>1. /\ FlushesFall /\ \A g \in Flushes : flush'[g] \in {flush[g], Idle}
      /\ UNCHANGED <<item, rated, serverVars, history>>
  BY DoneReads DEF CountInv
<1>2. \A r \in queue \ queue' : Safe(r)
  <2>1. CASE DeleteHandled(f)
    <3>1. flush[f].at = "answered" /\ queue' = queue \ (flush[f].batch \ flush[f].failed)
      BY <2>1 DEF DeleteHandled
    <3> QED
      BY <3>1 DEF QueueInv, Posted
  <2>2. CASE Throw(f)
    BY <2>2 DEF Throw, clientVars
  <2> QED
    BY <2>1, <2>2
<1> QED
  BY <1>1, <1>2, QuietQueue

LEMMA BrowserQueue ==
    ASSUME CountInv, QueueInv,
           \/ LoadsNothing \/ PackageAnswered \/ PackageStored \/ PackageFails
           \/ RegisterBackgroundSync \/ CloseTab \/ SwitchAccount \/ GoOffline \/ UNCHANGED vars
    PROVE  QueueInv'
<1>1. TypeOK
  BY DEF CountInv
<1>2. UNCHANGED <<queue, item, rated, serverVars, history>>
  BY DEF LoadsNothing, PackageAnswered, PackageStored, PackageFails, pageFrame,
     RegisterBackgroundSync, CloseTab, SwitchAccount, GoOffline, vars, clientVars
<1>3. Idle.batch = {} /\ Idle.at # "posting" /\ Idle \in FlushStates
  BY OfflineReviewAssumption DEF Idle, FlushStates
<1>4. FlushesFall /\ \A f \in Flushes : flush'[f] \in {flush[f], Idle}
  <2>1. CASE CloseTab
    BY <2>1, <1>1, <1>3 DEF CloseTab, FlushesFall, TypeOK
  <2>2. CASE UNCHANGED flush
    BY <2>2, <1>1 DEF FlushesFall, TypeOK
  <2> QED
    BY <2>1, <2>2 DEF LoadsNothing, PackageAnswered, PackageStored, PackageFails, pageFrame,
       RegisterBackgroundSync, SwitchAccount, GoOffline, vars
<1> QED
  BY <1>2, <1>4, QuietQueue

LEMMA FlushQueue ==
    ASSUME CountInv, QueueInv, FlushStep
    PROVE  QueueInv'
<1>1. /\ TypeOK /\ Batches /\ Posted /\ ClientTypes' /\ rated \in Nat /\ rated' \in Nat
      /\ rated' \in rated .. MaxReviews /\ \A r \in 1 .. rated : item'[r] = item[r]
      /\ UNCHANGED <<claimed, stability, interrupted, misled, overwritten>>
      /\ \A r \in (1 .. rated') \ queue' : r <= rated /\ r \notin queue
  <2>1. TypeOK /\ Batches /\ Posted
    BY DEF CountInv, QueueInv
  <2>2. /\ ClientTypes' /\ rated' \in rated .. MaxReviews /\ \A r \in 1 .. rated : item'[r] = item[r]
        /\ UNCHANGED <<claimed, stability, interrupted, misled, overwritten>>
        /\ queue \subseteq queue' /\ \A r \in 1 .. rated' : r > rated => r \in queue'
    BY DEF FlushStep
  <2>3. rated \in Nat /\ rated' \in Nat
    BY <2>1, <2>2, OfflineReviewAssumption DEF TypeOK
  <2> QED
    BY <2>1, <2>2, <2>3
<1>2. PICK pending, itemOf :
        pending = queue' /\ (NoFlush \/ \E f \in Flushes : Post(f, pending, itemOf))
  BY DEF FlushStep
<1>3. pending \subseteq 1 .. rated' /\ pending \in SUBSET Reviews
  BY <1>1, <1>2, OfflineReviewAssumption DEF ClientTypes, Reviews
<1>4. CASE NoFlush
  <2>1. UNCHANGED <<flush, request, requests>>
    BY <1>4 DEF NoFlush
  <2>2. \A q \in Requests, i \in Items : TodoOf(q, i)' = TodoOf(q, i)
    BY <1>1, <2>1 DEF Batches, TodoOf
  <2>3. HandsKept
    BY <1>1, <2>1, <2>2 DEF HandsKept, Hand, Working, Current
  <2>4. \A r \in 1 .. rated : Safe(r) => Safe(r)'
    BY <1>1, <2>3, KeptSafe
  <2>5. \A f \in Flushes : flush[f].batch \subseteq 1 .. rated
    BY <1>1 DEF Batches
  <2>6. Posted'
    BY <2>1, <2>4, <2>5, <1>1 DEF Posted
  <2> QED
    BY <2>3, <2>6, <1>1, QueueFrame
<1>5. ASSUME NEW f \in Flushes, Post(f, pending, itemOf)
      PROVE  QueueInv'
  <2>1. PostEffect(f, pending, itemOf)
    BY <1>1, <1>3, <1>5, PostReads
  <2>2. HandsKept
    BY <1>1, <1>3, <1>5, PostHands
  <2>3. \A r \in 1 .. rated : Safe(r) => Safe(r)'
    BY <1>1, <2>2, KeptSafe
  <2>4. \A g \in Flushes \ {f} : /\ flush'[g] = flush[g] /\ flush[g].batch \subseteq 1 .. rated
                                 /\ flush[g].at = "posting" =>
                                      /\ flush[g].request \in Requests /\ flush[g].request < requests'
                                      /\ request'[flush[g].request] = request[flush[g].request]
    <3> SUFFICES ASSUME NEW g \in Flushes \ {f}
                 PROVE  /\ flush'[g] = flush[g] /\ flush[g].batch \subseteq 1 .. rated
                        /\ flush[g].at = "posting" =>
                             /\ flush[g].request \in Requests /\ flush[g].request < requests'
                             /\ request'[flush[g].request] = request[flush[g].request]
      OBVIOUS
    <3>1. flush'[g] = flush[g] /\ requests' = requests + 1 /\ requests \in 0 .. MaxRequests
      BY <2>1 DEF PostEffect
    <3>2. flush[g].batch \subseteq 1 .. rated /\ (flush[g].at = "posting" => flush[g].request \in 1 .. requests)
      BY <1>1 DEF Batches
    <3>3. flush[g].at = "posting" => flush[g].request \in Requests /\ flush[g].request < requests'
      BY <3>1, <3>2, OfflineReviewAssumption DEF Requests
    <3>4. flush[g].at = "posting" => request'[flush[g].request] = request[flush[g].request]
      BY <3>1, <3>3, <2>1 DEF PostEffect, Requests
    <3> QED
      BY <3>1, <3>2, <3>3, <3>4
  <2>5. /\ flush'[f].at = "posting" /\ flush'[f].batch = pending /\ flush'[f].request = requests'
        /\ request'[requests'].todo = pending /\ requests' \in Nat
    BY <2>1, OfflineReviewAssumption DEF PostEffect, Requests
  <2>6. Posted'
    <3>1. \A g, h \in Flushes :
            flush'[g].at = "posting" /\ flush'[h].at = "posting" /\ flush'[g].request = flush'[h].request => g = h
      BY <2>4, <2>5, <1>1 DEF Posted, Requests
    <3>2. ASSUME NEW g \in Flushes, NEW r \in flush'[g].batch
          PROVE  /\ flush'[g].at = "posting" =>
                      Safe(r)' \/ r \in request'[flush'[g].request].todo \cup request'[flush'[g].request].errors
                 /\ flush'[g].at = "answered" => Safe(r)' \/ r \in flush'[g].failed
      <4>1. CASE g = f
        BY <4>1, <2>5, <3>2
      <4>2. CASE g # f
        <5>1. r \in flush[g].batch /\ r \in 1 .. rated /\ flush'[g] = flush[g]
          BY <4>2, <2>4, <3>2
        <5> QED
          BY <5>1, <4>2, <2>3, <2>4, <1>1 DEF Posted
      <4> QED
        BY <4>1, <4>2
    <3> QED
      BY <3>1, <3>2 DEF Posted
  <2> QED
    BY <2>2, <2>6, <1>1, QueueFrame
<1> QED
  BY <1>2, <1>4, <1>5

LEMMA QueueInit == Init => QueueInv
<1> SUFFICES ASSUME Init PROVE QueueInv
  OBVIOUS
<1>1. claimed = {} /\ rated = 0 /\ \A f \in Flushes : flush[f].at = "idle"
  BY DEF Init, Idle
<1>2. Posted /\ ClaimsKept
  BY <1>1 DEF Posted, ClaimsKept
<1>3. (1 .. rated) \ queue = {}
  BY <1>1
<1> QED
  BY <1>2, <1>3 DEF QueueInv

LEMMA QueueNext == CountInv /\ QueueInv /\ [Next]_vars => QueueInv'
<1> SUFFICES ASSUME CountInv, QueueInv, [Next]_vars PROVE QueueInv'
  OBVIOUS
<1>1. CASE Agent
  BY <1>1, ClaimQueue, ReadQueue, WriteQueue, ReleaseQueue DEF Agent
<1>2. CASE Flushing
  BY <1>2, ReplyQueue, DoneQueue DEF Flushing
<1>3. CASE User
  BY <1>3, OpenFlushes, RatingFlushes, FlushQueue, BrowserQueue DEF User, CountInv
<1>4. CASE PageLoads
  BY <1>4, BrowserQueue DEF PageLoads
<1>5. CASE Failures
  BY <1>5, CrashQueue, BrowserQueue, FailQueue, ReplyQueue DEF Failures
<1>6. CASE SyncFires \/ RegisterBackgroundSync \/ GoOnline
  BY <1>6, SyncFlushes, OnlineFlushes, FlushQueue, BrowserQueue DEF CountInv
<1>7. CASE UNCHANGED vars
  BY <1>7, BrowserQueue
<1> QED
  BY <1>1, <1>2, <1>3, <1>4, <1>5, <1>6, <1>7 DEF Next

\* A review that has left the queue counts or is about to, but for the failures
\* that the code takes for success: each is named in the conclusion.
THEOREM LeavesTheQueue == Spec => []LeavesWhenHandled
<1>1. CountInv /\ QueueInv => LeavesWhenHandled
  <2> SUFFICES ASSUME CountInv, QueueInv, NEW r \in (1 .. rated) \ queue
               PROVE  r \in Counted(item[r]) \cup InHand \cup interrupted \cup misled \cup overwritten
    BY DEF LeavesWhenHandled
  <2> QED
    BY SafeMeans DEF QueueInv
<1> QED
  BY <1>1, CountInit, CountNext, QueueInit, QueueNext, PTL DEF Spec

-----------------------------------------------------------------------------
(* The reviews of an item count in their order.                             *)

\* An item whose coroutines stop, or stay as they are, keeps its order.
LEMMA OrderFrame ==
    ASSUME CountInv, NEW i \in Items, OrderOf(i), rated' \in Nat, rated <= rated',
           stability'[i] = stability[i], misled' = misled,
           \A r \in 1 .. rated : item'[r] = item[r] /\ (item[r] = i /\ Settled(r) => Settled(r)'),
           \A q \in Requests : Working(q, i)' =>
               /\ Working(q, i) /\ TodoOf(q, i)' = TodoOf(q, i)
               /\ request'[q].own = request[q].own
               /\ request'[q].at[i] = request[q].at[i] /\ request'[q].seen[i] = request[q].seen[i]
    PROVE  OrderOf(i)'
<1>1. /\ TypeOK /\ Batches /\ rated \in Nat /\ misled \subseteq 1 .. rated /\ stability[i] \in Seq(1 .. rated)
      /\ \A n \in DOMAIN stability[i] : stability[i][n] \in 1 .. rated
  <2>1. TypeOK /\ Batches
    BY DEF CountInv
  <2>2. rated \in Nat /\ misled \subseteq 1 .. rated /\ stability[i] \in Seq(1 .. rated)
    BY <2>1, OfflineReviewAssumption DEF TypeOK
  <2> QED
    BY <2>1, <2>2, LenProperties, ElementOfSeq
<1>2. Alone(i)' /\ NoneMisled(i)' /\ Sorted(i)'
  BY <1>1 DEF OrderOf, Alone, NoneMisled, Sorted
<1>3. OlderSettled(i)'
  <2> SUFFICES ASSUME NEW r \in 1 .. rated', item'[r] = i
               PROVE  /\ \A n \in DOMAIN stability'[i] : r < stability'[i][n] => Settled(r)'
                      /\ \A q \in Requests : request'[q].own /\ Working(q, i)' /\ r \notin TodoOf(q, i)' =>
                           \A s \in TodoOf(q, i)' : r < s => Settled(r)'
    BY DEF OlderSettled
  <2>1. CASE r \in 1 .. rated
    <3>1. item[r] = i /\ (Settled(r) => Settled(r)')
      BY <2>1
    <3>2. /\ \A n \in DOMAIN stability[i] : r < stability[i][n] => Settled(r)
          /\ \A q \in Requests : request[q].own /\ Working(q, i) /\ r \notin TodoOf(q, i) =>
               \A s \in TodoOf(q, i) : r < s => Settled(r)
      BY <2>1, <3>1 DEF OrderOf, OlderSettled
    <3> QED
      BY <3>1, <3>2
  <2>2. CASE r > rated
    <3>1. \A q \in Requests : TodoOf(q, i) \subseteq 1 .. rated
      BY <1>1 DEF Batches, TodoOf
    <3> QED
      BY <2>2, <3>1, <1>1
  <2> QED
    BY <2>1, <2>2, <1>1
<1>4. NewestInHand(i)'
  <2> SUFFICES ASSUME NEW q \in Requests, request'[q].own, Hand(q, i)'
               PROVE  /\ \A n \in DOMAIN stability'[i] : stability'[i][n] < Current(q, i)'
                      /\ request'[q].at[i] = "write" => request'[q].seen[i] = stability'[i]
    BY DEF NewestInHand
  <2>1. Working(q, i)'
    BY DEF Hand
  <2>2. /\ Hand(q, i) /\ Current(q, i)' = Current(q, i)
        /\ request'[q].own = request[q].own
        /\ request'[q].at[i] = request[q].at[i] /\ request'[q].seen[i] = request[q].seen[i]
    BY <2>1 DEF Hand, Current
  <2> QED
    BY <2>2 DEF OrderOf, NewestInHand
<1> QED
  BY <1>2, <1>3, <1>4 DEF OrderOf

\* The step of a coroutine leaves the other items alone.
LEMMA OtherItems ==
    ASSUME CountInv, NEW q \in Requests, NEW i \in Items, NEW gone \in SUBSET {Current(q, i)},
           NEW failed, NEW pc, NEW list, WorkStep(q, i, gone, failed, pc, list),
           NEW j \in Items \ {i}, OrderOf(j), stability'[j] = stability[j],
           NoneMisled(j) => NoneMisled(j)',
           claimed \ {Current(q, i)} \subseteq claimed'
    PROVE  OrderOf(j)'
<1>1. /\ TypeOK /\ Batches /\ rated \in Nat /\ UNCHANGED <<rated, item>>
      /\ Current(q, i) \in 1 .. rated /\ item[Current(q, i)] = i
  <2>1. TypeOK /\ Batches /\ rated \in Nat
    BY CountBasics
  <2> QED
    BY <2>1, SelfWork
<1>2. ASSUME NEW p \in Requests
      PROVE  /\ TodoOf(p, j)' = TodoOf(p, j)
             /\ Current(p, j)' = Current(p, j)
             /\ Working(p, j)' <=> Working(p, j)
             /\ Hand(p, j)' <=> Hand(p, j)
             /\ request'[p].own = request[p].own
             /\ request'[p].at[j] = request[p].at[j]
             /\ request'[p].seen[j] = request[p].seen[j]
  <2>1. TodoOf(p, j)' = TodoOf(p, j)
    BY <1>1, OtherWork
  <2>2. request'[p].own = request[p].own /\ request'[p].at[j] = request[p].at[j] /\ request'[p].seen[j] = request[p].seen[j]
    BY DEF WorkStep
  <2> QED
    BY <2>1, <2>2 DEF Current, Working, Hand
<1>3. ASSUME NEW r \in 1 .. rated, item[r] = j, Settled(r)
      PROVE  Settled(r)'
  <2>1. r \in claimed'
    BY <1>1, <1>3 DEF Settled
  <2>2. ASSUME NEW p \in Requests, HandedTo(p, r)'
        PROVE  request'[p].own
    <3>1. Hand(p, j)' /\ Current(p, j)' = r
      BY <2>2, <1>1, <1>3 DEF HandedTo, Hand, Working, Current, TodoOf
    <3>2. HandedTo(p, r)
      BY <3>1, <1>2, <1>3 DEF HandedTo
    <3> QED
      BY <3>2, <1>2, <1>3 DEF Settled
  <2> QED
    BY <2>1, <2>2 DEF Settled
<1>4. Alone(j)' /\ Sorted(j)' /\ NoneMisled(j)'
  BY <1>2 DEF OrderOf, Alone, Sorted
<1>5. OlderSettled(j)'
  BY <1>1, <1>2, <1>3 DEF OrderOf, OlderSettled
<1>6. NewestInHand(j)'
  BY <1>2 DEF OrderOf, NewestInHand
<1> QED
  BY <1>4, <1>5, <1>6 DEF OrderOf

\* The item of the coroutine: what stays settled, and what that means for its order.
LEMMA SelfOlder ==
    ASSUME CountInv, NEW q \in Requests, NEW i \in Items, OrderOf(i),
           NEW c, c = Current(q, i), NEW gone \in SUBSET {c},
           NEW failed, NEW pc, NEW list, WorkStep(q, i, gone, failed, pc, list),
           pc \notin {"claim", "dead"} => gone = {} /\ (request[q].at[i] = "claim" => c \notin claimed),
           claimed \ {c} \subseteq claimed',
           Settled(c) => c \in claimed',
           gone = {} \/ ~request[q].own \/ c \in claimed',
           \A s \in Counted(i)' : s \in Counted(i) \/ (s = c /\ request[q].own)
    PROVE  /\ Alone(i)' /\ OlderSettled(i)'
           /\ \A p \in Requests \ {q} : ~Working(p, i)'
<1>1. /\ TypeOK /\ Batches /\ rated \in Nat /\ UNCHANGED <<rated, item>>
      /\ c \in 1 .. rated /\ item[c] = i
      /\ Working(q, i) /\ TodoOf(q, i)' = TodoOf(q, i) \ gone
      /\ gone = {} => Current(q, i)' = c
      /\ request'[q].own = request[q].own
  <2>1. TypeOK /\ Batches /\ rated \in Nat
    BY CountBasics
  <2>2. UNCHANGED <<rated, item>> /\ Working(q, i) /\ request'[q].own = request[q].own
    BY DEF WorkStep, agentQuiet, clientVars
  <2>3. c \in 1 .. rated /\ item[c] = i
    BY <2>1, <2>2, CurrentIn DEF Working
  <2>4. TodoOf(q, i)' = TodoOf(q, i) \ gone
    BY <2>1, SelfWork
  <2> QED
    BY <2>1, <2>2, <2>3, <2>4 DEF Current
<1>2. c \in TodoOf(q, i) /\ \A s \in TodoOf(q, i) : c <= s
  BY <1>1, CurrentIn DEF Working
<1>3. ASSUME NEW p \in Requests \ {q}
      PROVE  ~Working(p, i) /\ ~Working(p, i)'
  <2>1. ~Working(p, i)
    BY <1>1 DEF OrderOf, Alone
  <2>2. Working(p, i)' <=> Working(p, i)
    BY <1>1, OtherWork
  <2> QED
    BY <2>1, <2>2
<1>4. ASSUME NEW r \in 1 .. rated, item[r] = i, Settled(r)
      PROVE  Settled(r)'
  <2>1. r \in claimed'
    BY <1>4 DEF Settled
  <2>2. ASSUME NEW p \in Requests, HandedTo(p, r)'
        PROVE  request'[p].own
    <3>1. Hand(p, i)' /\ Current(p, i)' = r
      BY <2>2, <1>1, <1>4 DEF HandedTo, Hand, Working, Current, TodoOf
    <3>2. p = q
      BY <3>1, <1>3 DEF Hand
    <3>3. Hand(q, i)' /\ Current(q, i)' = r
      BY <3>1, <3>2
    <3>4. pc \notin {"claim", "dead"}
      BY <3>3, <1>1, SelfWork
    <3>5. r = c /\ gone = {}
      BY <3>3, <3>4, <1>1
    <3>6. HandedTo(q, c) => request[q].own
      BY <1>4, <3>5 DEF Settled
    <3>7. request[q].at[i] # "claim" => HandedTo(q, c)
      BY <1>1 DEF HandedTo, Hand
    <3>8. request[q].at[i] = "claim" => c \notin claimed
      BY <3>4
    <3> QED
      BY <3>2, <3>5, <3>6, <3>7, <3>8, <1>1, <1>4 DEF Settled
  <2> QED
    BY <2>1, <2>2 DEF Settled
<1>5. Alone(i)'
  BY <1>3 DEF Alone
<1>6. OlderSettled(i)'
  <2> SUFFICES ASSUME NEW r \in 1 .. rated, item[r] = i
               PROVE  /\ \A n \in DOMAIN stability'[i] : r < stability'[i][n] => Settled(r)'
                      /\ \A p \in Requests : request'[p].own /\ Working(p, i)' /\ r \notin TodoOf(p, i)' =>
                           \A s \in TodoOf(p, i)' : r < s => Settled(r)'
    BY <1>1 DEF OlderSettled
  <2>1. ASSUME request[q].own, r \notin TodoOf(q, i), NEW s \in TodoOf(q, i), r < s
        PROVE  Settled(r)'
    BY <2>1, <1>1, <1>4 DEF OrderOf, OlderSettled
  <2>2. ASSUME NEW s \in Counted(i)', r < s
        PROVE  Settled(r)'
    <3>1. CASE s \in Counted(i)
      <4>1. PICK n \in DOMAIN stability[i] : stability[i][n] = s
        BY <3>1 DEF Counted
      <4> QED
        BY <4>1, <2>2, <1>4 DEF OrderOf, OlderSettled
    <3>2. CASE s = c /\ request[q].own
      <4>1. r \notin TodoOf(q, i)
        BY <3>2, <2>2, <1>1, <1>2
      <4> QED
        BY <4>1, <3>2, <2>1, <2>2, <1>2
    <3> QED
      BY <3>1, <3>2, <2>2
  <2>3. ASSUME NEW p \in Requests, request'[p].own, Working(p, i)', r \notin TodoOf(p, i)',
               NEW s \in TodoOf(p, i)', r < s
        PROVE  Settled(r)'
    <3>1. p = q
      BY <2>3, <1>3
    <3>2. r \notin TodoOf(q, i) \ gone /\ s \in TodoOf(q, i) /\ request[q].own
      BY <2>3, <3>1, <1>1
    <3>3. CASE r \notin TodoOf(q, i)
      BY <3>2, <3>3, <2>1, <2>3
    <3>4. CASE r \in gone
      <4>1. r = c /\ c \in claimed'
        BY <3>2, <3>4
      <4>2. \A u \in Requests : ~HandedTo(u, c)'
        <5> SUFFICES ASSUME NEW u \in Requests, HandedTo(u, c)' PROVE FALSE
          OBVIOUS
        <5>1. Hand(u, i)'
          BY <1>1 DEF HandedTo, Hand, Working, TodoOf
        <5>2. u = q
          BY <5>1, <1>3 DEF Hand
        <5>3. Hand(q, i)'
          BY <5>1, <5>2
        <5>4. pc \notin {"claim", "dead"}
          BY <5>3, <1>1, SelfWork
        <5> QED
          BY <5>4, <3>4
      <4> QED
        BY <4>1, <4>2 DEF Settled
    <3> QED
      BY <3>2, <3>3, <3>4
  <2> QED
    BY <2>2, <2>3 DEF Counted
<1> QED
  BY <1>3, <1>5, <1>6

LEMMA ClaimOrder ==
    ASSUME CountInv, OrderInv, NEW q \in Requests, NEW i \in Items, Claim(q, i)
    PROVE  OrderInv'
<1>1. PICK c : c = Current(q, i)
  OBVIOUS
<1>2. /\ TypeOK /\ Batches /\ UNCHANGED <<stability, mixed, item, rated>>
      /\ Working(q, i) /\ request[q].at[i] = "claim" /\ ~Hand(q, i)
  BY ClaimStep DEF CountInv, Claim, Hand, agentFrame, clientVars
<1>3. /\ c \in claimed => claimed' = claimed /\ misled' = IF HeldByStranger(c) THEN misled \cup {c} ELSE misled
      /\ c \notin claimed => claimed' = claimed \cup {c} /\ misled' = misled
  BY <1>1 DEF Claim
<1>4. c \in 1 .. rated /\ item[c] = i /\ Counted(i)' = Counted(i)
  BY <1>1, <1>2, CurrentIn DEF Working, Counted
<1>5. PICK gone \in SUBSET {c}, pc \in {"claim", "read"} :
        /\ WorkStep(q, i, gone, {}, pc, request[q].seen[i])
        /\ pc = "claim" => c \in claimed
        /\ pc = "read" => gone = {} /\ c \notin claimed
  <2>1. c \in claimed => WorkStep(q, i, {c}, {}, "claim", request[q].seen[i])
    BY <1>1, <1>2, ClaimStep
  <2>2. c \notin claimed => WorkStep(q, i, {}, {}, "read", request[q].seen[i])
    BY <1>1, <1>2, ClaimStep
  <2> QED
    BY <2>1, <2>2
<1>6. OrderOf(i) => NoneMisled(i)'
  <2> SUFFICES ASSUME OrderOf(i) PROVE NoneMisled(i)'
    OBVIOUS
  <2>1. ~HeldByStranger(c)
    <3> SUFFICES ASSUME NEW p \in Requests, HandedTo(p, c) PROVE FALSE
      BY <1>4, SafeMeans
    <3>1. Hand(p, i)
      BY <1>4 DEF HandedTo
    <3>2. Working(p, i)
      BY <3>1 DEF Hand
    <3>3. p = q
      BY <3>2, <1>2 DEF OrderOf, Alone
    <3> QED
      BY <3>1, <3>3, <1>2
  <2> QED
    BY <2>1, <1>2, <1>3 DEF OrderOf, NoneMisled
<1>7. \A j \in Items \ {i} : NoneMisled(j) => NoneMisled(j)'
  BY <1>2, <1>3, <1>4 DEF NoneMisled
<1>8. \A j \in Items \ {i} : OrderOf(j) => OrderOf(j)'
  BY <1>1, <1>2, <1>3, <1>5, <1>7, OtherItems
<1>9. ASSUME OrderOf(i)
      PROVE  OrderOf(i)'
  <2>1. /\ Alone(i)' /\ OlderSettled(i)'
        /\ \A p \in Requests \ {q} : ~Working(p, i)'
    <3>1. claimed \ {c} \subseteq claimed' /\ (Settled(c) => c \in claimed') /\ c \in claimed'
      BY <1>3 DEF Settled
    <3>2. \A s \in Counted(i)' : s \in Counted(i) \/ (s = c /\ request[q].own)
      BY <1>4
    <3>3. PICK list : list = request[q].seen[i]
      OBVIOUS
    <3>4. WorkStep(q, i, gone, {}, pc, list)
      BY <1>5, <3>3
    <3>5. pc \notin {"claim", "dead"} => gone = {} /\ (request[q].at[i] = "claim" => c \notin claimed)
      BY <1>5
    <3> QED
      BY <1>1, <1>9, <3>1, <3>2, <3>4, <3>5, SelfOlder
  <2>2. Sorted(i)'
    BY <1>2, <1>9 DEF OrderOf, Sorted
  <2>3. NewestInHand(i)'
    <3> SUFFICES ASSUME NEW p \in Requests, request'[p].own, Hand(p, i)'
                 PROVE  /\ \A n \in DOMAIN stability'[i] : stability'[i][n] < Current(p, i)'
                        /\ request'[p].at[i] = "write" => request'[p].seen[i] = stability'[i]
      BY DEF NewestInHand
    <3>1. p = q
      BY <2>1 DEF Hand
    <3>2. Hand(q, i)'
      BY <3>1
    <3>3. pc = "read" /\ gone = {}
      BY <3>2, <1>1, <1>2, <1>5, SelfWork
    <3>4. Current(q, i)' = c /\ request'[q].at[i] = "read"
      BY <3>3, <1>1, <1>2, <1>5, SelfWork
    <3>5. ASSUME NEW n \in DOMAIN stability[i]
          PROVE  stability[i][n] < c
      <4>1. stability[i][n] \in claimed /\ stability[i][n] \in 1 .. rated
        BY <1>2 DEF CountInv, Histories, HistoryOf, TypeOK
      <4>2. stability[i][n] # c
        BY <4>1, <3>3, <1>5
      <4>3. ~(c < stability[i][n])
        BY <1>4, <1>5, <1>9, <3>3 DEF OrderOf, OlderSettled, Settled
      <4> QED
        BY <4>1, <4>2, <4>3, <1>4
    <3> QED
      BY <3>1, <3>4, <3>5, <1>2
  <2> QED
    BY <2>1, <2>2, <2>3, <1>6, <1>9 DEF OrderOf
<1> QED
  BY <1>2, <1>8, <1>9 DEF OrderInv

LEMMA ReadOrder ==
    ASSUME CountInv, OrderInv, NEW q \in Requests, NEW i \in Items, ReadStability(q, i)
    PROVE  OrderInv'
<1>1. PICK c : c = Current(q, i)
  OBVIOUS
<1>2. /\ TypeOK /\ Batches /\ UNCHANGED <<claimed, stability, misled, mixed, item, rated>>
      /\ Working(q, i) /\ request[q].at[i] = "read" /\ Hand(q, i)
  BY ReadStep DEF CountInv, ReadStability, Hand, agentFrame, clientVars, history
<1>3. PICK pc \in {"write", "release"} : \E list :
        /\ WorkStep(q, i, {}, {}, pc, list)
        /\ request[q].own => list = stability[i]
  <2>1. request[q].own => WorkStep(q, i, {}, {}, "write", stability[i])
    BY <1>2, ReadStep
  <2>2. ~request[q].own => WorkStep(q, i, {}, {}, "release", request[q].seen[i])
    BY <1>2, ReadStep
  <2> QED
    BY <2>1, <2>2
<1>4. PICK list : WorkStep(q, i, {}, {}, pc, list) /\ (request[q].own => list = stability[i])
  BY <1>3
<1>5. \A j \in Items \ {i} : OrderOf(j) => OrderOf(j)'
  BY <1>2, <1>4, OtherItems DEF NoneMisled
<1>6. ASSUME OrderOf(i)
      PROVE  OrderOf(i)'
  <2>0. c \in claimed /\ Counted(i)' = Counted(i)
    BY <1>1, <1>2, HandFacts DEF Counted
  <2>1. /\ Alone(i)' /\ OlderSettled(i)'
        /\ \A p \in Requests \ {q} : ~Working(p, i)'
    <3>1. PICK gone \in SUBSET {c} : gone = {} /\ WorkStep(q, i, gone, {}, pc, list)
      BY <1>4
    <3>2. claimed \ {c} \subseteq claimed' /\ c \in claimed' /\ request[q].at[i] # "claim"
      BY <1>2, <2>0
    <3>3. \A s \in Counted(i)' : s \in Counted(i) \/ (s = c /\ request[q].own)
      BY <2>0
    <3> QED
      BY <1>1, <1>6, <3>1, <3>2, <3>3, SelfOlder
  <2>2. Sorted(i)' /\ NoneMisled(i)'
    BY <1>2, <1>6 DEF OrderOf, Sorted, NoneMisled
  <2>3. NewestInHand(i)'
    <3> SUFFICES ASSUME NEW p \in Requests, request'[p].own, Hand(p, i)'
                 PROVE  /\ \A n \in DOMAIN stability'[i] : stability'[i][n] < Current(p, i)'
                        /\ request'[p].at[i] = "write" => request'[p].seen[i] = stability'[i]
      BY DEF NewestInHand
    <3>1. p = q
      BY <2>1 DEF Hand
    <3>2. Current(q, i)' = Current(q, i) /\ request'[q].own = request[q].own /\ request'[q].seen[i] = list
      BY <1>2, <1>4, SelfWork
    <3>3. \A n \in DOMAIN stability[i] : stability[i][n] < Current(q, i)
      BY <1>2, <1>6, <3>1, <3>2 DEF OrderOf, NewestInHand
    <3> QED
      BY <3>1, <3>2, <3>3, <1>2, <1>4
  <2> QED
    BY <2>1, <2>2, <2>3 DEF OrderOf
<1> QED
  BY <1>2, <1>5, <1>6 DEF OrderInv

LEMMA WriteOrder ==
    ASSUME CountInv, OrderInv, NEW q \in Requests, NEW i \in Items, WriteStability(q, i)
    PROVE  OrderInv'
<1>1. PICK c, old : c = Current(q, i) /\ old = stability[i]
  OBVIOUS
<1>2. /\ TypeOK /\ Batches /\ UNCHANGED <<claimed, misled, mixed, item, rated>>
      /\ Working(q, i) /\ request[q].at[i] = "write" /\ Hand(q, i) /\ request[q].own
  <2>1. UNCHANGED <<claimed, misled, mixed, item, rated>> /\ Working(q, i) /\ request[q].at[i] = "write"
    BY DEF WriteStability, agentFrame, clientVars
  <2> QED
    BY <2>1 DEF CountInv, OwnWrites, Hand
<1>3. /\ WorkStep(q, i, {c}, {}, "claim", <<>>)
      /\ stability' = [stability EXCEPT ![i] = Append(request[q].seen[i], c)]
  BY <1>1, <1>2, WriteStep
<1>4. c \in 1 .. rated /\ item[c] = i /\ old \in Seq(1 .. rated) /\ c \in claimed
  BY <1>1, <1>2, CurrentIn, HandFacts, StabilityReads DEF Working
<1>5. \A j \in Items \ {i} : stability'[j] = stability[j]
  BY <1>2, <1>3 DEF TypeOK
<1>6. \A j \in Items \ {i} : OrderOf(j) => OrderOf(j)'
  BY <1>1, <1>2, <1>3, <1>5, OtherItems DEF NoneMisled
<1>7. ASSUME OrderOf(i)
      PROVE  OrderOf(i)'
  <2>1. request[q].seen[i] = old /\ \A n \in DOMAIN old : old[n] < c
    BY <1>1, <1>2, <1>7 DEF OrderOf, NewestInHand
  <2>2. stability'[i] = Append(old, c)
    BY <1>2, <1>3, <2>1 DEF TypeOK
  <2>3. /\ DOMAIN old = 1 .. Len(old) /\ Len(old) \in Nat
        /\ DOMAIN stability'[i] = 1 .. Len(old) + 1 /\ stability'[i][Len(old) + 1] = c
        /\ \A n \in 1 .. Len(old) : stability'[i][n] = old[n] /\ old[n] \in 1 .. rated
    <3>1. DOMAIN old = 1 .. Len(old) /\ Len(old) \in Nat /\ \A n \in 1 .. Len(old) : old[n] \in 1 .. rated
      BY <1>4, LenProperties, ElementOfSeq
    <3>2. /\ DOMAIN Append(old, c) = 1 .. Len(old) + 1 /\ Append(old, c)[Len(old) + 1] = c
          /\ \A n \in 1 .. Len(old) : Append(old, c)[n] = old[n]
      BY <1>4, <3>1, AppendProperties
    <3> QED
      BY <2>2, <3>1, <3>2
  <2>4. Sorted(i)'
    <3> SUFFICES ASSUME NEW m \in DOMAIN stability'[i], NEW n \in DOMAIN stability'[i], m < n
                 PROVE  stability'[i][m] < stability'[i][n]
      BY DEF Sorted
    <3>1. m \in 1 .. Len(old)
      BY <2>3
    <3>2. CASE n \in 1 .. Len(old)
      BY <3>1, <3>2, <2>3, <1>1, <1>7 DEF OrderOf, Sorted
    <3>3. CASE n = Len(old) + 1
      BY <3>1, <3>3, <2>1, <2>3
    <3> QED
      BY <3>2, <3>3, <2>3
  <2>5. \A s \in Counted(i)' : s \in Counted(i) \/ (s = c /\ request[q].own)
    <3> SUFFICES ASSUME NEW n \in DOMAIN stability'[i]
                 PROVE  stability'[i][n] = c \/ \E m \in DOMAIN stability[i] : stability[i][m] = stability'[i][n]
      BY <1>2 DEF Counted
    <3>1. CASE n \in 1 .. Len(old)
      BY <3>1, <2>3, <1>1
    <3>2. CASE n = Len(old) + 1
      BY <3>2, <2>3
    <3> QED
      BY <3>1, <3>2, <2>3
  <2>6. /\ Alone(i)' /\ OlderSettled(i)'
        /\ \A p \in Requests \ {q} : ~Working(p, i)'
    <3>1. claimed \ {c} \subseteq claimed' /\ c \in claimed'
      BY <1>2, <1>4
    <3>2. PICK gone, pc, list : gone \in SUBSET {c} /\ gone = {c} /\ pc = "claim" /\ list = <<>>
      OBVIOUS
    <3>3. WorkStep(q, i, gone, {}, pc, list) /\ pc = "claim" /\ gone \in SUBSET {c}
      BY <3>2, <1>3
    <3> QED
      BY <1>1, <1>7, <2>5, <3>1, <3>3, SelfOlder
  <2>7. NewestInHand(i)'
    <3>1. ~Hand(q, i)'
      BY <1>3 DEF WorkStep, Hand
    <3>2. \A p \in Requests : ~Hand(p, i)'
      BY <3>1, <2>6 DEF Hand
    <3> QED
      BY <3>2 DEF NewestInHand
  <2>8. NoneMisled(i)'
    BY <1>2, <1>7 DEF OrderOf, NoneMisled
  <2> QED
    BY <2>4, <2>6, <2>7, <2>8 DEF OrderOf
<1> QED
  BY <1>2, <1>6, <1>7 DEF OrderInv

\* A stranger's request gives back what was not settled.
LEMMA ReleaseOrder ==
    ASSUME CountInv, OrderInv, NEW q \in Requests, NEW i \in Items, Release(q, i)
    PROVE  OrderInv'
<1>1. PICK c : c = Current(q, i)
  OBVIOUS
<1>2. /\ TypeOK /\ Batches /\ UNCHANGED <<stability, misled, mixed, item, rated>>
      /\ Working(q, i) /\ request[q].at[i] = "release" /\ Hand(q, i) /\ ~request[q].own
  <2>1. UNCHANGED <<stability, misled, mixed, item, rated>> /\ Working(q, i) /\ request[q].at[i] = "release"
    BY DEF Release, agentFrame, clientVars, history
  <2> QED
    BY <2>1 DEF CountInv, OwnWrites, Hand
<1>3. WorkStep(q, i, {c}, {c}, "claim", request[q].seen[i]) /\ claimed' = claimed \ {c}
  BY <1>1, <1>2, ReleaseStep
<1>4. c \in 1 .. rated /\ item[c] = i /\ Counted(i)' = Counted(i)
  BY <1>1, <1>2, CurrentIn DEF Working, Counted
<1>5. ~Settled(c)
  BY <1>1, <1>2, <1>4 DEF Settled, HandedTo
<1>6. \A j \in Items \ {i} : OrderOf(j) => OrderOf(j)'
  BY <1>1, <1>2, <1>3, OtherItems DEF NoneMisled
<1>7. ASSUME OrderOf(i)
      PROVE  OrderOf(i)'
  <2>1. /\ Alone(i)' /\ OlderSettled(i)'
        /\ \A p \in Requests \ {q} : ~Working(p, i)'
    <3>1. claimed \ {c} \subseteq claimed' /\ (Settled(c) => c \in claimed')
      BY <1>3, <1>5
    <3>2. PICK gone, pc, list : gone \in SUBSET {c} /\ gone = {c} /\ pc = "claim" /\ list = request[q].seen[i]
      OBVIOUS
    <3>3. WorkStep(q, i, gone, {c}, pc, list) /\ pc = "claim" /\ gone \in SUBSET {c}
      BY <3>2, <1>3
    <3>4. \A s \in Counted(i)' : s \in Counted(i) \/ (s = c /\ request[q].own)
      BY <1>4
    <3> QED
      BY <1>1, <1>2, <1>7, <3>1, <3>3, <3>4, SelfOlder
  <2>2. NewestInHand(i)'
    <3>1. ~Hand(q, i)'
      BY <1>3 DEF WorkStep, Hand
    <3>2. \A p \in Requests : ~Hand(p, i)'
      BY <3>1, <2>1 DEF Hand
    <3> QED
      BY <3>2 DEF NewestInHand
  <2>3. NoneMisled(i)' /\ Sorted(i)'
    BY <1>2, <1>7 DEF OrderOf, NoneMisled, Sorted
  <2> QED
    BY <2>1, <2>2, <2>3 DEF OrderOf
<1> QED
  BY <1>2, <1>6, <1>7 DEF OrderInv

\* Steps after which the coroutines stand as they were, or no longer work.
LEMMA FallOrder ==
    ASSUME CountInv, OrderInv, UNCHANGED <<claimed, stability, misled>>, mixed \subseteq mixed',
           rated' \in Nat, rated <= rated', \A r \in 1 .. rated : item'[r] = item[r],
           \A q \in Requests, i \in Items : Working(q, i)' =>
               /\ Working(q, i) /\ TodoOf(q, i)' = TodoOf(q, i)
               /\ request'[q].own = request[q].own
               /\ request'[q].at[i] = request[q].at[i] /\ request'[q].seen[i] = request[q].seen[i]
    PROVE  OrderInv'
<1> SUFFICES ASSUME NEW i \in Items \ mixed' PROVE OrderOf(i)'
  BY DEF OrderInv
<1>1. OrderOf(i) /\ stability'[i] = stability[i] /\ misled' = misled
  BY DEF OrderInv
<1>2. ASSUME NEW r \in 1 .. rated, item[r] = i, Settled(r)
      PROVE  Settled(r)'
  <2>1. ASSUME NEW p \in Requests, HandedTo(p, r)'
        PROVE  request'[p].own
    <3>1. Hand(p, i)' /\ Current(p, i)' = r
      <4>1. item'[r] = i
        BY <1>2
      <4>2. Current(p, i)' = r
        BY <2>1, <4>1 DEF HandedTo, Current, TodoOf
      <4>3. Hand(p, i)'
        BY <2>1, <4>1 DEF HandedTo, Hand, Working, TodoOf
      <4> QED
        BY <4>2, <4>3
    <3>2. Working(p, i)'
      BY <3>1 DEF Hand
    <3>3. /\ Hand(p, i) /\ Current(p, i) = r /\ request'[p].own = request[p].own
      BY <3>1, <3>2 DEF Hand, Current
    <3> QED
      BY <3>3, <1>2 DEF Settled, HandedTo
  <2> QED
    BY <2>1, <1>2 DEF Settled
<1> QED
  BY <1>1, <1>2, OrderFrame

LEMMA FailOrder ==
    ASSUME CountInv, OrderInv, NEW q \in Requests, NEW i \in Items, StatementFails(q, i)
    PROVE  OrderInv'
<1>1. /\ TypeOK /\ Batches /\ UNCHANGED <<claimed, stability, misled, mixed, item, rated>> /\ rated \in Nat
      /\ WorkStep(q, i, {}, {}, "dead", request[q].seen[i])
  <2>1. TypeOK /\ Batches /\ rated \in Nat
    BY CountBasics
  <2>2. UNCHANGED <<claimed, stability, misled, mixed, item, rated>>
    BY DEF StatementFails, clientVars
  <2> QED
    BY <2>1, <2>2, FailStep
<1>2. ASSUME NEW p \in Requests, NEW j \in Items, Working(p, j)'
      PROVE  /\ Working(p, j) /\ TodoOf(p, j)' = TodoOf(p, j)
             /\ request'[p].own = request[p].own
             /\ request'[p].at[j] = request[p].at[j] /\ request'[p].seen[j] = request[p].seen[j]
  <2>1. request'[p].todo = request[p].todo /\ request'[p].own = request[p].own
    BY <1>1 DEF WorkStep
  <2>2. TodoOf(p, j)' = TodoOf(p, j)
    BY <2>1, <1>1 DEF TodoOf
  <2>3. p # q \/ j # i
    BY <1>1, <1>2 DEF WorkStep, Working
  <2>4. request'[p].at[j] = request[p].at[j] /\ request'[p].seen[j] = request[p].seen[j]
    BY <1>1, <2>3 DEF WorkStep
  <2> QED
    BY <1>2, <2>1, <2>2, <2>4 DEF Working
<1> QED
  BY <1>1, <1>2, FallOrder

LEMMA CrashOrder ==
    ASSUME CountInv, OrderInv, AgentCrashes
    PROVE  OrderInv'
<1>1. TypeOK /\ Batches /\ rated \in Nat
  BY CountBasics
<1>2. UNCHANGED <<claimed, stability, misled, mixed, item, rated>>
  BY <1>1, CrashStep DEF agentQuiet, clientVars
<1>3. \A q \in Requests, i \in Items : ~Working(q, i)'
  BY <1>1, CrashStep
<1> QED
  BY <1>1, <1>2, <1>3, FallOrder

LEMMA ReplyOrder ==
    ASSUME CountInv, OrderInv, NEW f \in Flushes, Reply(f) \/ RequestLost(f)
    PROVE  OrderInv'
<1>1. TypeOK /\ Batches /\ rated \in Nat
  BY CountBasics
<1>2. UNCHANGED <<claimed, stability, misled, mixed, item, rated>>
  BY DEF Reply, RequestLost, clientVars, history
<1>3. PICK q \in Requests : UNCHANGED request \/ request' = [request EXCEPT ![q] = NoRequest]
  BY <1>1, ReplyReads, LostReads
<1>4. ASSUME NEW p \in Requests
      PROVE  request'[p] = request[p] \/ request'[p].todo = {}
  BY <1>1, <1>3 DEF TypeOK, NoRequest
<1>5. ASSUME NEW p \in Requests, NEW i \in Items, Working(p, i)'
      PROVE  /\ Working(p, i) /\ TodoOf(p, i)' = TodoOf(p, i)
             /\ request'[p].own = request[p].own
             /\ request'[p].at[i] = request[p].at[i] /\ request'[p].seen[i] = request[p].seen[i]
  <2>1. request'[p].todo # {}
    BY <1>5 DEF Working, TodoOf
  <2>2. request'[p] = request[p]
    BY <2>1, <1>4
  <2>3. TodoOf(p, i)' = TodoOf(p, i)
    BY <2>2, <1>2 DEF TodoOf
  <2> QED
    BY <2>2, <2>3, <1>5 DEF Working
<1> QED
  BY <1>1, <1>2, <1>5, FallOrder

LEMMA QuietOrder ==
    ASSUME CountInv, OrderInv, UNCHANGED <<item, rated, serverVars, history>>
    PROVE  OrderInv'
<1>1. rated \in Nat
  BY CountBasics
<1>2. UNCHANGED <<claimed, stability, misled, mixed, item, rated, request>>
  BY DEF serverVars, history
<1>3. \A q \in Requests, i \in Items : TodoOf(q, i)' = TodoOf(q, i) /\ (Working(q, i)' <=> Working(q, i))
  BY <1>2 DEF Working, TodoOf
<1> QED
  BY <1>1, <1>2, <1>3, FallOrder

LEMMA BrowserOrder ==
    ASSUME CountInv, OrderInv,
           \/ LoadsNothing \/ PackageAnswered \/ PackageStored \/ PackageFails
           \/ RegisterBackgroundSync \/ CloseTab \/ SwitchAccount \/ GoOffline \/ UNCHANGED vars
           \/ \E f \in Flushes : DeleteHandled(f) \/ Throw(f)
    PROVE  OrderInv'
<1>1. UNCHANGED <<item, rated, serverVars, history>>
  BY DEF LoadsNothing, PackageAnswered, PackageStored, PackageFails, pageFrame, RegisterBackgroundSync,
     CloseTab, SwitchAccount, GoOffline, vars, clientVars, DeleteHandled, Throw
<1> QED
  BY <1>1, QuietOrder

\* A new request on an item that nobody works on: it brings all that is still
\* in the queue, and what has left the queue is settled.
LEMMA NewOrder ==
    ASSUME CountInv, QueueInv, NEW i \in Items, OrderOf(i), NEW q \in Requests,
           UNCHANGED <<claimed, stability, interrupted, misled, overwritten>>,
           rated' \in rated .. MaxReviews, \A r \in 1 .. rated : item'[r] = item[r],
           \A r \in 1 .. rated' : item'[r] = i /\ r \notin TodoOf(q, i)' => r <= rated /\ r \notin queue,
           TodoOf(q, i)' \subseteq 1 .. rated',
           \A p \in Requests : ~Working(p, i) /\ ~Hand(p, i)' /\ (p # q => ~Working(p, i)')
    PROVE  OrderOf(i)'
<1>1. /\ TypeOK /\ rated \in Nat /\ rated' \in Nat /\ misled \subseteq 1 .. rated
      /\ interrupted \cup overwritten \subseteq claimed
      /\ \A n \in DOMAIN stability[i] : stability[i][n] \in claimed /\ stability[i][n] \in 1 .. rated
  <2>1. TypeOK /\ rated \in Nat /\ rated' \in Nat /\ misled \subseteq 1 .. rated /\ interrupted \cup overwritten \subseteq claimed
    <3>1. TypeOK
      BY DEF CountInv
    <3>2. rated \in 0 .. MaxReviews /\ misled \subseteq 1 .. rated /\ interrupted \cup overwritten \subseteq claimed
      BY <3>1 DEF TypeOK
    <3> QED
      BY <3>1, <3>2, OfflineReviewAssumption
  <2>2. \A n \in DOMAIN stability[i] : stability[i][n] \in claimed
    BY DEF CountInv, Histories, HistoryOf
  <2>3. claimed \subseteq 1 .. rated
    BY <2>1 DEF TypeOK
  <2> QED
    BY <2>1, <2>2, <2>3
<1>2. Alone(i)' /\ NewestInHand(i)'
  BY DEF Alone, NewestInHand
<1>3. Sorted(i)' /\ NoneMisled(i)'
  BY <1>1 DEF OrderOf, Sorted, NoneMisled
<1>4. ASSUME NEW r \in 1 .. rated, item[r] = i, r \in claimed
      PROVE  Settled(r)'
  <2>1. item'[r] = i
    BY <1>4
  <2>2. ASSUME NEW p \in Requests, HandedTo(p, r)'
        PROVE  FALSE
    <3>1. Hand(p, i)'
      BY <2>1, <2>2 DEF HandedTo, Hand, Working, TodoOf
    <3> QED
      BY <3>1
  <2> QED
    BY <1>4, <2>2 DEF Settled
<1>5. ASSUME NEW r \in 1 .. rated, item[r] = i, r \notin queue
      PROVE  r \in claimed
  <2>1. Safe(r)
    BY <1>5 DEF QueueInv
  <2>2. ~ \E p \in Requests : request[p].own /\ HandedTo(p, r)
    BY <1>5 DEF HandedTo, Hand
  <2>3. r \notin misled
    BY <1>5 DEF OrderOf, NoneMisled
  <2>4. r \in Counted(item[r]) \cup interrupted \cup overwritten
    BY <2>1, <2>2, <2>3 DEF Safe
  <2> QED
    BY <2>4, <1>1, <1>5 DEF Counted
<1>6. OlderSettled(i)'
  <2> SUFFICES ASSUME NEW r \in 1 .. rated', item'[r] = i
               PROVE  /\ \A n \in DOMAIN stability'[i] : r < stability'[i][n] => Settled(r)'
                      /\ \A p \in Requests : request'[p].own /\ Working(p, i)' /\ r \notin TodoOf(p, i)' =>
                           \A s \in TodoOf(p, i)' : r < s => Settled(r)'
    BY DEF OlderSettled
  <2>1. ASSUME NEW n \in DOMAIN stability[i], r < stability[i][n]
        PROVE  Settled(r)'
    <3>1. r \in 1 .. rated /\ item[r] = i
      BY <1>1, <2>1
    <3>2. Settled(r)
      BY <3>1, <2>1 DEF OrderOf, OlderSettled
    <3> QED
      BY <3>1, <3>2, <1>4 DEF Settled
  <2>2. ASSUME r \notin TodoOf(q, i)'
        PROVE  Settled(r)'
    <3>1. r <= rated /\ r \notin queue
      BY <2>2
    <3>2. r \in 1 .. rated /\ item[r] = i
      BY <3>1, <1>1
    <3> QED
      BY <3>1, <3>2, <1>4, <1>5
  <2> QED
    BY <2>1, <2>2
<1> QED
  BY <1>2, <1>3, <1>6 DEF OrderOf

LEMMA FlushOrder ==
    ASSUME CountInv, QueueInv, OrderInv, FlushStep
    PROVE  OrderInv'
<1>1. /\ TypeOK /\ Batches /\ ClientTypes' /\ rated \in Nat /\ rated' \in Nat /\ rated <= rated'
      /\ rated' \in rated .. MaxReviews /\ \A r \in 1 .. rated : item'[r] = item[r]
      /\ UNCHANGED <<claimed, stability, interrupted, misled, overwritten>>
      /\ \A r \in 1 .. rated' : r \notin queue' => r <= rated /\ r \notin queue
  <2>1. TypeOK /\ Batches
    BY DEF CountInv
  <2>2. /\ ClientTypes' /\ rated' \in rated .. MaxReviews /\ \A r \in 1 .. rated : item'[r] = item[r]
        /\ UNCHANGED <<claimed, stability, interrupted, misled, overwritten>>
        /\ queue \subseteq queue' /\ \A r \in 1 .. rated' : r > rated => r \in queue'
    BY DEF FlushStep
  <2>3. rated \in Nat /\ rated' \in Nat /\ rated <= rated'
    BY <2>1, <2>2, OfflineReviewAssumption DEF TypeOK
  <2> QED
    BY <2>1, <2>2, <2>3
<1>2. PICK pending, itemOf :
        /\ pending = queue' /\ itemOf = item'
        /\ NoFlush \/ \E f \in Flushes : Post(f, pending, itemOf)
  BY DEF FlushStep
<1>3. pending \subseteq 1 .. rated' /\ pending \in SUBSET Reviews
  BY <1>1, <1>2, OfflineReviewAssumption DEF ClientTypes, Reviews
<1>4. CASE NoFlush
  <2>1. UNCHANGED <<request, mixed>>
    BY <1>4 DEF NoFlush
  <2>2. \A q \in Requests, i \in Items : TodoOf(q, i)' = TodoOf(q, i) /\ (Working(q, i)' <=> Working(q, i))
    BY <1>1, <2>1 DEF Batches, TodoOf, Working
  <2> QED
    BY <2>1, <2>2, <1>1, FallOrder
<1>5. ASSUME NEW f \in Flushes, Post(f, pending, itemOf)
      PROVE  OrderInv'
  <2>1. PICK q \in Requests : q = requests'
    BY <1>1, <1>3, <1>5, PostReads DEF PostEffect
  <2>2. /\ request'[q].todo = pending /\ request'[q].at = NoRequest.at
        /\ \A p \in Requests : p # q => request'[p] = request[p]
        /\ mixed' = mixed \cup Mixing(itemOf, pending)
    BY <2>1, <1>1, <1>3, <1>5, PostReads DEF PostEffect
  <2>3. /\ HandsKept
        /\ \A p \in Requests, i \in Items : p # q => TodoOf(p, i)' = TodoOf(p, i) /\ (Working(p, i)' <=> Working(p, i))
        /\ \A i \in Items : ~Working(q, i)
    <3>1. HandsKept /\ \A i \in Items : ~Working(requests', i)
      BY <1>1, <1>3, <1>5, PostHands
    <3>2. ASSUME NEW p \in Requests, NEW i \in Items, p # q
          PROVE  TodoOf(p, i)' = TodoOf(p, i) /\ (Working(p, i)' <=> Working(p, i))
      <4>1. request'[p] = request[p]
        BY <2>2, <3>2
      <4>2. TodoOf(p, i)' = TodoOf(p, i)
        BY <4>1, <1>1 DEF TodoOf, Batches
      <4> QED
        BY <4>1, <4>2 DEF Working
    <3>3. \A i \in Items : ~Working(q, i)
      BY <2>1, <3>1
    <3> QED
      BY <3>1, <3>2, <3>3
  <2> SUFFICES ASSUME NEW i \in Items \ mixed' PROVE OrderOf(i)'
    BY DEF OrderInv
  <2>4. OrderOf(i) /\ stability'[i] = stability[i] /\ misled' = misled /\ i \notin Mixing(itemOf, pending)
    BY <1>1, <2>2 DEF OrderInv
  <2>5. \A r : r \in TodoOf(q, i)' <=> r \in pending /\ itemOf[r] = i
    BY <2>2, <1>2 DEF TodoOf
  <2>6. CASE Working(q, i)'
    <3>1. \A p \in Requests : ~Working(p, i)
      <4>1. PICK r : r \in pending /\ itemOf[r] = i
        BY <2>5, <2>6 DEF Working
      <4> QED
        BY <4>1, <2>4 DEF Mixing
    <3>2. \A p \in Requests : ~Hand(p, i)' /\ (p # q => ~Working(p, i)')
      BY <3>1, <2>3 DEF HandsKept, Hand
    <3>3. \A r \in 1 .. rated' : item'[r] = i /\ r \notin TodoOf(q, i)' => r <= rated /\ r \notin queue
      BY <2>5, <1>1, <1>2
    <3>4. TodoOf(q, i)' \subseteq 1 .. rated'
      BY <2>5, <1>3
    <3> QED
      BY <3>1, <3>2, <3>3, <3>4, <2>4, <1>1, NewOrder
  <2>7. CASE ~Working(q, i)'
    <3>1. ASSUME NEW p \in Requests, Working(p, i)'
          PROVE  /\ Working(p, i) /\ TodoOf(p, i)' = TodoOf(p, i)
                 /\ request'[p].own = request[p].own
                 /\ request'[p].at[i] = request[p].at[i] /\ request'[p].seen[i] = request[p].seen[i]
      <4>1. p # q
        BY <2>7, <3>1
      <4> QED
        BY <4>1, <3>1, <2>2, <2>3
    <3>2. ASSUME NEW r \in 1 .. rated, item[r] = i, Settled(r)
          PROVE  Settled(r)'
      <4>1. item'[r] = i
        BY <3>2, <1>1
      <4>2. ASSUME NEW p \in Requests, HandedTo(p, r)'
            PROVE  request'[p].own
        <5>1. Current(p, i)' = r
          BY <4>1, <4>2 DEF HandedTo, Current, TodoOf
        <5>2. Hand(p, i)'
          BY <4>1, <4>2 DEF HandedTo, Hand, Working, TodoOf
        <5>3. Hand(p, i) /\ Current(p, i) = r /\ p # q
          BY <5>1, <5>2, <2>3 DEF HandsKept, Hand
        <5>4. request[p].own
          BY <5>3, <3>2 DEF Settled, HandedTo
        <5> QED
          BY <5>3, <5>4, <2>2
      <4> QED
        BY <4>2, <3>2, <1>1 DEF Settled
    <3> QED
      BY <3>1, <3>2, <2>4, <1>1, OrderFrame
  <2> QED
    BY <2>6, <2>7
<1> QED
  BY <1>2, <1>4, <1>5

LEMMA OrderInit == Init => OrderInv
<1> SUFFICES ASSUME Init, NEW i \in Items PROVE OrderOf(i)
  BY DEF OrderInv
<1>1. /\ misled = {} /\ rated = 0 /\ stability[i] = <<>>
      /\ \A q \in Requests : ~Working(q, i)
  BY DEF Init, Working, TodoOf, NoRequest
<1> QED
  BY <1>1 DEF OrderOf, Alone, NoneMisled, OlderSettled, NewestInHand, Sorted, Hand

LEMMA OrderNext == CountInv /\ QueueInv /\ OrderInv /\ [Next]_vars => OrderInv'
<1> SUFFICES ASSUME CountInv, QueueInv, OrderInv, [Next]_vars PROVE OrderInv'
  OBVIOUS
<1>1. CASE Agent
  BY <1>1, ClaimOrder, ReadOrder, WriteOrder, ReleaseOrder DEF Agent
<1>2. CASE Flushing
  BY <1>2, ReplyOrder, BrowserOrder DEF Flushing
<1>3. CASE User
  BY <1>3, OpenFlushes, RatingFlushes, FlushOrder, BrowserOrder DEF User, CountInv
<1>4. CASE PageLoads
  BY <1>4, BrowserOrder DEF PageLoads
<1>5. CASE Failures
  BY <1>5, CrashOrder, BrowserOrder, FailOrder, ReplyOrder DEF Failures
<1>6. CASE SyncFires \/ RegisterBackgroundSync \/ GoOnline
  BY <1>6, SyncFlushes, OnlineFlushes, FlushOrder, BrowserOrder DEF CountInv
<1>7. CASE UNCHANGED vars
  BY <1>7, BrowserOrder
<1> QED
  BY <1>1, <1>2, <1>3, <1>4, <1>5, <1>6, <1>7 DEF Next

\* The reviews of an item count in the order of their ratings, though they are
\* posted in any number of overlapping batches, fail, and are posted again: so
\* long as no second request starts on an item that one still works on, what a
\* batch leaves out is in the log for good, and what counts is older than what
\* comes.
THEOREM OrderIsKept == Spec => []OrderKept
<1>1. OrderInv => OrderKept
  BY DEF OrderInv, OrderOf, Sorted, OrderKept
<1> QED
  BY <1>1, CountInit, CountNext, QueueInit, QueueNext, OrderInit, OrderNext, PTL DEF Spec
=============================================================================

------------------------ MODULE Consolidation_proofs ------------------------
(***************************************************************************)
(* Proofs about AGT-06's consolidation, for every set of sessions, every   *)
(* number of overlapping calls, failures and entries.                      *)
(***************************************************************************)
EXTENDS Consolidation, TLAPS

USE DEF Lists, Points, Owning, Answers

-----------------------------------------------------------------------------
(* The values a coroutine can have.                                         *)

LEMMA NoneReading == None \in Reading
BY DEF None, Reading, Items

\* A slot between two calls is well typed.
LEMMA IdleCallType ==
    ASSUME NEW s \in Sessions \cup {NoSession}, NEW a \in Answers
    PROVE  IdleCall(s, a) \in CallRecords
BY NoneReading DEF IdleCall, CallRecords

\* So is a call that goes on, and one that returns.
LEMMA ProceedType ==
    ASSUME call \in [Calls -> CallRecords], NEW c \in Calls, NEW point \in Points
    PROVE  [call EXCEPT ![c].at = point] \in [Calls -> CallRecords]
BY DEF CallRecords

LEMMA ReturnType ==
    ASSUME call \in [Calls -> CallRecords], NEW c \in Calls, NEW answer \in Answers
    PROVE  [call EXCEPT ![c] = IdleCall(call[c].session, answer)] \in [Calls -> CallRecords]
<1>1. call[c].session \in Sessions \cup {NoSession}
  BY DEF CallRecords
<1>2. QED
  BY <1>1, IdleCallType

\* A failure keeps within the bound.
LEMMA FaultType ==
    ASSUME ConsolidationAssumption, faults \in 0 .. MaxFaults, Fault
    PROVE  faults' \in 0 .. MaxFaults
BY DEF Fault, ConsolidationAssumption

\* Adding entries to a tally gives a tally.
LEMMA AddAllType ==
    ASSUME NEW l \in Lists, NEW tally \in [Items(l) -> Nat], NEW entries
    PROVE  AddAll(tally, entries) \in [Items(l) -> Nat]
BY DEF AddAll

\* What is kept of a list that n entries were pushed to, and one more.
LEMMA PushedRange ==
    ASSUME NEW n \in Nat, NEW held \in SUBSET (1 .. n), NEW list \in SUBSET (held \cup {n + 1})
    PROVE  list \subseteq 1 .. n + 1 /\ list \in SUBSET Nat
OBVIOUS

\* The lists in Redis hold entries that were pushed.
LEMMA ListsType ==
    ASSUME TypeOK, ConsolidationAssumption, NEW s \in Sessions, NEW l \in Lists
    PROVE  /\ count[s][l] \in Nat
           /\ stm[s][l] \in SUBSET (1 .. count[s][l])
           /\ stm[s][l] \in SUBSET Items(l)
           /\ MaxPushed[l] \in Nat
<1>1. MaxPushed[l] \in Nat
  BY DEF ConsolidationAssumption
<1>2. count[s][l] \in 0 .. MaxPushed[l] /\ stm[s][l] \subseteq 1 .. count[s][l]
  BY DEF TypeOK
<1>3. QED
  BY <1>1, <1>2 DEF Items

\* Reading one more list gives a reading.
LEMMA ReadType ==
    ASSUME NEW got \in Reading, NEW l \in Lists, NEW list \in SUBSET Items(l)
    PROVE  [got EXCEPT ![l] = list] \in Reading
<1>1. list \in SUBSET Nat
  BY DEF Items
<1>2. [got EXCEPT ![l] = list] \in [Lists -> SUBSET Nat]
  BY <1>1 DEF Reading
<1>3. \A m \in Lists : [got EXCEPT ![l] = list][m] \subseteq Items(m)
  BY DEF Reading
<1>4. QED
  BY <1>2, <1>3 DEF Reading

\* A push counts the pipelines that have not trimmed.
LEMMA PipelinesType ==
    ASSUME untrimmed \in [Sessions -> Nat], overrun \in [Sessions -> Nat], NEW s \in Sessions,
           AppendError(s) \/ AppendVocab(s) \/ AppendContextTurn(s)
    PROVE  untrimmed' \in [Sessions -> Nat] /\ overrun' \in [Sessions -> Nat]
<1>1. CASE AppendError(s) \/ AppendVocab(s)
  BY <1>1 DEF AppendError, AppendVocab, pipelineVars
<1>2. CASE AppendContextTurn(s)
  <2>1. untrimmed[s] + 1 \in Nat
    OBVIOUS
  <2>2. QED
    BY <1>2, <2>1 DEF AppendContextTurn
<1>3. QED
  BY <1>1, <1>2

\* The events are counted.
LEMMA CompleteType ==
    ASSUME complete \in [Sessions -> Nat], NEW c \in Calls, call[c].session \in Sessions, EmitComplete(c)
    PROVE  complete' \in [Sessions -> Nat]
BY DEF EmitComplete

\* A slot that is not idle runs for a session.
ActiveInv == \A c \in Calls : call[c].at # "idle" => call[c].session \in Sessions

TypeInv == TypeOK /\ ActiveInv

LEMMA InitType == Init => TypeInv
<1> SUFFICES ASSUME Init PROVE TypeInv
  OBVIOUS
<1>2. \A l \in Lists : Tally(l) \in [Items(l) -> Nat]
  BY DEF Tally
<1>3. IdleCall(NoSession, "none") \in CallRecords
  BY IdleCallType
<1>4. call \in [Calls -> CallRecords]
  BY <1>3 DEF Init
<1>5. faults \in 0 .. MaxFaults
  BY ConsolidationAssumption DEF ConsolidationAssumption, Init
<1>6. \A s \in Sessions, l \in Lists :
        stm[s][l] \subseteq 1 .. count[s][l] /\ count[s][l] \in 0 .. MaxPushed[l]
  BY ConsolidationAssumption DEF Init, None, Zero, ConsolidationAssumption
<1>7. TypeOK
  BY <1>2, <1>4, <1>5, <1>6, NoneReading
     DEF TypeOK, Init, None, Zero, Counts, Conversations
<1>8. ActiveInv
  BY DEF ActiveInv, Init, IdleCall
<1>9. QED
  BY <1>7, <1>8 DEF TypeInv

\* Every step keeps the types.
LEMMA NextType == TypeInv /\ [Next]_vars => TypeInv'
<1> SUFFICES ASSUME TypeInv, [Next]_vars PROVE TypeInv'
  OBVIOUS
<1> USE DEF TypeInv, TypeOK, ActiveInv
<1>a. ConsolidationAssumption
  BY ConsolidationAssumption
\* What the control operators do to the slots.
<1>p. ASSUME NEW c \in Calls, NEW point \in Points,
             call[c].at # "idle", call' = [call EXCEPT ![c].at = point]
      PROVE  call' \in [Calls -> CallRecords] /\ ActiveInv'
  <2>1. call' \in [Calls -> CallRecords]
    BY <1>p, ProceedType
  <2>2. \A d \in Calls : call'[d].session = call[d].session
    BY <1>p DEF CallRecords
  <2>3. \A d \in Calls : d # c => call'[d] = call[d]
    BY <1>p
  <2>4. QED
    BY <1>p, <2>1, <2>2, <2>3
<1>q. ASSUME NEW c \in Calls, NEW answer \in Answers,
             call' = [call EXCEPT ![c] = IdleCall(call[c].session, answer)]
      PROVE  call' \in [Calls -> CallRecords] /\ ActiveInv'
  <2>1. call' \in [Calls -> CallRecords]
    BY <1>q, ReturnType
  <2>2. call'[c].at = "idle"
    BY <1>q DEF IdleCall
  <2>3. \A d \in Calls : d # c => call'[d] = call[d]
    BY <1>q
  <2>4. QED
    BY <2>1, <2>2, <2>3
<1>f. Fault => faults' \in 0 .. MaxFaults
  BY <1>a, FaultType
<1>g. ASSUME NEW c \in Calls, NEW point \in Points, call[c].at # "idle",
             Proceed(c, point) \/ Raise(c)
      PROVE  call' \in [Calls -> CallRecords] /\ ActiveInv' /\ faults' \in 0 .. MaxFaults
  <2>1. CASE Proceed(c, point)
    BY <2>1, <1>g, <1>p DEF Proceed
  <2>2. CASE Raise(c)
    BY <2>2, <1>q, <1>f DEF Raise
  <2>3. QED
    BY <2>1, <2>2, <1>g
<1>1. ASSUME NEW s \in Sessions, AppendError(s) \/ AppendVocab(s) \/ AppendContextTurn(s)
      PROVE  TypeInv'
  <2>0. PICK l \in Lists : \E list \in SUBSET RPush(s, l) : Push(s, l, list)
    BY <1>1 DEF AppendError, AppendVocab, AppendContextTurn
  <2>1. PICK list \in SUBSET RPush(s, l) : Push(s, l, list)
    BY <2>0
  <2>2. list \subseteq 1 .. count[s][l] + 1 /\ list \in SUBSET Nat
    <3>1. count[s][l] \in Nat /\ stm[s][l] \in SUBSET (1 .. count[s][l])
      BY <1>a, ListsType
    <3>2. list \in SUBSET (stm[s][l] \cup {count[s][l] + 1})
      BY <2>1 DEF RPush, NextEntry
    <3> DEFINE n == count[s][l]
               held == stm[s][l]
    <3> HIDE DEF n, held, TypeInv
    <3>3. n \in Nat /\ held \in SUBSET (1 .. n) /\ list \in SUBSET (held \cup {n + 1})
      BY <3>1, <3>2 DEF n, held
    <3>4. list \subseteq 1 .. n + 1 /\ list \in SUBSET Nat
      BY <3>3, PushedRange
    <3>5. QED
      BY <3>4 DEF n
  <2>3. count[s][l] + 1 \in 0 .. MaxPushed[l]
    BY <1>a, <2>1 DEF Push, NextEntry, Items, ConsolidationAssumption, Counts
  <2>4. /\ count' = [count EXCEPT ![s][l] = count[s][l] + 1]
        /\ stm' = [stm EXCEPT ![s][l] = list]
    BY <2>1 DEF Push, NextEntry
  <2>5. count' \in [Sessions -> Counts] /\ stm' \in [Sessions -> [Lists -> SUBSET Nat]]
    BY <2>2, <2>4 DEF Counts
  <2>6. \A t \in Sessions, m \in Lists :
          stm'[t][m] \subseteq 1 .. count'[t][m] /\ count'[t][m] \in 0 .. MaxPushed[m]
    BY <2>2, <2>3, <2>4 DEF Counts
  <2>7. untrimmed' \in [Sessions -> Nat] /\ overrun' \in [Sessions -> Nat]
    BY <1>1, PipelinesType
  <2>8. QED
    BY <2>1, <2>5, <2>6, <2>7 DEF Push, ltmVars, endVars
\* A pipeline trims what is there.
<1>t. ASSUME NEW s \in Sessions, TrimContext(s)
      PROVE  TypeInv'
  <2>1. stm' \in [Sessions -> [Lists -> SUBSET Nat]]
    BY <1>t DEF TrimContext, LTrim
  <2>2. \A t \in Sessions, m \in Lists : stm'[t][m] \subseteq stm[t][m]
    BY <1>t DEF TrimContext, LTrim
  <2>3. untrimmed' \in [Sessions -> Nat]
    BY <1>t DEF TrimContext
  <2>4. QED
    BY <1>t, <2>1, <2>2, <2>3 DEF TrimContext, ltmVars, endVars
<1>2. ASSUME NEW s \in Sessions, NEW l \in Lists, Expire(s, l)
      PROVE  TypeInv'
  <2>1. stm' \in [Sessions -> [Lists -> SUBSET Nat]]
    BY <1>2 DEF Expire
  <2>2. \A t \in Sessions, m \in Lists : stm'[t][m] \subseteq stm[t][m]
    BY <1>2 DEF Expire
  <2>3. QED
    BY <1>2, <1>f, <2>1, <2>2 DEF Expire, pipelineVars, ltmVars, endVars
<1>3. ASSUME NEW c \in Calls, NEW s \in Sessions, Request(c, s)
      PROVE  TypeInv'
  <2>1. IdleCall(s, "none") \in CallRecords
    BY IdleCallType
  <2>2. [IdleCall(s, "none") EXCEPT !.at = "read", !.unread = Lists] \in CallRecords
    BY <2>1 DEF CallRecords
  <2>3. [IdleCall(s, "none") EXCEPT !.at = "read", !.unread = Lists].session = s
    BY DEF IdleCall
  <2>4. call' \in [Calls -> CallRecords] /\ ActiveInv'
    BY <1>3, <2>2, <2>3 DEF Request
  <2>5. QED
    BY <1>3, <2>4 DEF Request, stmVars, pipelineVars, ltmVars
<1>4. ASSUME NEW c \in Calls, NEW l \in Lists, Read(c, l)
      PROVE  TypeInv'
  <2> DEFINE s == call[c].session
  <2>1. s \in Sessions
    BY <1>4 DEF Read
  <2>2. stm[s][l] \in SUBSET Items(l)
    BY <1>a, <2>1, ListsType
  <2>3. [call[c].got EXCEPT ![l] = stm[s][l]] \in Reading
    BY <2>2, ReadType DEF CallRecords
  <2>0. call' = [call EXCEPT ![c] = [call[c] EXCEPT !.got = [call[c].got EXCEPT ![l] = stm[s][l]],
                                                   !.unread = @ \ {l},
                                                   !.at = IF call[c].unread = {l} THEN "create" ELSE "read"]]
    BY <1>4 DEF Read
  <2>4. call'[c] \in CallRecords /\ call'[c].session = s
    <3>1. call[c] \in CallRecords /\ {"create", "read"} \subseteq Points
      BY DEF Points
    <3> QED
      BY <2>3, <2>0, <3>1 DEF CallRecords
  <2>5. \A d \in Calls : d # c => call'[d] = call[d]
    BY <1>4 DEF Read
  <2>6. call' \in [Calls -> CallRecords] /\ ActiveInv'
    <3>1. \A d \in Calls : call'[d] \in CallRecords
      BY <2>4, <2>5
    <3>2. ActiveInv'
      BY <2>1, <2>4, <2>5
    <3>3. QED
      BY <1>4, <3>1, <3>2 DEF Read
  <2>7. QED
    BY <1>4, <2>6 DEF Read, stmVars, pipelineVars, ltmVars, endVars
<1>5. ASSUME NEW c \in Calls, CreateSession(c) PROVE TypeInv'
  <2>1. call[c].session \in Sessions
    BY <1>5 DEF CreateSession
  <2>2. row' \in [Sessions -> {"none", "open", "closed"}]
    BY <1>5, <2>1 DEF CreateSession
  <2>3. QED
    BY <1>5, <1>g, <2>2 DEF CreateSession, stmVars, pipelineVars, endVars
<1>6. ASSUME NEW c \in Calls, CloseSessionWins(c) PROVE TypeInv'
  <2>1. call[c].session \in Sessions /\ call[c].got \in Reading
    BY <1>6 DEF CloseSessionWins, CallRecords
  <2>2. row' \in [Sessions -> {"none", "open", "closed"}] /\ snapshot' \in [Sessions -> Reading]
    BY <1>6, <2>1 DEF CloseSessionWins
  <2>3. QED
    BY <1>6, <1>g, <2>2 DEF CloseSessionWins, stmVars, pipelineVars, endVars
<1>7. ASSUME NEW c \in Calls, CloseSessionLoses(c) PROVE TypeInv'
  BY <1>7, <1>q DEF CloseSessionLoses, Return, stmVars, pipelineVars, endVars, ltmVars
<1>8. ASSUME NEW c \in Calls, InsertErrorEvents(c) PROVE TypeInv'
  <2>1. call[c].session \in Sessions
    BY <1>8 DEF InsertErrorEvents
  <2>2. errorRows' \in [Sessions -> [Items("errors") -> Nat]]
    BY <1>8, <2>1, AddAllType DEF InsertErrorEvents
  <2>3. Proceed(c, "vocab") \/ Raise(c)
    BY <1>8 DEF InsertErrorEvents
  <2>4. call[c].at # "idle"
    BY <1>8 DEF InsertErrorEvents
  <2>5. QED
    BY <1>8, <1>g, <2>2, <2>3, <2>4 DEF InsertErrorEvents, stmVars, pipelineVars, endVars
<1>9. ASSUME NEW c \in Calls, UpsertVocabBatch(c) PROVE TypeInv'
  <2>1. call[c].session \in Sessions
    BY <1>9 DEF UpsertVocabBatch
  <2>2. encounters' \in [Sessions -> [Items("vocab") -> Nat]]
    BY <1>9, <2>1, AddAllType DEF UpsertVocabBatch
  <2>3. QED
    BY <1>9, <1>g, <2>2 DEF UpsertVocabBatch, stmVars, pipelineVars, endVars
<1>10. ASSUME NEW c \in Calls, SwallowVocabFailure(c) PROVE TypeInv'
  BY <1>10, <1>p, <1>f DEF SwallowVocabFailure, stmVars, pipelineVars, endVars, ltmVars
<1>11. ASSUME NEW c \in Calls, InsertConversation(c) PROVE TypeInv'
  <2>1. call[c].session \in Sessions /\ call[c].got["context"] \in SUBSET Nat
    BY <1>11 DEF InsertConversation, CallRecords, Reading
  <2>2. conversation' \in [Sessions -> Conversations]
    BY <1>11, <2>1 DEF InsertConversation, Conversations
  <2>3. embedding' \in SUBSET Sessions /\ (Proceed(c, "emit") \/ Raise(c))
    BY <1>11, <2>1 DEF InsertConversation
  <2>4. call[c].at # "idle"
    BY <1>11 DEF InsertConversation
  <2>5. QED
    BY <1>11, <1>g, <2>2, <2>3, <2>4 DEF InsertConversation, stmVars, pipelineVars, endVars
<1>12. ASSUME NEW c \in Calls, EmitComplete(c) PROVE TypeInv'
  <2>1. call[c].session \in Sessions
    BY <1>12 DEF EmitComplete
  <2>2. complete' \in [Sessions -> Nat]
    BY <1>12, <2>1, CompleteType
  <2>3. faults' \in 0 .. MaxFaults
    BY <1>12, <1>f DEF EmitComplete
  <2>4. QED
    BY <1>12, <1>q, <2>2, <2>3 DEF EmitComplete, stmVars, pipelineVars, endVars, ltmVars
<1>13. ASSUME NEW c \in Calls, StatementFails(c) PROVE TypeInv'
  BY <1>13, <1>q, <1>f DEF StatementFails, Raise, stmVars, pipelineVars, endVars, ltmVars
<1>14. ASSUME NEW s \in Sessions, StoreEmbedding(s) PROVE TypeInv'
  <2>3. conversation[s] \in Conversations
    BY <1>14
  <2>4. [conversation[s] EXCEPT !.embedded = @ \/ conversation[s].transcript # {}] \in Conversations
    BY <2>3 DEF Conversations
  <2>5. conversation' = [conversation EXCEPT ![s] = [conversation[s] EXCEPT !.embedded = @ \/ conversation[s].transcript # {}]]
    BY <1>14 DEF StoreEmbedding
  <2>1. conversation' \in [Sessions -> Conversations]
    BY <2>4, <2>5
  <2>2. QED
    BY <1>14, <2>1 DEF StoreEmbedding, stmVars, pipelineVars, endVars
<1>15. ASSUME NEW s \in Sessions, EmbeddingFails(s) PROVE TypeInv'
  BY <1>15, <1>f DEF EmbeddingFails, stmVars, pipelineVars, endVars, ltmVars
<1>16. CASE Crash
  <2>1. \A c \in Calls : call'[c] \in CallRecords
    <3> SUFFICES ASSUME NEW c \in Calls PROVE call'[c] \in CallRecords
      OBVIOUS
    <3>1. call[c].session \in Sessions \cup {NoSession}
      BY DEF CallRecords
    <3>2. IdleCall(call[c].session, "raised") \in CallRecords
      BY <3>1, IdleCallType
    <3>3. QED
      BY <1>16, <3>2 DEF Crash
  <2>2. \A c \in Calls : call'[c].at = "idle"
    BY <1>16 DEF Crash, IdleCall
  <2>3. call' \in [Calls -> CallRecords] /\ ActiveInv'
    BY <1>16, <2>1, <2>2 DEF Crash
  <2>4. QED
    BY <1>16, <1>f, <2>3 DEF Crash, stmVars, pipelineVars, endVars, ltmVars
<1>17. CASE UNCHANGED vars
  BY <1>17 DEF vars, stmVars, pipelineVars, endVars, ltmVars
<1>18. QED
  BY <1>1, <1>t, <1>2, <1>3, <1>4, <1>5, <1>6, <1>7, <1>8, <1>9, <1>10, <1>11, <1>12, <1>13,
     <1>14, <1>15, <1>16, <1>17 DEF Next, Step

\* Every reachable state is well typed.
THEOREM TypeCorrect == Spec => []TypeOK
<1>1. Init => TypeInv
  BY InitType
<1>2. TypeInv /\ [Next]_vars => TypeInv'
  BY NextType
<1>3. TypeInv => TypeOK
  BY DEF TypeInv
<1>4. QED
  BY <1>1, <1>2, <1>3, PTL DEF Spec

-----------------------------------------------------------------------------
(* The inductive invariant.  One call at a time is between the close of a   *)
(* session's row and its return: it owns the session.  It found nothing     *)
(* written, and what is written since is what it has reached.  When it is   *)
(* gone, returned or failed or killed, nobody owns the session again.       *)

\* The tally of a set of entries written once.
Once(l, entries) == [k \in Items(l) |-> IF k \in entries THEN 1 ELSE 0]

Owns(c, s) == call[c].at \in Owning /\ call[c].session = s

OwnerInv ==
    \A c \in Calls : call[c].at \in Owning =>
        /\ row[call[c].session] = "closed"
        /\ call[c].got = snapshot[call[c].session]

UniqueInv == \A c, d \in Calls, s \in Sessions : Owns(c, s) /\ Owns(d, s) => c = d

\* Nothing of s is in LTM.
Nothing(s) ==
    /\ errorRows[s] = Tally("errors")
    /\ encounters[s] = Tally("vocab")
    /\ conversation[s].rows = 0
    /\ complete[s] = 0

ErrorsWritten(s) == errorRows[s] = Once("errors", snapshot[s]["errors"])

\* What the owner has reached.
Reached(c, s) ==
    /\ call[c].at = "errors" => Nothing(s)
    /\ call[c].at = "vocab" => ErrorsWritten(s) /\ encounters[s] = Tally("vocab")
    /\ call[c].at \in {"vocab", "archive"} =>
         ErrorsWritten(s) /\ conversation[s].rows = 0 /\ complete[s] = 0
    /\ call[c].at = "emit" => conversation[s].rows = 1 /\ complete[s] = 0

PhaseInv == \A c \in Calls, s \in Sessions : Owns(c, s) => Reached(c, s)

\* What LTM holds of s, owned or not.
Kept(s) ==
    /\ row[s] # "closed" => Nothing(s)
    /\ errorRows[s] = Tally("errors") \/ ErrorsWritten(s)
    /\ encounters[s] \in {Tally("vocab"), Once("vocab", snapshot[s]["vocab"])}
    /\ conversation[s].rows \in {0, 1} /\ complete[s] \in {0, 1}
    /\ complete[s] <= conversation[s].rows
    /\ conversation[s].rows = 1 =>
         ErrorsWritten(s) /\ conversation[s].transcript = snapshot[s]["context"]

KeptInv == \A s \in Sessions : Kept(s)

WriteOnce == OwnerInv /\ UniqueInv /\ PhaseInv /\ KeptInv

\* LTM and the closing of s are as they were.
SameArchive(s) ==
    /\ row'[s] = "closed" <=> row[s] = "closed"
    /\ errorRows'[s] = errorRows[s]
    /\ encounters'[s] = encounters[s]
    /\ conversation'[s].rows = conversation[s].rows
    /\ conversation'[s].transcript = conversation[s].transcript
    /\ complete'[s] = complete[s]
    /\ snapshot'[s] = snapshot[s]

LEMMA SameKept == ASSUME NEW s, SameArchive(s), Kept(s) PROVE Kept(s)'
BY DEF SameArchive, Kept, Nothing, ErrorsWritten

LEMMA SameReached ==
    ASSUME NEW s, NEW c, SameArchive(s), Reached(c, s), call'[c].at = call[c].at
    PROVE  Reached(c, s)'
BY DEF SameArchive, Reached, Nothing, ErrorsWritten

\* A step that changes nothing in LTM and lets no call become an owner.
LEMMA QuietStep ==
    ASSUME WriteOnce, TypeInv,
           \A s \in Sessions : SameArchive(s),
           \A c \in Calls : call'[c].at \in Owning => call'[c] = call[c]
    PROVE  WriteOnce'
<1>1. \A c \in Calls : call[c].at \in Owning => call[c].session \in Sessions
  BY DEF TypeInv, ActiveInv
<1>2. OwnerInv'
  BY <1>1 DEF WriteOnce, OwnerInv, SameArchive
<1>3. UniqueInv'
  BY DEF WriteOnce, UniqueInv, Owns
<1>4. PhaseInv'
  <2> SUFFICES ASSUME NEW c \in Calls, NEW s \in Sessions, Owns(c, s)'
               PROVE  Reached(c, s)'
    BY DEF PhaseInv
  <2>1. call'[c] = call[c] /\ Owns(c, s)
    BY DEF Owns
  <2>2. Reached(c, s)
    BY <2>1 DEF WriteOnce, PhaseInv
  <2>3. QED
    BY <2>1, <2>2, SameReached
<1>5. KeptInv'
  BY SameKept DEF WriteOnce, KeptInv
<1>6. QED
  BY <1>2, <1>3, <1>4, <1>5 DEF WriteOnce

\* A step of the call that owns its session, or is about to.
LEMMA OwnerStep ==
    ASSUME WriteOnce, TypeInv,
           NEW c \in Calls, NEW s \in Sessions,
           call[c].session = s,
           call[c].at \in Owning \/ row[s] # "closed",
           \A d \in Calls : d # c => call'[d] = call[d],
           \A t \in Sessions : t # s => SameArchive(t),
           call'[c].session = s,
           call'[c].at \in Owning =>
               call'[c].got = snapshot'[s] /\ row'[s] = "closed" /\ Reached(c, s)',
           Kept(s)'
    PROVE  WriteOnce'
<1>1. \A d \in Calls : d # c /\ call[d].at \in Owning => call[d].session \in Sessions \ {s}
  BY DEF TypeInv, ActiveInv, WriteOnce, OwnerInv, UniqueInv, Owns
<1>2. OwnerInv'
  <2> SUFFICES ASSUME NEW d \in Calls, call'[d].at \in Owning
               PROVE  /\ row'[call'[d].session] = "closed"
                      /\ call'[d].got = snapshot'[call'[d].session]
    BY DEF OwnerInv
  <2>1. CASE d = c
    BY <2>1
  <2>2. CASE d # c
    BY <2>2, <1>1 DEF WriteOnce, OwnerInv, SameArchive
  <2>3. QED
    BY <2>1, <2>2
<1>3. UniqueInv'
  BY <1>1 DEF WriteOnce, UniqueInv, Owns
<1>4. PhaseInv'
  <2> SUFFICES ASSUME NEW d \in Calls, NEW t \in Sessions, Owns(d, t)'
               PROVE  Reached(d, t)'
    BY DEF PhaseInv
  <2>1. CASE d = c
    BY <2>1 DEF Owns
  <2>2. CASE d # c
    <3>1. Owns(d, t) /\ t # s /\ call'[d] = call[d]
      BY <2>2, <1>1 DEF Owns
    <3>2. Reached(d, t)
      BY <3>1 DEF WriteOnce, PhaseInv
    <3>3. QED
      BY <3>1, <3>2, SameReached
  <2>3. QED
    BY <2>1, <2>2
<1>5. KeptInv'
  <2> SUFFICES ASSUME NEW t \in Sessions PROVE Kept(t)'
    BY DEF KeptInv
  <2>1. CASE t = s
    BY <2>1
  <2>2. CASE t # s
    BY <2>2, SameKept DEF WriteOnce, KeptInv
  <2>3. QED
    BY <2>1, <2>2
<1>6. QED
  BY <1>2, <1>3, <1>4, <1>5 DEF WriteOnce

LEMMA AddAllOnce ==
    ASSUME NEW l \in Lists, NEW entries
    PROVE  AddAll(Tally(l), entries) = Once(l, entries)
BY DEF AddAll, Tally, Once

\* Nothing is a record, of whatever reading.
LEMMA NothingKept == ASSUME NEW s, Nothing(s) PROVE Kept(s)
BY DEF Nothing, Kept

LEMMA InitWriteOnce == Init => WriteOnce
<1> SUFFICES ASSUME Init PROVE WriteOnce
  OBVIOUS
<1>1. \A c \in Calls : call[c].at = "idle"
  BY DEF Init, IdleCall
<1>2. \A s \in Sessions : Kept(s)
  <2> SUFFICES ASSUME NEW s \in Sessions PROVE Kept(s)
    OBVIOUS
  <2>1. Nothing(s)
    BY DEF Init, Nothing
  <2>2. QED
    BY <2>1, NothingKept
<1>3. QED
  BY <1>1, <1>2 DEF WriteOnce, OwnerInv, UniqueInv, PhaseInv, KeptInv, Owns

\* A call that returns or raises owns nothing.
LEMMA IdleStep ==
    ASSUME call \in [Calls -> CallRecords], NEW c \in Calls, NEW answer,
           call' = [call EXCEPT ![c] = IdleCall(call[c].session, answer)]
    PROVE  /\ call'[c].at = "idle" /\ call'[c].session = call[c].session
           /\ \A d \in Calls : d # c => call'[d] = call[d]
           /\ \A d \in Calls : call'[d].at \in Owning => call'[d] = call[d]
BY DEF IdleCall

\* A call that goes on keeps its session and its reading.
LEMMA ProceedStep ==
    ASSUME call \in [Calls -> CallRecords], NEW c \in Calls, NEW point,
           call' = [call EXCEPT ![c].at = point]
    PROVE  /\ call'[c].at = point /\ call'[c].session = call[c].session
           /\ call'[c].got = call[c].got
           /\ \A d \in Calls : d # c => call'[d] = call[d]
BY DEF CallRecords

\* Either way.
LEMMA ProceedOrRaise ==
    ASSUME call \in [Calls -> CallRecords], NEW c \in Calls, NEW point,
           Proceed(c, point) \/ Raise(c)
    PROVE  /\ call'[c].at \in {point, "idle"} /\ call'[c].session = call[c].session
           /\ call'[c].at = point \/ call'[c].at = "idle"
           /\ call'[c].at # "idle" => call'[c].got = call[c].got
           /\ \A d \in Calls : d # c => call'[d] = call[d]
<1>1. CASE Proceed(c, point)
  BY <1>1, ProceedStep DEF Proceed
<1>2. CASE Raise(c)
  BY <1>2, IdleStep DEF Raise
<1>3. QED
  BY <1>1, <1>2

\* Every step keeps the record write-once.
LEMMA NextWriteOnce == TypeInv /\ WriteOnce /\ [Next]_vars => WriteOnce'
<1> SUFFICES ASSUME TypeInv, WriteOnce, [Next]_vars PROVE WriteOnce'
  OBVIOUS
<1>t. /\ call \in [Calls -> CallRecords]
      /\ row \in [Sessions -> {"none", "open", "closed"}]
      /\ errorRows \in [Sessions -> [Items("errors") -> Nat]]
      /\ encounters \in [Sessions -> [Items("vocab") -> Nat]]
      /\ conversation \in [Sessions -> Conversations]
      /\ snapshot \in [Sessions -> Reading]
      /\ complete \in [Sessions -> Nat]
      /\ \A c \in Calls : call[c].at # "idle" => call[c].session \in Sessions
  BY DEF TypeInv, TypeOK, ActiveInv
<1>s. UNCHANGED <<ltmVars, complete>> => \A s \in Sessions : SameArchive(s)
  BY DEF ltmVars, SameArchive
<1>1. ASSUME NEW s \in Sessions,
             AppendError(s) \/ AppendVocab(s) \/ AppendContextTurn(s) \/ TrimContext(s)
      PROVE  WriteOnce'
  <2>1. UNCHANGED <<ltmVars, complete, call>>
    BY <1>1 DEF AppendError, AppendVocab, AppendContextTurn, TrimContext, Push
  <2>2. QED
    BY <1>s, <2>1, QuietStep
<1>2. ASSUME NEW s \in Sessions, NEW l \in Lists, Expire(s, l)
      PROVE  WriteOnce'
  <2>1. UNCHANGED <<ltmVars, complete, call>>
    BY <1>2 DEF Expire
  <2>2. QED
    BY <1>s, <2>1, QuietStep
<1>3. ASSUME NEW c \in Calls, NEW s \in Sessions, Request(c, s)
      PROVE  WriteOnce'
  <2>1. UNCHANGED <<ltmVars, complete>>
    BY <1>3 DEF Request
  <2>2. \A d \in Calls : call'[d].at \in Owning => call'[d] = call[d]
    BY <1>3 DEF Request, IdleCall
  <2>3. QED
    BY <1>s, <2>1, <2>2, QuietStep
<1>4. ASSUME NEW c \in Calls, NEW l \in Lists, Read(c, l)
      PROVE  WriteOnce'
  <2>1. UNCHANGED <<ltmVars, complete>>
    BY <1>4 DEF Read
  <2>2. call'[c].at \in {"create", "read"}
    BY <1>t, <1>4 DEF Read, CallRecords
  <2>3. \A d \in Calls : call'[d].at \in Owning => call'[d] = call[d]
    BY <1>4, <2>2 DEF Read
  <2>4. QED
    BY <1>s, <2>1, <2>3, QuietStep
<1>5. ASSUME NEW c \in Calls, CreateSession(c) PROVE WriteOnce'
  <2>1. call[c].session \in Sessions
    BY <1>t, <1>5 DEF CreateSession
  <2>0. row' = [row EXCEPT ![call[c].session] = IF @ = "none" THEN "open" ELSE @]
        /\ UNCHANGED <<errorRows, encounters, conversation, complete, snapshot>>
    BY <1>5 DEF CreateSession
  <2>r. row \in [Sessions -> {"none", "open", "closed"}]
    BY <1>t
  <2>c. \A s \in Sessions : row'[s] = "closed" <=> row[s] = "closed"
    BY <2>0, <2>1, <2>r
  <2>2. \A s \in Sessions : SameArchive(s)
    BY <2>0, <2>c DEF SameArchive
  <2>3. Proceed(c, "close") \/ Raise(c)
    BY <1>5 DEF CreateSession
  <2>4. \A d \in Calls : call'[d].at \in Owning => call'[d] = call[d]
    BY <1>t, <2>3, ProceedOrRaise
  <2>5. QED
    BY <2>2, <2>4, QuietStep
<1>6. ASSUME NEW c \in Calls, CloseSessionWins(c) PROVE WriteOnce'
  <2>s. PICK s \in Sessions : s = call[c].session
    BY <1>t, <1>6 DEF CloseSessionWins
  <2>1. s \in Sessions /\ row[s] = "open" /\ Nothing(s) /\ Kept(s)
    BY <2>s, <1>t, <1>6 DEF CloseSessionWins, WriteOnce, KeptInv, Kept
  <2>2. Proceed(c, "errors") \/ Raise(c)
    BY <2>s, <1>6 DEF CloseSessionWins
  <2>3. row'[s] = "closed" /\ snapshot'[s] = call[c].got
    BY <2>s, <1>t, <1>6, <2>1 DEF CloseSessionWins
  <2>4. \A t \in Sessions : t # s => SameArchive(t)
    BY <2>s, <1>t, <1>6 DEF CloseSessionWins, SameArchive
  <2>5. Nothing(s)' /\ Kept(s)'
    <3>1. Nothing(s)'
      BY <2>s, <1>6, <2>1 DEF CloseSessionWins, Nothing
    <3>2. QED
      BY <2>s, <3>1, NothingKept DEF Nothing, Kept
  <2>6. Reached(c, s)' /\ (call'[c].at # "idle" => call'[c].got = snapshot'[s])
    <3>1. call'[c].at \in {"errors", "idle"} /\ (call'[c].at # "idle" => call'[c].got = call[c].got)
      BY <2>s, <1>t, <2>2, ProceedOrRaise
    <3>2. QED
      BY <2>s, <2>3, <2>5, <3>1 DEF Reached
  <2>7. call'[c].session = s /\ \A d \in Calls : d # c => call'[d] = call[d]
    BY <2>s, <1>t, <2>2, ProceedOrRaise
  <2>8. QED
    BY <2>s, <2>1, <2>3, <2>4, <2>5, <2>6, <2>7, OwnerStep
<1>7. ASSUME NEW c \in Calls, CloseSessionLoses(c) PROVE WriteOnce'
  <2>1. UNCHANGED <<ltmVars, complete>>
    BY <1>7 DEF CloseSessionLoses
  <2>2. \A d \in Calls : call'[d].at \in Owning => call'[d] = call[d]
    BY <1>t, <1>7, IdleStep DEF CloseSessionLoses, Return
  <2>3. QED
    BY <1>s, <2>1, <2>2, QuietStep
\* The owner of a session, and what it has reached.
<1>o. ASSUME NEW c \in Calls, call[c].at \in Owning
      PROVE  /\ call[c].session \in Sessions
             /\ row[call[c].session] = "closed"
             /\ call[c].got = snapshot[call[c].session]
             /\ Reached(c, call[c].session)
             /\ Kept(call[c].session)
  BY <1>t, <1>o DEF WriteOnce, OwnerInv, PhaseInv, KeptInv, Owns
<1>8. ASSUME NEW c \in Calls, InsertErrorEvents(c) PROVE WriteOnce'
  <2>s. PICK s \in Sessions : s = call[c].session
    BY <1>t, <1>8 DEF InsertErrorEvents
  <2>0. call[c].at = "errors"
    BY <2>s, <1>8 DEF InsertErrorEvents
  <2>1. s \in Sessions /\ row[s] = "closed" /\ call[c].got = snapshot[s] /\ Nothing(s)
    BY <2>s, <1>o, <2>0 DEF Reached
  <2>2. Proceed(c, "vocab") \/ Raise(c)
    BY <2>s, <1>8 DEF InsertErrorEvents
  <2>3. UNCHANGED <<row, encounters, conversation, complete, snapshot>>
    BY <2>s, <1>8 DEF InsertErrorEvents
  <2>4. errorRows'[s] = Once("errors", snapshot[s]["errors"])
    BY <2>s, <1>t, <1>8, <2>1, AddAllOnce DEF InsertErrorEvents, Nothing
  <2>5. \A t \in Sessions : t # s => SameArchive(t)
    BY <2>s, <1>t, <1>8, <2>3 DEF InsertErrorEvents, SameArchive
  <2>6. ErrorsWritten(s)'
    BY <2>s, <2>3, <2>4 DEF ErrorsWritten
  <2>7. Kept(s)' /\ encounters'[s] = Tally("vocab") /\ conversation'[s].rows = 0 /\ complete'[s] = 0
    BY <2>s, <2>1, <2>3, <2>6 DEF Nothing, Kept
  <2>8. call'[c].at \in {"vocab", "idle"} /\ (call'[c].at # "idle" => call'[c].got = call[c].got)
    BY <2>s, <1>t, <2>2, ProceedOrRaise
  <2>9. call'[c].session = s /\ \A d \in Calls : d # c => call'[d] = call[d]
    BY <2>s, <1>t, <2>2, ProceedOrRaise
  <2>10. call'[c].at \in Owning =>
           call'[c].got = snapshot'[s] /\ row'[s] = "closed" /\ Reached(c, s)'
    BY <2>s, <2>1, <2>3, <2>6, <2>7, <2>8 DEF Reached
  <2>11. QED
    BY <2>s, <2>0, <2>1, <2>5, <2>7, <2>9, <2>10, OwnerStep
\* The vocabulary is stored, or its failure swallowed.
<1>9. ASSUME NEW c \in Calls, UpsertVocabBatch(c) \/ SwallowVocabFailure(c) PROVE WriteOnce'
  <2>s. PICK s \in Sessions : s = call[c].session
    BY <1>t, <1>9 DEF UpsertVocabBatch, SwallowVocabFailure
  <2>0. call[c].at = "vocab"
    BY <2>s, <1>9 DEF UpsertVocabBatch, SwallowVocabFailure
  <2>1. /\ s \in Sessions /\ row[s] = "closed" /\ call[c].got = snapshot[s]
        /\ ErrorsWritten(s) /\ encounters[s] = Tally("vocab")
        /\ conversation[s].rows = 0 /\ complete[s] = 0
    BY <2>s, <1>o, <2>0 DEF Reached
  <2>2. call' = [call EXCEPT ![c].at = "archive"]
    BY <2>s, <1>9 DEF UpsertVocabBatch, SwallowVocabFailure, Proceed
  <2>3. UNCHANGED <<row, errorRows, conversation, complete, snapshot>>
    BY <2>s, <1>9 DEF UpsertVocabBatch, SwallowVocabFailure, ltmVars
  <2>4. encounters'[s] \in {Tally("vocab"), Once("vocab", snapshot[s]["vocab"])}
    BY <2>s, <1>t, <1>9, <2>1, AddAllOnce DEF UpsertVocabBatch, SwallowVocabFailure, ltmVars
  <2>5. \A t \in Sessions : t # s => SameArchive(t)
    BY <2>s, <1>t, <1>9, <2>3 DEF UpsertVocabBatch, SwallowVocabFailure, ltmVars, SameArchive
  <2>6. ErrorsWritten(s)'
    BY <2>s, <2>1, <2>3 DEF ErrorsWritten
  <2>7. Kept(s)'
    BY <2>s, <2>1, <2>3, <2>4, <2>6 DEF Kept
  <2>8. /\ call'[c].at = "archive" /\ call'[c].got = call[c].got /\ call'[c].session = s
        /\ \A d \in Calls : d # c => call'[d] = call[d]
    BY <2>s, <1>t, <2>2, ProceedStep
  <2>9. Reached(c, s)'
    BY <2>s, <2>1, <2>3, <2>6, <2>8 DEF Reached
  <2>10. QED
    BY <2>s, <2>0, <2>1, <2>3, <2>5, <2>7, <2>8, <2>9, OwnerStep
<1>11. ASSUME NEW c \in Calls, InsertConversation(c) PROVE WriteOnce'
  <2>s. PICK s \in Sessions : s = call[c].session
    BY <1>t, <1>11 DEF InsertConversation
  <2>0. call[c].at = "archive"
    BY <2>s, <1>11 DEF InsertConversation
  <2>1. /\ s \in Sessions /\ row[s] = "closed" /\ call[c].got = snapshot[s] /\ Kept(s)
        /\ ErrorsWritten(s) /\ conversation[s].rows = 0 /\ complete[s] = 0
    BY <2>s, <1>o, <2>0 DEF Reached
  <2>2. Proceed(c, "emit") \/ Raise(c)
    BY <2>s, <1>11 DEF InsertConversation
  <2>3. UNCHANGED <<row, errorRows, encounters, complete, snapshot>>
    BY <2>s, <1>11 DEF InsertConversation
  <2>4. conversation'[s].rows = 1 /\ conversation'[s].transcript = snapshot[s]["context"]
    BY <2>s, <1>t, <1>11, <2>1 DEF InsertConversation
  <2>5. \A t \in Sessions : t # s => SameArchive(t)
    BY <2>s, <1>t, <1>11, <2>3 DEF InsertConversation, SameArchive
  <2>6. ErrorsWritten(s)'
    BY <2>s, <2>1, <2>3 DEF ErrorsWritten
  <2>7. Kept(s)'
    BY <2>s, <2>1, <2>3, <2>4, <2>6 DEF Kept
  <2>8. call'[c].at \in {"emit", "idle"} /\ (call'[c].at # "idle" => call'[c].got = call[c].got)
    BY <2>s, <1>t, <2>2, ProceedOrRaise
  <2>9. call'[c].session = s /\ \A d \in Calls : d # c => call'[d] = call[d]
    BY <2>s, <1>t, <2>2, ProceedOrRaise
  <2>10. call'[c].at \in Owning =>
           call'[c].got = snapshot'[s] /\ row'[s] = "closed" /\ Reached(c, s)'
    BY <2>s, <2>1, <2>3, <2>4, <2>8 DEF Reached
  <2>11. QED
    BY <2>s, <2>0, <2>1, <2>5, <2>7, <2>9, <2>10, OwnerStep
<1>12. ASSUME NEW c \in Calls, EmitComplete(c) PROVE WriteOnce'
  <2>s. PICK s \in Sessions : s = call[c].session
    BY <1>t, <1>12 DEF EmitComplete
  <2>0. call[c].at = "emit"
    BY <2>s, <1>12 DEF EmitComplete
  <2>1. s \in Sessions /\ Kept(s) /\ conversation[s].rows = 1 /\ complete[s] = 0
    BY <2>s, <1>o, <2>0 DEF Reached
  <2>2. call' = [call EXCEPT ![c] = IdleCall(call[c].session, "true")]
    BY <2>s, <1>12 DEF EmitComplete
  <2>3. UNCHANGED <<row, errorRows, encounters, conversation, snapshot>>
    BY <2>s, <1>12 DEF EmitComplete, ltmVars
  <2>4. complete'[s] \in {0, 1}
    BY <2>s, <1>t, <1>12, <2>1 DEF EmitComplete
  <2>5. \A t \in Sessions : t # s => SameArchive(t)
    BY <2>s, <1>t, <1>12, <2>3 DEF EmitComplete, SameArchive
  <2>6. ErrorsWritten(s)' = ErrorsWritten(s)
    BY <2>s, <2>3 DEF ErrorsWritten
  <2>7. row[s] = "closed"
    BY <2>s, <2>1 DEF Kept, Nothing
  <2>8. Kept(s)'
    BY <2>s, <2>1, <2>3, <2>4, <2>6, <2>7 DEF Kept
  <2>9. /\ call'[c].at = "idle" /\ call'[c].session = s
        /\ \A d \in Calls : d # c => call'[d] = call[d]
    BY <2>s, <1>t, <2>2, IdleStep
  <2>10. QED
    BY <2>s, <2>0, <2>1, <2>5, <2>8, <2>9, OwnerStep
<1>13. ASSUME NEW c \in Calls, StatementFails(c) PROVE WriteOnce'
  <2>1. UNCHANGED <<ltmVars, complete>>
    BY <1>13 DEF StatementFails
  <2>2. \A d \in Calls : call'[d].at \in Owning => call'[d] = call[d]
    BY <1>t, <1>13, IdleStep DEF StatementFails, Raise
  <2>3. QED
    BY <1>s, <2>1, <2>2, QuietStep
<1>14. ASSUME NEW s \in Sessions, StoreEmbedding(s) PROVE WriteOnce'
  <2>1. \A t \in Sessions : SameArchive(t)
    BY <1>t, <1>14 DEF StoreEmbedding, SameArchive, Conversations
  <2>2. UNCHANGED call
    BY <1>14 DEF StoreEmbedding
  <2>3. QED
    BY <2>1, <2>2, QuietStep
<1>15. ASSUME NEW s \in Sessions, EmbeddingFails(s) PROVE WriteOnce'
  <2>1. UNCHANGED <<ltmVars, complete, call>>
    BY <1>15 DEF EmbeddingFails
  <2>2. QED
    BY <1>s, <2>1, QuietStep
<1>16. CASE Crash
  <2>1. UNCHANGED <<ltmVars, complete>>
    BY <1>16 DEF Crash
  <2>2. \A d \in Calls : call'[d].at = "idle"
    BY <1>16 DEF Crash, IdleCall
  <2>3. QED
    BY <1>s, <2>1, <2>2, QuietStep
<1>17. CASE UNCHANGED vars
  <2>1. UNCHANGED <<ltmVars, complete, call>>
    BY <1>17 DEF vars
  <2>2. QED
    BY <1>s, <2>1, QuietStep
<1>18. QED
  BY <1>1, <1>2, <1>3, <1>4, <1>5, <1>6, <1>7, <1>8, <1>9, <1>11, <1>12, <1>13,
     <1>14, <1>15, <1>16, <1>17 DEF Next, Step

\* The invariant of every reachable state, from which the rest follows.
THEOREM RecordWrittenOnce == Spec => [](TypeInv /\ WriteOnce)
<1>1. Init => TypeInv /\ WriteOnce
  BY InitType, InitWriteOnce
<1>2. TypeInv /\ WriteOnce /\ [Next]_vars => (TypeInv /\ WriteOnce)'
  BY NextType, NextWriteOnce
<1>3. QED
  BY <1>1, <1>2, PTL DEF Spec

-----------------------------------------------------------------------------
(* What follows from the invariant.                                         *)

LEMMA StoredTally == ASSUME NEW l \in Lists PROVE Stored(Tally(l)) = {}
BY DEF Stored, Tally

LEMMA StoredOnce ==
    ASSUME NEW l \in Lists, NEW entries \in SUBSET Items(l)
    PROVE  Stored(Once(l, entries)) = entries
BY DEF Stored, Once

\* The same, for a session whose closing call read snapshot[s].
LEMMA StoredKept ==
    ASSUME TypeOK, WriteOnce, NEW s \in Sessions
    PROVE  /\ snapshot[s]["errors"] \in SUBSET Items("errors")
           /\ snapshot[s]["context"] \in SUBSET Items("context")
           /\ snapshot[s]["vocab"] \in SUBSET Items("vocab")
           /\ Stored(errorRows[s]) \in {{}, snapshot[s]["errors"]}
           /\ Stored(encounters[s]) \in {{}, snapshot[s]["vocab"]}
           /\ ErrorsWritten(s) => Stored(errorRows[s]) = snapshot[s]["errors"]
<1>1. snapshot[s] \in Reading
  BY DEF TypeOK
<1>2. \A l \in Lists : snapshot[s][l] \in SUBSET Items(l)
  BY <1>1 DEF Reading
<1>3. ErrorsWritten(s) => Stored(errorRows[s]) = snapshot[s]["errors"]
  BY <1>2, StoredOnce DEF ErrorsWritten
<1>4. Kept(s)
  BY DEF WriteOnce, KeptInv
<1>5. Stored(errorRows[s]) \in {{}, snapshot[s]["errors"]}
  BY <1>3, <1>4, StoredTally DEF Kept
<1>6. Stored(encounters[s]) \in {{}, snapshot[s]["vocab"]}
  BY <1>2, <1>4, StoredTally, StoredOnce DEF Kept
<1>7. QED
  BY <1>2, <1>3, <1>5, <1>6

LEMMA WriteOnceSafe == TypeOK /\ WriteOnce => NothingTwice /\ OneReading /\ CompleteIsBacked
<1> SUFFICES ASSUME TypeOK, WriteOnce PROVE NothingTwice /\ OneReading /\ CompleteIsBacked
  OBVIOUS
<1>1. \A s \in Sessions : Kept(s)
  BY DEF WriteOnce, KeptInv
<1>2. NothingTwice
  <2> SUFFICES ASSUME NEW s \in Sessions
               PROVE  /\ \A k \in Items("errors") : errorRows[s][k] <= 1
                      /\ \A k \in Items("vocab") : encounters[s][k] <= 1
                      /\ conversation[s].rows <= 1
    BY DEF NothingTwice
  <2>0. /\ errorRows[s] = Tally("errors") \/ errorRows[s] = Once("errors", snapshot[s]["errors"])
        /\ encounters[s] = Tally("vocab") \/ encounters[s] = Once("vocab", snapshot[s]["vocab"])
    BY <1>1 DEF Kept, ErrorsWritten
  <2>1. \A k \in Items("errors") : errorRows[s][k] \in {0, 1}
    BY <2>0 DEF Tally, Once
  <2>2. \A k \in Items("vocab") : encounters[s][k] \in {0, 1}
    BY <2>0 DEF Tally, Once
  <2>3. conversation[s].rows \in {0, 1}
    BY <1>1 DEF Kept
  <2>4. QED
    BY <2>1, <2>2, <2>3
<1>3. OneReading
  <2> SUFFICES ASSUME NEW s \in Sessions
               PROVE  /\ Stored(errorRows[s]) \in {{}, snapshot[s]["errors"]}
                      /\ Stored(encounters[s]) \in {{}, snapshot[s]["vocab"]}
                      /\ conversation[s].rows > 0 =>
                           /\ Stored(errorRows[s]) = snapshot[s]["errors"]
                           /\ conversation[s].transcript = snapshot[s]["context"]
    BY DEF OneReading
  <2>1. conversation[s].rows > 0 =>
          ErrorsWritten(s) /\ conversation[s].transcript = snapshot[s]["context"]
    BY <1>1 DEF Kept
  <2>2. QED
    BY <2>1, StoredKept
<1>4. CompleteIsBacked
  <2> SUFFICES ASSUME NEW s \in Sessions
               PROVE  /\ complete[s] <= conversation[s].rows
                      /\ complete[s] > 0 => Stored(errorRows[s]) = snapshot[s]["errors"]
    BY DEF CompleteIsBacked
  <2>1. complete[s] <= conversation[s].rows /\ (complete[s] > 0 => ErrorsWritten(s))
    BY <1>1 DEF Kept
  <2>2. QED
    BY <2>1, StoredKept
<1>5. QED
  BY <1>2, <1>3, <1>4

\* Nothing is written to LTM twice: not by any number of overlapping calls,
\* retries and deliveries, wherever they fail.
THEOREM NothingWrittenTwice == Spec => []NothingTwice
<1>1. TypeInv /\ WriteOnce => NothingTwice
  BY WriteOnceSafe DEF TypeInv
<1>2. QED
  BY <1>1, RecordWrittenOnce, PTL

\* LTM holds one consistent reading of the STM.
THEOREM OneReadingKept == Spec => []OneReading
<1>1. TypeInv /\ WriteOnce => OneReading
  BY WriteOnceSafe DEF TypeInv
<1>2. QED
  BY <1>1, RecordWrittenOnce, PTL

\* The completion event is published at most once, and never before the
\* errors and the conversation it announces are in LTM.
THEOREM CompletionBacked == Spec => []CompleteIsBacked
<1>1. TypeInv /\ WriteOnce => CompleteIsBacked
  BY WriteOnceSafe DEF TypeInv
<1>2. QED
  BY <1>1, RecordWrittenOnce, PTL

-----------------------------------------------------------------------------
(* The refinement: SessionArchive through Phase and Stored.                 *)

\* The abstract state of s is as it was.
SameAbstract(s) ==
    /\ Phase(s)' = Phase(s)
    /\ Stored(errorRows[s])' = Stored(errorRows[s])
    /\ Stored(encounters[s])' = Stored(encounters[s])
    /\ conversation'[s].transcript = conversation[s].transcript

LEMMA SameArchiveAbstract == ASSUME NEW s, SameArchive(s) PROVE SameAbstract(s)
BY DEF SameArchive, SameAbstract, Phase

LEMMA InitImplements == Init => Archive!Init
<1> SUFFICES ASSUME Init PROVE Archive!Init
  OBVIOUS
<1>1. \A s \in Sessions :
        /\ Phase(s) = "open"
        /\ Stored(errorRows[s]) = {}
        /\ Stored(encounters[s]) = {}
        /\ conversation[s].transcript = {}
  <2> SUFFICES ASSUME NEW s \in Sessions
               PROVE  /\ Phase(s) = "open"
                      /\ Stored(errorRows[s]) = {}
                      /\ Stored(encounters[s]) = {}
                      /\ conversation[s].transcript = {}
    OBVIOUS
  <2>1. errorRows[s] = Tally("errors") /\ encounters[s] = Tally("vocab")
    BY DEF Init
  <2>2. Phase(s) = "open" /\ conversation[s].transcript = {}
    BY DEF Init, Phase
  <2>3. QED
    BY <2>1, <2>2, StoredTally
<1>2. QED
  BY <1>1 DEF Archive!Init

\* A step that leaves every abstract session as it was is a stutter.
LEMMA Stutters ==
    ASSUME \A s \in Sessions : SameAbstract(s)
    PROVE  UNCHANGED Archive!vars
BY DEF SameAbstract, Archive!vars

LEMMA SealStep ==
    ASSUME NEW s \in Sessions, \A t \in Sessions : t # s => SameAbstract(t),
           Phase(s) = "open", Phase(s)' = "sealed",
           Stored(errorRows[s])' = Stored(errorRows[s]),
           Stored(encounters[s])' = Stored(encounters[s]),
           conversation'[s].transcript = conversation[s].transcript
    PROVE  Archive!Next
BY DEF SameAbstract, Archive!Next, Archive!Seal

LEMMA StoreErrorsStep ==
    ASSUME NEW s \in Sessions, \A t \in Sessions : t # s => SameAbstract(t),
           NEW es \in SUBSET UNION {Items(l) : l \in Lists},
           Phase(s) = "sealed", Phase(s)' = "sealed",
           Stored(errorRows[s]) = {}, Stored(errorRows[s])' = es,
           Stored(encounters[s]) = {}, Stored(encounters[s])' = {},
           conversation'[s].transcript = conversation[s].transcript
    PROVE  Archive!Next
BY DEF SameAbstract, Archive!Next, Archive!StoreErrors

LEMMA StoreWordsStep ==
    ASSUME NEW s \in Sessions, \A t \in Sessions : t # s => SameAbstract(t),
           NEW ws \in SUBSET UNION {Items(l) : l \in Lists},
           Phase(s) = "sealed", Phase(s)' = "sealed",
           Stored(errorRows[s])' = Stored(errorRows[s]),
           Stored(encounters[s]) = {}, Stored(encounters[s])' = ws,
           conversation'[s].transcript = conversation[s].transcript
    PROVE  Archive!Next
BY DEF SameAbstract, Archive!Next, Archive!StoreWords

LEMMA ArchiveStep ==
    ASSUME NEW s \in Sessions, \A t \in Sessions : t # s => SameAbstract(t),
           NEW entries \in SUBSET UNION {Items(l) : l \in Lists},
           Phase(s) = "sealed", Phase(s)' = "archived",
           Stored(errorRows[s])' = Stored(errorRows[s]),
           Stored(encounters[s])' = Stored(encounters[s]),
           conversation'[s].transcript = entries
    PROVE  Archive!Next
BY DEF SameAbstract, Archive!Next, Archive!ArchiveConversation

LEMMA AnnounceStep ==
    ASSUME NEW s \in Sessions, \A t \in Sessions : t # s => SameAbstract(t),
           Phase(s) = "archived", Phase(s)' = "announced",
           Stored(errorRows[s])' = Stored(errorRows[s]),
           Stored(encounters[s])' = Stored(encounters[s]),
           conversation'[s].transcript = conversation[s].transcript
    PROVE  Archive!Next
BY DEF SameAbstract, Archive!Next, Archive!Announce

\* Every step of the coroutines, the writers and the failures is a step of
\* the archive or leaves it as it is.
LEMMA StepImplements ==
    TypeInv /\ WriteOnce /\ [Next]_vars => [Archive!Next]_(Archive!vars)
<1> SUFFICES ASSUME TypeInv, WriteOnce, [Next]_vars PROVE [Archive!Next]_(Archive!vars)
  OBVIOUS
<1>t. /\ call \in [Calls -> CallRecords]
      /\ row \in [Sessions -> {"none", "open", "closed"}]
      /\ errorRows \in [Sessions -> [Items("errors") -> Nat]]
      /\ encounters \in [Sessions -> [Items("vocab") -> Nat]]
      /\ conversation \in [Sessions -> Conversations]
      /\ complete \in [Sessions -> Nat]
      /\ \A c \in Calls : call[c].at # "idle" => call[c].session \in Sessions
  BY DEF TypeInv, TypeOK, ActiveInv
<1>k. ASSUME NEW s \in Sessions
      PROVE  /\ Kept(s)
             /\ snapshot[s]["errors"] \in SUBSET UNION {Items(l) : l \in Lists}
             /\ snapshot[s]["context"] \in SUBSET UNION {Items(l) : l \in Lists}
             /\ snapshot[s]["vocab"] \in SUBSET UNION {Items(l) : l \in Lists}
             /\ snapshot[s]["errors"] \in SUBSET Items("errors")
             /\ snapshot[s]["vocab"] \in SUBSET Items("vocab")
  <2>1. Kept(s)
    BY DEF WriteOnce, KeptInv
  <2>2. /\ snapshot[s]["errors"] \in SUBSET Items("errors")
        /\ snapshot[s]["context"] \in SUBSET Items("context")
        /\ snapshot[s]["vocab"] \in SUBSET Items("vocab")
    BY StoredKept DEF TypeInv
  <2>3. QED
    BY <2>1, <2>2
<1>o. ASSUME NEW c \in Calls, call[c].at \in Owning
      PROVE  /\ call[c].session \in Sessions
             /\ row[call[c].session] = "closed"
             /\ call[c].got = snapshot[call[c].session]
             /\ Reached(c, call[c].session)
  BY <1>t, <1>o DEF WriteOnce, OwnerInv, PhaseInv, Owns
<1>q. (\A s \in Sessions : SameArchive(s)) => UNCHANGED Archive!vars
  BY SameArchiveAbstract, Stutters
<1>s. UNCHANGED <<ltmVars, complete>> => UNCHANGED Archive!vars
  <2>1. UNCHANGED <<ltmVars, complete>> => \A s \in Sessions : SameArchive(s)
    BY DEF ltmVars, SameArchive
  <2>2. QED
    BY <2>1, <1>q
<1>1. ASSUME NEW c \in Calls, CreateSession(c) PROVE UNCHANGED Archive!vars
  <2>1. call[c].session \in Sessions
    BY <1>t, <1>1 DEF CreateSession
  <2>2. \A s \in Sessions : SameArchive(s)
    BY <1>t, <1>1, <2>1 DEF CreateSession, SameArchive
  <2>3. QED
    BY <1>q, <2>2
<1>2. ASSUME NEW s \in Sessions, StoreEmbedding(s) PROVE UNCHANGED Archive!vars
  <2>1. \A t \in Sessions : SameArchive(t)
    BY <1>t, <1>2 DEF StoreEmbedding, SameArchive, Conversations
  <2>2. QED
    BY <1>q, <2>1
<1>3. ASSUME NEW c \in Calls, CloseSessionWins(c) PROVE Archive!Next
  <2>s. PICK s \in Sessions : s = call[c].session
    BY <1>t, <1>3 DEF CloseSessionWins
  <2>1. row[s] = "open" /\ Nothing(s)
    BY <2>s, <1>k, <1>3 DEF CloseSessionWins, Kept
  <2>2. row'[s] = "closed"
    BY <2>s, <1>t, <1>3 DEF CloseSessionWins
  <2>3. UNCHANGED <<errorRows, encounters, conversation, complete>>
    BY <1>3 DEF CloseSessionWins
  <2>4. \A t \in Sessions : t # s => SameAbstract(t)
    BY <2>s, <2>3, <1>t, <1>3 DEF CloseSessionWins, SameAbstract, Phase
  <2>5. Phase(s) = "open" /\ Phase(s)' = "sealed"
    BY <2>1, <2>2, <2>3 DEF Phase, Nothing
  <2>6. QED
    BY <2>3, <2>4, <2>5, SealStep
<1>4. ASSUME NEW c \in Calls, InsertErrorEvents(c) PROVE Archive!Next
  <2>s. PICK s \in Sessions : s = call[c].session
    BY <1>t, <1>4 DEF InsertErrorEvents
  <2>1. row[s] = "closed" /\ call[c].got = snapshot[s] /\ Nothing(s)
    BY <2>s, <1>o, <1>4 DEF InsertErrorEvents, Reached
  <2>2. UNCHANGED <<row, encounters, conversation, complete>>
    BY <1>4 DEF InsertErrorEvents
  <2>3. errorRows'[s] = Once("errors", snapshot[s]["errors"])
    BY <2>s, <1>t, <1>4, <2>1, AddAllOnce DEF InsertErrorEvents, Nothing
  <2>4. \A t \in Sessions : t # s => SameAbstract(t)
    BY <2>s, <2>2, <1>t, <1>4 DEF InsertErrorEvents, SameAbstract, Phase
  <2>5. Phase(s) = "sealed" /\ Phase(s)' = "sealed"
    BY <2>1, <2>2 DEF Phase, Nothing
  <2>6. Stored(errorRows[s]) = {} /\ Stored(errorRows[s])' = snapshot[s]["errors"]
    BY <2>1, <2>3, <1>k, StoredTally, StoredOnce DEF Nothing
  <2>7. Stored(encounters[s]) = {} /\ Stored(encounters[s])' = {}
    BY <2>1, <2>2, StoredTally DEF Nothing
  <2>8. QED
    BY <2>2, <2>4, <2>5, <2>6, <2>7, <1>k, StoreErrorsStep
<1>5. ASSUME NEW c \in Calls, UpsertVocabBatch(c) PROVE Archive!Next
  <2>s. PICK s \in Sessions : s = call[c].session
    BY <1>t, <1>5 DEF UpsertVocabBatch
  <2>1. /\ row[s] = "closed" /\ call[c].got = snapshot[s] /\ encounters[s] = Tally("vocab")
        /\ conversation[s].rows = 0 /\ complete[s] = 0
    BY <2>s, <1>o, <1>5 DEF UpsertVocabBatch, Reached
  <2>2. UNCHANGED <<row, errorRows, conversation, complete>>
    BY <1>5 DEF UpsertVocabBatch
  <2>3. encounters'[s] = Once("vocab", snapshot[s]["vocab"])
    BY <2>s, <1>t, <1>5, <2>1, AddAllOnce DEF UpsertVocabBatch
  <2>4. \A t \in Sessions : t # s => SameAbstract(t)
    BY <2>s, <2>2, <1>t, <1>5 DEF UpsertVocabBatch, SameAbstract, Phase
  <2>5. Phase(s) = "sealed" /\ Phase(s)' = "sealed"
    BY <2>1, <2>2 DEF Phase
  <2>6. Stored(encounters[s]) = {} /\ Stored(encounters[s])' = snapshot[s]["vocab"]
    BY <2>1, <2>3, <1>k, StoredTally, StoredOnce
  <2>7. Stored(errorRows[s])' = Stored(errorRows[s])
    BY <2>2
  <2>8. QED
    BY <2>2, <2>4, <2>5, <2>6, <2>7, <1>k, StoreWordsStep
<1>6. ASSUME NEW c \in Calls, InsertConversation(c) PROVE Archive!Next
  <2>s. PICK s \in Sessions : s = call[c].session
    BY <1>t, <1>6 DEF InsertConversation
  <2>1. /\ row[s] = "closed" /\ call[c].got = snapshot[s]
        /\ conversation[s].rows = 0 /\ complete[s] = 0
    BY <2>s, <1>o, <1>6 DEF InsertConversation, Reached
  <2>2. UNCHANGED <<row, errorRows, encounters, complete>>
    BY <1>6 DEF InsertConversation
  <2>3. conversation'[s].rows = 1 /\ conversation'[s].transcript = snapshot[s]["context"]
    BY <2>s, <1>t, <1>6, <2>1 DEF InsertConversation
  <2>4. \A t \in Sessions : t # s => SameAbstract(t)
    BY <2>s, <2>2, <1>t, <1>6 DEF InsertConversation, SameAbstract, Phase
  <2>5. Phase(s) = "sealed" /\ Phase(s)' = "archived"
    BY <2>1, <2>2, <2>3 DEF Phase
  <2>6. Stored(errorRows[s])' = Stored(errorRows[s]) /\ Stored(encounters[s])' = Stored(encounters[s])
    BY <2>2
  <2>7. QED
    BY <2>3, <2>4, <2>5, <2>6, <1>k, ArchiveStep
<1>7. ASSUME NEW c \in Calls, EmitComplete(c) PROVE [Archive!Next]_(Archive!vars)
  <2>s. PICK s \in Sessions : s = call[c].session
    BY <1>t, <1>7 DEF EmitComplete
  <2>1. conversation[s].rows = 1 /\ complete[s] = 0
    BY <2>s, <1>o, <1>7 DEF EmitComplete, Reached
  <2>2. UNCHANGED ltmVars
    BY <1>7 DEF EmitComplete
  <2>3. CASE UNCHANGED complete
    BY <1>s, <2>2, <2>3
  <2>4. CASE complete' = [complete EXCEPT ![s] = @ + 1]
    <3>1. \A t \in Sessions : t # s => SameAbstract(t)
      BY <2>2, <2>4, <1>t DEF SameAbstract, Phase, ltmVars
    <3>2. Phase(s) = "archived" /\ Phase(s)' = "announced"
      BY <1>t, <2>1, <2>4 DEF Phase
    <3>3. /\ Stored(errorRows[s])' = Stored(errorRows[s])
          /\ Stored(encounters[s])' = Stored(encounters[s])
          /\ conversation'[s].transcript = conversation[s].transcript
      BY <2>2 DEF ltmVars
    <3>4. QED
      BY <3>1, <3>2, <3>3, AnnounceStep
  <2>5. QED
    BY <2>s, <1>7, <2>3, <2>4 DEF EmitComplete
\* Every other action leaves LTM alone.
<1>8. ASSUME UNCHANGED <<ltmVars, complete>> PROVE [Archive!Next]_(Archive!vars)
  BY <1>s, <1>8
<1>9. QED
  BY <1>1, <1>2, <1>3, <1>4, <1>5, <1>6, <1>7, <1>8
     DEF Next, Step, vars, AppendError, AppendVocab, AppendContextTurn, TrimContext, Push, Expire, Request,
         Read, CloseSessionLoses, SwallowVocabFailure, StatementFails, EmbeddingFails, Crash

\* Consolidation implements the write-once archive, with any number of
\* sessions, overlapping calls, entries and failures.
THEOREM ConsolidationImplementsArchive == Spec => ImplementsArchive
<1>1. Init => Archive!Init
  BY InitImplements
<1>2. TypeInv /\ WriteOnce /\ [Next]_vars => [Archive!Next]_(Archive!vars)
  BY StepImplements
<1>3. QED
  BY <1>1, <1>2, RecordWrittenOnce, PTL DEF Spec, ImplementsArchive, Archive!Spec

-----------------------------------------------------------------------------
(* Nothing is forgotten.  What was pushed is in the lists until a key       *)
(* expires; what a call reads it reads after the end of its session was     *)
(* asked for, and carries it on to the close.                               *)

\* The errors and the turns that a session had when its end was asked for.
HasErrors(s, list) == ~expired[s]["errors"] => 1 .. atEnd[s]["errors"] \subseteq list
HasTurns(s, list) ==
    ~expired[s]["context"] =>
        \E m \in atEnd[s]["context"] .. count[s]["context"],
           w \in MAX_CONTEXT_TURNS .. MAX_CONTEXT_TURNS + overrun[s] : list = LastTurns(w, m)

\* Redis holds all errors and the last turns, unless a key has expired: a turn
\* more than the buffer's, at most, for every pipeline that has not trimmed.
Held(s) ==
    /\ untrimmed[s] \in 0 .. overrun[s]
    /\ atEnd[s]["errors"] <= count[s]["errors"] /\ atEnd[s]["context"] <= count[s]["context"]
    /\ ~expired[s]["errors"] => stm[s]["errors"] = 1 .. count[s]["errors"]
    /\ ~expired[s]["context"] =>
         \E w \in MAX_CONTEXT_TURNS .. MAX_CONTEXT_TURNS + untrimmed[s] :
             stm[s]["context"] = LastTurns(w, count[s]["context"])
\* What a call has read was there when the end of its session had been asked for.
Heard(c) ==
    call[c].at # "idle" =>
        /\ call[c].session \in ending /\ (call[c].at # "read" => call[c].unread = {})
        /\ "errors" \notin call[c].unread => HasErrors(call[c].session, call[c].got["errors"])
        /\ "context" \notin call[c].unread => HasTurns(call[c].session, call[c].got["context"])
\* So was what the closing call had read.
Sealed(s) ==
    row[s] = "closed" =>
        s \in ending /\ HasErrors(s, snapshot[s]["errors"]) /\ HasTurns(s, snapshot[s]["context"])
RecallInv == (\A s \in Sessions : Held(s) /\ Sealed(s)) /\ \A c \in Calls : Heard(c)

\* Of a session whose end has been asked for, no more can be missing.
Lasting(s) ==
    s \in ending =>
        /\ s \in ending' /\ atEnd'[s] = atEnd[s]
        /\ \A list : (HasErrors(s, list) => HasErrors(s, list)') /\ (HasTurns(s, list) => HasTurns(s, list)')

LEMMA CountTypes ==
    ASSUME TypeOK, NEW s \in Sessions, NEW l \in Lists
    PROVE  count[s][l] \in Nat /\ atEnd[s][l] \in Nat /\ overrun[s] \in Nat
BY DEF TypeOK, Counts

LEMMA LastsOn ==
    ASSUME TypeOK, NEW s \in Sessions, s \in ending => s \in ending' /\ atEnd'[s] = atEnd[s],
           \A l \in Lists : /\ expired[s][l] => expired'[s][l]
                            /\ count'[s][l] \in Nat /\ count[s][l] <= count'[s][l],
           overrun'[s] \in Nat, overrun[s] <= overrun'[s]
    PROVE  Lasting(s)
<1> SUFFICES ASSUME s \in ending, NEW list
             PROVE  (HasErrors(s, list) => HasErrors(s, list)') /\ (HasTurns(s, list) => HasTurns(s, list)')
  BY DEF Lasting
<1>1. HasErrors(s, list) => HasErrors(s, list)'
  BY DEF HasErrors
<1>2. ASSUME HasTurns(s, list) PROVE HasTurns(s, list)'
  <2>1. CASE expired'[s]["context"]
    BY <2>1 DEF HasTurns
  <2>2. CASE ~expired'[s]["context"]
    <3>1. PICK m \in atEnd[s]["context"] .. count[s]["context"],
               w \in MAX_CONTEXT_TURNS .. MAX_CONTEXT_TURNS + overrun[s] : list = LastTurns(w, m)
      BY <1>2, <2>2 DEF HasTurns
    <3>2. count[s]["context"] \in Nat /\ atEnd[s]["context"] \in Nat /\ overrun[s] \in Nat
      BY CountTypes
    <3>3. m \in atEnd'[s]["context"] .. count'[s]["context"]
      BY <3>1, <3>2
    <3>4. w \in MAX_CONTEXT_TURNS .. MAX_CONTEXT_TURNS + overrun'[s]
      BY <3>1, <3>2, ConsolidationAssumption DEF ConsolidationAssumption
    <3> QED
      BY <3>1, <3>3, <3>4 DEF HasTurns, LastTurns
  <2> QED
    BY <2>1, <2>2
<1> QED
  BY <1>1, <1>2

\* A call that keeps what it has read, and one that returns.
KeepsReading(c) ==
    \/ call'[c].at = "idle"
    \/ /\ call[c].at # "idle" /\ call'[c].session = call[c].session
       /\ call'[c].got = call[c].got /\ call'[c].unread = call[c].unread
       /\ call'[c].at # "read" => call[c].unread = {}

LEMMA KeptHeard ==
    ASSUME NEW c \in Calls, Heard(c), KeepsReading(c), call[c].at # "idle" => Lasting(call[c].session)
    PROVE  Heard(c)'
<1> SUFFICES ASSUME call'[c].at # "idle" PROVE Heard(c)'
  BY DEF Heard
<1>1. PICK s, errors, turns : s = call[c].session /\ errors = call[c].got["errors"] /\ turns = call[c].got["context"]
  OBVIOUS
<1>2. /\ call'[c].session = s /\ call'[c].got["errors"] = errors /\ call'[c].got["context"] = turns
      /\ call'[c].unread = call[c].unread /\ (call'[c].at # "read" => call[c].unread = {}) /\ call[c].at # "idle"
  BY <1>1 DEF KeepsReading
<1>3. /\ s \in ending /\ Lasting(s)
      /\ "errors" \notin call[c].unread => HasErrors(s, errors)
      /\ "context" \notin call[c].unread => HasTurns(s, turns)
  BY <1>1, <1>2 DEF Heard
<1>4. s \in ending' /\ (HasErrors(s, errors) => HasErrors(s, errors)') /\ (HasTurns(s, turns) => HasTurns(s, turns)')
  BY <1>3 DEF Lasting
<1>5. /\ "errors" \notin call'[c].unread => HasErrors(s, errors)'
      /\ "context" \notin call'[c].unread => HasTurns(s, turns)'
  BY <1>2, <1>3, <1>4
<1> QED
  BY <1>2, <1>4, <1>5 DEF Heard, HasErrors, HasTurns

LEMMA KeptSealed ==
    ASSUME NEW s \in Sessions, Sealed(s), Lasting(s), row'[s] = "closed" => row[s] = "closed" /\ snapshot'[s] = snapshot[s]
    PROVE  Sealed(s)'
<1> SUFFICES ASSUME row'[s] = "closed" PROVE Sealed(s)'
  BY DEF Sealed
<1>1. PICK errors, turns : errors = snapshot[s]["errors"] /\ turns = snapshot[s]["context"]
  OBVIOUS
<1>2. s \in ending /\ HasErrors(s, errors) /\ HasTurns(s, turns) /\ snapshot'[s] = snapshot[s]
  BY <1>1 DEF Sealed
<1>3. s \in ending' /\ HasErrors(s, errors)' /\ HasTurns(s, turns)'
  BY <1>2 DEF Lasting
<1> QED
  BY <1>1, <1>2, <1>3 DEF Sealed, HasErrors, HasTurns

\* A step of the calls that leaves the lists alone and asks for no end.
LEMMA CallsRecall ==
    ASSUME TypeInv, RecallInv, UNCHANGED <<stmVars, endVars>>, \A c \in Calls : KeepsReading(c),
           \A s \in Sessions : Sealed(s)' \/ (row'[s] = "closed" => row[s] = "closed" /\ snapshot'[s] = snapshot[s])
    PROVE  RecallInv'
<1>1. ASSUME NEW s \in Sessions PROVE Lasting(s)
  <2>1. \A l \in Lists : /\ expired[s][l] => expired'[s][l]
                         /\ count'[s][l] \in Nat /\ count[s][l] <= count'[s][l]
    BY CountTypes DEF TypeInv, stmVars
  <2>2. s \in ending => s \in ending' /\ atEnd'[s] = atEnd[s]
    BY DEF endVars
  <2>3. overrun'[s] = overrun[s] /\ overrun[s] \in Nat
    BY CountTypes DEF TypeInv, stmVars, pipelineVars
  <2> QED
    BY <2>1, <2>2, <2>3, LastsOn DEF TypeInv
<1>2. \A s \in Sessions : Held(s)' /\ Sealed(s)'
  BY <1>1, KeptSealed DEF RecallInv, Held, LastTurns, stmVars, pipelineVars, endVars
<1>3. \A c \in Calls : Heard(c)'
  BY <1>1, KeptHeard DEF RecallInv, TypeInv, ActiveInv
<1> QED
  BY <1>2, <1>3 DEF RecallInv

\* The last turns with one more pushed, and the last turns trimmed.
LEMMA Pushed ==
    ASSUME NEW n \in Nat, NEW w \in Nat
    PROVE  LastTurns(w, n) \cup {n + 1} = LastTurns(w + 1, n + 1)
BY DEF LastTurns

LEMMA OneMore == ASSUME NEW n \in Nat PROVE (1 .. n) \cup {n + 1} = 1 .. n + 1
OBVIOUS

LEMMA Trimmed ==
    ASSUME NEW n \in Nat, NEW w \in Nat, MAX_CONTEXT_TURNS \in Nat, w >= MAX_CONTEXT_TURNS
    PROVE  LTrim(LastTurns(w, n), n) = LastTurns(MAX_CONTEXT_TURNS, n)
BY DEF LTrim, LastTurns

LEMMA PushRecall ==
    ASSUME TypeInv, RecallInv, NEW s \in Sessions, AppendError(s) \/ AppendVocab(s) \/ AppendContextTurn(s)
    PROVE  RecallInv'
<1>1. PICK l, list : l \in Lists /\ Push(s, l, list) /\ list = RPush(s, l)
                     /\ IF l = "context" THEN AppendContextTurn(s) ELSE UNCHANGED pipelineVars
  BY DEF AppendError, AppendVocab, AppendContextTurn
<1>m. MAX_CONTEXT_TURNS \in Nat
  BY ConsolidationAssumption DEF ConsolidationAssumption
<1>u. \A t \in Sessions : /\ untrimmed[t] \in Nat /\ overrun[t] \in Nat
                          /\ untrimmed[t] \in 0 .. overrun[t] => untrimmed'[t] \in 0 .. overrun'[t]
                          /\ overrun'[t] \in Nat /\ overrun[t] <= overrun'[t]
                          /\ untrimmed'[t] = IF t = s /\ l = "context" THEN untrimmed[t] + 1 ELSE untrimmed[t]
  <2>0. untrimmed \in [Sessions -> Nat] /\ overrun \in [Sessions -> Nat]
    BY DEF TypeInv, TypeOK
  <2>1. CASE l = "context"
    BY <2>0, <2>1, <1>1 DEF AppendContextTurn
  <2>2. CASE l # "context"
    BY <2>0, <2>2, <1>1 DEF pipelineVars
  <2> QED
    BY <2>1, <2>2
<1>2. /\ TypeOK /\ ConsolidationAssumption /\ \A t \in Sessions, m \in Lists : count[t][m] \in Nat /\ atEnd[t][m] \in Nat
      /\ UNCHANGED <<expired, atEnd, ending, call, row, snapshot>>
  BY <1>1, CountTypes, ConsolidationAssumption DEF TypeInv, Push, endVars, ltmVars
<1>3. /\ count'[s][l] = count[s][l] + 1 /\ stm'[s][l] = list
      /\ \A t \in Sessions, m \in Lists : t # s \/ m # l => count'[t][m] = count[t][m] /\ stm'[t][m] = stm[t][m]
  BY <1>1, <1>2 DEF Push, NextEntry, TypeOK, Counts
<1>4. ASSUME NEW t \in Sessions PROVE Lasting(t)
  <2>1. \A m \in Lists : /\ expired[t][m] => expired'[t][m]
                         /\ count'[t][m] \in Nat /\ count[t][m] <= count'[t][m]
    <3> SUFFICES ASSUME NEW m \in Lists PROVE count'[t][m] \in Nat /\ count[t][m] <= count'[t][m]
      BY <1>2
    <3>1. CASE t = s /\ m = l
      BY <3>1, <1>2, <1>3
    <3>2. CASE t # s \/ m # l
      BY <3>2, <1>2, <1>3
    <3> QED
      BY <3>1, <3>2
  <2> QED
    BY <2>1, <1>2, <1>u, LastsOn
<1>5. ASSUME NEW t \in Sessions PROVE Held(t)'
  <2>1. Held(t)
    BY DEF RecallInv
  <2>2. atEnd'[t]["errors"] <= count'[t]["errors"] /\ atEnd'[t]["context"] <= count'[t]["context"]
    <3>1. \A m \in Lists : atEnd[t][m] <= count[t][m] => atEnd[t][m] <= count'[t][m]
      <4> SUFFICES ASSUME NEW m \in Lists, atEnd[t][m] <= count[t][m] PROVE atEnd[t][m] <= count'[t][m]
        OBVIOUS
      <4>1. CASE t = s /\ m = l
        BY <4>1, <1>2, <1>3
      <4>2. CASE t # s \/ m # l
        BY <4>2, <1>2, <1>3
      <4> QED
        BY <4>1, <4>2
    <3> QED
      BY <3>1, <2>1, <1>2 DEF Held
  <2>3. ~expired'[t]["errors"] => stm'[t]["errors"] = 1 .. count'[t]["errors"]
    <3>1. CASE t = s /\ l = "errors"
      <4>1. list = stm[s]["errors"] \cup {count[s]["errors"] + 1}
        BY <3>1, <1>1 DEF RPush, NextEntry
      <4>2. stm'[s]["errors"] = list /\ count'[s]["errors"] = count[s]["errors"] + 1
        BY <3>1, <1>3
      <4>3. ~expired'[s]["errors"] => stm[s]["errors"] = 1 .. count[s]["errors"]
        BY <3>1, <2>1, <1>2 DEF Held
      <4> QED
        BY <4>1, <4>2, <4>3, <3>1, <1>2, OneMore
    <3>2. CASE ~(t = s /\ l = "errors")
      BY <3>2, <2>1, <1>2, <1>3 DEF Held
    <3> QED
      BY <3>1, <3>2
  <2>4. ~expired'[t]["context"] =>
          \E w \in MAX_CONTEXT_TURNS .. MAX_CONTEXT_TURNS + untrimmed'[t] :
              stm'[t]["context"] = LastTurns(w, count'[t]["context"])
    <3> SUFFICES ASSUME ~expired'[t]["context"]
                 PROVE  \E w \in MAX_CONTEXT_TURNS .. MAX_CONTEXT_TURNS + untrimmed'[t] :
                            stm'[t]["context"] = LastTurns(w, count'[t]["context"])
      OBVIOUS
    <3>0. PICK w \in MAX_CONTEXT_TURNS .. MAX_CONTEXT_TURNS + untrimmed[t] :
                 stm[t]["context"] = LastTurns(w, count[t]["context"])
      BY <2>1, <1>2 DEF Held
    <3>1. CASE t = s /\ l = "context"
      <4>1. list = stm[s]["context"] \cup {count[s]["context"] + 1}
        BY <3>1, <1>1 DEF RPush, NextEntry
      <4>w. w \in Nat /\ count[s]["context"] \in Nat
        BY <3>0, <3>1, <1>2, <1>m, <1>u
      <4>n. stm'[s]["context"] = list /\ count'[s]["context"] = count[s]["context"] + 1
        BY <3>1, <1>3
      <4>p. LastTurns(w, count[s]["context"]) \cup {count[s]["context"] + 1}
              = LastTurns(w + 1, count[s]["context"] + 1)
        BY <4>w, Pushed
      <4>2. stm'[t]["context"] = LastTurns(w + 1, count'[t]["context"])
        BY <4>1, <4>n, <4>p, <3>0, <3>1
      <4>3. w + 1 \in MAX_CONTEXT_TURNS .. MAX_CONTEXT_TURNS + untrimmed'[t]
        BY <3>0, <3>1, <1>m, <1>u
      <4> QED
        BY <4>2, <4>3
    <3>2. CASE ~(t = s /\ l = "context")
      <4>1. stm'[t]["context"] = stm[t]["context"] /\ count'[t]["context"] = count[t]["context"]
        BY <3>2, <1>3
      <4> QED
        BY <4>1, <3>0, <3>2, <1>u
    <3> QED
      BY <3>1, <3>2
  <2>5. untrimmed'[t] \in 0 .. overrun'[t]
    BY <2>1, <1>u DEF Held
  <2> QED
    BY <2>2, <2>3, <2>4, <2>5 DEF Held, LastTurns
<1>6. \A t \in Sessions : Sealed(t)'
  BY <1>2, <1>4, KeptSealed DEF RecallInv
<1>7. \A c \in Calls : Heard(c)'
  <2>1. \A c \in Calls : KeepsReading(c)
    BY <1>2 DEF KeepsReading, RecallInv, Heard
  <2> QED
    BY <2>1, <1>4, KeptHeard DEF RecallInv, TypeInv, ActiveInv
<1> QED
  BY <1>5, <1>6, <1>7 DEF RecallInv

\* A pipeline trims the list to what the buffer holds.
LEMMA TrimRecall ==
    ASSUME TypeInv, RecallInv, NEW s \in Sessions, TrimContext(s)
    PROVE  RecallInv'
<1>1. TypeOK /\ UNCHANGED <<count, expired, overrun, atEnd, ending, call, row, snapshot>>
  BY DEF TypeInv, TrimContext, endVars, ltmVars
<1>m. MAX_CONTEXT_TURNS \in Nat
  BY ConsolidationAssumption DEF ConsolidationAssumption
<1>2. ASSUME NEW t \in Sessions PROVE Lasting(t)
  <2>1. /\ \A m \in Lists : /\ expired[t][m] => expired'[t][m]
                            /\ count'[t][m] \in Nat /\ count[t][m] <= count'[t][m]
        /\ overrun'[t] \in Nat /\ overrun[t] <= overrun'[t]
    BY <1>1, CountTypes
  <2> QED
    BY <2>1, <1>1, LastsOn
<1>3. /\ \A t \in Sessions, m \in Lists : t # s \/ m # "context" => stm'[t][m] = stm[t][m]
      /\ stm'[s]["context"] = LTrim(stm[s]["context"], count[s]["context"])
      /\ untrimmed'[s] = untrimmed[s] - 1 /\ untrimmed[s] > 0
      /\ \A t \in Sessions : /\ t # s => untrimmed'[t] = untrimmed[t]
                             /\ untrimmed[t] \in Nat /\ overrun[t] \in Nat /\ count[t]["context"] \in Nat
  BY <1>1, CountTypes DEF TrimContext, TypeOK
<1>4. ASSUME NEW t \in Sessions PROVE Held(t)'
  <2>1. Held(t)
    BY DEF RecallInv
  <2>2. CASE t # s
    BY <2>1, <2>2, <1>1, <1>3 DEF Held, LastTurns
  <2>3. CASE t = s
    <3>1. ~expired[s]["context"] => stm'[s]["context"] = LastTurns(MAX_CONTEXT_TURNS, count[s]["context"])
      <4> SUFFICES ASSUME ~expired[s]["context"]
                   PROVE  stm'[s]["context"] = LastTurns(MAX_CONTEXT_TURNS, count[s]["context"])
        OBVIOUS
      <4>1. PICK w \in MAX_CONTEXT_TURNS .. MAX_CONTEXT_TURNS + untrimmed[s] :
                   stm[s]["context"] = LastTurns(w, count[s]["context"])
        BY <2>1, <2>3 DEF Held
      <4>2. w \in Nat /\ w >= MAX_CONTEXT_TURNS
        BY <4>1, <1>3, <1>m
      <4> QED
        BY <4>1, <4>2, <1>3, <1>m, Trimmed
    <3>2. MAX_CONTEXT_TURNS \in MAX_CONTEXT_TURNS .. MAX_CONTEXT_TURNS + untrimmed'[s]
      BY <1>3, <1>m
    <3>3. untrimmed'[s] \in 0 .. overrun'[s]
      BY <2>1, <2>3, <1>1, <1>3 DEF Held
    <3> QED
      BY <2>1, <2>3, <3>1, <3>2, <3>3, <1>1, <1>3 DEF Held, LastTurns
  <2> QED
    BY <2>2, <2>3
<1>5. \A t \in Sessions : Sealed(t)'
  BY <1>1, <1>2, KeptSealed DEF RecallInv
<1>6. \A c \in Calls : Heard(c)'
  <2>1. \A c \in Calls : KeepsReading(c)
    BY <1>1 DEF KeepsReading, RecallInv, Heard
  <2> QED
    BY <2>1, <1>2, KeptHeard DEF RecallInv, TypeInv, ActiveInv
<1> QED
  BY <1>4, <1>5, <1>6 DEF RecallInv

LEMMA ExpireRecall ==
    ASSUME TypeInv, RecallInv, NEW s \in Sessions, NEW l \in Lists, Expire(s, l)
    PROVE  RecallInv'
<1>1. /\ TypeOK /\ UNCHANGED <<count, untrimmed, overrun, atEnd, ending, call, row, snapshot>>
      /\ \A t \in Sessions, m \in Lists : IF t = s /\ m = l THEN expired'[t][m]
                                          ELSE stm'[t][m] = stm[t][m] /\ expired'[t][m] = expired[t][m]
  BY DEF TypeInv, TypeOK, Expire, pipelineVars, endVars, ltmVars
<1>2. ASSUME NEW t \in Sessions PROVE Lasting(t)
  <2>1. /\ \A m \in Lists : /\ expired[t][m] => expired'[t][m]
                            /\ count'[t][m] \in Nat /\ count[t][m] <= count'[t][m]
        /\ overrun'[t] \in Nat /\ overrun[t] <= overrun'[t]
    BY <1>1, CountTypes
  <2> QED
    BY <2>1, <1>1, LastsOn
<1>3. \A t \in Sessions : Held(t)'
  BY <1>1 DEF RecallInv, Held, LastTurns
<1>4. \A t \in Sessions : Sealed(t)'
  BY <1>1, <1>2, KeptSealed DEF RecallInv
<1>5. \A c \in Calls : Heard(c)'
  <2>1. \A c \in Calls : KeepsReading(c)
    BY <1>1 DEF KeepsReading, RecallInv, Heard
  <2> QED
    BY <2>1, <1>2, KeptHeard DEF RecallInv, TypeInv, ActiveInv
<1> QED
  BY <1>3, <1>4, <1>5 DEF RecallInv

\* Nothing was read for a session before its end was asked for.
LEMMA RequestRecall ==
    ASSUME TypeInv, RecallInv, NEW c \in Calls, NEW s \in Sessions, Request(c, s)
    PROVE  RecallInv'
<1>1. /\ TypeOK /\ UNCHANGED <<stm, count, expired, untrimmed, overrun, row, snapshot>> /\ ending' = ending \cup {s}
      /\ \A t \in Sessions, l \in Lists : count[t][l] \in Nat /\ atEnd[t][l] \in Nat
      /\ \A t \in Sessions : overrun[t] \in Nat
  BY CountTypes DEF TypeInv, Request, stmVars, pipelineVars, ltmVars
<1>2. /\ \A t \in Sessions : t # s \/ s \in ending => atEnd'[t] = atEnd[t]
      /\ s \notin ending => atEnd'[s] = count[s]
  BY <1>1 DEF TypeOK, Request
<1>3. ASSUME NEW t \in Sessions PROVE Lasting(t)
  <2>1. \A l \in Lists : /\ expired[t][l] => expired'[t][l]
                         /\ count'[t][l] \in Nat /\ count[t][l] <= count'[t][l]
    BY <1>1
  <2>2. t \in ending => t \in ending' /\ atEnd'[t] = atEnd[t]
    BY <1>1, <1>2
  <2> QED
    BY <2>1, <2>2, <1>1, LastsOn
<1>4. ASSUME NEW t \in Sessions PROVE Held(t)'
  <2>1. Held(t)
    BY DEF RecallInv
  <2>2. atEnd'[t] = atEnd[t] \/ atEnd'[t] = count[t]
    BY <1>2
  <2>3. atEnd'[t]["errors"] <= count[t]["errors"] /\ atEnd'[t]["context"] <= count[t]["context"]
    BY <2>1, <2>2, <1>1 DEF Held
  <2> QED
    BY <2>1, <2>3, <1>1 DEF Held, LastTurns
<1>5. \A t \in Sessions : Sealed(t)'
  BY <1>1, <1>3, KeptSealed DEF RecallInv
<1>6. ASSUME NEW d \in Calls PROVE Heard(d)'
  <2>1. CASE d = c
    <3>1. call'[c].at = "read" /\ call'[c].session = s /\ call'[c].unread = Lists
      BY DEF Request, IdleCall, TypeInv, TypeOK
    <3> QED
      BY <3>1, <2>1, <1>1 DEF Heard
  <2>2. CASE d # c
    <3>1. call'[d] = call[d]
      BY <2>2 DEF Request
    <3>2. KeepsReading(d)
      BY <3>1 DEF KeepsReading, RecallInv, Heard
    <3> QED
      BY <3>2, <1>3, KeptHeard DEF RecallInv, TypeInv, ActiveInv
  <2> QED
    BY <2>1, <2>2
<1> QED
  BY <1>4, <1>5, <1>6 DEF RecallInv

LEMMA ReadRecall ==
    ASSUME TypeInv, RecallInv, NEW c \in Calls, NEW l \in Lists, Read(c, l)
    PROVE  RecallInv'
<1>1. TypeOK /\ UNCHANGED <<stm, count, expired, untrimmed, overrun, atEnd, ending, row, snapshot>>
  BY DEF TypeInv, Read, stmVars, pipelineVars, endVars, ltmVars
<1>2. PICK s : s = call[c].session /\ s \in Sessions /\ s \in ending
  BY DEF Read, RecallInv, Heard, TypeInv, ActiveInv
<1>3. ASSUME NEW t \in Sessions PROVE Lasting(t)
  <2>1. /\ \A m \in Lists : /\ expired[t][m] => expired'[t][m]
                            /\ count'[t][m] \in Nat /\ count[t][m] <= count'[t][m]
        /\ overrun'[t] \in Nat /\ overrun[t] <= overrun'[t]
    BY <1>1, CountTypes
  <2> QED
    BY <2>1, <1>1, LastsOn
<1>4. \A t \in Sessions : Held(t)' /\ Sealed(t)'
  BY <1>1, <1>3, KeptSealed DEF RecallInv, Held, LastTurns
<1>5. /\ call'[c].session = s /\ call'[c].unread = call[c].unread \ {l} /\ call'[c].got[l] = stm[s][l]
      /\ \A m \in Lists \ {l} : call'[c].got[m] = call[c].got[m]
      /\ call'[c].at \in {"read", "create"} /\ (call'[c].at = "create" => call[c].unread = {l})
      /\ \A d \in Calls \ {c} : call'[d] = call[d]
  <2>1. call[c] \in CallRecords /\ call[c].got \in [Lists -> SUBSET Nat]
    BY <1>1 DEF TypeOK, CallRecords, Reading
  <2> QED
    BY <2>1, <1>1, <1>2 DEF Read, TypeOK, CallRecords
<1>6. HasErrors(s, stm[s]["errors"]) /\ HasTurns(s, stm[s]["context"])
  <2>1. Held(s) /\ overrun[s] \in Nat /\ \A m \in Lists : count[s][m] \in Nat /\ atEnd[s][m] \in Nat
    BY <1>1, <1>2, CountTypes DEF RecallInv
  <2>2. HasErrors(s, stm[s]["errors"])
    BY <2>1 DEF Held, HasErrors
  <2>3. HasTurns(s, stm[s]["context"])
    <3>1. count[s]["context"] \in atEnd[s]["context"] .. count[s]["context"]
      BY <2>1 DEF Held
    <3>2. MAX_CONTEXT_TURNS .. MAX_CONTEXT_TURNS + untrimmed[s] \subseteq
            MAX_CONTEXT_TURNS .. MAX_CONTEXT_TURNS + overrun[s]
      BY <2>1, ConsolidationAssumption DEF Held, ConsolidationAssumption
    <3> QED
      BY <3>1, <3>2, <2>1 DEF Held, HasTurns
  <2> QED
    BY <2>2, <2>3
<1>7. ASSUME NEW d \in Calls PROVE Heard(d)'
  <2>1. CASE d = c
    <3>1. PICK errors, turns : errors = call'[c].got["errors"] /\ turns = call'[c].got["context"]
      OBVIOUS
    <3>2. "errors" \notin call'[c].unread => HasErrors(s, errors)
      <4>1. CASE l = "errors"
        BY <4>1, <3>1, <1>5, <1>6
      <4>2. CASE l # "errors"
        BY <4>2, <3>1, <1>2, <1>5 DEF RecallInv, Heard, Read
      <4> QED
        BY <4>1, <4>2
    <3>3. "context" \notin call'[c].unread => HasTurns(s, turns)
      <4>1. CASE l = "context"
        BY <4>1, <3>1, <1>5, <1>6
      <4>2. CASE l # "context"
        BY <4>2, <3>1, <1>2, <1>5 DEF RecallInv, Heard, Read
      <4> QED
        BY <4>1, <4>2
    <3>4. /\ "errors" \notin call'[c].unread => HasErrors(s, errors)'
          /\ "context" \notin call'[c].unread => HasTurns(s, turns)'
      BY <3>2, <3>3, <1>2, <1>3 DEF Lasting
    <3> QED
      BY <2>1, <3>1, <3>4, <1>1, <1>2, <1>5 DEF Heard, HasErrors, HasTurns
  <2>2. CASE d # c
    <3>1. KeepsReading(d)
      BY <2>2, <1>5 DEF KeepsReading, RecallInv, Heard
    <3> QED
      BY <3>1, <1>3, KeptHeard DEF RecallInv, TypeInv, ActiveInv
  <2> QED
    BY <2>1, <2>2
<1> QED
  BY <1>4, <1>7 DEF RecallInv

\* Where a call can go from here: on, or back to its caller.
LEMMA GoesOn ==
    ASSUME TypeInv, RecallInv, NEW c \in Calls, call[c].at \notin {"idle", "read"}, NEW point \in Points \ {"idle", "read"},
           Proceed(c, point) \/ Raise(c) \/ call' = [call EXCEPT ![c].at = point]
    PROVE  \A d \in Calls : KeepsReading(d)
<1>1. call \in [Calls -> CallRecords] /\ Heard(c)
  BY DEF TypeInv, TypeOK, RecallInv
<1>2. CASE call' = [call EXCEPT ![c].at = point]
  <2>1. /\ call'[c].at = point /\ call'[c].session = call[c].session /\ call'[c].got = call[c].got
        /\ call'[c].unread = call[c].unread
    BY <1>1, <1>2 DEF CallRecords
  <2>2. \A d \in Calls \ {c} : call'[d] = call[d]
    BY <1>2
  <2> QED
    BY <2>1, <2>2, <1>1 DEF KeepsReading, RecallInv, Heard
<1>3. CASE Raise(c)
  BY <1>1, <1>3 DEF Raise, IdleCall, KeepsReading, RecallInv, Heard
<1> QED
  BY <1>2, <1>3 DEF Proceed

LEMMA ComesBack ==
    ASSUME TypeInv, RecallInv, NEW c \in Calls, NEW s, NEW answer, call' = [call EXCEPT ![c] = IdleCall(s, answer)]
    PROVE  \A d \in Calls : KeepsReading(d)
<1>1. call'[c].at = "idle" /\ \A d \in Calls \ {c} : call'[d] = call[d]
  BY DEF TypeInv, TypeOK, IdleCall
<1> QED
  BY <1>1 DEF KeepsReading, RecallInv, Heard

LEMMA NextRecall == TypeInv /\ RecallInv /\ [Next]_vars => RecallInv'
<1> SUFFICES ASSUME TypeInv, RecallInv, [Next]_vars PROVE RecallInv'
  OBVIOUS
<1>1. ASSUME NEW s \in Sessions, AppendError(s) \/ AppendVocab(s) \/ AppendContextTurn(s)
      PROVE  RecallInv'
  BY <1>1, PushRecall
<1>t. ASSUME NEW s \in Sessions, TrimContext(s)
      PROVE  RecallInv'
  BY <1>t, TrimRecall
<1>2. ASSUME NEW s \in Sessions, NEW l \in Lists, Expire(s, l)
      PROVE  RecallInv'
  BY <1>2, ExpireRecall
<1>3. ASSUME NEW s \in Sessions, NEW c \in Calls, Request(c, s)
      PROVE  RecallInv'
  BY <1>3, RequestRecall
<1>4. ASSUME NEW c \in Calls, NEW l \in Lists, Read(c, l)
      PROVE  RecallInv'
  BY <1>4, ReadRecall
<1>5. ASSUME NEW c \in Calls, CreateSession(c)
      PROVE  RecallInv'
  <2>1. \A d \in Calls : KeepsReading(d)
    BY <1>5, GoesOn DEF CreateSession
  <2>2. \A s \in Sessions : row'[s] = "closed" => row[s] = "closed" /\ snapshot'[s] = snapshot[s]
    BY <1>5 DEF CreateSession, TypeInv, TypeOK
  <2> QED
    BY <2>1, <2>2, <1>5, CallsRecall DEF CreateSession
<1>6. ASSUME NEW c \in Calls, CloseSessionWins(c)
      PROVE  RecallInv'
  <2>1. \A d \in Calls : KeepsReading(d)
    BY <1>6, GoesOn DEF CloseSessionWins
  <2>2. PICK s, errors, turns : s = call[c].session /\ errors = call[c].got["errors"] /\ turns = call[c].got["context"]
    OBVIOUS
  <2>3. s \in Sessions /\ s \in ending /\ HasErrors(s, errors) /\ HasTurns(s, turns)
    <3>1. Heard(c) /\ call[c].at = "close"
      BY <1>6 DEF RecallInv, CloseSessionWins
    <3>2. call[c].unread = {} /\ s \in ending
      BY <3>1, <2>2 DEF Heard
    <3> QED
      BY <3>1, <3>2, <2>2 DEF Heard, TypeInv, ActiveInv
  <2>4. /\ UNCHANGED <<stmVars, endVars>> /\ snapshot'[s]["errors"] = errors /\ snapshot'[s]["context"] = turns
        /\ \A t \in Sessions : t # s => row'[t] = row[t] /\ snapshot'[t] = snapshot[t]
    BY <1>6, <2>2, <2>3 DEF CloseSessionWins, TypeInv, TypeOK
  <2>5. Sealed(s)'
    BY <2>3, <2>4 DEF Sealed, HasErrors, HasTurns, LastTurns, stmVars, pipelineVars, endVars
  <2> QED
    BY <2>1, <2>4, <2>5, CallsRecall
<1>7. ASSUME NEW c \in Calls, CloseSessionLoses(c)
      PROVE  RecallInv'
  BY <1>7, ComesBack, CallsRecall DEF CloseSessionLoses, Return, ltmVars
<1>8. ASSUME NEW c \in Calls, InsertErrorEvents(c)
      PROVE  RecallInv'
  <2>1. \A d \in Calls : KeepsReading(d)
    BY <1>8, GoesOn DEF InsertErrorEvents
  <2> QED
    BY <2>1, <1>8, CallsRecall DEF InsertErrorEvents
<1>9. ASSUME NEW c \in Calls, UpsertVocabBatch(c) \/ SwallowVocabFailure(c)
      PROVE  RecallInv'
  <2>1. \A d \in Calls : KeepsReading(d)
    BY <1>9, GoesOn DEF UpsertVocabBatch, SwallowVocabFailure
  <2> QED
    BY <2>1, <1>9, CallsRecall DEF UpsertVocabBatch, SwallowVocabFailure, ltmVars
<1>10. ASSUME NEW c \in Calls, InsertConversation(c)
       PROVE  RecallInv'
  <2>1. \A d \in Calls : KeepsReading(d)
    BY <1>10, GoesOn DEF InsertConversation
  <2> QED
    BY <2>1, <1>10, CallsRecall DEF InsertConversation
<1>11. ASSUME NEW c \in Calls, EmitComplete(c) \/ StatementFails(c)
       PROVE  RecallInv'
  <2>1. \A d \in Calls : KeepsReading(d)
    BY <1>11, ComesBack DEF EmitComplete, StatementFails, Raise
  <2> QED
    BY <2>1, <1>11, CallsRecall DEF EmitComplete, StatementFails, ltmVars
<1>12. ASSUME NEW s \in Sessions, StoreEmbedding(s) \/ EmbeddingFails(s)
       PROVE  RecallInv'
  <2>1. \A d \in Calls : KeepsReading(d)
    BY <1>12 DEF StoreEmbedding, EmbeddingFails, KeepsReading, RecallInv, Heard
  <2> QED
    BY <2>1, <1>12, CallsRecall DEF StoreEmbedding, EmbeddingFails, ltmVars
<1>13. CASE Crash
  <2>1. \A d \in Calls : KeepsReading(d)
    BY <1>13 DEF Crash, IdleCall, KeepsReading
  <2> QED
    BY <2>1, <1>13, CallsRecall DEF Crash, ltmVars
<1>14. CASE UNCHANGED vars
  <2>1. \A d \in Calls : KeepsReading(d)
    BY <1>14 DEF vars, KeepsReading, RecallInv, Heard
  <2> QED
    BY <2>1, <1>14, CallsRecall DEF vars, ltmVars
<1> QED
  BY <1>1, <1>t, <1>2, <1>3, <1>4, <1>5, <1>6, <1>7, <1>8, <1>9, <1>10, <1>11, <1>12, <1>13, <1>14 DEF Next, Step

LEMMA InitRecall == Init => RecallInv
<1> SUFFICES ASSUME Init PROVE RecallInv
  OBVIOUS
<1>1. \A c \in Calls : Heard(c)
  BY DEF Init, IdleCall, Heard
<1>2. ASSUME NEW s \in Sessions PROVE Held(s) /\ Sealed(s)
  <2>1. /\ stm[s]["errors"] = {} /\ stm[s]["context"] = {} /\ row[s] = "none"
        /\ count[s]["errors"] = 0 /\ count[s]["context"] = 0 /\ atEnd[s]["errors"] = 0 /\ atEnd[s]["context"] = 0
        /\ untrimmed[s] = 0 /\ overrun[s] = 0
    BY DEF Init, None, Zero
  <2>2. 1 .. 0 = {} /\ LastTurns(MAX_CONTEXT_TURNS, 0) = {}
    BY DEF LastTurns
  <2>3. MAX_CONTEXT_TURNS \in MAX_CONTEXT_TURNS .. MAX_CONTEXT_TURNS + 0
    BY ConsolidationAssumption DEF ConsolidationAssumption
  <2> QED
    BY <2>1, <2>2, <2>3 DEF Held, Sealed
<1> QED
  BY <1>1, <1>2 DEF RecallInv

\* What the session had recorded when its end was first asked for is in LTM once its
\* conversation is: every error, and the last turns as of some moment after that,
\* those of the buffer and at most one more for every pipeline that was at once between
\* its RPUSH and its LTRIM, whoever wrote to the lists meanwhile; only an expired key
\* excuses.
THEOREM NothingIsForgotten == Spec => []NothingForgotten
<1>1. TypeInv /\ WriteOnce /\ RecallInv => NothingForgotten
  <2> SUFFICES ASSUME TypeInv, WriteOnce, RecallInv, NEW s \in Sessions, conversation[s].rows > 0
               PROVE  /\ ~expired[s]["errors"] => 1 .. atEnd[s]["errors"] \subseteq Stored(errorRows[s])
                      /\ ~expired[s]["context"] =>
                           \E m \in atEnd[s]["context"] .. count[s]["context"], w \in Windows(s) :
                               conversation[s].transcript = LastTurns(w, m)
    BY DEF NothingForgotten
  <2>1. Kept(s) /\ Sealed(s)
    BY DEF WriteOnce, KeptInv, RecallInv
  <2>2. row[s] = "closed"
    BY <2>1 DEF Kept, Nothing
  <2>3. OneReading
    BY WriteOnceSafe DEF TypeInv
  <2>4. Stored(errorRows[s]) = snapshot[s]["errors"] /\ conversation[s].transcript = snapshot[s]["context"]
    BY <2>3 DEF OneReading
  <2> QED
    BY <2>1, <2>2, <2>4 DEF Sealed, HasErrors, HasTurns, Windows
<1> QED
  BY <1>1, InitType, NextType, InitWriteOnce, NextWriteOnce, InitRecall, NextRecall, PTL DEF Spec
=============================================================================

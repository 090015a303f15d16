------------------------ MODULE TutorSession_proofs ------------------------
(***************************************************************************)
(* Proofs about AGT-03's sessions, for every number of connections, calls, *)
(* starts, turns and failures.                                             *)
(***************************************************************************)
EXTENDS TutorSession, FiniteSetTheorems, TLAPS

-----------------------------------------------------------------------------
(* Types, with the budget behind the turn counter.                          *)

\* Every increment of the counter, done, due or late, is paid for by a turn.
TurnOps == {a \in Actors : op[a].at \in TurnPoints}
LateIncrs == {r \in late : r.what = "incr"}
TurnBudget ==
    /\ IsFiniteSet(TurnOps) /\ IsFiniteSet(LateIncrs)
    /\ turns + Cardinality(TurnOps) + Cardinality(LateIncrs) <= taken

\* Calls know a start from the moment they have made or read it.
KnowsStart(o) ==
    /\ o.at \in {"idle", "get_meta", "end_get_meta"} => o.start = 0
    /\ o.at \in StartPoints \cup {"user", "assistant", "incr", "turn_count"} => o.start # 0
    /\ o.turns # 0 => o.at \in EndPoints /\ o.start # 0
OpStarts == \A a \in Actors : KnowsStart(op[a])

TypeInv == TypeOK /\ TurnBudget /\ OpStarts

-----------------------------------------------------------------------------
(* Which numbers are in use.  The record of a start is written once: as     *)
(* long as that is pending nobody has met the number.                       *)

Opening(a, k) == op[a].at \in {"opening", "set_meta"} /\ op[a].start = k
LateOpening(r, k) == r.what = "set_meta" /\ r.start = k
Pending(k) == (\E a \in Actors : Opening(a, k)) \/ (\E r \in late : LateOpening(r, k))

Untouched(k) ==
    /\ meta # k /\ ended[k] = 0 /\ turnsOf[k] = 0
    /\ \A a \in Actors : op[a].start = k => Opening(a, k)
    /\ \A r \in late : r.start = k => r.what \notin {"incr", "delete_meta"}

Numbering ==
    /\ meta <= starts
    /\ \A a \in Actors : op[a].start <= starts
    /\ \A r \in late : r.start <= starts
    /\ \A k \in Starts : k > starts => Untouched(k)

PendingOnce ==
    \A k \in Starts :
        /\ Pending(k) => Untouched(k)
        /\ \A a, b \in Actors : Opening(a, k) /\ Opening(b, k) => a = b
        /\ \A a \in Actors, r \in late : ~(Opening(a, k) /\ LateOpening(r, k))
        /\ \A r, q \in late : LateOpening(r, k) /\ LateOpening(q, k) => r = q

-----------------------------------------------------------------------------
(* The end of a start that no two calls fought over: one call has it, and   *)
(* has the record out of the way before it publishes.                       *)

Held(a, k) == op[a].at \in EndPoints /\ op[a].start = k
Gone(a) == op[a].at \in {"consolidate", "emit_end"}

OneEnd ==
    \A k \in Starts \ raced :
        /\ \A a, b \in Actors : Held(a, k) /\ op[b].start = k => a = b
        /\ \A a \in Actors : Held(a, k) => ended[k] = 0
        /\ \A a \in Actors : Held(a, k) /\ Gone(a) => meta # k
        /\ ended[k] # 0 => ended[k] = 1 /\ meta # k

EndInv == Numbering /\ PendingOnce /\ OneEnd

-----------------------------------------------------------------------------
(* Without failures.                                                        *)

Begun(k) == k \in began \/ \E b \in Actors : op[b].at = "emit_start" /\ op[b].start = k

\* What was published is in order, and the record is gone behind it.
InOrder ==
    /\ late = {}
    /\ \A a \in Actors : Gone(a) /\ op[a].start # 0 => meta # op[a].start
    /\ meta # 0 => Begun(meta)
    /\ \A k \in Starts \ raced :
          /\ \A a \in Actors : Held(a, k) => k \in began
          /\ ended[k] # 0 => k \in began

\* The turn counter is that of the start whose record is there, and a call that
\* ends the start has read all of it.
Counting ==
    \A k \in Starts \ raced :
        /\ meta = k /\ turnsOf[k] # 0 => turns # 0
        /\ \A a \in Actors : op[a].at \in TurnPoints /\ op[a].start = k => meta = k
        /\ \A a \in Actors : Held(a, k) /\ op[a].at \in {"turn_count", "delete_meta"} => meta = k
        /\ \A a \in Actors : Held(a, k) /\ op[a].at # "turn_count" /\ turnsOf[k] # 0 => op[a].turns # 0

\* It counts for no other start.
CountingOwn ==
    raced = {} =>
        /\ turns # 0 => meta # 0 /\ turnsOf[meta] # 0
        /\ \A a \in Actors : op[a].turns # 0 => turnsOf[op[a].start] # 0
        /\ \A k \in Starts : ended[k] # 0 => turnsOf[k] # 0

\* Behind the consolidation of a quiet session nobody speaks unless it is started again.
Silence ==
    /\ seal.done => seal.starts <= starts
    /\ \A a \in Actors : op[a].at = "emit_end" => seal.done
    /\ seal.done /\ seal.quiet /\ starts = seal.starts =>
         /\ meta = 0 /\ context = seal.context
         /\ \A a \in Actors : op[a].at \in {"idle", "get_meta"} \cup EndPoints

Calm == InOrder /\ Counting /\ CountingOwn /\ Silence
CalmInv == faults = 0 => Calm

\* The finally block runs end_session and nothing else.
CleanupEnds == \A a \in Actors : conn[a] = "cleanup" => a \in Sockets /\ op[a].at \in EndPoints

SessionInv == TypeInv /\ EndInv /\ CalmInv /\ CleanupEnds
-----------------------------------------------------------------------------
(* What the control operators do to the coroutines.                         *)

\* Only a moves.
OnlyOp(a) ==
    /\ op' \in [Actors -> Ops]
    /\ \A b \in Actors : b # a => op'[b] = op[b]

\* Its connection may end with it.
ConnKept ==
    /\ conn' \in [Actors -> Connections] /\ started' \in [Sockets -> BOOLEAN]
    /\ \A a \in Actors : conn'[a] = "cleanup" => conn[a] = "cleanup"

LEMMA IdleOpType == IdleOp \in Ops
BY TutorSessionAssumption DEF IdleOp, Ops, Points, TutorSessionAssumption

LEMMA ProceedShape ==
    ASSUME TypeOK, NEW a \in Actors, NEW point \in Points, Proceed(a, point)
    PROVE  /\ OnlyOp(a) /\ ConnKept
           /\ op'[a].at = point /\ op'[a].start = op[a].start /\ op'[a].turns = op[a].turns
BY DEF TypeOK, Proceed, OnlyOp, ConnKept, Ops

LEMMA BeginShape ==
    ASSUME TypeOK, NEW a \in Actors, NEW point \in Points, NEW k \in 0 .. MaxStarts, NEW n \in Nat,
           op' = [op EXCEPT ![a] = [at |-> point, start |-> k, turns |-> n]]
    PROVE  /\ OnlyOp(a)
           /\ op'[a].at = point /\ op'[a].start = k /\ op'[a].turns = n
BY DEF TypeOK, OnlyOp, Ops

LEMMA MoveShape ==
    ASSUME TypeOK, NEW a \in Actors, NEW o \in Ops, op' = [op EXCEPT ![a] = o]
    PROVE  OnlyOp(a) /\ op'[a] = o
BY DEF TypeOK, OnlyOp

LEMMA IdleShape ==
    ASSUME TypeOK, NEW a \in Actors, op' = [op EXCEPT ![a] = IdleOp]
    PROVE  OnlyOp(a) /\ op'[a] = IdleOp
BY IdleOpType, MoveShape

LEMMA ReturnShape ==
    ASSUME TypeOK, NEW a \in Actors, Return(a), UNCHANGED started
    PROVE  OnlyOp(a) /\ ConnKept /\ op'[a] = IdleOp
BY IdleShape DEF TypeOK, Return, ConnKept

LEMMA CloseShape ==
    ASSUME TypeOK, NEW a \in Actors, Close(a)
    PROVE  OnlyOp(a) /\ ConnKept /\ op'[a] = IdleOp
<1>1. OnlyOp(a) /\ op'[a] = IdleOp
  BY IdleShape DEF Close
<1>2. ConnKept
  BY DEF Close, TypeOK, ConnKept, Connections
<1>3. QED
  BY <1>1, <1>2

LEMMA RaiseShape ==
    ASSUME TypeOK, NEW a \in Actors, Raise(a)
    PROVE  OnlyOp(a) /\ ConnKept /\ op'[a] = IdleOp
BY ReturnShape, CloseShape DEF Raise
-----------------------------------------------------------------------------
(* Types.                                                                   *)

\* A step that lets no call take up a turn, counts nothing and owes nothing more.
LEMMA BudgetKept ==
    ASSUME TypeInv, turns' \in Nat, turns' <= turns, taken' \in Nat, taken <= taken',
           TurnOps' \subseteq TurnOps, LateIncrs' \subseteq LateIncrs
    PROVE  TurnBudget'
<1>1. /\ IsFiniteSet(TurnOps') /\ Cardinality(TurnOps') <= Cardinality(TurnOps)
      /\ IsFiniteSet(LateIncrs') /\ Cardinality(LateIncrs') <= Cardinality(LateIncrs)
  BY FS_Subset DEF TypeInv, TurnBudget
<1>2. /\ Cardinality(TurnOps) \in Nat /\ Cardinality(LateIncrs) \in Nat
      /\ Cardinality(TurnOps') \in Nat /\ Cardinality(LateIncrs') \in Nat
  BY <1>1, FS_CardinalityType DEF TypeInv, TurnBudget
<1>3. turns \in Nat /\ taken \in Nat
  BY TutorSessionAssumption DEF TypeInv, TypeOK, TutorSessionAssumption
<1>4. QED
  BY <1>1, <1>2, <1>3 DEF TypeInv, TurnBudget

\* TypeOK without the bound of the counter.
DataTypes ==
    /\ meta \in 0 .. MaxStarts /\ turns \in Nat /\ context \in Nat
    /\ late \subseteq LateRequests
    /\ starts \in 0 .. MaxStarts /\ taken \in 0 .. MaxTurns
    /\ turnsOf \in [Starts -> Nat]
    /\ began \subseteq Starts
    /\ ended \in [Starts -> Nat]
    /\ seal \in [done : BOOLEAN, quiet : BOOLEAN, context : Nat, starts : Nat]
    /\ raced \subseteq Starts
    /\ faults \in 0 .. MaxFaults

LEMMA TypeParts == TypeOK => DataTypes
BY TutorSessionAssumption DEF TypeOK, DataTypes, TutorSessionAssumption

\* Only a moves, to where a call may be.
LEMMA CallType ==
    ASSUME TypeInv, NEW a \in Actors, OnlyOp(a), ConnKept, KnowsStart(op'[a]),
           DataTypes', TurnBudget'
    PROVE  TypeInv'
<1>1. turns' \in 0 .. MaxTurns
  <2>1. Cardinality(TurnOps') \in Nat /\ Cardinality(LateIncrs') \in Nat
    BY FS_CardinalityType DEF TurnBudget
  <2>2. MaxTurns \in Nat
    BY TutorSessionAssumption DEF TutorSessionAssumption
  <2>3. turns' \in Nat /\ taken' \in 0 .. MaxTurns
    BY DEF DataTypes
  <2>4. turns' + Cardinality(TurnOps') + Cardinality(LateIncrs') <= taken'
    BY DEF TurnBudget
  <2>5. QED
    BY <2>1, <2>2, <2>3, <2>4
<1>2. OpStarts'
  BY DEF TypeInv, OpStarts, OnlyOp
<1>3. QED
  BY <1>1, <1>2 DEF TypeInv, TypeOK, DataTypes, OnlyOp, ConnKept

\* ... and takes up no turn, and counts none.
LEMMA CallStepType ==
    ASSUME TypeInv, NEW a \in Actors, OnlyOp(a), ConnKept, KnowsStart(op'[a]),
           op'[a].at \in TurnPoints => op[a].at \in TurnPoints,
           DataTypes', turns' <= turns, taken' = taken, LateIncrs' \subseteq LateIncrs
    PROVE  TypeInv'
<1>1. TurnOps' \subseteq TurnOps
  BY DEF TurnOps, OnlyOp
<1>2. turns' \in Nat /\ taken' \in Nat /\ taken <= taken'
  BY TypeParts, TutorSessionAssumption DEF TypeInv, DataTypes, TutorSessionAssumption
<1>3. TurnBudget'
  BY <1>1, <1>2, BudgetKept
<1>4. QED
  BY <1>3, CallType

\* What the requests do to the types.
LEMMA LandsType ==
    ASSUME TypeOK
    PROVE  /\ AppendLands => context' \in Nat
           /\ \A k \in 0 .. MaxStarts :
                /\ SetMetaLands(k) => meta' \in 0 .. MaxStarts /\ raced' \subseteq Starts
                /\ DeleteMetaLands(k) => meta' \in 0 .. MaxStarts /\ turns' = 0 /\ raced' \subseteq Starts
                /\ IncrLands(k) => turns' = turns + 1 /\ turnsOf' \in [Starts -> Nat]
                /\ \A others : ConsolidateLands(others, k) =>
                     seal' \in [done : BOOLEAN, quiet : BOOLEAN, context : Nat, starts : Nat]
<1>0. DataTypes
  BY TypeParts
<1>1. AppendLands => context' \in Nat
  BY <1>0 DEF AppendLands, DataTypes
<1>2. ASSUME NEW k \in 0 .. MaxStarts
      PROVE  /\ SetMetaLands(k) => meta' \in 0 .. MaxStarts /\ raced' \subseteq Starts
             /\ DeleteMetaLands(k) => meta' \in 0 .. MaxStarts /\ turns' = 0 /\ raced' \subseteq Starts
             /\ IncrLands(k) => turns' = turns + 1 /\ turnsOf' \in [Starts -> Nat]
  <2>1. raced \cup ({meta} \ {0}) \subseteq Starts /\ raced \cup ({meta} \ {0, k}) \subseteq Starts
    <3>1. meta # 0 => meta \in Starts
      BY <1>0, TutorSessionAssumption DEF DataTypes, Starts, TutorSessionAssumption
    <3>2. raced \subseteq Starts
      BY <1>0 DEF DataTypes
    <3>3. QED
      BY <3>1, <3>2
  <2>2. 0 \in 0 .. MaxStarts
    BY TutorSessionAssumption DEF TutorSessionAssumption
  <2>3. ASSUME IncrLands(k) PROVE turns' = turns + 1 /\ turnsOf' \in [Starts -> Nat]
    <3>1. turnsOf \in [Starts -> Nat]
      BY <1>0 DEF DataTypes
    <3>2. turnsOf' = [turnsOf EXCEPT ![k] = turnsOf[k] + 1] /\ turns' = turns + 1
      BY <2>3 DEF IncrLands
    <3>3. k \in Starts => turnsOf[k] + 1 \in Nat
      BY <3>1
    <3> DEFINE n == turnsOf[k] + 1
    <3> HIDE DEF n
    <3>4. [turnsOf EXCEPT ![k] = n] \in [Starts -> Nat]
      BY <3>1, <3>3 DEF n
    <3>5. QED
      BY <3>2, <3>4 DEF n
  <2>4. QED
    BY <2>1, <2>2, <2>3 DEF SetMetaLands, DeleteMetaLands
<1>3. ASSUME NEW k \in 0 .. MaxStarts, NEW others, ConsolidateLands(others, k)
      PROVE  seal' \in [done : BOOLEAN, quiet : BOOLEAN, context : Nat, starts : Nat]
  <2> DEFINE q == (\A b \in others : op[b].at = "idle") /\ meta \in {0, k}
  <2>1. q \in BOOLEAN
    OBVIOUS
  <2>2. seal' = seal \/ seal' = [done |-> TRUE, context |-> context, starts |-> starts, quiet |-> q]
    BY <1>3 DEF ConsolidateLands
  <2>3. starts \in Nat /\ context \in Nat /\ seal \in [done : BOOLEAN, quiet : BOOLEAN, context : Nat, starts : Nat]
    BY <1>0, TutorSessionAssumption DEF DataTypes, TutorSessionAssumption
  <2>4. \A x \in BOOLEAN : [done |-> TRUE, context |-> context, starts |-> starts, quiet |-> x]
                             \in [done : BOOLEAN, quiet : BOOLEAN, context : Nat, starts : Nat]
    BY <2>3
  <2> HIDE DEF q
  <2>5. [done |-> TRUE, context |-> context, starts |-> starts, quiet |-> q]
          \in [done : BOOLEAN, quiet : BOOLEAN, context : Nat, starts : Nat]
    BY <2>1, <2>4, Zenon
  <2>6. QED
    BY <2>2, <2>3, <2>5, Zenon
<1>4. QED
  BY <1>1, <1>2, <1>3

LEMMA FaultType == TypeOK /\ Fault => faults' \in 0 .. MaxFaults /\ faults' # 0
BY TutorSessionAssumption DEF TypeOK, Fault, TutorSessionAssumption

LEMMA InitType == Init => TypeInv
<1> SUFFICES ASSUME Init PROVE TypeInv
  OBVIOUS
<1>1. TypeOK
  BY TutorSessionAssumption, IdleOpType DEF Init, TypeOK, Connections, Starts, Unsealed, TutorSessionAssumption
<1>2. OpStarts
  BY DEF Init, OpStarts, KnowsStart, IdleOp, StartPoints
<1>3. TurnOps = {} /\ LateIncrs = {}
  BY DEF Init, TurnOps, LateIncrs, TurnPoints, IdleOp
<1>4. TurnBudget
  BY <1>3, FS_EmptySet DEF TurnBudget, Init
<1>5. QED
  BY <1>1, <1>2, <1>4 DEF TypeInv

\* Starting, reading and ending: nothing is counted and nothing given up.
LEMMA StartType == ASSUME TypeInv, NEW a \in Actors, Start(a) PROVE TypeInv'
<1>1. starts + 1 \in 0 .. MaxStarts /\ starts + 1 # 0
  BY TutorSessionAssumption DEF TypeInv, TypeOK, Start, TutorSessionAssumption
<1>2. OnlyOp(a) /\ op'[a].at = "opening" /\ op'[a].start = starts + 1 /\ op'[a].turns = 0
  BY <1>1, BeginShape DEF TypeInv, Start, Begin, Points, StartPoints
<1>3. KnowsStart(op'[a])
  BY <1>1, <1>2 DEF KnowsStart, StartPoints
<1>4. DataTypes' /\ ConnKept /\ turns' <= turns /\ taken' = taken /\ LateIncrs' \subseteq LateIncrs
  BY <1>1, TypeParts DEF Start, redisVars, topicVars, TypeInv, TypeOK, DataTypes, ConnKept, LateIncrs
<1>5. QED
  BY <1>2, <1>3, <1>4, CallStepType DEF TurnPoints

LEMMA CallBeginType ==
    ASSUME TypeInv, NEW a \in Actors, Turn(a) \/ End(a)
    PROVE  TypeInv'
<1>0. 0 \in 0 .. MaxStarts
  BY TutorSessionAssumption DEF TutorSessionAssumption
<1>1. CASE Turn(a)
  <2>0. "get_meta" \in Points /\ 0 \in Nat /\ op[a].at = "idle"
    BY <1>1 DEF Turn, Ready, Points, TurnPoints
  <2>1. OnlyOp(a) /\ op'[a].at = "get_meta" /\ op'[a].start = 0 /\ op'[a].turns = 0
    BY <1>0, <1>1, <2>0, BeginShape DEF TypeInv, Turn, Begin
  <2>2. KnowsStart(op'[a])
    BY <2>1 DEF KnowsStart, StartPoints
  <2>3. taken' = taken + 1 /\ taken' \in 0 .. MaxTurns /\ taken \in Nat /\ turns \in Nat
    BY <1>1, TutorSessionAssumption DEF Turn, TypeInv, TypeOK, TutorSessionAssumption
  <2>4. DataTypes' /\ ConnKept
    BY <1>1, <2>3, TypeParts DEF Turn, redisVars, topicVars, TypeInv, TypeOK, DataTypes, ConnKept
  <2>5. TurnOps' = TurnOps \cup {a} /\ a \notin TurnOps
    BY <2>0, <2>1 DEF TurnOps, OnlyOp, TurnPoints
  <2>6. IsFiniteSet(TurnOps') /\ Cardinality(TurnOps') = Cardinality(TurnOps) + 1
    BY <2>5, FS_AddElement DEF TypeInv, TurnBudget
  <2>7. LateIncrs' = LateIncrs /\ turns' = turns
    BY <1>1 DEF Turn, LateIncrs, redisVars
  <2>8. Cardinality(TurnOps) \in Nat /\ Cardinality(LateIncrs) \in Nat
    BY FS_CardinalityType DEF TypeInv, TurnBudget
  <2>9. turns + Cardinality(TurnOps) + Cardinality(LateIncrs) <= taken /\ IsFiniteSet(LateIncrs)
    BY DEF TypeInv, TurnBudget
  <2>10. TurnBudget'
    BY <2>3, <2>6, <2>7, <2>8, <2>9 DEF TurnBudget
  <2>11. QED
    BY <2>1, <2>2, <2>4, <2>10, CallType
<1>2. CASE End(a)
  <2>1. OnlyOp(a) /\ op'[a].at = "end_get_meta" /\ op'[a].start = 0 /\ op'[a].turns = 0
    BY <1>0, <1>2, BeginShape DEF TypeInv, End, Begin, Points, EndPoints
  <2>2. KnowsStart(op'[a])
    BY <2>1 DEF KnowsStart, StartPoints
  <2>3. DataTypes' /\ ConnKept /\ turns' <= turns /\ taken' = taken /\ LateIncrs' \subseteq LateIncrs
    BY <1>2, TypeParts DEF End, redisVars, topicVars, TypeInv, TypeOK, DataTypes, ConnKept, LateIncrs
  <2>4. QED
    BY <2>1, <2>2, <2>3, CallStepType DEF TurnPoints
<1>3. QED
  BY <1>1, <1>2

LEMMA StartStepType ==
    ASSUME TypeInv, NEW a \in Actors, AppendOpening(a) \/ SetMeta(a) \/ EmitStart(a)
    PROVE  TypeInv'
<1>0. op[a].start \in 0 .. MaxStarts /\ KnowsStart(op[a])
  BY DEF TypeInv, TypeOK, Ops, OpStarts
<1>1. CASE AppendOpening(a)
  <2>1. OnlyOp(a) /\ ConnKept /\ op'[a].at = "set_meta" /\ op'[a].start = op[a].start /\ op'[a].turns = op[a].turns
    BY <1>1, ProceedShape DEF TypeInv, AppendOpening, Points, StartPoints
  <2>2. KnowsStart(op'[a])
    BY <1>0, <1>1, <2>1 DEF KnowsStart, AppendOpening, StartPoints, EndPoints
  <2>3. DataTypes' /\ turns' <= turns /\ taken' = taken /\ LateIncrs' \subseteq LateIncrs
    BY <1>1, TypeParts, LandsType DEF AppendOpening, topicVars, TypeInv, TypeOK, DataTypes, LateIncrs
  <2>4. QED
    BY <2>1, <2>2, <2>3, CallStepType DEF TurnPoints
<1>2. CASE SetMeta(a)
  <2>1. OnlyOp(a) /\ ConnKept /\ op'[a].at = "emit_start" /\ op'[a].start = op[a].start /\ op'[a].turns = op[a].turns
    BY <1>2, ProceedShape DEF TypeInv, SetMeta, Points, StartPoints
  <2>2. KnowsStart(op'[a])
    BY <1>0, <1>2, <2>1 DEF KnowsStart, SetMeta, StartPoints, EndPoints
  <2>3. meta' \in 0 .. MaxStarts /\ raced' \subseteq Starts
    BY <1>0, <1>2, LandsType DEF SetMeta, TypeInv
  <2>4. DataTypes' /\ turns' <= turns /\ taken' = taken /\ LateIncrs' \subseteq LateIncrs
    BY <1>2, <2>3, TypeParts DEF SetMeta, topicVars, TypeInv, TypeOK, DataTypes, LateIncrs
  <2>5. QED
    BY <2>1, <2>2, <2>4, CallStepType DEF TurnPoints
<1>3. CASE EmitStart(a)
  <2>1. OnlyOp(a) /\ op'[a] = IdleOp
    BY <1>3, IdleShape DEF TypeInv, EmitStart, Return
  <2>2. KnowsStart(op'[a])
    BY <2>1 DEF KnowsStart, IdleOp, StartPoints
  <2>3. op[a].start \in Starts
    BY <1>0, <1>3, TutorSessionAssumption DEF EmitStart, KnowsStart, StartPoints, Starts, TutorSessionAssumption
  <2>4. began' \subseteq Starts /\ faults' \in 0 .. MaxFaults
    BY <1>3, <2>3, FaultType DEF EmitStart, TypeInv, TypeOK
  <2>5. ConnKept
    BY <1>3 DEF EmitStart, Return, TypeInv, TypeOK, ConnKept
  <2>6. DataTypes' /\ turns' <= turns /\ taken' = taken /\ LateIncrs' \subseteq LateIncrs
    BY <1>3, <2>4, TypeParts DEF EmitStart, redisVars, TypeInv, TypeOK, DataTypes, LateIncrs
  <2>7. QED
    BY <2>1, <2>2, <2>5, <2>6, CallStepType DEF TurnPoints, IdleOp
<1>4. QED
  BY <1>1, <1>2, <1>3

LEMMA TurnStepType ==
    ASSUME TypeInv, NEW a \in Actors, GetMeta(a) \/ GetMetaNone(a) \/ AppendTurn(a) \/ IncrTurn(a)
    PROVE  TypeInv'
<1>0. op[a].start \in 0 .. MaxStarts /\ KnowsStart(op[a]) /\ meta \in 0 .. MaxStarts
  BY DEF TypeInv, TypeOK, Ops, OpStarts
<1>1. CASE GetMeta(a)
  <2>1. OnlyOp(a) /\ op'[a].at = "user" /\ op'[a].start = meta /\ op'[a].turns = 0
    BY <1>0, <1>1, BeginShape DEF TypeInv, GetMeta, Points, TurnPoints
  <2>2. KnowsStart(op'[a])
    BY <1>1, <2>1 DEF KnowsStart, GetMeta
  <2>3. raced' \subseteq Starts
    BY <1>0, <1>1, TutorSessionAssumption DEF GetMeta, TypeInv, TypeOK, Starts, TutorSessionAssumption
  <2>4. DataTypes' /\ ConnKept /\ turns' <= turns /\ taken' = taken /\ LateIncrs' \subseteq LateIncrs
    BY <1>1, <2>3, TypeParts DEF GetMeta, redisVars, topicVars, TypeInv, TypeOK, DataTypes, ConnKept, LateIncrs
  <2>5. QED
    BY <1>1, <2>1, <2>2, <2>4, CallStepType DEF TurnPoints, GetMeta
<1>2. CASE GetMetaNone(a)
  <2>1. OnlyOp(a) /\ ConnKept /\ op'[a] = IdleOp
    BY <1>2, RaiseShape DEF TypeInv, GetMetaNone
  <2>2. KnowsStart(op'[a])
    BY <2>1 DEF KnowsStart, IdleOp, StartPoints
  <2>3. DataTypes' /\ turns' <= turns /\ taken' = taken /\ LateIncrs' \subseteq LateIncrs
    BY <1>2, TypeParts DEF GetMetaNone, redisVars, topicVars, TypeInv, TypeOK, DataTypes, LateIncrs
  <2>4. QED
    BY <2>1, <2>2, <2>3, CallStepType DEF TurnPoints, IdleOp
<1>3. CASE AppendTurn(a)
  <2>1. PICK p \in {"assistant", "incr"} : Proceed(a, p)
    BY <1>3 DEF AppendTurn
  <2>2. OnlyOp(a) /\ ConnKept /\ op'[a].at = p /\ op'[a].start = op[a].start /\ op'[a].turns = op[a].turns
    BY <2>1, ProceedShape DEF TypeInv, Points, TurnPoints
  <2>3. KnowsStart(op'[a])
    BY <1>0, <1>3, <2>2 DEF KnowsStart, AppendTurn, StartPoints, EndPoints
  <2>4. DataTypes' /\ turns' <= turns /\ taken' = taken /\ LateIncrs' \subseteq LateIncrs
    BY <1>3, TypeParts, LandsType DEF AppendTurn, topicVars, TypeInv, TypeOK, DataTypes, LateIncrs
  <2>5. op[a].at \in TurnPoints
    BY <1>3 DEF AppendTurn, TurnPoints
  <2>6. QED
    BY <2>2, <2>3, <2>4, <2>5, CallStepType
<1>4. CASE IncrTurn(a)
  <2>1. OnlyOp(a) /\ ConnKept /\ op'[a] = IdleOp
    BY <1>4, ReturnShape DEF TypeInv, IncrTurn
  <2>2. KnowsStart(op'[a])
    BY <2>1 DEF KnowsStart, IdleOp, StartPoints
  <2>3. turns' = turns + 1 /\ turnsOf' \in [Starts -> Nat]
    BY <1>0, <1>4, LandsType DEF TypeInv, IncrTurn
  <2>4. turns \in Nat /\ taken \in Nat
    BY TutorSessionAssumption DEF TypeInv, TypeOK, TutorSessionAssumption
  <2>5. DataTypes' /\ taken' = taken /\ LateIncrs' = LateIncrs
    BY <1>4, <2>3, <2>4, TypeParts DEF IncrTurn, topicVars, TypeInv, TypeOK, DataTypes, LateIncrs
  <2>6. TurnOps' = TurnOps \ {a} /\ a \in TurnOps
    BY <1>4, <2>1 DEF TurnOps, OnlyOp, TurnPoints, IncrTurn, IdleOp
  <2>7. IsFiniteSet(TurnOps') /\ Cardinality(TurnOps') = Cardinality(TurnOps) - 1
    BY <2>6, FS_RemoveElement DEF TypeInv, TurnBudget
  <2>8. Cardinality(TurnOps) \in Nat /\ Cardinality(LateIncrs) \in Nat
    BY FS_CardinalityType DEF TypeInv, TurnBudget
  <2>9. turns + Cardinality(TurnOps) + Cardinality(LateIncrs) <= taken /\ IsFiniteSet(LateIncrs)
    BY DEF TypeInv, TurnBudget
  <2>10. TurnBudget'
    BY <2>3, <2>4, <2>5, <2>7, <2>8, <2>9 DEF TurnBudget
  <2>11. QED
    BY <2>1, <2>2, <2>5, <2>10, CallType
<1>5. QED
  BY <1>1, <1>2, <1>3, <1>4

LEMMA EndStepType ==
    ASSUME TypeInv, NEW a \in Actors,
           EndGetMeta(a) \/ GetTurnCount(a) \/ DeleteMeta(a) \/ Consolidate(a) \/ EmitEnd(a)
    PROVE  TypeInv'
<1>0. /\ op[a].start \in 0 .. MaxStarts /\ op[a].turns \in Nat /\ KnowsStart(op[a])
      /\ meta \in 0 .. MaxStarts /\ turns \in Nat
  BY TutorSessionAssumption DEF TypeInv, TypeOK, Ops, OpStarts, TutorSessionAssumption
<1>1. CASE EndGetMeta(a)
  <2> DEFINE p == IF meta = 0 THEN "delete_meta" ELSE "turn_count"
  <2>1. p \in Points /\ p \in EndPoints
    BY DEF Points, EndPoints
  <2>2. OnlyOp(a) /\ op'[a].at = p /\ op'[a].start = meta /\ op'[a].turns = 0
    BY <1>0, <1>1, <2>1, BeginShape DEF TypeInv, EndGetMeta
  <2>3. KnowsStart(op'[a])
    BY <2>2 DEF KnowsStart, StartPoints
  <2>4. raced' \subseteq Starts
    BY <1>0, <1>1, TutorSessionAssumption DEF EndGetMeta, TypeInv, TypeOK, Starts, TutorSessionAssumption
  <2>5. DataTypes' /\ ConnKept /\ turns' <= turns /\ taken' = taken /\ LateIncrs' \subseteq LateIncrs
    BY <1>1, <2>4, TypeParts DEF EndGetMeta, redisVars, topicVars, TypeInv, TypeOK, DataTypes, ConnKept, LateIncrs
  <2>6. QED
    BY <2>1, <2>2, <2>3, <2>5, CallStepType DEF TurnPoints
<1>2. CASE GetTurnCount(a)
  <2>1. "delete_meta" \in Points /\ TypeOK
    BY DEF TypeInv, Points, EndPoints
  <2> DEFINE k == op[a].start
  <2>9. op' = [op EXCEPT ![a] = [at |-> "delete_meta", start |-> k, turns |-> turns]]
    BY <1>2 DEF GetTurnCount
  <2>10. k \in 0 .. MaxStarts
    BY <1>0
  <2> HIDE DEF k
  <2>11. OnlyOp(a) /\ op'[a].at = "delete_meta" /\ op'[a].start = k /\ op'[a].turns = turns
    BY <1>0, <2>1, <2>9, <2>10, BeginShape
  <2>2. OnlyOp(a) /\ op'[a].at = "delete_meta" /\ op'[a].start = op[a].start /\ op'[a].turns = turns
    BY <2>11 DEF k
  <2>3. KnowsStart(op'[a])
    BY <1>0, <1>2, <2>2 DEF KnowsStart, GetTurnCount, StartPoints, EndPoints
  <2>4. DataTypes' /\ ConnKept /\ turns' <= turns /\ taken' = taken /\ LateIncrs' \subseteq LateIncrs
    BY <1>2, TypeParts DEF GetTurnCount, redisVars, topicVars, TypeInv, TypeOK, DataTypes, ConnKept, LateIncrs
  <2>5. QED
    BY <2>2, <2>3, <2>4, CallStepType DEF TurnPoints
<1>3. CASE DeleteMeta(a)
  <2>1. OnlyOp(a) /\ ConnKept /\ op'[a].at = "consolidate" /\ op'[a].start = op[a].start /\ op'[a].turns = op[a].turns
    BY <1>3, ProceedShape DEF TypeInv, DeleteMeta, Points, EndPoints
  <2>2. KnowsStart(op'[a])
    BY <1>0, <2>1 DEF KnowsStart, StartPoints, EndPoints
  <2>3. meta' \in 0 .. MaxStarts /\ turns' = 0 /\ raced' \subseteq Starts
    BY <1>0, <1>3, LandsType DEF TypeInv, DeleteMeta
  <2>4. DataTypes' /\ turns' <= turns /\ taken' = taken /\ LateIncrs' \subseteq LateIncrs
    BY <1>0, <1>3, <2>3, TypeParts DEF DeleteMeta, topicVars, TypeInv, TypeOK, DataTypes, LateIncrs
  <2>5. QED
    BY <2>1, <2>2, <2>4, CallStepType DEF TurnPoints
<1>4. CASE Consolidate(a)
  <2>1. OnlyOp(a) /\ ConnKept /\ op'[a].at = "emit_end" /\ op'[a].start = op[a].start /\ op'[a].turns = op[a].turns
    BY <1>4, ProceedShape DEF TypeInv, Consolidate, Points, EndPoints
  <2>2. KnowsStart(op'[a])
    BY <1>0, <2>1 DEF KnowsStart, StartPoints, EndPoints
  <2>3. seal' \in [done : BOOLEAN, quiet : BOOLEAN, context : Nat, starts : Nat]
    BY <1>0, <1>4, LandsType, Zenon DEF TypeInv, Consolidate
  <2>4. DataTypes' /\ turns' <= turns /\ taken' = taken /\ LateIncrs' \subseteq LateIncrs
    BY <1>4, <2>3, TypeParts DEF Consolidate, redisVars, topicVars, TypeInv, TypeOK, DataTypes, LateIncrs
  <2>5. QED
    BY <2>1, <2>2, <2>4, CallStepType DEF TurnPoints
<1>5. CASE EmitEnd(a)
  <2>1. OnlyOp(a) /\ ConnKept /\ op'[a] = IdleOp
    BY <1>5, CloseShape DEF TypeInv, EmitEnd
  <2>2. KnowsStart(op'[a])
    BY <2>1 DEF KnowsStart, IdleOp, StartPoints
  <2>3. ended' \in [Starts -> Nat] /\ faults' \in 0 .. MaxFaults
    <3>1. ended \in [Starts -> Nat] /\ faults \in 0 .. MaxFaults
      BY DEF TypeInv, TypeOK
    <3>2. op[a].start # 0 => op[a].start \in Starts
      BY <1>0, TutorSessionAssumption DEF Starts, TutorSessionAssumption
    <3>3. op[a].start # 0 => [ended EXCEPT ![op[a].start] = @ + 1] \in [Starts -> Nat]
      BY <3>1, <3>2
    <3>4. QED
      BY <1>5, <3>1, <3>3, FaultType DEF EmitEnd, TypeInv
  <2>4. DataTypes' /\ turns' <= turns /\ taken' = taken /\ LateIncrs' \subseteq LateIncrs
    BY <1>5, <2>3, TypeParts DEF EmitEnd, redisVars, TypeInv, TypeOK, DataTypes, LateIncrs
  <2>5. QED
    BY <2>1, <2>2, <2>4, CallStepType DEF TurnPoints, IdleOp
<1>6. QED
  BY <1>1, <1>2, <1>3, <1>4, <1>5

LEMMA ConnectionType ==
    ASSUME TypeInv, NEW w \in Sockets, HangUp(w) \/ Disconnect(w) \/ Finally(w)
    PROVE  TypeInv'
<1>0. w \in Actors /\ 0 \in 0 .. MaxStarts /\ KnowsStart(op[w])
  BY TutorSessionAssumption DEF Actors, TutorSessionAssumption, TypeInv, OpStarts
<1>1. DataTypes' /\ turns' <= turns /\ taken' = taken /\ LateIncrs' \subseteq LateIncrs
  BY TypeParts DEF HangUp, Disconnect, Finally, redisVars, topicVars, TypeInv, TypeOK, DataTypes, LateIncrs
<1>2. conn' \in [Actors -> Connections] /\ started' \in [Sockets -> BOOLEAN]
  BY <1>0 DEF HangUp, Disconnect, Finally, TypeInv, TypeOK, Connections
<1>3. CASE UNCHANGED op
  <2>1. OpStarts'
    BY <1>3 DEF TypeInv, OpStarts
  <2>2. TurnOps' \subseteq TurnOps
    BY <1>3 DEF TurnOps
  <2>3. turns' \in Nat /\ taken' \in Nat /\ taken <= taken' /\ turns' \in 0 .. MaxTurns
    BY TutorSessionAssumption DEF HangUp, Disconnect, Finally, redisVars, TypeInv, TypeOK, TutorSessionAssumption
  <2>4. TurnBudget'
    BY <1>1, <2>2, <2>3, BudgetKept
  <2>5. QED
    BY <1>1, <1>2, <1>3, <2>1, <2>3, <2>4 DEF TypeInv, TypeOK, DataTypes
<1>4. CASE Begin(w, "end_get_meta", 0)
  <2>1. OnlyOp(w) /\ op'[w].at = "end_get_meta" /\ op'[w].start = 0 /\ op'[w].turns = 0
    BY <1>0, <1>4, BeginShape DEF TypeInv, Begin, Points, EndPoints
  <2>2. OpStarts'
    BY <1>0, <2>1 DEF TypeInv, OpStarts, OnlyOp, KnowsStart, StartPoints
  <2>3. TurnOps' \subseteq TurnOps
    BY <2>1 DEF TurnOps, OnlyOp, TurnPoints
  <2>4. turns' \in Nat /\ taken' \in Nat /\ taken <= taken' /\ turns' \in 0 .. MaxTurns
    BY TutorSessionAssumption DEF HangUp, Disconnect, Finally, redisVars, TypeInv, TypeOK, TutorSessionAssumption
  <2>5. TurnBudget'
    BY <1>1, <2>3, <2>4, BudgetKept
  <2>6. QED
    BY <1>1, <1>2, <2>1, <2>2, <2>4, <2>5 DEF TypeInv, TypeOK, DataTypes, OnlyOp
<1>5. QED
  BY <1>3, <1>4 DEF HangUp, Disconnect, Finally

\* A coroutine that fails goes on or gives up.
LEMMA FailureType ==
    ASSUME TypeInv, NEW a \in Actors, CallFails(a) \/ CallIgnored(a)
    PROVE  TypeInv'
<1>0. op[a].start \in 0 .. MaxStarts /\ KnowsStart(op[a])
  BY DEF TypeInv, TypeOK, Ops, OpStarts
<1>1. faults' \in 0 .. MaxFaults
  BY FaultType DEF TypeInv, CallFails, CallIgnored
<1>2. CASE CallFails(a)
  <2>1. OnlyOp(a) /\ ConnKept /\ op'[a] = IdleOp
    BY <1>2, RaiseShape DEF TypeInv, CallFails
  <2>2. KnowsStart(op'[a])
    BY <2>1 DEF KnowsStart, IdleOp, StartPoints
  <2>3. DataTypes' /\ turns' <= turns /\ taken' = taken /\ LateIncrs' \subseteq LateIncrs
    BY <1>1, <1>2, TypeParts DEF CallFails, redisVars, topicVars, TypeInv, TypeOK, DataTypes, LateIncrs
  <2>4. QED
    BY <2>1, <2>2, <2>3, CallStepType DEF TurnPoints, IdleOp
<1>3. CASE CallIgnored(a)
  <2>1. PICK p \in {"set_meta", "assistant", "incr", "consolidate", "emit_end"} :
          /\ Proceed(a, p)
          /\ \/ op[a].at = "opening" /\ p = "set_meta"
             \/ op[a].at \in {"user", "assistant"} /\ p \in {"assistant", "incr"}
             \/ op[a].at \in {"delete_meta", "consolidate"} /\ p \in {"consolidate", "emit_end"}
    BY <1>3 DEF CallIgnored
  <2>2. p \in Points
    BY DEF Points, StartPoints, TurnPoints, EndPoints
  <2>3. OnlyOp(a) /\ ConnKept /\ op'[a].at = p /\ op'[a].start = op[a].start /\ op'[a].turns = op[a].turns
    BY <2>1, <2>2, ProceedShape DEF TypeInv
  <2>4. KnowsStart(op'[a])
    BY <1>0, <2>1, <2>3 DEF KnowsStart, StartPoints, EndPoints
  <2>5. raced' \subseteq Starts
    <3>1. raced \subseteq Starts /\ {op[a].start} \ {0} \subseteq Starts
      BY <1>0, TutorSessionAssumption DEF TypeInv, TypeOK, Starts, TutorSessionAssumption
    <3>2. raced' = raced \/ raced' = raced \cup ({op[a].start} \ {0})
      BY <1>3 DEF CallIgnored
    <3>3. QED
      BY <3>1, <3>2
  <2>6. DataTypes' /\ turns' <= turns /\ taken' = taken /\ LateIncrs' \subseteq LateIncrs
    BY <1>1, <1>3, <2>5, TypeParts DEF CallIgnored, redisVars, topicVars, TypeInv, TypeOK, DataTypes, LateIncrs
  <2>7. op'[a].at \in TurnPoints => op[a].at \in TurnPoints
    BY <2>1, <2>3 DEF TurnPoints
  <2>8. QED
    BY <2>3, <2>4, <2>6, <2>7, CallStepType
<1>4. QED
  BY <1>2, <1>3

LEMMA TimesOutType ==
    ASSUME TypeInv, NEW a \in Actors, TimesOut(a)
    PROVE  TypeInv'
<1>0. op[a].start \in 0 .. MaxStarts /\ KnowsStart(op[a]) /\ faults \in Nat
  BY TutorSessionAssumption DEF TypeInv, TypeOK, Ops, OpStarts, TutorSessionAssumption
<1>1. PICK what \in {"append", "set_meta", "incr", "delete_meta", "consolidate"} :
        /\ Abandon(a, what)
        /\ what = "incr" => op[a].at = "incr" /\ Raise(a)
        /\ \/ Raise(a)
           \/ op[a].at = "opening" /\ Proceed(a, "set_meta")
           \/ op[a].at = "user" /\ Proceed(a, "assistant")
           \/ op[a].at = "assistant" /\ Proceed(a, "incr")
           \/ op[a].at = "consolidate" /\ Proceed(a, "emit_end")
  BY DEF TimesOut
<1> DEFINE r == [what |-> what, start |-> op[a].start, fault |-> faults]
<1>2. r \in LateRequests /\ r.what = what
  BY <1>0 DEF LateRequests
<1>3. /\ late' = late \cup {r} /\ faults' \in 0 .. MaxFaults
      /\ UNCHANGED <<redisVars, starts, taken, turnsOf, topicVars, seal, raced>>
  BY <1>1, FaultType DEF Abandon, TypeInv
<1> HIDE DEF r
<1>4. DataTypes'
  BY <1>2, <1>3, TypeParts DEF redisVars, topicVars, TypeInv, TypeOK, DataTypes
<1>5. OnlyOp(a) /\ ConnKept /\ KnowsStart(op'[a])
      /\ (op'[a].at \in TurnPoints => op[a].at \in TurnPoints)
      /\ (Raise(a) => op'[a] = IdleOp)
  <2>1. CASE Raise(a)
    <3>1. OnlyOp(a) /\ ConnKept /\ op'[a] = IdleOp
      BY <2>1, RaiseShape DEF TypeInv
    <3>2. QED
      BY <3>1 DEF KnowsStart, IdleOp, StartPoints, TurnPoints
  <2>2. CASE ~Raise(a)
    <3>1. PICK p \in {"set_meta", "assistant", "incr", "emit_end"} :
            /\ Proceed(a, p)
            /\ \/ op[a].at = "opening" /\ p = "set_meta"
               \/ op[a].at \in {"user", "assistant"} /\ p \in {"assistant", "incr"}
               \/ op[a].at = "consolidate" /\ p = "emit_end"
      BY <1>1, <2>2
    <3>2. p \in Points
      BY DEF Points, StartPoints, TurnPoints, EndPoints
    <3>3. OnlyOp(a) /\ ConnKept /\ op'[a].at = p /\ op'[a].start = op[a].start /\ op'[a].turns = op[a].turns
      BY <3>1, <3>2, ProceedShape DEF TypeInv
    <3>4. QED
      BY <1>0, <2>2, <3>1, <3>3 DEF KnowsStart, StartPoints, EndPoints, TurnPoints
  <2>3. QED
    BY <2>1, <2>2
<1>6. CASE what # "incr"
  <2>1. LateIncrs' \subseteq LateIncrs
    BY <1>2, <1>3, <1>6 DEF LateIncrs
  <2>2. turns' <= turns /\ taken' = taken
    BY <1>3, TutorSessionAssumption DEF redisVars, TypeInv, TypeOK, TutorSessionAssumption
  <2>3. QED
    BY <1>4, <1>5, <2>1, <2>2, CallStepType
<1>7. CASE what = "incr"
  <2>1. LateIncrs' = LateIncrs \cup {r} /\ turns' = turns /\ taken' = taken
    BY <1>2, <1>3, <1>7 DEF LateIncrs, redisVars
  <2>2. op'[a] = IdleOp /\ op[a].at = "incr"
    BY <1>1, <1>5, <1>7
  <2>3. TurnOps' = TurnOps \ {a} /\ a \in TurnOps
    BY <1>5, <2>2 DEF OnlyOp, TurnOps, TurnPoints, IdleOp
  <2>4. IsFiniteSet(TurnOps') /\ Cardinality(TurnOps') = Cardinality(TurnOps) - 1
    BY <2>3, FS_RemoveElement DEF TypeInv, TurnBudget
  <2>5. IsFiniteSet(LateIncrs') /\ Cardinality(LateIncrs') <= Cardinality(LateIncrs) + 1
    <3>1. IsFiniteSet(LateIncrs) /\ Cardinality(LateIncrs) \in Nat
      BY FS_CardinalityType DEF TypeInv, TurnBudget
    <3>2. /\ IsFiniteSet(LateIncrs \cup {r})
          /\ Cardinality(LateIncrs \cup {r}) \in {Cardinality(LateIncrs), Cardinality(LateIncrs) + 1}
      BY <3>1, FS_AddElement
    <3>3. QED
      BY <2>1, <3>1, <3>2
  <2>6. /\ Cardinality(TurnOps) \in Nat /\ Cardinality(LateIncrs) \in Nat /\ Cardinality(LateIncrs') \in Nat
        /\ turns + Cardinality(TurnOps) + Cardinality(LateIncrs) <= taken
        /\ turns \in Nat /\ taken \in Nat
    BY <2>5, FS_CardinalityType, TutorSessionAssumption DEF TypeInv, TypeOK, TurnBudget, TutorSessionAssumption
  <2>7. TurnBudget'
    BY <2>1, <2>4, <2>5, <2>6 DEF TurnBudget
  <2>8. QED
    BY <1>4, <1>5, <2>7, CallType
<1>8. QED
  BY <1>6, <1>7

\* No coroutine moves: the data and the budget are enough.
LEMMA DataType ==
    ASSUME TypeInv, UNCHANGED actorVars, DataTypes', TurnBudget'
    PROVE  TypeInv'
<1>1. turns' \in 0 .. MaxTurns
  <2>1. Cardinality(TurnOps') \in Nat /\ Cardinality(LateIncrs') \in Nat
    BY FS_CardinalityType DEF TurnBudget
  <2>2. MaxTurns \in Nat
    BY TutorSessionAssumption DEF TutorSessionAssumption
  <2>3. turns' \in Nat /\ taken' \in 0 .. MaxTurns
    BY DEF DataTypes
  <2>4. turns' + Cardinality(TurnOps') + Cardinality(LateIncrs') <= taken'
    BY DEF TurnBudget
  <2>5. QED
    BY <2>1, <2>2, <2>3, <2>4
<1>2. OpStarts'
  BY DEF TypeInv, OpStarts, actorVars
<1>3. QED
  BY <1>1, <1>2 DEF TypeInv, TypeOK, DataTypes, actorVars

LEMMA LateLandsType ==
    ASSUME TypeInv, NEW r \in late, LateLands(r)
    PROVE  TypeInv'
<1>0. r.start \in 0 .. MaxStarts /\ turns \in Nat /\ taken \in Nat
  BY TutorSessionAssumption DEF TypeInv, TypeOK, LateRequests, TutorSessionAssumption
<1>1. /\ UNCHANGED <<actorVars, starts, taken, topicVars, faults>> /\ late' = late \ {r}
  BY DEF LateLands
<1>2. DataTypes' /\ (r.what = "incr" => turns' = turns + 1) /\ (r.what # "incr" => turns' <= turns)
  <2>0. DataTypes /\ late' \subseteq LateRequests
    BY <1>1, TypeParts DEF TypeInv, TypeOK
  <2>1. CASE r.what = "append" /\ AppendLands /\ UNCHANGED <<meta, turns, turnsOf, seal, raced>>
    BY <1>0, <1>1, <2>0, <2>1, LandsType DEF TypeInv, DataTypes, actorVars, topicVars
  <2>2. CASE r.what = "set_meta" /\ SetMetaLands(r.start) /\ UNCHANGED <<turns, context, turnsOf, seal>>
    BY <1>0, <1>1, <2>0, <2>2, LandsType DEF TypeInv, DataTypes, actorVars, topicVars
  <2>3. CASE r.what = "incr" /\ IncrLands(r.start) /\ UNCHANGED <<meta, context, seal, raced>>
    BY <1>0, <1>1, <2>0, <2>3, LandsType DEF TypeInv, DataTypes, actorVars, topicVars
  <2>4. CASE r.what = "delete_meta" /\ DeleteMetaLands(r.start) /\ UNCHANGED <<context, turnsOf, seal>>
    BY <1>0, <1>1, <2>0, <2>4, LandsType DEF TypeInv, DataTypes, actorVars, topicVars
  <2>5. CASE r.what = "consolidate" /\ ConsolidateLands(Actors, r.start) /\ UNCHANGED <<redisVars, turnsOf, raced>>
    <3>1. seal' \in [done : BOOLEAN, quiet : BOOLEAN, context : Nat, starts : Nat]
      BY <1>0, <2>5, LandsType, Zenon DEF TypeInv
    <3>2. QED
      BY <1>0, <1>1, <2>0, <2>5, <3>1 DEF DataTypes, actorVars, topicVars, redisVars
  <2>6. QED
    BY <2>1, <2>2, <2>3, <2>4, <2>5 DEF LateLands
<1>3. TurnOps' = TurnOps
  BY <1>1 DEF TurnOps, actorVars
<1>4. CASE r.what # "incr"
  <2>1. LateIncrs' \subseteq LateIncrs
    BY <1>1 DEF LateIncrs
  <2>2. turns' \in Nat /\ taken' = taken /\ taken <= taken'
    BY <1>0, <1>1, <1>2 DEF DataTypes
  <2>3. TurnBudget'
    BY <1>0, <1>2, <1>3, <1>4, <2>1, <2>2, BudgetKept
  <2>4. QED
    BY <1>1, <1>2, <2>3, DataType
<1>5. CASE r.what = "incr"
  <2>1. LateIncrs' = LateIncrs \ {r} /\ r \in LateIncrs
    BY <1>1, <1>5 DEF LateIncrs
  <2>2. IsFiniteSet(LateIncrs') /\ Cardinality(LateIncrs') = Cardinality(LateIncrs) - 1
    BY <2>1, FS_RemoveElement DEF TypeInv, TurnBudget
  <2>3. /\ Cardinality(TurnOps) \in Nat /\ Cardinality(LateIncrs) \in Nat
        /\ turns + Cardinality(TurnOps) + Cardinality(LateIncrs) <= taken
        /\ IsFiniteSet(TurnOps) /\ taken' = taken
    BY <1>1, FS_CardinalityType DEF TypeInv, TurnBudget
  <2>4. TurnBudget'
    BY <1>0, <1>2, <1>3, <1>5, <2>2, <2>3 DEF TurnBudget
  <2>5. QED
    BY <1>1, <1>2, <2>4, DataType
<1>6. QED
  BY <1>4, <1>5

LEMMA ExpireType == TypeInv /\ Expire => TypeInv'
<1> SUFFICES ASSUME TypeInv, Expire PROVE TypeInv'
  OBVIOUS
<1>1. faults' \in 0 .. MaxFaults
  BY FaultType DEF TypeInv, Expire
<1>2. DataTypes' /\ turns' <= turns /\ UNCHANGED <<actorVars, late, taken>> /\ taken <= taken' /\ turns' \in Nat /\ taken' \in Nat
  BY <1>1, TypeParts, TutorSessionAssumption DEF Expire, TypeInv, TypeOK, DataTypes, actorVars, topicVars, TutorSessionAssumption
<1>3. TurnOps' \subseteq TurnOps /\ LateIncrs' \subseteq LateIncrs
  BY <1>2 DEF TurnOps, LateIncrs, actorVars
<1>4. TurnBudget'
  BY <1>2, <1>3, BudgetKept
<1>5. QED
  BY <1>2, <1>4, DataType

LEMMA CrashType == TypeInv /\ Crash => TypeInv'
<1> SUFFICES ASSUME TypeInv, Crash PROVE TypeInv'
  OBVIOUS
<1>1. faults' \in 0 .. MaxFaults
  BY FaultType DEF TypeInv, Crash
<1>2. DataTypes' /\ turns' = turns /\ late' = late /\ taken' = taken /\ turns \in 0 .. MaxTurns /\ taken \in Nat
  BY <1>1, TypeParts, TutorSessionAssumption DEF Crash, TypeInv, TypeOK, DataTypes, redisVars, topicVars, TutorSessionAssumption
<1>3. TurnOps' \subseteq TurnOps /\ LateIncrs' \subseteq LateIncrs
  BY <1>2 DEF TurnOps, LateIncrs, Crash, IdleOp, TurnPoints
<1>4. TurnBudget'
  BY <1>2, <1>3, BudgetKept, TutorSessionAssumption DEF TutorSessionAssumption
<1>5. OpStarts'
  BY DEF Crash, OpStarts, IdleOp, KnowsStart, StartPoints
<1>6. op' \in [Actors -> Ops] /\ conn' \in [Actors -> Connections] /\ started' \in [Sockets -> BOOLEAN]
  BY IdleOpType DEF Crash, TypeInv, TypeOK, Connections
<1>7. QED
  BY <1>2, <1>4, <1>5, <1>6 DEF TypeInv, TypeOK, DataTypes

LEMMA NextType == TypeInv /\ [Next]_vars => TypeInv'
<1> SUFFICES ASSUME TypeInv, [Next]_vars PROVE TypeInv'
  OBVIOUS
<1>1. ASSUME NEW a \in Actors,
             Start(a) \/ Turn(a) \/ End(a) \/ Step(a) \/ CallFails(a) \/ CallIgnored(a) \/ TimesOut(a)
      PROVE  TypeInv'
  BY <1>1, StartType, CallBeginType, StartStepType, TurnStepType, EndStepType, FailureType, TimesOutType
     DEF Step
<1>2. ASSUME NEW w \in Sockets, HangUp(w) \/ Disconnect(w) \/ Finally(w)
      PROVE  TypeInv'
  BY <1>2, ConnectionType
<1>3. ASSUME NEW r \in late, LateLands(r)
      PROVE  TypeInv'
  BY <1>3, LateLandsType
<1>4. CASE UNCHANGED vars
  BY <1>4 DEF vars, redisVars, actorVars, topicVars, TypeInv, TypeOK, TurnBudget, TurnOps, LateIncrs, OpStarts
<1>5. QED
  BY <1>1, <1>2, <1>3, <1>4, ExpireType, CrashType DEF Next

\* The data has its types: no more turns are counted than were taken up, whatever fails, is
\* repeated or lands late.
THEOREM TypeCorrect == Spec => []TypeOK
<1>1. Spec => []TypeInv
  BY InitType, NextType, PTL DEF Spec
<1>2. QED
  BY <1>1, PTL DEF TypeInv

-----------------------------------------------------------------------------
(* One end of a start.                                                      *)

\* Calls go on with the start they have or let go of it: none begins one, comes to end one, or
\* passes delete_meta with the record still there.
Follows(b) ==
    op'[b].start # 0 =>
        /\ op'[b].start = op[b].start
        /\ op'[b].at \in {"opening", "set_meta"} => op[b].at \in {"opening", "set_meta"}
        /\ op'[b].at \in EndPoints => op[b].at \in EndPoints
        /\ op'[b].at \in {"consolidate", "emit_end"} =>
             op[b].at \in {"consolidate", "emit_end"} \/ meta' # op[b].start \/ op[b].start \in raced'

Quiet ==
    /\ starts' = starts /\ ended' = ended /\ meta' \in {0, meta}
    /\ raced \subseteq raced' /\ late' \subseteq late
    /\ \A k \in Starts : Untouched(k) => turnsOf'[k] = turnsOf[k]
    /\ \A b \in Actors : Follows(b)

LEMMA NumberTypes ==
    TypeInv =>
        /\ meta \in Nat /\ starts \in Nat /\ starts \in 0 .. MaxStarts
        /\ \A a \in Actors : op[a].start \in Nat /\ op[a].turns \in Nat /\ (op[a].start # 0 => op[a].start \in Starts)
        /\ \A r \in late : r.start \in Nat
        /\ \A k \in Starts : k \in Nat /\ k # 0 /\ ended[k] \in Nat /\ turnsOf[k] \in Nat
<1> SUFFICES ASSUME TypeInv
             PROVE  /\ meta \in Nat /\ starts \in Nat /\ starts \in 0 .. MaxStarts
                    /\ \A a \in Actors : op[a].start \in Nat /\ op[a].turns \in Nat /\ (op[a].start # 0 => op[a].start \in Starts)
                    /\ \A r \in late : r.start \in Nat
                    /\ \A k \in Starts : k \in Nat /\ k # 0 /\ ended[k] \in Nat /\ turnsOf[k] \in Nat
  OBVIOUS
<1>1. MaxStarts \in Nat
  BY TutorSessionAssumption DEF TutorSessionAssumption
<1>2. meta \in 0 .. MaxStarts /\ starts \in 0 .. MaxStarts /\ ended \in [Starts -> Nat] /\ turnsOf \in [Starts -> Nat]
  BY DEF TypeInv, TypeOK
<1>3. \A a \in Actors : op[a].start \in 0 .. MaxStarts /\ op[a].turns \in Nat
  BY DEF TypeInv, TypeOK, Ops
<1>4. \A r \in late : r.start \in 0 .. MaxStarts
  BY DEF TypeInv, TypeOK, LateRequests
<1>5. QED
  BY <1>1, <1>2, <1>3, <1>4 DEF Starts

LEMMA QuietEnd == TypeInv /\ EndInv /\ Quiet => EndInv'
<1> SUFFICES ASSUME TypeInv, EndInv, Quiet PROVE EndInv'
  OBVIOUS
<1>1. Numbering'
  <2>1. meta' <= starts' /\ (\A a \in Actors : op'[a].start <= starts') /\ (\A r \in late' : r.start <= starts')
    BY NumberTypes DEF EndInv, Numbering, Quiet, Follows
  <2>2. ASSUME NEW k \in Starts, k > starts' PROVE Untouched(k)'
    <3>1. Untouched(k) /\ \A a \in Actors : op[a].start # k
      BY <2>2, NumberTypes DEF EndInv, Numbering, Quiet
    <3>2. QED
      BY <3>1, NumberTypes DEF Untouched, Quiet, Follows
  <2>3. QED
    BY <2>1, <2>2 DEF Numbering
<1>2. PendingOnce'
  <2> SUFFICES ASSUME NEW k \in Starts
               PROVE  /\ Pending(k)' => Untouched(k)'
                      /\ \A a, b \in Actors : Opening(a, k)' /\ Opening(b, k)' => a = b
                      /\ \A a \in Actors, r \in late' : ~(Opening(a, k)' /\ LateOpening(r, k))
                      /\ \A r, q \in late' : LateOpening(r, k) /\ LateOpening(q, k) => r = q
    BY DEF PendingOnce, LateOpening
  <2>1. \A a \in Actors : Opening(a, k)' => Opening(a, k)
    BY NumberTypes DEF Quiet, Follows, Opening
  <2>2. /\ \A a, b \in Actors : Opening(a, k)' /\ Opening(b, k)' => a = b
        /\ \A a \in Actors, r \in late' : ~(Opening(a, k)' /\ LateOpening(r, k))
        /\ \A r, q \in late' : LateOpening(r, k) /\ LateOpening(q, k) => r = q
    BY <2>1 DEF EndInv, PendingOnce, Quiet
  <2>3. ASSUME Pending(k)' PROVE Untouched(k)'
    <3>1. Pending(k)
      BY <2>1, <2>3 DEF Pending, Quiet, LateOpening
    <3>2. Untouched(k)
      BY <3>1 DEF EndInv, PendingOnce
    <3>3. \A a \in Actors : op'[a].start = k => Opening(a, k)'
      <4> SUFFICES ASSUME NEW a \in Actors, op'[a].start = k PROVE Opening(a, k)'
        OBVIOUS
      <4>1. Opening(a, k)
        BY <3>2, NumberTypes DEF Untouched, Quiet, Follows
      <4>2. CASE \E b \in Actors : Opening(b, k)'
        BY <2>1, <4>1, <4>2 DEF EndInv, PendingOnce
      <4>3. CASE \E r \in late' : LateOpening(r, k)'
        BY <4>1, <4>3 DEF EndInv, PendingOnce, Quiet, LateOpening
      <4>4. QED
        BY <2>3, <4>2, <4>3 DEF Pending
    <3>4. QED
      BY <3>2, <3>3, NumberTypes DEF Untouched, Quiet
  <2>4. QED
    BY <2>2, <2>3
<1>3. OneEnd'
  <2> SUFFICES ASSUME NEW k \in Starts, k \notin raced'
               PROVE  /\ \A a, b \in Actors : Held(a, k)' /\ op'[b].start = k => a = b
                      /\ \A a \in Actors : Held(a, k)' => ended'[k] = 0
                      /\ \A a \in Actors : Held(a, k)' /\ Gone(a)' => meta' # k
                      /\ ended'[k] # 0 => ended'[k] = 1 /\ meta' # k
    BY DEF OneEnd
  <2>1. k \notin raced /\ ended' = ended /\ (meta' = k => meta = k)
    BY NumberTypes DEF Quiet
  <2>2. \A a \in Actors : (Held(a, k)' => Held(a, k)) /\ (op'[a].start = k => op[a].start = k)
    BY NumberTypes DEF Quiet, Follows, Held
  <2>3. \A a \in Actors : Held(a, k)' /\ Gone(a)' => Gone(a) \/ meta' # k
    BY NumberTypes DEF Quiet, Follows, Held, Gone
  <2>4. QED
    BY <2>1, <2>2, <2>3 DEF EndInv, OneEnd
<1>4. QED
  BY <1>1, <1>2, <1>3 DEF EndInv

\* A start takes a number nobody has met.
LEMMA StartEnd == ASSUME TypeInv, EndInv, NEW a \in Actors, Start(a) PROVE EndInv'
<1>1. PICK n \in Starts : n = starts + 1 /\ n > starts /\ Untouched(n) /\ n \in 0 .. MaxStarts
  BY NumberTypes, TutorSessionAssumption DEF Start, EndInv, Numbering, Starts, TutorSessionAssumption
<1>2. OnlyOp(a) /\ op'[a].at = "opening" /\ op'[a].start = n /\ op[a].at = "idle" /\ op[a].start = 0
  <2>1. "opening" \in Points /\ TypeOK /\ op[a].at = "idle" /\ op[a].start = 0
    BY DEF TypeInv, Start, Ready, Points, StartPoints, OpStarts, KnowsStart
  <2>2. op' = [op EXCEPT ![a] = [at |-> "opening", start |-> n, turns |-> 0]]
    BY <1>1 DEF Start, Begin
  <2>3. [at |-> "opening", start |-> n, turns |-> 0] \in Ops
    BY <1>1, <2>1 DEF Ops
  <2>4. OnlyOp(a) /\ op'[a] = [at |-> "opening", start |-> n, turns |-> 0]
    BY <2>1, <2>2, <2>3, MoveShape
  <2>5. QED
    BY <2>1, <2>4
<1>3. starts' = n /\ UNCHANGED <<meta, late, turnsOf, ended, raced>>
  BY <1>1 DEF Start, redisVars, topicVars
<1>4. \A b \in Actors : op[b].start # n
  BY <1>1, NumberTypes DEF EndInv, Numbering
<1>5. \A r \in late : r.start # n
  BY <1>1, NumberTypes DEF EndInv, Numbering
<1>6. ASSUME NEW k \in Starts, k # n PROVE Untouched(k) => Untouched(k)'
  <2>1. \A b \in Actors : op'[b].start = k => op'[b] = op[b]
    BY <1>2, <1>6 DEF OnlyOp
  <2>2. QED
    BY <1>3, <2>1 DEF Untouched, Opening
<1>7. Untouched(n)'
  <2>1. \A b \in Actors : op'[b].start = n => Opening(b, n)'
    BY <1>2, <1>4 DEF Opening, OnlyOp
  <2>2. QED
    BY <1>1, <1>3, <1>5, <2>1 DEF Untouched
<1>8. Numbering'
  <2>1. meta' <= starts' /\ (\A b \in Actors : op'[b].start <= starts') /\ (\A r \in late' : r.start <= starts')
    BY <1>2, <1>3, <1>1, NumberTypes DEF EndInv, Numbering, OnlyOp
  <2>2. ASSUME NEW k \in Starts, k > starts' PROVE Untouched(k)'
    <3>1. k # n /\ k > starts
      BY <2>2, <1>1, <1>3, NumberTypes
    <3>2. QED
      BY <3>1, <1>6 DEF EndInv, Numbering
  <2>3. QED
    BY <2>1, <2>2 DEF Numbering
<1>9. PendingOnce'
  <2> SUFFICES ASSUME NEW k \in Starts
               PROVE  /\ Pending(k)' => Untouched(k)'
                      /\ \A b, c \in Actors : Opening(b, k)' /\ Opening(c, k)' => b = c
                      /\ \A b \in Actors, r \in late' : ~(Opening(b, k)' /\ LateOpening(r, k))
                      /\ \A r, q \in late' : LateOpening(r, k) /\ LateOpening(q, k) => r = q
    BY DEF PendingOnce, LateOpening
  <2>1. CASE k = n
    <3>1. \A b \in Actors : Opening(b, k)' => b = a
      BY <1>2, <1>4, <2>1 DEF OnlyOp, Opening
    <3>2. \A r \in late' : ~LateOpening(r, k)
      BY <1>3, <1>5, <2>1 DEF LateOpening
    <3>3. QED
      BY <1>7, <2>1, <3>1, <3>2
  <2>2. CASE k # n
    <3>1. \A b \in Actors : Opening(b, k)' <=> Opening(b, k)
      BY <1>2, <2>2, NumberTypes DEF OnlyOp, Opening
    <3>2. Pending(k)' => Pending(k)
      BY <1>3, <3>1 DEF Pending, LateOpening
    <3>3. Pending(k)' => Untouched(k)'
      BY <1>6, <2>2, <3>2 DEF EndInv, PendingOnce
    <3>4. QED
      BY <1>3, <3>1, <3>3 DEF EndInv, PendingOnce
  <2>3. QED
    BY <2>1, <2>2
<1>10. OneEnd'
  <2> SUFFICES ASSUME NEW k \in Starts, k \notin raced
               PROVE  /\ \A b, c \in Actors : Held(b, k)' /\ op'[c].start = k => b = c
                      /\ \A b \in Actors : Held(b, k)' => ended[k] = 0
                      /\ \A b \in Actors : Held(b, k)' /\ Gone(b)' => meta # k
                      /\ ended[k] # 0 => ended[k] = 1 /\ meta # k
    BY <1>3 DEF OneEnd
  <2>1. \A b \in Actors : Held(b, k)' => Held(b, k) /\ b # a /\ k # n
    BY <1>1, <1>2, <1>4 DEF OnlyOp, Held, EndPoints
  <2>2. \A b \in Actors : op'[b].start = k => (b = a /\ k = n) \/ op[b].start = k
    BY <1>2 DEF OnlyOp
  <2>3. \A b \in Actors : b # a => op'[b] = op[b]
    BY <1>2 DEF OnlyOp
  <2>4. QED
    BY <2>1, <2>2, <2>3 DEF EndInv, OneEnd, Gone
<1>11. QED
  BY <1>8, <1>9, <1>10 DEF EndInv

\* The record of start n is written: by the call that owns the number, or late.
LEMMA RecordEnd ==
    ASSUME TypeInv, EndInv, NEW n \in Starts, Pending(n), SetMetaLands(n),
           \A b \in Actors : op'[b].start = op[b].start
                             /\ (op'[b].at = op[b].at \/ (op[b].at = "set_meta" /\ op'[b].at = "emit_start")),
           \A b \in Actors : ~Opening(b, n)',
           late' \subseteq late, \A r \in late' : ~LateOpening(r, n),
           UNCHANGED <<starts, ended, turnsOf>>
    PROVE  EndInv'
<1>1. Untouched(n) /\ n <= starts
  BY NumberTypes DEF EndInv, PendingOnce, Numbering, Pending, Opening, LateOpening
<1>2. ASSUME NEW k \in Starts, k # n PROVE Untouched(k) /\ (k > starts \/ Pending(k)') => Untouched(k)'
  <2> SUFFICES ASSUME Untouched(k), k > starts \/ Pending(k)' PROVE Untouched(k)'
    OBVIOUS
  <2>1. \A b \in Actors : op'[b].start = k => Opening(b, k)'
    <3> SUFFICES ASSUME NEW b \in Actors, op'[b].start = k PROVE Opening(b, k)'
      OBVIOUS
    <3>1. Opening(b, k) /\ k <= starts
      BY NumberTypes DEF Untouched, EndInv, Numbering
    <3>2. \A c \in Actors : Opening(c, k)' => c = b
      BY <3>1 DEF Opening, EndInv, PendingOnce
    <3>3. \A r \in late' : ~LateOpening(r, k)
      BY <3>1 DEF EndInv, PendingOnce
    <3>4. QED
      BY <3>1, <3>2, <3>3, NumberTypes DEF Pending, LateOpening
  <2>2. QED
    BY <1>2, <2>1 DEF Untouched, SetMetaLands
<1>3. \A k \in Starts, b \in Actors : Opening(b, k)' => Opening(b, k)
  BY DEF Opening
<1>4. Numbering'
  <2>1. ASSUME NEW k \in Starts, k > starts' PROVE Untouched(k)'
    BY <1>1, <1>2, <2>1, NumberTypes DEF EndInv, Numbering
  <2>2. QED
    BY <1>1, <2>1, NumberTypes DEF EndInv, Numbering, SetMetaLands
<1>5. PendingOnce'
  <2> SUFFICES ASSUME NEW k \in Starts
               PROVE  /\ Pending(k)' => Untouched(k)'
                      /\ \A b, c \in Actors : Opening(b, k)' /\ Opening(c, k)' => b = c
                      /\ \A b \in Actors, r \in late' : ~(Opening(b, k)' /\ LateOpening(r, k))
                      /\ \A r, q \in late' : LateOpening(r, k) /\ LateOpening(q, k) => r = q
    BY DEF PendingOnce, LateOpening
  <2>1. Pending(k)' => Pending(k) /\ k # n
    BY <1>3 DEF Pending, LateOpening
  <2>2. Pending(k)' => Untouched(k)'
    BY <1>2, <2>1 DEF EndInv, PendingOnce
  <2>3. QED
    BY <1>3, <2>2 DEF EndInv, PendingOnce
<1>6. OneEnd'
  <2> SUFFICES ASSUME NEW k \in Starts, k \notin raced'
               PROVE  /\ \A b, c \in Actors : Held(b, k)' /\ op'[c].start = k => b = c
                      /\ \A b \in Actors : Held(b, k)' => ended[k] = 0
                      /\ \A b \in Actors : Held(b, k)' /\ Gone(b)' => meta' # k
                      /\ ended[k] # 0 => ended[k] = 1 /\ meta' # k
    BY DEF OneEnd
  <2>1. k \notin raced /\ meta' = n
    BY DEF SetMetaLands
  <2>2. \A b \in Actors : Held(b, k)' => Held(b, k) /\ (Gone(b)' => Gone(b)) /\ k # n
    BY <1>1 DEF Held, Gone, EndPoints, Untouched, Opening
  <2>3. ended[k] # 0 => k # n
    BY <1>1 DEF Untouched
  <2>4. QED
    BY <2>1, <2>2, <2>3 DEF EndInv, OneEnd
<1>7. QED
  BY <1>4, <1>5, <1>6 DEF EndInv

\* Reading the record: a turn that meets an ending call, and an ending call that meets any other,
\* have raced the start.
LEMMA ReadEnd ==
    ASSUME TypeInv, EndInv, NEW a \in Actors, GetMeta(a) \/ EndGetMeta(a)
    PROVE  EndInv'
<1>1. /\ OnlyOp(a) /\ op'[a].start = meta /\ op'[a].at \notin {"opening", "set_meta", "consolidate", "emit_end"}
      /\ op[a].start = 0
      /\ GetMeta(a) => op'[a].at \notin EndPoints
  <2>1. "user" \in Points /\ "delete_meta" \in Points /\ "turn_count" \in Points /\ TypeOK
        /\ meta \in 0 .. MaxStarts /\ 0 \in Nat
    BY DEF TypeInv, TypeOK, Points, TurnPoints, EndPoints
  <2>2. op[a].start = 0
    BY DEF TypeInv, OpStarts, KnowsStart, GetMeta, EndGetMeta
  <2>3. ASSUME GetMeta(a) PROVE OnlyOp(a) /\ op'[a].start = meta /\ op'[a].at = "user"
    <3>1. op' = [op EXCEPT ![a] = [at |-> "user", start |-> meta, turns |-> 0]]
      BY <2>3 DEF GetMeta
    <3>2. QED
      BY <2>1, <3>1, BeginShape
  <2>4. ASSUME EndGetMeta(a) PROVE OnlyOp(a) /\ op'[a].start = meta /\ op'[a].at \in {"delete_meta", "turn_count"}
    <3>1. PICK p \in {"delete_meta", "turn_count"} : op' = [op EXCEPT ![a] = [at |-> p, start |-> meta, turns |-> 0]]
      BY <2>4 DEF EndGetMeta
    <3>2. [at |-> p, start |-> meta, turns |-> 0] \in Ops
      BY <2>1 DEF Ops
    <3>3. OnlyOp(a) /\ op'[a] = [at |-> p, start |-> meta, turns |-> 0]
      BY <2>1, <3>1, <3>2, MoveShape
    <3>4. QED
      BY <3>3
  <2>5. QED
    BY <2>2, <2>3, <2>4 DEF EndPoints
<1>2. UNCHANGED <<meta, turnsOf, ended, late, starts>> /\ raced \subseteq raced'
  BY DEF GetMeta, EndGetMeta, redisVars, topicVars
<1>3. \A k \in Starts, b \in Actors : Opening(b, k)' <=> Opening(b, k)
  BY <1>1, NumberTypes DEF Opening, OnlyOp
<1>4. \A k \in Starts : Untouched(k) => Untouched(k)'
  BY <1>1, <1>2, <1>3 DEF Untouched, OnlyOp
<1>5. Numbering'
  BY <1>1, <1>2, <1>4, NumberTypes DEF EndInv, Numbering, OnlyOp
<1>6. PendingOnce'
  <2> SUFFICES ASSUME NEW k \in Starts
               PROVE  /\ Pending(k)' => Untouched(k)'
                      /\ \A b, c \in Actors : Opening(b, k)' /\ Opening(c, k)' => b = c
                      /\ \A b \in Actors, r \in late' : ~(Opening(b, k)' /\ LateOpening(r, k))
                      /\ \A r, q \in late' : LateOpening(r, k) /\ LateOpening(q, k) => r = q
    BY DEF PendingOnce, LateOpening
  <2>1. Pending(k)' => Pending(k)
    BY <1>2, <1>3 DEF Pending, LateOpening
  <2>2. QED
    BY <1>2, <1>3, <1>4, <2>1 DEF EndInv, PendingOnce
<1>7. OneEnd'
  <2> SUFFICES ASSUME NEW k \in Starts, k \notin raced'
               PROVE  /\ \A b, c \in Actors : Held(b, k)' /\ op'[c].start = k => b = c
                      /\ \A b \in Actors : Held(b, k)' => ended[k] = 0
                      /\ \A b \in Actors : Held(b, k)' /\ Gone(b)' => meta # k
                      /\ ended[k] # 0 => ended[k] = 1 /\ meta # k
    BY <1>2 DEF OneEnd
  <2>1. k \notin raced /\ k # 0
    BY <1>2, NumberTypes
  <2>2. \A b \in Actors : b # a => op'[b] = op[b]
    BY <1>1 DEF OnlyOp
  <2>3. CASE meta # k
    <3>1. \A b \in Actors : op'[b].start = k => b # a
      BY <1>1, <2>3
    <3>2. QED
      BY <2>1, <2>2, <3>1 DEF EndInv, OneEnd, Held, Gone
  <2>4. CASE meta = k /\ GetMeta(a)
    <3>1. Ending(a, k) = {}
      BY <2>1, <2>4 DEF GetMeta
    <3>2. \A b \in Actors : ~Held(b, k)'
      BY <1>1, <2>2, <2>4, <3>1 DEF Ending, Sharing, Held, EndPoints
    <3>3. QED
      BY <2>1, <3>2 DEF EndInv, OneEnd
  <2>5. CASE meta = k /\ EndGetMeta(a)
    <3>1. Sharing(a, k) = {}
      BY <2>1, <2>5 DEF EndGetMeta
    <3>2. \A b \in Actors : op'[b].start = k => b = a
      BY <2>1, <2>2, <3>1 DEF Sharing, TypeInv, OpStarts, KnowsStart
    <3>3. ended[k] = 0
      BY <2>1, <2>5, NumberTypes DEF EndInv, OneEnd
    <3>4. ~Gone(a)'
      BY <1>1 DEF Gone
    <3>5. QED
      BY <3>2, <3>3, <3>4 DEF Held
  <2>6. QED
    BY <2>3, <2>4, <2>5
<1>8. QED
  BY <1>5, <1>6, <1>7 DEF EndInv

\* session.end is published by the call that has the start, which it thereby lets go.
LEMMA EmitEndEnd == ASSUME TypeInv, EndInv, NEW a \in Actors, EmitEnd(a) PROVE EndInv'
<1>1. OnlyOp(a) /\ op'[a].start = 0 /\ op[a].at = "emit_end"
  BY CloseShape DEF TypeInv, EmitEnd, IdleOp
<1>2. UNCHANGED <<meta, turnsOf, late, starts, raced>>
  BY DEF EmitEnd, redisVars
<1>3. \A b \in Actors : Follows(b)
  BY <1>1 DEF Follows, OnlyOp
<1>4. CASE ended' = ended
  BY <1>2, <1>3, <1>4, QuietEnd DEF Quiet
<1>5. CASE ended' # ended
  <2> DEFINE n == op[a].start
  <2>1. n \in Starts /\ ended' = [ended EXCEPT ![n] = ended[n] + 1] /\ ended \in [Starts -> Nat]
    BY <1>5, NumberTypes DEF EmitEnd, TypeInv, TypeOK
  <2>2. Held(a, n) /\ Gone(a) /\ n <= starts /\ ~Opening(a, n)
    BY <1>1, NumberTypes DEF Held, Gone, EndPoints, Opening, EndInv, Numbering
  <2> HIDE DEF n
  <2>3. ended'[n] = ended[n] + 1 /\ \A k \in Starts : k # n => ended'[k] = ended[k]
    BY <2>1
  <2>4. \A k \in Starts, b \in Actors : Opening(b, k)' <=> Opening(b, k)
    BY <1>1, NumberTypes DEF Opening, OnlyOp
  <2>5. \A k \in Starts : Untouched(k) => k # n
    BY <2>2 DEF Untouched, n
  <2>6. \A k \in Starts : Untouched(k) => Untouched(k)'
    BY <1>1, <1>2, <2>3, <2>4, <2>5, NumberTypes DEF Untouched, OnlyOp
  <2>7. Numbering'
    BY <1>1, <1>2, <2>6, NumberTypes DEF EndInv, Numbering, OnlyOp
  <2>8. PendingOnce'
    <3> SUFFICES ASSUME NEW k \in Starts
                 PROVE  /\ Pending(k)' => Untouched(k)'
                        /\ \A b, c \in Actors : Opening(b, k)' /\ Opening(c, k)' => b = c
                        /\ \A b \in Actors, r \in late' : ~(Opening(b, k)' /\ LateOpening(r, k))
                        /\ \A r, q \in late' : LateOpening(r, k) /\ LateOpening(q, k) => r = q
      BY DEF PendingOnce, LateOpening
    <3>1. Pending(k)' => Pending(k)
      BY <1>2, <2>4 DEF Pending, LateOpening
    <3>2. QED
      BY <1>2, <2>4, <2>6, <3>1 DEF EndInv, PendingOnce
  <2>9. OneEnd'
    <3> SUFFICES ASSUME NEW k \in Starts, k \notin raced
                 PROVE  /\ \A b, c \in Actors : Held(b, k)' /\ op'[c].start = k => b = c
                        /\ \A b \in Actors : Held(b, k)' => ended'[k] = 0
                        /\ \A b \in Actors : Held(b, k)' /\ Gone(b)' => meta # k
                        /\ ended'[k] # 0 => ended'[k] = 1 /\ meta # k
      BY <1>2 DEF OneEnd
    <3>1. \A b \in Actors : op'[b].start = k => b # a /\ op'[b] = op[b]
      BY <1>1, NumberTypes DEF OnlyOp
    <3>2. CASE k # n
      BY <2>3, <3>1, <3>2 DEF EndInv, OneEnd, Held, Gone
    <3>3. CASE k = n
      <4>1. \A b \in Actors : op'[b].start # k
        BY <2>2, <3>1, <3>3 DEF EndInv, OneEnd
      <4>2. ended[k] = 0 /\ meta # k
        BY <2>2, <3>3 DEF EndInv, OneEnd
      <4>3. QED
        BY <2>3, <3>3, <4>1, <4>2 DEF Held
    <3>4. QED
      BY <3>2, <3>3
  <2>10. QED
    BY <2>7, <2>8, <2>9 DEF EndInv
<1>6. QED
  BY <1>4, <1>5

\* A request that is given up keeps the number its call had.
LEMMA TimesOutEnd == ASSUME TypeInv, EndInv, NEW a \in Actors, TimesOut(a) PROVE EndInv'
<1>1. PICK what \in {"append", "set_meta", "incr", "delete_meta", "consolidate"} :
        /\ Abandon(a, what)
        /\ what \in {"set_meta", "incr", "delete_meta"} => op[a].at = what /\ Raise(a)
        /\ \/ Raise(a)
           \/ op[a].at = "opening" /\ Proceed(a, "set_meta")
           \/ op[a].at = "user" /\ Proceed(a, "assistant")
           \/ op[a].at = "assistant" /\ Proceed(a, "incr")
           \/ op[a].at = "consolidate" /\ Proceed(a, "emit_end")
        /\ op[a].at = "set_meta" => what = "set_meta"
  BY DEF TimesOut
<1>2. PICK r : /\ late' = late \cup {r} /\ r.what = what /\ r.start = op[a].start
  <2> DEFINE w == [what |-> what, start |-> op[a].start, fault |-> faults]
  <2>1. late' = late \cup {w} /\ w.what = what /\ w.start = op[a].start
    BY <1>1 DEF Abandon
  <2> HIDE DEF w
  <2>2. QED
    BY <2>1
<1>3. UNCHANGED <<meta, ended, turnsOf, starts, raced>>
  BY <1>1 DEF Abandon, redisVars, topicVars
<1>4. /\ OnlyOp(a) /\ Follows(a) /\ (what = "set_meta" => op'[a].start = 0)
      /\ op[a].at \in {"opening"} => op'[a].start = op[a].start /\ op'[a].at = "set_meta"
  <2>1. CASE Raise(a)
    <3>1. OnlyOp(a) /\ op'[a] = IdleOp
      BY <2>1, RaiseShape DEF TypeInv
    <3>2. op[a].at # "opening"
      BY <3>1, ProceedShape DEF TimesOut, Abandon, TypeInv, Points, StartPoints, IdleOp
    <3>3. QED
      BY <3>1, <3>2 DEF Follows, IdleOp
  <2>2. CASE ~Raise(a)
    <3>1. PICK p \in {"set_meta", "assistant", "incr", "emit_end"} :
            /\ Proceed(a, p)
            /\ \/ op[a].at = "opening" /\ p = "set_meta"
               \/ op[a].at = "user" /\ p = "assistant"
               \/ op[a].at = "assistant" /\ p = "incr"
               \/ op[a].at = "consolidate" /\ p = "emit_end"
      BY <1>1, <2>2
    <3>2. p \in Points
      BY DEF Points, StartPoints, TurnPoints, EndPoints
    <3>3. OnlyOp(a) /\ op'[a].at = p /\ op'[a].start = op[a].start
      BY <3>1, <3>2, ProceedShape DEF TypeInv
    <3>4. QED
      BY <1>1, <2>2, <3>1, <3>3 DEF Follows, EndPoints
  <2>3. QED
    BY <2>1, <2>2
<1>5. \A b \in Actors : Follows(b)
  BY <1>4 DEF Follows, OnlyOp
<1>6. \A k \in Starts, b \in Actors : Opening(b, k)' => Opening(b, k)
  BY <1>5, NumberTypes DEF Follows, Opening
<1>7. \A k \in Starts : LateOpening(r, k) => Opening(a, k) /\ \A b \in Actors : ~Opening(b, k)'
  <2> SUFFICES ASSUME NEW k \in Starts, LateOpening(r, k)
               PROVE  Opening(a, k) /\ \A b \in Actors : ~Opening(b, k)'
    OBVIOUS
  <2>1. Opening(a, k) /\ what = "set_meta"
    BY <1>1, <1>2 DEF LateOpening, Opening
  <2>2. \A b \in Actors : Opening(b, k)' => b = a
    BY <1>6, <2>1 DEF EndInv, PendingOnce
  <2>3. QED
    BY <1>4, <2>1, <2>2, NumberTypes DEF Opening
<1>8. \A k \in Starts : Pending(k)' => Pending(k)
  BY <1>2, <1>6, <1>7 DEF Pending, LateOpening
<1>9. ASSUME NEW k \in Starts, Untouched(k), k > starts \/ Pending(k)' PROVE Untouched(k)'
  <2>1. \A b \in Actors : op'[b].start = k => Opening(b, k)'
    <3> SUFFICES ASSUME NEW b \in Actors, op'[b].start = k PROVE Opening(b, k)'
      OBVIOUS
    <3>1. Opening(b, k)
      BY <1>5, <1>9, NumberTypes DEF Untouched, Follows
    <3>2. CASE b # a
      BY <1>4, <3>1, <3>2 DEF OnlyOp, Opening
    <3>3. CASE b = a
      <4>1. QED
        BY <1>1, <1>4, <1>9, <3>1, <3>3, NumberTypes DEF Opening
    <3>4. QED
      BY <3>2, <3>3
  <2>2. r.start = k => Opening(a, k)
    BY <1>2, <1>9 DEF Untouched
  <2>3. r.start = k => r.what \notin {"incr", "delete_meta"}
    BY <1>1, <1>2, <2>2 DEF Opening
  <2>4. QED
    BY <1>2, <1>3, <1>9, <2>1, <2>3 DEF Untouched
<1>10. Numbering'
  <2>1. \A b \in Actors : op'[b].start <= starts
    BY <1>5, NumberTypes DEF Follows, EndInv, Numbering
  <2>2. \A q \in late' : q.start <= starts
    BY <1>2 DEF EndInv, Numbering
  <2>3. QED
    BY <1>3, <1>9, <2>1, <2>2 DEF EndInv, Numbering
<1>11. PendingOnce'
  <2> SUFFICES ASSUME NEW k \in Starts
               PROVE  /\ Pending(k)' => Untouched(k)'
                      /\ \A b, c \in Actors : Opening(b, k)' /\ Opening(c, k)' => b = c
                      /\ \A b \in Actors, q \in late' : ~(Opening(b, k)' /\ LateOpening(q, k))
                      /\ \A p, q \in late' : LateOpening(p, k) /\ LateOpening(q, k) => p = q
    BY DEF PendingOnce, LateOpening
  <2>1. Pending(k)' => Untouched(k)'
    BY <1>8, <1>9 DEF EndInv, PendingOnce
  <2>2. QED
    BY <1>2, <1>6, <1>7, <2>1 DEF EndInv, PendingOnce
<1>12. OneEnd'
  <2> SUFFICES ASSUME NEW k \in Starts, k \notin raced
               PROVE  /\ \A b, c \in Actors : Held(b, k)' /\ op'[c].start = k => b = c
                      /\ \A b \in Actors : Held(b, k)' => ended[k] = 0
                      /\ \A b \in Actors : Held(b, k)' /\ Gone(b)' => meta # k
                      /\ ended[k] # 0 => ended[k] = 1 /\ meta # k
    BY <1>3 DEF OneEnd
  <2>1. \A b \in Actors : (Held(b, k)' => Held(b, k)) /\ (op'[b].start = k => op[b].start = k)
    BY <1>5, NumberTypes DEF Follows, Held
  <2>2. \A b \in Actors : Held(b, k)' /\ Gone(b)' => Gone(b) \/ meta # k
    BY <1>3, <1>5, NumberTypes DEF Follows, Held, Gone
  <2>3. QED
    BY <2>1, <2>2 DEF EndInv, OneEnd
<1>13. QED
  BY <1>10, <1>11, <1>12 DEF EndInv

\* The other steps of a call let it go on, or let it go.
LEMMA CallQuiet ==
    ASSUME TypeInv, EndInv, NEW a \in Actors,
           \/ Turn(a) \/ End(a) \/ AppendOpening(a) \/ EmitStart(a) \/ GetMetaNone(a) \/ AppendTurn(a)
           \/ IncrTurn(a) \/ GetTurnCount(a) \/ DeleteMeta(a) \/ Consolidate(a) \/ CallFails(a) \/ CallIgnored(a)
    PROVE  Quiet
<1> DEFINE Same == UNCHANGED <<starts, ended, meta, late>> /\ raced \subseteq raced' /\ UNCHANGED turnsOf
<1>1. (OnlyOp(a) /\ Follows(a)) => \A b \in Actors : Follows(b)
  BY DEF Follows, OnlyOp
<1>2. (OnlyOp(a) /\ op'[a] = IdleOp) => Follows(a)
  BY DEF Follows, IdleOp
<1>3. TypeOK /\ op[a].start \in 0 .. MaxStarts
  BY DEF TypeInv, TypeOK, Ops
<1>4. CASE Turn(a) \/ End(a)
  <2>1. PICK p \in {"get_meta", "end_get_meta"} : Begin(a, p, 0)
    BY <1>4 DEF Turn, End
  <2>2. [at |-> p, start |-> 0, turns |-> 0] \in Ops
    BY TutorSessionAssumption DEF Ops, Points, TurnPoints, EndPoints, TutorSessionAssumption
  <2>3. OnlyOp(a) /\ op'[a].start = 0
    <3>1. op' = [op EXCEPT ![a] = [at |-> p, start |-> 0, turns |-> 0]]
      BY <2>1 DEF Begin
    <3>2. OnlyOp(a) /\ op'[a] = [at |-> p, start |-> 0, turns |-> 0]
      BY <1>3, <2>2, <3>1, MoveShape
    <3>3. QED
      BY <3>2
  <2>4. Same
    BY <1>4 DEF Turn, End, redisVars, topicVars
  <2>5. QED
    BY <1>1, <2>3, <2>4 DEF Follows, Quiet
<1>5. CASE AppendOpening(a) \/ AppendTurn(a) \/ Consolidate(a) \/ CallIgnored(a)
  <2>1. PICK p \in {"set_meta", "assistant", "incr", "consolidate", "emit_end"} :
          /\ Proceed(a, p)
          /\ \/ op[a].at = "opening" /\ p = "set_meta"
             \/ op[a].at \in {"user", "assistant"} /\ p \in {"assistant", "incr"}
             \/ op[a].at = "consolidate" /\ p = "emit_end"
             \/ op[a].at = "delete_meta" /\ p = "consolidate" /\ raced' = raced \cup ({op[a].start} \ {0})
    BY <1>5 DEF AppendOpening, AppendTurn, Consolidate, CallIgnored
  <2>2. p \in Points
    BY DEF Points, StartPoints, TurnPoints, EndPoints
  <2>3. OnlyOp(a) /\ op'[a].at = p /\ op'[a].start = op[a].start
    BY <1>3, <2>1, <2>2, ProceedShape
  <2>4. Same
    BY <1>5 DEF AppendOpening, AppendTurn, Consolidate, CallIgnored, redisVars, topicVars
  <2>5. Follows(a)
    BY <2>1, <2>3 DEF Follows, EndPoints
  <2>6. QED
    BY <1>1, <2>3, <2>4, <2>5 DEF Quiet
<1>6. CASE EmitStart(a) \/ GetMetaNone(a) \/ CallFails(a)
  <2>1. OnlyOp(a) /\ op'[a] = IdleOp
    BY <1>3, <1>6, IdleShape, RaiseShape DEF EmitStart, Return, GetMetaNone, CallFails
  <2>2. Same
    BY <1>6 DEF EmitStart, GetMetaNone, CallFails, redisVars, topicVars
  <2>3. QED
    BY <1>1, <1>2, <2>1, <2>2 DEF Quiet
<1>7. CASE IncrTurn(a)
  <2>1. OnlyOp(a) /\ op'[a] = IdleOp
    BY <1>3, <1>7, IdleShape DEF IncrTurn, Return
  <2>2. UNCHANGED <<starts, ended, meta, late, raced>>
    BY <1>7 DEF IncrTurn, topicVars
  <2>3. \A k \in Starts : Untouched(k) => turnsOf'[k] = turnsOf[k]
    BY <1>7 DEF Untouched, Opening, IncrTurn, IncrLands, TypeInv, TypeOK
  <2>4. QED
    BY <1>1, <1>2, <2>1, <2>2, <2>3 DEF Quiet
<1>8. CASE GetTurnCount(a)
  <2>1. OnlyOp(a) /\ op'[a] = [at |-> "delete_meta", start |-> op[a].start, turns |-> turns]
    <3>1. [at |-> "delete_meta", start |-> op[a].start, turns |-> turns] \in Ops
      BY <1>3, TutorSessionAssumption DEF Ops, Points, EndPoints, TypeOK, TutorSessionAssumption
    <3>2. QED
      BY <1>3, <1>8, <3>1, MoveShape DEF GetTurnCount
  <2>2. Same
    BY <1>8 DEF GetTurnCount, redisVars, topicVars
  <2>3. Follows(a)
    BY <1>8, <2>1 DEF Follows, GetTurnCount, EndPoints
  <2>4. QED
    BY <1>1, <2>1, <2>2, <2>3 DEF Quiet
<1>9. CASE DeleteMeta(a)
  <2>1. OnlyOp(a) /\ op'[a].at = "consolidate" /\ op'[a].start = op[a].start
    BY <1>3, <1>9, ProceedShape DEF DeleteMeta, Points, EndPoints
  <2>2. UNCHANGED <<starts, ended, turnsOf, late>> /\ meta' = 0 /\ raced \subseteq raced'
    BY <1>9 DEF DeleteMeta, DeleteMetaLands, topicVars
  <2>3. Follows(a)
    BY <1>9, <2>1, <2>2 DEF Follows, DeleteMeta, EndPoints
  <2>4. QED
    BY <1>1, <2>1, <2>2, <2>3 DEF Quiet
<1>10. QED
  BY <1>4, <1>5, <1>6, <1>7, <1>8, <1>9

\* So do the connections, a crash, and the requests that land late.
LEMMA OtherQuiet ==
    ASSUME TypeInv, EndInv,
           \/ \E w \in Sockets : HangUp(w) \/ Disconnect(w) \/ Finally(w)
           \/ \E r \in late : LateLands(r) /\ r.what # "set_meta"
           \/ Expire \/ Crash \/ UNCHANGED vars
    PROVE  Quiet
<1>1. ASSUME NEW w \in Sockets, HangUp(w) \/ Disconnect(w) \/ Finally(w) PROVE Quiet
  <2>1. UNCHANGED <<starts, ended, meta, late, turnsOf, raced>>
    BY <1>1 DEF HangUp, Disconnect, Finally, redisVars, topicVars
  <2>2. w \in Actors /\ TypeOK
    BY DEF Actors, TypeInv
  <2>3. UNCHANGED op \/ op' = [op EXCEPT ![w] = [at |-> "end_get_meta", start |-> 0, turns |-> 0]]
    BY <1>1 DEF HangUp, Disconnect, Finally, Begin
  <2>4. [at |-> "end_get_meta", start |-> 0, turns |-> 0] \in Ops
    BY TutorSessionAssumption DEF Ops, Points, EndPoints, TutorSessionAssumption
  <2>5. UNCHANGED op \/ (OnlyOp(w) /\ op'[w] = [at |-> "end_get_meta", start |-> 0, turns |-> 0])
    BY <2>2, <2>3, <2>4, MoveShape
  <2>6. \A b \in Actors : op'[b] = op[b] \/ op'[b].start = 0
    BY <2>5 DEF OnlyOp
  <2>7. QED
    BY <2>1, <2>6 DEF Quiet, Follows
<1>2. ASSUME NEW r \in late, LateLands(r), r.what # "set_meta" PROVE Quiet
  <2>1. UNCHANGED <<starts, ended, op>> /\ late' \subseteq late
    BY <1>2 DEF LateLands, actorVars, topicVars
  <2>2. meta' \in {0, meta} /\ raced \subseteq raced'
    BY <1>2 DEF LateLands, DeleteMetaLands, redisVars
  <2>3. \A k \in Starts : Untouched(k) => turnsOf'[k] = turnsOf[k]
    <3>1. UNCHANGED turnsOf \/ (r.what = "incr" /\ IncrLands(r.start))
      BY <1>2 DEF LateLands
    <3>2. QED
      BY <3>1 DEF Untouched, IncrLands, TypeInv, TypeOK
  <2>4. QED
    BY <2>1, <2>2, <2>3 DEF Quiet, Follows
<1>3. CASE Expire
  BY <1>3 DEF Expire, Quiet, Follows, actorVars, topicVars
<1>4. CASE Crash
  BY <1>4 DEF Crash, Quiet, Follows, IdleOp, redisVars, topicVars
<1>5. CASE UNCHANGED vars
  BY <1>5 DEF vars, Quiet, Follows, redisVars, actorVars, topicVars
<1>6. QED
  BY <1>1, <1>2, <1>3, <1>4, <1>5

LEMMA InitEnd == Init => EndInv
<1> SUFFICES ASSUME Init PROVE EndInv
  OBVIOUS
<1>1. /\ meta = 0 /\ starts = 0 /\ late = {}
      /\ \A a \in Actors : op[a].at = "idle" /\ op[a].start = 0
      /\ \A k \in Starts : ended[k] = 0 /\ turnsOf[k] = 0 /\ k # 0
  BY TutorSessionAssumption DEF Init, IdleOp, Starts, TutorSessionAssumption
<1>2. Numbering
  BY <1>1 DEF Numbering, Untouched
<1>3. PendingOnce
  BY <1>1 DEF PendingOnce, Pending, Opening, LateOpening
<1>4. OneEnd
  BY <1>1 DEF OneEnd, Held, EndPoints
<1>5. QED
  BY <1>2, <1>3, <1>4 DEF EndInv

LEMMA SetMetaEnd == ASSUME TypeInv, EndInv, NEW a \in Actors, SetMeta(a) PROVE EndInv'
<1>1. PICK n \in Starts : n = op[a].start
  BY NumberTypes DEF TypeInv, OpStarts, KnowsStart, SetMeta, StartPoints
<1>2. OnlyOp(a) /\ op'[a].at = "emit_start" /\ op'[a].start = n /\ op[a].at = "set_meta"
  BY <1>1, ProceedShape DEF SetMeta, TypeInv, Points, StartPoints
<1>3. Opening(a, n) /\ Pending(n)
  BY <1>1, <1>2 DEF Opening, Pending
<1>4. SetMetaLands(n) /\ UNCHANGED <<starts, ended, turnsOf, late>>
  BY <1>1 DEF SetMeta, topicVars
<1>5. \A b \in Actors : op'[b].start = op[b].start
                        /\ (op'[b].at = op[b].at \/ (op[b].at = "set_meta" /\ op'[b].at = "emit_start"))
  BY <1>1, <1>2 DEF OnlyOp
<1>6. \A b \in Actors : ~Opening(b, n)'
  BY <1>2, <1>3 DEF OnlyOp, Opening, EndInv, PendingOnce
<1>7. \A r \in late' : ~LateOpening(r, n)
  BY <1>3, <1>4 DEF EndInv, PendingOnce
<1>8. QED
  BY <1>3, <1>4, <1>5, <1>6, <1>7, RecordEnd

LEMMA LateSetMetaEnd ==
    ASSUME TypeInv, EndInv, NEW r \in late, LateLands(r), r.what = "set_meta"
    PROVE  EndInv'
<1>1. late' = late \ {r} /\ UNCHANGED <<starts, ended, turnsOf, op>> /\ SetMetaLands(r.start)
  BY DEF LateLands, actorVars, topicVars
<1>2. CASE r.start \in Starts
  <2>1. PICK n \in Starts : n = r.start
    BY <1>2
  <2>2. LateOpening(r, n) /\ Pending(n)
    BY <2>1 DEF LateOpening, Pending
  <2>3. \A b \in Actors : ~Opening(b, n)'
    BY <1>1, <2>2 DEF Opening, EndInv, PendingOnce
  <2>4. \A q \in late' : ~LateOpening(q, n)
    BY <1>1, <2>2 DEF EndInv, PendingOnce
  <2>5. SetMetaLands(n) /\ late' \subseteq late
    BY <1>1, <2>1
  <2>6. QED
    BY <1>1, <2>2, <2>3, <2>4, <2>5, RecordEnd
<1>3. CASE r.start \notin Starts
  <2>1. r.start = 0
    BY <1>3, TutorSessionAssumption DEF TypeInv, TypeOK, LateRequests, Starts, TutorSessionAssumption
  <2>2. Quiet
    BY <1>1, <2>1 DEF Quiet, Follows, SetMetaLands
  <2>3. QED
    BY <2>2, QuietEnd
<1>4. QED
  BY <1>2, <1>3

LEMMA NextEnd == TypeInv /\ EndInv /\ [Next]_vars => EndInv'
<1> SUFFICES ASSUME TypeInv, EndInv, [Next]_vars PROVE EndInv'
  OBVIOUS
<1>1. ASSUME NEW a \in Actors,
             Start(a) \/ Turn(a) \/ End(a) \/ Step(a) \/ CallFails(a) \/ CallIgnored(a) \/ TimesOut(a)
      PROVE  EndInv'
  <2>1. CASE Start(a)
    BY <2>1, StartEnd
  <2>2. CASE SetMeta(a)
    BY <2>2, SetMetaEnd
  <2>3. CASE GetMeta(a) \/ EndGetMeta(a)
    BY <2>3, ReadEnd
  <2>4. CASE EmitEnd(a)
    BY <2>4, EmitEndEnd
  <2>5. CASE TimesOut(a)
    BY <2>5, TimesOutEnd
  <2>6. CASE ~(Start(a) \/ SetMeta(a) \/ GetMeta(a) \/ EndGetMeta(a) \/ EmitEnd(a) \/ TimesOut(a))
    BY <1>1, <2>6, CallQuiet, QuietEnd DEF Step
  <2>7. QED
    BY <2>1, <2>2, <2>3, <2>4, <2>5, <2>6
<1>2. ASSUME NEW w \in Sockets, HangUp(w) \/ Disconnect(w) \/ Finally(w)
      PROVE  EndInv'
  BY <1>2, OtherQuiet, QuietEnd
<1>3. ASSUME NEW r \in late, LateLands(r)
      PROVE  EndInv'
  BY <1>3, LateSetMetaEnd, OtherQuiet, QuietEnd
<1>4. CASE Expire \/ Crash \/ UNCHANGED vars
  BY <1>4, OtherQuiet, QuietEnd
<1>5. QED
  BY <1>1, <1>2, <1>3, <1>4 DEF Next

\* session.end is published at most once for a start whose end nobody else was at, whatever fails,
\* is retried or lands late (service.py of AGT-03: "prevents a double-call").
THEOREM EndsOnce == Spec => []EndedOnceUnlessRaced
<1>1. Init => TypeInv /\ EndInv
  BY InitType, InitEnd
<1>2. TypeInv /\ EndInv /\ [Next]_vars => TypeInv' /\ EndInv'
  BY NextType, NextEnd
<1>3. TypeInv /\ EndInv => EndedOnceUnlessRaced
  BY NumberTypes DEF EndInv, OneEnd, EndedOnceUnlessRaced
<1>4. QED
  BY <1>1, <1>2, <1>3, PTL DEF Spec

-----------------------------------------------------------------------------
(* Without failures.                                                        *)

\* A call that neither comes to hold a start nor lets a start be unannounced.
Light(b) ==
    \/ op'[b] = op[b]
    \/ /\ op'[b].at \notin EndPoints \/ op'[b].start = 0
       /\ op'[b].at \in TurnPoints /\ op'[b].start # 0 => op[b].at \in TurnPoints /\ op[b].start = op'[b].start
       /\ op'[b].turns = 0
       /\ op[b].at = "emit_start" => op[b].start \in began'

LEMMA LightCalm ==
    ASSUME TypeInv, InOrder, Counting, CountingOwn,
           UNCHANGED <<meta, turns, late, turnsOf, ended, raced>>, began \subseteq began',
           \A b \in Actors : Light(b)
    PROVE  InOrder' /\ Counting' /\ CountingOwn'
<1>1. \A k \in Starts, b \in Actors : Held(b, k)' => Held(b, k) /\ op'[b] = op[b]
  BY NumberTypes DEF Light, Held
<1>2. InOrder'
  <2>1. late' = {}
    BY DEF InOrder
  <2>2. ASSUME NEW b \in Actors, Gone(b)', op'[b].start # 0 PROVE meta' # op'[b].start
    BY <2>2 DEF InOrder, Light, Gone, EndPoints
  <2>3. ASSUME meta' # 0 PROVE Begun(meta)'
    <3>1. Begun(meta)
      BY <2>3 DEF InOrder
    <3>2. CASE meta \in began
      BY <3>2 DEF Begun
    <3>3. ASSUME NEW b \in Actors, op[b].at = "emit_start", op[b].start = meta PROVE Begun(meta)'
      BY <3>3 DEF Begun, Light
    <3>4. QED
      BY <3>1, <3>2, <3>3 DEF Begun
  <2>4. ASSUME NEW k \in Starts, k \notin raced'
        PROVE  (\A b \in Actors : Held(b, k)' => k \in began') /\ (ended'[k] # 0 => k \in began')
    BY <1>1, <2>4 DEF InOrder
  <2>5. QED
    BY <2>1, <2>2, <2>3, <2>4 DEF InOrder
<1>3. Counting'
  <2> SUFFICES ASSUME NEW k \in Starts, k \notin raced'
               PROVE  /\ meta' = k /\ turnsOf'[k] # 0 => turns' # 0
                      /\ \A a \in Actors : op'[a].at \in TurnPoints /\ op'[a].start = k => meta' = k
                      /\ \A a \in Actors : Held(a, k)' /\ op'[a].at \in {"turn_count", "delete_meta"} => meta' = k
                      /\ \A a \in Actors : Held(a, k)' /\ op'[a].at # "turn_count" /\ turnsOf'[k] # 0 => op'[a].turns # 0
    BY DEF Counting
  <2>1. \A a \in Actors : op'[a].at \in TurnPoints /\ op'[a].start = k => op[a].at \in TurnPoints /\ op[a].start = k
    BY NumberTypes DEF Light
  <2>2. QED
    BY <1>1, <2>1 DEF Counting
<1>4. CountingOwn'
  BY DEF CountingOwn, Light
<1>5. QED
  BY <1>2, <1>3, <1>4

\* Messages that are taken up, a turn without a record, and the connections.
LEMMA IdleCalm ==
    ASSUME TypeInv, EndInv, Calm,
           UNCHANGED <<redisVars, late, starts, turnsOf, topicVars, seal, raced>>,
           \A b \in Actors : op'[b] = op[b] \/ (/\ op'[b].at \in {"idle", "get_meta", "end_get_meta"}
                                                /\ op'[b].start = 0 /\ op'[b].turns = 0 /\ op[b].start = 0)
    PROVE  Calm'
<1>0. UNCHANGED <<meta, turns, context, late, starts, turnsOf, began, ended, seal, raced>>
  BY DEF redisVars, topicVars
<1>1. \A b \in Actors : Light(b)
  BY DEF Light, TypeInv, OpStarts, KnowsStart, StartPoints
<1>2. Silence'
  BY <1>0 DEF Calm, Silence, EndPoints
<1>3. QED
  BY <1>0, <1>1, <1>2, LightCalm DEF Calm

\* What speaks shows that no consolidation was quiet.
Speaking(a) == op[a].at \notin {"idle", "get_meta"} \cup EndPoints

LEMMA SpeakingSilence ==
    ASSUME Silence, NEW a \in Actors, Speaking(a), UNCHANGED <<seal, starts>>,
           \A b \in Actors : op'[b].at = "emit_end" => op[b].at = "emit_end"
    PROVE  Silence'
BY DEF Silence, Speaking

\* Entries are appended.
LEMMA AppendCalm ==
    ASSUME TypeInv, EndInv, Calm, NEW a \in Actors, AppendOpening(a) \/ AppendTurn(a)
    PROVE  Calm'
<1>0. UNCHANGED <<meta, turns, late, starts, turnsOf, began, ended, seal, raced>>
  BY DEF AppendOpening, AppendTurn, topicVars
<1>1. PICK p \in {"set_meta", "assistant", "incr"} :
        /\ Proceed(a, p)
        /\ \/ op[a].at = "opening" /\ p = "set_meta"
           \/ op[a].at \in {"user", "assistant"} /\ p \in {"assistant", "incr"}
  BY DEF AppendOpening, AppendTurn
<1>2. p \in Points /\ TypeOK
  BY DEF Points, StartPoints, TurnPoints, TypeInv
<1>3. OnlyOp(a) /\ op'[a].at = p /\ op'[a].start = op[a].start /\ op'[a].turns = op[a].turns
  BY <1>1, <1>2, ProceedShape
<1>4. op[a].turns = 0
  BY <1>1 DEF TypeInv, OpStarts, KnowsStart, EndPoints
<1>5. \A b \in Actors : Light(b)
  BY <1>1, <1>3, <1>4 DEF Light, OnlyOp, TurnPoints, EndPoints
<1>6. Silence'
  <2>1. Speaking(a)
    BY <1>1 DEF Speaking, EndPoints
  <2>2. \A b \in Actors : op'[b].at = "emit_end" => op[b].at = "emit_end"
    BY <1>3, <1>1 DEF OnlyOp
  <2>3. QED
    BY <1>0, <2>1, <2>2, SpeakingSilence DEF Calm
<1>7. QED
  BY <1>0, <1>5, <1>6, LightCalm DEF Calm

LEMMA StartCalm == ASSUME TypeInv, EndInv, Calm, NEW a \in Actors, Start(a) PROVE Calm'
<1>0. UNCHANGED <<meta, turns, context, late, turnsOf, began, ended, seal, raced>> /\ starts' = starts + 1
  BY DEF Start, redisVars, topicVars
<1>1. PICK n \in Starts : n = starts + 1
  BY NumberTypes, TutorSessionAssumption DEF Start, Starts, TutorSessionAssumption
<1>2. OnlyOp(a) /\ op'[a] = [at |-> "opening", start |-> n, turns |-> 0] /\ op[a].at = "idle"
  <2>1. op' = [op EXCEPT ![a] = [at |-> "opening", start |-> n, turns |-> 0]] /\ op[a].at = "idle" /\ TypeOK
    BY <1>1 DEF Start, Begin, Ready, TypeInv
  <2>2. [at |-> "opening", start |-> n, turns |-> 0] \in Ops
    BY TutorSessionAssumption DEF Ops, Points, StartPoints, Starts, TutorSessionAssumption
  <2>3. QED
    BY <2>1, <2>2, MoveShape
<1>3. op'[a].at = "opening" /\ op'[a].start = n /\ op'[a].turns = 0 /\ \A b \in Actors : b # a => op'[b] = op[b]
  BY <1>2 DEF OnlyOp
<1>4. \A b \in Actors : Light(b)
  BY <1>2, <1>3 DEF Light, EndPoints, TurnPoints
<1>5. Silence'
  <2>1. seal.starts \in Nat
    BY DEF TypeInv, TypeOK
  <2>2. seal.done => seal.starts <= starts' /\ starts' # seal.starts
    BY <1>0, <2>1, NumberTypes DEF Calm, Silence
  <2>3. \A b \in Actors : op'[b].at = "emit_end" => op[b].at = "emit_end"
    BY <1>3
  <2>4. QED
    BY <1>0, <2>2, <2>3 DEF Calm, Silence
<1>6. QED
  BY <1>0, <1>4, <1>5, LightCalm DEF Calm

LEMMA EmitStartCalm ==
    ASSUME TypeInv, EndInv, Calm, NEW a \in Actors, EmitStart(a), faults' = faults
    PROVE  Calm'
<1>1. began' = began \cup {op[a].start} /\ UNCHANGED <<meta, turns, context, late, starts, turnsOf, ended, seal, raced>>
  BY FaultType DEF EmitStart, Fault, redisVars, TypeInv, TypeOK
<1>2. OnlyOp(a) /\ op'[a] = IdleOp /\ op[a].at = "emit_start"
  BY IdleShape DEF EmitStart, Return, TypeInv
<1>3. \A b \in Actors : Light(b)
  BY <1>1, <1>2 DEF Light, OnlyOp, IdleOp, EndPoints, TurnPoints
<1>4. Silence'
  <2>1. Speaking(a)
    BY <1>2 DEF Speaking, EndPoints
  <2>2. \A b \in Actors : op'[b].at = "emit_end" => op[b].at = "emit_end"
    BY <1>2 DEF OnlyOp, IdleOp
  <2>3. QED
    BY <1>1, <2>1, <2>2, SpeakingSilence DEF Calm
<1>5. QED
  BY <1>1, <1>3, <1>4, LightCalm DEF Calm

LEMMA SetMetaCalm == ASSUME TypeInv, EndInv, Calm, NEW a \in Actors, SetMeta(a) PROVE Calm'
<1>0. UNCHANGED <<turns, context, late, starts, turnsOf, began, ended, seal>> /\ op[a].at = "set_meta"
  BY DEF SetMeta, topicVars
<1>1. PICK n \in Starts : n = op[a].start
  BY NumberTypes DEF TypeInv, OpStarts, KnowsStart, SetMeta, StartPoints
<1>2. OnlyOp(a) /\ op'[a].at = "emit_start" /\ op'[a].start = n /\ op'[a].turns = op[a].turns
  BY <1>1, ProceedShape DEF SetMeta, TypeInv, Points, StartPoints
<1>3. meta' = n /\ raced' = raced \cup ({meta} \ {0})
  BY <1>1 DEF SetMeta, SetMetaLands
<1>4. Untouched(n)
  BY <1>0, <1>1 DEF Opening, Pending, EndInv, PendingOnce
<1>5. \A b \in Actors : b # a => op'[b] = op[b]
  BY <1>2 DEF OnlyOp
<1>6. \A b \in Actors : op[b].start = n => op[b].at \notin EndPoints \cup TurnPoints
  BY <1>4 DEF Untouched, Opening, EndPoints, TurnPoints
<1>7. \A k \in Starts, b \in Actors : Held(b, k)' => b # a /\ Held(b, k) /\ k # n
  BY <1>2, <1>5, <1>6 DEF Held, EndPoints
<1>8. InOrder'
  <2>1. ASSUME NEW b \in Actors, Gone(b)', op'[b].start # 0 PROVE meta' # op'[b].start
    BY <1>2, <1>3, <1>5, <1>6, <2>1 DEF Gone, EndPoints
  <2>2. Begun(meta)'
    BY <1>2, <1>3 DEF Begun
  <2>3. QED
    BY <1>0, <1>3, <1>7, <2>1, <2>2 DEF Calm, InOrder
<1>9. Counting'
  <2> SUFFICES ASSUME NEW k \in Starts, k \notin raced'
               PROVE  /\ meta' = k /\ turnsOf'[k] # 0 => turns' # 0
                      /\ \A b \in Actors : op'[b].at \in TurnPoints /\ op'[b].start = k => meta' = k
                      /\ \A b \in Actors : Held(b, k)' /\ op'[b].at \in {"turn_count", "delete_meta"} => meta' = k
                      /\ \A b \in Actors : Held(b, k)' /\ op'[b].at # "turn_count" /\ turnsOf'[k] # 0 => op'[b].turns # 0
    BY DEF Counting
  <2>1. k \notin raced /\ meta # k
    BY <1>3, NumberTypes
  <2>2. \A b \in Actors : op'[b].at \in TurnPoints => op[b].at \in TurnPoints /\ op'[b] = op[b]
    BY <1>2, <1>5 DEF TurnPoints
  <2>3. meta' = k => turnsOf'[k] = 0
    BY <1>0, <1>3, <1>4 DEF Untouched
  <2>4. QED
    BY <1>0, <1>5, <1>7, <2>1, <2>2, <2>3 DEF Calm, Counting
<1>10. CountingOwn'
  <2>1. raced' = {} => raced = {} /\ turns = 0
    BY <1>3 DEF Calm, CountingOwn
  <2>2. \A b \in Actors : op'[b].turns = op[b].turns /\ op'[b].start = op[b].start
    BY <1>1, <1>2, <1>5
  <2>3. QED
    BY <1>0, <2>1, <2>2 DEF Calm, CountingOwn
<1>11. Silence'
  <2>1. Speaking(a)
    BY <1>0 DEF Speaking, EndPoints
  <2>2. \A b \in Actors : op'[b].at = "emit_end" => op[b].at = "emit_end"
    BY <1>2, <1>5
  <2>3. QED
    BY <1>0, <2>1, <2>2, SpeakingSilence DEF Calm
<1>12. QED
  BY <1>8, <1>9, <1>10, <1>11 DEF Calm

LEMMA GetMetaCalm == ASSUME TypeInv, EndInv, Calm, NEW a \in Actors, GetMeta(a) PROVE Calm'
<1>0. UNCHANGED <<meta, turns, context, late, starts, turnsOf, began, ended, seal>> /\ raced \subseteq raced' /\ meta # 0
  BY DEF GetMeta, redisVars, topicVars
<1>1. OnlyOp(a) /\ op'[a].at = "user" /\ op'[a].start = meta /\ op'[a].turns = 0 /\ op[a].at = "get_meta"
  <2>1. op' = [op EXCEPT ![a] = [at |-> "user", start |-> meta, turns |-> 0]] /\ op[a].at = "get_meta" /\ TypeOK
    BY DEF GetMeta, TypeInv
  <2>2. [at |-> "user", start |-> meta, turns |-> 0] \in Ops
    BY <2>1, TutorSessionAssumption DEF Ops, Points, TurnPoints, TypeOK, TutorSessionAssumption
  <2>3. OnlyOp(a) /\ op'[a] = [at |-> "user", start |-> meta, turns |-> 0]
    BY <2>1, <2>2, MoveShape
  <2>4. QED
    BY <2>1, <2>3
<1>2. \A b \in Actors : b # a => op'[b] = op[b]
  BY <1>1 DEF OnlyOp
<1>3. \A k \in Starts, b \in Actors : Held(b, k)' => Held(b, k) /\ op'[b] = op[b]
  BY <1>1, <1>2 DEF Held, EndPoints
<1>4. InOrder'
  <2>1. ASSUME NEW b \in Actors, Gone(b)', op'[b].start # 0 PROVE meta' # op'[b].start
    BY <1>0, <1>1, <1>2, <2>1 DEF Gone, Calm, InOrder
  <2>2. Begun(meta)'
    BY <1>0, <1>1, <1>2 DEF Begun, Calm, InOrder
  <2>3. QED
    BY <1>0, <1>3, <2>1, <2>2 DEF Calm, InOrder
<1>5. Counting'
  <2> SUFFICES ASSUME NEW k \in Starts, k \notin raced'
               PROVE  /\ meta' = k /\ turnsOf'[k] # 0 => turns' # 0
                      /\ \A b \in Actors : op'[b].at \in TurnPoints /\ op'[b].start = k => meta' = k
                      /\ \A b \in Actors : Held(b, k)' /\ op'[b].at \in {"turn_count", "delete_meta"} => meta' = k
                      /\ \A b \in Actors : Held(b, k)' /\ op'[b].at # "turn_count" /\ turnsOf'[k] # 0 => op'[b].turns # 0
    BY DEF Counting
  <2>1. \A b \in Actors : op'[b].at \in TurnPoints /\ op'[b].start = k => meta = k
    BY <1>0, <1>1, <1>2 DEF Calm, Counting
  <2>2. QED
    BY <1>0, <1>3, <2>1 DEF Calm, Counting
<1>6. CountingOwn'
  BY <1>0, <1>1, <1>2 DEF Calm, CountingOwn
<1>7. Silence'
  <2>1. \A b \in Actors : op'[b].at = "emit_end" => op[b].at = "emit_end"
    BY <1>1, <1>2
  <2>2. QED
    BY <1>0, <2>1 DEF Calm, Silence
<1>8. QED
  BY <1>4, <1>5, <1>6, <1>7 DEF Calm

LEMMA IncrTurnCalm == ASSUME TypeInv, EndInv, Calm, NEW a \in Actors, IncrTurn(a) PROVE Calm'
<1>0. UNCHANGED <<meta, context, late, starts, began, ended, seal, raced>> /\ op[a].at = "incr"
  BY DEF IncrTurn, topicVars
<1>1. PICK n \in Starts : n = op[a].start
  BY <1>0, NumberTypes DEF TypeInv, OpStarts, KnowsStart
<1>2. turns' = turns + 1 /\ turns' # 0
  BY <1>1, TutorSessionAssumption DEF IncrTurn, IncrLands, TypeInv, TypeOK, TutorSessionAssumption
<1>3. turnsOf'[n] # 0 /\ \A k \in Starts : k # n => turnsOf'[k] = turnsOf[k]
  <2>1. turnsOf' = [turnsOf EXCEPT ![n] = turnsOf[n] + 1] /\ turnsOf \in [Starts -> Nat]
    BY <1>1 DEF IncrTurn, IncrLands, TypeInv, TypeOK
  <2>2. turnsOf'[n] = turnsOf[n] + 1 /\ turnsOf[n] \in Nat
    BY <2>1
  <2>3. QED
    BY <2>1, <2>2
<1>4. OnlyOp(a) /\ op'[a] = IdleOp /\ op'[a].at = "idle" /\ op'[a].turns = 0
  <2>1. OnlyOp(a) /\ op'[a] = IdleOp
    BY IdleShape DEF IncrTurn, Return, TypeInv
  <2>2. QED
    BY <2>1 DEF IdleOp
<1>5. \A b \in Actors : b # a => op'[b] = op[b]
  BY <1>4 DEF OnlyOp
<1>6. \A k \in Starts, b \in Actors : Held(b, k)' => Held(b, k) /\ op'[b] = op[b]
  BY <1>4, <1>5 DEF Held, EndPoints
<1>7. InOrder'
  <2>1. ASSUME NEW b \in Actors, Gone(b)', op'[b].start # 0 PROVE meta' # op'[b].start
    BY <1>0, <1>4, <1>5, <2>1 DEF Gone, Calm, InOrder
  <2>2. meta' # 0 => Begun(meta)'
    BY <1>0, <1>4, <1>5 DEF Begun, Calm, InOrder
  <2>3. QED
    BY <1>0, <1>6, <2>1, <2>2 DEF Calm, InOrder
<1>8. Counting'
  <2> SUFFICES ASSUME NEW k \in Starts, k \notin raced'
               PROVE  /\ meta' = k /\ turnsOf'[k] # 0 => turns' # 0
                      /\ \A b \in Actors : op'[b].at \in TurnPoints /\ op'[b].start = k => meta' = k
                      /\ \A b \in Actors : Held(b, k)' /\ op'[b].at \in {"turn_count", "delete_meta"} => meta' = k
                      /\ \A b \in Actors : Held(b, k)' /\ op'[b].at # "turn_count" /\ turnsOf'[k] # 0 => op'[b].turns # 0
    BY DEF Counting
  <2>1. \A b \in Actors : op'[b].at \in TurnPoints => op'[b] = op[b]
    BY <1>4, <1>5 DEF TurnPoints
  <2>2. k = n => \A b \in Actors : ~Held(b, k)
    BY <1>0, <1>1 DEF EndInv, OneEnd, Held, EndPoints
  <2>3. QED
    BY <1>0, <1>2, <1>3, <1>6, <2>1, <2>2 DEF Calm, Counting
<1>9. CountingOwn'
  <2> SUFFICES ASSUME raced = {}
               PROVE  /\ meta # 0 /\ turnsOf'[meta] # 0
                      /\ \A b \in Actors : op'[b].turns # 0 => turnsOf'[op'[b].start] # 0
                      /\ \A k \in Starts : ended[k] # 0 => turnsOf'[k] # 0
    BY <1>0 DEF CountingOwn
  <2>1. meta = n /\ n # 0
    BY <1>0, <1>1, NumberTypes DEF Calm, Counting, TurnPoints
  <2>2. \A k \in Starts : turnsOf[k] # 0 => turnsOf'[k] # 0
    BY <1>3
  <2>3. \A b \in Actors : op'[b].turns # 0 => op'[b] = op[b] /\ op[b].start \in Starts
    BY <1>4, <1>5, NumberTypes DEF TypeInv, OpStarts, KnowsStart
  <2>4. QED
    BY <1>3, <2>1, <2>2, <2>3 DEF Calm, CountingOwn
<1>10. Silence'
  <2>1. Speaking(a)
    BY <1>0 DEF Speaking, EndPoints
  <2>2. \A b \in Actors : op'[b].at = "emit_end" => op[b].at = "emit_end"
    BY <1>4, <1>5
  <2>3. QED
    BY <1>0, <2>1, <2>2, SpeakingSilence DEF Calm
<1>11. QED
  BY <1>7, <1>8, <1>9, <1>10 DEF Calm

LEMMA EndGetMetaCalm == ASSUME TypeInv, EndInv, Calm, NEW a \in Actors, EndGetMeta(a) PROVE Calm'
<1>0. UNCHANGED <<meta, turns, context, late, starts, turnsOf, began, ended, seal>> /\ raced \subseteq raced'
      /\ op[a].at = "end_get_meta"
  BY DEF EndGetMeta, redisVars, topicVars
<1>1. /\ OnlyOp(a) /\ op'[a].at \in {"delete_meta", "turn_count"} /\ op'[a].start = meta /\ op'[a].turns = 0
      /\ meta # 0 => op'[a].at = "turn_count"
  <2>1. PICK p \in {"delete_meta", "turn_count"} :
          /\ op' = [op EXCEPT ![a] = [at |-> p, start |-> meta, turns |-> 0]]
          /\ meta # 0 => p = "turn_count"
    BY DEF EndGetMeta
  <2>2. [at |-> p, start |-> meta, turns |-> 0] \in Ops /\ TypeOK
    BY DEF Ops, Points, EndPoints, TypeInv, TypeOK
  <2>3. OnlyOp(a) /\ op'[a] = [at |-> p, start |-> meta, turns |-> 0]
    BY <2>1, <2>2, MoveShape
  <2>4. QED
    BY <2>1, <2>3
<1>2. \A b \in Actors : b # a => op'[b] = op[b]
  BY <1>1 DEF OnlyOp
<1>3. \A k \in Starts, b \in Actors : Held(b, k)' => (b = a /\ meta = k) \/ (Held(b, k) /\ op'[b] = op[b])
  BY <1>1, <1>2 DEF Held
<1>4. ASSUME NEW k \in Starts, k \notin raced', meta = k PROVE k \in began
  <2>1. Sharing(a, k) = {}
    BY <1>4, NumberTypes DEF EndGetMeta
  <2>2. \A b \in Actors : ~(op[b].at = "emit_start" /\ op[b].start = k)
    BY <1>0, <2>1 DEF Sharing
  <2>3. QED
    BY <1>4, <2>2, NumberTypes DEF Calm, InOrder, Begun
<1>5. InOrder'
  <2>1. ASSUME NEW b \in Actors, Gone(b)', op'[b].start # 0 PROVE meta' # op'[b].start
    BY <1>0, <1>1, <1>2, <2>1 DEF Gone, Calm, InOrder
  <2>2. meta' # 0 => Begun(meta)'
    BY <1>0, <1>1, <1>2 DEF Begun, Calm, InOrder
  <2>3. ASSUME NEW k \in Starts, k \notin raced'
        PROVE  (\A b \in Actors : Held(b, k)' => k \in began') /\ (ended'[k] # 0 => k \in began')
    BY <1>0, <1>3, <1>4, <2>3 DEF Calm, InOrder
  <2>4. QED
    BY <1>0, <2>1, <2>2, <2>3 DEF Calm, InOrder
<1>6. Counting'
  <2> SUFFICES ASSUME NEW k \in Starts, k \notin raced'
               PROVE  /\ meta' = k /\ turnsOf'[k] # 0 => turns' # 0
                      /\ \A b \in Actors : op'[b].at \in TurnPoints /\ op'[b].start = k => meta' = k
                      /\ \A b \in Actors : Held(b, k)' /\ op'[b].at \in {"turn_count", "delete_meta"} => meta' = k
                      /\ \A b \in Actors : Held(b, k)' /\ op'[b].at # "turn_count" /\ turnsOf'[k] # 0 => op'[b].turns # 0
    BY DEF Counting
  <2>1. \A b \in Actors : op'[b].at \in TurnPoints => op'[b] = op[b]
    BY <1>1, <1>2 DEF TurnPoints
  <2>2. meta = k => op'[a].at = "turn_count"
    BY <1>1, NumberTypes
  <2>3. QED
    BY <1>0, <1>3, <2>1, <2>2 DEF Calm, Counting
<1>7. CountingOwn'
  BY <1>0, <1>1, <1>2 DEF Calm, CountingOwn
<1>8. Silence'
  <2>1. \A b \in Actors : op'[b].at = "emit_end" => op[b].at = "emit_end"
    BY <1>1, <1>2
  <2>2. \A b \in Actors : op'[b].at \in EndPoints \/ op'[b] = op[b]
    BY <1>1, <1>2 DEF EndPoints
  <2>3. QED
    BY <1>0, <2>1, <2>2 DEF Calm, Silence
<1>9. QED
  BY <1>5, <1>6, <1>7, <1>8 DEF Calm

LEMMA GetTurnCountCalm == ASSUME TypeInv, EndInv, Calm, NEW a \in Actors, GetTurnCount(a) PROVE Calm'
<1>0. UNCHANGED <<meta, turns, context, late, starts, turnsOf, began, ended, seal, raced>> /\ op[a].at = "turn_count"
  BY DEF GetTurnCount, redisVars, topicVars
<1>1. PICK n \in Starts : n = op[a].start
  BY <1>0, NumberTypes DEF TypeInv, OpStarts, KnowsStart
<1>2. OnlyOp(a) /\ op'[a].at = "delete_meta" /\ op'[a].start = n /\ op'[a].turns = turns
  <2>1. op' = [op EXCEPT ![a] = [at |-> "delete_meta", start |-> n, turns |-> turns]] /\ TypeOK
    BY <1>1 DEF GetTurnCount, TypeInv
  <2>2. [at |-> "delete_meta", start |-> n, turns |-> turns] \in Ops
    BY <2>1, TutorSessionAssumption DEF Ops, Points, EndPoints, TypeOK, Starts, TutorSessionAssumption
  <2>3. OnlyOp(a) /\ op'[a] = [at |-> "delete_meta", start |-> n, turns |-> turns]
    BY <2>1, <2>2, MoveShape
  <2>4. QED
    BY <2>3
<1>3. \A b \in Actors : b # a => op'[b] = op[b]
  BY <1>2 DEF OnlyOp
<1>4. /\ Held(a, n)
      /\ \A k \in Starts, b \in Actors : Held(b, k)' => Held(b, k) /\ (b = a => k = n) /\ (b # a => op'[b] = op[b])
  BY <1>0, <1>1, <1>2, <1>3 DEF Held, EndPoints
<1>5. InOrder'
  <2>1. ASSUME NEW b \in Actors, Gone(b)', op'[b].start # 0 PROVE meta' # op'[b].start
    BY <1>0, <1>2, <1>3, <2>1 DEF Gone, Calm, InOrder
  <2>2. meta' # 0 => Begun(meta)'
    BY <1>0, <1>2, <1>3 DEF Begun, Calm, InOrder
  <2>3. QED
    BY <1>0, <1>4, <2>1, <2>2 DEF Calm, InOrder
<1>6. Counting'
  <2> SUFFICES ASSUME NEW k \in Starts, k \notin raced'
               PROVE  /\ meta' = k /\ turnsOf'[k] # 0 => turns' # 0
                      /\ \A b \in Actors : op'[b].at \in TurnPoints /\ op'[b].start = k => meta' = k
                      /\ \A b \in Actors : Held(b, k)' /\ op'[b].at \in {"turn_count", "delete_meta"} => meta' = k
                      /\ \A b \in Actors : Held(b, k)' /\ op'[b].at # "turn_count" /\ turnsOf'[k] # 0 => op'[b].turns # 0
    BY DEF Counting
  <2>1. \A b \in Actors : op'[b].at \in TurnPoints => op'[b] = op[b]
    BY <1>2, <1>3 DEF TurnPoints
  <2>2. k = n => meta = k /\ (turnsOf[k] # 0 => op'[a].turns # 0)
    BY <1>0, <1>2, <1>4 DEF Calm, Counting
  <2>3. QED
    BY <1>0, <1>4, <2>1, <2>2 DEF Calm, Counting
<1>7. CountingOwn'
  <2>1. raced = {} => meta = n
    BY <1>0, <1>4 DEF Calm, Counting
  <2>2. raced = {} /\ op'[a].turns # 0 => turnsOf[n] # 0
    BY <1>2, <2>1 DEF Calm, CountingOwn
  <2>3. QED
    BY <1>0, <1>2, <1>3, <2>2 DEF Calm, CountingOwn
<1>8. Silence'
  <2>1. \A b \in Actors : op'[b].at = "emit_end" => op[b].at = "emit_end"
    BY <1>2, <1>3
  <2>2. \A b \in Actors : op'[b].at \in EndPoints \/ op'[b] = op[b]
    BY <1>2, <1>3 DEF EndPoints
  <2>3. QED
    BY <1>0, <2>1, <2>2 DEF Calm, Silence
<1>9. QED
  BY <1>5, <1>6, <1>7, <1>8 DEF Calm

LEMMA DeleteMetaCalm == ASSUME TypeInv, EndInv, Calm, NEW a \in Actors, DeleteMeta(a) PROVE Calm'
<1>0. UNCHANGED <<context, late, starts, turnsOf, began, ended, seal>> /\ op[a].at = "delete_meta"
      /\ meta' = 0 /\ turns' = 0 /\ raced' = raced \cup ({meta} \ {0, op[a].start})
  BY DEF DeleteMeta, DeleteMetaLands, topicVars
<1>1. OnlyOp(a) /\ op'[a].at = "consolidate" /\ op'[a].start = op[a].start /\ op'[a].turns = op[a].turns
  BY ProceedShape DEF DeleteMeta, TypeInv, Points, EndPoints
<1>2. \A b \in Actors : b # a => op'[b] = op[b]
  BY <1>1 DEF OnlyOp
<1>3. \A k \in Starts, b \in Actors : Held(b, k)' => Held(b, k)
  BY <1>0, <1>1, <1>2 DEF Held, EndPoints
<1>4. ASSUME NEW k \in Starts, k \notin raced', meta = k
      PROVE  k \notin raced /\ Held(a, k) /\ \A b \in Actors : op[b].start = k => b = a
  <2>1. k \notin raced /\ Held(a, k)
    BY <1>0, <1>4, NumberTypes DEF Held, EndPoints
  <2>2. QED
    BY <2>1 DEF EndInv, OneEnd
<1>5. InOrder'
  <2>1. \A k \in Starts : k \notin raced' => k \notin raced
    BY <1>0
  <2>2. QED
    BY <1>0, <1>3, <2>1 DEF Calm, InOrder
<1>6. Counting'
  <2> SUFFICES ASSUME NEW k \in Starts, k \notin raced'
               PROVE  /\ meta' # k
                      /\ \A b \in Actors : ~(op'[b].at \in TurnPoints /\ op'[b].start = k)
                      /\ \A b \in Actors : ~(Held(b, k)' /\ op'[b].at \in {"turn_count", "delete_meta"})
                      /\ \A b \in Actors : Held(b, k)' /\ op'[b].at # "turn_count" /\ turnsOf'[k] # 0 => op'[b].turns # 0
    BY DEF Counting
  <2>1. k \notin raced /\ meta' # k
    BY <1>0, NumberTypes
  <2>2. ASSUME NEW b \in Actors, op'[b].at \in TurnPoints, op'[b].start = k PROVE FALSE
    <3>1. b # a /\ op'[b] = op[b]
      BY <1>1, <1>2, <2>2 DEF TurnPoints
    <3>2. meta = k
      BY <2>1, <2>2, <3>1 DEF Calm, Counting
    <3>3. QED
      BY <1>4, <2>2, <3>1, <3>2
  <2>3. ASSUME NEW b \in Actors, Held(b, k)', op'[b].at \in {"turn_count", "delete_meta"} PROVE FALSE
    <3>1. b # a /\ op'[b] = op[b]
      BY <1>1, <1>2, <2>3
    <3>2. Held(b, k) /\ op[b].start = k
      BY <1>3, <2>3, <3>1 DEF Held
    <3>3. meta = k
      BY <2>1, <2>3, <3>1, <3>2 DEF Calm, Counting
    <3>4. QED
      BY <1>4, <3>1, <3>2, <3>3
  <2>4. ASSUME NEW b \in Actors, Held(b, k)', op'[b].at # "turn_count", turnsOf'[k] # 0 PROVE op'[b].turns # 0
    <3>1. Held(b, k) /\ op[b].at # "turn_count" /\ op'[b].turns = op[b].turns
      BY <1>0, <1>1, <1>2, <1>3, <2>4
    <3>2. QED
      BY <1>0, <2>1, <2>4, <3>1 DEF Calm, Counting
  <2>5. QED
    BY <2>1, <2>2, <2>3, <2>4
<1>7. CountingOwn'
  <2>1. raced' = {} => raced = {}
    BY <1>0
  <2>2. \A b \in Actors : op'[b].turns = op[b].turns /\ op'[b].start = op[b].start
    BY <1>1, <1>2
  <2>3. QED
    BY <1>0, <2>1, <2>2 DEF Calm, CountingOwn
<1>8. Silence'
  <2>1. \A b \in Actors : op'[b].at = "emit_end" => op[b].at = "emit_end"
    BY <1>1, <1>2
  <2>2. \A b \in Actors : op'[b].at \in EndPoints \/ op'[b] = op[b]
    BY <1>1, <1>2 DEF EndPoints
  <2>3. QED
    BY <1>0, <2>1, <2>2 DEF Calm, Silence
<1>9. QED
  BY <1>5, <1>6, <1>7, <1>8 DEF Calm

LEMMA ConsolidateCalm == ASSUME TypeInv, EndInv, Calm, NEW a \in Actors, Consolidate(a) PROVE Calm'
<1>0. UNCHANGED <<meta, turns, context, late, starts, turnsOf, began, ended, raced>> /\ op[a].at = "consolidate"
  BY DEF Consolidate, redisVars, topicVars
<1>1. OnlyOp(a) /\ op'[a].at = "emit_end" /\ op'[a].start = op[a].start /\ op'[a].turns = op[a].turns
  BY ProceedShape DEF Consolidate, TypeInv, Points, EndPoints
<1>2. \A b \in Actors : b # a => op'[b] = op[b]
  BY <1>1 DEF OnlyOp
<1>3. \A k \in Starts, b \in Actors : (Held(b, k)' <=> Held(b, k)) /\ (Gone(b)' <=> Gone(b))
                                      /\ op'[b].start = op[b].start /\ op'[b].turns = op[b].turns
  BY <1>0, <1>1, <1>2 DEF Held, Gone, EndPoints
<1>4. InOrder'
  <2>1. ASSUME NEW b \in Actors, Gone(b)', op'[b].start # 0 PROVE meta' # op'[b].start
    BY <1>0, <1>1, <1>2, <2>1 DEF Gone, Calm, InOrder
  <2>2. meta' # 0 => Begun(meta)'
    BY <1>0, <1>1, <1>2 DEF Begun, Calm, InOrder
  <2>3. QED
    BY <1>0, <1>3, <2>1, <2>2 DEF Calm, InOrder
<1>5. Counting'
  <2> SUFFICES ASSUME NEW k \in Starts, k \notin raced'
               PROVE  /\ meta' = k /\ turnsOf'[k] # 0 => turns' # 0
                      /\ \A b \in Actors : op'[b].at \in TurnPoints /\ op'[b].start = k => meta' = k
                      /\ \A b \in Actors : Held(b, k)' /\ op'[b].at \in {"turn_count", "delete_meta"} => meta' = k
                      /\ \A b \in Actors : Held(b, k)' /\ op'[b].at # "turn_count" /\ turnsOf'[k] # 0 => op'[b].turns # 0
    BY DEF Counting
  <2>1. \A b \in Actors : op'[b].at \in TurnPoints => op'[b] = op[b]
    BY <1>1, <1>2 DEF TurnPoints
  <2>2. \A b \in Actors : op'[b].at = op[b].at \/ (op[b].at = "consolidate" /\ op'[b].at = "emit_end")
    BY <1>0, <1>1, <1>2
  <2>3. QED
    BY <1>0, <1>3, <2>1, <2>2 DEF Calm, Counting
<1>6. CountingOwn'
  BY <1>0, <1>1, <1>2 DEF Calm, CountingOwn
<1>7. Silence'
  <2>1. \A b \in Actors : op'[b].at \in EndPoints \/ op'[b] = op[b]
    BY <1>1, <1>2 DEF EndPoints
  <2>2. CASE seal.done
    <3>1. seal' = seal
      BY <2>2 DEF Consolidate, ConsolidateLands
    <3>2. QED
      BY <1>0, <2>1, <2>2, <3>1 DEF Calm, Silence
  <2>3. CASE ~seal.done
    <3> DEFINE q == (\A b \in Actors \ {a} : op[b].at = "idle") /\ meta \in {0, op[a].start}
    <3>1. seal' = [done |-> TRUE, context |-> context, starts |-> starts, quiet |-> q]
      BY <2>3 DEF Consolidate, ConsolidateLands
    <3>2. seal'.quiet = q
      BY <3>1, Zenon
    <3>3. seal'.done /\ seal'.starts = starts /\ seal'.context = context
      BY <3>1, Zenon
    <3>4. q => meta = 0 /\ \A b \in Actors : b # a => op[b].at = "idle"
      BY <1>0 DEF Calm, InOrder, Gone
    <3> HIDE DEF q
    <3>5. seal'.quiet => meta' = 0 /\ \A b \in Actors : op'[b].at \in {"idle", "get_meta"} \cup EndPoints
      BY <1>0, <1>1, <1>2, <3>2, <3>4 DEF EndPoints
    <3>6. starts \in Nat
      BY NumberTypes
    <3>7. QED
      BY <1>0, <3>3, <3>5, <3>6 DEF Silence
  <2>4. QED
    BY <2>2, <2>3
<1>8. QED
  BY <1>4, <1>5, <1>6, <1>7 DEF Calm

LEMMA EmitEndCalm ==
    ASSUME TypeInv, EndInv, Calm, NEW a \in Actors, EmitEnd(a), faults' = faults
    PROVE  Calm'
<1>0. UNCHANGED <<meta, turns, context, late, starts, turnsOf, began, seal, raced>> /\ op[a].at = "emit_end"
  BY DEF EmitEnd, redisVars
<1>1. OnlyOp(a) /\ op'[a].at = "idle" /\ op'[a].start = 0 /\ op'[a].turns = 0
  BY CloseShape DEF TypeInv, EmitEnd, IdleOp
<1>2. \A b \in Actors : b # a => op'[b] = op[b]
  BY <1>1 DEF OnlyOp
<1>3. \A k \in Starts, b \in Actors : Held(b, k)' => Held(b, k) /\ op'[b] = op[b]
  BY <1>1, <1>2 DEF Held, EndPoints
<1>4. ASSUME NEW k \in Starts, ended'[k] # ended[k] PROVE Held(a, k) /\ op[a].turns # 0
  BY <1>0, <1>4, NumberTypes DEF EmitEnd, Held, EndPoints, TypeInv, TypeOK
<1>5. InOrder'
  <2>1. ASSUME NEW b \in Actors, Gone(b)', op'[b].start # 0 PROVE meta' # op'[b].start
    BY <1>0, <1>1, <1>2, <2>1 DEF Gone, Calm, InOrder
  <2>2. meta' # 0 => Begun(meta)'
    BY <1>0, <1>1, <1>2 DEF Begun, Calm, InOrder
  <2>3. ASSUME NEW k \in Starts, k \notin raced'
        PROVE  (\A b \in Actors : Held(b, k)' => k \in began') /\ (ended'[k] # 0 => k \in began')
    BY <1>0, <1>3, <1>4, <2>3 DEF Calm, InOrder
  <2>4. QED
    BY <1>0, <2>1, <2>2, <2>3 DEF Calm, InOrder
<1>6. Counting'
  <2> SUFFICES ASSUME NEW k \in Starts, k \notin raced'
               PROVE  /\ meta' = k /\ turnsOf'[k] # 0 => turns' # 0
                      /\ \A b \in Actors : op'[b].at \in TurnPoints /\ op'[b].start = k => meta' = k
                      /\ \A b \in Actors : Held(b, k)' /\ op'[b].at \in {"turn_count", "delete_meta"} => meta' = k
                      /\ \A b \in Actors : Held(b, k)' /\ op'[b].at # "turn_count" /\ turnsOf'[k] # 0 => op'[b].turns # 0
    BY DEF Counting
  <2>1. \A b \in Actors : op'[b].at \in TurnPoints => op'[b] = op[b]
    BY <1>1, <1>2 DEF TurnPoints
  <2>2. QED
    BY <1>0, <1>3, <2>1 DEF Calm, Counting
<1>7. CountingOwn'
  <2> SUFFICES ASSUME raced = {}
               PROVE  /\ turns # 0 => meta # 0 /\ turnsOf[meta] # 0
                      /\ \A b \in Actors : op'[b].turns # 0 => turnsOf[op'[b].start] # 0
                      /\ \A k \in Starts : ended'[k] # 0 => turnsOf[k] # 0
    BY <1>0 DEF CountingOwn
  <2>1. \A k \in Starts : ended'[k] # 0 => turnsOf[k] # 0
    BY <1>4 DEF Calm, CountingOwn, Held
  <2>2. QED
    BY <1>1, <1>2, <2>1 DEF Calm, CountingOwn
<1>8. Silence'
  BY <1>0, <1>1, <1>2 DEF Calm, Silence
<1>9. QED
  BY <1>5, <1>6, <1>7, <1>8 DEF Calm

LEMMA InitCalm == Init => Calm
<1> SUFFICES ASSUME Init PROVE Calm
  OBVIOUS
<1>1. /\ meta = 0 /\ turns = 0 /\ late = {} /\ ~seal.done
      /\ \A a \in Actors : op[a].at = "idle" /\ op[a].start = 0 /\ op[a].turns = 0
      /\ \A k \in Starts : ended[k] = 0 /\ turnsOf[k] = 0 /\ k # 0
  BY TutorSessionAssumption DEF Init, IdleOp, Starts, Unsealed, TutorSessionAssumption
<1>2. InOrder
  BY <1>1 DEF InOrder, Gone, Held, EndPoints
<1>3. Counting /\ CountingOwn
  BY <1>1 DEF Counting, CountingOwn, Held, EndPoints, TurnPoints
<1>4. Silence
  BY <1>1 DEF Silence
<1>5. QED
  BY <1>2, <1>3, <1>4 DEF Calm

\* A step without a failure, from a state without one.
LEMMA CalmStep ==
    ASSUME TypeInv, EndInv, Calm, [Next]_vars, faults = 0, faults' = 0
    PROVE  Calm'
<1>1. ~Fault
  BY DEF Fault
<1>2. ASSUME NEW a \in Actors,
             Start(a) \/ Turn(a) \/ End(a) \/ Step(a) \/ CallFails(a) \/ CallIgnored(a) \/ TimesOut(a)
      PROVE  Calm'
  <2>1. CASE Turn(a) \/ End(a) \/ GetMetaNone(a)
    <3>1. UNCHANGED <<redisVars, late, starts, turnsOf, topicVars, seal, raced>>
      BY <2>1 DEF Turn, End, GetMetaNone
    <3>2. op[a].start = 0
      BY <2>1 DEF Turn, End, GetMetaNone, Ready, TypeInv, OpStarts, KnowsStart
    <3>3. PICK p \in {"idle", "get_meta", "end_get_meta"} : OnlyOp(a) /\ op'[a] = [at |-> p, start |-> 0, turns |-> 0]
      <4>1. CASE GetMetaNone(a)
        BY <4>1, RaiseShape DEF GetMetaNone, TypeInv, IdleOp
      <4>2. CASE Turn(a) \/ End(a)
        <5>1. PICK p \in {"get_meta", "end_get_meta"} : op' = [op EXCEPT ![a] = [at |-> p, start |-> 0, turns |-> 0]]
          BY <4>2 DEF Turn, End, Begin
        <5>2. [at |-> p, start |-> 0, turns |-> 0] \in Ops
          BY TutorSessionAssumption DEF Ops, Points, TurnPoints, EndPoints, TutorSessionAssumption
        <5>3. QED
          BY <5>1, <5>2, MoveShape DEF TypeInv
      <4>3. QED
        BY <2>1, <4>1, <4>2
    <3>4. \A b \in Actors : op'[b] = op[b] \/ (/\ op'[b].at \in {"idle", "get_meta", "end_get_meta"}
                                               /\ op'[b].start = 0 /\ op'[b].turns = 0 /\ op[b].start = 0)
      BY <3>2, <3>3 DEF OnlyOp
    <3>5. QED
      BY <3>1, <3>4, IdleCalm
  <2>2. CASE ~(Turn(a) \/ End(a) \/ GetMetaNone(a))
    BY <1>1, <1>2, <2>2, StartCalm, AppendCalm, SetMetaCalm, EmitStartCalm, GetMetaCalm, IncrTurnCalm, EndGetMetaCalm,
       GetTurnCountCalm, DeleteMetaCalm, ConsolidateCalm, EmitEndCalm
       DEF Step, CallFails, CallIgnored, TimesOut, Abandon
  <2>3. QED
    BY <2>1, <2>2
<1>3. ASSUME NEW w \in Sockets, HangUp(w) \/ Disconnect(w) \/ Finally(w)
      PROVE  Calm'
  <2>1. UNCHANGED <<redisVars, late, starts, turnsOf, topicVars, seal, raced>>
    BY <1>3 DEF HangUp, Disconnect, Finally
  <2>2. w \in Actors /\ TypeOK /\ (op[w].at = "idle" \/ UNCHANGED op)
    BY <1>3 DEF HangUp, Disconnect, Finally, Actors, TypeInv
  <2>3. UNCHANGED op \/ op' = [op EXCEPT ![w] = [at |-> "end_get_meta", start |-> 0, turns |-> 0]]
    BY <1>3 DEF HangUp, Disconnect, Finally, Begin
  <2>4. [at |-> "end_get_meta", start |-> 0, turns |-> 0] \in Ops
    BY TutorSessionAssumption DEF Ops, Points, EndPoints, TutorSessionAssumption
  <2>5. UNCHANGED op \/ (OnlyOp(w) /\ op'[w] = [at |-> "end_get_meta", start |-> 0, turns |-> 0] /\ op[w].start = 0)
    BY <2>2, <2>3, <2>4, MoveShape DEF TypeInv, OpStarts, KnowsStart
  <2>6. \A b \in Actors : op'[b] = op[b] \/ (/\ op'[b].at \in {"idle", "get_meta", "end_get_meta"}
                                             /\ op'[b].start = 0 /\ op'[b].turns = 0 /\ op[b].start = 0)
    BY <2>5 DEF OnlyOp
  <2>7. QED
    BY <2>1, <2>6, IdleCalm
<1>4. CASE \E r \in late : LateLands(r)
  BY <1>4 DEF Calm, InOrder
<1>5. CASE UNCHANGED vars
  BY <1>5, IdleCalm DEF vars, redisVars, actorVars, topicVars
<1>6. QED
  BY <1>1, <1>2, <1>3, <1>4, <1>5 DEF Next, Expire, Crash

-----------------------------------------------------------------------------
(* The finally block.                                                       *)

\* Who comes out of a call whose finally block ends it is no longer in the finally block.
LEMMA CleanupNext == TypeInv /\ CleanupEnds /\ [Next]_vars => CleanupEnds'
<1> SUFFICES ASSUME TypeInv, CleanupEnds, [Next]_vars PROVE CleanupEnds'
  OBVIOUS
<1>0. TypeOK /\ conn \in [Actors -> Connections]
  BY DEF TypeInv, TypeOK
<1>1. ASSUME NEW a \in Actors, OnlyOp(a), ConnKept, op'[a].at \in EndPoints \/ conn'[a] # "cleanup"
      PROVE  CleanupEnds'
  BY <1>1 DEF CleanupEnds, OnlyOp, ConnKept
<1>2. ASSUME NEW a \in Actors, Raise(a) PROVE OnlyOp(a) /\ ConnKept /\ conn'[a] # "cleanup"
  <2>1. OnlyOp(a) /\ ConnKept
    BY <1>0, <1>2, RaiseShape
  <2>2. CASE conn[a] = "cleanup"
    BY <1>0, <1>2, <2>1, <2>2 DEF Raise, Close, CleanupEnds
  <2>3. CASE conn[a] # "cleanup"
    BY <1>2, <2>1, <2>3 DEF Raise, Return
  <2>4. QED
    BY <2>1, <2>2, <2>3
<1>3. ASSUME NEW a \in Actors, NEW p \in Points, Proceed(a, p), conn[a] = "cleanup" => p \in EndPoints
      PROVE  CleanupEnds'
  <2>1. OnlyOp(a) /\ ConnKept /\ op'[a].at = p /\ UNCHANGED conn
    BY <1>0, <1>3, ProceedShape DEF Proceed
  <2>2. QED
    BY <1>1, <1>3, <2>1
<1>4. ASSUME NEW a \in Actors,
             Start(a) \/ Turn(a) \/ End(a) \/ Step(a) \/ CallFails(a) \/ CallIgnored(a) \/ TimesOut(a)
      PROVE  CleanupEnds'
  <2>1. CASE Start(a) \/ Turn(a) \/ End(a) \/ GetMeta(a) \/ EmitStart(a) \/ IncrTurn(a)
    <3>1. conn[a] # "cleanup" /\ UNCHANGED conn
      BY <2>1 DEF Start, Turn, End, GetMeta, EmitStart, IncrTurn, Ready, Return, CleanupEnds, EndPoints
    <3>2. PICK o : op' = [op EXCEPT ![a] = o]
      BY <2>1 DEF Start, Turn, End, GetMeta, EmitStart, IncrTurn, Begin, Return
    <3>3. \A b \in Actors : b # a => op'[b] = op[b]
      BY <1>0, <3>2 DEF TypeOK
    <3>4. QED
      BY <3>1, <3>3 DEF CleanupEnds
  <2>2. CASE AppendOpening(a) \/ SetMeta(a) \/ AppendTurn(a) \/ DeleteMeta(a) \/ Consolidate(a) \/ CallIgnored(a)
    <3>1. PICK p \in {"set_meta", "emit_start", "assistant", "incr", "consolidate", "emit_end"} :
            /\ Proceed(a, p)
            /\ op[a].at \in EndPoints => p \in EndPoints
      BY <2>2 DEF AppendOpening, SetMeta, AppendTurn, DeleteMeta, Consolidate, CallIgnored, EndPoints
    <3>2. p \in Points /\ (conn[a] = "cleanup" => p \in EndPoints)
      BY <3>1 DEF Points, StartPoints, TurnPoints, EndPoints, CleanupEnds
    <3>3. QED
      BY <1>3, <3>1, <3>2
  <2>3. CASE EndGetMeta(a) \/ GetTurnCount(a)
    <3>1. PICK p \in {"delete_meta", "turn_count"}, k \in 0 .. MaxStarts, n \in Nat :
            op' = [op EXCEPT ![a] = [at |-> p, start |-> k, turns |-> n]]
      BY <1>0, <2>3, TutorSessionAssumption DEF EndGetMeta, GetTurnCount, TypeOK, Ops, TutorSessionAssumption
    <3>2. [at |-> p, start |-> k, turns |-> n] \in Ops
      BY DEF Ops, Points, EndPoints
    <3>3. OnlyOp(a) /\ op'[a] = [at |-> p, start |-> k, turns |-> n]
      BY <1>0, <3>1, <3>2, MoveShape
    <3>4. op'[a].at \in EndPoints /\ UNCHANGED conn
      BY <2>3, <3>3 DEF EndPoints, EndGetMeta, GetTurnCount
    <3>5. QED
      BY <3>3, <3>4 DEF CleanupEnds, OnlyOp
  <2>4. CASE EmitEnd(a)
    <3>1. OnlyOp(a) /\ ConnKept
      BY <1>0, <2>4, CloseShape DEF EmitEnd
    <3>2. conn'[a] # "cleanup"
      BY <1>0, <2>4 DEF EmitEnd, Close, CleanupEnds
    <3>3. QED
      BY <1>1, <3>1, <3>2
  <2>5. CASE GetMetaNone(a) \/ CallFails(a)
    <3>1. Raise(a)
      BY <2>5 DEF GetMetaNone, CallFails
    <3>2. QED
      BY <1>1, <1>2, <3>1
  <2>6. CASE TimesOut(a)
    <3>1. CASE Raise(a)
      BY <1>1, <1>2, <3>1
    <3>2. CASE ~Raise(a)
      <4>1. PICK p \in {"set_meta", "assistant", "incr", "emit_end"} :
              /\ Proceed(a, p)
              /\ op[a].at \in EndPoints => p \in EndPoints
        BY <2>6, <3>2 DEF TimesOut, EndPoints
      <4>2. p \in Points /\ (conn[a] = "cleanup" => p \in EndPoints)
        BY <4>1 DEF Points, StartPoints, TurnPoints, EndPoints, CleanupEnds
      <4>3. QED
        BY <1>3, <4>1, <4>2
    <3>3. QED
      BY <3>1, <3>2
  <2>7. QED
    BY <1>4, <2>1, <2>2, <2>3, <2>4, <2>5, <2>6 DEF Step
<1>5. ASSUME NEW w \in Sockets, HangUp(w) \/ Disconnect(w) \/ Finally(w) PROVE CleanupEnds'
  <2>1. w \in Actors /\ op \in [Actors -> Ops]
    BY <1>0 DEF Actors, TypeOK
  <2>2. CASE UNCHANGED op
    <3>1. conn' \in {[conn EXCEPT ![w] = "closed"], [conn EXCEPT ![w] = "gone"]} \/ Finally(w)
      BY <1>5 DEF HangUp, Disconnect
    <3>2. CASE conn' \in {[conn EXCEPT ![w] = "closed"], [conn EXCEPT ![w] = "gone"]}
      BY <1>0, <2>1, <2>2, <3>2 DEF CleanupEnds
    <3>3. CASE Finally(w) /\ conn' # [conn EXCEPT ![w] = "closed"]
      <4>1. op' = [op EXCEPT ![w] = [at |-> "end_get_meta", start |-> 0, turns |-> 0]] /\ op[w].at = "idle"
        BY <3>3 DEF Finally, Begin
      <4>2. QED
        BY <2>1, <2>2, <4>1
    <3>4. QED
      BY <3>1, <3>2, <3>3
  <2>3. CASE op' # op
    <3>1. op' = [op EXCEPT ![w] = [at |-> "end_get_meta", start |-> 0, turns |-> 0]]
          /\ conn' = [conn EXCEPT ![w] = "cleanup"]
      BY <1>5, <2>3 DEF HangUp, Disconnect, Finally, Begin
    <3>2. op'[w].at = "end_get_meta" /\ \A b \in Actors : b # w => op'[b] = op[b] /\ conn'[b] = conn[b]
      BY <1>0, <2>1, <3>1
    <3>3. QED
      BY <3>2 DEF CleanupEnds, EndPoints
  <2>4. QED
    BY <2>2, <2>3
<1>6. CASE \E r \in late : LateLands(r)
  BY <1>6 DEF LateLands, actorVars, CleanupEnds
<1>7. CASE Expire \/ UNCHANGED vars
  BY <1>7 DEF Expire, vars, actorVars, CleanupEnds
<1>8. CASE Crash
  BY <1>0, <1>8 DEF Crash, CleanupEnds, IdleOp
<1>9. QED
  BY <1>4, <1>5, <1>6, <1>7, <1>8 DEF Next

LEMMA InitSession == Init => SessionInv
<1>1. Init => CleanupEnds
  BY DEF Init, CleanupEnds
<1>2. QED
  BY <1>1, InitType, InitEnd, InitCalm DEF SessionInv, CalmInv

LEMMA FaultsCount == ASSUME TypeInv, [Next]_vars, faults' = 0 PROVE faults = 0 /\ ~Fault
<1>1. faults \in Nat
  BY TutorSessionAssumption DEF TypeInv, TypeOK, TutorSessionAssumption
<1>2. UNCHANGED faults \/ faults' = faults + 1
  BY DEF Next, Step, Start, AppendOpening, SetMeta, EmitStart, Turn, GetMeta, GetMetaNone, AppendTurn, IncrTurn, End,
         EndGetMeta, GetTurnCount, DeleteMeta, Consolidate, EmitEnd, HangUp, Disconnect, Finally, CallFails,
         CallIgnored, TimesOut, Abandon, LateLands, Expire, Crash, Fault, vars
<1>3. QED
  BY <1>1, <1>2 DEF Fault

LEMMA NextSession == SessionInv /\ [Next]_vars => SessionInv'
<1> SUFFICES ASSUME SessionInv, [Next]_vars PROVE SessionInv'
  OBVIOUS
<1>1. TypeInv' /\ EndInv' /\ CleanupEnds'
  BY NextType, NextEnd, CleanupNext DEF SessionInv
<1>2. faults' = 0 => faults = 0
  BY FaultsCount DEF SessionInv
<1>3. CalmInv'
  BY <1>2, CalmStep DEF SessionInv, CalmInv
<1>4. QED
  BY <1>1, <1>3 DEF SessionInv

LEMMA SessionInvariant == Spec => []SessionInv
BY InitSession, NextSession, PTL DEF Spec

\* Without failures session.end follows session.start, and tells of a session that had a turn: the
\* counter that outlives the calls that feed it is the one of the start that is ended.
THEOREM EndsForReal == Spec => []EndedForReal
<1>1. SessionInv => EndedForReal
  <2> SUFFICES ASSUME SessionInv, faults = 0
               PROVE  /\ \A k \in Starts \ raced : ended[k] > 0 => k \in began
                      /\ raced = {} => \A k \in Starts : ended[k] > 0 => turnsOf[k] > 0
    BY DEF EndedForReal
  <2>1. \A k \in Starts : ended[k] \in Nat /\ turnsOf[k] \in Nat
    BY NumberTypes DEF SessionInv
  <2>2. QED
    BY <2>1 DEF SessionInv, CalmInv, Calm, InOrder, CountingOwn
<1>2. QED
  BY <1>1, SessionInvariant, PTL

\* What the consolidation of a quiet session read is all of its context.
THEOREM NothingFollows == Spec => []NothingAfterEnd
<1>1. SessionInv => NothingAfterEnd
  BY DEF SessionInv, CalmInv, Calm, Silence, NothingAfterEnd
<1>2. QED
  BY <1>1, SessionInvariant, PTL

\* The finally block of a lost connection has ended the session before the handler is done.
THEOREM DisconnectsCloseOut == Spec => DisconnectClosesOut
<1>1. SessionInv /\ [Next]_vars => [\A w \in Sockets : ClosesOut(w)]_vars
  <2> SUFFICES ASSUME SessionInv, Next, NEW w \in Sockets,
                      started[w], conn[w] # "closed", conn'[w] = "closed", faults' = 0
               PROVE  LET k == op[w].start IN
                      /\ seal.done
                      /\ k # 0 => meta' # k /\ (turnsOf[k] > 0 => ended'[k] > 0 \/ k \in raced)
    BY DEF ClosesOut
  <2>1. faults = 0 /\ ~Fault
    BY FaultsCount DEF SessionInv
  <2>2. Calm /\ conn \in [Actors -> Connections] /\ w \in Actors
    BY <2>1 DEF SessionInv, CalmInv, TypeInv, TypeOK, Actors
  <2>3. EmitEnd(w)
    <3>1. ASSUME NEW a \in Actors, Raise(a) PROVE conn[a] = "cleanup" /\ a = w
      BY <2>2, <3>1 DEF Raise, Close, Return
    <3>2. ASSUME NEW a \in Actors, GetMetaNone(a) PROVE FALSE
      BY <3>1, <3>2 DEF GetMetaNone, SessionInv, CleanupEnds, EndPoints
    <3>3. ASSUME NEW a \in Actors, EmitEnd(a) PROVE a = w
      BY <2>2, <3>3 DEF EmitEnd, Close
    <3>4. ASSUME NEW v \in Sockets, HangUp(v) \/ Disconnect(v) \/ Finally(v) PROVE FALSE
      BY <2>2, <3>4 DEF HangUp, Disconnect, Finally, Actors
    <3>5. late = {}
      BY <2>2 DEF Calm, InOrder
    <3>6. QED
      BY <2>1, <3>2, <3>3, <3>4, <3>5
         DEF Next, Step, Start, AppendOpening, SetMeta, EmitStart, Turn, GetMeta, AppendTurn, IncrTurn, End,
             EndGetMeta, GetTurnCount, DeleteMeta, Consolidate, CallFails, CallIgnored, TimesOut, Abandon,
             Expire, Crash, Proceed, Return
  <2>4. op[w].at = "emit_end" /\ meta' = meta
    BY <2>3 DEF EmitEnd, redisVars
  <2>5. seal.done
    BY <2>2, <2>4 DEF Calm, Silence
  <2>6. ASSUME NEW k \in Starts, k = op[w].start PROVE meta' # k /\ (turnsOf[k] > 0 => ended'[k] > 0 \/ k \in raced)
    <3>1. meta' # k
      BY <2>2, <2>4, <2>6, NumberTypes DEF Calm, InOrder, Gone, SessionInv
    <3>2. ASSUME turnsOf[k] > 0, k \notin raced PROVE ended'[k] > 0
      <4>1. op[w].turns # 0 /\ op[w].turns \in Nat /\ k # 0
        <5>1. Held(w, k) /\ op[w].at # "turn_count" /\ turnsOf[k] # 0
          BY <2>4, <2>6, <3>2, NumberTypes DEF Held, EndPoints, SessionInv
        <5>2. QED
          BY <2>2, <2>6, <3>2, <5>1, NumberTypes DEF Calm, Counting, SessionInv
      <4>2. ended' = [ended EXCEPT ![k] = ended[k] + 1]
        BY <2>1, <2>3, <2>6, <4>1 DEF EmitEnd
      <4>3. QED
        BY <4>2, NumberTypes DEF SessionInv, TypeInv, TypeOK
    <3>3. QED
      BY <3>1, <3>2
  <2>7. op[w].start # 0 => op[w].start \in Starts
    BY <2>2, NumberTypes DEF SessionInv
  <2>8. CASE op[w].start = 0
    BY <2>5, <2>8
  <2>9. CASE op[w].start # 0
    <3>1. PICK k \in Starts : k = op[w].start
      BY <2>7, <2>9
    <3>2. QED
      BY <2>5, <2>6, <3>1
  <2>10. QED
    BY <2>8, <2>9
<1>2. QED
  BY <1>1, SessionInvariant, PTL DEF Spec, DisconnectClosesOut
=============================================================================

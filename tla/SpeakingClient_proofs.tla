----------------------- MODULE SpeakingClient_proofs -----------------------
(***************************************************************************)
(* Proofs about the speaking chat, for any number of turns, words,         *)
(* recordings and failures.                                                *)
(***************************************************************************)
EXTENDS SpeakingClient, FiniteSetTheorems, FunctionTheorems, SequenceTheorems, TLAPS

-----------------------------------------------------------------------------
(* The inductive invariant.                                                 *)

\* The entry the engine is at is spoken, all others are shown in full; a page that is left is silent.
VoiceInv ==
    /\ speech.entry # 0 => messages[speech.entry].speaking
    /\ speech.entry = 0 => ~speech.startTimer /\ ~speech.interval
    /\ ~mounted => ~socketRef /\ speech.entry = 0
    /\ mounted => \A i \in DOMAIN messages : i # speech.entry => messages[i].shown = Words /\ ~messages[i].speaking

\* What a transcript and a queue of frames have.
Says(log, who, t) == \E i \in DOMAIN log : log[i].speaker = who /\ log[i].turn = t
Calls == {"start", "turn"}
Replies == {"session_started", "turn_result"}
Has(q, kinds, t) == \E i \in DOMAIN q : q[i].type \in kinds /\ q[i].turn = t
Distinct(q, kinds) ==
    \A i, j \in DOMAIN q : q[i].type \in kinds /\ q[j].type \in kinds /\ q[i].turn = q[j].turn => i = j
Upto(q, n) == \A i \in DOMAIN q : q[i].turn <= n

\* The transcript as a conversation, of the turns taken so far.
Conversation(log, n) ==
    /\ \A i \in DOMAIN log : log[i].turn <= n /\ (log[i].speaker = "user" => log[i].turn # 0)
    /\ \A i, j \in DOMAIN log : log[i].speaker = "ai" /\ log[j].speaker = "user" /\ log[i].turn = log[j].turn => j < i
    /\ \A i, j \in DOMAIN log : log[i].speaker = log[j].speaker /\ log[i].turn = log[j].turn => i = j
    /\ \A i \in DOMAIN log :
          log[i].speaker = "ai" /\ log[i].turn # 0 =>
             \A j \in DOMAIN log : log[j].turn = log[i].turn => log[j].transcribed

\* A turn, and the start of the session, is at one place at a time on its way to
\* the server, back, and into the transcript.
Asks(t) == Has(up, Calls, t)
Serving(t) == server.at = "reply" /\ server.turn = t
Answers(t) == Has(down, Replies, t)
Told(t) == Says(messages, "ai", t)
Incoming(t) == Asks(t) \/ Serving(t) \/ Answers(t)
Early == socket \in {"none", "connecting"}
Steps == 0 .. MaxTurns

OneWay ==
    \A t \in Steps :
        /\ Asks(t) => ~Answers(t) /\ ~Told(t) /\ (t # 0 => server.turn # t)
        /\ Serving(t) => ~Answers(t) /\ ~Told(t)
        /\ Answers(t) => ~Told(t)
Numbered ==
    /\ Upto(up, taken) /\ Upto(down, taken) /\ server.turn <= taken
    /\ server.at \in {"reply", "feedback"} <=> server.turn # 0
Opening ==
    /\ fetching # "done" => socket = "none"
    /\ Early => ~Incoming(0) /\ ~Told(0)
FlowInv ==
    /\ Conversation(messages, taken) /\ Numbered
    /\ Distinct(up, Calls) /\ Distinct(down, Replies)
    /\ OneWay /\ Opening

\* Before an error frame, a turn that is on its way is the pending one.
PendInv == \A t \in OnTheWay : refused \/ t = pending

\* Until the session has started nothing is recorded and nothing sent.
FreshInv ==
    Early \/ Incoming(0) => taken = 0 /\ status \notin {"ready", "recording"} /\ \A k \in Mics : mic[k] = "unused"

\* So long as no stream was granted late there is one recording at a time, which holds the refs;
\* it is at work only while nothing is on its way that would offer the chat for another turn; and
\* one such thing at most is on its way.
Active(k) == mic[k] \in {"rec", "stopping", "reading"}
Linked == socketRef /\ socket = "open"
OneStream ==
    /\ live \subseteq {streamRef}
    /\ \A k \in live : mic[k] = "stopping" \/ (mounted /\ mic[k] = "rec")
    /\ \A k \in Mics : mic[k] = "rec" => recorderRef = k /\ streamRef = k
    /\ \A k, j \in Mics : mic[k] \in {"rec", "stopping"} /\ mic[j] \in {"rec", "stopping"} => j = k
OneRecording ==
    /\ \A k, j \in Mics : Active(k) /\ Active(j) => j = k
    /\ status = "ready" => \A k \in Mics : ~Active(k)
    /\ Linked => \A t, s \in Steps : Incoming(t) /\ Incoming(s) => s = t
    /\ Linked /\ ((\E k \in Mics : Active(k)) \/ status = "ready") => \A t \in Steps : ~Incoming(t)
MicInv ==
    /\ late \in {{}, Mics}
    /\ late = {} => OneStream /\ (mounted => OneRecording)

TypeInv == TypeOK /\ VoiceInv /\ FlowInv

-----------------------------------------------------------------------------
(* Queues of frames.                                                        *)

LEMMA AppendHas ==
    ASSUME NEW q \in Seq(Frames), NEW f \in Frames, NEW kinds, NEW t
    PROVE  Has(Append(q, f), kinds, t) <=> Has(q, kinds, t) \/ (f.type \in kinds /\ f.turn = t)
<1>1. /\ DOMAIN q = 1 .. Len(q) /\ Len(q) \in Nat
      /\ DOMAIN Append(q, f) = 1 .. Len(q) + 1
      /\ \A i \in 1 .. Len(q) : Append(q, f)[i] = q[i]
      /\ Append(q, f)[Len(q) + 1] = f
    BY AppendProperties, LenProperties
<1>2. 1 .. Len(q) + 1 = (1 .. Len(q)) \cup {Len(q) + 1}
    BY <1>1
<1> QED BY <1>1, <1>2 DEF Has

LEMMA AppendDistinct ==
    ASSUME NEW q \in Seq(Frames), NEW f \in Frames, NEW kinds, Distinct(q, kinds),
           f.type \in kinds => ~Has(q, kinds, f.turn)
    PROVE  Distinct(Append(q, f), kinds)
<1>1. /\ DOMAIN q = 1 .. Len(q) /\ Len(q) \in Nat
      /\ DOMAIN Append(q, f) = 1 .. Len(q) + 1
      /\ \A i \in 1 .. Len(q) : Append(q, f)[i] = q[i]
      /\ Append(q, f)[Len(q) + 1] = f
    BY AppendProperties, LenProperties
<1>2. 1 .. Len(q) + 1 = (1 .. Len(q)) \cup {Len(q) + 1}
    BY <1>1
<1> QED BY <1>1, <1>2 DEF Has, Distinct

LEMMA AppendUpto ==
    ASSUME NEW q \in Seq(Frames), NEW f \in Frames, NEW n, Upto(q, n), f.turn <= n
    PROVE  Upto(Append(q, f), n)
<1>1. /\ DOMAIN q = 1 .. Len(q) /\ Len(q) \in Nat
      /\ DOMAIN Append(q, f) = 1 .. Len(q) + 1
      /\ \A i \in 1 .. Len(q) : Append(q, f)[i] = q[i]
      /\ Append(q, f)[Len(q) + 1] = f
    BY AppendProperties, LenProperties
<1>2. 1 .. Len(q) + 1 = (1 .. Len(q)) \cup {Len(q) + 1}
    BY <1>1
<1> QED BY <1>1, <1>2 DEF Upto

\* What is taken from the front of a queue is not in it any more.
LEMMA TailHas ==
    ASSUME NEW q \in Seq(Frames), q # <<>>, NEW kinds
    PROVE  /\ Tail(q) \in Seq(Frames) /\ Head(q) \in Frames /\ 1 \in DOMAIN q /\ Head(q) = q[1]
           /\ \A t : Has(Tail(q), kinds, t) => Has(q, kinds, t)
           /\ \A n : Upto(q, n) => Upto(Tail(q), n) /\ Head(q).turn <= n
           /\ Head(q).type \in kinds => Has(q, kinds, Head(q).turn)
           /\ Distinct(q, kinds) =>
                 /\ Distinct(Tail(q), kinds)
                 /\ Head(q).type \in kinds => ~Has(Tail(q), kinds, Head(q).turn)
<1>1. /\ Tail(q) \in Seq(Frames) /\ Head(q) \in Frames /\ Len(Tail(q)) = Len(q) - 1 /\ Len(q) \in Nat
      /\ Len(q) >= 1 /\ DOMAIN q = 1 .. Len(q) /\ DOMAIN Tail(q) = 1 .. Len(q) - 1
      /\ Head(q) = q[1] /\ \A i \in 1 .. Len(q) - 1 : Tail(q)[i] = q[i + 1]
    BY HeadTailProperties, LenProperties, EmptySeq
<1>2. \A i \in 1 .. Len(q) - 1 : i + 1 \in 1 .. Len(q)
    BY <1>1
<1>3. \A t : Has(Tail(q), kinds, t) => Has(q, kinds, t)
    BY <1>1, <1>2 DEF Has
<1>4. \A n : Upto(q, n) => Upto(Tail(q), n) /\ Head(q).turn <= n
    BY <1>1, <1>2 DEF Upto
<1>5. Head(q).type \in kinds => Has(q, kinds, Head(q).turn)
    BY <1>1 DEF Has
<1>6. ASSUME Distinct(q, kinds)
      PROVE  /\ Distinct(Tail(q), kinds)
             /\ Head(q).type \in kinds => ~Has(Tail(q), kinds, Head(q).turn)
    <2>1. \A i, j \in 1 .. Len(q) - 1 : i + 1 = j + 1 => i = j
        BY <1>1
    <2>2. \A i \in 1 .. Len(q) - 1 : i + 1 # 1
        BY <1>1
    <2>3. Distinct(Tail(q), kinds)
        BY <1>1, <1>2, <1>6, <2>1 DEF Distinct
    <2> QED BY <1>1, <1>2, <1>6, <2>2, <2>3 DEF Distinct, Has
<1> QED BY <1>1, <1>3, <1>4, <1>5, <1>6

\* Numbers may only grow.
LEMMA UptoMore ==
    ASSUME NEW q \in Seq(Frames), NEW n \in Nat, Upto(q, n)
    PROVE  Upto(q, n + 1) /\ \A t, kinds : Has(q, kinds, t) => t <= n /\ t \in Nat
<1>1. \A i \in DOMAIN q : q[i].turn \in Nat
    BY ElementOfSeq, LenProperties, SpeakingClientAssumption DEF Frames, Turns
<1> QED BY <1>1 DEF Upto, Has

-----------------------------------------------------------------------------
(* Transcripts.                                                             *)

SameShape(new, old) ==
    /\ DOMAIN new = DOMAIN old /\ Len(new) = Len(old)
    /\ \A i \in DOMAIN old :
          new[i].speaker = old[i].speaker /\ new[i].turn = old[i].turn /\ (old[i].transcribed => new[i].transcribed)
Grown(new, old) ==
    /\ Len(new) >= Len(old)
    /\ \A i \in DOMAIN old : /\ i \in DOMAIN new /\ Displayed(new[i]) >= Displayed(old[i])
                             /\ new[i].speaker = old[i].speaker /\ new[i].turn = old[i].turn

LEMMA LogBasics ==
    ASSUME NEW log \in Seq(Entries)
    PROVE  /\ DOMAIN log = 1 .. Len(log) /\ Len(log) \in Nat
           /\ \A i \in DOMAIN log :
                 /\ log[i] \in Entries /\ log[i].shown \in 0 .. Words /\ log[i].turn \in 0 .. MaxTurns
                 /\ log[i].speaker \in {"ai", "user"} /\ log[i].speaking \in BOOLEAN /\ log[i].transcribed \in BOOLEAN
                 /\ Displayed(log[i]) \in 0 .. Words
           /\ SameShape(log, log) /\ Grown(log, log)
           /\ Words \in Nat /\ MaxTurns \in Nat
<1>1. DOMAIN log = 1 .. Len(log) /\ Len(log) \in Nat
    BY LenProperties
<1>2. \A i \in DOMAIN log : log[i] \in Entries
    BY <1>1, ElementOfSeq
<1>3. Words \in Nat /\ MaxTurns \in Nat
    BY SpeakingClientAssumption
<1>4. \A i \in DOMAIN log :
         /\ log[i].shown \in 0 .. Words /\ log[i].turn \in 0 .. MaxTurns
         /\ log[i].speaker \in {"ai", "user"} /\ log[i].speaking \in BOOLEAN /\ log[i].transcribed \in BOOLEAN
    BY <1>2 DEF Entries
<1>5. \A i \in DOMAIN log : Displayed(log[i]) \in 0 .. Words
    BY <1>3, <1>4 DEF Displayed
<1>6. SameShape(log, log)
    BY DEF SameShape
<1>7. Grown(log, log)
    BY <1>1, <1>3, <1>5 DEF Grown
<1> QED BY <1>1, <1>2, <1>3, <1>4, <1>5, <1>6, <1>7

\* The maximum is taken, and an entry that is spoken shows no more than it did.
LEMMA RevealLog ==
    ASSUME NEW log \in Seq(Entries), NEW e \in DOMAIN log, NEW w \in 0 .. Words, log[e].speaking
    PROVE  LET new == Reveal(log, e, w) IN
           /\ new \in Seq(Entries) /\ SameShape(new, log) /\ Grown(new, log)
           /\ new[e].speaking /\ \A i \in DOMAIN log : i # e => new[i] = log[i]
<1> DEFINE new == Reveal(log, e, w)
           rec == [log[e] EXCEPT !.shown = IF w > @ THEN w ELSE @, !.speaking = TRUE]
<1>0. /\ DOMAIN log = 1 .. Len(log) /\ Len(log) \in Nat /\ log[e] \in Entries
      /\ log[e].shown \in 0 .. Words /\ Words \in Nat
      /\ \A i \in DOMAIN log : Displayed(log[i]) \in 0 .. Words
    BY LogBasics
<1>1. /\ rec \in Entries /\ rec.speaker = log[e].speaker /\ rec.turn = log[e].turn
      /\ rec.transcribed = log[e].transcribed /\ rec.speaking = TRUE
      /\ rec.shown = IF w > log[e].shown THEN w ELSE log[e].shown
    BY <1>0 DEF Entries
<1>2. new = [log EXCEPT ![e] = rec]
    BY DEF Reveal
<1>3. /\ new \in Seq(Entries) /\ Len(new) = Len(log) /\ DOMAIN new = DOMAIN log
      /\ new[e] = rec /\ \A i \in DOMAIN log : i # e => new[i] = log[i]
    <2> HIDE DEF rec, new
    <2> QED BY <1>0, <1>1, <1>2, ExceptSeq
<1>4. SameShape(new, log)
    <2> HIDE DEF rec, new
    <2> QED BY <1>1, <1>3 DEF SameShape
<1>5. Displayed(rec) >= Displayed(log[e])
    <2> HIDE DEF rec
    <2> QED BY <1>0, <1>1 DEF Displayed
<1>6. Grown(new, log)
    <2> HIDE DEF rec, new
    <2> QED BY <1>0, <1>3, <1>4, <1>5 DEF Grown, SameShape
<1> QED BY <1>1, <1>3, <1>4, <1>6

LEMMA FinishLog ==
    ASSUME NEW log \in Seq(Entries), NEW e \in DOMAIN log
    PROVE  LET new == FinishReveal(log, e) IN
           /\ new \in Seq(Entries) /\ SameShape(new, log) /\ Grown(new, log)
           /\ new[e].shown = Words /\ ~new[e].speaking
           /\ \A i \in DOMAIN log : i # e => new[i] = log[i]
<1> DEFINE new == FinishReveal(log, e)
           rec == [log[e] EXCEPT !.shown = Words, !.speaking = FALSE]
<1>0. /\ DOMAIN log = 1 .. Len(log) /\ Len(log) \in Nat /\ log[e] \in Entries /\ Words \in Nat
      /\ \A i \in DOMAIN log : Displayed(log[i]) \in 0 .. Words
    BY LogBasics
<1>1. /\ rec \in Entries /\ rec.speaker = log[e].speaker /\ rec.turn = log[e].turn
      /\ rec.transcribed = log[e].transcribed /\ rec.speaking = FALSE /\ rec.shown = Words
    <2>1. Words \in 0 .. Words /\ FALSE \in BOOLEAN
        BY <1>0
    <2>2. rec \in Entries
        BY <1>0, <2>1 DEF Entries
    <2>3. {"speaker", "turn", "transcribed", "shown", "speaking"} \subseteq DOMAIN log[e]
        BY <1>0 DEF Entries
    <2> QED BY <2>2, <2>3
<1>2. new = [log EXCEPT ![e] = rec]
    BY DEF FinishReveal
<1>3. /\ new \in Seq(Entries) /\ Len(new) = Len(log) /\ DOMAIN new = DOMAIN log
      /\ new[e] = rec /\ \A i \in DOMAIN log : i # e => new[i] = log[i]
    <2> HIDE DEF rec, new
    <2> QED BY <1>0, <1>1, <1>2, ExceptSeq
<1>4. SameShape(new, log)
    <2> HIDE DEF rec, new
    <2> QED BY <1>1, <1>3 DEF SameShape
<1>5. Displayed(rec) >= Displayed(log[e])
    <2> HIDE DEF rec
    <2> QED BY <1>0, <1>1 DEF Displayed
<1>6. Grown(new, log)
    <2> HIDE DEF rec, new
    <2> QED BY <1>0, <1>3, <1>4, <1>5 DEF Grown, SameShape
<1> QED BY <1>1, <1>3, <1>4, <1>6

LEMMA AppendLog ==
    ASSUME NEW log \in Seq(Entries), NEW e \in Entries
    PROVE  LET new == Append(log, e) IN
           /\ new \in Seq(Entries) /\ Len(new) = Len(log) + 1
           /\ DOMAIN new = DOMAIN log \cup {Len(log) + 1} /\ Len(log) + 1 \notin DOMAIN log
           /\ new[Len(log) + 1] = e /\ \A i \in DOMAIN log : new[i] = log[i]
           /\ Grown(new, log)
<1>0. /\ DOMAIN log = 1 .. Len(log) /\ Len(log) \in Nat
      /\ \A i \in DOMAIN log : Displayed(log[i]) \in 0 .. Words
      /\ Words \in Nat
    BY LogBasics
<1>1. /\ Append(log, e) \in Seq(Entries) /\ Len(Append(log, e)) = Len(log) + 1
      /\ Append(log, e)[Len(log) + 1] = e /\ \A i \in 1 .. Len(log) : Append(log, e)[i] = log[i]
    BY AppendProperties
<1>2. DOMAIN Append(log, e) = DOMAIN log \cup {Len(log) + 1} /\ Len(log) + 1 \notin DOMAIN log
    BY <1>0, <1>1, LenProperties
<1>3. Grown(Append(log, e), log)
    BY <1>0, <1>1, <1>2 DEF Grown
<1> QED BY <1>0, <1>1, <1>2, <1>3

\* The shape of a transcript decides whether it is a conversation, and who says what.
LEMMA ShapeKeeps ==
    ASSUME NEW new, NEW old, SameShape(new, old), NEW n, Conversation(old, n)
    PROVE  Conversation(new, n) /\ \A who, t : Says(new, who, t) <=> Says(old, who, t)
<1>1. \A who, t : Says(new, who, t) <=> Says(old, who, t)
    BY DEF SameShape, Says
<1>2. \A i \in DOMAIN new : new[i].turn <= n /\ (new[i].speaker = "user" => new[i].turn # 0)
    BY DEF SameShape, Conversation
<1>3. \A i, j \in DOMAIN new : new[i].speaker = "ai" /\ new[j].speaker = "user" /\ new[i].turn = new[j].turn => j < i
    BY DEF SameShape, Conversation
<1>4. \A i, j \in DOMAIN new : new[i].speaker = new[j].speaker /\ new[i].turn = new[j].turn => i = j
    BY DEF SameShape, Conversation
<1>5. \A i \in DOMAIN new :
         new[i].speaker = "ai" /\ new[i].turn # 0 =>
            \A j \in DOMAIN new : new[j].turn = new[i].turn => new[j].transcribed
    BY DEF SameShape, Conversation
<1> QED BY <1>1, <1>2, <1>3, <1>4, <1>5 DEF Conversation

LEMMA ShapeTwice ==
    ASSUME NEW a, NEW b, NEW c, SameShape(a, b), SameShape(b, c)
    PROVE  SameShape(a, c)
BY DEF SameShape

LEMMA GrownTwice ==
    ASSUME NEW a \in Seq(Entries), NEW b \in Seq(Entries), NEW c \in Seq(Entries), Grown(a, b), Grown(b, c)
    PROVE  Grown(a, c)
<1>1. /\ Len(a) \in Nat /\ Len(b) \in Nat /\ Len(c) \in Nat
      /\ \A i \in DOMAIN a : Displayed(a[i]) \in 0 .. Words
      /\ \A i \in DOMAIN b : Displayed(b[i]) \in 0 .. Words
      /\ \A i \in DOMAIN c : Displayed(c[i]) \in 0 .. Words
      /\ Words \in Nat
    BY LogBasics
<1> QED BY <1>1 DEF Grown

\* The user's next entry ...
LEMMA UserSpeaks ==
    ASSUME NEW log \in Seq(Entries), NEW n \in Nat, Conversation(log, n), NEW e \in Entries,
           e.speaker = "user", e.turn = n + 1
    PROVE  /\ Conversation(Append(log, e), n + 1)
           /\ \A t : Says(Append(log, e), "ai", t) <=> Says(log, "ai", t)
           /\ \A t : Says(log, "ai", t) => t <= n
<1> DEFINE new == Append(log, e)
<1>1. /\ DOMAIN new = DOMAIN log \cup {Len(log) + 1} /\ Len(log) + 1 \notin DOMAIN log
      /\ new[Len(log) + 1] = e /\ \A i \in DOMAIN log : new[i] = log[i]
      /\ DOMAIN log = 1 .. Len(log) /\ Len(log) \in Nat
      /\ \A i \in DOMAIN log : log[i].turn \in Nat
    BY AppendLog, LogBasics
<1> HIDE DEF new
<1>2. \A i \in DOMAIN log : log[i].turn <= n /\ log[i].turn # n + 1 /\ log[i].turn <= n + 1
    BY <1>1 DEF Conversation
<1>3. \A t : Says(new, "ai", t) <=> Says(log, "ai", t)
    BY <1>1 DEF Says
<1>4. \A i \in DOMAIN new : new[i].turn <= n + 1 /\ (new[i].speaker = "user" => new[i].turn # 0)
    BY <1>1, <1>2 DEF Conversation
<1>5. \A i, j \in DOMAIN new : new[i].speaker = "ai" /\ new[j].speaker = "user" /\ new[i].turn = new[j].turn => j < i
    BY <1>1, <1>2 DEF Conversation
<1>6. \A i, j \in DOMAIN new : new[i].speaker = new[j].speaker /\ new[i].turn = new[j].turn => i = j
    BY <1>1, <1>2 DEF Conversation
<1>7. \A i \in DOMAIN new :
         new[i].speaker = "ai" /\ new[i].turn # 0 =>
            \A j \in DOMAIN new : new[j].turn = new[i].turn => new[j].transcribed
    BY <1>1, <1>2 DEF Conversation
<1>8. \A t : Says(log, "ai", t) => t <= n
    BY <1>2 DEF Says
<1> QED BY <1>3, <1>4, <1>5, <1>6, <1>7, <1>8 DEF Conversation, new

\* ... and the tutor's, to a turn that is marked as transcribed.
LEMMA TutorSpeaks ==
    ASSUME NEW log \in Seq(Entries), NEW n \in Nat, Conversation(log, n), NEW e \in Entries,
           e.speaker = "ai", e.turn <= n, ~Says(log, "ai", e.turn), e.transcribed,
           \A i \in DOMAIN log : log[i].speaker = "user" /\ log[i].turn = e.turn => log[i].transcribed
    PROVE  /\ Conversation(Append(log, e), n)
           /\ \A t : Says(Append(log, e), "ai", t) <=> Says(log, "ai", t) \/ t = e.turn
<1> DEFINE new == Append(log, e)
<1>1. /\ DOMAIN new = DOMAIN log \cup {Len(log) + 1} /\ Len(log) + 1 \notin DOMAIN log
      /\ new[Len(log) + 1] = e /\ \A i \in DOMAIN log : new[i] = log[i]
      /\ DOMAIN log = 1 .. Len(log) /\ Len(log) \in Nat
      /\ \A i \in DOMAIN log : log[i].turn \in Nat /\ log[i].speaker \in {"ai", "user"} /\ i < Len(log) + 1
    BY AppendLog, LogBasics
<1> HIDE DEF new
<1>2. \A t : Says(new, "ai", t) <=> Says(log, "ai", t) \/ t = e.turn
    BY <1>1 DEF Says
<1>3. \A i \in DOMAIN log : log[i].turn = e.turn => log[i].speaker = "user" /\ log[i].transcribed
    BY <1>1 DEF Says
<1>4. \A i \in DOMAIN new : new[i].turn <= n /\ (new[i].speaker = "user" => new[i].turn # 0)
    BY <1>1 DEF Conversation
<1>5. \A i, j \in DOMAIN new : new[i].speaker = "ai" /\ new[j].speaker = "user" /\ new[i].turn = new[j].turn => j < i
    BY <1>1 DEF Conversation
<1>6. \A i, j \in DOMAIN new : new[i].speaker = new[j].speaker /\ new[i].turn = new[j].turn => i = j
    BY <1>1, <1>3 DEF Conversation
<1>7. \A i \in DOMAIN new :
         new[i].speaker = "ai" /\ new[i].turn # 0 =>
            \A j \in DOMAIN new : new[j].turn = new[i].turn => new[j].transcribed
    BY <1>1, <1>3 DEF Conversation
<1> QED BY <1>2, <1>4, <1>5, <1>6, <1>7 DEF Conversation, new

\* A conversation of n turns has at most 2 * MaxTurns + 1 entries.
LEMMA ShortConversation ==
    ASSUME NEW log \in Seq(Entries), NEW n, Conversation(log, n)
    PROVE  Len(log) <= 2 * MaxTurns + 1
<1> DEFINE place(i) == IF log[i].speaker = "user" THEN log[i].turn ELSE MaxTurns + 1 + log[i].turn
           f == [i \in 1 .. Len(log) |-> place(i)]
           T == 1 .. 2 * MaxTurns + 1
<1>1. /\ DOMAIN log = 1 .. Len(log) /\ Len(log) \in Nat /\ MaxTurns \in Nat
      /\ \A i \in DOMAIN log : log[i].turn \in 0 .. MaxTurns /\ log[i].speaker \in {"ai", "user"}
    BY LogBasics
<1>2. \A i \in 1 .. Len(log) : place(i) \in T
    BY <1>1 DEF Conversation
<1>3. ASSUME NEW i \in 1 .. Len(log), NEW j \in 1 .. Len(log), place(i) = place(j)
      PROVE  i = j
    <2>1. log[i].speaker = "user" <=> log[j].speaker = "user"
        BY <1>1, <1>3 DEF Conversation
    <2>2. log[i].speaker = log[j].speaker /\ log[i].turn = log[j].turn
        BY <1>1, <1>3, <2>1
    <2> QED BY <1>1, <2>2 DEF Conversation
<1>4. f \in Injection(1 .. Len(log), T)
    <2>1. f \in [1 .. Len(log) -> T]
        BY <1>2
    <2>2. \A i, j \in 1 .. Len(log) : f[i] = f[j] => i = j
        BY <1>3
    <2> HIDE DEF f
    <2> QED BY <2>1, <2>2 DEF Injection, IsInjective
<1>5. IsFiniteSet(T) /\ Cardinality(T) = 2 * MaxTurns + 1
    <2> DEFINE b == 2 * MaxTurns + 1
    <2>1. b \in Int /\ 1 \in Int /\ b >= 1
        BY <1>1
    <2> HIDE DEF b
    <2>2. IsFiniteSet(1 .. b) /\ Cardinality(1 .. b) = IF 1 > b THEN 0 ELSE b - 1 + 1
        BY <2>1, FS_Interval
    <2>3. Cardinality(1 .. b) = b
        BY <2>1, <2>2
    <2> QED BY <2>2, <2>3 DEF b
<1>6. Cardinality(1 .. Len(log)) <= Cardinality(T)
    <2> HIDE DEF T, f
    <2> QED BY <1>4, <1>5, FS_Injection
<1>7. Cardinality(1 .. Len(log)) = Len(log)
    <2>1. Len(log) \in Int /\ 1 \in Int
        BY <1>1
    <2>2. Cardinality(1 .. Len(log)) = IF 1 > Len(log) THEN 0 ELSE Len(log) - 1 + 1
        BY <2>1, FS_Interval
    <2> QED BY <1>1, <2>2
<1> QED BY <1>5, <1>6, <1>7

LEMMA Basics ==
    ASSUME TypeInv
    PROVE  /\ messages \in Seq(Entries) /\ up \in Seq(Frames) /\ down \in Seq(Frames)
           /\ DOMAIN messages = 1 .. Len(messages) /\ Len(messages) \in Nat
           /\ speech \in Speeches /\ (speech.entry # 0 => speech.entry \in DOMAIN messages)
           /\ speech.entry \in 0 .. Len(messages)
           /\ taken \in 0 .. MaxTurns /\ taken \in Nat /\ MaxTurns \in Nat /\ Words \in Nat /\ Words >= 1
           /\ server \in Server /\ server.turn \in 0 .. MaxTurns
           /\ SameShape(messages, messages) /\ Grown(messages, messages)
           /\ Conversation(messages, taken)
<1>1. /\ messages \in Seq(Entries) /\ up \in Seq(Frames) /\ down \in Seq(Frames)
      /\ speech \in Speeches /\ speech.entry <= Len(messages) /\ taken \in 0 .. MaxTurns /\ server \in Server
    BY DEF TypeInv, TypeOK
<1>2. MaxTurns \in Nat /\ Words \in Nat /\ Words >= 1
    BY SpeakingClientAssumption
<1>3. /\ DOMAIN messages = 1 .. Len(messages) /\ Len(messages) \in Nat
      /\ SameShape(messages, messages) /\ Grown(messages, messages)
    BY <1>1, LogBasics
<1>4. speech.entry \in 0 .. 2 * MaxTurns + 1
    BY <1>1 DEF Speeches
<1>5. server.turn \in 0 .. MaxTurns
    BY <1>1 DEF Server
<1>6. taken \in Nat /\ speech.entry \in 0 .. Len(messages) /\ (speech.entry # 0 => speech.entry \in DOMAIN messages)
    BY <1>1, <1>2, <1>3, <1>4
<1>7. Conversation(messages, taken)
    BY DEF TypeInv, FlowInv
<1> QED BY <1>1, <1>2, <1>3, <1>5, <1>6, <1>7

LEMMA StoppedLog ==
    ASSUME NEW log \in Seq(Entries), speech.entry # 0 => speech.entry \in DOMAIN log
    PROVE  LET new == SpeechStopped(log) IN
           /\ new \in Seq(Entries) /\ SameShape(new, log) /\ Grown(new, log)
           /\ speech.entry # 0 => new[speech.entry].shown = Words /\ ~new[speech.entry].speaking
           /\ \A i \in DOMAIN log : i # speech.entry => new[i] = log[i]
<1>1. CASE speech.entry = 0
    BY <1>1, LogBasics DEF SpeechStopped
<1>2. CASE speech.entry # 0
    <2>1. SpeechStopped(log) = FinishReveal(log, speech.entry)
        BY <1>2 DEF SpeechStopped
    <2> QED BY <1>2, <2>1, FinishLog
<1> QED BY <1>1, <1>2

\* updatePendingUserTurn and applyTurnFeedback change marks only.
LEMMA AnsweredLog ==
    ASSUME messages \in Seq(Entries), NEW t
    PROVE  LET new == Answered(t) IN
           /\ new \in Seq(Entries) /\ SameShape(new, messages) /\ Grown(new, messages)
           /\ \A i \in DOMAIN messages : new[i].shown = messages[i].shown /\ new[i].speaking = messages[i].speaking
           /\ \A i \in DOMAIN new : new[i].speaker = "user" /\ new[i].turn = t => new[i].transcribed
<1> DEFINE new == Answered(t)
           mark(i) == [messages[i] EXCEPT !.transcribed = TRUE]
<1>0. /\ DOMAIN messages = 1 .. Len(messages) /\ Len(messages) \in Nat /\ Words \in Nat
      /\ \A i \in DOMAIN messages : messages[i] \in Entries /\ Displayed(messages[i]) \in 0 .. Words
    BY LogBasics
<1>1. ASSUME NEW i \in DOMAIN messages
      PROVE  /\ mark(i) \in Entries /\ mark(i).speaker = messages[i].speaker /\ mark(i).turn = messages[i].turn
             /\ mark(i).transcribed = TRUE /\ mark(i).shown = messages[i].shown
             /\ mark(i).speaking = messages[i].speaking
    BY <1>0 DEF Entries
<1>2. /\ DOMAIN new = DOMAIN messages
      /\ \A i \in DOMAIN messages :
            new[i] = IF messages[i].speaker = "user" /\ messages[i].turn = t THEN mark(i) ELSE messages[i]
    BY DEF Answered
<1> HIDE DEF new, mark
<1>3. new \in [1 .. Len(messages) -> Entries]
    <2>1. new = [i \in DOMAIN messages |-> IF messages[i].speaker = "user" /\ messages[i].turn = t THEN mark(i) ELSE messages[i]]
        BY DEF new, mark, Answered
    <2> QED BY <1>0, <1>1, <2>1
<1>4. new \in Seq(Entries) /\ Len(new) = Len(messages)
    BY <1>0, <1>3
<1>5. \A i \in DOMAIN messages :
         /\ new[i].shown = messages[i].shown /\ new[i].speaking = messages[i].speaking
         /\ new[i].speaker = messages[i].speaker /\ new[i].turn = messages[i].turn
         /\ messages[i].transcribed => new[i].transcribed
    BY <1>1, <1>2
<1>6. \A i \in DOMAIN new : new[i].speaker = "user" /\ new[i].turn = t => new[i].transcribed
    BY <1>1, <1>2
<1>7. SameShape(new, messages)
    BY <1>2, <1>4, <1>5 DEF SameShape
<1>8. \A i \in DOMAIN messages : Displayed(new[i]) = Displayed(messages[i])
    BY <1>5 DEF Displayed
<1>9. Grown(new, messages)
    BY <1>0, <1>2, <1>4, <1>5, <1>8 DEF Grown
<1> QED BY <1>4, <1>5, <1>6, <1>7, <1>9 DEF new

LEMMA CoachedLog ==
    ASSUME messages \in Seq(Entries), NEW t
    PROVE  LET new == Coached(t) IN
           /\ new \in Seq(Entries) /\ SameShape(new, messages) /\ Grown(new, messages)
           /\ \A i \in DOMAIN messages : new[i].shown = messages[i].shown /\ new[i].speaking = messages[i].speaking
<1> DEFINE new == Coached(t)
           mark(i) == [messages[i] EXCEPT !.coached = TRUE]
<1>0. /\ DOMAIN messages = 1 .. Len(messages) /\ Len(messages) \in Nat /\ Words \in Nat
      /\ \A i \in DOMAIN messages : messages[i] \in Entries /\ Displayed(messages[i]) \in 0 .. Words
    BY LogBasics
<1>1. ASSUME NEW i \in DOMAIN messages
      PROVE  /\ mark(i) \in Entries /\ mark(i).speaker = messages[i].speaker /\ mark(i).turn = messages[i].turn
             /\ mark(i).transcribed = messages[i].transcribed /\ mark(i).shown = messages[i].shown
             /\ mark(i).speaking = messages[i].speaking
    BY <1>0 DEF Entries
<1>2. /\ DOMAIN new = DOMAIN messages
      /\ \A i \in DOMAIN messages : new[i] = IF messages[i].turn = t THEN mark(i) ELSE messages[i]
    BY DEF Coached
<1> HIDE DEF new, mark
<1>3. new \in [1 .. Len(messages) -> Entries]
    <2>1. new = [i \in DOMAIN messages |-> IF messages[i].turn = t THEN mark(i) ELSE messages[i]]
        BY DEF new, mark, Coached
    <2> QED BY <1>0, <1>1, <2>1
<1>4. new \in Seq(Entries) /\ Len(new) = Len(messages)
    BY <1>0, <1>3
<1>5. \A i \in DOMAIN messages :
         /\ new[i].shown = messages[i].shown /\ new[i].speaking = messages[i].speaking
         /\ new[i].speaker = messages[i].speaker /\ new[i].turn = messages[i].turn
         /\ messages[i].transcribed => new[i].transcribed
    BY <1>1, <1>2
<1>7. SameShape(new, messages)
    BY <1>2, <1>4, <1>5 DEF SameShape
<1>8. \A i \in DOMAIN messages : Displayed(new[i]) = Displayed(messages[i])
    BY <1>5 DEF Displayed
<1>9. Grown(new, messages)
    BY <1>0, <1>2, <1>4, <1>5, <1>8 DEF Grown
<1> QED BY <1>4, <1>5, <1>7, <1>9 DEF new

-----------------------------------------------------------------------------
(* The transcript after a step.                                             *)

\* appendAssistantMessage, to the transcript as it is or with the turn marked.
LEMMA TutorAppended ==
    ASSUME TypeInv, NEW log \in Seq(Entries), SameShape(log, messages), Grown(log, messages),
           \A i \in DOMAIN messages : log[i].shown = messages[i].shown /\ log[i].speaking = messages[i].speaking,
           NEW t \in Steps, t <= taken, ~Told(t),
           \A i \in DOMAIN log : log[i].speaker = "user" /\ log[i].turn = t => log[i].transcribed,
           NEW spoken \in BOOLEAN, AppendAssistantMessage(log, t, spoken)
    PROVE  /\ messages' \in Seq(Entries) /\ Grown(messages', messages) /\ Conversation(messages', taken)
           /\ \A s : Says(messages', "ai", s) <=> Told(s) \/ s = t
           /\ speech' \in Speeches /\ speech'.entry <= Len(messages')
           /\ speech'.entry # 0 => messages'[speech'.entry].speaking
           /\ speech'.entry = 0 => ~speech'.startTimer /\ ~speech'.interval
           /\ mounted => \A i \in DOMAIN messages' : i # speech'.entry => messages'[i].shown = Words /\ ~messages'[i].speaking
<1> DEFINE old == SpeechStopped(log)
           reply == Reply(t, spoken)
<1>0. /\ messages \in Seq(Entries) /\ Len(messages) \in Nat /\ taken \in Nat /\ Words \in Nat /\ MaxTurns \in Nat
      /\ speech \in Speeches /\ (speech.entry # 0 => speech.entry \in DOMAIN messages)
      /\ Conversation(messages, taken) /\ Words \in 0 .. Words /\ 0 \in 0 .. Words
    BY Basics
<1>1. /\ old \in Seq(Entries) /\ SameShape(old, log) /\ Grown(old, log)
      /\ speech.entry # 0 => old[speech.entry].shown = Words /\ ~old[speech.entry].speaking
      /\ \A i \in DOMAIN log : i # speech.entry => old[i] = log[i]
    <2>1. speech.entry # 0 => speech.entry \in DOMAIN log
        BY <1>0 DEF SameShape
    <2> QED BY <2>1, StoppedLog
<1>2. /\ reply \in Entries /\ reply.speaker = "ai" /\ reply.turn = t /\ reply.transcribed
      /\ reply.shown = (IF spoken THEN 0 ELSE Words) /\ reply.speaking = spoken
    <2>1. {0, Words} \subseteq 0 .. Words /\ t \in 0 .. MaxTurns
        BY <1>0 DEF Steps
    <2> QED BY <2>1 DEF Reply, Entries
<1>3. messages' = Append(old, reply) /\ speech' = SpeechOf(Len(log) + 1, spoken)
    BY DEF AppendAssistantMessage
<1> HIDE DEF old, reply
<1>4. SameShape(old, messages) /\ Grown(old, messages)
    BY <1>0, <1>1, ShapeTwice, GrownTwice
<1>5. Conversation(old, taken) /\ \A who, s : Says(old, who, s) <=> Says(messages, who, s)
    BY <1>0, <1>4, ShapeKeeps
<1>6. \A i \in DOMAIN old : old[i].speaker = "user" /\ old[i].turn = t => old[i].transcribed
    BY <1>1 DEF SameShape
<1>7. /\ Conversation(messages', taken)
      /\ \A s : Says(messages', "ai", s) <=> Says(old, "ai", s) \/ s = t
    <2>1. ~Says(old, "ai", reply.turn)
        BY <1>2, <1>5 DEF Told
    <2> QED BY <1>0, <1>1, <1>2, <1>3, <1>5, <1>6, <2>1, TutorSpeaks
<1>8. /\ messages' \in Seq(Entries) /\ Len(messages') = Len(old) + 1
      /\ DOMAIN messages' = DOMAIN old \cup {Len(old) + 1}
      /\ messages'[Len(old) + 1] = reply /\ \A i \in DOMAIN old : messages'[i] = old[i]
      /\ Grown(messages', old)
    BY <1>1, <1>2, <1>3, AppendLog
<1>9. Grown(messages', messages)
    BY <1>0, <1>1, <1>4, <1>8, GrownTwice
<1>10. Len(old) = Len(messages) /\ Len(log) = Len(messages) /\ DOMAIN old = DOMAIN messages /\ DOMAIN log = DOMAIN messages
    BY <1>4 DEF SameShape
<1>11. Len(messages') <= 2 * MaxTurns + 1
    BY <1>7, <1>8, ShortConversation
<1>12. /\ speech'.entry = (IF spoken THEN Len(messages) + 1 ELSE 0)
       /\ speech'.startTimer = spoken /\ speech'.interval = FALSE /\ speech'.word = 0 /\ speech'.heard = FALSE
       /\ speech' = [entry |-> speech'.entry, startTimer |-> spoken, interval |-> FALSE, word |-> 0, heard |-> FALSE]
    BY <1>3, <1>10 DEF SpeechOf, NoSpeech
<1>13. speech'.entry \in 0 .. 2 * MaxTurns + 1 /\ speech'.entry <= Len(messages')
    BY <1>0, <1>8, <1>10, <1>11, <1>12
<1>14. speech' \in Speeches
    <2>1. 0 \in 0 .. Words + 1
        BY <1>0
    <2> QED BY <1>12, <1>13, <2>1 DEF Speeches
<1>15. speech'.entry # 0 => messages'[speech'.entry].speaking
    BY <1>2, <1>8, <1>10, <1>12
<1>16. ASSUME mounted, NEW i \in DOMAIN messages', i # speech'.entry
       PROVE  messages'[i].shown = Words /\ ~messages'[i].speaking
    <2>1. CASE i = Len(old) + 1
        BY <1>2, <1>8, <1>10, <1>12, <1>16, <2>1
    <2>2. CASE i \in DOMAIN old /\ i = speech.entry
        BY <1>0, <1>1, <1>8, <1>10, <2>2
    <2>3. CASE i \in DOMAIN old /\ i # speech.entry
        <3>1. messages[i].shown = Words /\ ~messages[i].speaking
            BY <1>10, <1>16, <2>3 DEF TypeInv, VoiceInv
        <3> QED BY <1>1, <1>8, <1>10, <2>3, <3>1
    <2> QED BY <1>8, <2>1, <2>2, <2>3
<1> QED BY <1>5, <1>7, <1>8, <1>9, <1>12, <1>13, <1>14, <1>15, <1>16 DEF Told

\* What a step has to leave alone for turns to stay where they are.
LEMMA FlowKept ==
    ASSUME TypeInv, SameShape(messages', messages), UNCHANGED <<taken, up, down, server>>,
           Early' => Early, fetching' # "done" => socket' = "none"
    PROVE  FlowInv'
<1>1. Conversation(messages', taken) /\ \A who, t : Says(messages', who, t) <=> Says(messages, who, t)
    BY Basics, ShapeKeeps
<1>2. Conversation(messages, taken)'
    BY <1>1
<1>3. \A t : /\ Told(t)' <=> Told(t)
             /\ Asks(t)' <=> Asks(t)
             /\ Answers(t)' <=> Answers(t)
             /\ Serving(t)' <=> Serving(t)
    BY <1>1 DEF Told, Asks, Answers, Serving
<1>4. Numbered' /\ Distinct(up, Calls)' /\ Distinct(down, Replies)'
    BY DEF TypeInv, FlowInv, Numbered
<1>5. OneWay'
    BY <1>3 DEF TypeInv, FlowInv, OneWay
<1>6. Opening'
    BY <1>3 DEF TypeInv, FlowInv, Opening, Incoming
<1> QED BY <1>2, <1>4, <1>5, <1>6 DEF FlowInv

LEMMA FrameTypes ==
    /\ \A t \in Turns : /\ Frame("turn", t) \in Frames /\ Frame("turn_result", t) \in Frames
                        /\ Frame("turn_feedback", t) \in Frames
    /\ Frame("start", 0) \in Frames /\ Frame("end", 0) \in Frames /\ Frame("session_started", 0) \in Frames
    /\ Frame("session_ended", 0) \in Frames /\ Frame("error", 0) \in Frames
    /\ \A type, t : Frame(type, t).type = type /\ Frame(type, t).turn = t
BY DEF Frame, Frames

\* A turn is taken: by the form, or by a recording.
LEMMA TurnTaken ==
    ASSUME TypeInv, NEW transcribed \in BOOLEAN, TakeTurn(messages, transcribed),
           UNCHANGED <<down, server, socket, fetching, speech, mounted, socketRef>>
    PROVE  /\ messages' \in Seq(Entries) /\ Grown(messages', messages) /\ FlowInv' /\ VoiceInv'
           /\ speech'.entry <= Len(messages') /\ taken' \in Turns /\ up' \in Seq(Frames)
<1> DEFINE turn == taken + 1
           entry == [speaker |-> "user", turn |-> turn, transcribed |-> transcribed,
                     coached |-> FALSE, shown |-> Words, speaking |-> FALSE]
<1>0. /\ messages \in Seq(Entries) /\ up \in Seq(Frames) /\ down \in Seq(Frames)
      /\ taken \in 0 .. MaxTurns /\ taken \in Nat /\ MaxTurns \in Nat /\ Words \in Nat
      /\ server.turn \in 0 .. MaxTurns /\ Conversation(messages, taken)
      /\ Len(messages) \in Nat /\ speech.entry \in 0 .. Len(messages)
      /\ speech.entry # 0 => speech.entry \in DOMAIN messages
    BY Basics
<1>1. /\ taken < MaxTurns /\ taken' = turn /\ messages' = Append(messages, entry)
      /\ up' = Append(up, Frame("turn", turn)) \/ up' = up
    BY DEF TakeTurn
<1>2. turn \in Turns /\ turn \in 0 .. MaxTurns /\ turn \in Nat /\ turn # 0 /\ taken <= turn
    BY <1>0, <1>1 DEF Turns
<1>3. /\ entry \in Entries /\ entry.speaker = "user" /\ entry.turn = turn /\ entry.shown = Words
      /\ entry.speaking = FALSE
    <2>1. Words \in 0 .. Words /\ FALSE \in BOOLEAN
        BY <1>0
    <2> QED BY <1>2, <2>1 DEF Entries
<1> HIDE DEF entry
<1>4. /\ Conversation(messages', turn)
      /\ \A t : Says(messages', "ai", t) <=> Told(t)
      /\ \A t : Told(t) => t <= taken
    <2>1. /\ Conversation(Append(messages, entry), taken + 1)
          /\ \A t : Says(Append(messages, entry), "ai", t) <=> Says(messages, "ai", t)
          /\ \A t : Says(messages, "ai", t) => t <= taken
        BY <1>0, <1>3, UserSpeaks
    <2> QED BY <1>1, <2>1 DEF Told
<1>5. /\ messages' \in Seq(Entries) /\ Len(messages') = Len(messages) + 1
      /\ DOMAIN messages' = DOMAIN messages \cup {Len(messages) + 1}
      /\ messages'[Len(messages) + 1] = entry /\ \A i \in DOMAIN messages : messages'[i] = messages[i]
      /\ Grown(messages', messages)
    BY <1>0, <1>1, <1>3, AppendLog
<1>6. Upto(up, taken) /\ Upto(down, taken) /\ server.turn <= taken /\ Distinct(up, Calls) /\ Distinct(down, Replies)
    BY DEF TypeInv, FlowInv, Numbered
<1>7. /\ \A t : Asks(t) => t <= taken /\ t \in Nat
      /\ \A t : Answers(t) => t <= taken /\ t \in Nat
      /\ Upto(up, turn) /\ Upto(down, turn)
    BY <1>0, <1>6, UptoMore DEF Asks, Answers
<1>8. Frame("turn", turn) \in Frames /\ Frame("turn", turn).type = "turn" /\ Frame("turn", turn).turn = turn
    BY <1>2, FrameTypes
<1>9. /\ up' \in Seq(Frames) /\ Upto(up', turn) /\ Distinct(up', Calls)
      /\ \A t : Asks(t)' => Asks(t) \/ t = turn
    <2>1. CASE up' = up
        BY <1>0, <1>6, <1>7, <2>1 DEF Asks
    <2>2. CASE up' = Append(up, Frame("turn", turn))
        <3>1. ~Has(up, Calls, turn)
            BY <1>0, <1>2, <1>7 DEF Asks
        <3>2. up' \in Seq(Frames)
            BY <1>0, <1>8, <2>2, AppendProperties
        <3>3. Upto(up', turn)
            BY <1>0, <1>2, <1>7, <1>8, <2>2, AppendUpto
        <3>4. Distinct(up', Calls)
            BY <1>0, <1>6, <1>8, <2>2, <3>1, AppendDistinct
        <3>5. \A t : Has(up', Calls, t) => Has(up, Calls, t) \/ t = turn
            BY <1>0, <1>8, <2>2, AppendHas
        <3> QED BY <3>2, <3>3, <3>4, <3>5 DEF Asks
    <2> QED BY <1>1, <2>1, <2>2
<1>10. \A t : /\ Told(t)' <=> Told(t)
              /\ Answers(t)' <=> Answers(t)
              /\ Serving(t)' <=> Serving(t)
    BY <1>4 DEF Told, Answers, Serving
<1>11. OneWay'
    <2> SUFFICES ASSUME NEW t \in Steps
                 PROVE  /\ Asks(t)' => ~Answers(t)' /\ ~Told(t)' /\ (t # 0 => server'.turn # t)
                        /\ Serving(t)' => ~Answers(t)' /\ ~Told(t)'
                        /\ Answers(t)' => ~Told(t)'
        BY DEF OneWay
    <2>1. CASE t = turn
        <3>1. ~Answers(t) /\ ~Told(t) /\ server.turn # t /\ ~Serving(t)
            BY <1>0, <1>2, <1>4, <1>6, <1>7, <2>1 DEF Serving
        <3> QED BY <1>10, <3>1
    <2>2. CASE t # turn
        BY <1>9, <1>10, <2>2 DEF TypeInv, FlowInv, OneWay
    <2> QED BY <2>1, <2>2
<1>12. Numbered'
    <2>1. server.turn <= turn
        BY <1>0, <1>2, <1>6
    <2> QED BY <1>1, <1>7, <1>9, <2>1 DEF Numbered, TypeInv, FlowInv
<1>13. Opening'
    <2>1. ~(0 = turn)
        BY <1>2
    <2> QED BY <1>9, <1>10, <2>1 DEF Opening, TypeInv, FlowInv, Incoming, Early
<1>14. FlowInv'
    BY <1>1, <1>4, <1>6, <1>9, <1>11, <1>12, <1>13 DEF FlowInv
<1>15. VoiceInv'
    <2>1. speech'.entry # 0 => messages'[speech'.entry].speaking
        BY <1>0, <1>5 DEF TypeInv, VoiceInv
    <2>2. ASSUME mounted', NEW i \in DOMAIN messages', i # speech'.entry
          PROVE  messages'[i].shown = Words /\ ~messages'[i].speaking
        BY <1>3, <1>5, <2>2 DEF TypeInv, VoiceInv
    <2> QED BY <2>1, <2>2 DEF TypeInv, VoiceInv
<1>16. speech'.entry <= Len(messages')
    BY <1>0, <1>5
<1> QED BY <1>1, <1>2, <1>5, <1>9, <1>14, <1>15, <1>16

\* What the transcript, the speech and the frames are together.
TalkOK ==
    /\ messages \in Seq(Entries) /\ up \in Seq(Frames) /\ down \in Seq(Frames) /\ server \in Server
    /\ taken \in 0 .. MaxTurns /\ speech \in Speeches /\ speech.entry <= Len(messages)
    /\ FlowInv /\ VoiceInv

LEMMA VoiceKept ==
    ASSUME TypeInv, UNCHANGED <<messages, speech, mounted>>, socketRef' => socketRef \/ mounted
    PROVE  VoiceInv' /\ messages' \in Seq(Entries) /\ speech' \in Speeches /\ speech'.entry <= Len(messages')
           /\ Grown(messages', messages)
<1>1. VoiceInv'
    BY DEF TypeInv, VoiceInv
<1>2. messages \in Seq(Entries) /\ speech \in Speeches /\ speech.entry <= Len(messages) /\ Grown(messages, messages)
    BY Basics DEF TypeInv, TypeOK
<1> QED BY <1>1, <1>2

LEMMA TalkKept ==
    ASSUME TypeInv, UNCHANGED <<messages, speech, taken, up, down, server, mounted>>,
           socketRef' => socketRef \/ mounted, Early' => Early, fetching' # "done" => socket' = "none"
    PROVE  TalkOK' /\ Grown(messages', messages)
<1>1. SameShape(messages', messages)
    BY Basics
<1>2. FlowInv'
    BY <1>1, FlowKept
<1> QED BY <1>2, VoiceKept, Basics DEF TalkOK

\* The words of an entry are revealed.
LEMMA WordsRevealed ==
    ASSUME TypeInv, NEW w \in 0 .. Words, speech.entry # 0, messages' = Reveal(messages, speech.entry, w),
           speech' \in Speeches, speech'.entry = speech.entry,
           UNCHANGED <<mounted, socketRef, taken, up, down, server, socket, fetching>>
    PROVE  TalkOK' /\ Grown(messages', messages)
<1>0. messages[speech.entry].speaking /\ speech.entry \in DOMAIN messages /\ messages \in Seq(Entries)
      /\ speech.entry <= Len(messages)
    BY Basics DEF TypeInv, VoiceInv, TypeOK
<1>1. /\ messages' \in Seq(Entries) /\ SameShape(messages', messages) /\ Grown(messages', messages)
      /\ messages'[speech.entry].speaking /\ \A i \in DOMAIN messages : i # speech.entry => messages'[i] = messages[i]
    BY <1>0, RevealLog
<1>2. FlowInv'
    BY <1>1, FlowKept DEF Early, TypeInv, FlowInv, Opening
<1>3. VoiceInv'
    <2>1. DOMAIN messages' = DOMAIN messages
        BY <1>1 DEF SameShape
    <2> QED BY <1>1, <2>1 DEF TypeInv, VoiceInv
<1>4. speech'.entry <= Len(messages')
    BY <1>0, <1>1 DEF SameShape
<1> QED BY <1>1, <1>2, <1>3, <1>4, Basics DEF TalkOK

LEMMA VoiceSteps ==
    ASSUME TypeInv, Engine \/ Fallback
    PROVE  TalkOK' /\ Grown(messages', messages)
<1>0. /\ speech \in Speeches /\ Words \in Nat /\ Words >= 1 /\ messages \in Seq(Entries)
      /\ speech.entry # 0 => speech.entry \in DOMAIN messages
      /\ \A i \in DOMAIN messages : messages[i].shown \in 0 .. Words
    BY Basics, LogBasics
<1>1. speech.startTimer \/ speech.interval => speech.entry # 0
    BY DEF TypeInv, VoiceInv
<1>2. UNCHANGED <<mounted, socketRef, taken, up, down, server, socket, fetching>>
    BY DEF Engine, Fallback, OnUtteranceStart, OnBoundary, FinishActiveSpeech, StartFallbackReveal,
       RevealNextFallbackWord, voiceFrame, refVars, netVars
<1>3. CASE OnUtteranceStart
    <2>1. 1 \in 0 .. Words
        BY <1>0
    <2> QED BY <1>0, <1>2, <1>3, <2>1, WordsRevealed DEF OnUtteranceStart
<1>4. ASSUME NEW word \in 1 .. Words, OnBoundary(word)
      PROVE  TalkOK' /\ Grown(messages', messages)
    <2>1. word \in 0 .. Words
        BY <1>0
    <2>2. speech' \in Speeches /\ speech'.entry = speech.entry
        BY <1>0, <1>4 DEF OnBoundary, Speeches
    <2> QED BY <1>2, <1>4, <2>1, <2>2, WordsRevealed DEF OnBoundary
<1>5. CASE FinishActiveSpeech
    <2>1. /\ messages' = FinishReveal(messages, speech.entry) /\ speech.entry \in DOMAIN messages
          /\ speech' = NoSpeech
        BY <1>0, <1>5 DEF FinishActiveSpeech
    <2>2. /\ messages' \in Seq(Entries) /\ SameShape(messages', messages) /\ Grown(messages', messages)
          /\ messages'[speech.entry].shown = Words /\ ~messages'[speech.entry].speaking
          /\ \A i \in DOMAIN messages : i # speech.entry => messages'[i] = messages[i]
        BY <1>0, <2>1, FinishLog
    <2>3. FlowInv'
        BY <1>2, <2>2, FlowKept DEF Early, TypeInv, FlowInv, Opening
    <2>4. speech' \in Speeches /\ speech'.entry = 0 /\ ~speech'.startTimer /\ ~speech'.interval
        <3>1. 0 \in 0 .. 2 * MaxTurns + 1 /\ 0 \in 0 .. Words + 1
            BY SpeakingClientAssumption
        <3> QED BY <2>1, <3>1 DEF NoSpeech, Speeches
    <2>5. DOMAIN messages' = DOMAIN messages /\ Len(messages') \in Nat
        BY <2>2, LogBasics DEF SameShape
    <2>6. VoiceInv'
        BY <1>2, <2>2, <2>4, <2>5 DEF TypeInv, VoiceInv
    <2> QED BY <1>2, <2>2, <2>3, <2>4, <2>5, <2>6, Basics DEF TalkOK
<1>6. CASE StartFallbackReveal
    <2> DEFINE next == messages[speech.entry].shown + 1
    <2>1. speech.entry # 0 /\ next \in Nat
        BY <1>0, <1>1, <1>6 DEF StartFallbackReveal
    <2>2. CASE next > Words
        <3>1. messages' = messages /\ speech' = [speech EXCEPT !.startTimer = FALSE]
            BY <1>6, <2>2 DEF StartFallbackReveal
        <3>2. speech' \in Speeches /\ speech'.entry = speech.entry
            BY <1>0, <3>1 DEF Speeches
        <3>3. VoiceInv'
            BY <1>2, <2>1, <3>1, <3>2 DEF TypeInv, VoiceInv
        <3>4. FlowInv'
            BY <1>2, <3>1, FlowKept, Basics DEF Early, TypeInv, FlowInv, Opening
        <3> QED BY <1>2, <3>1, <3>2, <3>3, <3>4, Basics DEF TalkOK, TypeInv, TypeOK
    <2>3. CASE ~(next > Words)
        <3>1. /\ messages' = Reveal(messages, speech.entry, next)
              /\ speech' = [speech EXCEPT !.startTimer = FALSE, !.interval = TRUE, !.word = next + 1]
            BY <1>6, <2>3 DEF StartFallbackReveal
        <3>2. next \in 0 .. Words /\ next + 1 \in 0 .. Words + 1
            BY <1>0, <2>1, <2>3
        <3>3. speech' \in Speeches /\ speech'.entry = speech.entry
            BY <1>0, <3>1, <3>2 DEF Speeches
        <3> QED BY <1>2, <2>1, <3>1, <3>2, <3>3, WordsRevealed
    <2> QED BY <2>2, <2>3
<1>7. CASE RevealNextFallbackWord
    <2>1. speech.entry # 0 /\ speech.word \in 0 .. Words + 1
        BY <1>0, <1>1, <1>7 DEF RevealNextFallbackWord, Speeches
    <2>2. CASE speech.word > Words
        <3>1. messages' = messages /\ speech' = [speech EXCEPT !.interval = FALSE]
            BY <1>7, <2>2 DEF RevealNextFallbackWord
        <3>2. speech' \in Speeches /\ speech'.entry = speech.entry
            BY <1>0, <3>1 DEF Speeches
        <3>3. VoiceInv'
            BY <1>2, <2>1, <3>1, <3>2 DEF TypeInv, VoiceInv
        <3>4. FlowInv'
            BY <1>2, <3>1, FlowKept, Basics DEF Early, TypeInv, FlowInv, Opening
        <3> QED BY <1>2, <3>1, <3>2, <3>3, <3>4, Basics DEF TalkOK, TypeInv, TypeOK
    <2>3. CASE ~(speech.word > Words)
        <3>1. /\ messages' = Reveal(messages, speech.entry, speech.word)
              /\ speech' = [speech EXCEPT !.word = speech.word + 1]
            BY <1>7, <2>3 DEF RevealNextFallbackWord
        <3>2. speech.word \in 0 .. Words /\ speech.word + 1 \in 0 .. Words + 1
            BY <1>0, <2>1, <2>3
        <3>3. speech' \in Speeches /\ speech'.entry = speech.entry
            BY <1>0, <3>1, <3>2 DEF Speeches
        <3> QED BY <1>2, <2>1, <3>1, <3>2, <3>3, WordsRevealed
    <2> QED BY <2>2, <2>3
<1> QED BY <1>3, <1>4, <1>5, <1>6, <1>7 DEF Engine, Fallback

-----------------------------------------------------------------------------
(* The frames on their way after a step.                                    *)

LEMMA QuietAppend ==
    ASSUME NEW q \in Seq(Frames), NEW f \in Frames, NEW kinds, NEW n, Distinct(q, kinds), Upto(q, n),
           f.type \notin kinds, f.turn <= n
    PROVE  /\ Append(q, f) \in Seq(Frames) /\ Distinct(Append(q, f), kinds) /\ Upto(Append(q, f), n)
           /\ \A t : Has(Append(q, f), kinds, t) <=> Has(q, kinds, t)
<1>1. Append(q, f) \in Seq(Frames)
    BY AppendProperties
<1>2. Distinct(Append(q, f), kinds)
    BY AppendDistinct
<1>3. Upto(Append(q, f), n)
    BY AppendUpto
<1>4. \A t : Has(Append(q, f), kinds, t) <=> Has(q, kinds, t)
    BY AppendHas
<1> QED BY <1>1, <1>2, <1>3, <1>4

LEMMA FlowBasics ==
    ASSUME TypeInv
    PROVE  /\ Upto(up, taken) /\ Upto(down, taken) /\ Distinct(up, Calls) /\ Distinct(down, Replies)
           /\ server.turn <= taken /\ server \in Server /\ server.turn \in Steps
           /\ server.at \in {"reply", "feedback"} <=> server.turn # 0
           /\ up \in Seq(Frames) /\ down \in Seq(Frames) /\ 0 \in Steps /\ 0 <= taken
           /\ fetching # "done" => socket = "none"
<1>1. 0 \in Steps
    BY SpeakingClientAssumption DEF Steps
<1> QED BY <1>1, Basics DEF TypeInv, FlowInv, Numbered, Steps, Opening

\* Nothing sets out.
LEMMA FlowQuiet ==
    ASSUME TypeInv, SameShape(messages', messages), taken' = taken,
           Upto(up', taken), Distinct(up', Calls), \A t : Has(up', Calls, t) => Asks(t),
           Upto(down', taken), Distinct(down', Replies), \A t : Has(down', Replies, t) => Answers(t),
           server'.turn \in {0, server.turn}, server'.at = "reply" => server.at = "reply",
           server'.at \in {"reply", "feedback"} <=> server'.turn # 0,
           Early' => Early, fetching' # "done" => socket' = "none"
    PROVE  FlowInv'
<1>1. Conversation(messages', taken) /\ \A who, t : Says(messages', who, t) <=> Says(messages, who, t)
    BY Basics, ShapeKeeps
<1>2. Conversation(messages, taken)'
    BY <1>1
<1>3. server'.at = "reply" => server'.turn = server.turn
    OBVIOUS
<1>4. \A t : /\ Told(t)' <=> Told(t)
             /\ Asks(t)' => Asks(t)
             /\ Answers(t)' => Answers(t)
             /\ Serving(t)' => Serving(t)
    BY <1>1, <1>3 DEF Told, Asks, Answers, Serving
<1>5. Numbered'
    BY FlowBasics DEF Numbered
<1>6. OneWay'
    <2> SUFFICES ASSUME NEW t \in Steps
                 PROVE  /\ Asks(t)' => ~Answers(t)' /\ ~Told(t)' /\ (t # 0 => server'.turn # t)
                        /\ Serving(t)' => ~Answers(t)' /\ ~Told(t)'
                        /\ Answers(t)' => ~Told(t)'
        BY DEF OneWay
    <2>1. /\ Asks(t) => ~Answers(t) /\ ~Told(t) /\ (t # 0 => server.turn # t)
          /\ Serving(t) => ~Answers(t) /\ ~Told(t)
          /\ Answers(t) => ~Told(t)
        BY DEF TypeInv, FlowInv, OneWay
    <2> QED BY <1>4, <2>1
<1>7. Opening'
    BY <1>4 DEF TypeInv, FlowInv, Opening, Incoming
<1> QED BY <1>2, <1>5, <1>6, <1>7 DEF FlowInv

\* A step of one turn t along its way; the others stay where they are.
LEMMA FlowMoves ==
    ASSUME TypeInv, NEW t \in Steps, taken' = taken, Conversation(messages', taken),
           Upto(up', taken), Distinct(up', Calls), Upto(down', taken), Distinct(down', Replies),
           server'.turn <= taken, server'.at \in {"reply", "feedback"} <=> server'.turn # 0,
           \A s : s # t => /\ Has(up', Calls, s) => Asks(s)
                           /\ Has(down', Replies, s) => Answers(s)
                           /\ Says(messages', "ai", s) => Told(s)
                           /\ server'.at = "reply" /\ server'.turn = s => Serving(s)
                           /\ server'.turn = s => server.turn = s \/ s = 0,
           Asks(t)' => ~Answers(t)' /\ ~Told(t)' /\ (t # 0 => server'.turn # t),
           Serving(t)' => ~Answers(t)' /\ ~Told(t)',
           Answers(t)' => ~Told(t)',
           Early' => Early /\ t # 0, fetching' # "done" => socket' = "none"
    PROVE  FlowInv'
<1>1. Conversation(messages, taken)' /\ Distinct(up, Calls)' /\ Distinct(down, Replies)'
    OBVIOUS
<1>2. Numbered'
    BY DEF Numbered
<1>3. OneWay'
    <2> SUFFICES ASSUME NEW s \in Steps
                 PROVE  /\ Asks(s)' => ~Answers(s)' /\ ~Told(s)' /\ (s # 0 => server'.turn # s)
                        /\ Serving(s)' => ~Answers(s)' /\ ~Told(s)'
                        /\ Answers(s)' => ~Told(s)'
        BY DEF OneWay
    <2>1. CASE s = t
        BY <2>1
    <2>2. CASE s # t
        <3>1. /\ Told(s)' => Told(s)
              /\ Asks(s)' => Asks(s)
              /\ Answers(s)' => Answers(s)
              /\ Serving(s)' => Serving(s)
              /\ server'.turn = s => server.turn = s \/ s = 0
            BY <2>2 DEF Told, Asks, Answers, Serving
        <3>2. /\ Asks(s) => ~Answers(s) /\ ~Told(s) /\ (s # 0 => server.turn # s)
              /\ Serving(s) => ~Answers(s) /\ ~Told(s)
              /\ Answers(s) => ~Told(s)
            BY DEF TypeInv, FlowInv, OneWay
        <3> QED BY <3>1, <3>2
    <2> QED BY <2>1, <2>2
<1>4. Opening'
    <2>1. Early' => (Told(0)' => Told(0)) /\ (Asks(0)' => Asks(0)) /\ (Answers(0)' => Answers(0)) /\ (Serving(0)' => Serving(0))
        BY DEF Told, Asks, Answers, Serving
    <2> QED BY <2>1 DEF TypeInv, FlowInv, Opening, Incoming
<1> QED BY <1>1, <1>2, <1>3, <1>4 DEF FlowInv

\* A step that leaves transcript and speech alone.
LEMMA TalkMoves ==
    ASSUME TypeInv, UNCHANGED <<messages, speech, mounted, taken>>, socketRef' => socketRef \/ mounted,
           FlowInv', up' \in Seq(Frames), down' \in Seq(Frames), server' \in Server
    PROVE  TalkOK' /\ Grown(messages', messages)
BY VoiceKept, Basics DEF TalkOK

LEMMA BackendTalk ==
    ASSUME TypeInv, Backend \/ Network
    PROVE  TalkOK' /\ Grown(messages', messages)
<1>0. /\ Upto(up, taken) /\ Upto(down, taken) /\ Distinct(up, Calls) /\ Distinct(down, Replies)
      /\ server.turn <= taken /\ server \in Server /\ server.turn \in Steps
      /\ server.at \in {"reply", "feedback"} <=> server.turn # 0
      /\ up \in Seq(Frames) /\ down \in Seq(Frames) /\ 0 \in Steps /\ 0 <= taken
      /\ fetching # "done" => socket = "none"
    BY FlowBasics
<1>1. SameShape(messages, messages) /\ Conversation(messages, taken) /\ taken \in Nat /\ MaxTurns \in Nat
    BY Basics
<1>2. UNCHANGED <<messages, speech, mounted, taken, socketRef>>
    BY DEF Backend, Network, IssueTicket, TicketRefused, TicketExpires, Admit, ServeStart, ServeTurn, ServeEnd, Serve,
       Answer, ServerSeesClose, ConnectionLost, hookVars, refVars
<1>3. /\ \A t : Has(up, Calls, t) => Asks(t)
      /\ \A t : Has(down, Replies, t) => Answers(t)
      /\ \A t : Says(messages, "ai", t) => Told(t)
      /\ server.at = "reply" => Serving(server.turn)
    BY DEF Asks, Answers, Told, Serving
<1>4. \A t \in Steps : /\ Asks(t) => ~Answers(t) /\ ~Told(t) /\ (t # 0 => server.turn # t)
                       /\ Serving(t) => ~Answers(t) /\ ~Told(t)
                       /\ Answers(t) => ~Told(t)
    BY DEF TypeInv, FlowInv, OneWay
<1>5. CASE IssueTicket
    BY <1>0, <1>2, <1>5, TalkKept DEF IssueTicket, Early
<1>6. CASE TicketRefused
    BY <1>0, <1>2, <1>6, TalkKept DEF TicketRefused, Early, netVars
<1>7. CASE TicketExpires
    BY <1>0, <1>2, <1>7, TalkKept DEF TicketExpires, Early
<1>8. CASE Admit
    <2>1. UNCHANGED <<up, down, fetching>> /\ socket = "connecting" /\ socket' \in {"connecting", "failing"}
          /\ server.at = "none" /\ server' \in {[server EXCEPT !.at = "receive"], [server EXCEPT !.at = "closed"]}
        BY <1>8 DEF Admit
    <2>2. server' \in Server /\ server'.turn = server.turn /\ server'.at \in {"receive", "closed"}
        BY <1>0, <2>1 DEF Server
    <2>3. server'.turn = 0
        BY <1>0, <2>1, <2>2
    <2>4. FlowInv'
        BY <1>0, <1>1, <1>2, <1>3, <2>1, <2>2, <2>3, FlowQuiet DEF Early
    <2> QED BY <1>0, <1>2, <2>1, <2>2, <2>4, TalkMoves
<1>9. ASSUME NEW type, Serve(type)
      PROVE  /\ up # <<>> /\ Head(up).type = type /\ up' = Tail(up) /\ server.at = "receive" /\ server.turn = 0
             /\ UNCHANGED <<fetching, socket>> /\ Head(up) \in Frames
             /\ up' \in Seq(Frames) /\ Upto(up', taken) /\ Distinct(up', Calls) /\ Head(up).turn <= taken
             /\ \A t : Has(up', Calls, t) => Asks(t)
             /\ type \in Calls => Asks(Head(up).turn) /\ ~Has(up', Calls, Head(up).turn)
    <2>1. up # <<>> /\ Head(up).type = type /\ up' = Tail(up) /\ server.at = "receive" /\ UNCHANGED <<fetching, socket>>
        BY <1>9 DEF Serve
    <2>2. server.turn = 0
        BY <1>0, <2>1
    <2>3. /\ Tail(up) \in Seq(Frames) /\ Head(up) \in Frames
          /\ \A t : Has(Tail(up), Calls, t) => Has(up, Calls, t)
          /\ Upto(Tail(up), taken) /\ Head(up).turn <= taken
          /\ Head(up).type \in Calls => Has(up, Calls, Head(up).turn)
          /\ Distinct(Tail(up), Calls)
          /\ Head(up).type \in Calls => ~Has(Tail(up), Calls, Head(up).turn)
        BY <1>0, <2>1, TailHas
    <2> QED BY <2>1, <2>2, <2>3 DEF Asks
<1>10. /\ \A f \in Frames : f.type \notin Replies /\ f.turn <= taken =>
             /\ Append(down, f) \in Seq(Frames) /\ Distinct(Append(down, f), Replies) /\ Upto(Append(down, f), taken)
             /\ \A t : Has(Append(down, f), Replies, t) => Answers(t)
       /\ \A f \in Frames : f.turn <= taken /\ ~Answers(f.turn) =>
             /\ Append(down, f) \in Seq(Frames) /\ Distinct(Append(down, f), Replies) /\ Upto(Append(down, f), taken)
             /\ \A t : Has(Append(down, f), Replies, t) => Answers(t) \/ t = f.turn
    <2>1. ASSUME NEW f \in Frames, f.type \notin Replies, f.turn <= taken
          PROVE  /\ Append(down, f) \in Seq(Frames) /\ Distinct(Append(down, f), Replies) /\ Upto(Append(down, f), taken)
                 /\ \A t : Has(Append(down, f), Replies, t) => Answers(t)
        BY <1>0, <2>1, QuietAppend DEF Answers
    <2>2. ASSUME NEW f \in Frames, f.turn <= taken, ~Answers(f.turn)
          PROVE  /\ Append(down, f) \in Seq(Frames) /\ Distinct(Append(down, f), Replies) /\ Upto(Append(down, f), taken)
                 /\ \A t : Has(Append(down, f), Replies, t) => Answers(t) \/ t = f.turn
        <3>1. Append(down, f) \in Seq(Frames)
            BY <1>0, AppendProperties
        <3>2. Distinct(Append(down, f), Replies)
            BY <1>0, <2>2, AppendDistinct DEF Answers
        <3>3. Upto(Append(down, f), taken)
            BY <1>0, <2>2, AppendUpto
        <3>4. \A t : Has(Append(down, f), Replies, t) => Answers(t) \/ t = f.turn
            BY <1>0, AppendHas DEF Answers
        <3> QED BY <3>1, <3>2, <3>3, <3>4
    <2> QED BY <2>1, <2>2
<1>11. /\ Frame("error", 0) \in Frames /\ Frame("error", 0).type \notin Replies /\ Frame("error", 0).turn = 0
       /\ Frame("session_ended", 0) \in Frames /\ Frame("session_ended", 0).type \notin Replies
       /\ Frame("session_ended", 0).turn = 0
       /\ Frame("session_started", 0) \in Frames /\ Frame("session_started", 0).turn = 0
    BY FrameTypes DEF Replies
<1>12. CASE ServeStart
    <2>1. Serve("start") /\ "start" \in Calls
        BY <1>12 DEF ServeStart, Calls
    <2>2. Head(up).turn = 0
        BY <1>9, <2>1 DEF Frames
    <2>3. CASE down' = Append(down, Frame("session_started", 0)) /\ server' = [server EXCEPT !.started = TRUE]
        <3>1. server' \in Server /\ server'.turn = 0 /\ server'.at = "receive"
            BY <1>0, <1>9, <2>1, <2>3 DEF Server
        <3>2. ~Answers(0) /\ ~Told(0) /\ Asks(0)
            BY <1>0, <1>4, <1>9, <2>1, <2>2
        <3>3. /\ down' \in Seq(Frames) /\ Distinct(down', Replies) /\ Upto(down', taken)
              /\ \A t : Has(down', Replies, t) => Answers(t) \/ t = 0
            BY <1>0, <1>10, <1>11, <2>3, <3>2
        <3>4. ~Asks(0)' /\ ~Told(0)'
            BY <1>2, <1>9, <2>1, <2>2, <3>2 DEF Asks, Told
        <3>5. ~Early'
            <4>1. ~Early
                BY <3>2 DEF TypeInv, FlowInv, Opening, Incoming
            <4> QED BY <1>9, <2>1, <4>1 DEF Early
        <3>6. FlowInv'
            <4>1. \A s : s # 0 => /\ Has(up', Calls, s) => Asks(s)
                                  /\ Has(down', Replies, s) => Answers(s)
                                  /\ Says(messages', "ai", s) => Told(s)
                                  /\ server'.at = "reply" /\ server'.turn = s => Serving(s)
                                  /\ server'.turn = s => server.turn = s \/ s = 0
                BY <1>2, <1>3, <1>9, <2>1, <3>1, <3>3
            <4>2. ~Serving(0)'
                BY <3>1 DEF Serving
            <4> QED BY <1>0, <1>1, <1>2, <1>9, <2>1, <3>1, <3>3, <3>4, <3>5, <4>1, <4>2, FlowMoves
        <3> QED BY <1>2, <1>9, <2>1, <3>1, <3>3, <3>6, TalkMoves
    <2>4. CASE down' = Append(down, Frame("error", 0)) /\ UNCHANGED server
        <3>1. /\ down' \in Seq(Frames) /\ Distinct(down', Replies) /\ Upto(down', taken)
              /\ \A t : Has(down', Replies, t) => Answers(t)
            BY <1>0, <1>10, <1>11, <2>4
        <3>2. FlowInv'
            BY <1>0, <1>1, <1>2, <1>9, <2>1, <2>4, <3>1, FlowQuiet DEF Early
        <3> QED BY <1>0, <1>2, <1>9, <2>1, <2>4, <3>1, <3>2, TalkMoves
    <2> QED BY <1>12, <2>3, <2>4 DEF ServeStart
<1>13. CASE ServeTurn
    <2>1. /\ Serve("turn") /\ "turn" \in Calls /\ UNCHANGED down
          /\ server' = [server EXCEPT !.at = "reply", !.turn = Head(up).turn]
        BY <1>13 DEF ServeTurn, Calls
    <2>2. Head(up).turn \in Turns
        BY <1>9, <2>1 DEF Frames
    <2>3. PICK t \in Turns : t = Head(up).turn
        BY <2>2
    <2>4. t \in Steps /\ t # 0 /\ t <= taken
        BY <1>1, <1>9, <2>1, <2>3 DEF Turns, Steps
    <2>5. server' \in Server /\ server'.turn = t /\ server'.at = "reply"
        BY <1>0, <2>1, <2>3, <2>4 DEF Server, Steps
    <2>6. ~Answers(t) /\ ~Told(t) /\ Asks(t) /\ ~Has(up', Calls, t)
        BY <1>4, <1>9, <2>1, <2>3, <2>4
    <2>7. ~Asks(t)' /\ ~Told(t)' /\ ~Answers(t)'
        BY <1>2, <2>1, <2>6 DEF Asks, Told, Answers
    <2>8. FlowInv'
        <3>1. \A s : s # t => /\ Has(up', Calls, s) => Asks(s)
                              /\ Has(down', Replies, s) => Answers(s)
                              /\ Says(messages', "ai", s) => Told(s)
                              /\ server'.at = "reply" /\ server'.turn = s => Serving(s)
                              /\ server'.turn = s => server.turn = s \/ s = 0
            BY <1>2, <1>3, <1>9, <2>1, <2>5
        <3>2. /\ Asks(t)' => ~Answers(t)' /\ ~Told(t)' /\ (t # 0 => server'.turn # t)
              /\ Serving(t)' => ~Answers(t)' /\ ~Told(t)'
              /\ Answers(t)' => ~Told(t)'
            BY <2>7
        <3>3. (Early' => Early /\ t # 0) /\ (fetching' # "done" => socket' = "none")
            BY <1>0, <1>9, <2>1, <2>4 DEF Early
        <3> QED BY <1>0, <1>1, <1>2, <1>9, <2>1, <2>4, <2>5, <3>1, <3>2, <3>3, FlowMoves
    <2> QED BY <1>0, <1>2, <1>9, <2>1, <2>5, <2>8, TalkMoves
<1>14. CASE ServeEnd
    <2>1. Serve("end")
        BY <1>14 DEF ServeEnd
    <2>2. /\ server' = [NoServer EXCEPT !.at = "closed"] \/ server' = server
          /\ down' = Append(down, Frame("session_ended", 0)) \/ down' = Append(down, Frame("error", 0))
        BY <1>14 DEF ServeEnd
    <2>3. server' \in Server /\ server'.turn = 0 /\ server'.at \in {"closed", "receive"}
        BY <1>0, <1>1, <1>9, <2>1, <2>2 DEF Server, NoServer
    <2>4. /\ down' \in Seq(Frames) /\ Distinct(down', Replies) /\ Upto(down', taken)
          /\ \A t : Has(down', Replies, t) => Answers(t)
        BY <1>0, <1>10, <1>11, <2>2
    <2>5. FlowInv'
        BY <1>0, <1>1, <1>2, <1>9, <2>1, <2>3, <2>4, FlowQuiet DEF Early
    <2> QED BY <1>2, <1>9, <2>1, <2>3, <2>4, <2>5, TalkMoves
<1>15. CASE Answer
    <2>1. server.at \in {"reply", "feedback"} /\ UNCHANGED <<up, fetching, socket>>
        BY <1>15 DEF Answer
    <2>2. server.turn \in Turns
        BY <1>0, <2>1 DEF Steps, Turns
    <2>3. PICK t \in Turns : t = server.turn
        BY <2>2
    <2>4. t \in Steps /\ t # 0
        BY <1>0, <2>1, <2>3
    <2>5. CASE /\ down' = Append(down, Frame("turn_result", t)) /\ server' = [server EXCEPT !.at = "feedback"]
               /\ server.at = "reply"
        <3>1. server' \in Server /\ server'.turn = t /\ server'.at = "feedback"
            BY <1>0, <2>3, <2>5 DEF Server
        <3>2. ~Answers(t) /\ ~Told(t) /\ ~Asks(t)
            BY <1>3, <1>4, <2>3, <2>4, <2>5
        <3>3. /\ down' \in Seq(Frames) /\ Distinct(down', Replies) /\ Upto(down', taken)
              /\ \A s : Has(down', Replies, s) => Answers(s) \/ s = t
            <4>1. Frame("turn_result", t) \in Frames /\ Frame("turn_result", t).turn = t
                BY FrameTypes
            <4> QED BY <1>0, <1>10, <2>3, <2>5, <3>2, <4>1
        <3>4. ~Asks(t)' /\ ~Told(t)' /\ ~Serving(t)'
            BY <1>2, <2>1, <3>1, <3>2 DEF Asks, Told, Serving
        <3>5. FlowInv'
            <4>1. \A s : s # t => /\ Has(up', Calls, s) => Asks(s)
                                  /\ Has(down', Replies, s) => Answers(s)
                                  /\ Says(messages', "ai", s) => Told(s)
                                  /\ server'.at = "reply" /\ server'.turn = s => Serving(s)
                                  /\ server'.turn = s => server.turn = s \/ s = 0
                BY <1>2, <1>3, <2>1, <3>1, <3>3
            <4>2. (Early' => Early /\ t # 0) /\ (fetching' # "done" => socket' = "none")
                BY <1>0, <2>1, <2>4 DEF Early
            <4>3. server'.turn <= taken /\ (server'.at \in {"reply", "feedback"} <=> server'.turn # 0)
                BY <1>0, <2>3, <2>4, <3>1
            <4> QED BY <1>0, <1>1, <1>2, <2>1, <2>4, <3>3, <3>4, <4>1, <4>2, <4>3, FlowMoves
        <3> QED BY <1>0, <1>2, <2>1, <3>1, <3>3, <3>5, TalkMoves
    <2>6. CASE /\ server' = [server EXCEPT !.at = "receive", !.turn = 0]
               /\ down' = Append(down, Frame("turn_feedback", t)) \/ down' = Append(down, Frame("error", 0))
        <3>1. server' \in Server /\ server'.turn = 0 /\ server'.at = "receive"
            BY <1>0, <2>6 DEF Server, Steps
        <3>2. /\ down' \in Seq(Frames) /\ Distinct(down', Replies) /\ Upto(down', taken)
              /\ \A s : Has(down', Replies, s) => Answers(s)
            <4>1. /\ Frame("turn_feedback", t) \in Frames /\ Frame("turn_feedback", t).turn = t
                  /\ Frame("turn_feedback", t).type \notin Replies
                BY FrameTypes DEF Replies
            <4> QED BY <1>0, <1>10, <1>11, <2>3, <2>6, <4>1
        <3>3. FlowInv'
            BY <1>0, <1>1, <1>2, <1>3, <2>1, <3>1, <3>2, FlowQuiet DEF Early
        <3> QED BY <1>0, <1>2, <2>1, <3>1, <3>2, <3>3, TalkMoves
    <2>7. \/ /\ down' = Append(down, Frame("turn_result", t)) /\ server' = [server EXCEPT !.at = "feedback"]
             /\ server.at = "reply"
          \/ /\ server' = [server EXCEPT !.at = "receive", !.turn = 0]
             /\ down' = Append(down, Frame("turn_feedback", t)) \/ down' = Append(down, Frame("error", 0))
        <3>1. CASE server.at = "reply"
            BY <1>15, <2>3, <3>1 DEF Answer
        <3>2. CASE server.at = "feedback"
            BY <1>15, <2>3, <3>2 DEF Answer
        <3> QED BY <2>1, <3>1, <3>2
    <2> QED BY <2>5, <2>6, <2>7
<1>16. CASE ServerSeesClose
    <2>1. UNCHANGED <<up, down, fetching, socket>> /\ server' = [NoServer EXCEPT !.at = "closed"]
        BY <1>16 DEF ServerSeesClose
    <2>2. server' \in Server /\ server'.turn = 0 /\ server'.at = "closed"
        BY <1>0, <1>1, <2>1 DEF Server, NoServer, Steps
    <2>3. FlowInv'
        BY <1>0, <1>1, <1>2, <1>3, <2>1, <2>2, FlowQuiet DEF Early
    <2> QED BY <1>0, <1>2, <2>1, <2>2, <2>3, TalkMoves
<1>17. CASE ConnectionLost
    <2>1. /\ up' = <<>> /\ down' = <<>> /\ UNCHANGED <<fetching, server>>
          /\ socket \in {"connecting", "open"} /\ socket' = "failing"
        BY <1>17 DEF ConnectionLost
    <2>2. /\ up' \in Seq(Frames) /\ Distinct(up', Calls) /\ Upto(up', taken) /\ \A t : ~Has(up', Calls, t)
          /\ down' \in Seq(Frames) /\ Distinct(down', Replies) /\ Upto(down', taken) /\ \A t : ~Has(down', Replies, t)
        BY <2>1 DEF Distinct, Upto, Has
    <2>3. FlowInv'
        BY <1>0, <1>1, <1>2, <2>1, <2>2, FlowQuiet DEF Early
    <2> QED BY <1>0, <1>2, <2>1, <2>2, <2>3, TalkMoves
<1> QED BY <1>5, <1>6, <1>7, <1>8, <1>12, <1>13, <1>14, <1>15, <1>16, <1>17 DEF Backend, Network

\* What the handler of a frame finds at the head of the queue.
LEMMA Received ==
    ASSUME TypeInv, NEW type, Receive(type)
    PROVE  /\ down # <<>> /\ Head(down) \in Frames /\ Head(down).type = type /\ down' = Tail(down)
           /\ socket = "open" /\ socketRef /\ mounted /\ Head(down).turn <= taken /\ Head(down).turn \in Steps
           /\ UNCHANGED <<mounted, fetching, socket, socketRef, taken, up, server>>
           /\ fetching = "done" /\ ~Early'
           /\ down' \in Seq(Frames) /\ Upto(down', taken) /\ Distinct(down', Replies)
           /\ \A t : Has(down', Replies, t) => Answers(t)
           /\ type \in Replies => Answers(Head(down).turn) /\ ~Has(down', Replies, Head(down).turn)
<1>1. /\ down # <<>> /\ Head(down).type = type /\ down' = Tail(down) /\ socket = "open" /\ socketRef
      /\ UNCHANGED <<mounted, fetching, socket, socketRef, taken, up, server>>
    BY DEF Receive
<1>2. mounted
    BY <1>1 DEF TypeInv, VoiceInv
<1>3. fetching = "done" /\ ~Early'
    BY <1>1, FlowBasics DEF Early
<1>4. /\ Tail(down) \in Seq(Frames) /\ Head(down) \in Frames
      /\ \A t : Has(Tail(down), Replies, t) => Has(down, Replies, t)
      /\ Upto(Tail(down), taken) /\ Head(down).turn <= taken
      /\ Head(down).type \in Replies => Has(down, Replies, Head(down).turn)
      /\ Distinct(Tail(down), Replies)
      /\ Head(down).type \in Replies => ~Has(Tail(down), Replies, Head(down).turn)
    BY <1>1, FlowBasics, TailHas
<1>5. Head(down).turn \in Steps
    BY <1>4, SpeakingClientAssumption DEF Frames, Turns, Steps
<1> QED BY <1>1, <1>2, <1>3, <1>4, <1>5 DEF Answers

\* The reply of a turn, or the greeting, arrives and enters the transcript.
LEMMA ReplyArrives ==
    ASSUME TypeInv, NEW type \in Replies, Receive(type), NEW t, Head(down).turn = t,
           Conversation(messages', taken), \A s : Says(messages', "ai", s) <=> Told(s) \/ s = t
    PROVE  FlowInv'
<1>0. /\ Upto(up, taken) /\ Distinct(up, Calls) /\ server.turn <= taken
      /\ server.at \in {"reply", "feedback"} <=> server.turn # 0
    BY FlowBasics
<1>1. /\ UNCHANGED <<fetching, socket, taken, up, server>> /\ fetching = "done" /\ ~Early' /\ t \in Steps
      /\ Upto(down', taken) /\ Distinct(down', Replies)
      /\ \A s : Has(down', Replies, s) => Answers(s)
      /\ Answers(t) /\ ~Has(down', Replies, t)
    BY Received
<1>2. ~Asks(t) /\ ~Serving(t)
    BY <1>1 DEF TypeInv, FlowInv, OneWay
<1>3. ~Asks(t)' /\ ~Serving(t)' /\ ~Answers(t)'
    BY <1>1, <1>2 DEF Asks, Serving, Answers
<1>4. \A s : s # t => /\ Has(up', Calls, s) => Asks(s)
                      /\ Has(down', Replies, s) => Answers(s)
                      /\ Says(messages', "ai", s) => Told(s)
                      /\ server'.at = "reply" /\ server'.turn = s => Serving(s)
                      /\ server'.turn = s => server.turn = s \/ s = 0
    BY <1>1 DEF Asks, Serving
<1> QED BY <1>0, <1>1, <1>3, <1>4, FlowMoves

LEMMA BrowserTalk ==
    ASSUME TypeInv, Browser
    PROVE  TalkOK' /\ Grown(messages', messages)
<1>0. /\ Upto(up, taken) /\ Upto(down, taken) /\ Distinct(up, Calls) /\ Distinct(down, Replies)
      /\ server.turn <= taken /\ server \in Server /\ server.turn \in Steps
      /\ server.at \in {"reply", "feedback"} <=> server.turn # 0
      /\ up \in Seq(Frames) /\ down \in Seq(Frames) /\ 0 \in Steps /\ 0 <= taken
      /\ fetching # "done" => socket = "none"
    BY FlowBasics
<1>1. /\ SameShape(messages, messages) /\ Grown(messages, messages) /\ Conversation(messages, taken)
      /\ messages \in Seq(Entries) /\ taken \in 0 .. MaxTurns
    BY Basics
<1>2. /\ \A t : Has(up, Calls, t) => Asks(t)
      /\ \A t : Has(down, Replies, t) => Answers(t)
    BY DEF Asks, Answers
<1>3. CASE Connect
    <2>1. /\ UNCHANGED <<messages, speech, taken, up, down, server, mounted>> /\ fetching' = "done"
          /\ fetching = "answered" /\ (socketRef' => socketRef \/ mounted)
        BY <1>3 DEF Connect, connFrame, netVars
    <2>2. Early
        BY <1>0, <2>1 DEF Early
    <2> QED BY <2>1, <2>2, TalkKept
<1>4. CASE ConnectFails
    BY <1>0, <1>4, TalkKept DEF ConnectFails, connFrame, netVars, refVars, Early
<1>5. CASE OnErrorEvent
    BY <1>0, <1>5, TalkKept DEF OnErrorEvent, connFrame, netVars, refVars, Early
<1>6. CASE OnClose
    BY <1>0, <1>6, TalkKept DEF OnClose, netVars, Early
<1>7. CASE OnOpen
    <2>1. /\ UNCHANGED <<messages, speech, taken, down, server, mounted, fetching, socketRef>>
          /\ socket = "connecting" /\ socket' = "open" /\ server.at = "receive"
          /\ up' = Append(up, Frame("start", 0)) \/ up' = up
        BY <1>7 DEF OnOpen, connFrame, refVars
    <2>2. /\ ~Asks(0) /\ ~Serving(0) /\ ~Answers(0) /\ ~Told(0) /\ ~Early'
        BY <2>1 DEF TypeInv, FlowInv, Opening, Early, Incoming
    <2>3. /\ up' \in Seq(Frames) /\ Upto(up', taken) /\ Distinct(up', Calls)
          /\ \A t : Has(up', Calls, t) => Asks(t) \/ t = 0
        <3>1. CASE up' = up
            BY <1>0, <1>2, <3>1
        <3>2. CASE up' = Append(up, Frame("start", 0))
            <4>1. Frame("start", 0) \in Frames /\ Frame("start", 0).turn = 0 /\ ~Has(up, Calls, 0)
                BY <2>2, FrameTypes DEF Asks
            <4>2. up' \in Seq(Frames)
                BY <1>0, <3>2, <4>1, AppendProperties
            <4>3. Upto(up', taken)
                BY <1>0, <3>2, <4>1, AppendUpto
            <4>4. Distinct(up', Calls)
                BY <1>0, <3>2, <4>1, AppendDistinct
            <4>5. \A t : Has(up', Calls, t) => Asks(t) \/ t = 0
                BY <1>0, <3>2, <4>1, AppendHas DEF Asks
            <4> QED BY <4>2, <4>3, <4>4, <4>5
        <3> QED BY <2>1, <3>1, <3>2
    <2>4. FlowInv'
        <3>1. ~Told(0)' /\ ~Serving(0)' /\ ~Answers(0)'
            BY <2>1, <2>2 DEF Told, Serving, Answers
        <3>2. \A s : s # 0 => /\ Has(up', Calls, s) => Asks(s)
                              /\ Has(down', Replies, s) => Answers(s)
                              /\ Says(messages', "ai", s) => Told(s)
                              /\ server'.at = "reply" /\ server'.turn = s => Serving(s)
                              /\ server'.turn = s => server.turn = s \/ s = 0
            BY <1>2, <2>1, <2>3 DEF Told, Serving
        <3>3. fetching' # "done" => socket' = "none"
            BY <1>0, <2>1
        <3> QED BY <1>0, <1>1, <2>1, <2>2, <2>3, <3>1, <3>2, <3>3, FlowMoves
    <2> QED BY <1>0, <2>1, <2>3, <2>4, TalkMoves
<1>8. CASE OnSessionStarted
    <2>1. Receive("session_started") /\ "session_started" \in Replies
        BY <1>8 DEF OnSessionStarted, Replies
    <2>2. /\ Head(down).turn = 0 /\ mounted /\ mounted' /\ ~Told(0) /\ down' \in Seq(Frames)
          /\ UNCHANGED <<taken, up, server>>
        <3>1. Head(down).turn = 0
            BY <2>1, Received DEF Frames
        <3>2. Answers(0)
            BY <2>1, <3>1, Received
        <3> QED BY <1>0, <2>1, <3>1, <3>2, Received DEF TypeInv, FlowInv, OneWay
    <2>3. \A i \in DOMAIN messages : messages[i].speaker = "user" /\ messages[i].turn = 0 => messages[i].transcribed
        BY <1>1 DEF Conversation
    <2>4. PICK spoken \in BOOLEAN : AppendAssistantMessage(messages, 0, spoken)
        BY <1>8 DEF OnSessionStarted
    <2>5. /\ messages' \in Seq(Entries) /\ Grown(messages', messages) /\ Conversation(messages', taken)
          /\ \A s : Says(messages', "ai", s) <=> Told(s) \/ s = 0
          /\ speech' \in Speeches /\ speech'.entry <= Len(messages')
          /\ speech'.entry # 0 => messages'[speech'.entry].speaking
          /\ speech'.entry = 0 => ~speech'.startTimer /\ ~speech'.interval
          /\ mounted => \A i \in DOMAIN messages' : i # speech'.entry => messages'[i].shown = Words /\ ~messages'[i].speaking
        BY <1>0, <1>1, <2>2, <2>3, <2>4, TutorAppended
    <2>6. FlowInv'
        BY <2>1, <2>2, <2>5, ReplyArrives
    <2>7. VoiceInv'
        BY <2>2, <2>5 DEF VoiceInv
    <2> QED BY <1>0, <1>1, <2>2, <2>5, <2>6, <2>7 DEF TalkOK
<1>9. CASE OnTurnResult
    <2>1. Receive("turn_result") /\ "turn_result" \in Replies
        BY <1>9 DEF OnTurnResult, Replies
    <2>2. PICK t \in Steps : t = Head(down).turn
        BY <2>1, Received
    <2>3. /\ mounted /\ mounted' /\ ~Told(t) /\ t <= taken /\ down' \in Seq(Frames)
          /\ UNCHANGED <<taken, up, server>>
        <3>1. Answers(t)
            BY <2>1, <2>2, Received
        <3> QED BY <1>0, <2>1, <2>2, <3>1, Received DEF TypeInv, FlowInv, OneWay
    <2>4. PICK spoken \in BOOLEAN : AppendAssistantMessage(Answered(t), t, spoken)
        BY <1>9, <2>2 DEF OnTurnResult
    <2>5. /\ SameShape(Answered(t), messages) /\ Grown(Answered(t), messages) /\ Answered(t) \in Seq(Entries)
          /\ \A i \in DOMAIN messages : Answered(t)[i].shown = messages[i].shown /\ Answered(t)[i].speaking = messages[i].speaking
          /\ \A i \in DOMAIN Answered(t) : Answered(t)[i].speaker = "user" /\ Answered(t)[i].turn = t => Answered(t)[i].transcribed
        BY <1>1, AnsweredLog
    <2>6. /\ messages' \in Seq(Entries) /\ Grown(messages', messages) /\ Conversation(messages', taken)
          /\ \A s : Says(messages', "ai", s) <=> Told(s) \/ s = t
          /\ speech' \in Speeches /\ speech'.entry <= Len(messages')
          /\ speech'.entry # 0 => messages'[speech'.entry].speaking
          /\ speech'.entry = 0 => ~speech'.startTimer /\ ~speech'.interval
          /\ mounted => \A i \in DOMAIN messages' : i # speech'.entry => messages'[i].shown = Words /\ ~messages'[i].speaking
        BY <2>3, <2>4, <2>5, TutorAppended
    <2>7. FlowInv'
        BY <2>1, <2>2, <2>6, ReplyArrives
    <2>8. VoiceInv'
        BY <2>3, <2>6 DEF VoiceInv
    <2> QED BY <1>0, <1>1, <2>3, <2>6, <2>7, <2>8 DEF TalkOK
<1>10. ASSUME NEW type, Receive(type), SameShape(messages', messages)
       PROVE  FlowInv' /\ down' \in Seq(Frames) /\ UNCHANGED <<taken, up, server, mounted, socketRef>>
    <2>1. /\ UNCHANGED <<fetching, socket, taken, up, server, mounted, socketRef>> /\ ~Early' /\ fetching = "done"
          /\ down' \in Seq(Frames) /\ Upto(down', taken) /\ Distinct(down', Replies)
          /\ \A t : Has(down', Replies, t) => Answers(t)
        BY <1>10, Received
    <2> QED BY <1>0, <1>2, <1>10, <2>1, FlowQuiet
<1>11. CASE OnTurnFeedback
    <2>1. Receive("turn_feedback") /\ UNCHANGED speech
        BY <1>11 DEF OnTurnFeedback
    <2>2. PICK t : t = Head(down).turn
        OBVIOUS
    <2>3. messages' = Coached(t)
        BY <1>11, <2>2 DEF OnTurnFeedback
    <2>4. /\ messages' \in Seq(Entries) /\ SameShape(messages', messages) /\ Grown(messages', messages)
          /\ \A i \in DOMAIN messages : messages'[i].shown = messages[i].shown /\ messages'[i].speaking = messages[i].speaking
        BY <1>1, <2>3, CoachedLog
    <2>5. FlowInv' /\ down' \in Seq(Frames) /\ UNCHANGED <<taken, up, server, mounted, socketRef>>
        BY <1>10, <2>1, <2>4
    <2>6. VoiceInv'
        <3>1. DOMAIN messages' = DOMAIN messages /\ (speech.entry # 0 => speech.entry \in DOMAIN messages)
            BY <2>4, Basics DEF SameShape
        <3>2. /\ speech.entry # 0 => messages[speech.entry].speaking
              /\ speech.entry = 0 => ~speech.startTimer /\ ~speech.interval
              /\ ~mounted => ~socketRef /\ speech.entry = 0
              /\ mounted => \A i \in DOMAIN messages : i # speech.entry => messages[i].shown = Words /\ ~messages[i].speaking
            BY DEF TypeInv, VoiceInv
        <3> QED BY <2>1, <2>4, <2>5, <3>1, <3>2 DEF VoiceInv
    <2>7. speech' \in Speeches /\ speech'.entry <= Len(messages')
        BY <2>1, <2>4 DEF TypeInv, TypeOK, SameShape
    <2> QED BY <1>0, <1>1, <2>4, <2>5, <2>6, <2>7 DEF TalkOK
<1>12. CASE OnSessionEnded
    <2>1. Receive("session_ended") /\ UNCHANGED <<messages, speech>>
        BY <1>12 DEF OnSessionEnded
    <2>2. FlowInv' /\ down' \in Seq(Frames) /\ UNCHANGED <<taken, up, server, mounted, socketRef>>
        BY <1>1, <1>10, <2>1
    <2> QED BY <1>0, <2>1, <2>2, TalkMoves
<1>13. CASE OnErrorFrame
    <2>1. Receive("error") /\ UNCHANGED <<messages, speech>>
        BY <1>13 DEF OnErrorFrame
    <2>2. FlowInv' /\ down' \in Seq(Frames) /\ UNCHANGED <<taken, up, server, mounted, socketRef>>
        BY <1>1, <1>10, <2>1
    <2> QED BY <1>0, <2>1, <2>2, TalkMoves
<1> QED BY <1>3, <1>4, <1>5, <1>6, <1>7, <1>8, <1>9, <1>11, <1>12, <1>13 DEF Browser

LEMMA MicTalk ==
    ASSUME TypeInv, Recorder \/ Permission \/ StopRecording \/ \E k \in Mics : StartRecording(k)
    PROVE  TalkOK' /\ Grown(messages', messages)
<1>0. /\ fetching # "done" => socket = "none"
      /\ server \in Server /\ down \in Seq(Frames) /\ speech \in Speeches
    BY FlowBasics, Basics
<1>1. ASSUME NEW k \in Mics, StartRecording(k) \/ StopRecording \/ MicGranted(k) \/ MicDenied(k) \/ BlobFails(k)
      PROVE  TalkOK' /\ Grown(messages', messages)
    BY <1>0, <1>1, TalkKept
       DEF StartRecording, StopRecording, MicGranted, MicDenied, BlobFails, micFrame, refVars, Early
<1>2. ASSUME NEW k \in Mics, NEW sound \in BOOLEAN, HandleRecordingStop(k, sound)
      PROVE  TalkOK' /\ Grown(messages', messages)
    <2>1. UNCHANGED <<micFrame, pending, messages, taken, up, late, faults>>
        BY <1>2 DEF HandleRecordingStop
    <2> QED BY <1>0, <2>1, TalkKept DEF micFrame, refVars, Early
<1>3. ASSUME NEW k \in Mics, SendAudioTurn(k)
      PROVE  TalkOK' /\ Grown(messages', messages)
    <2>1. UNCHANGED <<mounted, fetching, socket, socketRef, speech, down, server>>
        BY <1>3 DEF SendAudioTurn, micFrame, refVars
    <2>2. CASE pending # 0
        BY <1>0, <1>3, <2>1, <2>2, TalkKept DEF SendAudioTurn, Early
    <2>3. CASE pending = 0
        <3>1. TakeTurn(messages, FALSE)
            BY <1>3, <2>3 DEF SendAudioTurn
        <3>2. /\ messages' \in Seq(Entries) /\ Grown(messages', messages) /\ FlowInv' /\ VoiceInv'
              /\ speech'.entry <= Len(messages') /\ taken' \in Turns /\ up' \in Seq(Frames)
            BY <2>1, <3>1, TurnTaken
        <3>3. taken' \in 0 .. MaxTurns
            BY <3>2, SpeakingClientAssumption DEF Turns
        <3> QED BY <1>0, <2>1, <3>2, <3>3 DEF TalkOK
    <2> QED BY <2>2, <2>3
<1>4. CASE StopRecording
    BY <1>0, <1>4, TalkKept DEF StopRecording, micFrame, refVars, Early
<1> QED BY <1>1, <1>2, <1>3, <1>4 DEF Recorder, Permission

\* The frame that asks for the end adds no turn.
LEMMA EndFrame ==
    ASSUME TypeInv, up' = Append(up, Frame("end", 0)) \/ up' = up
    PROVE  /\ up' \in Seq(Frames) /\ Distinct(up', Calls) /\ Upto(up', taken)
           /\ \A t : Has(up', Calls, t) => Asks(t)
<1>1. /\ Frame("end", 0) \in Frames /\ Frame("end", 0).type \notin Calls /\ Frame("end", 0).turn <= taken
      /\ up \in Seq(Frames) /\ Distinct(up, Calls) /\ Upto(up, taken)
    BY FrameTypes, FlowBasics DEF Calls
<1>2. CASE up' = up
    BY <1>1, <1>2 DEF Asks
<1>3. CASE up' = Append(up, Frame("end", 0))
    BY <1>1, <1>3, QuietAppend DEF Asks
<1> QED BY <1>2, <1>3

LEMMA UserTalk ==
    ASSUME TypeInv, SendText \/ EndSession \/ Unmount
    PROVE  TalkOK' /\ Grown(messages', messages)
<1>0. /\ Upto(up, taken) /\ Upto(down, taken) /\ Distinct(up, Calls) /\ Distinct(down, Replies)
      /\ server.turn <= taken /\ server \in Server /\ server.turn \in Steps
      /\ server.at \in {"reply", "feedback"} <=> server.turn # 0
      /\ up \in Seq(Frames) /\ down \in Seq(Frames)
      /\ fetching # "done" => socket = "none"
    BY FlowBasics
<1>1. /\ SameShape(messages, messages) /\ Grown(messages, messages) /\ messages \in Seq(Entries)
      /\ taken \in 0 .. MaxTurns /\ speech \in Speeches /\ Words \in Nat /\ MaxTurns \in Nat
      /\ speech.entry # 0 => speech.entry \in DOMAIN messages
    BY Basics
<1>2. \A t : Has(down, Replies, t) => Answers(t)
    BY DEF Answers
<1>3. /\ NoSpeech \in Speeches /\ NoSpeech.entry = 0 /\ ~NoSpeech.startTimer /\ ~NoSpeech.interval
    <2>1. 0 \in 0 .. 2 * MaxTurns + 1 /\ 0 \in 0 .. Words + 1
        BY <1>1
    <2> QED BY <2>1 DEF NoSpeech, Speeches
<1>4. CASE SendText
    <2>1. /\ TakeTurn(messages, TRUE)
          /\ UNCHANGED <<mounted, fetching, socket, socketRef, speech, down, server>>
        BY <1>4 DEF SendText, refVars
    <2>2. /\ messages' \in Seq(Entries) /\ Grown(messages', messages) /\ FlowInv' /\ VoiceInv'
          /\ speech'.entry <= Len(messages') /\ taken' \in Turns /\ up' \in Seq(Frames)
        BY <2>1, TurnTaken
    <2>3. taken' \in 0 .. MaxTurns
        BY <1>1, <2>2 DEF Turns
    <2> QED BY <1>0, <1>1, <2>1, <2>2, <2>3 DEF TalkOK
<1>5. CASE EndSession
    <2>1. /\ mounted /\ UNCHANGED <<mounted, fetching, taken, down, server, socketRef>>
          /\ messages' = SpeechStopped(messages) /\ speech' = NoSpeech
          /\ socket' = socket \/ socket' = Closed(socket)
          /\ up' = Append(up, Frame("end", 0)) \/ up' = up
          /\ ~socketRef => socket' = socket
        BY <1>5 DEF EndSession, endFrame
    <2>2. /\ messages' \in Seq(Entries) /\ SameShape(messages', messages) /\ Grown(messages', messages)
          /\ speech.entry # 0 => messages'[speech.entry].shown = Words /\ ~messages'[speech.entry].speaking
          /\ \A i \in DOMAIN messages : i # speech.entry => messages'[i] = messages[i]
        BY <1>1, <2>1, StoppedLog
    <2>3. (Early' => Early) /\ (fetching' # "done" => socket' = "none")
        BY <1>0, <2>1 DEF Early, Closed
    <2>4. /\ up' \in Seq(Frames) /\ Distinct(up', Calls) /\ Upto(up', taken)
          /\ \A t : Has(up', Calls, t) => Asks(t)
        BY <2>1, EndFrame
    <2>5. FlowInv'
        BY <1>0, <1>2, <2>1, <2>2, <2>3, <2>4, FlowQuiet
    <2>6. DOMAIN messages' = DOMAIN messages /\ Len(messages') \in Nat
        BY <2>2, LogBasics DEF SameShape
    <2>7. VoiceInv'
        BY <1>3, <2>1, <2>2, <2>6 DEF TypeInv, VoiceInv
    <2> QED BY <1>0, <1>1, <1>3, <2>1, <2>2, <2>4, <2>5, <2>6, <2>7 DEF TalkOK
<1>6. CASE Unmount
    <2>1. /\ ~mounted' /\ UNCHANGED <<fetching, taken, down, server, messages>> /\ speech' = NoSpeech
          /\ socket' = socket \/ socket' = Closed(socket)
          /\ up' = Append(up, Frame("end", 0)) \/ up' = up
          /\ ~socketRef'
        BY <1>6 DEF Unmount, TypeInv, TypeOK
    <2>2. (Early' => Early) /\ (fetching' # "done" => socket' = "none")
        BY <1>0, <2>1 DEF Early, Closed
    <2>3. /\ up' \in Seq(Frames) /\ Distinct(up', Calls) /\ Upto(up', taken)
          /\ \A t : Has(up', Calls, t) => Asks(t)
        BY <2>1, EndFrame
    <2>4. FlowInv'
        BY <1>0, <1>1, <1>2, <2>1, <2>2, <2>3, FlowQuiet
    <2>5. VoiceInv'
        BY <1>3, <2>1 DEF VoiceInv
    <2>6. speech'.entry <= Len(messages')
        BY <1>1, <1>3, <2>1, LogBasics
    <2> QED BY <1>0, <1>1, <1>3, <2>1, <2>3, <2>4, <2>5, <2>6 DEF TalkOK
<1> QED BY <1>4, <1>5, <1>6

LEMMA TalkStep ==
    ASSUME TypeInv, [Next]_vars
    PROVE  TalkOK' /\ Grown(messages', messages)
<1>1. CASE Next
    BY <1>1, VoiceSteps, BackendTalk, BrowserTalk, MicTalk, UserTalk DEF Next, User
<1>2. CASE UNCHANGED vars
    <2>1. UNCHANGED <<messages, speech, taken, up, down, server, mounted, socketRef, socket, fetching>>
        BY <1>2 DEF vars, refVars, netVars
    <2> QED BY <2>1, TalkKept DEF Early, TypeInv, FlowInv, Opening
<1> QED BY <1>1, <1>2

-----------------------------------------------------------------------------
(* The refs, the recorders and the counters.                                *)

\* The rest of TypeOK.
RestOK ==
    /\ {mounted, socketRef, startedRef, closeRef, chunks, cancelRef, endAsked, refused} \subseteq BOOLEAN
    /\ status \in Statuses
    /\ fetching \in {"asked", "answered", "failed", "done"}
    /\ ticket \in {"none", "issued", "gone"}
    /\ socket \in Sockets
    /\ pending \in 0 .. MaxTurns
    /\ mic \in [Mics -> MicStates] /\ live \subseteq Mics /\ late \subseteq Mics
    /\ recorderRef \in 0 .. MaxMics /\ streamRef \in 0 .. MaxMics
    /\ faults \in 0 .. MaxFaults

MicOK ==
    /\ mic \in [Mics -> MicStates] /\ live \subseteq Mics /\ late \subseteq Mics
    /\ recorderRef \in 0 .. MaxMics /\ streamRef \in 0 .. MaxMics
    /\ chunks \in BOOLEAN /\ cancelRef \in BOOLEAN

LEMMA Split ==
    TypeInv <=> TalkOK /\ RestOK
BY DEF TypeInv, TypeOK, TalkOK, RestOK

LEMMA MicMembers ==
    ASSUME NEW n \in 0 .. MaxMics, n # 0
    PROVE  n \in Mics
BY SpeakingClientAssumption DEF Mics

LEMMA TracksOK ==
    ASSUME MicOK
    PROVE  TracksStopped(mic) \in [Mics -> MicStates] /\ live \ {streamRef} \subseteq Mics /\ 0 \in 0 .. MaxMics
BY MicMembers, SpeakingClientAssumption DEF MicOK, TracksStopped, MicStates

LEMMA AbortOK ==
    ASSUME MicOK, AbortRecording, late' = late
    PROVE  MicOK'
<1>1. CASE recorderRef # 0 /\ mic[recorderRef] = "rec"
    BY <1>1, MicMembers DEF MicOK, AbortRecording, MicStates
<1>2. CASE ~(recorderRef # 0 /\ mic[recorderRef] = "rec")
    <2>1. cancelRef' = TRUE /\ chunks' = FALSE /\ mic' = TracksStopped(mic) /\ StopMediaTracks /\ recorderRef' = 0
        BY <1>2 DEF AbortRecording
    <2> QED BY <2>1, TracksOK DEF MicOK, StopMediaTracks
<1> QED BY <1>1, <1>2

LEMMA MicOKKept ==
    ASSUME MicOK, UNCHANGED <<micVars, late>>
    PROVE  MicOK'
BY DEF MicOK, micVars

LEMMA MicOKStep ==
    ASSUME MicOK, status \in Statuses, faults \in 0 .. MaxFaults, Next
    PROVE  MicOK'
<1>1. ASSUME NEW k \in Mics, StartRecording(k)
      PROVE  MicOK'
    BY <1>1 DEF StartRecording, MicOK, MicStates
<1>2. ASSUME NEW k \in Mics, MicGranted(k)
      PROVE  MicOK'
    <2>1. k \in 0 .. MaxMics
        BY SpeakingClientAssumption DEF Mics
    <2> QED BY <1>2, <2>1 DEF MicGranted, MicOK, MicStates
<1>3. ASSUME NEW k \in Mics, MicDenied(k)
      PROVE  MicOK'
    <2>1. /\ mic' = [TracksStopped(mic) EXCEPT ![k] = "done"] /\ StopMediaTracks
          /\ UNCHANGED <<recorderRef, chunks, cancelRef, late>>
        BY <1>3 DEF MicDenied
    <2> QED BY <2>1, TracksOK DEF MicOK, StopMediaTracks, MicStates
<1>4. CASE StopRecording
    BY <1>4, MicMembers DEF StopRecording, MicOK, MicStates
<1>5. ASSUME NEW k \in Mics, NEW sound \in BOOLEAN, HandleRecordingStop(k, sound)
      PROVE  MicOK'
    <2>1. /\ cancelRef' = FALSE /\ recorderRef' = 0 /\ StopMediaTracks /\ chunks' = FALSE /\ late' = late
          /\ \E s \in {"done", "reading"} : mic' = [TracksStopped(mic) EXCEPT ![k] = s]
        BY <1>5 DEF HandleRecordingStop
    <2> QED BY <2>1, TracksOK DEF MicOK, StopMediaTracks, MicStates
<1>6. ASSUME NEW k \in Mics, SendAudioTurn(k)
      PROVE  MicOK'
    BY <1>6 DEF SendAudioTurn, MicOK, MicStates
<1>7. ASSUME NEW k \in Mics, BlobFails(k)
      PROVE  MicOK'
    BY <1>7 DEF BlobFails, MicOK, MicStates
<1>8. CASE SendText
    BY <1>8, MicOKKept DEF SendText, history
<1>9. CASE EndSession
    BY <1>9, AbortOK DEF EndSession, endFrame
<1>10. CASE Unmount
    BY <1>10, AbortOK DEF Unmount
<1>11. CASE Engine \/ Fallback
    BY <1>11, MicOKKept DEF Engine, Fallback, OnUtteranceStart, OnBoundary, FinishActiveSpeech, StartFallbackReveal,
       RevealNextFallbackWord, voiceFrame, history
<1>12. CASE Backend \/ Network
    BY <1>12, MicOKKept DEF Backend, Network, IssueTicket, TicketRefused, TicketExpires, Admit, ServeStart, ServeTurn,
       ServeEnd, Serve, Answer, ServerSeesClose, ConnectionLost, hookVars, history
<1>13. CASE OnClose
    <2>1. CASE ~socketRef
        BY <1>13, <2>1, MicOKKept DEF OnClose, history, micVars
    <2>2. CASE socketRef
        <3>1. mic' = TracksStopped(mic) /\ StopMediaTracks /\ UNCHANGED <<recorderRef, chunks, cancelRef, late>>
            BY <1>13, <2>2 DEF OnClose, history
        <3> QED BY <3>1, TracksOK DEF MicOK, StopMediaTracks
    <2> QED BY <2>1, <2>2
<1>14. CASE Connect \/ ConnectFails \/ OnOpen \/ OnErrorEvent
    BY <1>14, MicOKKept DEF Connect, ConnectFails, OnOpen, OnErrorEvent, connFrame, history
<1>15. CASE OnSessionStarted \/ OnTurnResult \/ OnTurnFeedback \/ OnSessionEnded \/ OnErrorFrame
    BY <1>15, MicOKKept DEF OnSessionStarted, OnTurnResult, OnTurnFeedback, OnSessionEnded, OnErrorFrame, Receive
<1> QED BY <1>1, <1>2, <1>3, <1>4, <1>5, <1>6, <1>7, <1>8, <1>9, <1>10, <1>11, <1>12, <1>13, <1>14, <1>15
        DEF Next, User, Recorder, Permission, Browser

LinkOK ==
    /\ {mounted, socketRef, startedRef, closeRef, endAsked, refused} \subseteq BOOLEAN
    /\ status \in Statuses
    /\ fetching \in {"asked", "answered", "failed", "done"}
    /\ ticket \in {"none", "issued", "gone"}
    /\ socket \in Sockets
    /\ pending \in 0 .. MaxTurns
    /\ faults \in 0 .. MaxFaults

LEMMA RestSplit ==
    RestOK <=> LinkOK /\ MicOK
BY DEF RestOK, LinkOK, MicOK

LEMMA FaultOK ==
    ASSUME faults \in 0 .. MaxFaults, Fault \/ faults' = faults
    PROVE  faults' \in 0 .. MaxFaults
BY SpeakingClientAssumption DEF Fault

LEMMA TakeOK ==
    ASSUME LinkOK, taken \in 0 .. MaxTurns, NEW transcribed, TakeTurn(messages, transcribed)
    PROVE  pending' \in 0 .. MaxTurns /\ status' \in Statuses
BY SpeakingClientAssumption DEF LinkOK, TakeTurn, Statuses

LEMMA ClosedOK ==
    ASSUME socket \in Sockets
    PROVE  Closed(socket) \in Sockets
BY DEF Closed, Sockets

LEMMA LinkOKStep ==
    ASSUME TypeInv, LinkOK, Next
    PROVE  LinkOK'
<1>0. 0 \in 0 .. MaxTurns /\ taken \in 0 .. MaxTurns
    BY Basics
<1>1. ASSUME NEW k \in Mics, StartRecording(k)
      PROVE  LinkOK'
    BY <1>1 DEF StartRecording, LinkOK, micFrame, refVars
<1>2. ASSUME NEW k \in Mics, MicGranted(k)
      PROVE  LinkOK'
    BY <1>2 DEF MicGranted, LinkOK, micFrame, refVars, Statuses
<1>3. ASSUME NEW k \in Mics, MicDenied(k) \/ BlobFails(k)
      PROVE  LinkOK'
    <2>1. /\ Fault /\ status' = "error" /\ ticket' = ticket /\ pending' = pending
          /\ UNCHANGED <<mounted, fetching, socket, socketRef, startedRef, closeRef, endAsked, refused>>
        BY <1>3 DEF MicDenied, BlobFails, micFrame, refVars
    <2> QED BY <2>1, FaultOK DEF LinkOK, Statuses
<1>4. CASE StopRecording
    BY <1>4 DEF StopRecording, LinkOK, micFrame, refVars, Statuses
<1>5. ASSUME NEW k \in Mics, NEW sound \in BOOLEAN, HandleRecordingStop(k, sound)
      PROVE  LinkOK'
    <2>1. /\ ticket' = ticket /\ pending' = pending /\ faults' = faults
          /\ UNCHANGED <<mounted, fetching, socket, socketRef, startedRef, closeRef, endAsked, refused>>
        BY <1>5 DEF HandleRecordingStop, micFrame, refVars
    <2>2. status' \in {status, "ready"}
        BY <1>5 DEF HandleRecordingStop
    <2> QED BY <2>1, <2>2 DEF LinkOK, Statuses
<1>6. ASSUME NEW k \in Mics, SendAudioTurn(k)
      PROVE  LinkOK'
    <2>1. /\ ticket' = ticket /\ faults' = faults
          /\ UNCHANGED <<mounted, fetching, socket, socketRef, startedRef, closeRef, endAsked, refused>>
        BY <1>6 DEF SendAudioTurn, micFrame, refVars
    <2>2. pending' \in 0 .. MaxTurns /\ status' \in Statuses
        BY <1>0, <1>6, TakeOK DEF SendAudioTurn, LinkOK
    <2> QED BY <2>1, <2>2 DEF LinkOK
<1>7. CASE SendText
    <2>1. /\ ticket' = ticket /\ faults' = faults
          /\ UNCHANGED <<mounted, fetching, socket, socketRef, startedRef, closeRef, endAsked, refused>>
        BY <1>7 DEF SendText, refVars, history
    <2>2. pending' \in 0 .. MaxTurns /\ status' \in Statuses
        BY <1>0, <1>7, TakeOK DEF SendText
    <2> QED BY <2>1, <2>2 DEF LinkOK
<1>8. CASE EndSession
    <2>1. /\ closeRef' = TRUE /\ endAsked' = TRUE /\ status' \in {"ended", "ending"} /\ startedRef' \in {FALSE, startedRef}
          /\ socket' \in {socket, Closed(socket)}
          /\ UNCHANGED <<mounted, fetching, socketRef, pending, ticket, refused, faults>>
        BY <1>8 DEF EndSession, endFrame
    <2> QED BY <2>1, ClosedOK DEF LinkOK, Statuses
<1>9. CASE Unmount
    <2>1. /\ mounted' = FALSE /\ closeRef' \in {TRUE, closeRef} /\ socketRef' \in {FALSE, socketRef}
          /\ socket' \in {socket, Closed(socket)}
          /\ UNCHANGED <<fetching, pending, ticket, refused, faults, status, startedRef, endAsked>>
        BY <1>9 DEF Unmount
    <2> QED BY <2>1, ClosedOK DEF LinkOK
<1>10. CASE Engine \/ Fallback
    <2>1. /\ ticket' = ticket /\ faults' = faults /\ pending' = pending /\ status' = status
          /\ UNCHANGED <<mounted, fetching, socket, socketRef, startedRef, closeRef, endAsked, refused>>
        BY <1>10 DEF Engine, Fallback, OnUtteranceStart, OnBoundary, FinishActiveSpeech, StartFallbackReveal,
           RevealNextFallbackWord, voiceFrame, history, refVars, netVars
    <2> QED BY <2>1 DEF LinkOK
<1>11. CASE Backend \/ Network
    <2>1. UNCHANGED <<mounted, status, socketRef, startedRef, closeRef, pending, endAsked, refused>>
        BY <1>11 DEF Backend, Network, IssueTicket, TicketRefused, TicketExpires, Admit, ServeStart, ServeTurn,
           ServeEnd, Serve, Answer, ServerSeesClose, ConnectionLost, hookVars, history, refVars
    <2>2. faults' \in 0 .. MaxFaults
        <3>1. Fault \/ faults' = faults
            BY <1>11 DEF Backend, Network, IssueTicket, TicketRefused, TicketExpires, Admit, ServeStart, ServeTurn,
               ServeEnd, Serve, Answer, ServerSeesClose, ConnectionLost
        <3> QED BY <3>1, FaultOK DEF LinkOK
    <2>3. /\ fetching' \in {fetching, "answered", "failed"}
          /\ ticket' \in {ticket, "issued", "gone"}
          /\ socket' \in {socket, "failing"}
        BY <1>11 DEF Backend, Network, IssueTicket, TicketRefused, TicketExpires, Admit, ServeStart, ServeTurn,
           ServeEnd, Serve, Answer, ServerSeesClose, ConnectionLost, netVars
    <2> QED BY <2>1, <2>2, <2>3 DEF LinkOK, Sockets
<1>12. CASE OnClose
    <2>1. /\ socket' = "closed" /\ socketRef' = FALSE /\ startedRef' \in {FALSE, startedRef}
          /\ status' \in {status, "ended", "error"}
          /\ UNCHANGED <<mounted, fetching, closeRef, pending, ticket, endAsked, refused, faults>>
        BY <1>12 DEF OnClose, netVars, history
    <2> QED BY <2>1 DEF LinkOK, Sockets, Statuses
<1>13. CASE Connect \/ ConnectFails \/ OnOpen \/ OnErrorEvent
    <2>1. /\ UNCHANGED <<mounted, startedRef, closeRef, pending, ticket, endAsked, refused, faults>>
          /\ socketRef' \in {socketRef, TRUE} /\ status' \in {status, "error"} /\ fetching' \in {fetching, "done"}
          /\ socket' \in {socket, "connecting", "open", "closing"}
        BY <1>13 DEF Connect, ConnectFails, OnOpen, OnErrorEvent, connFrame, refVars, netVars, history
    <2> QED BY <2>1 DEF LinkOK, Sockets, Statuses
<1>14. CASE OnSessionStarted \/ OnTurnResult \/ OnTurnFeedback \/ OnSessionEnded \/ OnErrorFrame
    <2>1. UNCHANGED <<mounted, fetching, socket, socketRef, ticket, endAsked, faults>>
        BY <1>14 DEF OnSessionStarted, OnTurnResult, OnTurnFeedback, OnSessionEnded, OnErrorFrame, Receive
    <2>2. /\ startedRef' \in {startedRef, TRUE, FALSE} /\ closeRef' \in {closeRef, TRUE}
          /\ pending' \in {pending, 0} /\ status' \in {status, "ready", "ended", "error"} /\ refused' \in {refused, TRUE}
        BY <1>14 DEF OnSessionStarted, OnTurnResult, OnTurnFeedback, OnSessionEnded, OnErrorFrame
    <2>3. {startedRef, closeRef, refused} \subseteq BOOLEAN /\ pending \in 0 .. MaxTurns /\ status \in Statuses
        BY DEF LinkOK
    <2>4. {startedRef', closeRef', refused'} \subseteq BOOLEAN
        BY <2>2, <2>3
    <2>5. pending' \in 0 .. MaxTurns /\ status' \in Statuses
        BY <1>0, <2>2, <2>3 DEF Statuses
    <2> QED BY <2>1, <2>4, <2>5 DEF LinkOK
<1> QED BY <1>1, <1>2, <1>3, <1>4, <1>5, <1>6, <1>7, <1>8, <1>9, <1>10, <1>11, <1>12, <1>13, <1>14
        DEF Next, User, Recorder, Permission, Browser

LEMMA TypeStep ==
    ASSUME TypeInv, [Next]_vars
    PROVE  TypeInv' /\ Grown(messages', messages)
<1>1. TalkOK' /\ Grown(messages', messages)
    BY TalkStep
<1>2. LinkOK /\ MicOK
    BY Split, RestSplit
<1>3. RestOK'
    <2>1. CASE Next
        <3>1. LinkOK' /\ MicOK'
            BY <1>2, <2>1, LinkOKStep, MicOKStep DEF LinkOK
        <3> QED BY <3>1 DEF RestOK, LinkOK, MicOK
    <2>2. CASE UNCHANGED vars
        BY <2>2, Split DEF RestOK, vars, refVars, micVars, netVars, history
    <2> QED BY <2>1, <2>2
<1>4. TypeInv'
    BY <1>1, <1>3 DEF TypeInv, TypeOK, TalkOK, RestOK
<1> QED BY <1>1, <1>4

LEMMA TypeInit ==
    ASSUME Init
    PROVE  TypeInv
<1>0. MaxTurns \in Nat /\ Words \in Nat /\ MaxMics \in Nat /\ MaxFaults \in Nat
    BY SpeakingClientAssumption
<1>1. <<>> \in Seq(Entries) /\ <<>> \in Seq(Frames) /\ Len(<<>>) = 0 /\ DOMAIN <<>> = {}
    OBVIOUS
<1>2. NoSpeech \in Speeches /\ NoServer \in Server
    <2>1. 0 \in 0 .. 2 * MaxTurns + 1 /\ 0 \in 0 .. Words + 1 /\ 0 \in 0 .. MaxTurns
        BY <1>0
    <2> QED BY <2>1 DEF NoSpeech, Speeches, NoServer, Server
<1>3. TypeOK
    <2>1. mic \in [Mics -> MicStates]
        BY DEF Init, MicStates
    <2>2. {0} \subseteq 0 .. MaxTurns /\ {0} \subseteq 0 .. MaxMics /\ {0} \subseteq 0 .. MaxFaults
        BY <1>0
    <2>3. messages \in Seq(Entries) /\ up \in Seq(Frames) /\ down \in Seq(Frames) /\ speech \in Speeches /\ server \in Server
        BY <1>1, <1>2 DEF Init
    <2>4. speech.entry <= Len(messages)
        BY <1>1 DEF Init, NoSpeech
    <2> QED BY <2>1, <2>2, <2>3, <2>4 DEF Init, TypeOK, Statuses, Sockets
<1>4. VoiceInv
    BY <1>1 DEF Init, VoiceInv, NoSpeech
<1>5. \A t, kinds, who : ~Has(up, kinds, t) /\ ~Has(down, kinds, t) /\ ~Says(messages, who, t)
    BY <1>1 DEF Init, Has, Says
<1>6. Conversation(messages, taken) /\ Numbered /\ Distinct(up, Calls) /\ Distinct(down, Replies)
    BY <1>1 DEF Init, Conversation, Numbered, Distinct, Upto, NoServer
<1>7. OneWay /\ Opening
    BY <1>5 DEF Init, OneWay, Opening, Asks, Serving, Answers, Told, Incoming, NoServer
<1> QED BY <1>3, <1>4, <1>6, <1>7 DEF TypeInv, FlowInv

-----------------------------------------------------------------------------
(* The theorems that need no more than this.                                *)

\* Every variable has its type: in particular the fallback's next word stays within the reply, and
\* the entry that is spoken within the transcript.
THEOREM TypeCorrect == Spec => []TypeOK
<1>1. Init => TypeInv
    BY TypeInit
<1>2. TypeInv /\ [Next]_vars => TypeInv'
    BY TypeStep
<1>3. TypeInv => TypeOK
    BY DEF TypeInv
<1> QED BY <1>1, <1>2, <1>3, PTL DEF Spec

\* The transcript is a conversation, whatever is lost or refused on the way: a reply stands behind
\* its turn, a turn has one reply at most, and it is transcribed by then.
THEOREM AnswersFollow == Spec => []AnswersFollowTurns
<1>1. Init => TypeInv
    BY TypeInit
<1>2. TypeInv /\ [Next]_vars => TypeInv'
    BY TypeStep
<1>3. TypeInv => AnswersFollowTurns
    BY DEF TypeInv, FlowInv, Conversation, AnswersFollowTurns
<1> QED BY <1>1, <1>2, <1>3, PTL DEF Spec

\* A word of the tutor that is on the screen stays there, and only the entry that is being spoken
\* is shown in part.
THEOREM WordsStay == Spec => WordsShown
<1>1. Init => TypeInv
    BY TypeInit
<1>2. TypeInv /\ [Next]_vars => TypeInv'
    BY TypeStep
<1>3. TypeInv /\ [Next]_vars =>
         [ /\ Len(messages') >= Len(messages)
           /\ \A i \in DOMAIN messages : Displayed(messages'[i]) >= Displayed(messages[i]) ]_messages
    BY TypeStep DEF Grown
<1>4. TypeInv => (mounted => \A i \in DOMAIN messages :
                                i # speech.entry => messages[i].shown = Words /\ ~messages[i].speaking)
    BY DEF TypeInv, VoiceInv
<1> QED BY <1>1, <1>2, <1>3, <1>4, PTL DEF Spec, WordsShown

-----------------------------------------------------------------------------
(* One turn at a time.                                                      *)

FrameKinds == {"start", "end", "session_started", "session_ended", "error", "turn", "turn_result", "turn_feedback"}
Travels(t) == Has(up, FrameKinds, t) \/ Has(down, FrameKinds, t) \/ server.turn = t

LEMMA OnTheWayIs ==
    TypeInv => \A t : t \in OnTheWay <=> t \in 1 .. taken /\ ~Told(t) /\ Travels(t)
<1> SUFFICES ASSUME TypeInv, NEW t
             PROVE  t \in OnTheWay <=> t \in 1 .. taken /\ ~Told(t) /\ Travels(t)
    OBVIOUS
<1>1. \A s : \A q \in Seq(Frames) : Has(q, FrameKinds, s) <=> s \in {q[i].turn : i \in DOMAIN q}
    <2> SUFFICES ASSUME NEW q \in Seq(Frames), NEW s
                 PROVE  Has(q, FrameKinds, s) <=> s \in {q[i].turn : i \in DOMAIN q}
        OBVIOUS
    <2>1. \A i \in DOMAIN q : q[i].type \in FrameKinds
        <3>1. \A f \in Frames : f.type \in FrameKinds
            BY DEF Frames, FrameKinds
        <3> QED BY <3>1, ElementOfSeq, LenProperties
    <2> QED BY <2>1 DEF Has
<1>2. up \in Seq(Frames) /\ down \in Seq(Frames)
    BY Basics
<1>3. Travels(t) <=> t \in {up[i].turn : i \in DOMAIN up} \cup {down[i].turn : i \in DOMAIN down} \cup {server.turn}
    BY <1>1, <1>2 DEF Travels
<1>4. t \in Unanswered <=> t \in 1 .. taken /\ ~Told(t)
    BY DEF Unanswered, Told, Says
<1> QED BY <1>3, <1>4 DEF OnTheWay

LEMMA OnTheWayThen ==
    TypeInv' => (\A t : t \in OnTheWay <=> t \in 1 .. taken /\ ~Told(t) /\ Travels(t))'
BY OnTheWayIs, PTL

LEMMA TurnsTaken ==
    ASSUME TypeInv
    PROVE  \A t : t \in 1 .. taken => t \in Turns
BY Basics DEF Turns

LEMMA ToldStays ==
    ASSUME Grown(messages', messages), NEW t, Told(t)
    PROVE  Told(t)'
BY DEF Grown, Told, Says

\* No frame of a turn is added.
LEMMA PendKept ==
    ASSUME TypeInv, TypeInv', Grown(messages', messages), PendInv, UNCHANGED <<taken, pending, refused>>,
           \A t \in Turns : Travels(t)' => Travels(t)
    PROVE  PendInv'
<1> SUFFICES ASSUME NEW t \in OnTheWay'
             PROVE  refused' \/ t = pending'
    BY DEF PendInv
<1>1. t \in 1 .. taken /\ ~Told(t)' /\ Travels(t)'
    <2>1. t \in 1 .. taken' /\ ~Told(t)' /\ Travels(t)'
        <3>1. (\A s : s \in OnTheWay <=> s \in 1 .. taken /\ ~Told(s) /\ Travels(s))'
            BY OnTheWayThen
        <3> QED BY <3>1
    <2> QED BY <2>1
<1>2. t \in OnTheWay
    BY <1>1, TurnsTaken, ToldStays, OnTheWayIs
<1> QED BY <1>2 DEF PendInv

\* A queue to which no turn is added.
Shed(new, old) == \A t : t # 0 /\ Has(new, FrameKinds, t) => Has(old, FrameKinds, t)

LEMMA ShedQueues ==
    ASSUME NEW q \in Seq(Frames)
    PROVE  /\ Shed(q, q) /\ Shed(<<>>, q) /\ (q # <<>> => Shed(Tail(q), q) /\ Has(q, FrameKinds, Head(q).turn))
           /\ \A f \in Frames : f.turn = 0 => Shed(Append(q, f), q)
<1>1. Shed(q, q) /\ Shed(<<>>, q)
    BY DEF Shed, Has
<1>2. ASSUME q # <<>>
      PROVE  Shed(Tail(q), q) /\ Has(q, FrameKinds, Head(q).turn)
    <2>1. Head(q) \in Frames /\ \A t : Has(Tail(q), FrameKinds, t) => Has(q, FrameKinds, t)
        BY <1>2, TailHas
    <2>2. Head(q).type \in FrameKinds
        BY <2>1 DEF Frames, FrameKinds
    <2>3. Has(q, FrameKinds, Head(q).turn)
        BY <1>2, <2>2, TailHas
    <2> QED BY <2>1, <2>3 DEF Shed
<1>3. ASSUME NEW f \in Frames, f.turn = 0
      PROVE  Shed(Append(q, f), q)
    BY <1>3, AppendHas DEF Shed
<1> QED BY <1>1, <1>2, <1>3

LEMMA TurnsShed ==
    ASSUME Shed(up', up), Shed(down', down), server'.turn \in {0, server.turn}
    PROVE  \A t \in Turns : Travels(t)' => Travels(t)
BY DEF Shed, Travels, Turns

LEMMA PendTaken ==
    ASSUME TypeInv, TypeInv', Grown(messages', messages), PendInv, refused' = refused, pending = 0,
           NEW transcribed, TakeTurn(messages, transcribed), UNCHANGED <<down, server>>
    PROVE  PendInv'
<1> SUFFICES ASSUME NEW t \in OnTheWay', ~refused
             PROVE  t = pending'
    BY DEF PendInv
<1>0. taken' = taken + 1 /\ taken \in Nat /\ up \in Seq(Frames) /\ down \in Seq(Frames) /\ server.turn \in 0 .. MaxTurns
    BY Basics DEF TakeTurn
<1>1. t \in 1 .. taken + 1 /\ ~Told(t)' /\ Travels(t)' /\ ~Told(t)
    BY <1>0, OnTheWayThen, ToldStays
<1>2. ASSUME Travels(t)
      PROVE  FALSE
    <2>1. t <= taken
        <3>1. Upto(up, taken) /\ Upto(down, taken) /\ server.turn <= taken
            BY FlowBasics
        <3>2. /\ Has(up, FrameKinds, t) => t <= taken
              /\ Has(down, FrameKinds, t) => t <= taken
            BY <3>1 DEF Has, Upto
        <3> QED BY <1>2, <3>1, <3>2 DEF Travels
    <2>2. t \in OnTheWay
        BY <1>0, <1>1, <1>2, <2>1, OnTheWayIs
    <2> QED BY <1>1, <2>2 DEF PendInv
<1>3. CASE ~Connected
    BY <1>1, <1>2, <1>3 DEF TakeTurn, Travels
<1>4. CASE Connected
    <2>1. up' = Append(up, Frame("turn", taken + 1)) /\ pending' = taken + 1 /\ taken + 1 \in Turns
        BY <1>0, <1>4, Basics DEF TakeTurn, Turns
    <2>2. Has(up', FrameKinds, t) => Has(up, FrameKinds, t) \/ t = taken + 1
        <3>1. Frame("turn", taken + 1) \in Frames /\ Frame("turn", taken + 1).turn = taken + 1
            BY <2>1, FrameTypes
        <3> QED BY <1>0, <2>1, <3>1, AppendHas
    <2> QED BY <1>1, <1>2, <2>1, <2>2 DEF Travels
<1> QED BY <1>3, <1>4

LEMMA PendStep ==
    ASSUME TypeInv, PendInv, Next
    PROVE  PendInv'
<1>0. TypeInv' /\ Grown(messages', messages) /\ up \in Seq(Frames) /\ down \in Seq(Frames)
    BY TypeStep, Basics
<1>1. /\ Shed(up, up) /\ Shed(<<>>, up) /\ (up # <<>> => Shed(Tail(up), up) /\ Has(up, FrameKinds, Head(up).turn))
      /\ Shed(Append(up, Frame("end", 0)), up) /\ Shed(Append(up, Frame("start", 0)), up)
    BY <1>0, ShedQueues, FrameTypes
<1>2. /\ Shed(down, down) /\ Shed(<<>>, down)
      /\ down # <<>> => Shed(Tail(down), down)
      /\ Shed(Append(down, Frame("error", 0)), down) /\ Shed(Append(down, Frame("session_started", 0)), down)
      /\ Shed(Append(down, Frame("session_ended", 0)), down)
    BY <1>0, ShedQueues, FrameTypes
<1>3. ASSUME UNCHANGED <<taken, pending, refused>>, Shed(up', up), Shed(down', down), server'.turn \in {0, server.turn}
      PROVE  PendInv'
    BY <1>0, <1>3, PendKept, TurnsShed
<1>4. ASSUME NEW k \in Mics, StartRecording(k) \/ StopRecording \/ MicGranted(k) \/ MicDenied(k) \/ BlobFails(k)
      PROVE  PendInv'
    BY <1>1, <1>2, <1>3, <1>4 DEF StartRecording, StopRecording, MicGranted, MicDenied, BlobFails, micFrame
<1>5. ASSUME NEW k \in Mics, NEW sound \in BOOLEAN, HandleRecordingStop(k, sound)
      PROVE  PendInv'
    <2>1. UNCHANGED <<micFrame, pending, messages, taken, up, late, faults>>
        BY <1>5 DEF HandleRecordingStop
    <2> QED BY <1>1, <1>2, <1>3, <2>1 DEF micFrame
<1>6. ASSUME NEW k \in Mics, SendAudioTurn(k)
      PROVE  PendInv'
    <2>1. UNCHANGED <<down, server, refused>>
        BY <1>6 DEF SendAudioTurn, micFrame
    <2>2. CASE pending # 0
        BY <1>1, <1>2, <1>3, <1>6, <2>1, <2>2 DEF SendAudioTurn
    <2>3. CASE pending = 0
        BY <1>0, <1>6, <2>1, <2>3, PendTaken DEF SendAudioTurn
    <2> QED BY <2>2, <2>3
<1>7. CASE SendText
    BY <1>0, <1>7, PendTaken DEF SendText, CanSendTurn, history
<1>8. CASE StopRecording
    BY <1>1, <1>2, <1>3, <1>8 DEF StopRecording, micFrame
<1>9. CASE EndSession \/ Unmount
    <2>1. /\ UNCHANGED <<taken, pending, refused, down, server>>
          /\ up' = up \/ up' = Append(up, Frame("end", 0))
        BY <1>9 DEF EndSession, Unmount, endFrame
    <2> QED BY <1>1, <1>2, <1>3, <2>1
<1>10. CASE Engine \/ Fallback
    <2>1. UNCHANGED <<taken, pending, refused, down, server, up>>
        BY <1>10 DEF Engine, Fallback, OnUtteranceStart, OnBoundary, FinishActiveSpeech, StartFallbackReveal,
           RevealNextFallbackWord, voiceFrame, history, netVars
    <2> QED BY <1>1, <1>2, <1>3, <2>1
<1>11. CASE IssueTicket \/ TicketRefused \/ TicketExpires
    BY <1>1, <1>2, <1>3, <1>11 DEF IssueTicket, TicketRefused, TicketExpires, hookVars, history, netVars
<1>12. CASE Admit \/ ServerSeesClose
    <2>1. UNCHANGED <<taken, pending, refused, down, up>>
        BY <1>12 DEF Admit, ServerSeesClose, hookVars, history
    <2>2. server'.turn \in {0, server.turn}
        BY <1>12, FlowBasics DEF Admit, ServerSeesClose, NoServer, Server
    <2> QED BY <1>1, <1>2, <1>3, <2>1, <2>2
<1>13. CASE ConnectionLost
    BY <1>1, <1>2, <1>3, <1>13 DEF ConnectionLost, hookVars, history
<1>14. ASSUME NEW type, Serve(type)
       PROVE  UNCHANGED <<taken, pending, refused>> /\ Shed(up', up) /\ Has(up, FrameKinds, Head(up).turn)
    BY <1>1, <1>14 DEF Serve, hookVars, history
<1>15. CASE ServeStart \/ ServeEnd
    <2>1. UNCHANGED <<taken, pending, refused>> /\ Shed(up', up)
        BY <1>14, <1>15 DEF ServeStart, ServeEnd
    <2>2. Shed(down', down)
        BY <1>2, <1>15 DEF ServeStart, ServeEnd
    <2>3. server'.turn \in {0, server.turn}
        BY <1>15, FlowBasics DEF ServeStart, ServeEnd, NoServer, Server
    <2> QED BY <1>3, <2>1, <2>2, <2>3
<1>16. CASE ServeTurn
    <2>1. UNCHANGED <<taken, pending, refused, down>> /\ Shed(up', up) /\ Has(up, FrameKinds, Head(up).turn)
        BY <1>14, <1>16 DEF ServeTurn
    <2>2. server'.turn = Head(up).turn
        BY <1>16, FlowBasics DEF ServeTurn, Server
    <2>3. \A t \in Turns : Travels(t)' => Travels(t)
        BY <2>1, <2>2 DEF Travels, Shed, Turns
    <2> QED BY <1>0, <2>1, <2>3, PendKept
<1>17. CASE Answer
    <2>1. UNCHANGED <<taken, pending, refused, up>>
        BY <1>17 DEF Answer, hookVars, history
    <2>2. server'.turn \in {0, server.turn}
        <3>1. \/ server' = [server EXCEPT !.at = "feedback"]
              \/ server' = [server EXCEPT !.at = "receive", !.turn = 0]
            BY <1>17 DEF Answer
        <3> QED BY <3>1, FlowBasics DEF Server
    <2>3. CASE down' = Append(down, Frame("error", 0))
        BY <1>1, <1>2, <1>3, <2>1, <2>2, <2>3
    <2>4. CASE \E type \in {"turn_result", "turn_feedback"} : down' = Append(down, Frame(type, server.turn))
        <3>1. server.turn \in Turns
            BY <1>17, FlowBasics DEF Answer, Steps, Turns
        <3>2. PICK f \in Frames : f.turn = server.turn /\ down' = Append(down, f)
            BY <2>4, <3>1, FrameTypes
        <3>3. \A t : Has(down', FrameKinds, t) => Has(down, FrameKinds, t) \/ t = server.turn
            BY <1>0, <3>2, AppendHas
        <3>4. \A t \in Turns : Travels(t)' => Travels(t)
            BY <2>1, <2>2, <3>3 DEF Travels, Turns
        <3> QED BY <1>0, <2>1, <3>4, PendKept
    <2> QED BY <1>17, <2>3, <2>4 DEF Answer
<1>18. CASE Connect \/ ConnectFails \/ OnErrorEvent \/ OnClose
    BY <1>1, <1>2, <1>3, <1>18 DEF Connect, ConnectFails, OnErrorEvent, OnClose, connFrame, netVars, history
<1>19. CASE OnOpen
    BY <1>1, <1>2, <1>3, <1>19 DEF OnOpen, connFrame, history
<1>20. ASSUME NEW type, Receive(type)
       PROVE  UNCHANGED <<taken, up, server>> /\ Shed(down', down) /\ Shed(up', up)
    BY <1>1, <1>2, <1>20 DEF Receive
<1>21. CASE OnSessionStarted \/ OnTurnFeedback \/ OnSessionEnded
    <2>1. UNCHANGED <<pending, refused>>
        BY <1>21 DEF OnSessionStarted, OnTurnFeedback, OnSessionEnded
    <2>2. UNCHANGED <<taken, up, server>> /\ Shed(down', down) /\ Shed(up', up)
        BY <1>20, <1>21 DEF OnSessionStarted, OnTurnFeedback, OnSessionEnded
    <2> QED BY <1>3, <2>1, <2>2
<1>22. CASE OnErrorFrame
    BY <1>22 DEF OnErrorFrame, PendInv
<1>23. CASE OnTurnResult
    <2>1. PICK turn : turn = Head(down).turn
        OBVIOUS
    <2>2. /\ Receive("turn_result") /\ pending' = (IF pending = turn THEN 0 ELSE pending) /\ refused' = refused
          /\ \E spoken \in BOOLEAN : AppendAssistantMessage(Answered(turn), turn, spoken)
        BY <1>23, <2>1 DEF OnTurnResult
    <2>3. Told(turn)'
        <3>1. PICK spoken \in BOOLEAN : messages' = Append(SpeechStopped(Answered(turn)), Reply(turn, spoken))
            BY <2>2 DEF AppendAssistantMessage
        <3>2. PICK log : log = SpeechStopped(Answered(turn))
            OBVIOUS
        <3>3. log \in Seq(Entries)
            <4>1. Answered(turn) \in Seq(Entries) /\ SameShape(Answered(turn), messages)
                BY Basics, AnsweredLog
            <4> QED BY <3>2, <4>1, Basics, StoppedLog DEF SameShape
        <3>4. Reply(turn, spoken) \in Entries
            <4>1. turn \in 0 .. MaxTurns
                BY <2>1, <2>2, Received DEF Steps
            <4>2. 0 \in 0 .. Words /\ Words \in 0 .. Words
                BY SpeakingClientAssumption
            <4> QED BY <4>1, <4>2 DEF Reply, Entries
        <3>5. /\ messages'[Len(log) + 1] = Reply(turn, spoken) /\ Len(log) + 1 \in DOMAIN messages'
            BY <3>1, <3>2, <3>3, <3>4, AppendLog
        <3>6. Reply(turn, spoken).speaker = "ai" /\ Reply(turn, spoken).turn = turn
            BY DEF Reply
        <3> QED BY <3>5, <3>6 DEF Told, Says
    <2>4. UNCHANGED <<taken, up, server>> /\ \A t \in Turns : Travels(t)' => Travels(t)
        BY <1>20, <2>2, TurnsShed
    <2> SUFFICES ASSUME NEW t \in OnTheWay', ~refused
                 PROVE  t = pending'
        BY <2>2 DEF PendInv
    <2>5. t \in 1 .. taken /\ ~Told(t)' /\ Travels(t)' /\ ~Told(t) /\ t # turn
        BY <1>0, <2>3, <2>4, OnTheWayThen, ToldStays
    <2>6. t \in OnTheWay
        BY <2>4, <2>5, TurnsTaken, OnTheWayIs
    <2> QED BY <2>2, <2>5, <2>6 DEF PendInv
<1> QED BY <1>4, <1>5, <1>6, <1>7, <1>8, <1>9, <1>10, <1>11, <1>12, <1>13, <1>15, <1>16, <1>17, <1>18, <1>19,
           <1>21, <1>22, <1>23 DEF Next, User, Recorder, Permission, Browser, Backend, Network

\* AGT-03 is sent one turn at a time, so long as it has refused none.
THEOREM OneTurn == Spec => []OneTurnUnlessRefused
<1>1. Init => TypeInv /\ PendInv
    <2> SUFFICES ASSUME Init PROVE TypeInv /\ PendInv
        OBVIOUS
    <2>1. 1 .. taken = {}
        BY DEF Init
    <2> QED BY <2>1, TypeInit DEF PendInv, OnTheWay, Unanswered
<1>2. TypeInv /\ PendInv /\ [Next]_vars => TypeInv' /\ PendInv'
    <2> SUFFICES ASSUME TypeInv, PendInv, [Next]_vars PROVE TypeInv' /\ PendInv'
        OBVIOUS
    <2>1. CASE UNCHANGED vars
        BY <2>1, TypeStep DEF vars, netVars, history, PendInv, OnTheWay, Unanswered
    <2> QED BY <2>1, TypeStep, PendStep
<1>3. TypeInv /\ PendInv => OneTurnUnlessRefused
    <2> SUFFICES ASSUME TypeInv, PendInv, ~refused PROVE ~(Cardinality(OnTheWay) > 1)
        BY DEF OneTurnUnlessRefused
    <2>1. OnTheWay \subseteq {pending}
        BY DEF PendInv
    <2>2. IsFiniteSet({pending}) /\ Cardinality({pending}) = 1
        BY FS_Singleton
    <2>3. Cardinality(OnTheWay) <= 1 /\ Cardinality(OnTheWay) \in Nat
        BY <2>1, <2>2, FS_Subset, FS_CardinalityType
    <2> QED BY <2>3
<1> QED BY <1>1, <1>2, <1>3, PTL DEF Spec

-----------------------------------------------------------------------------
(* The microphone.                                                          *)

\* What comes in is what was sent out: the start by OnOpen, a turn by whoever takes it.
LEMMA TurnSetsOut ==
    ASSUME TypeInv, NEW transcribed, TakeTurn(messages, transcribed), UNCHANGED <<down, server>>, NEW t, Incoming(t)'
    PROVE  Incoming(t) \/ (Connected /\ t = taken + 1 /\ status' = "receiving")
<1>1. up \in Seq(Frames) /\ taken \in Nat /\ MaxTurns \in Nat
    BY Basics
<1>2. CASE Connected
    <2>1. up' = Append(up, Frame("turn", taken + 1)) /\ status' = "receiving" /\ taken + 1 \in Turns
        BY <1>1, <1>2 DEF TakeTurn, Turns
    <2>2. Frame("turn", taken + 1) \in Frames /\ Frame("turn", taken + 1).turn = taken + 1
        BY <2>1, FrameTypes
    <2>3. \A s : Has(up', Calls, s) => Has(up, Calls, s) \/ s = taken + 1
        BY <1>1, <2>1, <2>2, AppendHas
    <2> QED BY <1>2, <2>1, <2>3 DEF Incoming, Asks, Answers, Serving
<1>3. CASE ~Connected
    BY <1>3 DEF TakeTurn, Incoming, Asks, Answers, Serving
<1> QED BY <1>2, <1>3

LEMMA BackendIncoming ==
    ASSUME TypeInv, Backend \/ Network, NEW t, Incoming(t)'
    PROVE  Incoming(t)
<1>0. /\ up \in Seq(Frames) /\ down \in Seq(Frames) /\ server \in Server
    BY Basics
<1>1. /\ \A s : Has(up, Calls, s) <=> Asks(s)
      /\ \A s : Has(down, Replies, s) <=> Answers(s)
    BY DEF Asks, Answers
<1>2. CASE IssueTicket \/ TicketRefused \/ TicketExpires
    BY <1>2 DEF IssueTicket, TicketRefused, TicketExpires, hookVars, netVars, Incoming, Asks, Answers, Serving
<1>3. CASE Admit \/ ServerSeesClose
    <2>1. UNCHANGED <<up, down>> /\ server'.at # "reply"
        BY <1>0, <1>3 DEF Admit, ServerSeesClose, NoServer, Server
    <2> QED BY <2>1 DEF Incoming, Asks, Answers, Serving
<1>4. CASE ConnectionLost
    <2>1. up' = <<>> /\ down' = <<>> /\ server' = server
        BY <1>4 DEF ConnectionLost
    <2> QED BY <2>1 DEF Incoming, Asks, Answers, Serving, Has
<1>5. ASSUME NEW type, Serve(type)
      PROVE  /\ up # <<>> /\ server.at = "receive" /\ \A s : Has(up', Calls, s) => Asks(s)
             /\ type \in Calls => Asks(Head(up).turn)
             /\ Head(up).type = type /\ Head(up) \in Frames
    <2>1. up # <<>> /\ Head(up).type = type /\ up' = Tail(up) /\ server.at = "receive"
        BY <1>5 DEF Serve
    <2>2. /\ \A s : Has(Tail(up), Calls, s) => Has(up, Calls, s)
          /\ Head(up).type \in Calls => Has(up, Calls, Head(up).turn)
          /\ Head(up) \in Frames
        BY <1>0, <2>1, TailHas
    <2> QED BY <1>1, <2>1, <2>2
<1>6. \A f \in Frames : /\ \A s : Has(Append(down, f), Replies, s) => Answers(s) \/ f.turn = s
                        /\ f.type \notin Replies => \A s : Has(Append(down, f), Replies, s) => Answers(s)
    BY <1>0, <1>1, AppendHas
<1>7. CASE ServeStart
    <2>1. /\ server.at = "receive" /\ \A s : Has(up', Calls, s) => Asks(s)
          /\ Asks(Head(up).turn) /\ Head(up).type = "start" /\ Head(up) \in Frames
        BY <1>5, <1>7 DEF ServeStart, Calls
    <2>2. Head(up).turn = 0
        BY <2>1 DEF Frames
    <2>3. server'.at # "reply"
        BY <1>0, <1>7, <2>1 DEF ServeStart, Server
    <2>4. \A s : Has(down', Replies, s) => Answers(s) \/ s = 0
        <3>1. /\ Frame("session_started", 0) \in Frames /\ Frame("session_started", 0).turn = 0
              /\ Frame("error", 0) \in Frames /\ Frame("error", 0).turn = 0
            BY FrameTypes
        <3>2. down' = Append(down, Frame("session_started", 0)) \/ down' = Append(down, Frame("error", 0))
            BY <1>7 DEF ServeStart
        <3> QED BY <1>6, <3>1, <3>2
    <2> QED BY <2>1, <2>2, <2>3, <2>4 DEF Incoming, Asks, Answers, Serving
<1>8. CASE ServeTurn
    <2>1. /\ \A s : Has(up', Calls, s) => Asks(s)
          /\ Asks(Head(up).turn) /\ server'.turn = Head(up).turn /\ down' = down
        BY <1>0, <1>5, <1>8 DEF ServeTurn, Calls, Server
    <2> QED BY <2>1 DEF Incoming, Asks, Answers, Serving
<1>9. CASE ServeEnd
    <2>1. server.at = "receive" /\ \A s : Has(up', Calls, s) => Asks(s)
        BY <1>5, <1>9 DEF ServeEnd
    <2>2. server'.at # "reply"
        BY <1>0, <1>9, <2>1 DEF ServeEnd, Server, NoServer
    <2>3. \A s : Has(down', Replies, s) => Answers(s)
        <3>1. /\ Frame("session_ended", 0) \in Frames /\ Frame("session_ended", 0).type \notin Replies
              /\ Frame("error", 0) \in Frames /\ Frame("error", 0).type \notin Replies
            BY FrameTypes DEF Replies
        <3> QED BY <1>6, <1>9, <3>1 DEF ServeEnd
    <2> QED BY <2>1, <2>2, <2>3 DEF Incoming, Asks, Answers, Serving
<1>10. CASE Answer
    <2>1. up' = up /\ server'.at # "reply"
        <3>1. \/ server' = [server EXCEPT !.at = "feedback"]
              \/ server' = [server EXCEPT !.at = "receive", !.turn = 0]
            BY <1>10 DEF Answer
        <3> QED BY <1>0, <1>10, <3>1 DEF Answer, Server
    <2>2. server.turn \in Turns
        BY <1>10, FlowBasics DEF Answer, Steps, Turns
    <2>3. \A s : Has(down', Replies, s) => Answers(s) \/ Serving(s)
        <3>1. CASE down' = Append(down, Frame("error", 0))
            BY <1>6, <3>1, FrameTypes DEF Replies
        <3>2. CASE down' = Append(down, Frame("turn_result", server.turn)) /\ server.at = "reply"
            BY <1>6, <2>2, <3>2, FrameTypes DEF Serving
        <3>3. CASE down' = Append(down, Frame("turn_feedback", server.turn))
            <4>1. Frame("turn_feedback", server.turn) \in Frames /\ Frame("turn_feedback", server.turn).type \notin Replies
                BY <2>2, FrameTypes DEF Replies
            <4> QED BY <1>6, <3>3, <4>1
        <3> QED BY <1>10, <3>1, <3>2, <3>3 DEF Answer
    <2> QED BY <2>1, <2>3 DEF Incoming, Asks, Answers, Serving
<1> QED BY <1>2, <1>3, <1>4, <1>7, <1>8, <1>9, <1>10 DEF Backend, Network

\* What a step leaves as it was, or makes calmer.
LEMMA CalmStep ==
    ASSUME TypeInv, FreshInv, MicInv, UNCHANGED <<mic, live, recorderRef, streamRef, late, taken, mounted>>,
           status' = status \/ status' \notin {"ready", "recording"},
           Linked' => Linked, Early' => Early, \A t : Incoming(t)' => Incoming(t)
    PROVE  FreshInv' /\ MicInv'
<1>1. FreshInv'
    BY DEF FreshInv
<1>2. OneStream => OneStream'
    BY DEF OneStream
<1>3. OneRecording => OneRecording'
    BY DEF OneRecording, Active
<1> QED BY <1>1, <1>2, <1>3 DEF MicInv

\* Once the chat is ready, a recording asked for or a turn taken, the start lies behind.
LEMMA FreshGone ==
    ASSUME FreshInv, status \in {"ready", "recording"} \/ taken # 0 \/ \E k \in Mics : mic[k] # "unused",
           Early' => Early, Incoming(0)' => Incoming(0)
    PROVE  FreshInv'
BY DEF FreshInv

LEMMA MicMoves ==
    ASSUME MicInv, late' = late, late = {} => OneStream' /\ (mounted' => OneRecording')
    PROVE  MicInv'
BY DEF MicInv

LEMMA RecordingKept ==
    ASSUME MicInv, late = {}, mounted' => mounted, Linked' => Linked, \A t : Incoming(t)' => Incoming(t),
           \A k \in Mics : Active(k)' => Active(k),
           status' = "ready" => status = "ready" \/ ((\E k \in Mics : Active(k)) /\ \A k \in Mics : ~Active(k)')
    PROVE  mounted' => OneRecording'
<1> SUFFICES ASSUME mounted' PROVE OneRecording'
    OBVIOUS
<1>1. OneRecording
    BY DEF MicInv
<1>2. \A k, j \in Mics : Active(k)' /\ Active(j)' => j = k
    BY <1>1 DEF OneRecording
<1>3. status' = "ready" => \A k \in Mics : ~Active(k)'
    BY <1>1 DEF OneRecording
<1>4. Linked' => \A t, s \in Steps : Incoming(t)' /\ Incoming(s)' => s = t
    BY <1>1 DEF OneRecording
<1>5. Linked' /\ ((\E k \in Mics : Active(k)') \/ status' = "ready") => \A t \in Steps : ~Incoming(t)'
    BY <1>1 DEF OneRecording
<1> QED BY <1>2, <1>3, <1>4, <1>5 DEF OneRecording

LEMMA StreamKept ==
    ASSUME OneStream, UNCHANGED <<live, recorderRef, streamRef, mounted>>,
           \A k \in Mics : (mic'[k] = "rec" <=> mic[k] = "rec") /\ (mic'[k] = "stopping" <=> mic[k] = "stopping"),
           live \subseteq Mics
    PROVE  OneStream'
BY DEF OneStream

LEMMA StreamOff ==
    ASSUME OneStream, live' = {},
           \A k \in Mics : mic'[k] # "rec" /\ (mic'[k] = "stopping" => mic[k] \in {"rec", "stopping"})
    PROVE  OneStream'
BY DEF OneStream

LEMMA StreamStops ==
    ASSUME OneStream, live' = live, streamRef' = streamRef, live \subseteq Mics,
           \A k \in Mics : mic'[k] # "rec" /\ (mic'[k] = "stopping" <=> mic[k] \in {"rec", "stopping"})
    PROVE  OneStream'
BY DEF OneStream

\* stopMediaTracks leaves no recorder running, while there is one stream.
LEMMA AllStopped ==
    ASSUME TypeInv, OneStream
    PROVE  /\ live \ {streamRef} = {} /\ live \subseteq Mics /\ mic \in [Mics -> MicStates]
           /\ \A k \in Mics :
                 TracksStopped(mic)[k] = IF mic[k] = "rec" THEN "stopping" ELSE mic[k]
           /\ TracksStopped(mic) \in [Mics -> MicStates]
<1>1. /\ mic \in [Mics -> MicStates] /\ live \subseteq Mics /\ streamRef \in 0 .. MaxMics
      /\ MicOK
    BY Split, RestSplit DEF MicOK
<1>2. TracksStopped(mic) \in [Mics -> MicStates]
    BY <1>1, TracksOK
<1>3. \A k \in Mics : mic[k] = "rec" => k = streamRef /\ k # 0
    BY SpeakingClientAssumption DEF OneStream, Mics
<1>4. \A k \in Mics : TracksStopped(mic)[k] = IF mic[k] = "rec" THEN "stopping" ELSE mic[k]
    <2>1. CASE streamRef # 0 /\ mic[streamRef] = "rec"
        <3>1. TracksStopped(mic) = [mic EXCEPT ![streamRef] = "stopping"] /\ streamRef \in Mics
            BY <1>1, <2>1, MicMembers DEF TracksStopped
        <3> QED BY <1>1, <1>3, <2>1, <3>1
    <2>2. CASE ~(streamRef # 0 /\ mic[streamRef] = "rec")
        <3>1. TracksStopped(mic) = mic
            BY <2>2 DEF TracksStopped
        <3> QED BY <1>3, <2>2, <3>1
    <2> QED BY <2>1, <2>2
<1> QED BY <1>1, <1>2, <1>4 DEF OneStream

\* abortRecording, whatever it finds.
LEMMA AbortStops ==
    ASSUME TypeInv, OneStream, AbortRecording
    PROVE  OneStream' /\ \A k \in Mics : Active(k)' <=> Active(k)
<1>0. /\ mic \in [Mics -> MicStates] /\ live \subseteq Mics /\ recorderRef \in 0 .. MaxMics
    BY Split DEF RestOK
<1>1. CASE recorderRef # 0 /\ mic[recorderRef] = "rec"
    <2>1. /\ mic' = [mic EXCEPT ![recorderRef] = "stopping"] /\ recorderRef \in Mics
          /\ live' = live /\ streamRef' = streamRef
        BY <1>0, <1>1, MicMembers DEF AbortRecording
    <2>2. \A k \in Mics : mic[k] = "rec" => k = recorderRef
        BY DEF OneStream
    <2>3. \A k \in Mics : mic'[k] = IF k = recorderRef THEN "stopping" ELSE mic[k]
        BY <1>0, <2>1
    <2>4. \A k \in Mics : mic'[k] # "rec" /\ (mic'[k] = "stopping" <=> mic[k] \in {"rec", "stopping"})
        BY <1>1, <2>2, <2>3
    <2>5. OneStream'
        BY <1>0, <2>1, <2>4, StreamStops
    <2> QED BY <1>1, <2>3, <2>5 DEF Active
<1>2. CASE ~(recorderRef # 0 /\ mic[recorderRef] = "rec")
    <2>1. mic' = TracksStopped(mic) /\ live' = live \ {streamRef}
        BY <1>2 DEF AbortRecording, StopMediaTracks
    <2>2. live' = {} /\ \A k \in Mics : mic'[k] = IF mic[k] = "rec" THEN "stopping" ELSE mic[k]
        BY <2>1, AllStopped
    <2>3. OneStream'
        BY <2>2, StreamOff
    <2> QED BY <2>2, <2>3 DEF Active
<1> QED BY <1>1, <1>2

\* The same, where nothing has been recorded yet.
LEMMA NothingToStop ==
    ASSUME TypeInv, \A k \in Mics : mic[k] = "unused"
    PROVE  TracksStopped(mic) = mic /\ (AbortRecording => mic' = mic)
<1>1. /\ recorderRef # 0 => recorderRef \in Mics
      /\ streamRef # 0 => streamRef \in Mics
    BY Split, MicMembers DEF RestOK
<1>2. TracksStopped(mic) = mic
    BY <1>1 DEF TracksStopped
<1> QED BY <1>1, <1>2 DEF AbortRecording

LEMMA FreshKept ==
    ASSUME FreshInv, taken' = taken, (\A k \in Mics : mic[k] = "unused") => mic' = mic,
           status' = status \/ status' \notin {"ready", "recording"},
           Early' => Early, Incoming(0)' => Incoming(0)
    PROVE  FreshInv'
BY DEF FreshInv

LEMMA IncomingSame ==
    ASSUME UNCHANGED <<up, down, server>>
    PROVE  \A t : Incoming(t)' => Incoming(t)
BY DEF Incoming, Asks, Answers, Serving

\* The user and the recorders.
LEMMA MicSteps ==
    ASSUME TypeInv, FreshInv, MicInv,
           Recorder \/ Permission \/ StopRecording \/ \E k \in Mics : StartRecording(k)
    PROVE  FreshInv' /\ MicInv'
<1>0. /\ mic \in [Mics -> MicStates] /\ live \subseteq Mics /\ recorderRef \in 0 .. MaxMics
      /\ taken \in Nat
    BY Split, Basics DEF RestOK
<1>1. ASSUME NEW k \in Mics, StartRecording(k)
      PROVE  FreshInv' /\ MicInv'
    <2>1. /\ mic[k] = "unused" /\ mic' = [mic EXCEPT ![k] = "asked"] /\ status = "ready" /\ mounted
          /\ UNCHANGED <<mounted, socket, socketRef, status, taken, live, recorderRef, streamRef, late, up, down, server>>
        BY <1>1 DEF StartRecording, CanUseMic, CanSendTurn, EffectiveStatus, micFrame, refVars
    <2>2. \A t : Incoming(t)' => Incoming(t)
        BY <2>1, IncomingSame
    <2>3. FreshInv'
        BY <2>1, <2>2, FreshGone DEF Early
    <2>4. \A j \in Mics : /\ Active(j)' => Active(j)
                          /\ mic'[j] = "rec" <=> mic[j] = "rec"
                          /\ mic'[j] = "stopping" <=> mic[j] = "stopping"
        BY <1>0, <2>1 DEF Active
    <2>5. OneStream => OneStream'
        BY <1>0, <2>1, <2>4, StreamKept
    <2>6. late = {} => (mounted' => OneRecording')
        BY <2>1, <2>2, <2>4, RecordingKept DEF Linked
    <2> QED BY <2>1, <2>3, <2>5, <2>6, MicMoves DEF MicInv
<1>2. ASSUME NEW k \in Mics, MicGranted(k)
      PROVE  FreshInv' /\ MicInv'
    <2>1. /\ mic[k] = "asked" /\ mic' = [mic EXCEPT ![k] = "rec"] /\ live' = live \cup {k}
          /\ recorderRef' = k /\ streamRef' = k /\ status' = "recording"
          /\ late' = IF mounted /\ status = "ready" /\ ~\E j \in Mics : mic[j] = "rec" THEN late ELSE late \cup Mics
          /\ UNCHANGED <<mounted, socket, socketRef, taken, up, down, server>>
        BY <1>2 DEF MicGranted, micFrame, refVars
    <2>2. \A t : Incoming(t)' => Incoming(t)
        BY <2>1, IncomingSame
    <2>3. FreshInv'
        BY <2>1, <2>2, FreshGone DEF Early
    <2>4. late' \in {{}, Mics}
        BY <2>1 DEF MicInv
    <2> SUFFICES ASSUME late' = {}
                 PROVE  OneStream' /\ OneRecording'
        BY <2>3, <2>4 DEF MicInv
    <2>5. late = {} /\ mounted /\ status = "ready"
        BY <2>1
    <2>6. OneStream /\ OneRecording
        BY <2>5 DEF MicInv
    <2>7. \A j \in Mics : ~Active(j)
        BY <2>5, <2>6 DEF OneRecording
    <2>8. \A j \in Mics : mic'[j] = IF j = k THEN "rec" ELSE mic[j]
        BY <1>0, <2>1
    <2>9. live = {}
        BY <1>0, <2>6, <2>7 DEF OneStream, Active
    <2>10. OneStream'
        <3>1. live' \subseteq {streamRef'} /\ \A j \in live' : mounted' /\ mic'[j] = "rec"
            BY <2>1, <2>5, <2>8, <2>9
        <3>2. \A j \in Mics : mic'[j] \in {"rec", "stopping"} => j = k
            BY <2>7, <2>8 DEF Active
        <3> QED BY <2>1, <3>1, <3>2 DEF OneStream
    <2>11. OneRecording'
        <3>1. \A j \in Mics : Active(j)' => j = k
            BY <2>7, <2>8 DEF Active
        <3>2. Linked' => \A t \in Steps : ~Incoming(t)'
            BY <2>1, <2>2, <2>5, <2>6 DEF OneRecording, Linked
        <3> QED BY <2>1, <3>1, <3>2 DEF OneRecording
    <2> QED BY <2>10, <2>11
<1>3. ASSUME NEW k \in Mics, MicDenied(k)
      PROVE  FreshInv' /\ MicInv'
    <2>1. /\ mic[k] = "asked" /\ mic' = [TracksStopped(mic) EXCEPT ![k] = "done"] /\ live' = live \ {streamRef}
          /\ status' = "error" /\ late' = late
          /\ UNCHANGED <<mounted, socket, socketRef, taken, up, down, server>>
        BY <1>3 DEF MicDenied, StopMediaTracks, micFrame, refVars
    <2>2. \A t : Incoming(t)' => Incoming(t)
        BY <2>1, IncomingSame
    <2>3. FreshInv'
        BY <2>1, <2>2, FreshGone DEF Early
    <2>4. ASSUME late = {}
          PROVE  OneStream' /\ (mounted' => OneRecording')
        <3>1. /\ live' = {} /\ OneStream
              /\ \A j \in Mics : mic'[j] = IF j = k THEN "done" ELSE IF mic[j] = "rec" THEN "stopping" ELSE mic[j]
            BY <2>1, <2>4, AllStopped DEF MicInv
        <3>2. OneStream'
            BY <3>1, StreamOff
        <3>3. \A j \in Mics : Active(j)' => Active(j)
            BY <3>1 DEF Active
        <3> QED BY <2>1, <2>2, <2>4, <3>2, <3>3, RecordingKept DEF Linked
    <2> QED BY <2>1, <2>3, <2>4, MicMoves
<1>4. CASE StopRecording
    <2>1. /\ mic[recorderRef] = "rec" /\ recorderRef # 0 /\ mic' = [mic EXCEPT ![recorderRef] = "stopping"]
          /\ status = "recording" /\ status' = "sending"
          /\ UNCHANGED <<mounted, socket, socketRef, taken, live, recorderRef, streamRef, late, up, down, server>>
        BY <1>4 DEF StopRecording, micFrame, refVars
    <2>2. \A t : Incoming(t)' => Incoming(t)
        BY <2>1, IncomingSame
    <2>3. FreshInv'
        BY <2>1, <2>2, FreshGone DEF Early
    <2>4. recorderRef \in Mics /\ \A j \in Mics : mic'[j] = IF j = recorderRef THEN "stopping" ELSE mic[j]
        BY <1>0, <2>1, MicMembers
    <2>5. ASSUME late = {}
          PROVE  OneStream' /\ (mounted' => OneRecording')
        <3>1. OneStream /\ \A j \in Mics : mic[j] = "rec" => j = recorderRef
            BY <2>5 DEF MicInv, OneStream
        <3>2. \A j \in Mics : mic'[j] # "rec" /\ (mic'[j] = "stopping" <=> mic[j] \in {"rec", "stopping"})
            BY <2>1, <2>4, <3>1
        <3>3. OneStream'
            BY <1>0, <2>1, <3>1, <3>2, StreamStops
        <3>4. \A j \in Mics : Active(j)' => Active(j)
            BY <2>1, <2>4 DEF Active
        <3> QED BY <2>1, <2>2, <2>5, <3>3, <3>4, RecordingKept DEF Linked
    <2> QED BY <2>1, <2>3, <2>5, MicMoves
<1>5. ASSUME NEW k \in Mics, NEW sound \in BOOLEAN, HandleRecordingStop(k, sound)
      PROVE  FreshInv' /\ MicInv'
    <2>1. /\ mic[k] = "stopping" /\ live' = live \ {streamRef} /\ late' = late
          /\ UNCHANGED <<mounted, socket, socketRef, taken, up, down, server>>
        <3>1. UNCHANGED <<micFrame, pending, messages, taken, up, late, faults>> /\ StopMediaTracks /\ mic[k] = "stopping"
            BY <1>5 DEF HandleRecordingStop
        <3> QED BY <3>1 DEF StopMediaTracks, micFrame, refVars
    <2>2. \/ mic' = [TracksStopped(mic) EXCEPT ![k] = "done"] /\ status' \in {status, "ready"}
          \/ mic' = [TracksStopped(mic) EXCEPT ![k] = "reading"] /\ status' = status
        BY <1>5 DEF HandleRecordingStop
    <2>3. \A t : Incoming(t)' => Incoming(t)
        BY <2>1, IncomingSame
    <2>4. FreshInv'
        BY <2>1, <2>3, FreshGone DEF Early
    <2>5. ASSUME late = {}
          PROVE  OneStream' /\ (mounted' => OneRecording')
        <3>1. /\ live' = {} /\ OneStream
              /\ \A j \in Mics : j # k => mic'[j] = IF mic[j] = "rec" THEN "stopping" ELSE mic[j]
              /\ mic'[k] \in {"done", "reading"} /\ (mic'[k] # "done" => status' = status)
            BY <2>1, <2>2, <2>5, AllStopped DEF MicInv
        <3>2. OneStream'
            BY <3>1, StreamOff
        <3>3. Active(k) /\ \A j \in Mics : Active(j)' => Active(j)
            BY <2>1, <3>1 DEF Active
        <3>4. ASSUME mounted', status' = "ready", status # "ready", NEW j \in Mics
              PROVE  ~Active(j)'
            <4>1. OneRecording
                BY <2>1, <2>5, <3>4 DEF MicInv
            <4>2. j = k \/ ~Active(j)
                BY <3>3, <4>1 DEF OneRecording
            <4>3. mic'[k] = "done"
                BY <3>1, <3>4
            <4> QED BY <3>3, <4>2, <4>3 DEF Active
        <3>5. mounted' => OneRecording'
            <4> SUFFICES ASSUME mounted' PROVE OneRecording'
                OBVIOUS
            <4>1. status' = "ready" => status = "ready" \/ ((\E j \in Mics : Active(j)) /\ \A j \in Mics : ~Active(j)')
                BY <3>3, <3>4
            <4> QED BY <2>1, <2>3, <2>5, <3>3, <4>1, RecordingKept DEF Linked
        <3> QED BY <3>2, <3>5
    <2> QED BY <2>1, <2>4, <2>5, MicMoves
<1>6. ASSUME NEW k \in Mics, BlobFails(k)
      PROVE  FreshInv' /\ MicInv'
    <2>1. /\ mic[k] = "reading" /\ mic' = [mic EXCEPT ![k] = "done"] /\ status' = "error"
          /\ UNCHANGED <<mounted, socket, socketRef, taken, live, recorderRef, streamRef, late, up, down, server>>
        BY <1>6 DEF BlobFails, micFrame, refVars
    <2>2. \A t : Incoming(t)' => Incoming(t)
        BY <2>1, IncomingSame
    <2>3. FreshInv'
        BY <2>1, <2>2, FreshGone DEF Early
    <2>4. \A j \in Mics : /\ Active(j)' => Active(j)
                          /\ mic'[j] = "rec" <=> mic[j] = "rec"
                          /\ mic'[j] = "stopping" <=> mic[j] = "stopping"
        BY <1>0, <2>1 DEF Active
    <2>5. OneStream => OneStream'
        BY <1>0, <2>1, <2>4, StreamKept
    <2>6. late = {} => (mounted' => OneRecording')
        BY <2>1, <2>2, <2>4, RecordingKept DEF Linked
    <2> QED BY <2>1, <2>3, <2>5, <2>6, MicMoves DEF MicInv
<1>7. ASSUME NEW k \in Mics, SendAudioTurn(k)
      PROVE  FreshInv' /\ MicInv'
    <2>1. /\ mic[k] = "reading" /\ mic' = [mic EXCEPT ![k] = "done"]
          /\ UNCHANGED <<mounted, socket, socketRef, live, recorderRef, streamRef, late, down, server>>
          /\ \/ TakeTurn(messages, FALSE)
             \/ UNCHANGED <<status, taken, up>>
        BY <1>7 DEF SendAudioTurn, micFrame, refVars
    <2>2. \A t : Incoming(t)' => Incoming(t) \/ (TakeTurn(messages, FALSE) /\ Connected /\ t = taken + 1)
        <3>1. CASE TakeTurn(messages, FALSE)
            BY <2>1, <3>1, TurnSetsOut
        <3>2. CASE UNCHANGED up
            BY <2>1, <3>2, IncomingSame
        <3> QED BY <2>1, <3>1, <3>2
    <2>3. FreshInv'
        <3>0. 0 # taken + 1
            BY <1>0
        <3>1. Incoming(0)' => Incoming(0)
            BY <2>2, <3>0
        <3> QED BY <2>1, <3>1, FreshGone DEF Early
    <2>4. \A j \in Mics : /\ Active(j)' <=> Active(j) /\ j # k
                          /\ mic'[j] = "rec" <=> mic[j] = "rec"
                          /\ mic'[j] = "stopping" <=> mic[j] = "stopping"
        BY <1>0, <2>1 DEF Active
    <2>5. OneStream => OneStream'
        BY <1>0, <2>1, <2>4, StreamKept
    <2>6. Active(k)
        BY <2>1 DEF Active
    <2>7. late = {} => (mounted' => OneRecording')
        <3>1. CASE UNCHANGED <<status, taken, up>>
            BY <2>1, <2>4, <3>1, IncomingSame, RecordingKept DEF Linked
        <3>2. CASE TakeTurn(messages, FALSE)
            <4> SUFFICES ASSUME late = {}, mounted'
                         PROVE  OneRecording'
                OBVIOUS
            <4>1. OneRecording
                BY <2>1 DEF MicInv
            <4>2. \A j \in Mics : ~Active(j)'
                BY <2>4, <2>6, <4>1 DEF OneRecording
            <4>3. status' # "ready"
                BY <3>2 DEF TakeTurn
            <4>4. Linked' => \A t \in Steps : Incoming(t)' => t = taken + 1
                BY <2>1, <2>2, <2>6, <4>1 DEF OneRecording, Linked
            <4> QED BY <4>2, <4>3, <4>4 DEF OneRecording
        <3> QED BY <2>1, <3>1, <3>2
    <2> QED BY <2>1, <2>3, <2>5, <2>7, MicMoves DEF MicInv
<1> QED BY <1>1, <1>2, <1>3, <1>4, <1>5, <1>6, <1>7 DEF Recorder, Permission

LEMMA UserMic ==
    ASSUME TypeInv, FreshInv, MicInv, SendText \/ EndSession \/ Unmount
    PROVE  FreshInv' /\ MicInv'
<1>0. /\ mic \in [Mics -> MicStates] /\ live \subseteq Mics /\ taken \in Nat
    BY Split, Basics DEF RestOK
<1>1. CASE SendText
    <2>1. /\ TakeTurn(messages, TRUE) /\ status = "ready" /\ mounted
          /\ UNCHANGED <<mounted, socket, socketRef, mic, live, recorderRef, streamRef, late, down, server>>
        BY <1>1 DEF SendText, CanSendTurn, EffectiveStatus, refVars, micVars, history
    <2>2. \A t : Incoming(t)' => Incoming(t) \/ (Connected /\ t = taken + 1)
        BY <2>1, TurnSetsOut
    <2>3. FreshInv'
        <3>1. 0 # taken + 1
            BY <1>0
        <3>2. Incoming(0)' => Incoming(0)
            BY <2>2, <3>1
        <3> QED BY <2>1, <3>2, FreshGone DEF Early
    <2>4. OneStream => OneStream'
        BY <1>0, <2>1, StreamKept
    <2>5. ASSUME late = {}
          PROVE  OneRecording'
        <3>1. OneRecording
            BY <2>1, <2>5 DEF MicInv
        <3>2. \A k \in Mics : ~Active(k)'
            BY <2>1, <3>1 DEF OneRecording, Active
        <3>3. status' # "ready"
            BY <2>1 DEF TakeTurn
        <3>4. Linked' => \A t \in Steps : Incoming(t)' => t = taken + 1
            BY <2>1, <2>2, <3>1 DEF OneRecording, Linked
        <3> QED BY <3>2, <3>3, <3>4 DEF OneRecording
    <2> QED BY <2>1, <2>3, <2>4, <2>5, MicMoves DEF MicInv
<1>2. CASE EndSession \/ Unmount
    <2>1. /\ AbortRecording /\ (mounted' => mounted) /\ UNCHANGED <<taken, late, down, server>>
          /\ up' = Append(up, Frame("end", 0)) \/ up' = up
          /\ status' = status \/ status' \notin {"ready", "recording"}
          /\ socketRef' => socketRef
          /\ socket' = socket \/ socket' = Closed(socket)
        BY <1>2 DEF EndSession, Unmount, endFrame, TypeInv, TypeOK
    <2>2. \A t : Incoming(t)' => Incoming(t)
        <3>1. \A t : Has(up', Calls, t) => Asks(t)
            BY <2>1, EndFrame
        <3> QED BY <2>1, <3>1 DEF Incoming, Asks, Answers, Serving
    <2>3. (Early' => Early) /\ (Linked' => Linked)
        BY <2>1 DEF Early, Linked, Closed
    <2>4. FreshInv'
        BY <2>1, <2>2, <2>3, NothingToStop, FreshKept
    <2>5. ASSUME late = {}
          PROVE  OneStream' /\ (mounted' => OneRecording')
        <3>1. OneStream' /\ \A k \in Mics : Active(k)' <=> Active(k)
            BY <2>1, <2>5, AbortStops DEF MicInv
        <3>2. status' = "ready" => status = "ready"
            BY <2>1
        <3> QED BY <2>1, <2>2, <2>3, <2>5, <3>1, <3>2, RecordingKept
    <2> QED BY <2>1, <2>4, <2>5, MicMoves
<1> QED BY <1>1, <1>2

\* Frames that are no replies, and the socket's own events.
LEMMA BrowserMic ==
    ASSUME TypeInv, FreshInv, MicInv, Browser
    PROVE  FreshInv' /\ MicInv'
<1>0. /\ mic \in [Mics -> MicStates] /\ taken \in Nat /\ MaxTurns \in Nat /\ 0 \in Steps
      /\ up \in Seq(Frames) /\ Upto(up, taken) /\ Upto(down, taken)
      /\ server.at \in {"reply", "feedback"} <=> server.turn # 0
    BY Split, Basics, FlowBasics DEF RestOK
<1>1. CASE Connect \/ ConnectFails \/ OnErrorEvent
    <2>1. /\ UNCHANGED <<mic, live, recorderRef, streamRef, late, taken, mounted, up, down, server>>
          /\ status' = status \/ status' = "error"
        BY <1>1 DEF Connect, ConnectFails, OnErrorEvent, connFrame, micVars, netVars, history
    <2>2. (Early' => Early) /\ (Linked' => Linked)
        BY <1>1, FlowBasics DEF Connect, ConnectFails, OnErrorEvent, Early, Linked, refVars
    <2> QED BY <2>1, <2>2, IncomingSame, CalmStep
<1>2. CASE OnOpen
    <2>1. /\ UNCHANGED <<mic, live, recorderRef, streamRef, late, taken, mounted, status, down, server>>
          /\ socket = "connecting" /\ socket' = "open"
          /\ up' = Append(up, Frame("start", 0)) \/ up' = up
        BY <1>2 DEF OnOpen, connFrame, micVars, history
    <2>2. taken = 0 /\ status \notin {"ready", "recording"} /\ \A k \in Mics : mic[k] = "unused"
        BY <2>1 DEF FreshInv, Early
    <2>3. \A t : Incoming(t)' => Incoming(t) \/ t = 0
        <3>1. Frame("start", 0) \in Frames /\ Frame("start", 0).turn = 0
            BY FrameTypes
        <3>2. \A t : Has(up', Calls, t) => Has(up, Calls, t) \/ t = 0
            BY <1>0, <2>1, <3>1, AppendHas
        <3> QED BY <2>1, <3>2 DEF Incoming, Asks, Answers, Serving
    <2>4. \A t \in Steps : Incoming(t) => t = 0
        <3>1. \A t \in Steps : Incoming(t) => t <= taken
            BY FlowBasics DEF Incoming, Asks, Answers, Serving, Has, Upto
        <3> QED BY <2>2, <3>1 DEF Steps
    <2>5. FreshInv'
        BY <2>1, <2>2 DEF FreshInv
    <2>6. OneRecording'
        BY <2>1, <2>2, <2>3, <2>4 DEF OneRecording, Active
    <2>7. OneStream => OneStream'
        BY <2>1 DEF OneStream
    <2> QED BY <2>1, <2>5, <2>6, <2>7, MicMoves DEF MicInv
<1>3. CASE OnClose
    <2>1. /\ UNCHANGED <<taken, late, mounted, up, down, server>>
          /\ socket' = "closed" /\ status' \in {status, "ended", "error"}
          /\ \/ UNCHANGED <<mic, live, streamRef>>
             \/ mic' = TracksStopped(mic) /\ live' = live \ {streamRef}
          /\ recorderRef' = recorderRef
        BY <1>3 DEF OnClose, StopMediaTracks, netVars, history
    <2>2. (Early' => Early) /\ (Linked' => Linked)
        BY <2>1 DEF Early, Linked
    <2>3. FreshInv'
        BY <2>1, <2>2, IncomingSame, NothingToStop, FreshKept
    <2>4. ASSUME late = {}
          PROVE  OneStream' /\ (mounted' => OneRecording')
        <3>1. CASE UNCHANGED <<mic, live, streamRef>>
            <4>1. OneStream'
                BY <2>1, <2>4, <3>1 DEF MicInv, OneStream
            <4>2. \A k \in Mics : Active(k)' => Active(k)
                BY <3>1 DEF Active
            <4> QED BY <2>1, <2>2, <2>4, <4>1, <4>2, IncomingSame, RecordingKept
        <3>2. CASE mic' = TracksStopped(mic) /\ live' = live \ {streamRef}
            <4>1. live' = {} /\ OneStream /\ \A k \in Mics : mic'[k] = IF mic[k] = "rec" THEN "stopping" ELSE mic[k]
                BY <2>4, <3>2, AllStopped DEF MicInv
            <4>2. OneStream'
                BY <4>1, StreamOff
            <4>3. \A k \in Mics : Active(k)' => Active(k)
                BY <4>1 DEF Active
            <4> QED BY <2>1, <2>2, <2>4, <4>2, <4>3, IncomingSame, RecordingKept
        <3> QED BY <2>1, <3>1, <3>2
    <2> QED BY <2>1, <2>3, <2>4, MicMoves
<1>4. ASSUME NEW type, Receive(type)
      PROVE  /\ UNCHANGED <<mic, live, recorderRef, streamRef, late, taken, mounted, up, server>>
             /\ Linked /\ (Linked' => Linked) /\ (Early' => Early) /\ mounted
             /\ \A t : Incoming(t)' => Incoming(t)
             /\ Upto(down', taken) /\ Head(down) \in Frames /\ Head(down).type = type /\ Head(down).turn <= taken
             /\ \E t \in Steps : t = Head(down).turn /\ (type \in Replies => Incoming(t) /\ ~Incoming(t)')
    <2>1. UNCHANGED <<mic, live, recorderRef, streamRef, late>>
        BY <1>4 DEF Receive, micVars
    <2>2. /\ UNCHANGED <<socket, socketRef, taken, mounted, up, server>> /\ socket = "open" /\ socketRef /\ mounted
          /\ Upto(down', taken) /\ Head(down) \in Frames /\ Head(down).turn \in Steps /\ Head(down).type = type
          /\ Head(down).turn <= taken
          /\ \A t : Has(down', Replies, t) => Answers(t)
          /\ type \in Replies => Answers(Head(down).turn) /\ ~Has(down', Replies, Head(down).turn)
        BY <1>4, Received
    <2>3. \A t : Incoming(t)' => Incoming(t)
        BY <2>2 DEF Incoming, Asks, Answers, Serving
    <2>4. PICK t \in Steps : t = Head(down).turn
        BY <2>2
    <2>5. ASSUME type \in Replies
          PROVE  Incoming(t) /\ ~Incoming(t)'
        <3>1. Answers(t) /\ ~Has(down', Replies, t)
            BY <2>2, <2>4, <2>5
        <3>2. ~Asks(t) /\ ~Serving(t)
            BY <3>1 DEF TypeInv, FlowInv, OneWay
        <3>3. ~Incoming(t)'
            BY <2>2, <3>1, <3>2 DEF Incoming, Asks, Answers, Serving
        <3> QED BY <3>1, <3>3 DEF Incoming
    <2> QED BY <2>1, <2>2, <2>3, <2>4, <2>5 DEF Linked, Early
<1>5. CASE OnSessionStarted
    <2>1. Receive("session_started") /\ "session_started" \in Replies /\ status' = "ready"
        BY <1>5 DEF OnSessionStarted, Replies
    <2>2. /\ UNCHANGED <<mic, live, recorderRef, streamRef, late, taken, mounted, up, server>>
          /\ Linked /\ (Early' => Early) /\ \A t : Incoming(t)' => Incoming(t)
          /\ Upto(down', taken) /\ Head(down) \in Frames /\ Head(down).type = "session_started"
          /\ \E t \in Steps : t = Head(down).turn /\ Incoming(t) /\ ~Incoming(t)'
        BY <1>4, <2>1
    <2>3. Incoming(0) /\ ~Incoming(0)'
        BY <2>2 DEF Frames
    <2>4. taken = 0 /\ \A k \in Mics : mic[k] = "unused"
        BY <2>3 DEF FreshInv
    <2>5. \A t \in Steps : ~Incoming(t)'
        <3>1. \A t \in Steps : Incoming(t)' => t <= taken
            BY <1>0, <2>2, FlowBasics DEF Incoming, Asks, Answers, Serving, Has, Upto
        <3> QED BY <2>3, <2>4, <3>1 DEF Steps
    <2>6. FreshInv'
        BY <2>2, <2>3 DEF FreshInv, Linked, Early
    <2>7. OneRecording'
        BY <2>2, <2>4, <2>5 DEF OneRecording, Active
    <2>8. OneStream => OneStream'
        BY <2>2 DEF OneStream
    <2> QED BY <2>2, <2>6, <2>7, <2>8, MicMoves DEF MicInv
<1>6. CASE OnTurnResult
    <2>1. Receive("turn_result") /\ "turn_result" \in Replies /\ status' \in {status, "ready"}
        BY <1>6 DEF OnTurnResult, Replies
    <2>2. /\ UNCHANGED <<mic, live, recorderRef, streamRef, late, taken, mounted, up, server>>
          /\ Linked /\ mounted /\ (Early' => Early) /\ \A t : Incoming(t)' => Incoming(t)
          /\ Head(down) \in Frames /\ Head(down).type = "turn_result" /\ Head(down).turn <= taken
          /\ \E t \in Steps : t = Head(down).turn /\ Incoming(t) /\ ~Incoming(t)'
        BY <1>4, <2>1
    <2>3. PICK t \in Steps : t = Head(down).turn /\ Incoming(t) /\ ~Incoming(t)'
        BY <2>2
    <2>4. taken # 0
        <3>1. t \in Turns
            BY <2>2, <2>3 DEF Frames
        <3> QED BY <1>0, <2>2, <2>3, <3>1 DEF Turns
    <2>5. FreshInv'
        BY <2>2, <2>4, FreshGone
    <2>6. OneStream => OneStream'
        BY <2>2 DEF OneStream
    <2>7. ASSUME late = {}
          PROVE  OneRecording'
        <3>1. OneRecording
            BY <2>2, <2>7 DEF MicInv
        <3>2. \A k \in Mics : ~Active(k)
            BY <2>2, <2>3, <3>1 DEF OneRecording
        <3>3. \A s \in Steps : ~Incoming(s)'
            BY <2>2, <2>3, <3>1 DEF OneRecording
        <3>4. \A k \in Mics : ~Active(k)'
            BY <2>2, <3>2 DEF Active
        <3> QED BY <3>3, <3>4 DEF OneRecording
    <2> QED BY <2>2, <2>5, <2>6, <2>7, MicMoves DEF MicInv
<1>7. CASE OnTurnFeedback \/ OnSessionEnded \/ OnErrorFrame
    <2>1. status' \in {status, "ended", "error"} /\ \E type : Receive(type)
        BY <1>7 DEF OnTurnFeedback, OnSessionEnded, OnErrorFrame
    <2>2. /\ UNCHANGED <<mic, live, recorderRef, streamRef, late, taken, mounted>>
          /\ (Linked' => Linked) /\ (Early' => Early) /\ \A t : Incoming(t)' => Incoming(t)
        BY <1>4, <2>1
    <2> QED BY <2>1, <2>2, CalmStep
<1> QED BY <1>1, <1>2, <1>3, <1>5, <1>6, <1>7 DEF Browser

LEMMA MicStep ==
    ASSUME TypeInv, FreshInv, MicInv, Next
    PROVE  FreshInv' /\ MicInv'
<1>1. CASE Engine \/ Fallback
    <2>1. /\ UNCHANGED <<mic, live, recorderRef, streamRef, late, taken, mounted, status, up, down, server>>
          /\ UNCHANGED <<socket, socketRef>>
        BY <1>1 DEF Engine, Fallback, OnUtteranceStart, OnBoundary, FinishActiveSpeech, StartFallbackReveal,
           RevealNextFallbackWord, voiceFrame, micVars, history, netVars, refVars
    <2> QED BY <2>1, IncomingSame, CalmStep DEF Early, Linked
<1>2. CASE Backend \/ Network
    <2>1. UNCHANGED <<mic, live, recorderRef, streamRef, late, taken, mounted, status, socketRef>>
        BY <1>2 DEF Backend, Network, IssueTicket, TicketRefused, TicketExpires, Admit, ServeStart, ServeTurn,
           ServeEnd, Serve, Answer, ServerSeesClose, ConnectionLost, hookVars, micVars, history, refVars
    <2>2. socket' \in {socket, "failing"}
        BY <1>2 DEF Backend, Network, IssueTicket, TicketRefused, TicketExpires, Admit, ServeStart, ServeTurn,
           ServeEnd, Serve, Answer, ServerSeesClose, ConnectionLost
    <2> QED BY <1>2, <2>1, <2>2, BackendIncoming, CalmStep DEF Early, Linked
<1> QED BY <1>1, <1>2, MicSteps, UserMic, BrowserMic DEF Next, User

\* The microphone is off once the page is left and the recorders have stopped, unless it was granted
\* after the recording had lost its place.
THEOREM MicOff == Spec => []MicOffUnlessLate
<1> DEFINE Inv == TypeInv /\ FreshInv /\ MicInv
<1>1. Init => Inv
    <2> SUFFICES ASSUME Init PROVE Inv
        OBVIOUS
    <2>1. TypeInv
        BY TypeInit
    <2>2. FreshInv
        BY DEF Init, FreshInv
    <2>3. \A t : ~Incoming(t)
        BY DEF Init, Incoming, Asks, Answers, Serving, Has, NoServer
    <2>4. \A k \in Mics : mic[k] = "unused" /\ ~Active(k)
        BY DEF Init, Active
    <2>5. OneStream
        BY <2>4 DEF Init, OneStream
    <2>6. OneRecording
        BY <2>3, <2>4 DEF Init, OneRecording
    <2> QED BY <2>1, <2>2, <2>5, <2>6 DEF Init, MicInv
<1>2. Inv /\ [Next]_vars => Inv'
    <2> SUFFICES ASSUME Inv, [Next]_vars PROVE Inv'
        OBVIOUS
    <2>1. TypeInv'
        BY TypeStep
    <2>2. CASE UNCHANGED vars
        <3>1. /\ UNCHANGED <<mic, live, recorderRef, streamRef, late, taken, mounted, status, up, down, server>>
              /\ UNCHANGED <<socket, socketRef>>
            BY <2>2 DEF vars, micVars, history, netVars, refVars
        <3> QED BY <2>1, <3>1, IncomingSame, CalmStep DEF Early, Linked
    <2> QED BY <2>1, <2>2, MicStep
<1>3. Inv => MicOffUnlessLate
    <2> SUFFICES ASSUME Inv, ~mounted, \A k \in Mics : mic[k] \notin {"asked", "stopping"}
                 PROVE  live \subseteq late
        BY DEF MicOffUnlessLate
    <2>1. live \subseteq Mics
        BY DEF TypeInv, TypeOK
    <2>2. CASE late = {}
        BY <2>1, <2>2 DEF MicInv, OneStream
    <2>3. CASE late = Mics
        BY <2>1, <2>3
    <2> QED BY <2>2, <2>3 DEF MicInv
<1> HIDE DEF Inv
<1> QED BY <1>1, <1>2, <1>3, PTL DEF Spec
=============================================================================

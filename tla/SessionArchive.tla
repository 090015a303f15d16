---------------------------- MODULE SessionArchive ----------------------------
(***************************************************************************)
(* What long-term memory promises of a session, whatever the concurrent    *)
(* calls of consolidate_session do: its record is written once and in one  *)
(* direction.  An open session has nothing stored.  Sealing it (end_time)  *)
(* fixes that this record is written by one call; errors and vocabulary    *)
(* are stored in one piece each, then the conversation, then the event is  *)
(* published.  The writer may stop anywhere; nobody else goes on for it.   *)
(***************************************************************************)
EXTENDS Naturals

CONSTANTS Sessions, Entries

VARIABLES phase, errors, words, transcript

vars == <<phase, errors, words, transcript>>

Phases == {"open", "sealed", "archived", "announced"}

Init ==
    /\ phase = [s \in Sessions |-> "open"]
    /\ errors = [s \in Sessions |-> {}]
    /\ words = [s \in Sessions |-> {}]
    /\ transcript = [s \in Sessions |-> {}]

Seal(s) ==
    /\ phase[s] = "open"
    /\ phase' = [phase EXCEPT ![s] = "sealed"]
    /\ UNCHANGED <<errors, words, transcript>>

\* Stored once, and not after the conversation.
StoreErrors(s) ==
    /\ phase[s] = "sealed"
    /\ errors[s] = {}
    /\ words[s] = {}
    /\ \E es \in SUBSET Entries : errors' = [errors EXCEPT ![s] = es]
    /\ UNCHANGED <<phase, words, transcript>>

StoreWords(s) ==
    /\ phase[s] = "sealed"
    /\ words[s] = {}
    /\ \E ws \in SUBSET Entries : words' = [words EXCEPT ![s] = ws]
    /\ UNCHANGED <<phase, errors, transcript>>

ArchiveConversation(s) ==
    /\ phase[s] = "sealed"
    /\ phase' = [phase EXCEPT ![s] = "archived"]
    /\ \E turns \in SUBSET Entries : transcript' = [transcript EXCEPT ![s] = turns]
    /\ UNCHANGED <<errors, words>>

Announce(s) ==
    /\ phase[s] = "archived"
    /\ phase' = [phase EXCEPT ![s] = "announced"]
    /\ UNCHANGED <<errors, words, transcript>>

Next == \E s \in Sessions :
    Seal(s) \/ StoreErrors(s) \/ StoreWords(s) \/ ArchiveConversation(s) \/ Announce(s)

Spec == Init /\ [][Next]_vars
=============================================================================

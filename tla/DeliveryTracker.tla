--------------------------- MODULE DeliveryTracker ---------------------------
(***************************************************************************)
(* The transport delivery tracker (src/relayChannel/transportDelivery-     *)
(* Tracker.ts) with its two users: the control plane, which reports each   *)
(* message the transport plugin has sent for a run, and the processor,     *)
(* which sends the final reply of a run itself unless the tracker says     *)
(* that the plugin has sent it already.                                    *)
(*                                                                         *)
(* What the plugin sends is sent for one run, but the plugin may name the  *)
(* run's message, only its session, or neither.  The tracker keeps a       *)
(* receipt; the model's receipt remembers, beyond the code's, for whom the *)
(* plugin really sent (`of') and what it named (`names').                  *)
(***************************************************************************)
EXTENDS Naturals, FiniteSets

CONSTANTS Message, Session,
          SessionOf,   \* [Message -> Session]
          None,        \* no receipt
          MaxSends     \* bound on what the plugin sends

Receipt == [of : Message, names : {"message", "session", "nothing"}]

ASSUME TrackerAssumption ==
    /\ IsFiniteSet(Message)
    /\ SessionOf \in [Message -> Session]
    /\ MaxSends \in Nat
    /\ None \notin Receipt

VARIABLES
    stage,       \* [Message -> Stage]: where the processor stands with it
    active,      \* activeCorrelationIdsBySessionKey
    byMessage,   \* deliveriesByCorrelationId
    bySession,   \* deliveriesBySessionKey
    skipped,     \* messages whose reply the relay did not send itself
    confirmed,   \* messages named by the plugin while their run was tracked
    sentFor,     \* messages the plugin has sent something for
    sends,
    evidence     \* how good the plugin's evidence is; chosen once

trackerVars == <<stage, active, byMessage, bySession, skipped, confirmed, sentFor, sends, evidence>>

(* late: the plugin also sends for runs that were released; unscoped: it    *)
(* may name neither message nor session.                                    *)
Evidence == [late : BOOLEAN, unscoped : BOOLEAN]

Scoped == ~evidence.late /\ ~evidence.unscoped

Stage == {"new", "running", "delivering", "delivered", "released"}

TrackerTypes ==
    /\ stage \in [Message -> Stage]
    /\ active \in [Session -> SUBSET Message]
    /\ byMessage \in [Message -> Receipt \cup {None}]
    /\ bySession \in [Session -> Receipt \cup {None}]
    /\ skipped \subseteq Message /\ confirmed \subseteq Message
    /\ sentFor \subseteq Message
    /\ sends \in 0..MaxSends
    /\ evidence \in Evidence

TrackerInit ==
    /\ stage = [m \in Message |-> "new"]
    /\ active = [s \in Session |-> {}]
    /\ byMessage = [m \in Message |-> None]
    /\ bySession = [s \in Session |-> None]
    /\ skipped = {} /\ confirmed = {} /\ sentFor = {}
    /\ sends = 0
    /\ evidence \in Evidence

-----------------------------------------------------------------------------
(* begin, when the run starts. *)
Begin(m) ==
    /\ stage[m] = "new"
    /\ stage' = [stage EXCEPT ![m] = "running"]
    /\ active' = [active EXCEPT ![SessionOf[m]] = @ \cup {m}]
    /\ UNCHANGED <<byMessage, bySession, skipped, confirmed, sentFor, sends, evidence>>

(* Mutant: any active message of the session. *)
AnyActive(s) == active[s]

(* recordSdkDelivery.  Named is {m} or {}, scope the session key given: a   *)
(* singleton or {}.  A receipt that names no message goes to the one active *)
(* in its session; one with neither, of the final reply, to the one message *)
(* of the one session that has exactly one.                                 *)
SoleActive(s) == IF Cardinality(active[s]) = 1 THEN active[s] ELSE {}
SoleSessions == {s \in Session : Cardinality(active[s]) = 1}

UnscopedMatch(named, scope, final) ==
    IF final /\ named = {} /\ scope = {} /\ Cardinality(SoleSessions) = 1
    THEN SoleSessions ELSE {}

Credited(named, scope, final) ==
    IF named # {} THEN named
    ELSE UNION {SoleActive(s) : s \in scope \cup UnscopedMatch(named, scope, final)}

(* Mutant: the receipt is filed only under the session.                     *)
RecordBySession(named, scope, final, r) ==
    /\ bySession' = [s \in Session |-> IF s \in scope THEN r ELSE bySession[s]]
    /\ UNCHANGED byMessage

RecordDelivery(named, scope, final, r) ==
    LET c == Credited(named, scope, final)
        kept == {m \in c : named # {} \/ byMessage[m] = None}
        keys == IF kept = {} THEN {}
                ELSE scope \cup UnscopedMatch(named, scope, final)
    IN
    /\ byMessage' = [m \in Message |-> IF m \in kept THEN r ELSE byMessage[m]]
    /\ bySession' = [s \in Session |-> IF s \in keys THEN r ELSE bySession[s]]

ReceiptFor(m, named, scope) ==
    [of |-> m, names |-> IF named # {} THEN "message"
                         ELSE IF scope # {} THEN "session" ELSE "nothing"]

(* The plugin has sent a message for the run of m. *)
PluginSends(m, named, scope, final) ==
    /\ sends < MaxSends
    /\ stage[m] # "new"
    /\ evidence.late \/ m \in active[SessionOf[m]]
    /\ named \in {{}, {m}} /\ scope \in {{}, {SessionOf[m]}}
    /\ evidence.unscoped \/ named # {} \/ scope # {}
    /\ RecordDelivery(named, scope, final, ReceiptFor(m, named, scope))
    /\ sentFor' = sentFor \cup {m}
    /\ confirmed' = IF named # {} /\ stage[m] = "running"
                    THEN confirmed \cup {m} ELSE confirmed
    /\ sends' = sends + 1
    /\ UNCHANGED <<stage, active, skipped, evidence>>

(* getSdkDelivery, as the processor calls it: with both keys. *)
Lookup(m) == IF byMessage[m] # None THEN byMessage[m] ELSE bySession[SessionOf[m]]

(* The run ends with a reply: the relay sends it, or finds it sent. *)
Deliver(m) ==
    /\ stage[m] = "running"
    /\ stage' = [stage EXCEPT ![m] = "delivering"]
    /\ skipped' = IF Lookup(m) # None THEN skipped \cup {m} ELSE skipped
    /\ UNCHANGED <<active, byMessage, bySession, confirmed, sentFor, sends, evidence>>

(* Mutant: the session's receipt is kept. *)
ClearMessage(m) ==
    /\ byMessage' = [byMessage EXCEPT ![m] = None]
    /\ active' = [active EXCEPT ![SessionOf[m]] = @ \ {m}]
    /\ UNCHANGED bySession

(* clear, with both keys. *)
Clear(m) ==
    /\ byMessage' = [byMessage EXCEPT ![m] = None]
    /\ bySession' = [bySession EXCEPT ![SessionOf[m]] = None]
    /\ active' = [active EXCEPT ![SessionOf[m]] = @ \ {m}]

(* The reply has been delivered, before it is reported to the backend. *)
ClearDelivered(m) ==
    /\ stage[m] = "delivering"
    /\ stage' = [stage EXCEPT ![m] = "delivered"]
    /\ Clear(m)
    /\ UNCHANGED <<skipped, confirmed, sentFor, sends, evidence>>

(* The finally block, after whatever end of the run. *)
Release(m) ==
    /\ stage[m] \in {"running", "delivering", "delivered"}
    /\ stage' = [stage EXCEPT ![m] = "released"]
    /\ Clear(m)
    /\ UNCHANGED <<skipped, confirmed, sentFor, sends, evidence>>

TrackerNext ==
    \E m \in Message :
        \/ Begin(m) \/ Deliver(m) \/ ClearDelivered(m) \/ Release(m)
        \/ \E named \in {{}, {m}}, scope \in {{}, {SessionOf[m]}}, final \in BOOLEAN :
               PluginSends(m, named, scope, final)

TrackerSpec == TrackerInit /\ [][TrackerNext]_trackerVars

-----------------------------------------------------------------------------
(* A reply the plugin has sent, and named, is not sent again: what other    *)
(* messages of the session do, their receipts and their clean-up, does not  *)
(* lose the receipt.                                                        *)
NamedReplyIsNotRepeated ==
    \A m \in confirmed :
        stage[m] \in {"delivering", "delivered"} => m \in skipped

(* A receipt the plugin named is never replaced by a guessed one. *)
GuessNeverOverwrites ==
    [][\A m \in Message :
          /\ byMessage[m] # None /\ byMessage[m].names = "message"
          /\ byMessage'[m] # None
          => byMessage'[m].names = "message"]_trackerVars

(* When the plugin gives a message or a session, and sends only for tracked *)
(* runs, every receipt filed under a message is of that message's own run.  *)
FiledTruly ==
    Scoped =>
        \A m \in Message : byMessage[m] # None => byMessage[m].of = m

(* When the plugin sends only for tracked runs, no receipt outlives the     *)
(* runs of its session: the next message cannot find a stale one.           *)
NothingLeftBehind ==
    Scoped =>
        \A s \in Session :
            active[s] = {} =>
                /\ bySession[s] = None
                /\ \A m \in Message : SessionOf[m] = s => byMessage[m] = None

(* With such evidence, a reply is withheld only if the plugin has sent      *)
(* something for that message: "it avoids marking the wrong backend message *)
(* as delivered" (docs/transport-bug-hunt.md).                              *)
OnlyOwnReceiptsCount == Scoped => skipped \subseteq sentFor
=============================================================================

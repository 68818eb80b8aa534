--------------------------- MODULE EventForwarder ---------------------------
(***************************************************************************)
(* The forwarder of the gateway's chat events (openclaw/                   *)
(* gatewayEventForwarder.ts), for one run.  Deltas are signalled to the    *)
(* backend once the run is correlated with a message; what cannot be       *)
(* correlated is reported in a dead letter; text that comes after the      *)
(* reply is recovered.                                                     *)
(*                                                                         *)
(* The text of an event is cumulative: the number of its words.  A state   *)
(* of the run is an object that timers and the send chain hold on to; the  *)
(* map of runs holds at most one of them, and after a deletion the next    *)
(* event makes another.  A step is what runs between two awaits or timers. *)
(***************************************************************************)
EXTENDS Naturals, FiniteSets, Sequences, SequencesExt, FiniteSetsExt

CONSTANTS Events,           \* the events of the run, a set of Event
          MaxObjects,       \* bound: objects
          MaxBuffered,      \* UNCORRELATED_DELTA_MAX_BUFFERED
          MaxRepeats,       \* bound: repeated events
          Wired             \* is closeRun() called when the reply is out?

Event == [seq : Nat \ {0}, words : Nat, terminal : BOOLEAN]

ASSUME ForwarderAssumption ==
    /\ Events \subseteq Event /\ IsFiniteSet(Events) /\ Events # {}
    /\ \A e, f \in Events : e.seq = f.seq => e = f
    /\ MaxObjects \in Nat \ {0} /\ MaxBuffered \in Nat /\ MaxRepeats \in Nat
    /\ Wired \in BOOLEAN

VARIABLES
    cur, made,              \* runStatesByRunId: the object in it, 0 for none; objects made
    objs,                   \* the objects
    trace,                  \* external: what getChatRunTrace() knows
    replied, last,          \* external: the run was answered, the text the user was last sent
    received, repeats,      \* the events received, how many may still be repeated
    reported,               \* history: events signalled or in a dead letter
    excused,                \* history: deltas that no signal or letter is due for
    blurred,                \* history: known reasons to be wrong about the user's text
    late                    \* history: the text of events after the reply

vars == <<cur, made, objs, trace, replied, last, received, repeats,
          reported, excused, blurred, late>>
outside == <<trace, replied, last, received, repeats, excused, blurred, late>>

Object == 1..MaxObjects
Seqs == {e.seq : e \in Events}
Words == {e.words : e \in Events} \cup {0}
NoText == [seq |-> 0, words |-> 0]
Delta == [seq : Seqs, words : Words]
Text == [seq : Seqs \cup {0}, words : Words]
Idle == [kind |-> "idle", on |-> 1, todo |-> {}, text |-> NoText]

New == [known |-> FALSE, old |-> FALSE, buffer |-> {}, fwd |-> 0, rec |-> 0, done |-> FALSE,
        delivered |-> 0, term |-> NoText, termFwd |-> 0,
        debounce |-> "off", loose |-> "off", cleanup |-> FALSE, dead |-> FALSE,
        chain |-> <<>>, job |-> Idle]

Job == [kind : {"idle", "dead", "signal", "recover", "terminal"}, on : Object, todo : SUBSET Delta, text : Text]
State == [known : BOOLEAN, old : BOOLEAN, buffer : SUBSET Delta, fwd : Seqs \cup {0}, rec : Seqs \cup {0},
          done : BOOLEAN, delivered : Words, term : Text, termFwd : Seqs \cup {0},
          debounce : {"off", "flush", "retry", "fired"}, loose : {"off", "flush", "retry"},
          cleanup : BOOLEAN, dead : BOOLEAN, chain : Seq({"flush", "dead"}), job : Job]

TypeOK ==
    /\ cur \in 0..made /\ made \in 0..MaxObjects /\ objs \in [Object -> State]
    /\ trace \in {"none", "known", "gone"} /\ replied \in BOOLEAN /\ last \in Words
    /\ received \subseteq Seqs /\ repeats \in 0..MaxRepeats
    /\ reported \subseteq Seqs /\ excused \subseteq Seqs
    /\ blurred \in BOOLEAN /\ late \in Words

Init ==
    /\ cur = 0 /\ made = 0 /\ objs = [i \in Object |-> New]
    /\ trace = "none" /\ replied = FALSE /\ last = 0
    /\ received = {} /\ repeats = MaxRepeats
    /\ reported = {} /\ excused = {} /\ blurred = FALSE /\ late = 0

-----------------------------------------------------------------------------
(* Operators on an object.                                                  *)

(* attachTraceIfAvailable(); the age of a correlated object plays no part.  *)
Attached(o) == IF ~o.known /\ trace = "known" THEN [o EXCEPT !.known = TRUE, !.dead = FALSE, !.old = FALSE] ELSE o

(* deadLetterUncorrelatedState()                                            *)
DeadLettered(o) == [o EXCEPT !.debounce = "off", !.dead = FALSE, !.chain = Append(@, "dead")]

(* scheduleUncorrelatedRetry()                                              *)
Retried(o) == IF o.old THEN DeadLettered(o) ELSE [o EXCEPT !.debounce = "retry", !.dead = TRUE]

Debounced(o) == [o EXCEPT !.debounce = "flush"]
Scheduled(o) == IF o.known THEN Debounced(o) ELSE Retried(o)

(* What a dead letter of an object reports.                                 *)
Content(o) == {t.seq : t \in o.buffer} \cup ({o.term.seq} \ {0})
Letter(o, to) == IF Len(to.chain) > Len(o.chain) /\ Last(to.chain) = "dead" THEN Content(to) ELSE {}

(* computePendingUserFacingText(): is there any?  An older, shorter text    *)
(* counts as a new one.                                                     *)
Pending(o, words) == words # 0 /\ words # o.delivered

(* Dead letters and cleanups delete by the run's id, that is the object in  *)
(* the map, which need not be their own.                                    *)
Deleted(os, c) ==
    IF c = 0 THEN os ELSE [os EXCEPT ![c].debounce = "off", ![c].cleanup = FALSE, ![c].dead = FALSE]

-----------------------------------------------------------------------------
(* forward()                                                                *)

(* Microtasks come before the next event or timer.                          *)
Startable(i) == objs[i].job.kind = "idle" /\ objs[i].chain # <<>>
Quiet == \A i \in Object : ~Startable(i)

(* Is an object, or one that was deleted and still has work to do, about to *)
(* delete the run by its id?                                                *)
Leaving(o) == o.cleanup \/ o.job.kind = "dead" \/ "dead" \in Range(o.chain)
Haunting(o) == Leaving(o) \/ o.job # Idle \/ o.dead \/ o.loose # "off" \/ o.debounce \in {"flush", "retry"}

(* A mutant: the newest deltas push the oldest ones out.                    *)
TakesInTheNewest(o, e) ==
    LET t == [seq |-> e.seq, words |-> e.words]
        keeps == {b \in o.buffer : b.seq > Min({c.seq : c \in o.buffer})}
    IN IF e.seq <= o.fwd \/ e.seq \in {b.seq : b \in o.buffer} THEN Scheduled(o)
       ELSE IF Cardinality(o.buffer) >= MaxBuffered /\ ~o.known
            THEN Scheduled([o EXCEPT !.buffer = keeps \cup {t}])
            ELSE Scheduled([o EXCEPT !.buffer = @ \cup {t}])

(* A delta is buffered, unless it is not new; too many of them are not kept *)
(* waiting.                                                                 *)
TakesIn(o, e) ==
    LET to == [o EXCEPT !.buffer = @ \cup {[seq |-> e.seq, words |-> e.words]}] IN
    IF e.seq <= o.fwd \/ e.seq \in {b.seq : b \in o.buffer} THEN Scheduled(o)
    ELSE IF Cardinality(to.buffer) > MaxBuffered /\ ~o.known THEN DeadLettered(to)
    ELSE Scheduled(to)

Ends(o, e) ==
    LET to == [o EXCEPT !.term = [seq |-> e.seq, words |-> e.words], !.cleanup = FALSE]
    IN IF to.known /\ to.done /\ e.words # 0 THEN [to EXCEPT !.chain = Append(@, "flush")]
       ELSE Scheduled(to)

(* Bound: a delta is repeated while the object knows of it.                 *)
Repeatable ==
    IF cur = 0 THEN {}
    ELSE {e \in Events : ~e.terminal /\ (e.seq <= objs[cur].fwd \/ e.seq \in {t.seq : t \in objs[cur].buffer})}

Receive(e) ==
    LET i == IF cur = 0 THEN made + 1 ELSE cur
        o == Attached(objs[i])
        to == IF e.terminal THEN Ends(o, e) ELSE TakesIn(o, e)
        leaving == Leaving(o) \/ \E j \in Object \ {i} : Haunting(objs[j])
    IN /\ i \in Object
       /\ \/ e.seq \notin received /\ repeats' = repeats
          \/ e.seq \in received /\ e \in Repeatable /\ repeats > 0 /\ repeats' = repeats - 1
       /\ received' = received \cup {e.seq}
       /\ cur' = i /\ made' = IF cur = 0 THEN i ELSE made
       /\ objs' = [objs EXCEPT ![i] = to]
       /\ reported' = reported \cup Letter(o, to)
       /\ excused' = IF leaving \/ e.seq <= o.fwd THEN excused \cup {e.seq} ELSE excused
       /\ late' = IF replied /\ trace = "known" THEN Max({late, e.words}) ELSE late
       /\ UNCHANGED <<trace, replied, last, blurred>>

-----------------------------------------------------------------------------
(* Timers, which have their object at hand but queue by the run's id.       *)

QueueFlush(os) == IF cur = 0 THEN os ELSE [os EXCEPT ![cur].chain = Append(@, "flush")]

(* The debounce and the retry timer; a flush drops the handle of one that   *)
(* is still running.                                                        *)
Rings(i, kind, spent) ==
    LET o == Attached(spent) IN
    IF kind = "flush" THEN /\ objs' = QueueFlush([objs EXCEPT ![i] = spent])
                           /\ UNCHANGED reported
    ELSE IF o.known THEN /\ objs' = QueueFlush([objs EXCEPT ![i] = o])
                         /\ UNCHANGED reported
    ELSE /\ objs' = [objs EXCEPT ![i] = Retried(o)]
         /\ reported' = reported \cup Letter(o, Retried(o))

DebounceFires(i) ==
    /\ objs[i].debounce \in {"flush", "retry"}
    /\ Rings(i, objs[i].debounce, [objs[i] EXCEPT !.debounce = "fired"])
    /\ UNCHANGED <<cur, made, outside>>

LooseFires(i) ==
    /\ objs[i].loose # "off"
    /\ Rings(i, objs[i].loose, [objs[i] EXCEPT !.loose = "off"])
    /\ UNCHANGED <<cur, made, outside>>

(* UNCORRELATED_DELTA_TTL_MS after the object was made.                     *)
DeadLetterFires(i) ==
    LET o == Attached([objs[i] EXCEPT !.old = TRUE, !.dead = FALSE]) IN
    /\ objs[i].dead
    /\ IF o.known THEN /\ objs' = QueueFlush([objs EXCEPT ![i] = o])
                       /\ UNCHANGED reported
       ELSE /\ objs' = [objs EXCEPT ![i] = DeadLettered(o)]
            /\ reported' = reported \cup Content(o)
    /\ UNCHANGED <<cur, made, outside>>

GrowsOld(i) ==
    /\ objs[i].debounce = "retry" /\ ~objs[i].old
    /\ objs' = [objs EXCEPT ![i].old = TRUE]
    /\ UNCHANGED <<cur, made, reported, outside>>

(* TERMINAL_RUN_STATE_RETENTION_MS                                          *)
CleanupFires(i) ==
    /\ objs[i].cleanup
    /\ objs' = [Deleted(objs, cur) EXCEPT ![i].cleanup = FALSE]
    /\ cur' = 0
    /\ UNCHANGED <<made, reported, outside>>

-----------------------------------------------------------------------------
(* The send chain of an object.                                             *)

Rest(i) == [objs EXCEPT ![i].chain = Tail(@), ![i].job = Idle]
Oldest(todo) == {t \in todo : \A u \in todo : t.seq <= u.seq}

(* A mutant: what is left is signalled as it is.                            *)
NewerOrNot(todo, fwd) == todo

(* The deltas that are left once those not newer than fwd are skipped.      *)
Newer(todo, fwd) == {t \in todo : t.seq > fwd}

(* A mutant: the retention is not started at the end of a flush.            *)
FinishedForGood(os, i, c) == [os EXCEPT ![i].chain = Tail(@), ![i].job = Idle]

(* The end of a flush.                                                      *)
Finished(os, i, c) ==
    [os EXCEPT ![c].cleanup = @ \/ (os[c].term.seq # 0 /\ os[c].debounce = "off"),
               ![i].chain = Tail(@), ![i].job = Idle]

(* The next await of a flush: a signal, a recovery of the latest delta, one *)
(* of the terminal text, or its end.                                        *)
Terminal(os, i, c) ==
    LET o == os[c]
        due == o.done /\ o.term.seq > o.termFwd /\ o.term.seq > o.rec /\ o.term.words # 0
    IN IF due /\ Pending(o, o.term.words)
       THEN [os EXCEPT ![i].job = [kind |-> "terminal", on |-> c, todo |-> {}, text |-> o.term]]
       ELSE Finished([os EXCEPT ![c].termFwd = IF due THEN o.term.seq ELSE @], i, c)

Recovery(os, i, c, text) ==
    IF os[c].done /\ Pending(os[c], text.words) /\ text.seq > os[c].rec
    THEN [os EXCEPT ![i].job = [kind |-> "recover", on |-> c, todo |-> {}, text |-> text]]
    ELSE Terminal(os, i, c)

Flushing(os, i, c, todo, text) ==
    IF todo # {}
    THEN [os EXCEPT ![i].job = [kind |-> "signal", on |-> c, todo |-> todo, text |-> text]]
    ELSE Recovery(os, i, c, text)

(* flushBufferedSignals() up to its first await.                            *)
Flush(i) ==
    LET o == Attached([objs[cur] EXCEPT !.debounce = "off",
                                        !.loose = IF objs[cur].debounce \in {"flush", "retry"}
                                                  THEN objs[cur].debounce ELSE @])
    IN /\ Startable(i) /\ Head(objs[i].chain) = "flush"
       /\ IF cur = 0 THEN objs' = Rest(i) /\ UNCHANGED reported
          ELSE IF ~o.known
          THEN /\ objs' = [[objs EXCEPT ![cur] = Retried(o)] EXCEPT ![i].chain = Tail(@)]
               /\ reported' = reported \cup Letter(o, Retried(o))
          ELSE /\ objs' = Flushing([objs EXCEPT ![cur] = [o EXCEPT !.buffer = {}]], i, cur,
                                   Newer(o.buffer, o.fwd), NoText)
               /\ reported' = reported \cup {t.seq : t \in o.buffer}
       /\ UNCHANGED <<cur, made, outside>>

(* A signal is answered, or has failed, which is only logged; they are sent *)
(* in the order of their numbers.                                           *)
Signalled(i) ==
    LET job == objs[i].job IN
    /\ job.kind = "signal"
    /\ \E t \in Oldest(job.todo) :
          LET fwd == Max({objs[job.on].fwd, t.seq}) IN
          objs' = Flushing([objs EXCEPT ![job.on].fwd = fwd], i, job.on, Newer(job.todo \ {t}, fwd),
                           IF t.words # 0 THEN t ELSE job.text)
    /\ UNCHANGED <<cur, made, reported, outside>>

(* A recovery is answered, or has failed: it counts as delivered.           *)
Recovered(i, ok) ==
    LET job == objs[i].job
        c == job.on
        done == IF job.kind = "recover"
                THEN [objs EXCEPT ![c].delivered = job.text.words, ![c].rec = job.text.seq]
                ELSE [objs EXCEPT ![c].delivered = objs[c].term.words,
                                  ![c].termFwd = Max({@, objs[c].term.seq})]
    IN /\ job.kind \in {"recover", "terminal"}
       /\ last' = IF ok THEN job.text.words ELSE last
       /\ blurred' = (blurred \/ ~ok \/ (job.kind = "terminal" /\ objs[c].term # job.text) \/ c # cur)
       /\ objs' = IF job.kind = "recover" THEN Terminal(done, i, c) ELSE Finished(done, i, c)
       /\ UNCHANGED <<cur, made, trace, replied, received, repeats, reported, excused, late>>

(* A dead letter is on its way, and then the run is deleted.                *)
SendsLetter(i) ==
    /\ Startable(i) /\ Head(objs[i].chain) = "dead"
    /\ objs' = [objs EXCEPT ![i].job.kind = "dead"]
    /\ UNCHANGED <<cur, made, reported, outside>>

LetterSent(i) ==
    /\ objs[i].job.kind = "dead"
    /\ objs' = Deleted(Rest(i), cur)
    /\ cur' = 0
    /\ UNCHANGED <<made, reported, outside>>

-----------------------------------------------------------------------------
(* The chat runner registers the run, answers it and releases its trace.    *)

TraceKnown ==
    /\ trace = "none" /\ trace' = "known"
    /\ UNCHANGED <<cur, made, objs, replied, last, received, repeats, reported, excused, blurred, late>>

TraceGone ==
    /\ trace = "known" /\ replied /\ trace' = "gone"
    /\ UNCHANGED <<cur, made, objs, replied, last, received, repeats, reported, excused, blurred, late>>

(* A mutant: whatever the run ended with has been delivered.                *)
ClosedAnyhow(o, ok) ==
    [o EXCEPT !.done = TRUE, !.debounce = "off", !.cleanup = TRUE,
              !.delivered = IF @ = 0 THEN o.term.words ELSE @]

(* closeRun(), for a reply and for a run that failed or had none.           *)
Closed(o, ok) ==
    [o EXCEPT !.done = TRUE, !.debounce = "off", !.cleanup = TRUE,
              !.delivered = IF ok /\ @ = 0 THEN o.term.words ELSE @]

(* The reply is the text of the terminal event, or one of the transcript    *)
(* that the forwarder does not know of.                                     *)
Replies(ok, words) ==
    LET known == cur # 0 /\ objs[cur].term.words = words IN
    /\ trace = "known" /\ ~replied
    /\ replied' = TRUE
    /\ last' = IF ok THEN words ELSE last
    /\ blurred' = (blurred \/ (ok /\ ~known))
    /\ IF Wired /\ cur # 0
       THEN /\ objs' = [objs EXCEPT ![cur] = Closed(@, ok)]
            /\ excused' = excused \cup {t.seq : t \in objs[cur].buffer}
       ELSE UNCHANGED <<objs, excused>>
    /\ UNCHANGED <<cur, made, trace, received, repeats, reported, late>>

-----------------------------------------------------------------------------
Timers(i) == Quiet /\ (DebounceFires(i) \/ LooseFires(i) \/ DeadLetterFires(i) \/ CleanupFires(i))
Chain(i) ==
    \/ Flush(i) \/ SendsLetter(i)
    \/ Quiet /\ (Signalled(i) \/ LetterSent(i) \/ \E ok \in BOOLEAN : Recovered(i, ok))

Next ==
    \/ \E i \in Object : Timers(i) \/ Chain(i) \/ (Quiet /\ GrowsOld(i))
    \/ Quiet /\ \/ \E e \in Events : Receive(e)
                \/ TraceKnown \/ TraceGone
                \/ \E ok \in BOOLEAN, words \in Words \ {0} : Replies(ok, words)

Spec == Init /\ [][Next]_vars

(* Timers fire and submissions end.                                         *)
FairSpec == Spec /\ \A i \in Object : WF_vars(Timers(i)) /\ WF_vars(Chain(i))

-----------------------------------------------------------------------------
(* The forwarder knows what the user was last sent, unless a submission     *)
(* failed, the terminal was replaced during its own submission, or the      *)
(* reply was not the terminal's text; then text is repeated or left out.    *)
BeliefIsTrue ==
    cur # 0 /\ ~blurred => objs[cur].delivered \in {0, last}

(* A signal is sent for a correlated run only, and only if no newer one was *)
(* answered before, whatever the order in which the events came and however *)
(* many flushes run at a time.                                              *)
SignalsIncrease ==
    [][ \A i \in Object :
          LET job == objs'[i].job IN
          job.kind = "signal" /\ job # objs[i].job =>
              objs'[job.on].known /\ \A t \in Oldest(job.todo) : t.seq > objs'[job.on].fwd ]_vars

(* Test: "dead-letters uncorrelated deltas instead of dropping them".  A    *)
(* delta is signalled, in a dead letter, older than a signalled one or      *)
(* still buffered, unless it came while the run was about to be deleted or  *)
(* was buffered when it was closed.                                         *)
NothingDropped ==
    \A e \in Events : ~e.terminal /\ e.seq \in received =>
        e.seq \in reported \cup excused \/ (cur # 0 /\ e.seq \in {t.seq : t \in objs[cur].buffer})

(* A run that has ended, or that is not correlated, is not kept.            *)
RunsAreReleased ==
    \A i \in Object : (cur = i /\ (objs[i].term.seq # 0 \/ ~objs[i].known)) ~>
                      (cur # i \/ (objs[i].known /\ objs[i].term.seq = 0))

(* README: "After the primary reply has completed, late user-facing text is *)
(* delivered through technical.event=chat.user_facing_recovery callbacks."  *)
LateTextIsRecovered == late > last /\ replied ~> late <= last
=============================================================================

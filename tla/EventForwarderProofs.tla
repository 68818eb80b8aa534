------------------------ MODULE EventForwarderProofs ------------------------
(***************************************************************************)
(* What holds of the forwarder for every set of events, every number of    *)
(* objects and every size of the buffer: no delta is dropped silently, the *)
(* forwarder knows what the user was last sent, and signals go up.         *)
(***************************************************************************)
EXTENDS EventForwarder, TLAPS

-----------------------------------------------------------------------------
(* Numbers and sequences.                                                   *)
LEMMA Numbers == Seqs \subseteq Nat /\ Words \subseteq Nat /\ 0 \in Words
  BY ForwarderAssumption DEF Seqs, Words, Event

LEMMA MaxOfTwo == \A a, b \in Nat : /\ Max({a, b}) \in {a, b}
                                    /\ Max({a, b}) >= a /\ Max({a, b}) >= b
<1> TAKE a, b \in Nat
<1>1. \E x \in {a, b} : \A y \in {a, b} : x >= y
  <2>1. CASE a >= b
    BY <2>1
  <2>2. CASE b >= a
    BY <2>2
  <2> QED
    BY <2>1, <2>2
<1> QED
  BY <1>1 DEF Max

Link == {"flush", "dead"}

LEMMA ChainLinks ==
    ASSUME NEW s \in Seq(Link), NEW x \in Link
    PROVE  /\ Append(s, x) \in Seq(Link) /\ Append(s, x) # <<>>
           /\ Last(Append(s, x)) = x /\ Len(Append(s, x)) > Len(s)
           /\ Range(Append(s, x)) = Range(s) \cup {x}
           /\ s # <<>> => /\ Tail(s) \in Seq(Link) /\ Head(s) \in Range(s)
                          /\ Range(Tail(s)) \subseteq Range(s)
<1>1. Append(s, x) \in Seq(Link) /\ Append(s, x) # <<>> /\ Last(Append(s, x)) = x
      /\ Len(Append(s, x)) > Len(s)
  BY DEF Last
<1>2. Range(Append(s, x)) = Range(s) \cup {x}
  <2>1. DOMAIN Append(s, x) = DOMAIN s \cup {Len(s) + 1}
    OBVIOUS
  <2>2. \A k \in DOMAIN s : Append(s, x)[k] = s[k]
    OBVIOUS
  <2>3. Append(s, x)[Len(s) + 1] = x /\ Len(s) + 1 \notin DOMAIN s
    OBVIOUS
  <2> QED
    BY <2>1, <2>2, <2>3 DEF Range
<1>3. s # <<>> => /\ Tail(s) \in Seq(Link) /\ Head(s) \in Range(s)
                  /\ Range(Tail(s)) \subseteq Range(s)
  BY DEF Range
<1> QED
  BY <1>1, <1>2, <1>3

-----------------------------------------------------------------------------
(* What the operators on an object change.                                  *)

(* What neither the timers nor the correlation touch.                       *)
Alike(o, p) ==
    /\ p \in State
    /\ p.job = o.job /\ p.fwd = o.fwd /\ p.rec = o.rec /\ p.termFwd = o.termFwd
    /\ p.done = o.done /\ p.delivered = o.delivered /\ (o.known => p.known)

LEMMA AlikeIsTransitive ==
    /\ \A o \in State : Alike(o, o)
    /\ \A o, p, q : Alike(o, p) /\ Alike(p, q) => Alike(o, q)
  BY DEF Alike

LEMMA AttachedIsAlike ==
    ASSUME NEW o \in State
    PROVE  /\ Alike(o, Attached(o)) /\ Attached(o).buffer = o.buffer /\ Attached(o).term = o.term
           /\ Attached(o).chain = o.chain /\ Attached(o).cleanup = o.cleanup
           /\ Attached(o).debounce = o.debounce
           /\ Attached(o).dead => o.dead
<1> DEFINE p == [o EXCEPT !.known = TRUE, !.dead = FALSE, !.old = FALSE]
<1>1. p \in State /\ Alike(o, p) /\ p.buffer = o.buffer /\ p.term = o.term
      /\ p.chain = o.chain /\ p.cleanup = o.cleanup /\ p.debounce = o.debounce /\ p.dead = FALSE
  BY DEF Alike, State
<1>2. Attached(o) \in {o, p}
  BY DEF Attached
<1>3. Alike(o, o)
  BY DEF Alike
<1> QED
  BY <1>1, <1>2, <1>3

LEMMA LetteredReports ==
    ASSUME NEW o \in State
    PROVE  LET p == DeadLettered(o) IN
           /\ Alike(o, p) /\ p.buffer = o.buffer /\ p.term = o.term /\ p.cleanup = o.cleanup
           /\ p.chain = Append(o.chain, "dead")
           /\ Letter(o, p) = Content(o)
<1> DEFINE p == DeadLettered(o)
<1>1. o.chain \in Seq(Link) /\ "dead" \in Link
  BY DEF State, Link
<1>2. Append(o.chain, "dead") \in Seq(Link)
  BY <1>1, ChainLinks
<1>3. p = [o EXCEPT !.debounce = "off", !.dead = FALSE, !.chain = Append(o.chain, "dead")]
  BY DEF DeadLettered
<1>4. /\ p \in State /\ p.chain = Append(o.chain, "dead")
      /\ p.job = o.job /\ p.fwd = o.fwd /\ p.rec = o.rec /\ p.termFwd = o.termFwd
      /\ p.done = o.done /\ p.delivered = o.delivered
      /\ p.loose = o.loose /\ p.known = o.known
      /\ p.buffer = o.buffer /\ p.term = o.term /\ p.cleanup = o.cleanup
  BY <1>2, <1>3 DEF State, Link
<1> HIDE DEF p
<1>5. Content(p) = Content(o)
  BY <1>4 DEF Content
<1>6. Letter(o, p) = Content(o)
  BY <1>1, <1>4, <1>5, ChainLinks DEF Letter
<1> QED
  BY <1>4, <1>6 DEF Alike, p

(* A retry keeps the timer of the letter running; a state that is too old   *)
(* is reported as a whole.                                                  *)
Kept(o, p, letter) ==
    /\ Alike(o, p) /\ p.buffer = o.buffer /\ p.term = o.term /\ p.cleanup = o.cleanup
    /\ \/ p.chain = Append(o.chain, "dead") /\ {t.seq : t \in o.buffer} \subseteq letter
       \/ p.chain = o.chain /\ p.debounce \in {"flush", "retry"} /\ letter = {}

LEMMA RetriedKeeps ==
    ASSUME NEW o \in State
    PROVE  Kept(o, Retried(o), Letter(o, Retried(o)))
<1>1. CASE o.old
  BY <1>1, LetteredReports DEF Retried, Kept, Content
<1>2. CASE ~o.old
  <2> DEFINE p == [o EXCEPT !.debounce = "retry", !.dead = TRUE]
  <2>1. Retried(o) = p
    BY <1>2 DEF Retried
  <2>2. p \in State /\ p.chain = o.chain /\ p.debounce = "retry" /\ Alike(o, p)
        /\ p.buffer = o.buffer /\ p.term = o.term /\ p.cleanup = o.cleanup
    BY DEF State, Alike
  <2>3. ~(Len(p.chain) > Len(o.chain))
    BY <2>2 DEF State
  <2> QED
    BY <2>1, <2>2, <2>3 DEF Kept, Letter
<1> QED
  BY <1>1, <1>2

LEMMA ScheduledKeeps ==
    ASSUME NEW o \in State
    PROVE  Kept(o, Scheduled(o), Letter(o, Scheduled(o)))
<1>1. CASE o.known
  <2> DEFINE p == [o EXCEPT !.debounce = "flush"]
  <2>1. Scheduled(o) = p
    BY <1>1 DEF Scheduled, Debounced
  <2>2. p \in State /\ p.chain = o.chain /\ p.debounce = "flush" /\ Alike(o, p)
        /\ p.buffer = o.buffer /\ p.term = o.term /\ p.cleanup = o.cleanup
    BY DEF State, Alike
  <2>3. ~(Len(p.chain) > Len(o.chain))
    BY <2>2 DEF State
  <2> QED
    BY <2>1, <2>2, <2>3 DEF Kept, Letter
<1>2. CASE ~o.known
  BY <1>2, RetriedKeeps DEF Scheduled
<1> QED
  BY <1>1, <1>2

(* What a flush of chain i over object c does, from os to ot: it ends or    *)
(* waits for a call, and leaves what the events and timers look at alone.   *)
Calls == {"signal", "recover", "terminal"}

Flushed(os, ot, i, c, todo) ==
    /\ ot \in [Object -> State]
    /\ \A j \in Object :
          /\ ot[j].buffer = os[j].buffer /\ ot[j].fwd = os[j].fwd /\ ot[j].done = os[j].done
          /\ ot[j].delivered = os[j].delivered /\ ot[j].term = os[j].term /\ ot[j].known = os[j].known
          /\ ot[j].debounce = os[j].debounce /\ ot[j].loose = os[j].loose /\ ot[j].dead = os[j].dead
          /\ j # i => ot[j].job = os[j].job /\ ot[j].chain = os[j].chain
          /\ j # i /\ j # c => ot[j] = os[j]
          /\ ot[j].cleanup => os[j].cleanup \/ (j = c /\ os[c].debounce = "off")
    /\ \/ ot[i].job = Idle /\ ot[i].chain = Tail(os[i].chain)
       \/ /\ ot[i].chain = os[i].chain
          /\ ot[i].job.on = c /\ ot[i].job.kind \in Calls
          /\ ot[i].job.kind = "signal" => ot[i].job.todo = todo /\ todo # {}
          /\ ot[i].job.kind # "signal" => os[c].done

LEMMA IdleIsJob == Idle \in Job /\ NoText \in Text
  BY Numbers, ForwarderAssumption DEF Idle, Job, NoText, Text, Object

(* A job set in chain i alone.                                              *)
LEMMA CallFlushes ==
    ASSUME NEW os \in [Object -> State], NEW i \in Object, NEW c \in Object, NEW todo \in SUBSET Delta,
           NEW job \in Job, job.on = c, job.kind \in Calls,
           job.kind = "signal" => job.todo = todo /\ todo # {},
           job.kind # "signal" => os[c].done
    PROVE  Flushed(os, [os EXCEPT ![i].job = job], i, c, todo)
<1> DEFINE p == [os[i] EXCEPT !.job = job]
           ot == [os EXCEPT ![i] = p]
<1>0. os[i] \in State
  OBVIOUS
<1>1. p \in State /\ p.job = job
      /\ p.buffer = os[i].buffer /\ p.fwd = os[i].fwd /\ p.done = os[i].done
      /\ p.delivered = os[i].delivered /\ p.term = os[i].term /\ p.known = os[i].known
      /\ p.debounce = os[i].debounce /\ p.loose = os[i].loose /\ p.dead = os[i].dead
      /\ p.chain = os[i].chain /\ p.cleanup = os[i].cleanup
  BY <1>0 DEF State
<1> HIDE DEF p
<1>2. ot \in [Object -> State] /\ \A j \in Object : ot[j] = IF j = i THEN p ELSE os[j]
  BY <1>1
<1> HIDE DEF ot
<1>3. Flushed(os, ot, i, c, todo)
  BY <1>1, <1>2 DEF Flushed
<1> QED
  BY <1>3 DEF ot, p

LEMMA FinishedFlushes ==
    ASSUME NEW os \in [Object -> State], NEW i \in Object, NEW c \in Object, NEW todo \in SUBSET Delta,
           os[i].chain # <<>>
    PROVE  Flushed(os, Finished(os, i, c), i, c, todo)
<1> DEFINE ended == os[c].term.seq # 0 /\ os[c].debounce = "off"
           p == [os[c] EXCEPT !.cleanup = @ \/ ended]
           oc == [os EXCEPT ![c] = p]
           q == [oc[i] EXCEPT !.chain = Tail(@), !.job = Idle]
           ot == [oc EXCEPT ![i] = q]
<1>1. p \in State
      /\ p.buffer = os[c].buffer /\ p.fwd = os[c].fwd /\ p.done = os[c].done
      /\ p.delivered = os[c].delivered /\ p.term = os[c].term /\ p.known = os[c].known
      /\ p.debounce = os[c].debounce /\ p.loose = os[c].loose /\ p.dead = os[c].dead
      /\ p.chain = os[c].chain /\ p.job = os[c].job /\ p.cleanup = (os[c].cleanup \/ ended)
  BY DEF State
<1> HIDE DEF p
<1>2. oc \in [Object -> State] /\ \A j \in Object : oc[j] = IF j = c THEN p ELSE os[j]
  BY <1>1
<1>3. oc[i].chain = os[i].chain /\ os[i].chain \in Seq(Link)
  BY <1>1, <1>2 DEF State, Link
<1>4. Tail(oc[i].chain) \in Seq(Link)
  BY <1>3, ChainLinks DEF Link
<1> HIDE DEF oc
<1>e. oc[i] \in State
  BY <1>2
<1>5. q \in State /\ q.job = Idle /\ q.chain = Tail(oc[i].chain)
      /\ q.buffer = oc[i].buffer /\ q.fwd = oc[i].fwd /\ q.done = oc[i].done
      /\ q.delivered = oc[i].delivered /\ q.term = oc[i].term /\ q.known = oc[i].known
      /\ q.debounce = oc[i].debounce /\ q.loose = oc[i].loose /\ q.dead = oc[i].dead
      /\ q.cleanup = oc[i].cleanup
  BY <1>e, <1>4, IdleIsJob DEF State, Link
<1> HIDE DEF q
<1>6. ot \in [Object -> State] /\ \A j \in Object : ot[j] = IF j = i THEN q ELSE oc[j]
  BY <1>2, <1>5
<1> HIDE DEF ot
<1>7. \A j \in Object : j # i => ot[j].job = os[j].job /\ ot[j].chain = os[j].chain
  BY <1>1, <1>2, <1>6
<1>8. \A j \in Object :
          /\ ot[j].buffer = os[j].buffer /\ ot[j].fwd = os[j].fwd /\ ot[j].done = os[j].done
          /\ ot[j].delivered = os[j].delivered /\ ot[j].term = os[j].term /\ ot[j].known = os[j].known
          /\ ot[j].debounce = os[j].debounce /\ ot[j].loose = os[j].loose /\ ot[j].dead = os[j].dead
  BY <1>1, <1>2, <1>5, <1>6
<1>9. \A j \in Object : ot[j].cleanup = IF j = c THEN os[c].cleanup \/ ended ELSE os[j].cleanup
  BY <1>1, <1>2, <1>5, <1>6
<1>10. ot = Finished(os, i, c)
  BY DEF Finished, ot, q, oc, p
<1>11. \A j \in Object : j # i /\ j # c => ot[j] = os[j]
  BY <1>2, <1>6
<1> QED
  BY <1>11, <1>3, <1>5, <1>6, <1>7, <1>8, <1>9, <1>10 DEF Flushed

LEMMA TerminalFlushes ==
    ASSUME NEW os \in [Object -> State], NEW i \in Object, NEW c \in Object, NEW todo \in SUBSET Delta,
           os[i].chain # <<>>
    PROVE  Flushed(os, Terminal(os, i, c), i, c, todo)
<1> DEFINE o == os[c]
           due == o.done /\ o.term.seq > o.termFwd /\ o.term.seq > o.rec /\ o.term.words # 0
           job == [kind |-> "terminal", on |-> c, todo |-> {}, text |-> o.term]
           p == [o EXCEPT !.termFwd = IF due THEN o.term.seq ELSE @]
           oc == [os EXCEPT ![c] = p]
<1>1. CASE due /\ Pending(o, o.term.words)
  <2>1. job \in Job /\ job.on = c /\ job.kind = "terminal" /\ job.kind \in Calls
    BY DEF Job, State, Text, Calls
  <2>2. Terminal(os, i, c) = [os EXCEPT ![i].job = job]
    BY <1>1 DEF Terminal
  <2> HIDE DEF job
  <2>3. Flushed(os, [os EXCEPT ![i].job = job], i, c, todo)
    BY <1>1, <2>1, CallFlushes
  <2> QED
    BY <2>2, <2>3
<1>2. CASE ~(due /\ Pending(o, o.term.words))
  <2>1. Terminal(os, i, c) = Finished(oc, i, c)
    BY <1>2 DEF Terminal
  <2>2. p \in State
        /\ p.buffer = o.buffer /\ p.fwd = o.fwd /\ p.done = o.done
        /\ p.delivered = o.delivered /\ p.term = o.term /\ p.known = o.known
        /\ p.debounce = o.debounce /\ p.loose = o.loose /\ p.dead = o.dead
        /\ p.chain = o.chain /\ p.job = o.job /\ p.cleanup = o.cleanup
    BY DEF State, Text
  <2> HIDE DEF p
  <2>3. oc \in [Object -> State] /\ \A j \in Object : oc[j] = IF j = c THEN p ELSE os[j]
    BY <2>2
  <2> HIDE DEF oc
  <2>4. Flushed(oc, Finished(oc, i, c), i, c, todo)
    BY <2>2, <2>3, FinishedFlushes
  <2> HIDE DEF due
  <2> QED
    BY <2>1, <2>2, <2>3, <2>4 DEF Flushed
<1> QED
  BY <1>1, <1>2

LEMMA FlushingFlushes ==
    ASSUME NEW os \in [Object -> State], NEW i \in Object, NEW c \in Object, NEW todo \in SUBSET Delta,
           NEW text \in Text, os[i].chain # <<>>
    PROVE  Flushed(os, Flushing(os, i, c, todo, text), i, c, todo)
<1>1. CASE todo # {}
  <2> DEFINE job == [kind |-> "signal", on |-> c, todo |-> todo, text |-> text]
  <2>1. job \in Job /\ job.on = c /\ job.kind = "signal" /\ job.todo = todo /\ job.kind \in Calls
    BY DEF Job, Calls
  <2>2. Flushing(os, i, c, todo, text) = [os EXCEPT ![i].job = job]
    BY <1>1 DEF Flushing
  <2> HIDE DEF job
  <2>3. Flushed(os, [os EXCEPT ![i].job = job], i, c, todo)
    BY <1>1, <2>1, CallFlushes
  <2> QED
    BY <2>2, <2>3
<1>2. CASE todo = {}
  <2> DEFINE job == [kind |-> "recover", on |-> c, todo |-> {}, text |-> text]
             due == os[c].done /\ Pending(os[c], text.words) /\ text.seq > os[c].rec
  <2>1. CASE due
    <3>1. job \in Job /\ job.on = c /\ job.kind = "recover" /\ job.kind \in Calls
      BY DEF Job, Calls
    <3>2. Flushing(os, i, c, todo, text) = [os EXCEPT ![i].job = job]
      BY <1>2, <2>1 DEF Flushing, Recovery
    <3> HIDE DEF job
    <3>3. Flushed(os, [os EXCEPT ![i].job = job], i, c, todo)
      BY <2>1, <3>1, CallFlushes
    <3> QED
      BY <3>2, <3>3
  <2>2. CASE ~due
    <3>1. Flushing(os, i, c, todo, text) = Terminal(os, i, c)
      BY <1>2, <2>2 DEF Flushing, Recovery
    <3> QED
      BY <3>1, TerminalFlushes
  <2> QED
    BY <2>1, <2>2
<1> QED
  BY <1>1, <1>2

-----------------------------------------------------------------------------
(* The inductive invariant.                                                 *)

(* Only the newest object is in the map; one that has not been made is as   *)
(* it will be made; a chain with a call under way is not empty, its call is *)
(* for its own object while that is in the map, and for a correlated one.   *)
MapInv ==
    /\ cur \in {0, made}
    /\ \A i \in Object :
          /\ i > made => objs[i] = New
          /\ objs[i].job.kind # "idle" => objs[i].chain # <<>>
          /\ objs[i].job.kind \in Calls /\ cur = i => objs[i].job.on = i
          /\ objs[i].job.kind \in Calls => objs[objs[i].job.on].known

(* NothingDropped is not inductive: a deletion takes the buffer with it, so *)
(* what is buffered must have been accounted for before anything - a timer, *)
(* a letter, the chain of an object deleted earlier - can delete the run.   *)
Told == reported \cup excused
BufferTold(o) == \A t \in o.buffer : t.seq \in Told
Doomed ==
    \/ objs[cur].debounce = "off" \/ Leaving(objs[cur])
    \/ \E j \in Object \ {cur} : Haunting(objs[j])
BufferInv == cur # 0 /\ Doomed => BufferTold(objs[cur])

(* Nothing is recovered before the reply.                                   *)
Recovers(o) == o.done \/ o.delivered # 0 \/ o.job.kind \in {"recover", "terminal"}
ReplyInv == \A i \in Object : Recovers(objs[i]) => replied

IInv == TypeOK /\ MapInv /\ BufferInv /\ NothingDropped /\ ReplyInv /\ BeliefIsTrue

-----------------------------------------------------------------------------
(* Timers: object i rings, and with it perhaps a flush is queued.           *)
LEMMA StateOf ==
    ASSUME TypeOK
    PROVE  /\ \A i \in Object : objs[i] \in State
           /\ cur # 0 <=> cur \in Object
  BY ForwarderAssumption DEF TypeOK, Object

(* The changes of a timer or of an event to the rest of the invariant.      *)
LEMMA AlikeKeeps ==
    ASSUME TypeOK, MapInv, ReplyInv, UNCHANGED <<cur, made, replied>>,
           objs' \in [Object -> State],
           \A j \in Object : /\ Alike(objs[j], objs'[j])
                             /\ objs[j].job.kind # "idle" /\ objs[j].chain # <<>> => objs'[j].chain # <<>>
                             /\ j > made => objs'[j] = objs[j]
    PROVE  MapInv' /\ ReplyInv'
<1>1. ReplyInv'
  BY DEF ReplyInv, Recovers, Alike
<1>2. \A j \in Object : objs[j].job.on \in Object
  BY StateOf DEF State, Job
<1>3. \A j \in Object : objs'[j].job.on \in Object /\ (objs[objs[j].job.on].known => objs'[objs'[j].job.on].known)
  BY <1>2 DEF Alike
<1>4. \A j \in Object : objs'[j].job.kind # "idle" => objs'[j].chain # <<>>
  BY DEF MapInv, Alike
<1>5. MapInv'
  BY <1>3, <1>4 DEF MapInv, Alike
<1> QED
  BY <1>1, <1>5

LEMMA BeliefKept ==
    ASSUME TypeOK, BeliefIsTrue, UNCHANGED <<cur, last, blurred>>,
           \A j \in Object : objs'[j].delivered = objs[j].delivered
    PROVE  BeliefIsTrue'
  BY StateOf DEF BeliefIsTrue

LEMMA NothingKept ==
    ASSUME TypeOK, NothingDropped, UNCHANGED <<cur, received>>, Told \subseteq Told',
           cur # 0 => \/ objs'[cur].buffer = objs[cur].buffer
                      \/ \A t \in objs[cur].buffer : t.seq \in Told'
    PROVE  NothingDropped'
  BY DEF NothingDropped, Told

LEMMA QueueFlushAppends ==
    ASSUME TypeOK, NEW os \in [Object -> State]
    PROVE  /\ QueueFlush(os) \in [Object -> State]
           /\ \A j \in Object : j # cur => QueueFlush(os)[j] = os[j]
           /\ cur # 0 => LET o == os[cur]
                             p == QueueFlush(os)[cur]
                         IN /\ Alike(o, p) /\ p.buffer = o.buffer /\ p.cleanup = o.cleanup
                            /\ p.debounce = o.debounce /\ p.chain = Append(o.chain, "flush")
<1>1. CASE cur = 0
  BY <1>1 DEF QueueFlush, Object
<1>2. CASE cur # 0
  <2> DEFINE o == os[cur]
             p == [o EXCEPT !.chain = Append(@, "flush")]
  <2>1. cur \in Object /\ o \in State
    BY <1>2, StateOf
  <2>2. Append(o.chain, "flush") \in Seq(Link)
    BY <2>1, ChainLinks DEF State, Link
  <2>3. /\ Alike(o, p) /\ p.buffer = o.buffer /\ p.cleanup = o.cleanup
        /\ p.debounce = o.debounce /\ p.chain = Append(o.chain, "flush")
    BY <2>1, <2>2 DEF Alike, State, Link
  <2>4. QueueFlush(os) = [os EXCEPT ![cur] = p]
    BY <1>2 DEF QueueFlush
  <2> HIDE DEF p
  <2>5. QueueFlush(os) \in [Object -> State] /\ QueueFlush(os)[cur] = p
        /\ \A j \in Object : j # cur => QueueFlush(os)[j] = os[j]
    BY <2>1, <2>3, <2>4 DEF Alike
  <2> QED
    BY <2>3, <2>5
<1> QED
  BY <1>1, <1>2

(* Who may ring: the object in the map, or one that still haunts it.        *)
Rung(i) == objs[i] # New /\ (i # cur => Haunting(objs[i]))

LEMMA RungOnes ==
    ASSUME TypeOK, MapInv, BufferInv, NEW i \in Object, Rung(i)
    PROVE  i <= made /\ (cur # 0 /\ i # cur => BufferTold(objs[cur]))
<1>1. i <= made
  BY DEF MapInv, Rung, TypeOK, Object
<1>2. cur # 0 /\ i # cur => Doomed
  BY DEF Rung, Doomed
<1> QED
  BY <1>1, <1>2 DEF BufferInv

(* Most steps signal nothing.                                               *)
Silent == \A j \in Object : objs'[j].job = objs[j].job \/ objs'[j].job.kind # "signal"

(* A timer that queues a flush.                                             *)
LEMMA RingsFlush ==
    ASSUME IInv, NEW i \in Object, Rung(i), NEW p,
           Alike(objs[i], p), p.buffer = objs[i].buffer, p.chain = objs[i].chain, p.cleanup = objs[i].cleanup,
           p.debounce = "off" => objs[i].debounce = "off",
           objs' = QueueFlush([objs EXCEPT ![i] = p]),
           UNCHANGED <<cur, made, reported, outside>>
    PROVE  IInv' /\ Silent
<1>t. TypeOK /\ MapInv /\ BufferInv /\ NothingDropped /\ ReplyInv /\ BeliefIsTrue
  BY DEF IInv
<1>u. UNCHANGED <<cur, made, reported, trace, replied, last, received, repeats, excused, blurred, late>>
  BY DEF outside
<1> DEFINE os == [objs EXCEPT ![i] = p]
<1>1. os \in [Object -> State] /\ \A j \in Object : os[j] = IF j = i THEN p ELSE objs[j]
  BY <1>t DEF TypeOK, Alike
<1>2. objs' = QueueFlush(os)
  OBVIOUS
<1> HIDE DEF os
<1>3. /\ objs' \in [Object -> State]
      /\ \A j \in Object : j # cur => objs'[j] = os[j]
      /\ cur # 0 => /\ Alike(os[cur], objs'[cur]) /\ objs'[cur].buffer = os[cur].buffer
                    /\ objs'[cur].cleanup = os[cur].cleanup /\ objs'[cur].debounce = os[cur].debounce
                    /\ objs'[cur].chain = Append(os[cur].chain, "flush")
  BY <1>t, <1>1, <1>2, QueueFlushAppends
<1>r. i <= made /\ (cur # 0 /\ i # cur => BufferTold(objs[cur]))
  BY <1>t, RungOnes
<1>s. (\A j \in Object : objs[j] \in State) /\ (cur # 0 <=> cur \in Object)
  BY <1>t, StateOf
<1>4. \A j \in Object : Alike(objs[j], objs'[j])
  <2> TAKE j \in Object
  <2>1. Alike(os[j], objs'[j])
    <3>1. CASE j = cur
      BY <1>3, <1>s, <3>1
    <3>2. CASE j # cur
      <4>1. objs'[j] = os[j] /\ os[j] \in State
        BY <1>1, <1>3, <3>2
      <4> QED
        BY <4>1, AlikeIsTransitive
    <3> QED
      BY <3>1, <3>2
  <2>2. Alike(objs[j], os[j])
    <3>1. CASE j = i
      BY <1>1, <3>1
    <3>2. CASE j # i
      <4>1. os[j] = objs[j] /\ objs[j] \in State
        BY <1>1, <1>s, <3>2
      <4> QED
        BY <4>1, AlikeIsTransitive
    <3> QED
      BY <3>1, <3>2
  <2> QED
    BY <2>1, <2>2, AlikeIsTransitive
<1>5. cur # 0 => /\ cur \in Object /\ os[cur].chain = objs[cur].chain /\ os[cur].chain \in Seq(Link)
                 /\ objs'[cur].chain # <<>>
                 /\ Range(objs'[cur].chain) = Range(objs[cur].chain) \cup {"flush"}
  <2> SUFFICES ASSUME cur # 0
               PROVE  /\ cur \in Object /\ os[cur].chain = objs[cur].chain /\ os[cur].chain \in Seq(Link)
                      /\ objs'[cur].chain # <<>>
                      /\ Range(objs'[cur].chain) = Range(objs[cur].chain) \cup {"flush"}
    OBVIOUS
  <2>1. cur \in Object /\ os[cur] \in State /\ os[cur].chain = objs[cur].chain
    BY <1>1, <1>s
  <2>2. os[cur].chain \in Seq(Link) /\ "flush" \in Link
    BY <2>1 DEF State, Link
  <2> DEFINE ch == os[cur].chain
             ap == Append(ch, "flush")
  <2>3. ap # <<>> /\ Range(ap) = Range(ch) \cup {"flush"}
    BY <2>2, ChainLinks
  <2> HIDE DEF ap
  <2>4. objs'[cur].chain = ap
    BY <1>3 DEF ap
  <2> QED
    BY <2>1, <2>2, <2>3, <2>4
<1>6. MapInv' /\ ReplyInv'
  <2>1. \A j \in Object : objs[j].chain # <<>> => objs'[j].chain # <<>>
    BY <1>1, <1>3, <1>5, <1>s
  <2>2. \A j \in Object : j > made => objs'[j] = objs[j]
    <3>1. cur <= made /\ made \in Nat /\ cur \in Nat /\ Object \subseteq Nat
      BY <1>t, ForwarderAssumption DEF TypeOK, Object
    <3> SUFFICES ASSUME NEW j \in Object, j > made PROVE objs'[j] = objs[j]
      OBVIOUS
    <3>2. j # cur /\ j # i
      BY <3>1, <1>r
    <3> QED
      BY <3>2, <1>1, <1>3
  <2> QED
    BY <1>t, <1>u, <1>3, <1>4, <2>1, <2>2, AlikeKeeps
<1>7. BeliefIsTrue'
  BY <1>t, <1>u, <1>4, BeliefKept DEF Alike
<1>8. \A j \in Object : objs'[j].buffer = objs[j].buffer
  BY <1>1, <1>3, <1>s
<1>9. NothingDropped'
  BY <1>t, <1>u, <1>5, <1>8, NothingKept DEF Told
<1>10. BufferInv'
  <2> SUFFICES ASSUME cur # 0, Doomed' PROVE BufferTold(objs[cur])
    BY <1>u, <1>5, <1>8 DEF BufferInv, BufferTold, Told
  <2>1. CASE i # cur
    BY <1>r, <2>1
  <2>2. CASE i = cur
    <3>1. \A j \in Object \ {cur} : objs'[j] = objs[j]
      BY <1>1, <1>3, <2>2
    <3>2. objs'[cur].debounce = "off" => objs[cur].debounce = "off"
      BY <1>1, <1>3, <2>2
    <3>3. Leaving(objs'[cur]) => Leaving(objs[cur])
      <4>1. objs'[cur].job = objs[cur].job
        BY <1>4, <1>s DEF Alike
      <4>2. objs'[cur].cleanup = objs[cur].cleanup
        BY <1>1, <1>3, <1>s, <2>2
      <4>3. "dead" \in Range(objs'[cur].chain) => "dead" \in Range(objs[cur].chain)
        BY <1>5
      <4> QED
        BY <4>1, <4>2, <4>3 DEF Leaving
    <3>4. Doomed
      BY <1>u, <3>1, <3>2, <3>3 DEF Doomed
    <3> QED
      BY <1>t, <3>4 DEF BufferInv
  <2> QED
    BY <2>1, <2>2
<1>11. TypeOK'
  BY <1>t, <1>u, <1>3 DEF TypeOK
<1>12. Silent
  BY <1>4 DEF Silent, Alike
<1> QED
  BY <1>6, <1>7, <1>9, <1>10, <1>11, <1>12 DEF IInv

(* A timer of an object that is not correlated: it retries, or reports all  *)
(* it has in a letter.                                                      *)
LEMMA RingsLetter ==
    ASSUME IInv, NEW i \in Object, Rung(i), NEW p, NEW letter \in SUBSET Seqs,
           Kept(objs[i], p, letter),
           objs' = [objs EXCEPT ![i] = p], reported' = reported \cup letter,
           UNCHANGED <<cur, made, outside>>
    PROVE  IInv' /\ Silent
<1>t. TypeOK /\ MapInv /\ BufferInv /\ NothingDropped /\ ReplyInv /\ BeliefIsTrue
  BY DEF IInv
<1>u. UNCHANGED <<cur, made, trace, replied, last, received, repeats, excused, blurred, late>>
  BY DEF outside
<1>s. (\A j \in Object : objs[j] \in State) /\ (cur # 0 <=> cur \in Object)
  BY <1>t, StateOf
<1>r. i <= made /\ (cur # 0 /\ i # cur => BufferTold(objs[cur]))
  BY <1>t, RungOnes
<1>k. /\ Alike(objs[i], p) /\ p.buffer = objs[i].buffer /\ p.cleanup = objs[i].cleanup /\ p.job = objs[i].job
      /\ \/ p.chain = Append(objs[i].chain, "dead") /\ {t.seq : t \in objs[i].buffer} \subseteq letter
         \/ p.chain = objs[i].chain /\ p.debounce \in {"flush", "retry"} /\ letter = {}
  BY DEF Kept, Alike
<1>1. objs' \in [Object -> State] /\ \A j \in Object : objs'[j] = IF j = i THEN p ELSE objs[j]
  BY <1>t, <1>k DEF TypeOK, Alike
<1>2. \A j \in Object : Alike(objs[j], objs'[j])
  <2> TAKE j \in Object
  <2>1. CASE j = i
    BY <1>1, <1>k, <2>1
  <2>2. CASE j # i
    <3>1. objs'[j] = objs[j] /\ objs[j] \in State
      BY <1>1, <1>s, <2>2
    <3> QED
      BY <3>1, AlikeIsTransitive
  <2> QED
    BY <2>1, <2>2
<1>3. objs[i].chain # <<>> => p.chain # <<>>
  <2>1. objs[i].chain \in Seq(Link) /\ "dead" \in Link
    BY <1>s DEF State, Link
  <2>2. Append(objs[i].chain, "dead") # <<>>
    BY <2>1, ChainLinks
  <2> QED
    BY <2>2, <1>k
<1>4. MapInv' /\ ReplyInv'
  <2>1. \A j \in Object : objs[j].chain # <<>> => objs'[j].chain # <<>>
    BY <1>1, <1>3
  <2>2. \A j \in Object : j > made => objs'[j] = objs[j]
    BY <1>1, <1>r, ForwarderAssumption, <1>t DEF TypeOK, Object
  <2> QED
    BY <1>t, <1>u, <1>1, <1>2, <2>1, <2>2, AlikeKeeps
<1>5. BeliefIsTrue'
  BY <1>t, <1>u, <1>2, BeliefKept DEF Alike
<1>6. \A j \in Object : objs'[j].buffer = objs[j].buffer
  BY <1>1, <1>k
<1>7. NothingDropped'
  BY <1>t, <1>u, <1>6, <1>s, NothingKept DEF Told
<1>8. BufferInv'
  <2> SUFFICES ASSUME cur # 0, Doomed' PROVE \A t \in objs[cur].buffer : t.seq \in reported \cup letter \cup excused
    BY <1>u, <1>s, <1>6 DEF BufferInv, BufferTold, Told
  <2>1. CASE i # cur
    BY <1>r, <2>1 DEF BufferTold, Told
  <2>2. CASE i = cur
    <3>1. CASE {t.seq : t \in objs[i].buffer} \subseteq letter
      BY <2>2, <3>1
    <3>2. CASE p.chain = objs[i].chain /\ p.debounce \in {"flush", "retry"}
      <4>1. \A j \in Object \ {cur} : objs'[j] = objs[j]
        BY <1>1, <2>2
      <4>2. objs'[cur] = p
        BY <1>1, <2>2
      <4>3. Leaving(objs'[cur]) => Leaving(objs[cur])
        BY <4>2, <1>k, <2>2, <3>2 DEF Leaving
      <4>4. objs'[cur].debounce # "off"
        BY <4>2, <3>2
      <4>5. Doomed
        BY <1>u, <4>1, <4>3, <4>4 DEF Doomed
      <4> QED
        BY <1>t, <4>5 DEF BufferInv, BufferTold, Told
    <3> QED
      BY <3>1, <3>2, <1>k
  <2> QED
    BY <2>1, <2>2
<1>9. TypeOK'
  BY <1>t, <1>u, <1>1 DEF TypeOK
<1>10. Silent
  BY <1>2 DEF Silent, Alike
<1> QED
  BY <1>4, <1>5, <1>7, <1>8, <1>9, <1>10 DEF IInv

(* A letter reports numbers of events.                                      *)
LEMMA ContentIsSeqs ==
    ASSUME NEW o \in State, NEW p
    PROVE  Content(o) \subseteq Seqs /\ (Alike(o, p) /\ p.buffer = o.buffer /\ p.term = o.term => Letter(o, p) \subseteq Seqs)
<1>1. Content(o) \subseteq Seqs
  BY DEF Content, State, Delta, Text
<1>2. ASSUME Alike(o, p), p.buffer = o.buffer, p.term = o.term
      PROVE  Letter(o, p) \subseteq Seqs
  <2>1. Content(p) = Content(o)
    BY <1>2 DEF Content
  <2> QED
    BY <1>1, <2>1 DEF Letter
<1> QED
  BY <1>1, <1>2

LEMMA RingsKeeps ==
    ASSUME IInv, NEW i \in Object, Rung(i), NEW kind, NEW spent,
           Alike(objs[i], spent), spent.buffer = objs[i].buffer, spent.chain = objs[i].chain,
           spent.cleanup = objs[i].cleanup, spent.term = objs[i].term,
           spent.debounce = "off" => objs[i].debounce = "off",
           Rings(i, kind, spent), UNCHANGED <<cur, made, outside>>
    PROVE  IInv' /\ Silent
<1> DEFINE o == Attached(spent)
           p == Retried(o)
           letter == Letter(o, p)
<1>s. spent \in State
  BY DEF Alike
<1>1. /\ Alike(spent, o) /\ o.buffer = spent.buffer /\ o.term = spent.term
      /\ o.chain = spent.chain /\ o.cleanup = spent.cleanup /\ o.debounce = spent.debounce
  BY <1>s, AttachedIsAlike
<1>2. \/ objs' = QueueFlush([objs EXCEPT ![i] = spent]) /\ UNCHANGED reported
      \/ objs' = QueueFlush([objs EXCEPT ![i] = o]) /\ UNCHANGED reported
      \/ objs' = [objs EXCEPT ![i] = p] /\ reported' = reported \cup letter
  BY DEF Rings
<1>3. o \in State /\ Alike(objs[i], o)
  BY <1>1, AlikeIsTransitive DEF Alike
<1> HIDE DEF o
<1>4. Kept(o, p, letter)
  BY <1>3, RetriedKeeps
<1> HIDE DEF p
<1>5. letter \in SUBSET Seqs
  BY <1>3, <1>4, ContentIsSeqs DEF Kept
<1> HIDE DEF letter
<1>6. Alike(objs[i], p)
  BY <1>3, <1>4, AlikeIsTransitive DEF Kept
<1>7. Kept(objs[i], p, letter)
  BY <1>1, <1>4, <1>6 DEF Kept
<1>8. CASE objs' = QueueFlush([objs EXCEPT ![i] = spent]) /\ UNCHANGED reported
  BY <1>8, RingsFlush
<1>9. CASE objs' = QueueFlush([objs EXCEPT ![i] = o]) /\ UNCHANGED reported
  BY <1>1, <1>3, <1>9, RingsFlush
<1>10. CASE objs' = [objs EXCEPT ![i] = p] /\ reported' = reported \cup letter
  BY <1>5, <1>7, <1>10, RingsLetter
<1> QED
  BY <1>2, <1>8, <1>9, <1>10

(* The timers of one object, but for its clean-up.                          *)
LEMMA TimersKeep ==
    ASSUME IInv, NEW i \in Object,
           DebounceFires(i) \/ LooseFires(i) \/ DeadLetterFires(i) \/ GrowsOld(i)
    PROVE  IInv' /\ Silent
<1>s. objs[i] \in State
  BY StateOf DEF IInv
<1>n. New.debounce = "off" /\ New.loose = "off" /\ New.dead = FALSE
  BY DEF New
<1>1. CASE DebounceFires(i)
  <2> DEFINE spent == [objs[i] EXCEPT !.debounce = "fired"]
  <2>1. objs[i].debounce \in {"flush", "retry"} /\ Rings(i, objs[i].debounce, spent) /\ UNCHANGED <<cur, made, outside>>
    BY <1>1 DEF DebounceFires
  <2>2. /\ Alike(objs[i], spent) /\ spent.buffer = objs[i].buffer /\ spent.chain = objs[i].chain
        /\ spent.cleanup = objs[i].cleanup /\ spent.term = objs[i].term /\ spent.debounce = "fired"
    BY <1>s DEF State, Alike
  <2>3. Rung(i)
    BY <2>1, <1>n DEF Rung, Haunting
  <2> HIDE DEF spent
  <2> QED
    BY <2>1, <2>2, <2>3, RingsKeeps
<1>2. CASE LooseFires(i)
  <2> DEFINE spent == [objs[i] EXCEPT !.loose = "off"]
  <2>1. objs[i].loose # "off" /\ Rings(i, objs[i].loose, spent) /\ UNCHANGED <<cur, made, outside>>
    BY <1>2 DEF LooseFires
  <2>2. /\ Alike(objs[i], spent) /\ spent.buffer = objs[i].buffer /\ spent.chain = objs[i].chain
        /\ spent.cleanup = objs[i].cleanup /\ spent.term = objs[i].term /\ spent.debounce = objs[i].debounce
    BY <1>s DEF State, Alike
  <2>3. Rung(i)
    BY <2>1, <1>n DEF Rung, Haunting
  <2> HIDE DEF spent
  <2> QED
    BY <2>1, <2>2, <2>3, RingsKeeps
<1>3. CASE DeadLetterFires(i)
  <2> DEFINE spent == [objs[i] EXCEPT !.old = TRUE, !.dead = FALSE]
             o == Attached(spent)
             p == DeadLettered(o)
  <2>1. /\ objs[i].dead /\ UNCHANGED <<cur, made, outside>>
        /\ \/ objs' = QueueFlush([objs EXCEPT ![i] = o]) /\ UNCHANGED reported
           \/ objs' = [objs EXCEPT ![i] = p] /\ reported' = reported \cup Content(o)
    BY <1>3 DEF DeadLetterFires
  <2>2. /\ Alike(objs[i], spent) /\ spent.buffer = objs[i].buffer /\ spent.chain = objs[i].chain
        /\ spent.cleanup = objs[i].cleanup /\ spent.term = objs[i].term /\ spent.debounce = objs[i].debounce
    BY <1>s DEF State, Alike
  <2> HIDE DEF spent
  <2>3. spent \in State
    BY <2>2 DEF Alike
  <2>4. /\ Alike(spent, o) /\ o.buffer = spent.buffer /\ o.term = spent.term
        /\ o.chain = spent.chain /\ o.cleanup = spent.cleanup /\ o.debounce = spent.debounce
    BY <2>3, AttachedIsAlike
  <2>5. o \in State /\ Alike(objs[i], o)
    BY <2>2, <2>4, AlikeIsTransitive DEF Alike
  <2> HIDE DEF o
  <2>6. /\ Alike(o, p) /\ p.buffer = o.buffer /\ p.term = o.term /\ p.cleanup = o.cleanup
        /\ p.chain = Append(o.chain, "dead")
    BY <2>5, LetteredReports
  <2> HIDE DEF p
  <2>7. Alike(objs[i], p)
    BY <2>5, <2>6, AlikeIsTransitive
  <2>8. Kept(objs[i], p, Content(o)) /\ Content(o) \in SUBSET Seqs
    BY <2>2, <2>4, <2>5, <2>6, <2>7, ContentIsSeqs DEF Kept, Content
  <2>9. Rung(i)
    BY <2>1, <1>n DEF Rung, Haunting
  <2>10. CASE objs' = QueueFlush([objs EXCEPT ![i] = o]) /\ UNCHANGED reported
    BY <2>1, <2>2, <2>4, <2>5, <2>9, <2>10, RingsFlush
  <2>11. CASE objs' = [objs EXCEPT ![i] = p] /\ reported' = reported \cup Content(o)
    BY <2>1, <2>8, <2>9, <2>11, RingsLetter
  <2> QED
    BY <2>1, <2>10, <2>11
<1>4. CASE GrowsOld(i)
  <2> DEFINE p == [objs[i] EXCEPT !.old = TRUE]
  <2>1. objs[i].debounce = "retry" /\ objs' = [objs EXCEPT ![i] = p] /\ UNCHANGED <<cur, made, reported, outside>>
    BY <1>4 DEF GrowsOld
  <2>2. /\ Alike(objs[i], p) /\ p.buffer = objs[i].buffer /\ p.chain = objs[i].chain
        /\ p.cleanup = objs[i].cleanup /\ p.term = objs[i].term /\ p.debounce = objs[i].debounce
    BY <1>s DEF State, Alike
  <2> HIDE DEF p
  <2>3. Rung(i)
    BY <2>1, <1>n DEF Rung, Haunting
  <2>4. Kept(objs[i], p, {}) /\ reported' = reported \cup {} /\ {} \in SUBSET Seqs
    BY <2>1, <2>2 DEF Kept
  <2> QED
    BY <2>1, <2>3, <2>4, RingsLetter
<1> QED
  BY <1>1, <1>2, <1>3, <1>4

-----------------------------------------------------------------------------
(* Deletions: of a clean-up, and after a letter.                            *)
Bare(o, p) ==
    /\ p \in State /\ p.known = o.known /\ p.done = o.done /\ p.delivered = o.delivered
    /\ \/ p.job = o.job /\ p.chain = o.chain
       \/ p.job = Idle

LEMMA DeletionKeeps ==
    ASSUME IInv, cur # 0 => Doomed, cur' = 0, objs' \in [Object -> State],
           \A j \in Object : Bare(objs[j], objs'[j]) /\ (j > made => objs'[j] = objs[j]),
           UNCHANGED <<made, reported, outside>>
    PROVE  IInv' /\ Silent
<1>t. TypeOK /\ MapInv /\ BufferInv /\ NothingDropped /\ ReplyInv /\ BeliefIsTrue
  BY DEF IInv
<1>u. UNCHANGED <<made, reported, trace, replied, last, received, repeats, excused, blurred, late>>
  BY DEF outside
<1>1. TypeOK'
  BY <1>t, <1>u DEF TypeOK
<1>2. MapInv'
  <2>1. \A j \in Object : objs[j].job.on \in Object /\ Idle.kind = "idle" /\ j # 0
    BY <1>t, StateOf DEF State, Job, Idle, Object
  <2>2. cur' \in {0, made'} /\ made' = made
    BY <1>u
  <2>3. \A j \in Object : j > made' => objs'[j] = New
    BY <1>t, <2>2 DEF MapInv
  <2>4. \A j \in Object :
           /\ objs'[j].job.kind # "idle" => objs'[j].chain # <<>>
           /\ objs'[j].job.kind \in Calls /\ cur' = j => objs'[j].job.on = j
           /\ objs'[j].job.kind \in Calls => objs'[objs'[j].job.on].known
    <3> TAKE j \in Object
    <3>1. CASE objs'[j].job = objs[j].job /\ objs'[j].chain = objs[j].chain
      <4>1. objs'[objs[j].job.on].known = objs[objs[j].job.on].known
        BY <2>1 DEF Bare
      <4> QED
        BY <1>t, <2>1, <3>1, <4>1 DEF MapInv
    <3>2. CASE objs'[j].job = Idle
      BY <2>1, <3>2 DEF Calls
    <3> QED
      BY <3>1, <3>2 DEF Bare
  <2> QED
    BY <2>2, <2>3, <2>4 DEF MapInv
<1>3. BufferInv' /\ BeliefIsTrue'
  BY DEF BufferInv, BeliefIsTrue
<1>4. ReplyInv'
  BY <1>t, <1>u DEF ReplyInv, Recovers, Bare, Idle
<1>5. NothingDropped'
  BY <1>t, <1>u DEF NothingDropped, BufferInv, BufferTold, Told
<1>6. Silent
  BY DEF Silent, Bare, Idle
<1> QED
  BY <1>1, <1>2, <1>3, <1>4, <1>5, <1>6 DEF IInv

LEMMA DeletedIsBare ==
    ASSUME TypeOK, NEW os \in [Object -> State]
    PROVE  /\ Deleted(os, cur) \in [Object -> State]
           /\ \A j \in Object :
                 /\ j # cur => Deleted(os, cur)[j] = os[j]
                 /\ Bare(os[j], Deleted(os, cur)[j])
<1>b. \A j \in Object : Bare(os[j], os[j])
  BY DEF Bare
<1>1. CASE cur = 0
  BY <1>1, <1>b DEF Deleted
<1>2. CASE cur # 0
  <2> DEFINE o == os[cur]
             p == [o EXCEPT !.debounce = "off", !.cleanup = FALSE, !.dead = FALSE]
  <2>1. cur \in Object /\ o \in State
    BY <1>2, StateOf
  <2>2. Bare(o, p)
    BY <2>1 DEF Bare, State
  <2>3. Deleted(os, cur) = [os EXCEPT ![cur] = p]
    BY <1>2, <2>1 DEF Deleted
  <2>4. p \in State
    BY <2>2 DEF Bare
  <2> HIDE DEF p
  <2>5. Deleted(os, cur) \in [Object -> State]
        /\ \A j \in Object : Deleted(os, cur)[j] = IF j = cur THEN p ELSE os[j]
    BY <2>1, <2>3, <2>4
  <2> QED
    BY <1>b, <2>1, <2>2, <2>5
<1> QED
  BY <1>1, <1>2

LEMMA RestIsBare ==
    ASSUME TypeOK, NEW i \in Object, objs[i].chain # <<>>
    PROVE  /\ Rest(i) \in [Object -> State]
           /\ \A j \in Object : j # i => Rest(i)[j] = objs[j]
           /\ LET p == Rest(i)[i] IN
              /\ p.job = Idle /\ p.chain = Tail(objs[i].chain)
              /\ p.known = objs[i].known /\ p.done = objs[i].done /\ p.delivered = objs[i].delivered
              /\ p.buffer = objs[i].buffer /\ p.debounce = objs[i].debounce
              /\ p.cleanup = objs[i].cleanup /\ p.loose = objs[i].loose /\ p.dead = objs[i].dead
<1> DEFINE o == objs[i]
           p == [o EXCEPT !.chain = Tail(@), !.job = Idle]
<1>1. o \in State /\ o.chain \in Seq(Link)
  BY StateOf DEF State, Link
<1>2. Tail(o.chain) \in Seq(Link)
  BY <1>1, ChainLinks DEF Link
<1>3. /\ p \in State /\ p.job = Idle /\ p.chain = Tail(o.chain)
      /\ p.known = o.known /\ p.done = o.done /\ p.delivered = o.delivered
      /\ p.buffer = o.buffer /\ p.debounce = o.debounce
      /\ p.cleanup = o.cleanup /\ p.loose = o.loose /\ p.dead = o.dead
  BY <1>1, <1>2, IdleIsJob DEF State, Link
<1>4. Rest(i) = [objs EXCEPT ![i] = p]
  BY DEF Rest
<1> HIDE DEF p
<1>5. Rest(i) \in [Object -> State] /\ \A j \in Object : Rest(i)[j] = IF j = i THEN p ELSE objs[j]
  BY <1>3, <1>4 DEF TypeOK
<1> QED
  BY <1>3, <1>5

LEMMA BareIsTransitive == \A o, p, q : Bare(o, p) /\ Bare(p, q) => Bare(o, q)
  BY DEF Bare

(* An object about to delete the run dooms the object in the map.           *)
LEMMA LeaversDoom ==
    ASSUME TypeOK, MapInv, NEW i \in Object, Leaving(objs[i])
    PROVE  i <= made /\ (cur # 0 => Doomed)
<1>1. ~Leaving(New)
  BY DEF Leaving, New, Idle, Range
<1>2. i <= made
  BY <1>1 DEF MapInv, TypeOK, Object
<1>3. cur # 0 => Doomed
  BY DEF Doomed, Haunting
<1> QED
  BY <1>2, <1>3

LEMMA DeletesKeep ==
    ASSUME IInv, NEW i \in Object, CleanupFires(i) \/ LetterSent(i)
    PROVE  IInv' /\ Silent
<1>t. TypeOK /\ MapInv
  BY DEF IInv
<1>s. (\A j \in Object : objs[j] \in State) /\ objs \in [Object -> State]
  BY <1>t, StateOf DEF TypeOK
<1>n. \A j \in Object : j > made => j # cur
  BY <1>t DEF MapInv, TypeOK, Object
<1>1. CASE CleanupFires(i)
  <2> DEFINE os == Deleted(objs, cur)
             p == [os[i] EXCEPT !.cleanup = FALSE]
  <2>1. objs[i].cleanup /\ objs' = [os EXCEPT ![i] = p] /\ cur' = 0 /\ UNCHANGED <<made, reported, outside>>
    BY <1>1 DEF CleanupFires
  <2>2. /\ os \in [Object -> State]
        /\ \A j \in Object : /\ j # cur => os[j] = objs[j]
                             /\ Bare(objs[j], os[j])
    BY <1>t, <1>s, DeletedIsBare
  <2> HIDE DEF os
  <2>3. os[i] \in State
    BY <2>2
  <2>4. Bare(os[i], p)
    BY <2>3 DEF Bare, State
  <2> HIDE DEF p
  <2>5. objs' \in [Object -> State] /\ \A j \in Object : objs'[j] = IF j = i THEN p ELSE os[j]
    BY <2>1, <2>2, <2>4 DEF Bare
  <2>6. Leaving(objs[i])
    BY <2>1 DEF Leaving
  <2>7. i <= made /\ (cur # 0 => Doomed)
    BY <1>t, <2>6, LeaversDoom
  <2>8. \A j \in Object : Bare(objs[j], objs'[j])
    <3> TAKE j \in Object
    <3>1. Bare(objs[i], p)
      BY <2>2, <2>4, BareIsTransitive
    <3> QED
      BY <2>2, <2>5, <3>1
  <2>9. \A j \in Object : j > made => objs'[j] = objs[j]
    BY <1>n, <1>t, <2>2, <2>5, <2>7 DEF TypeOK, Object
  <2> QED
    BY <2>1, <2>5, <2>7, <2>8, <2>9, DeletionKeeps
<1>2. CASE LetterSent(i)
  <2> DEFINE rest == Rest(i)
  <2>1. objs[i].job.kind = "dead" /\ objs' = Deleted(rest, cur) /\ cur' = 0 /\ UNCHANGED <<made, reported, outside>>
    BY <1>2 DEF LetterSent
  <2>2. objs[i].chain # <<>>
    BY <1>t, <2>1 DEF MapInv
  <2>3. /\ rest \in [Object -> State]
        /\ \A j \in Object : j # i => rest[j] = objs[j]
        /\ rest[i].job = Idle
        /\ rest[i].known = objs[i].known /\ rest[i].done = objs[i].done /\ rest[i].delivered = objs[i].delivered
    BY <1>t, <2>2, RestIsBare
  <2> HIDE DEF rest
  <2>4. \A j \in Object : Bare(objs[j], rest[j])
    <3> TAKE j \in Object
    <3>1. rest[j] \in State
      BY <2>3
    <3> QED
      BY <1>s, <2>3, <3>1 DEF Bare
  <2>5. /\ objs' \in [Object -> State]
        /\ \A j \in Object : /\ j # cur => objs'[j] = rest[j]
                             /\ Bare(rest[j], objs'[j])
    BY <1>t, <2>1, <2>3, DeletedIsBare
  <2>6. Leaving(objs[i])
    BY <2>1 DEF Leaving
  <2>7. i <= made /\ (cur # 0 => Doomed)
    BY <1>t, <2>6, LeaversDoom
  <2>8. \A j \in Object : Bare(objs[j], objs'[j])
    BY <2>4, <2>5, BareIsTransitive
  <2>9. \A j \in Object : j > made => objs'[j] = objs[j]
    BY <1>n, <1>t, <2>3, <2>5, <2>7 DEF TypeOK, Object
  <2> QED
    BY <2>1, <2>5, <2>7, <2>8, <2>9, DeletionKeeps
<1> QED
  BY <1>1, <1>2

(* A letter is on its way: the object was about to delete the run already.  *)
LEMMA SendsLetterKeeps ==
    ASSUME IInv, NEW i \in Object, SendsLetter(i)
    PROVE  IInv' /\ Silent
<1>t. TypeOK /\ MapInv /\ BufferInv /\ NothingDropped /\ ReplyInv /\ BeliefIsTrue
  BY DEF IInv
<1>u. UNCHANGED <<cur, made, reported, trace, replied, last, received, repeats, excused, blurred, late>>
  BY DEF SendsLetter, outside
<1>s. (\A j \in Object : objs[j] \in State) /\ (cur # 0 <=> cur \in Object)
  BY <1>t, StateOf
<1> DEFINE o == objs[i]
           p == [o EXCEPT !.job.kind = "dead"]
<1>1. o.chain # <<>> /\ Head(o.chain) = "dead" /\ objs' = [objs EXCEPT ![i] = p]
  BY DEF SendsLetter, Startable
<1>2. /\ p \in State /\ p.job.kind = "dead" /\ p.chain = o.chain /\ p.buffer = o.buffer
      /\ p.known = o.known /\ p.done = o.done /\ p.delivered = o.delivered
  BY <1>s DEF State, Job
<1>3. Leaving(o)
  <2>1. o.chain \in Seq(Link)
    BY <1>s DEF State, Link
  <2>2. Head(o.chain) \in Range(o.chain)
    BY <1>1, <2>1, ChainLinks DEF Link
  <2> QED
    BY <1>1, <2>2 DEF Leaving
<1> HIDE DEF p
<1>4. objs' \in [Object -> State] /\ \A j \in Object : objs'[j] = IF j = i THEN p ELSE objs[j]
  BY <1>t, <1>1, <1>2 DEF TypeOK
<1>5. i <= made /\ (cur # 0 => Doomed)
  BY <1>t, <1>3, LeaversDoom
<1>6. \A j \in Object : /\ objs'[j].buffer = objs[j].buffer /\ objs'[j].known = objs[j].known
                        /\ objs'[j].done = objs[j].done /\ objs'[j].delivered = objs[j].delivered
                        /\ objs'[j].chain = objs[j].chain
  BY <1>2, <1>4
<1>7. MapInv'
  <2>1. \A j \in Object : j > made => objs'[j] = objs[j]
    BY <1>4, <1>5, <1>t DEF TypeOK, Object
  <2>2. \A j \in Object : objs'[j].job.kind \in Calls => objs'[j].job = objs[j].job
    BY <1>2, <1>4 DEF Calls
  <2>3. \A j \in Object : objs'[j].job.kind # "idle" => objs'[j].chain # <<>>
    BY <1>t, <1>1, <1>2, <1>4 DEF MapInv
  <2>4. \A j \in Object : objs[j].job.on \in Object
    BY <1>s DEF State, Job
  <2> QED
    BY <1>t, <1>u, <1>6, <2>1, <2>2, <2>3, <2>4 DEF MapInv
<1>8. ReplyInv'
  BY <1>t, <1>u, <1>2, <1>4 DEF ReplyInv, Recovers
<1>9. BeliefIsTrue'
  BY <1>t, <1>u, <1>6, BeliefKept
<1>10. NothingDropped' /\ BufferInv'
  BY <1>t, <1>u, <1>5, <1>6, <1>s DEF NothingDropped, BufferInv, BufferTold, Told
<1>11. TypeOK'
  BY <1>t, <1>u, <1>4 DEF TypeOK
<1>12. Silent
  BY <1>2, <1>4 DEF Silent
<1> QED
  BY <1>7, <1>8, <1>9, <1>10, <1>11, <1>12 DEF IInv

-----------------------------------------------------------------------------
(* Flushes.                                                                 *)

(* The state a flush works on: one in which the object it is for has been   *)
(* brought up to date.                                                      *)
Prepared(os, c) ==
    /\ os \in [Object -> State]
    /\ \A j \in Object : j # c => os[j] = objs[j]
    /\ os[c].job = objs[c].job /\ os[c].chain = objs[c].chain /\ os[c].done = objs[c].done
    /\ os[c].known

(* Whose flush it may be.                                                   *)
Flushes(i, c) ==
    /\ c \in Object /\ i <= made /\ c <= made
    /\ objs[i].chain # <<>> /\ (cur = i => c = i)

LEMMA FlushesKeepMap ==
    ASSUME TypeOK, MapInv, UNCHANGED <<cur, made>>,
           NEW i \in Object, NEW c, Flushes(i, c), NEW os, Prepared(os, c), NEW todo,
           Flushed(os, objs', i, c, todo)
    PROVE  MapInv'
<1>1. (\A j \in Object : objs[j].job.on \in Object) /\ Idle.kind = "idle"
  BY StateOf DEF State, Job, Idle
<1>n. made \in Nat /\ Object \subseteq Nat
  BY DEF TypeOK, Object
<1>2. \A j \in Object : j > made => objs'[j] = New
  BY <1>n DEF Flushed, Prepared, Flushes, MapInv
<1>3. \A j \in Object : (objs[j].known => objs'[j].known) /\ objs'[c].known
  BY DEF Flushed, Prepared, Flushes
<1>4. \A j \in Object : j # i => objs'[j].job = objs[j].job /\ objs'[j].chain = objs[j].chain
  BY DEF Flushed, Prepared
<1>5. \/ objs'[i].job = Idle
      \/ objs'[i].chain # <<>> /\ objs'[i].job.on = c
  BY DEF Flushed, Prepared, Flushes
<1>6. \A j \in Object :
         /\ objs'[j].job.kind # "idle" => objs'[j].chain # <<>>
         /\ objs'[j].job.kind \in Calls /\ cur' = j => objs'[j].job.on = j
         /\ objs'[j].job.kind \in Calls => objs'[objs'[j].job.on].known
  <2> TAKE j \in Object
  <2>1. CASE j = i
    BY <2>1, <1>1, <1>3, <1>5 DEF Flushes, Calls
  <2>2. CASE j # i
    BY <2>2, <1>1, <1>3, <1>4 DEF MapInv
  <2> QED
    BY <2>1, <2>2
<1> QED
  BY <1>2, <1>6 DEF MapInv

LEMMA FlushesKeepReply ==
    ASSUME TypeOK, ReplyInv, UNCHANGED replied,
           NEW i \in Object, NEW c \in Object, NEW os, Prepared(os, c), NEW todo,
           Flushed(os, objs', i, c, todo),
           os[c].delivered # objs[c].delivered => replied
    PROVE  ReplyInv'
<1> SUFFICES ASSUME NEW j \in Object, Recovers(objs'[j])
             PROVE  replied
  BY DEF ReplyInv
<1>1. CASE objs'[j].done
  BY <1>1 DEF Flushed, Prepared, ReplyInv, Recovers
<1>2. CASE objs'[j].delivered # 0
  BY <1>2 DEF Flushed, Prepared, ReplyInv, Recovers
<1>3. CASE objs'[j].job.kind \in {"recover", "terminal"}
  <2>1. CASE j = i
    BY <1>3, <2>1 DEF Flushed, Prepared, ReplyInv, Recovers, Idle
  <2>2. CASE j # i
    BY <1>3, <2>2 DEF Flushed, Prepared, ReplyInv, Recovers
  <2> QED
    BY <2>1, <2>2
<1> QED
  BY <1>1, <1>2, <1>3 DEF Recovers

(* The answer to a call: what was accounted for stays so, for a call is     *)
(* under way for the object in the map, or in one that haunts it.           *)
LEMMA AnswersKeepBuffer ==
    ASSUME TypeOK, MapInv, BufferInv, UNCHANGED <<cur, reported, excused>>,
           NEW i \in Object, objs[i].job.kind \in Calls,
           NEW c, c = objs[i].job.on, NEW os, Prepared(os, c), NEW todo,
           Flushed(os, objs', i, c, todo),
           os[c].buffer = objs[c].buffer, os[c].debounce = objs[c].debounce,
           os[c].cleanup = objs[c].cleanup
    PROVE  BufferInv' /\ \A j \in Object : objs'[j].buffer = objs[j].buffer
<1>s. (\A j \in Object : objs[j] \in State) /\ (cur # 0 <=> cur \in Object)
  BY StateOf
<1>1. \A j \in Object : objs'[j].buffer = objs[j].buffer
  BY DEF Flushed, Prepared
<1>2. ASSUME cur # 0, Doomed' PROVE BufferTold(objs[cur])
  <2>1. CASE i # cur
    <3>1. objs[i].job # Idle
      BY DEF Calls, Idle
    <3> QED
      BY <1>2, <2>1, <3>1 DEF BufferInv, Doomed, Haunting
  <2>2. CASE i = cur
    <3>1. c = cur
      BY <2>2 DEF MapInv
    <3>2. \A j \in Object \ {cur} : objs'[j] = objs[j]
      BY <2>2, <3>1 DEF Flushed, Prepared
    <3>3. objs'[cur].debounce = objs[cur].debounce
      BY <1>s, <1>2, <3>1 DEF Flushed, Prepared
    <3>4. objs'[cur].cleanup => objs[cur].cleanup \/ objs[cur].debounce = "off"
      BY <1>s, <1>2, <3>1 DEF Flushed, Prepared
    <3>5. objs'[cur].job.kind # "dead"
      BY <2>2 DEF Flushed, Idle, Calls
    <3>6. "dead" \in Range(objs'[cur].chain) => "dead" \in Range(objs[cur].chain)
      <4>1. objs[cur].chain \in Seq(Link) /\ objs[cur].chain # <<>> /\ "dead" \in Link
        BY <1>s, <1>2, <2>2 DEF State, Link, MapInv, Calls
      <4>2. Range(Tail(objs[cur].chain)) \subseteq Range(objs[cur].chain)
        BY <4>1, ChainLinks
      <4>3. objs'[cur].chain \in {objs[cur].chain, Tail(objs[cur].chain)}
        <5>1. os[i].chain = objs[i].chain
          BY <2>2, <3>1 DEF Prepared
        <5>2. objs'[i].chain \in {os[i].chain, Tail(os[i].chain)}
          BY DEF Flushed
        <5> QED
          BY <2>2, <5>1, <5>2
      <4> QED
        BY <4>2, <4>3
    <3>7. Doomed
      BY <1>2, <3>2, <3>3, <3>4, <3>5, <3>6 DEF Doomed, Leaving
    <3> QED
      BY <1>2, <3>7 DEF BufferInv
  <2> QED
    BY <2>1, <2>2
<1> QED
  BY <1>1, <1>2, <1>s DEF BufferInv, BufferTold, Told

(* A signal that is sent is newer than all that were answered.              *)
Up == \A i \in Object :
        LET job == objs'[i].job IN
        job.kind = "signal" /\ job # objs[i].job =>
            objs'[job.on].known /\ \A t \in Oldest(job.todo) : t.seq > objs'[job.on].fwd

LEMMA FlushesSignal ==
    ASSUME NEW i \in Object, NEW c \in Object, NEW os, Prepared(os, c), NEW todo,
           Flushed(os, objs', i, c, todo), \A t \in todo : t.seq > os[c].fwd
    PROVE  Up
<1> SUFFICES ASSUME NEW j \in Object, objs'[j].job.kind = "signal", objs'[j].job # objs[j].job
             PROVE  /\ objs'[objs'[j].job.on].known
                    /\ \A t \in Oldest(objs'[j].job.todo) : t.seq > objs'[objs'[j].job.on].fwd
  BY DEF Up
<1>1. j = i
  BY DEF Flushed, Prepared
<1>2. objs'[i].job.on = c /\ objs'[i].job.todo = todo
  BY <1>1 DEF Flushed, Idle
<1>3. objs'[c].known /\ objs'[c].fwd = os[c].fwd
  BY DEF Flushed, Prepared
<1>4. Oldest(todo) \subseteq todo
  BY DEF Oldest
<1> QED
  BY <1>1, <1>2, <1>3, <1>4

LEMMA NewerIsNewer ==
    ASSUME NEW todo \in SUBSET Delta, NEW fwd
    PROVE  Newer(todo, fwd) \in SUBSET Delta /\ \A t \in Newer(todo, fwd) : t.seq > fwd
  BY DEF Newer

(* Whose answer it is.                                                      *)
LEMMA AnswerFlushes ==
    ASSUME TypeOK, MapInv, NEW i \in Object, objs[i].job.kind \in Calls
    PROVE  Flushes(i, objs[i].job.on) /\ objs[objs[i].job.on].known
<1> DEFINE c == objs[i].job.on
<1>1. c \in Object /\ objs[c].known
  BY StateOf DEF State, Job, MapInv
<1>2. New.known = FALSE /\ New.job = Idle /\ Idle.kind \notin Calls
  BY DEF New, Idle, Calls
<1>3. objs[c] # New /\ objs[i] # New
  BY <1>1, <1>2
<1>4. objs[i].chain # <<>> /\ (cur = i => c = i)
  BY <1>2 DEF MapInv, Calls, Idle
<1>5. i <= made /\ c <= made
  BY <1>1, <1>3 DEF MapInv, TypeOK, Object
<1> QED
  BY <1>1, <1>4, <1>5 DEF Flushes

LEMMA SignalledKeeps ==
    ASSUME IInv, NEW i \in Object, Signalled(i)
    PROVE  IInv' /\ Up
<1>t. TypeOK /\ MapInv /\ BufferInv /\ NothingDropped /\ ReplyInv /\ BeliefIsTrue
  BY DEF IInv
<1>u. UNCHANGED <<cur, made, reported, trace, replied, last, received, repeats, excused, blurred, late>>
  BY DEF Signalled, outside
<1> DEFINE job == objs[i].job
           c == job.on
<1>0. job.kind = "signal" /\ job \in Job /\ c \in Object /\ objs[c] \in State
  BY <1>t, StateOf DEF Signalled, State, Job
<1>1. PICK t \in Oldest(job.todo) :
         LET fwd == Max({objs[c].fwd, t.seq}) IN
         objs' = Flushing([objs EXCEPT ![c].fwd = fwd], i, c, Newer(job.todo \ {t}, fwd),
                          IF t.words # 0 THEN t ELSE job.text)
  BY DEF Signalled
<1> DEFINE fwd == Max({objs[c].fwd, t.seq})
           p == [objs[c] EXCEPT !.fwd = fwd]
           os == [objs EXCEPT ![c] = p]
           todo == Newer(job.todo \ {t}, fwd)
           text == IF t.words # 0 THEN t ELSE job.text
<1>2. objs' = Flushing(os, i, c, todo, text)
  BY <1>1
<1>3. t \in Delta /\ t.seq \in Seqs /\ text \in Text
  BY <1>0 DEF Oldest, Job, Delta, Text
<1>4. fwd \in Seqs \cup {0}
  <2>1. objs[c].fwd \in Nat /\ t.seq \in Nat
    BY <1>0, <1>3, Numbers DEF State
  <2>2. fwd \in {objs[c].fwd, t.seq}
    BY <2>1, MaxOfTwo
  <2> QED
    BY <1>0, <1>3, <2>2 DEF State
<1>5. todo \in SUBSET Delta /\ \A u \in todo : u.seq > fwd
  BY <1>0, NewerIsNewer DEF Job
<1> HIDE DEF fwd, todo, text
<1>6. /\ p \in State /\ p.fwd = fwd /\ p.job = objs[c].job /\ p.chain = objs[c].chain /\ p.done = objs[c].done
      /\ p.known = objs[c].known /\ p.buffer = objs[c].buffer /\ p.debounce = objs[c].debounce
      /\ p.cleanup = objs[c].cleanup /\ p.delivered = objs[c].delivered
  BY <1>0, <1>4 DEF State
<1> HIDE DEF p
<1>7. Flushes(i, c) /\ objs[c].known
  BY <1>0, <1>t, AnswerFlushes DEF Calls
<1>8. os \in [Object -> State] /\ \A j \in Object : os[j] = IF j = c THEN p ELSE objs[j]
  BY <1>0, <1>6, <1>t DEF TypeOK
<1>9. Prepared(os, c)
  BY <1>0, <1>6, <1>7, <1>8 DEF Prepared
<1>10. os[i].chain # <<>>
  BY <1>6, <1>7, <1>8 DEF Flushes
<1> HIDE DEF os
<1>11. Flushed(os, objs', i, c, todo)
  BY <1>0, <1>2, <1>3, <1>5, <1>8, <1>10, FlushingFlushes
<1>12. os[c] = p
  BY <1>0, <1>8
<1> HIDE DEF c
<1>13. MapInv'
  BY <1>t, <1>u, <1>7, <1>9, <1>11, FlushesKeepMap
<1>14. ReplyInv'
  BY <1>t, <1>u, <1>0, <1>6, <1>9, <1>11, <1>12, FlushesKeepReply
<1>15. BufferInv' /\ \A j \in Object : objs'[j].buffer = objs[j].buffer
  BY <1>t, <1>u, <1>0, <1>6, <1>9, <1>11, <1>12, AnswersKeepBuffer DEF c, Calls
<1>16. NothingDropped'
  BY <1>t, <1>u, <1>15, NothingKept, StateOf DEF Told
<1>17. \A j \in Object : objs'[j].delivered = objs[j].delivered
  BY <1>6, <1>8, <1>11 DEF Flushed
<1>18. BeliefIsTrue'
  BY <1>t, <1>u, <1>17, BeliefKept
<1>19. TypeOK'
  BY <1>t, <1>u, <1>11 DEF TypeOK, Flushed
<1>20. Up
  BY <1>0, <1>5, <1>6, <1>9, <1>11, <1>12, FlushesSignal
<1> QED
  BY <1>13, <1>14, <1>15, <1>16, <1>18, <1>19, <1>20 DEF IInv

LEMMA RecoveredKeeps ==
    ASSUME IInv, NEW i \in Object, NEW ok \in BOOLEAN, Recovered(i, ok)
    PROVE  IInv' /\ Silent
<1>t. TypeOK /\ MapInv /\ BufferInv /\ NothingDropped /\ ReplyInv /\ BeliefIsTrue
  BY DEF IInv
<1>u. UNCHANGED <<cur, made, reported, trace, replied, received, repeats, excused, late>>
  BY DEF Recovered
<1> DEFINE job == objs[i].job
           c == job.on
           told == [objs[c] EXCEPT !.delivered = job.text.words, !.rec = job.text.seq]
           ended == [objs[c] EXCEPT !.delivered = objs[c].term.words, !.termFwd = Max({@, objs[c].term.seq})]
           p == IF job.kind = "recover" THEN told ELSE ended
           os == [objs EXCEPT ![c] = p]
<1>0. job.kind \in {"recover", "terminal"} /\ job \in Job /\ c \in Object /\ objs[c] \in State
  BY <1>t, StateOf DEF Recovered, State, Job
<1>1. /\ last' = IF ok THEN job.text.words ELSE last
      /\ blurred' = (blurred \/ ~ok \/ (job.kind = "terminal" /\ objs[c].term # job.text) \/ c # cur)
      /\ objs' = IF job.kind = "recover" THEN Terminal(os, i, c) ELSE Finished(os, i, c)
  <2>1. /\ last' = IF ok THEN job.text.words ELSE last
        /\ blurred' = (blurred \/ ~ok \/ (job.kind = "terminal" /\ objs[c].term # job.text) \/ c # cur)
    BY DEF Recovered
  <2>2. [objs EXCEPT ![c].delivered = job.text.words, ![c].rec = job.text.seq] = [objs EXCEPT ![c] = told]
    BY <1>0, <1>t DEF TypeOK
  <2>3. [objs EXCEPT ![c].delivered = objs[c].term.words, ![c].termFwd = Max({@, objs[c].term.seq})]
            = [objs EXCEPT ![c] = ended]
    BY <1>0, <1>t DEF TypeOK
  <2>4. CASE job.kind = "recover"
    <3>1. objs' = Terminal([objs EXCEPT ![c].delivered = job.text.words, ![c].rec = job.text.seq], i, c)
      BY <2>4 DEF Recovered
    <3>2. os = [objs EXCEPT ![c] = told]
      BY <2>4
    <3> QED
      BY <2>1, <2>2, <2>4, <3>1, <3>2
  <2>5. CASE job.kind # "recover"
    <3>1. objs' = Finished([objs EXCEPT ![c].delivered = objs[c].term.words,
                                        ![c].termFwd = Max({@, objs[c].term.seq})], i, c)
      BY <2>5 DEF Recovered
    <3>2. os = [objs EXCEPT ![c] = ended]
      BY <2>5
    <3>3. objs' = Finished(os, i, c)
      BY <2>3, <3>1, <3>2
    <3> QED
      BY <2>1, <2>5, <3>3
  <2> QED
    BY <2>4, <2>5
<1>2. job.text \in Text /\ job.text.words \in Words /\ job.text.seq \in Seqs \cup {0}
  BY <1>0 DEF Job, Text
<1>3. Max({objs[c].termFwd, objs[c].term.seq}) \in Seqs \cup {0}
  <2>1. objs[c].termFwd \in Seqs \cup {0} /\ objs[c].term.seq \in Seqs \cup {0}
    BY <1>0 DEF State, Text
  <2>2. objs[c].termFwd \in Nat /\ objs[c].term.seq \in Nat
    BY <2>1, Numbers
  <2>3. Max({objs[c].termFwd, objs[c].term.seq}) \in {objs[c].termFwd, objs[c].term.seq}
    BY <2>2, MaxOfTwo
  <2> QED
    BY <2>1, <2>3
<1>4. /\ told \in State /\ told.job = objs[c].job /\ told.chain = objs[c].chain /\ told.done = objs[c].done
      /\ told.known = objs[c].known /\ told.buffer = objs[c].buffer /\ told.debounce = objs[c].debounce
      /\ told.cleanup = objs[c].cleanup /\ told.delivered = job.text.words
  BY <1>0, <1>2 DEF State
<1>5. /\ ended \in State /\ ended.job = objs[c].job /\ ended.chain = objs[c].chain /\ ended.done = objs[c].done
      /\ ended.known = objs[c].known /\ ended.buffer = objs[c].buffer /\ ended.debounce = objs[c].debounce
      /\ ended.cleanup = objs[c].cleanup /\ ended.delivered = objs[c].term.words
  BY <1>0, <1>3 DEF State, Text
<1> HIDE DEF told, ended
<1>6. /\ p \in State /\ p.job = objs[c].job /\ p.chain = objs[c].chain /\ p.done = objs[c].done
      /\ p.known = objs[c].known /\ p.buffer = objs[c].buffer /\ p.debounce = objs[c].debounce
      /\ p.cleanup = objs[c].cleanup
      /\ p.delivered = IF job.kind = "recover" THEN job.text.words ELSE objs[c].term.words
  BY <1>4, <1>5
<1> HIDE DEF p
<1>7. Flushes(i, c) /\ objs[c].known
  BY <1>0, <1>t, AnswerFlushes DEF Calls
<1>8. os \in [Object -> State] /\ \A j \in Object : os[j] = IF j = c THEN p ELSE objs[j]
  BY <1>0, <1>6, <1>t DEF TypeOK
<1>9. Prepared(os, c)
  BY <1>0, <1>6, <1>7, <1>8 DEF Prepared
<1>10. os[i].chain # <<>>
  BY <1>6, <1>7, <1>8 DEF Flushes
<1> HIDE DEF os
<1>11. Flushed(os, objs', i, c, {})
  BY <1>0, <1>1, <1>8, <1>10, TerminalFlushes, FinishedFlushes
<1>12. os[c] = p
  BY <1>0, <1>8
<1>r. replied
  BY <1>0, <1>t DEF ReplyInv, Recovers
<1> HIDE DEF c
<1>13. MapInv'
  BY <1>t, <1>u, <1>7, <1>9, <1>11, FlushesKeepMap
<1>14. ReplyInv'
  BY <1>r, <1>t, <1>u, <1>0, <1>9, <1>11, FlushesKeepReply
<1>15. BufferInv' /\ \A j \in Object : objs'[j].buffer = objs[j].buffer
  BY <1>t, <1>u, <1>0, <1>6, <1>9, <1>11, <1>12, AnswersKeepBuffer DEF c, Calls
<1>16. NothingDropped'
  BY <1>t, <1>u, <1>15, NothingKept, StateOf DEF Told
<1>17. BeliefIsTrue'
  <2> SUFFICES ASSUME cur # 0, ~blurred' PROVE objs'[cur].delivered \in {0, last'}
    BY <1>u DEF BeliefIsTrue
  <2>1. cur = c /\ ok /\ (job.kind = "terminal" => objs[c].term = job.text)
    BY <1>1
  <2>2. objs'[c].delivered = p.delivered
    BY <1>0, <1>11, <1>12 DEF Flushed
  <2> QED
    BY <1>0, <1>1, <1>6, <2>1, <2>2
<1>18. TypeOK'
  BY <1>t, <1>u, <1>1, <1>2, <1>11 DEF TypeOK, Flushed
<1>19. Silent
  BY <1>9, <1>11 DEF Silent, Flushed, Prepared, Idle
<1> QED
  BY <1>13, <1>14, <1>15, <1>16, <1>17, <1>18, <1>19 DEF IInv

(* A chain that moves on.                                                   *)
LEMMA TailMovesOn ==
    ASSUME NEW o \in State, o.chain # <<>>
    PROVE  LET p == [o EXCEPT !.chain = Tail(@)] IN
           /\ Alike(o, p) /\ p.buffer = o.buffer /\ p.cleanup = o.cleanup /\ p.debounce = o.debounce
           /\ p.loose = o.loose /\ p.dead = o.dead /\ p.chain = Tail(o.chain)
           /\ Range(p.chain) \subseteq Range(o.chain)
<1> DEFINE p == [o EXCEPT !.chain = Tail(@)]
<1>1. o.chain \in Seq(Link) /\ "dead" \in Link
  BY DEF State, Link
<1>2. Tail(o.chain) \in Seq(Link) /\ Range(Tail(o.chain)) \subseteq Range(o.chain)
  BY <1>1, ChainLinks
<1>3. /\ p \in State /\ p.job = o.job /\ p.fwd = o.fwd /\ p.rec = o.rec /\ p.termFwd = o.termFwd
      /\ p.done = o.done /\ p.delivered = o.delivered /\ p.known = o.known
      /\ p.buffer = o.buffer /\ p.cleanup = o.cleanup /\ p.debounce = o.debounce
      /\ p.loose = o.loose /\ p.dead = o.dead /\ p.chain = Tail(o.chain)
  BY <1>2 DEF State, Link
<1> QED
  BY <1>2, <1>3 DEF Alike

(* A flush of a run that is not correlated yet.                             *)
LEMMA FlushRetries ==
    ASSUME IInv, NEW i \in Object, objs[i].job.kind = "idle", objs[i].chain # <<>>,
           cur # 0, NEW p, NEW letter \in SUBSET Seqs, Kept(objs[cur], p, letter),
           objs' = [[objs EXCEPT ![cur] = p] EXCEPT ![i].chain = Tail(@)],
           reported' = reported \cup letter, UNCHANGED <<cur, made, outside>>
    PROVE  IInv' /\ Silent
<1>t. TypeOK /\ MapInv /\ BufferInv /\ NothingDropped /\ ReplyInv /\ BeliefIsTrue
  BY DEF IInv
<1>u. UNCHANGED <<cur, made, trace, replied, last, received, repeats, excused, blurred, late>>
  BY DEF outside
<1>s. (\A j \in Object : objs[j] \in State) /\ cur \in Object
  BY <1>t, StateOf
<1> DEFINE os == [objs EXCEPT ![cur] = p]
           q == [os[i] EXCEPT !.chain = Tail(@)]
<1>1. os \in [Object -> State] /\ \A j \in Object : os[j] = IF j = cur THEN p ELSE objs[j]
  BY <1>s, <1>t DEF Kept, Alike, TypeOK
<1>2. objs' = [os EXCEPT ![i] = q]
  OBVIOUS
<1> HIDE DEF os
<1>k. /\ Alike(objs[cur], p) /\ p.buffer = objs[cur].buffer /\ p.cleanup = objs[cur].cleanup
      /\ \/ p.chain = Append(objs[cur].chain, "dead") /\ {t.seq : t \in objs[cur].buffer} \subseteq letter
         \/ p.chain = objs[cur].chain /\ p.debounce \in {"flush", "retry"} /\ letter = {}
  BY DEF Kept
<1>c. objs[cur].chain # <<>> => p.chain # <<>>
  <2>1. objs[cur].chain \in Seq(Link) /\ "dead" \in Link
    BY <1>s DEF State, Link
  <2>2. Append(objs[cur].chain, "dead") # <<>>
    BY <2>1, ChainLinks
  <2> QED
    BY <2>2, <1>k
<1>3. os[i] \in State /\ os[i].chain # <<>>
  BY <1>1, <1>c
<1>4. /\ Alike(os[i], q) /\ q.buffer = os[i].buffer /\ q.cleanup = os[i].cleanup /\ q.debounce = os[i].debounce
      /\ q.loose = os[i].loose /\ q.dead = os[i].dead
      /\ Range(q.chain) \subseteq Range(os[i].chain)
  BY <1>3, TailMovesOn
<1> HIDE DEF q
<1>5. objs' \in [Object -> State] /\ \A j \in Object : objs'[j] = IF j = i THEN q ELSE os[j]
  BY <1>1, <1>2, <1>4 DEF Alike
<1>6. \A j \in Object : Alike(objs[j], os[j])
  BY <1>1, <1>k, <1>s, AlikeIsTransitive
<1>7. \A j \in Object : Alike(os[j], objs'[j])
  BY <1>1, <1>4, <1>5, AlikeIsTransitive
<1>8. \A j \in Object : Alike(objs[j], objs'[j])
  BY <1>6, <1>7, AlikeIsTransitive
<1>9. \A j \in Object : objs'[j].buffer = objs[j].buffer /\ objs'[j].cleanup = objs[j].cleanup
  BY <1>1, <1>4, <1>5, <1>k
<1>i. i <= made /\ cur <= made
  <2>1. New.chain = <<>>
    BY DEF New
  <2> QED
    BY <1>t, <2>1 DEF MapInv, TypeOK, Object
<1>10. MapInv' /\ ReplyInv'
  <2>1. \A j \in Object : objs[j].job.kind # "idle" /\ objs[j].chain # <<>> => objs'[j].chain # <<>>
    BY <1>1, <1>5, <1>c
  <2>2. \A j \in Object : j > made => objs'[j] = objs[j]
    BY <1>1, <1>5, <1>i, <1>t DEF TypeOK, Object
  <2> QED
    BY <1>t, <1>u, <1>5, <1>8, <2>1, <2>2, AlikeKeeps
<1>11. BeliefIsTrue'
  BY <1>t, <1>u, <1>8, BeliefKept DEF Alike
<1>12. NothingDropped'
  BY <1>t, <1>u, <1>s, <1>9, NothingKept DEF Told
<1>13. BufferInv'
  <2> SUFFICES ASSUME Doomed' PROVE \A t \in objs[cur].buffer : t.seq \in reported \cup letter \cup excused
    BY <1>u, <1>s, <1>9 DEF BufferInv, BufferTold, Told
  <2>1. CASE {t.seq : t \in objs[cur].buffer} \subseteq letter
    BY <2>1
  <2>2. CASE p.chain = objs[cur].chain /\ p.debounce \in {"flush", "retry"}
    <3>1. \A j \in Object \ {cur} : Haunting(objs'[j]) => Haunting(objs[j])
      <4> TAKE j \in Object \ {cur}
      <4>1. CASE j = i
        <5>1. os[i] = objs[i] /\ objs'[i] = q
          BY <4>1, <1>1, <1>5
        <5> QED
          BY <4>1, <5>1, <1>4 DEF Haunting, Leaving, Alike
      <4>2. CASE j # i
        BY <4>2, <1>1, <1>5
      <4> QED
        BY <4>1, <4>2
    <3>2. objs'[cur].debounce # "off"
      BY <1>1, <1>4, <1>5, <1>s, <2>2
    <3>3. Range(objs'[cur].chain) \subseteq Range(objs[cur].chain)
      BY <1>1, <1>4, <1>5, <1>s, <2>2
    <3>4. Leaving(objs'[cur]) => Leaving(objs[cur])
      BY <1>8, <1>9, <1>s, <3>3 DEF Leaving, Alike
    <3>5. Doomed
      BY <1>u, <3>1, <3>2, <3>4 DEF Doomed
    <3> QED
      BY <1>t, <3>5 DEF BufferInv, BufferTold, Told
  <2> QED
    BY <1>k, <2>1, <2>2
<1>14. TypeOK'
  BY <1>t, <1>u, <1>5 DEF TypeOK
<1>15. Silent
  BY <1>8 DEF Silent, Alike
<1> QED
  BY <1>10, <1>11, <1>12, <1>13, <1>14, <1>15 DEF IInv

(* A flush of a correlated one: what is buffered is now reported.           *)
LEMMA FlushReports ==
    ASSUME IInv, NEW i \in Object, objs[i].chain # <<>>, cur # 0,
           NEW o, Alike(objs[cur], o), o.buffer = objs[cur].buffer, o.chain = objs[cur].chain, o.known,
           objs' = Flushing([objs EXCEPT ![cur] = [o EXCEPT !.buffer = {}]], i, cur,
                            Newer(o.buffer, o.fwd), NoText),
           reported' = reported \cup {t.seq : t \in o.buffer},
           UNCHANGED <<cur, made, outside>>
    PROVE  IInv' /\ Up
<1>t. TypeOK /\ MapInv /\ BufferInv /\ NothingDropped /\ ReplyInv /\ BeliefIsTrue
  BY DEF IInv
<1>u. UNCHANGED <<cur, made, trace, replied, last, received, repeats, excused, blurred, late>>
  BY DEF outside
<1>s. (\A j \in Object : objs[j] \in State) /\ cur \in Object /\ o \in State
  BY <1>t, StateOf DEF Alike
<1> DEFINE p == [o EXCEPT !.buffer = {}]
           os == [objs EXCEPT ![cur] = p]
           todo == Newer(o.buffer, o.fwd)
<1>1. objs' = Flushing(os, i, cur, todo, NoText)
  OBVIOUS
<1>2. todo \in SUBSET Delta /\ \A u \in todo : u.seq > o.fwd
  BY <1>s, NewerIsNewer DEF State
<1> HIDE DEF todo
<1>3. /\ p \in State /\ p.buffer = {} /\ p.fwd = o.fwd /\ p.job = o.job /\ p.chain = o.chain
      /\ p.done = o.done /\ p.known = o.known /\ p.delivered = o.delivered
  BY <1>s DEF State
<1> HIDE DEF p
<1>4. os \in [Object -> State] /\ \A j \in Object : os[j] = IF j = cur THEN p ELSE objs[j]
  BY <1>s, <1>t, <1>3 DEF TypeOK
<1> HIDE DEF os
<1>5. Prepared(os, cur)
  BY <1>s, <1>3, <1>4 DEF Prepared, Alike
<1>6. Flushes(i, cur)
  <2>1. New.chain = <<>>
    BY DEF New
  <2> QED
    BY <1>s, <1>t, <2>1 DEF Flushes, MapInv, TypeOK, Object
<1>7. os[i].chain # <<>>
  BY <1>3, <1>4
<1>8. Flushed(os, objs', i, cur, todo)
  BY <1>s, <1>1, <1>2, <1>4, <1>7, FlushingFlushes, IdleIsJob
<1>9. os[cur] = p
  BY <1>4, <1>s
<1>10. MapInv'
  BY <1>t, <1>u, <1>5, <1>6, <1>8, FlushesKeepMap
<1>11. ReplyInv'
  BY <1>t, <1>u, <1>s, <1>3, <1>5, <1>8, <1>9, FlushesKeepReply DEF Alike
<1>12. \A j \in Object : objs'[j].delivered = objs[j].delivered
  <2>1. p.delivered = objs[cur].delivered
    BY <1>3 DEF Alike
  <2>2. \A j \in Object : os[j].delivered = objs[j].delivered
    BY <1>4, <2>1
  <2>3. \A j \in Object : objs'[j].delivered = os[j].delivered
    BY <1>8 DEF Flushed
  <2> QED
    BY <2>2, <2>3
<1>13. BeliefIsTrue'
  BY <1>t, <1>u, <1>12, BeliefKept
<1>14. objs'[cur].buffer = {}
  BY <1>s, <1>3, <1>8, <1>9 DEF Flushed
<1>15. BufferInv'
  BY <1>u, <1>14 DEF BufferInv, BufferTold
<1>16. NothingDropped'
  BY <1>t, <1>u, NothingKept DEF Told
<1>17. TypeOK'
  <2>1. {t.seq : t \in o.buffer} \subseteq Seqs
    BY <1>s DEF State, Delta
  <2>2. objs' \in [Object -> State]
    BY <1>8 DEF Flushed
  <2> QED
    BY <1>t, <1>u, <2>1, <2>2 DEF TypeOK
<1>18. Up
  BY <1>s, <1>2, <1>3, <1>5, <1>8, <1>9, FlushesSignal
<1> QED
  BY <1>10, <1>11, <1>13, <1>15, <1>16, <1>17, <1>18 DEF IInv

LEMMA SilentIsUp == Silent => Up
  BY DEF Silent, Up

LEMMA FlushKeeps ==
    ASSUME IInv, NEW i \in Object, Flush(i)
    PROVE  IInv' /\ Up
<1>t. TypeOK /\ MapInv
  BY DEF IInv
<1>s. (\A j \in Object : objs[j] \in State) /\ (cur # 0 <=> cur \in Object)
  BY <1>t, StateOf
<1> DEFINE b == objs[cur]
           spent == [b EXCEPT !.debounce = "off",
                              !.loose = IF b.debounce \in {"flush", "retry"} THEN b.debounce ELSE @]
           o == Attached(spent)
           p == Retried(o)
           letter == Letter(o, p)
<1>1. /\ objs[i].job.kind = "idle" /\ objs[i].chain # <<>> /\ UNCHANGED <<cur, made, outside>>
      /\ IF cur = 0 THEN objs' = Rest(i) /\ UNCHANGED reported
         ELSE IF ~o.known
         THEN /\ objs' = [[objs EXCEPT ![cur] = p] EXCEPT ![i].chain = Tail(@)]
              /\ reported' = reported \cup letter
         ELSE /\ objs' = Flushing([objs EXCEPT ![cur] = [o EXCEPT !.buffer = {}]], i, cur,
                                  Newer(o.buffer, o.fwd), NoText)
              /\ reported' = reported \cup {t.seq : t \in o.buffer}
  BY DEF Flush, Startable
<1>2. CASE cur = 0
  <2> DEFINE rest == Rest(i)
  <2>1. objs' = rest /\ UNCHANGED reported
    BY <1>1, <1>2
  <2>2. /\ rest \in [Object -> State]
        /\ \A j \in Object : j # i => rest[j] = objs[j]
        /\ rest[i].job = Idle
        /\ rest[i].known = objs[i].known /\ rest[i].done = objs[i].done /\ rest[i].delivered = objs[i].delivered
    BY <1>t, <1>1, RestIsBare
  <2> HIDE DEF rest
  <2>3. \A j \in Object : Bare(objs[j], rest[j])
    <3> TAKE j \in Object
    <3>1. rest[j] \in State
      BY <2>2
    <3> QED
      BY <1>s, <2>2, <3>1 DEF Bare
  <2>4. \A j \in Object : j > made => rest[j] = objs[j]
    <3>1. New.chain = <<>>
      BY DEF New
    <3> QED
      BY <1>t, <1>1, <2>2, <3>1 DEF MapInv
  <2>5. IInv' /\ Silent
    BY <1>1, <1>2, <2>1, <2>2, <2>3, <2>4, DeletionKeeps
  <2> QED
    BY <2>5, SilentIsUp
<1>3. CASE cur # 0
  <2>1. b \in State
    BY <1>s, <1>3
  <2>2. /\ Alike(b, spent) /\ spent.buffer = b.buffer /\ spent.chain = b.chain
        /\ spent.cleanup = b.cleanup /\ spent.term = b.term
    BY <2>1 DEF State, Alike
  <2> HIDE DEF spent
  <2>3. /\ Alike(spent, o) /\ o.buffer = spent.buffer /\ o.term = spent.term
        /\ o.chain = spent.chain /\ o.cleanup = spent.cleanup
    BY <2>2, AttachedIsAlike DEF Alike
  <2>4. o \in State /\ Alike(b, o)
    BY <2>2, <2>3, AlikeIsTransitive DEF Alike
  <2> HIDE DEF o
  <2>5. CASE ~o.known
    <3>1. Kept(o, p, letter)
      BY <2>4, RetriedKeeps
    <3>2. objs' = [[objs EXCEPT ![cur] = p] EXCEPT ![i].chain = Tail(@)] /\ reported' = reported \cup letter
      BY <1>1, <1>3, <2>5
    <3> HIDE DEF p
    <3>3. letter \in SUBSET Seqs
      BY <2>4, <3>1, ContentIsSeqs DEF Kept
    <3> HIDE DEF letter
    <3>4. Alike(b, p)
      BY <2>4, <3>1, AlikeIsTransitive DEF Kept
    <3>5. Kept(objs[cur], p, letter)
      BY <2>2, <2>3, <3>1, <3>4 DEF Kept
    <3>6. IInv' /\ Silent
      BY <1>1, <1>3, <3>2, <3>3, <3>5, FlushRetries
    <3> QED
      BY <3>6, SilentIsUp
  <2>6. CASE o.known
    <3>1. /\ objs' = Flushing([objs EXCEPT ![cur] = [o EXCEPT !.buffer = {}]], i, cur,
                              Newer(o.buffer, o.fwd), NoText)
          /\ reported' = reported \cup {t.seq : t \in o.buffer}
      BY <1>1, <1>3, <2>6
    <3>2. Alike(objs[cur], o) /\ o.buffer = objs[cur].buffer /\ o.chain = objs[cur].chain
      BY <2>2, <2>3, <2>4
    <3> QED
      BY <1>1, <1>3, <2>6, <3>1, <3>2, FlushReports
  <2> QED
    BY <2>5, <2>6
<1> QED
  BY <1>2, <1>3

-----------------------------------------------------------------------------
(* Events.                                                                  *)

(* What becomes of object o when it takes in event e: the event is old, the *)
(* terminal one, or buffered; and a letter tells what is buffered, or a     *)
(* timer is running for it, or a late terminal text is flushed at once.     *)
Taken(o, to, e, letter) ==
    /\ Alike(o, to) /\ (to.cleanup => o.cleanup) /\ letter \in SUBSET Seqs
    /\ o.buffer \subseteq to.buffer /\ \A u \in to.buffer \ o.buffer : u.seq = e.seq
    /\ e.terminal \/ e.seq <= o.fwd \/ \E u \in to.buffer : u.seq = e.seq
    /\ \/ to.chain = Append(o.chain, "dead") /\ {u.seq : u \in to.buffer} \subseteq letter
       \/ to.chain = o.chain /\ to.debounce \in {"flush", "retry"}
       \/ /\ to.chain = Append(o.chain, "flush")
          /\ to.buffer = o.buffer /\ to.debounce = o.debounce

LEMMA KeptIsTaken ==
    ASSUME NEW o \in State, NEW b \in State, NEW e \in Events, NEW to, NEW letter,
           Alike(o, b), b.chain = o.chain, b.cleanup => o.cleanup,
           o.buffer \subseteq b.buffer, \A u \in b.buffer \ o.buffer : u.seq = e.seq,
           e.terminal \/ e.seq <= o.fwd \/ \E u \in b.buffer : u.seq = e.seq,
           Kept(b, to, letter), letter = Letter(b, to)
    PROVE  Taken(o, to, e, letter)
<1>1. letter \in SUBSET Seqs
  BY ContentIsSeqs DEF Kept
<1>2. Alike(o, to)
  BY AlikeIsTransitive DEF Kept
<1> QED
  BY <1>1, <1>2 DEF Taken, Kept

LEMMA EventsAreTaken ==
    ASSUME NEW o \in State, NEW e \in Events
    PROVE  LET to == IF e.terminal THEN Ends(o, e) ELSE TakesIn(o, e)
           IN Taken(o, to, e, Letter(o, to))
<1> DEFINE t == [seq |-> e.seq, words |-> e.words]
           to == IF e.terminal THEN Ends(o, e) ELSE TakesIn(o, e)
           letter == Letter(o, to)
<1>e. t \in Delta /\ t \in Text /\ t.seq = e.seq /\ e.terminal \in BOOLEAN
  BY ForwarderAssumption DEF Delta, Text, Seqs, Words, Event
<1>o. Alike(o, o)
  BY AlikeIsTransitive
<1>1. CASE e.terminal
  <2> DEFINE b == [o EXCEPT !.term = t, !.cleanup = FALSE]
  <2>1. /\ b \in State /\ Alike(o, b) /\ b.chain = o.chain /\ b.cleanup = FALSE /\ b.buffer = o.buffer
        /\ b.debounce = o.debounce
    BY <1>e DEF State, Alike
  <2>2. \/ to = [b EXCEPT !.chain = Append(@, "flush")]
        \/ to = Scheduled(b)
    BY <1>1 DEF Ends
  <2> HIDE DEF b
  <2>3. letter = Letter(b, to)
    BY <2>1 DEF Letter
  <2>4. CASE to = Scheduled(b)
    <3>1. Kept(b, to, letter)
      BY <2>1, <2>3, <2>4, ScheduledKeeps
    <3> QED
      BY <1>1, <2>1, <2>3, <3>1, KeptIsTaken
  <2>5. CASE to = [b EXCEPT !.chain = Append(@, "flush")]
    <3>1. b.chain \in Seq(Link) /\ "flush" \in Link
      BY <2>1 DEF State, Link
    <3>2. Append(b.chain, "flush") \in Seq(Link) /\ Last(Append(b.chain, "flush")) = "flush"
      BY <3>1, ChainLinks
    <3>3. /\ to \in State /\ Alike(b, to) /\ to.chain = Append(b.chain, "flush") /\ to.cleanup = b.cleanup
          /\ to.buffer = b.buffer /\ to.debounce = b.debounce
      BY <2>1, <2>5, <3>2 DEF State, Alike, Link
    <3>4. letter = {}
      BY <2>3, <3>2, <3>3 DEF Letter
    <3>5. Alike(o, to)
      BY <2>1, <3>3, AlikeIsTransitive
    <3> QED
      BY <1>1, <2>1, <3>3, <3>4, <3>5 DEF Taken
  <2> QED
    BY <2>2, <2>4, <2>5
<1>2. CASE ~e.terminal
  <2> DEFINE b == [o EXCEPT !.buffer = @ \cup {t}]
             known == e.seq <= o.fwd \/ e.seq \in {u.seq : u \in o.buffer}
  <2>1. /\ b \in State /\ Alike(o, b) /\ b.chain = o.chain /\ b.cleanup = o.cleanup
        /\ b.buffer = o.buffer \cup {t}
    BY <1>e DEF State, Alike
  <2>2. /\ known => to = Scheduled(o)
        /\ ~known => to = Scheduled(b) \/ to = DeadLettered(b)
    BY <1>2 DEF TakesIn
  <2> HIDE DEF b
  <2>3. letter = Letter(b, to)
    BY <2>1 DEF Letter
  <2>4. CASE known
    <3>1. Kept(o, to, letter)
      BY <2>2, <2>4, ScheduledKeeps
    <3>2. e.seq <= o.fwd \/ \E u \in o.buffer : u.seq = e.seq
      BY <2>4
    <3> QED
      BY <1>o, <3>1, <3>2, KeptIsTaken
  <2>5. CASE ~known
    <3>1. Kept(b, to, letter)
      <4>1. CASE to = Scheduled(b)
        BY <2>1, <2>3, <4>1, ScheduledKeeps
      <4>2. CASE to = DeadLettered(b)
        BY <2>1, <2>3, <4>2, LetteredReports DEF Kept, Content
      <4> QED
        BY <2>2, <2>5, <4>1, <4>2
    <3>2. o.buffer \subseteq b.buffer /\ \A u \in b.buffer \ o.buffer : u.seq = e.seq
      BY <1>e, <2>1
    <3>3. \E u \in b.buffer : u.seq = e.seq
      BY <1>e, <2>1
    <3> QED
      BY <2>1, <2>3, <3>1, <3>2, <3>3, KeptIsTaken
  <2> QED
    BY <2>4, <2>5
<1> QED
  BY <1>e, <1>1, <1>2

LEMMA ReceiveKeeps ==
    ASSUME IInv, NEW e \in Events, Receive(e)
    PROVE  IInv' /\ Silent
<1>t. TypeOK /\ MapInv /\ BufferInv /\ NothingDropped /\ ReplyInv /\ BeliefIsTrue
  BY DEF IInv
<1>u. UNCHANGED <<trace, replied, last, blurred>>
  BY DEF Receive
<1>e. e.seq \in Seqs /\ e.words \in Words
  BY DEF Seqs, Words
<1> DEFINE i == IF cur = 0 THEN made + 1 ELSE cur
           b == objs[i]
           o == Attached(b)
           to == IF e.terminal THEN Ends(o, e) ELSE TakesIn(o, e)
           letter == Letter(o, to)
           leaving == Leaving(o) \/ \E j \in Object \ {i} : Haunting(objs[j])
<1>1. /\ i \in Object /\ repeats' \in {repeats} \cup {r \in 0..MaxRepeats : r = repeats - 1}
      /\ received' = received \cup {e.seq}
      /\ cur' = i /\ made' = IF cur = 0 THEN i ELSE made
      /\ objs' = [objs EXCEPT ![i] = to]
      /\ reported' = reported \cup letter
      /\ excused' = IF leaving \/ e.seq <= o.fwd THEN excused \cup {e.seq} ELSE excused
      /\ late' = IF replied /\ trace = "known" THEN Max({late, e.words}) ELSE late
  <2>1. repeats' \in {repeats} \cup {r \in 0..MaxRepeats : r = repeats - 1}
    BY <1>t, ForwarderAssumption DEF Receive, TypeOK
  <2> QED
    BY <2>1 DEF Receive
<1>s. (\A j \in Object : objs[j] \in State) /\ (cur # 0 <=> cur \in Object) /\ b \in State
  BY <1>t, <1>1, StateOf
<1>2. /\ Alike(b, o) /\ o \in State /\ o.buffer = b.buffer /\ o.chain = b.chain
      /\ o.cleanup = b.cleanup /\ o.debounce = b.debounce
  BY <1>s, AttachedIsAlike DEF Alike
<1> HIDE DEF o
<1>3. Taken(o, to, e, letter)
  BY <1>2, EventsAreTaken
<1> HIDE DEF to, letter
<1>4. Alike(b, to)
  BY <1>2, <1>3, AlikeIsTransitive DEF Taken
<1>n. /\ made \in Nat /\ Object \subseteq Nat /\ 0 \notin Object
      /\ cur = 0 => i = made + 1 /\ b = New
      /\ cur # 0 => i = made /\ i = cur
  <2>1. made \in Nat /\ Object \subseteq Nat /\ 0 \notin Object
    BY <1>t DEF TypeOK, Object
  <2> QED
    BY <1>t, <1>1, <2>1 DEF MapInv
<1> HIDE DEF i
<1>5. objs' \in [Object -> State] /\ \A j \in Object : objs'[j] = IF j = i THEN to ELSE objs[j]
  BY <1>1, <1>4, <1>t DEF TypeOK, Alike
<1>6. \A j \in Object : Alike(objs[j], objs'[j])
  BY <1>4, <1>5, <1>s, AlikeIsTransitive
<1>c. b.chain # <<>> => to.chain # <<>>
  <2>1. b.chain \in Seq(Link) /\ "dead" \in Link /\ "flush" \in Link
    BY <1>s DEF State, Link
  <2>2. Append(b.chain, "dead") # <<>> /\ Append(b.chain, "flush") # <<>>
    BY <2>1, ChainLinks
  <2> QED
    BY <2>2, <1>2, <1>3 DEF Taken
<1>w. New.buffer = {} /\ New.delivered = 0 /\ New.job.kind = "idle" /\ "idle" \notin Calls
  BY DEF New, Idle, Calls
<1>7. MapInv'
  <2>1. cur' \in {0, made'}
    BY <1>1, <1>n
  <2>2. \A j \in Object : j > made' => objs'[j] = New
    BY <1>1, <1>5, <1>n, <1>t DEF MapInv
  <2>3. \A j \in Object : objs[j].job.on \in Object
    BY <1>s DEF State, Job
  <2>4. \A j \in Object :
           /\ objs'[j].job.kind # "idle" => objs'[j].chain # <<>>
           /\ objs'[j].job.kind \in Calls /\ cur' = j => objs'[j].job.on = j
           /\ objs'[j].job.kind \in Calls => objs'[objs'[j].job.on].known
    <3> TAKE j \in Object
    <3>1. objs'[j].job = objs[j].job
      BY <1>6 DEF Alike
    <3>2. objs'[j].job.kind # "idle" => objs'[j].chain # <<>>
      BY <1>5, <1>c, <1>t, <3>1 DEF MapInv
    <3>3. objs[j].job.kind \in Calls /\ cur' = j => objs[j].job.on = j
      BY <1>t, <1>1, <1>n, <1>w DEF MapInv
    <3>4. objs[j].job.kind \in Calls => objs'[objs[j].job.on].known
      BY <1>t, <1>6, <2>3 DEF MapInv, Alike
    <3> QED
      BY <3>1, <3>2, <3>3, <3>4
  <2> QED
    BY <2>1, <2>2, <2>4 DEF MapInv
<1>8. ReplyInv'
  BY <1>t, <1>u, <1>6 DEF ReplyInv, Recovers, Alike
<1>9. BeliefIsTrue'
  <2>1. objs'[i].delivered = b.delivered
    BY <1>1, <1>6 DEF Alike
  <2> QED
    BY <1>t, <1>u, <1>1, <1>n, <1>w, <2>1 DEF BeliefIsTrue
<1>d. Told \subseteq Told'
  BY <1>1 DEF Told
<1>10. BufferInv'
  <2> SUFFICES ASSUME Doomed' PROVE \A u \in to.buffer : u.seq \in Told'
    BY <1>1, <1>5 DEF BufferInv, BufferTold
  <2>1. ASSUME b.debounce = "off" \/ leaving
        PROVE  \A u \in b.buffer : u.seq \in Told'
    <3>1. CASE cur = 0
      BY <3>1, <1>n, <1>w
    <3>2. CASE cur # 0
      <4>1. Leaving(o) => Leaving(b)
        BY <1>2 DEF Leaving, Alike
      <4>2. Doomed
        BY <2>1, <3>2, <4>1, <1>n DEF Doomed
      <4> QED
        BY <1>t, <1>d, <1>n, <3>2, <4>2 DEF BufferInv, BufferTold
    <3> QED
      BY <3>1, <3>2
  <2>2. \A u \in to.buffer \ b.buffer : u.seq = e.seq
    BY <1>2, <1>3 DEF Taken
  <2>3. (\E j \in Object \ {i} : Haunting(objs'[j])) => leaving
    BY <1>5
  <2>4. leaving => e.seq \in Told'
    BY <1>1 DEF Told
  <2>5. objs'[i] = to
    BY <1>1, <1>5
  <2>6. CASE {u.seq : u \in to.buffer} \subseteq letter
    BY <1>1, <2>6 DEF Told
  <2>7. CASE to.chain = o.chain /\ to.debounce \in {"flush", "retry"}
    <3>1. Leaving(to) => Leaving(o)
      BY <1>3, <2>7 DEF Leaving, Taken, Alike
    <3>2. leaving
      BY <1>1, <2>3, <2>5, <2>7, <3>1 DEF Doomed
    <3> QED
      BY <2>1, <2>2, <2>4, <3>2
  <2>8. CASE to.chain = Append(o.chain, "flush") /\ to.buffer = o.buffer /\ to.debounce = o.debounce
    <3>1. o.chain \in Seq(Link) /\ "flush" \in Link
      BY <1>2 DEF State, Link
    <3>2. "dead" \in Range(to.chain) => "dead" \in Range(o.chain)
      BY <2>8, <3>1, ChainLinks
    <3>3. Leaving(to) => Leaving(o)
      BY <1>3, <3>2 DEF Leaving, Taken, Alike
    <3>4. b.debounce = "off" \/ leaving
      BY <1>1, <1>2, <2>3, <2>5, <2>8, <3>3 DEF Doomed
    <3> QED
      BY <1>2, <2>1, <2>8, <3>4
  <2> QED
    BY <1>3, <2>6, <2>7, <2>8 DEF Taken
<1>11. NothingDropped'
  <2> SUFFICES ASSUME NEW f \in Events, ~f.terminal, f.seq \in received'
               PROVE  f.seq \in Told' \/ \E u \in to.buffer : u.seq = f.seq
    <3>1. cur' # 0 /\ objs'[cur'] = to
      BY <1>1, <1>5, <1>n
    <3> QED
      BY <3>1 DEF NothingDropped, Told
  <2>1. CASE f.seq = e.seq
    <3>1. f = e
      BY <2>1, ForwarderAssumption
    <3>2. CASE e.seq <= o.fwd
      BY <1>1, <2>1, <3>2 DEF Told
    <3>3. CASE \E u \in to.buffer : u.seq = e.seq
      BY <2>1, <3>3
    <3> QED
      BY <1>3, <3>1, <3>2, <3>3 DEF Taken
  <2>2. CASE f.seq # e.seq
    <3>1. f.seq \in received
      BY <1>1, <2>2
    <3>2. f.seq \in Told \/ (cur # 0 /\ \E u \in objs[cur].buffer : u.seq = f.seq)
      BY <1>t, <3>1 DEF NothingDropped, Told
    <3>3. cur # 0 => objs[cur].buffer \subseteq to.buffer
      BY <1>2, <1>3, <1>n DEF Taken
    <3> QED
      BY <1>d, <3>2, <3>3
  <2> QED
    BY <2>1, <2>2
<1>12. TypeOK'
  <2>1. late' \in Words
    <3>1. late \in Words /\ late \in Nat /\ e.words \in Nat
      BY <1>t, <1>e, Numbers DEF TypeOK
    <3>2. Max({late, e.words}) \in {late, e.words}
      BY <3>1, MaxOfTwo
    <3> QED
      BY <1>1, <1>e, <3>1, <3>2
  <2>2. cur' \in 0..made' /\ made' \in 0..MaxObjects
    BY <1>1, <1>n, <1>t, ForwarderAssumption DEF TypeOK, Object
  <2>3. reported' \subseteq Seqs /\ excused' \subseteq Seqs /\ received' \subseteq Seqs /\ repeats' \in 0..MaxRepeats
    BY <1>1, <1>3, <1>e, <1>t DEF TypeOK, Taken
  <2> QED
    BY <1>t, <1>u, <1>5, <2>1, <2>2, <2>3 DEF TypeOK
<1>13. Silent
  BY <1>6 DEF Silent, Alike
<1> QED
  BY <1>7, <1>8, <1>9, <1>10, <1>11, <1>12, <1>13 DEF IInv

-----------------------------------------------------------------------------
(* The reply, and the trace.                                                *)
LEMMA RepliesKeeps ==
    ASSUME IInv, NEW ok \in BOOLEAN, NEW words \in Words \ {0}, Replies(ok, words)
    PROVE  IInv' /\ Silent
<1>t. TypeOK /\ MapInv /\ BufferInv /\ NothingDropped /\ ReplyInv /\ BeliefIsTrue
  BY DEF IInv
<1> DEFINE known == cur # 0 /\ objs[cur].term.words = words
<1>u. /\ UNCHANGED <<cur, made, trace, received, repeats, reported, late>>
      /\ ~replied /\ replied' = TRUE
      /\ last' = IF ok THEN words ELSE last
      /\ blurred' = (blurred \/ (ok /\ ~known))
  BY DEF Replies
<1>s. (\A j \in Object : objs[j] \in State) /\ (cur # 0 <=> cur \in Object)
  BY <1>t, StateOf
<1>0. \A j \in Object : objs[j].delivered = 0
  BY <1>t, <1>u DEF ReplyInv, Recovers
<1>1. ReplyInv'
  BY <1>u DEF ReplyInv
<1>2. last' \in Words /\ blurred' \in BOOLEAN
  BY <1>t, <1>u DEF TypeOK
<1>3. CASE Wired /\ cur # 0
  <2> DEFINE b == objs[cur]
             p == Closed(b, ok)
  <2>1. objs' = [objs EXCEPT ![cur] = p] /\ excused' = excused \cup {t.seq : t \in b.buffer}
    BY <1>3 DEF Replies
  <2>2. b \in State /\ b.term.words \in Words /\ {t.seq : t \in b.buffer} \subseteq Seqs
    BY <1>3, <1>s DEF State, Text, Delta
  <2>3. /\ p \in State /\ p.job = b.job /\ p.chain = b.chain /\ p.known = b.known /\ p.buffer = b.buffer
        /\ p.delivered = IF ok /\ b.delivered = 0 THEN b.term.words ELSE b.delivered
    BY <2>2 DEF Closed, State
  <2> HIDE DEF p
  <2>4. objs' \in [Object -> State] /\ \A j \in Object : objs'[j] = IF j = cur THEN p ELSE objs[j]
    BY <1>t, <2>1, <2>3 DEF TypeOK
  <2>5. \A j \in Object : /\ objs'[j].job = objs[j].job /\ objs'[j].chain = objs[j].chain
                          /\ objs'[j].known = objs[j].known /\ objs'[j].buffer = objs[j].buffer
    BY <2>3, <2>4
  <2>6. MapInv'
    <3>1. \A j \in Object : j > made => objs'[j] = objs[j]
      BY <2>4, <1>t DEF TypeOK, Object
    <3>2. \A j \in Object : objs[j].job.on \in Object
      BY <1>s DEF State, Job
    <3> QED
      BY <1>t, <1>u, <2>5, <3>1, <3>2 DEF MapInv
  <2>7. BeliefIsTrue'
    <3> SUFFICES ASSUME ~blurred' PROVE objs'[cur].delivered \in {0, last'}
      BY <1>u DEF BeliefIsTrue
    <3>1. objs'[cur].delivered = IF ok THEN b.term.words ELSE 0
      BY <1>0, <1>3, <1>s, <2>3, <2>4
    <3>2. ok => b.term.words = words
      BY <1>u
    <3> QED
      BY <1>u, <3>1, <3>2
  <2>8. BufferInv'
    BY <1>3, <1>s, <1>u, <2>1, <2>5 DEF BufferInv, BufferTold, Told
  <2>9. NothingDropped'
    BY <1>t, <1>s, <1>u, <2>1, <2>5, NothingKept DEF Told
  <2>10. TypeOK'
    BY <1>t, <1>u, <1>2, <2>1, <2>2, <2>4 DEF TypeOK
  <2>11. Silent
    BY <2>5 DEF Silent
  <2> QED
    BY <1>1, <2>6, <2>7, <2>8, <2>9, <2>10, <2>11 DEF IInv
<1>4. CASE ~(Wired /\ cur # 0)
  <2>1. UNCHANGED <<objs, excused>>
    BY <1>4 DEF Replies
  <2>2. MapInv' /\ Silent
    BY <1>t, <1>u, <2>1 DEF MapInv, Silent
  <2>3. BufferInv' /\ NothingDropped'
    BY <1>t, <1>u, <2>1 DEF BufferInv, BufferTold, Told, Doomed, NothingDropped
  <2>4. BeliefIsTrue'
    BY <1>0, <1>s, <1>u, <2>1 DEF BeliefIsTrue
  <2>5. TypeOK'
    BY <1>t, <1>u, <1>2, <2>1 DEF TypeOK
  <2> QED
    BY <1>1, <2>2, <2>3, <2>4, <2>5 DEF IInv
<1> QED
  BY <1>3, <1>4

LEMMA TracesKeep ==
    ASSUME IInv, TraceKnown \/ TraceGone
    PROVE  IInv' /\ Silent
<1>1. /\ UNCHANGED <<cur, made, objs, replied, last, received, repeats, reported, excused, blurred, late>>
      /\ trace' \in {"known", "gone"}
  BY DEF TraceKnown, TraceGone
<1> QED
  BY <1>1 DEF IInv, TypeOK, MapInv, BufferInv, BufferTold, Told, Doomed, NothingDropped, ReplyInv,
              BeliefIsTrue, Silent

-----------------------------------------------------------------------------
(* The theorems.                                                            *)
LEMMA InitHolds == Init => IInv
<1> SUFFICES ASSUME Init PROVE IInv
  OBVIOUS
<1>1. New \in State
  <2>1. NoText \in Text /\ Idle \in Job /\ {} \in SUBSET Delta /\ <<>> \in Seq({"flush", "dead"})
    BY IdleIsJob
  <2> QED
    BY <2>1, Numbers DEF New, State
<1>2. TypeOK
  <2>1. objs \in [Object -> State]
    BY <1>1 DEF Init
  <2>2. cur \in 0..made /\ made \in 0..MaxObjects /\ repeats \in 0..MaxRepeats
    BY ForwarderAssumption DEF Init
  <2> QED
    BY <2>1, <2>2, Numbers DEF Init, TypeOK
<1>3. MapInv
  BY DEF Init, MapInv, New, Idle, Calls
<1>4. ReplyInv
  BY DEF Init, ReplyInv, Recovers, New, Idle
<1>5. BufferInv /\ NothingDropped /\ BeliefIsTrue
  BY DEF Init, BufferInv, NothingDropped, BeliefIsTrue
<1> QED
  BY <1>2, <1>3, <1>4, <1>5 DEF IInv

LEMMA NextKeeps ==
    ASSUME IInv, [Next]_vars
    PROVE  IInv' /\ [Up]_vars
<1>1. CASE UNCHANGED vars
  BY <1>1 DEF vars, IInv, TypeOK, MapInv, BufferInv, BufferTold, Told, Doomed, NothingDropped, ReplyInv,
              BeliefIsTrue
<1>2. CASE Next
  <2>1. ASSUME NEW i \in Object, Timers(i) PROVE IInv' /\ Silent
    BY <2>1, TimersKeep, DeletesKeep DEF Timers
  <2>2. ASSUME NEW i \in Object, Chain(i) PROVE IInv' /\ Up
    <3>1. CASE Flush(i)
      BY <3>1, FlushKeeps
    <3>2. CASE SendsLetter(i)
      BY <3>2, SendsLetterKeeps, SilentIsUp
    <3>3. CASE Signalled(i)
      BY <3>3, SignalledKeeps
    <3>4. CASE LetterSent(i)
      BY <3>4, DeletesKeep, SilentIsUp
    <3>5. ASSUME NEW ok \in BOOLEAN, Recovered(i, ok) PROVE IInv' /\ Up
      BY <3>5, RecoveredKeeps, SilentIsUp
    <3> QED
      BY <2>2, <3>1, <3>2, <3>3, <3>4, <3>5 DEF Chain
  <2>3. ASSUME NEW i \in Object, GrowsOld(i) PROVE IInv' /\ Silent
    BY <2>3, TimersKeep
  <2>4. ASSUME NEW e \in Events, Receive(e) PROVE IInv' /\ Silent
    BY <2>4, ReceiveKeeps
  <2>5. ASSUME TraceKnown \/ TraceGone PROVE IInv' /\ Silent
    BY <2>5, TracesKeep
  <2>6. ASSUME NEW ok \in BOOLEAN, NEW words \in Words \ {0}, Replies(ok, words) PROVE IInv' /\ Silent
    BY <2>6, RepliesKeeps
  <2> QED
    BY <1>2, <2>1, <2>2, <2>3, <2>4, <2>5, <2>6, SilentIsUp DEF Next
<1> QED
  BY <1>1, <1>2

LEMMA InvHolds == Spec => []IInv
<1>1. IInv /\ [Next]_vars => IInv'
  BY NextKeeps
<1> QED
  BY <1>1, InitHolds, PTL DEF Spec

(* Every object of the run, in the map or held by a timer or a call, is one *)
(* that forward() can make.                                                 *)
THEOREM TypeCorrect == Spec => []TypeOK
<1>1. IInv => TypeOK
  BY DEF IInv
<1> QED
  BY <1>1, InvHolds, PTL

(* No delta gets lost without a trace: it is signalled, in a dead letter,   *)
(* older than a signalled one or still buffered, whatever the order of the  *)
(* events, the timers and the deletions, unless it came while the run was   *)
(* about to be deleted or was buffered when it was closed.                  *)
THEOREM NothingIsDropped == Spec => []NothingDropped
<1>1. IInv => NothingDropped
  BY DEF IInv
<1> QED
  BY <1>1, InvHolds, PTL

(* What the forwarder takes for delivered is what the user was last sent,   *)
(* or nothing, but for the reasons BeliefIsTrue names.                      *)
THEOREM BeliefHolds == Spec => []BeliefIsTrue
<1>1. IInv => BeliefIsTrue
  BY DEF IInv
<1> QED
  BY <1>1, InvHolds, PTL

(* Each signal is for a correlated run and newer than all that its object   *)
(* has had an answer to.                                                    *)
THEOREM SignalsGoUp == Spec => SignalsIncrease
<1>1. IInv /\ [Next]_vars => [Up]_vars
  BY NextKeeps
<1> QED
  BY <1>1, InvHolds, PTL DEF Spec, SignalsIncrease, Up
=============================================================================

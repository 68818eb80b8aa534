-------------------------- MODULE ChatRunnerProofs --------------------------
(***************************************************************************)
(* Proofs about ChatRunner: who waits for which run, whose answer a reply  *)
(* is, and that a waiting run can be found, for any calls and messages,    *)
(* any number of attempts, runs, events and failures.                      *)
(***************************************************************************)
EXTENDS ChatRunner, FiniteSetTheorems, SequenceTheorems, TLAPS

(* A run that the gateway has been given has a key and keeps it. *)
KeyInv == \A r \in Run : gw[r] = "none" <=> key[r] = NoKey

(* The run that a call has been given is its own. *)
OwnRun(c) ==
    /\ msg[c] = Nobody => pc[c] = "idle"
    /\ run[c] # NoRun => run[c] \in RunsOf(msg[c])
    /\ taken[c] # NoRun => taken[c] \in RunsOf(msg[c])
    /\ pc[c] \in {"started", "waiting", "recovering", "releasing"} => run[c] # NoRun

(* WaitersMatch, call by call, and only a waiting call has a timer.         *)
OwnWaiter(c) ==
    /\ c \in timer => pc[c] = "waiting"
    /\ \A r \in Run : waiter[r] = c => pc[c] = "waiting" /\ run[c] = r
    /\ pc[c] = "waiting" /\ ~Repeated(c) => waiter[run[c]] = c /\ c \in timer

(* What WaitingRunIsListed says holds from the answer to chat.send on.      *)
OwnListing(c) ==
    pc[c] \in {"started", "waiting"} /\ ~Repeated(c) =>
        active[msg[c]] = run[c] /\ run[c] \in listed

(* A call has counted the lines there were, in a file that is not newer     *)
(* than the session's; what it returns, or is about to, is its own.         *)
OwnText(c) ==
    /\ pc[c] \notin {"idle", "done"} => base[c].lines >= 1 /\ base[c].in <= file
    /\ Backed /\ (pc[c] = "releasing" \/ result[c] = "reply") => author[c] \in RunsOf(msg[c])
    /\ pc[c] # "continuing"

Own(c) == OwnRun(c) /\ OwnWaiter(c) /\ OwnListing(c) /\ OwnText(c)

(* The rotation waits in the table, with a timer, or not at all.            *)
RotationInv ==
    /\ taken[Rotator] # NoRun => key[taken[Rotator]] = Rotation
    /\ rotRun # NoRun => key[rotRun] = Rotation
    /\ \A r \in Run : waiter[r] = Rotator => r = rotRun /\ rot = "waiting"
    /\ Rotator \in timer => rotRun # NoRun /\ waiter[rotRun] = Rotator /\ rot = "waiting"

(* The events of a run that can still send one leave room for it. *)
EventInv ==
    \A r \in Run :
        /\ Len(events[r]) <= MaxEvents
        /\ gw[r] # "over" => Len(events[r]) <= sent[r] /\ sent[r] < MaxEvents

(* The transcript begins with the earlier exchange, and a run writes one    *)
(* line, once it has begun.                                                 *)
ScriptInv ==
    /\ script # <<>> /\ script[1].by = Earlier /\ script[1].in = 0
    /\ \A i \in DOMAIN script : i # 1 =>
         script[i].by \in Run /\ gw[script[i].by] \notin {"none", "queued"}
    /\ \A i, j \in DOMAIN script : script[i].by = script[j].by => i = j

(* TypeOK in parts, each small enough for a leaf.                           *)
CallTypes ==
    /\ msg \in [Call -> Message \cup {Nobody}]
    /\ pc \in [Call -> {"idle", "locked", "ready", "sending", "started", "waiting", "continuing",
                        "recovering", "releasing", "done"}]
    /\ attempt \in [Call -> 1..ConflictAttempts]
    /\ suffix \in [Call -> {"none", "transport", "conflict"}]
    /\ run \in [Call -> Run \cup {NoRun}] /\ fallback \in [Call -> BOOLEAN]
    /\ base \in [Call -> [in : 0..MaxRuns, lines : 0..MaxRuns + 1]]
    /\ result \in [Call -> {"none", "reply", "error", "no_reply"}]
    /\ author \in [Call -> Author]
ActiveType == active \in [Message -> Run \cup {NoRun}]
TableTypes ==
    /\ cand \in [Call -> Author]
    /\ timer \subseteq Call \cup {Rotator}
    /\ waiter \in [Run -> Call \cup {Rotator, Nobody}]
    /\ events \in [Run -> Seq(EventKind)]
    /\ listed \subseteq Run
RotationTypes ==
    /\ lock \in BOOLEAN /\ rot \in {"idle", "sending", "waiting", "done"}
    /\ rotRun \in Run \cup {NoRun}
GatewayTypes ==
    /\ taken \in [Call \cup {Rotator} -> Run \cup {NoRun}]
    /\ gw \in [Run -> {"none", "queued", "live", "dying", "over"}]
    /\ key \in [Run -> Key \cup {NoKey, Rotation}]
    /\ sent \in [Run -> 0..MaxEvents]
    /\ script \in Seq([by : Run \cup {Earlier}, said : BOOLEAN, in : 0..MaxRuns])
    /\ file \in 0..MaxRuns

Types == CallTypes /\ ActiveType /\ TableTypes /\ RotationTypes /\ GatewayTypes

Inv == Types /\ KeyInv /\ EventInv /\ ScriptInv /\ RotationInv /\ \A c \in Call : Own(c)

-----------------------------------------------------------------------------
LEMMA Constants ==
    /\ MaxRuns \in Nat /\ MaxEvents \in Nat /\ MaxEvents > 0
    /\ Attempts \in Nat /\ Attempts > 0 /\ ConflictAttempts \in Nat /\ Attempts <= ConflictAttempts
    /\ Rotator \notin Call /\ Nobody \notin Call /\ Nobody # Rotator
    /\ Run \subseteq Nat /\ NoRun \notin Run /\ Earlier \notin Run /\ Earlier # NoRun
    /\ IsFiniteSet(Run)
BY ChatAssumption, FS_Interval DEF ChatAssumption, Run, NoRun, Earlier

LEMMA TypesAreTypeOK ==
    Types /\ EventInv /\ trouble \in Nat => TypeOK
BY DEF Types, EventInv, TypeOK, CallTypes, ActiveType, TableTypes, RotationTypes, GatewayTypes

(* A finite, nonempty set of integers has a greatest and a least member, by *)
(* induction over its subsets.                                              *)
LEMMA Extremes ==
    ASSUME NEW S \in SUBSET Int, IsFiniteSet(S), S # {}
    PROVE  /\ \E m \in S : \A k \in S : k <= m
           /\ \E m \in S : \A k \in S : m <= k
<1> DEFINE Bounded(A) == /\ \E m \in A : \A k \in A : k <= m
                         /\ \E m \in A : \A k \in A : m <= k
           Bad == {A \in SUBSET S : A # {} /\ ~Bounded(A)}
<1>1. SUFFICES ASSUME Bad # {} PROVE FALSE
  OBVIOUS
<1>2. Bad \subseteq FiniteSubsetsOf(S)
  BY FS_Subset DEF FiniteSubsetsOf
<1>3. PICK A \in Bad : \A B \in Bad : ~(<<B, A>> \in StrictSubsetOrdering(S))
  BY <1>1, <1>2, WFMin, FS_StrictSubsetOrderingWellFounded
<1>4. PICK x \in A : TRUE
  OBVIOUS
<1>5. A \ {x} \notin Bad
  BY <1>3, <1>4 DEF StrictSubsetOrdering
<1>6. Bounded(A)
  BY <1>4, <1>5
<1> QED
  BY <1>6

LEMMA LineTypes ==
    ASSUME Types, NEW i \in DOMAIN script
    PROVE  script[i].by \in Run \cup {Earlier} /\ script[i].said \in BOOLEAN /\ script[i].in \in 0..MaxRuns
<1> DEFINE Line == [by : Run \cup {Earlier}, said : BOOLEAN, in : 0..MaxRuns]
<1>1. script \in Seq(Line)
  BY DEF Types, GatewayTypes
<1>2. script[i] \in Line
  <2> HIDE DEF Line
  <2> QED
    BY <1>1
<1> QED
  BY <1>2

(* The baseline counts no more lines than there can be.                     *)
LEMMA ScriptBound ==
    ASSUME Types, ScriptInv
    PROVE  Len(script) \in 1..MaxRuns + 1
<1> DEFINE f == [i \in 1..Len(script) |-> script[i].by]
<1>1. Len(script) \in Nat /\ DOMAIN script = 1..Len(script) /\ Len(script) >= 1
  BY DEF Types, GatewayTypes, ScriptInv
<1>2. f \in Injection(1..Len(script), 1..MaxRuns + 1)
  <2>1. \A i \in 1..Len(script) : script[i].by \in 1..MaxRuns + 1
    <3>1. \A i \in 1..Len(script) : script[i].by \in Run \cup {Earlier}
      BY <1>1, LineTypes
    <3> QED
      BY <3>1, Constants DEF Run, Earlier
  <2>2. f \in [1..Len(script) -> 1..MaxRuns + 1]
    BY <2>1
  <2>3. \A i, j \in 1..Len(script) : f[i] = f[j] => i = j
    BY <1>1 DEF ScriptInv
  <2> QED
    BY <2>2, <2>3 DEF Injection, IsInjective
<1>3. IsFiniteSet(1..MaxRuns + 1) /\ Cardinality(1..MaxRuns + 1) = MaxRuns + 1
  BY Constants, FS_Interval
<1>4. Cardinality(1..Len(script)) <= Cardinality(1..MaxRuns + 1)
  BY <1>2, <1>3, FS_Injection
<1>5. Cardinality(1..Len(script)) = Len(script)
  BY <1>1, FS_Interval
<1> QED
  BY <1>1, <1>3, <1>4, <1>5, Constants

LEMMA InitInv == Init => Inv /\ trouble \in Nat
<1> SUFFICES ASSUME Init PROVE Inv /\ trouble \in Nat
  OBVIOUS
<1> USE Constants, ChatAssumption
<1>1. CallTypes
  BY DEF Init, CallTypes, ChatAssumption, NoBase, NoRun, Author
<1>2. ActiveType /\ RotationTypes
  BY DEF Init, ActiveType, RotationTypes
<1>6. trouble \in Nat
  BY DEF Init, ChatAssumption
<1>7. TableTypes
  BY DEF Init, TableTypes, Author
<1>3. GatewayTypes
  BY DEF Init, GatewayTypes
<1>4. KeyInv /\ RotationInv /\ EventInv /\ ScriptInv
  BY DEF Init, KeyInv, RotationInv, EventInv, ScriptInv
<1>5. ASSUME NEW c \in Call PROVE Own(c)
  BY DEF Init, Own, OwnRun, OwnWaiter, OwnListing, OwnText
<1> QED
  BY <1>1, <1>2, <1>3, <1>4, <1>5, <1>6, <1>7 DEF Inv, Types

-----------------------------------------------------------------------------
(* Runs and their keys.                                                     *)

(* A step may give keys to runs that have none.                             *)
KeysStay == \A r \in Run : key[r] # NoKey => key'[r] = key[r]

LEMMA KeysDiffer == Rotation # NoKey /\ \A k \in Key : k # NoKey /\ k # Rotation
<1>1. Len(Rotation) = 1 /\ Len(NoKey) = 0
  BY DEF Rotation, NoKey
<1>2. \A k \in Key : Len(k) = 3
  BY DEF Key
<1> QED
  BY <1>1, <1>2

LEMMA RunsAreOwn ==
    /\ \A m, r : r \in RunsOf(m) => r \in Run /\ r # NoRun /\ key[r] # NoKey /\ key[r] # Rotation
    /\ \A m, n, r : r \in RunsOf(m) /\ r \in RunsOf(n) => m = n
BY Constants DEF RunsOf

LEMMA RunsStay ==
    ASSUME KeysStay, NEW m, NEW r \in RunsOf(m)
    PROVE  r \in RunsOf(m)'
BY DEF RunsOf, KeysStay

(* chat.abort leaves each run alone or stops it before its end.             *)
States == {"none", "queued", "live", "dying", "over"}

LEMMA AbortStops ==
    ASSUME NEW runs, NEW state \in [Run -> States], NEW new \in AfterAbort(runs, state)
    PROVE  /\ new \in [Run -> States]
           /\ \A r \in Run : new[r] = state[r] \/ (state[r] \in {"queued", "live"} /\ new[r] = "dying")
BY DEF AfterAbort, States

(* The runner's own steps: nothing but aborts and reset sessions.           *)
GatewayRests ==
    /\ UNCHANGED <<key, sent, script>>
    /\ gw' \in [Run -> States]
    /\ \A r \in Run : gw'[r] = gw[r] \/ (gw[r] \in {"queued", "live"} /\ gw'[r] = "dying")
    /\ file' \in file..MaxRuns
    /\ events' \in [Run -> Seq(EventKind)]
    /\ \A r \in Run : events'[r] \in {events[r], <<>>}

LEMMA Rests ==
    ASSUME Inv, GatewayRests
    PROVE  KeysStay /\ KeyInv' /\ EventInv' /\ ScriptInv'
<1>1. KeysStay
  BY DEF GatewayRests, KeysStay
<1>2. KeyInv'
  BY DEF GatewayRests, Inv, KeyInv
<1>3. ASSUME NEW r \in Run
      PROVE  /\ Len(events'[r]) <= MaxEvents
             /\ gw'[r] # "over" => Len(events'[r]) <= sent'[r] /\ sent'[r] < MaxEvents
  <2>1. Len(events'[r]) = Len(events[r]) \/ Len(events'[r]) = 0
    BY DEF GatewayRests
  <2>2. sent'[r] = sent[r] /\ sent[r] \in Nat /\ Len(events[r]) \in Nat
    BY Constants DEF GatewayRests, Inv, Types, GatewayTypes, TableTypes
  <2>3. gw'[r] # "over" => gw[r] # "over"
    BY DEF GatewayRests
  <2> QED
    BY <2>1, <2>2, <2>3, Constants DEF Inv, EventInv
<1>4. ScriptInv'
  BY DEF GatewayRests, Inv, ScriptInv
<1> QED
  BY <1>1, <1>2, <1>3, <1>4 DEF EventInv

-----------------------------------------------------------------------------
(* Who is concerned by a step of a call.                                    *)

SameCall(d) ==
    /\ msg'[d] = msg[d] /\ pc'[d] = pc[d] /\ run'[d] = run[d] /\ base'[d] = base[d]
    /\ author'[d] = author[d] /\ result'[d] = result[d] /\ taken'[d] = taken[d]

(* A step for call c: it touches the entries of c's message only.           *)
ActsFor(c) ==
    /\ msg' = msg /\ KeysStay /\ file' \in file..MaxRuns
    /\ \A d \in Call \ {c} : SameCall(d)
    /\ \A r \in Run : /\ waiter'[r] \in {waiter[r], Nobody, c}
                      /\ r \notin RunsOf(msg[c])' => waiter'[r] = waiter[r] /\ (r \in listed' <=> r \in listed)
    /\ \A e \in Call \cup {Rotator} :
         /\ e \in timer' => e \in timer \cup {c}
         /\ e \in timer => e \in timer' \/ e = c \/ (e \in Call /\ msg[e] = msg[c])
    /\ \A m \in Message \ {msg[c]} : active'[m] = active[m]
    /\ UNCHANGED <<rot, rotRun>> /\ taken'[Rotator] = taken[Rotator]

LEMMA Bystanders ==
    ASSUME Inv, NEW c \in Call, ActsFor(c), NEW d \in Call, d # c
    PROVE  Own(d)'
<1>1. SameCall(d) /\ msg' = msg /\ KeysStay
  BY DEF ActsFor
<1>2. OwnRun(d)'
  BY <1>1, RunsStay DEF SameCall, Inv, Own, OwnRun
<1>3. OwnText(d)'
  <2>1. base[d].in \in Nat /\ file \in Nat /\ file' \in Nat /\ file' >= file
    BY DEF ActsFor, Inv, Types, CallTypes, GatewayTypes
  <2>2. OwnText(d)
    BY DEF Inv, Own
  <2> QED
    BY <1>1, <2>1, <2>2, RunsStay DEF SameCall, OwnText
<1>4. Repeated(d)' <=> Repeated(d)
  BY <1>1 DEF Repeated
<1>5. ASSUME ~Repeated(d), pc[d] \in {"started", "waiting"}
      PROVE  /\ run[d] \in Run /\ msg[d] \in Message /\ msg[d] # msg[c]
             /\ run[d] \notin RunsOf(msg[c])'
  <2>1. run[d] \in RunsOf(msg[d]) /\ msg[d] # Nobody
    BY <1>5 DEF Inv, Own, OwnRun
  <2>2. run[d] \in RunsOf(msg[d])'
    BY <1>1, <2>1, RunsStay
  <2>3. msg[d] # msg[c]
    BY <1>5 DEF Repeated
  <2> QED
    BY <2>1, <2>2, <2>3, <1>1, RunsAreOwn DEF Inv, Types, CallTypes, RunsOf
<1>6. OwnWaiter(d)'
  <2>1. OwnWaiter(d)
    BY DEF Inv, Own
  <2>2. d \in timer' => d \in timer
    BY DEF ActsFor
  <2>3. \A r \in Run : waiter'[r] = d => waiter[r] = d
    BY Constants DEF ActsFor
  <2>4. pc[d] = "waiting" /\ ~Repeated(d) => waiter'[run[d]] = waiter[run[d]]
    BY <1>5 DEF ActsFor
  <2>5. ~Repeated(d) /\ d \in timer => d \in timer'
    BY DEF ActsFor, Repeated
  <2> QED
    BY <1>1, <1>4, <2>1, <2>2, <2>3, <2>4, <2>5 DEF SameCall, OwnWaiter
<1>7. OwnListing(d)'
  BY <1>1, <1>4, <1>5 DEF ActsFor, SameCall, Inv, Own, OwnListing
<1> QED
  BY <1>2, <1>3, <1>6, <1>7 DEF Own

LEMMA RotationUnconcerned ==
    ASSUME Inv, NEW c \in Call, ActsFor(c)
    PROVE  RotationInv'
<1>1. \A r \in Run : key[r] = Rotation => key'[r] = Rotation /\ r \notin RunsOf(msg[c])'
  BY KeysDiffer DEF ActsFor, KeysStay, RunsOf
<1>2. \A r \in Run : waiter[r] = Rotator => key[r] = Rotation
  BY Constants DEF Inv, RotationInv, Types, RotationTypes
<1>3. taken'[Rotator] = taken[Rotator] /\ rotRun' = rotRun /\ rot' = rot
  BY DEF ActsFor
<1>4. taken[Rotator] \in Run \cup {NoRun} /\ rotRun \in Run \cup {NoRun}
  BY DEF Inv, Types, RotationTypes, GatewayTypes
<1>5. \A r \in Run : waiter'[r] = Rotator => waiter[r] = Rotator
  BY Constants DEF ActsFor
<1>6. \A r \in Run : waiter[r] = Rotator => waiter'[r] = Rotator
  BY <1>1, <1>2 DEF ActsFor
<1>7. Rotator \in timer' => Rotator \in timer
  BY Constants DEF ActsFor
<1>8. RotationInv
  BY DEF Inv
<1>9. (taken[Rotator] # NoRun => key[taken[Rotator]] = Rotation)'
  BY <1>1, <1>3, <1>4, <1>8 DEF RotationInv
<1>10. (rotRun # NoRun => key[rotRun] = Rotation)'
  BY <1>1, <1>3, <1>4, <1>8 DEF RotationInv
<1>11. (\A r \in Run : waiter[r] = Rotator => r = rotRun /\ rot = "waiting")'
  BY <1>3, <1>5, <1>8 DEF RotationInv
<1>12. (Rotator \in timer => rotRun # NoRun /\ waiter[rotRun] = Rotator /\ rot = "waiting")'
  BY <1>3, <1>4, <1>6, <1>7, <1>8 DEF RotationInv
<1> QED
  BY <1>9, <1>10, <1>11, <1>12 DEF RotationInv

-----------------------------------------------------------------------------
(* What a call does to itself.                                              *)

OthersStay(c) ==
    /\ msg' = msg
    /\ \A d \in Call \ {c} : /\ pc'[d] = pc[d] /\ run'[d] = run[d] /\ base'[d] = base[d]
                            /\ author'[d] = author[d] /\ result'[d] = result[d]
    /\ \A m \in Message \ {msg[c]} : active'[m] = active[m]

LEMMA ReturnsDoes ==
    ASSUME CallTypes, ActiveType, NEW c \in Call, msg[c] \in Message,
           NEW outcome \in {"none", "reply", "error", "no_reply"}, NEW by \in Author,
           Returns(c, outcome, by)
    PROVE  /\ CallTypes' /\ ActiveType' /\ OthersStay(c)
           /\ pc'[c] = "done" /\ run'[c] = NoRun /\ result'[c] = outcome /\ author'[c] = by
<1>1. CallTypes'
  BY Constants DEF Returns, CallTypes, NoBase
<1>2. ActiveType'
  BY DEF Returns, ActiveType
<1>3. OthersStay(c)
  BY DEF Returns, CallTypes, ActiveType, OthersStay
<1>4. pc'[c] = "done" /\ run'[c] = NoRun /\ result'[c] = outcome /\ author'[c] = by
  BY DEF Returns, CallTypes
<1> QED
  BY <1>1, <1>2, <1>3, <1>4

LEMMA BackoffDoes ==
    ASSUME CallTypes, ActiveType, NEW c \in Call, NEW reason, attempt[c] < ConflictAttempts,
           Backoff(c, reason)
    PROVE  /\ CallTypes' /\ ActiveType' /\ OthersStay(c)
           /\ pc'[c] = "ready" /\ run'[c] = run[c] /\ base'[c] = base[c]
           /\ result'[c] = result[c] /\ author'[c] = author[c]
<1>1. CallTypes'
  BY Constants DEF Backoff, CallTypes
<1>2. ActiveType'
  BY DEF Backoff, ActiveType
<1>3. OthersStay(c)
  BY DEF Backoff, CallTypes, OthersStay
<1>4. pc'[c] = "ready" /\ run'[c] = run[c] /\ base'[c] = base[c] /\ result'[c] = result[c] /\ author'[c] = author[c]
  BY DEF Backoff, CallTypes
<1> QED
  BY <1>1, <1>2, <1>3, <1>4

(* The transcript: what is found after the baseline is the message's own.   *)
LEMMA LatestLine ==
    ASSUME Types, NEW c \in Call, NEW f, NEW lines,
           Latest(c, f, lines) # NoRun
    PROVE  \E i \in DOMAIN script :
             /\ script[i].in = f /\ i > lines
             /\ script[i].by \in RunsOf(msg[c]) \cup {Earlier}
             /\ Latest(c, f, lines) = script[i].by
<1> DEFINE own == {i \in DOMAIN script : /\ script[i].in = f /\ i > lines
                                         /\ script[i].by \in RunsOf(msg[c]) \cup {Earlier}}
           last == CHOOSE i \in own : \A j \in own : j <= i
<1>1. own # {}
  BY DEF Latest
<1>2. DOMAIN script = 1..Len(script) /\ Len(script) \in Nat
  BY DEF Types, GatewayTypes
<1>3. own \in SUBSET Int /\ IsFiniteSet(own)
  <2>1. own \subseteq 1..Len(script)
    BY <1>2
  <2>2. IsFiniteSet(1..Len(script))
    BY <1>2, FS_Interval
  <2> HIDE DEF own
  <2>3. IsFiniteSet(own)
    BY <2>1, <2>2, FS_Subset
  <2> QED
    BY <1>2, <2>1, <2>3
<1>4. last \in own
  BY <1>1, <1>3, Extremes
<1>5. Latest(c, f, lines) = IF script[last].said THEN script[last].by ELSE NoRun
  BY <1>1 DEF Latest
<1> QED
  BY <1>4, <1>5

LEMMA ReadIsOwn ==
    ASSUME Types, ScriptInv, NEW c \in Call, OwnText(c), Read(c) # NoRun
    PROVE  /\ Read(c) \in Author
           /\ Backed /\ pc[c] \notin {"idle", "done"} => Read(c) \in RunsOf(msg[c])
<1>1. PICK i \in DOMAIN script :
        /\ Read(c) = script[i].by /\ script[i].by \in RunsOf(msg[c]) \cup {Earlier}
        /\ Backed => \/ i > base[c].lines
                     \/ script[i].in = file /\ file # base[c].in
  <2>1. \/ Read(c) = Latest(c, base[c].in, base[c].lines)
        \/ Read(c) = Latest(c, file, 0) /\ (Backed => file # base[c].in)
    BY DEF Read
  <2>2. CASE Read(c) = Latest(c, base[c].in, base[c].lines)
    <3> QED
      BY <2>2, LatestLine
  <2>3. CASE Read(c) = Latest(c, file, 0) /\ (Backed => file # base[c].in)
    <3> QED
      BY <2>3, LatestLine
  <2> QED
    BY <2>1, <2>2, <2>3
<1>2. Read(c) \in Author
  BY <1>1, LineTypes DEF Author
<1>3. ASSUME Backed, pc[c] \notin {"idle", "done"} PROVE i # 1
  <2>1. script[1].in = 0 /\ base[c].lines >= 1 /\ base[c].in \in Nat /\ base[c].in <= file /\ file \in Nat
    BY <1>3 DEF ScriptInv, OwnText, Types, CallTypes, GatewayTypes
  <2> QED
    BY <1>1, <1>3, <2>1 DEF Types, CallTypes
<1>4. i # 1 => script[i].by # Earlier
  BY Constants DEF ScriptInv
<1> QED
  BY <1>1, <1>2, <1>3, <1>4

(* A call that goes on to another attempt, to the end of its run or to its  *)
(* own end.                                                                 *)
MovesOn(c) ==
    /\ pc'[c] \in {"done", "ready", "recovering", "releasing"}
    /\ run'[c] \in {run[c], NoRun}
    /\ pc'[c] \in {"recovering", "releasing"} => run'[c] = run[c]
    /\ pc'[c] # "done" => base'[c] = base[c]
    /\ Backed /\ (pc'[c] = "releasing" \/ result'[c] = "reply") => author'[c] \in RunsOf(msg[c])

(* It leaves nothing in the table.                                          *)
Unlisted(c) == c \notin timer' /\ \A r \in Run : waiter'[r] # c

LEMMA MovedOn ==
    ASSUME Inv, NEW c \in Call, OthersStay(c), MovesOn(c), Unlisted(c), KeysStay,
           pc[c] \notin {"idle", "done"}, pc'[c] \in {"recovering", "releasing"} => run[c] # NoRun,
           file' \in file..MaxRuns, taken'[c] \in {NoRun, taken[c]}
    PROVE  Own(c)'
<1> msg' = msg
  BY DEF OthersStay
<1>0. Own(c)
  BY DEF Inv
<1>1. OwnRun(c)'
  <2>1. run'[c] # NoRun => run'[c] \in RunsOf(msg[c])'
    BY <1>0, RunsStay DEF Own, OwnRun, MovesOn
  <2>2. taken'[c] # NoRun => taken'[c] \in RunsOf(msg[c])'
    BY <1>0, RunsStay DEF Own, OwnRun
  <2> QED
    BY <1>0, <2>1, <2>2 DEF Own, OwnRun, MovesOn
<1>2. OwnWaiter(c)'
  BY DEF OwnWaiter, Unlisted, MovesOn
<1>3. OwnListing(c)'
  BY DEF OwnListing, MovesOn
<1>4. OwnText(c)'
  <2>1. base[c].lines >= 1 /\ base[c].in <= file /\ file \in Nat /\ base[c].in \in Nat
    BY <1>0 DEF Own, OwnText, Inv, Types, CallTypes, GatewayTypes
  <2>2. Backed /\ (pc'[c] = "releasing" \/ result'[c] = "reply") => author'[c] \in RunsOf(msg[c])'
    BY RunsStay DEF MovesOn
  <2> QED
    BY <2>1, <2>2 DEF OwnText, MovesOn
<1> QED
  BY <1>1, <1>2, <1>3, <1>4 DEF Own

LEMMA ReturnMoves ==
    ASSUME Inv, NEW c \in Call, pc[c] # "idle",
           NEW outcome \in {"none", "reply", "error", "no_reply"}, NEW by \in Author,
           Backed /\ outcome = "reply" => by \in RunsOf(msg[c]),
           Returns(c, outcome, by)
    PROVE  CallTypes' /\ ActiveType' /\ OthersStay(c) /\ MovesOn(c) /\ pc'[c] = "done"
<1>1. msg[c] \in Message /\ CallTypes /\ ActiveType
  BY DEF Inv, Own, OwnRun, Types, CallTypes
<1> QED
  BY <1>1, ReturnsDoes DEF MovesOn

LEMMA BackoffMoves ==
    ASSUME Inv, NEW c \in Call, NEW reason, attempt[c] < ConflictAttempts, Backoff(c, reason)
    PROVE  CallTypes' /\ ActiveType' /\ OthersStay(c) /\ MovesOn(c) /\ pc'[c] = "ready"
<1>1. CallTypes /\ ActiveType /\ OwnText(c)
  BY DEF Inv, Own, Types
<1> QED
  BY <1>1, BackoffDoes DEF MovesOn, OwnText

(* The table after takeWaiter(): whoever waited for the run is of the same  *)
(* message.                                                                 *)
LEMMA TakeawayDoes ==
    ASSUME Inv, NEW c \in Call, run[c] # NoRun, Takeaway(run[c], c)
    PROVE  /\ cand' \in [Call -> Author] /\ timer' \subseteq Call \cup {Rotator}
           /\ waiter' \in [Run -> Call \cup {Rotator, Nobody}]
           /\ Unlisted(c)
           /\ \A r \in Run : waiter'[r] \in {waiter[r], Nobody} /\ (r # run[c] => waiter'[r] = waiter[r])
           /\ \A e \in Call \cup {Rotator} :
                /\ e \in timer' => e \in timer
                /\ e \in timer => e \in timer' \/ e = c \/ (e \in Call /\ msg[e] = msg[c])
<1> DEFINE r == run[c]
<1>1. r \in Run /\ r \in RunsOf(msg[c]) /\ TableTypes /\ CallTypes
  BY DEF Inv, Own, OwnRun, Types, CallTypes
<1>2. ASSUME NEW e \in Call, waiter[r] = e PROVE msg[e] = msg[c]
  <2>1. run[e] = r
    BY <1>1, <1>2 DEF Inv, Own, OwnWaiter
  <2>2. r \in RunsOf(msg[e])
    BY <2>1, <1>1, RunsAreOwn DEF Inv, Own, OwnRun
  <2> QED
    BY <1>1, <2>2, RunsAreOwn
<1>3. waiter[r] # Rotator
  BY <1>1, RunsAreOwn DEF Inv, RotationInv
<1>4. cand' \in [Call -> Author] /\ timer' = timer \ {waiter[r], c} /\ waiter' = [waiter EXCEPT ![r] = Nobody]
  BY <1>1 DEF Takeaway, TableTypes, Author
<1>5. \A q \in Run : waiter[q] = c => q = r
  BY DEF Inv, Own, OwnWaiter
<1> QED
  BY <1>1, <1>2, <1>3, <1>4, <1>5, Constants DEF TableTypes, Unlisted

LEMMA CallInv ==
    ASSUME Inv, NEW c \in Call, Types', KeyInv', EventInv', ScriptInv', ActsFor(c), Own(c)'
    PROVE  Inv'
<1>1. \A d \in Call : Own(d)'
  BY Bystanders
<1> QED
  BY <1>1, RotationUnconcerned DEF Inv

(* A step with which a call moves on, by itself or taken out of the table.  *)
LEMMA MovesOnInv ==
    ASSUME Inv, NEW c \in Call, OthersStay(c), MovesOn(c), CallTypes', ActiveType',
           pc[c] \notin {"idle", "done"}, pc'[c] \in {"recovering", "releasing"} => run[c] # NoRun,
           \/ run[c] # NoRun /\ Takeaway(run[c], c)
           \/ pc[c] # "waiting" /\ UNCHANGED <<cand, timer, waiter>>,
           listed' = listed \/ (run[c] # NoRun /\ listed' = listed \ {run[c]}),
           UNCHANGED <<rotVars>>, taken' = taken \/ taken' = [taken EXCEPT ![c] = NoRun],
           events' \in [Run -> Seq(EventKind)], GatewayTypes',
           KeysStay, KeyInv', EventInv', ScriptInv', file' >= file
    PROVE  Inv'
<1>1. Own(c) /\ TableTypes /\ GatewayTypes
  BY DEF Inv, Types
<1>2. run[c] # NoRun => run[c] \in RunsOf(msg[c])' /\ run[c] \in Run
  BY <1>1, RunsStay DEF Own, OwnRun, RunsOf, OthersStay
<1>3. file' \in file..MaxRuns
  BY <1>1 DEF GatewayTypes
<1>4. /\ cand' \in [Call -> Author] /\ timer' \subseteq Call \cup {Rotator}
      /\ waiter' \in [Run -> Call \cup {Rotator, Nobody}]
      /\ Unlisted(c)
      /\ \A r \in Run : waiter'[r] \in {waiter[r], Nobody} /\ (r # run[c] => waiter'[r] = waiter[r])
      /\ waiter' = waiter \/ run[c] # NoRun
      /\ \A e \in Call \cup {Rotator} :
           /\ e \in timer' => e \in timer
           /\ e \in timer => e \in timer' \/ e = c \/ (e \in Call /\ msg[e] = msg[c])
  <2>1. CASE run[c] # NoRun /\ Takeaway(run[c], c)
    BY <2>1, TakeawayDoes
  <2>2. CASE pc[c] # "waiting" /\ UNCHANGED <<cand, timer, waiter>>
    BY <2>2, <1>1 DEF Unlisted, Own, OwnWaiter, TableTypes
  <2> QED
    BY <2>1, <2>2
<1>5. \A d \in Call \ {c} : SameCall(d)
  BY <1>1 DEF OthersStay, SameCall, GatewayTypes
<1>6. \A r \in Run : r \notin RunsOf(msg[c])' => waiter'[r] = waiter[r] /\ (r \in listed' <=> r \in listed)
  BY <1>2, <1>4
<1>7. taken'[Rotator] = taken[Rotator] /\ taken'[c] \in {NoRun, taken[c]} /\ UNCHANGED <<rot, rotRun>>
  BY <1>1, Constants DEF GatewayTypes, rotVars
<1>8. ActsFor(c)
  BY <1>3, <1>4, <1>5, <1>6, <1>7 DEF ActsFor, OthersStay
<1>9. Own(c)'
  BY <1>3, <1>4, <1>7, MovedOn
<1>10. Types'
  BY <1>4, <1>1 DEF Inv, Types, TableTypes, RotationTypes, rotVars
<1> QED
  BY <1>8, <1>9, <1>10, CallInv

LEMMA RestTypes ==
    ASSUME Inv, GatewayRests, taken' \in [Call \cup {Rotator} -> Run \cup {NoRun}]
    PROVE  GatewayTypes'
BY DEF Inv, Types, GatewayTypes, GatewayRests, States

LEMMA Resting ==
    ASSUME Inv, NEW c, UNCHANGED <<key, sent, script>>,
           gw' = gw \/ \E S : gw' \in AfterAbort(S, gw),
           file' = file \/ file' \in ResetTo(c),
           events' = events \/ \E r \in Run : events' = Consumed(r),
           taken' = taken \/ \E d \in Call : taken' = [taken EXCEPT ![d] = NoRun]
    PROVE  /\ KeysStay /\ KeyInv' /\ EventInv' /\ ScriptInv' /\ file' >= file
           /\ GatewayTypes' /\ events' \in [Run -> Seq(EventKind)]
<1>1. gw \in [Run -> States] /\ file \in 0..MaxRuns /\ events \in [Run -> Seq(EventKind)]
  BY DEF Inv, Types, GatewayTypes, TableTypes, States
<1>2. gw' \in [Run -> States] /\ \A r \in Run : gw'[r] = gw[r] \/ (gw[r] \in {"queued", "live"} /\ gw'[r] = "dying")
  BY <1>1, AbortStops
<1>3. file' \in file..MaxRuns
  <2>1. file' = file \/ (file < MaxRuns /\ file' = file + 1)
    BY DEF ResetTo
  <2> QED
    BY <1>1, <2>1, Constants
<1>4. events' \in [Run -> Seq(EventKind)] /\ \A r \in Run : events'[r] \in {events[r], <<>>}
  <2>1. CASE events' = events
    BY <1>1, <2>1
  <2>2. ASSUME NEW r \in Run, events' = Consumed(r)
        PROVE  events' \in [Run -> Seq(EventKind)] /\ \A q \in Run : events'[q] \in {events[q], <<>>}
    <3>1. <<>> \in Seq(EventKind)
      OBVIOUS
    <3> QED
      BY <1>1, <2>2, <3>1 DEF Consumed
  <2> QED
    BY <2>1, <2>2
<1>5. GatewayRests
  BY <1>2, <1>3, <1>4 DEF GatewayRests
<1>6. taken' \in [Call \cup {Rotator} -> Run \cup {NoRun}]
  BY DEF Inv, Types, GatewayTypes
<1>7. file' >= file
  BY <1>1, <1>3
<1>8. KeysStay /\ KeyInv' /\ EventInv' /\ ScriptInv'
  BY <1>5, Rests
<1>9. GatewayTypes'
  BY <1>5, <1>6, RestTypes
<1> QED
  BY <1>4, <1>7, <1>8, <1>9

-----------------------------------------------------------------------------
(* The steps of a call.                                                     *)

LEMMA GivesUpKeeps ==
    ASSUME Inv, NEW c \in Call, GivesUp(c)
    PROVE  Inv'
<1>1. pc[c] = "ready" /\ Returns(c, "error", NoRun)
  BY DEF GivesUp
<1>2. CallTypes' /\ ActiveType' /\ OthersStay(c) /\ MovesOn(c) /\ pc'[c] = "done"
  BY <1>1, ReturnMoves DEF Author
<1>3. /\ KeysStay /\ KeyInv' /\ EventInv' /\ ScriptInv' /\ file' >= file
      /\ GatewayTypes' /\ events' \in [Run -> Seq(EventKind)]
  BY Resting DEF GivesUp, gwVars
<1> QED
  BY <1>1, <1>2, <1>3, MovesOnInv DEF GivesUp, gwVars

LEMMA SendFailsKeeps ==
    ASSUME Inv, NEW c \in Call, SendFails(c)
    PROVE  Inv'
<1>1. pc[c] \in {"sending", "started"} /\ Returns(c, "error", NoRun)
  BY DEF SendFails
<1>2. CallTypes' /\ ActiveType' /\ OthersStay(c) /\ MovesOn(c) /\ pc'[c] = "done"
  BY <1>1, ReturnMoves DEF Author
<1>3. /\ KeysStay /\ KeyInv' /\ EventInv' /\ ScriptInv' /\ file' >= file
      /\ GatewayTypes' /\ events' \in [Run -> Seq(EventKind)]
  BY Resting DEF SendFails
<1> QED
  BY <1>1, <1>2, <1>3, MovesOnInv DEF SendFails

LEMMA ReleasedKeeps ==
    ASSUME Inv, NEW c \in Call, Released(c)
    PROVE  Inv'
<1>1. pc[c] = "releasing" /\ Returns(c, "reply", author[c])
  BY DEF Released
<1>2. author[c] \in Author /\ (Backed => author[c] \in RunsOf(msg[c]))
  BY <1>1 DEF Inv, Own, OwnText, Types, CallTypes
<1>3. CallTypes' /\ ActiveType' /\ OthersStay(c) /\ MovesOn(c) /\ pc'[c] = "done"
  BY <1>1, <1>2, ReturnMoves
<1>4. /\ KeysStay /\ KeyInv' /\ EventInv' /\ ScriptInv' /\ file' >= file
      /\ GatewayTypes' /\ events' \in [Run -> Seq(EventKind)]
  BY Resting DEF Released
<1> QED
  BY <1>1, <1>3, <1>4, MovesOnInv DEF Released

LEMMA RecoversKeeps ==
    ASSUME Inv, NEW c \in Call, Recovers(c)
    PROVE  Inv'
<1>1. pc[c] = "recovering" /\ Types /\ ScriptInv /\ OwnText(c)
  BY DEF Recovers, Inv, Own
<1>2. CallTypes' /\ ActiveType' /\ OthersStay(c) /\ MovesOn(c) /\ pc'[c] = "done"
  <2>1. CASE Read(c) # NoRun /\ Returns(c, "reply", Read(c))
    BY <1>1, <2>1, ReadIsOwn, ReturnMoves
  <2>2. CASE Returns(c, "error", NoRun)
    BY <1>1, <2>2, ReturnMoves DEF Author
  <2> QED
    BY <2>1, <2>2 DEF Recovers
<1>3. /\ KeysStay /\ KeyInv' /\ EventInv' /\ ScriptInv' /\ file' >= file
      /\ GatewayTypes' /\ events' \in [Run -> Seq(EventKind)]
  BY Resting DEF Recovers, gwVars
<1> QED
  BY <1>1, <1>2, <1>3, MovesOnInv DEF Recovers, gwVars

(* The three ways out of the table by a timer or a poll.                    *)
LEMMA FoundDoes ==
    ASSUME Inv, NEW c \in Call, pc[c] = "waiting", Read(c) # NoRun, FoundInTranscript(c)
    PROVE  /\ CallTypes' /\ ActiveType' /\ OthersStay(c) /\ MovesOn(c) /\ pc'[c] = "releasing"
           /\ listed' = listed \ {run[c]} /\ UNCHANGED <<rotVars, gwVars>>
<1>1. Types /\ CallTypes /\ ActiveType /\ ScriptInv /\ OwnText(c)
  BY DEF Inv, Own, Types
<1>2. Read(c) \in Author /\ (Backed => Read(c) \in RunsOf(msg[c]))
  BY <1>1, ReadIsOwn
<1>3. CallTypes' /\ ActiveType'
  BY <1>1, <1>2 DEF FoundInTranscript, CallTypes, ActiveType
<1>4. pc'[c] = "releasing" /\ author'[c] = Read(c) /\ result'[c] = result[c] /\ base' = base /\ run' = run
  BY <1>1 DEF FoundInTranscript, CallTypes
<1>5. OthersStay(c)
  BY <1>1 DEF FoundInTranscript, CallTypes, OthersStay
<1> QED
  BY <1>2, <1>3, <1>4, <1>5 DEF MovesOn, FoundInTranscript, Completed

LEMMA PollSettlesKeeps ==
    ASSUME Inv, NEW c \in Call, PollSettles(c)
    PROVE  Inv'
<1>1. pc[c] = "waiting" /\ Read(c) # NoRun /\ Takeaway(run[c], c) /\ events' = Consumed(run[c]) /\ FoundInTranscript(c)
  BY DEF PollSettles
<1>2. /\ CallTypes' /\ ActiveType' /\ OthersStay(c) /\ MovesOn(c) /\ pc'[c] = "releasing"
      /\ listed' = listed \ {run[c]} /\ UNCHANGED <<rotVars, gwVars>>
  BY <1>1, FoundDoes
<1>3. run[c] # NoRun /\ run[c] \in Run
  BY <1>1, RunsAreOwn DEF Inv, Own, OwnRun
<1>4. /\ KeysStay /\ KeyInv' /\ EventInv' /\ ScriptInv' /\ file' >= file
      /\ GatewayTypes' /\ events' \in [Run -> Seq(EventKind)]
  BY <1>1, <1>2, <1>3, Resting DEF gwVars
<1> QED
  BY <1>1, <1>2, <1>3, <1>4, MovesOnInv DEF gwVars

LEMMA TimesOutKeeps ==
    ASSUME Inv, NEW c \in Call, TimesOut(c) \/ TimeoutRetries(c)
    PROVE  Inv'
<1>1. c \in timer /\ Takeaway(run[c], c) /\ events' = Consumed(run[c])
  BY DEF TimesOut, TimeoutRetries, TimerTakes
<1>2. pc[c] = "waiting" /\ run[c] # NoRun /\ run[c] \in Run
  BY <1>1, RunsAreOwn DEF Inv, Own, OwnRun, OwnWaiter
<1>3. /\ CallTypes' /\ ActiveType' /\ OthersStay(c) /\ MovesOn(c)
      /\ listed' \in {listed, listed \ {run[c]}} /\ UNCHANGED <<rotVars, taken, key, sent, script, file>>
      /\ gw' = gw \/ gw' \in AfterAbort({run[c]}, gw)
  <2>1. CASE Read(c) # NoRun /\ FoundInTranscript(c)
    BY <1>2, <2>1, FoundDoes DEF gwVars
  <2>2. CASE /\ Completed(run[c]) /\ Returns(c, IF msg[c] \in Slash THEN "no_reply" ELSE "error", NoRun)
             /\ gw' \in AfterAbort({run[c]}, gw) /\ UNCHANGED <<rotVars, taken, key, sent, script, file>>
    BY <1>2, <2>2, ReturnMoves DEF Author, Completed
  <2>3. CASE TimeoutRetries(c)
    <3>1. attempt[c] < ConflictAttempts
      BY <2>3, Constants DEF TimeoutRetries, Inv, Types, CallTypes
    <3> QED
      BY <2>3, <3>1, BackoffMoves DEF TimeoutRetries
  <2> QED
    BY <2>1, <2>2, <2>3 DEF TimesOut
<1>4. /\ KeysStay /\ KeyInv' /\ EventInv' /\ ScriptInv' /\ file' >= file
      /\ GatewayTypes' /\ events' \in [Run -> Seq(EventKind)]
  BY <1>1, <1>2, <1>3, Resting
<1> QED
  BY <1>1, <1>2, <1>3, <1>4, MovesOnInv

LEMMA SendRetriesKeeps ==
    ASSUME Inv, NEW c \in Call, NEW reason, SendRetries(c, reason)
    PROVE  Inv'
<1>1. pc[c] \in {"sending", "started"} /\ CallTypes /\ ActiveType /\ Own(c)
  BY DEF SendRetries, Inv, Types
<1>2. /\ CallTypes' /\ ActiveType' /\ OthersStay(c) /\ MovesOn(c) /\ pc'[c] = "ready"
      /\ gw' = gw \/ gw' \in AfterAbort(Session, gw)
      /\ file' = file \/ file' \in ResetTo(c)
  <2>1. CASE reason = "invalid" /\ fallback[c]
    <3>1. /\ pc' = [pc EXCEPT ![c] = "ready"] /\ fallback' = [fallback EXCEPT ![c] = FALSE]
          /\ UNCHANGED <<msg, attempt, suffix, run, base, result, author, active, gw, file>>
      BY <2>1 DEF SendRetries
    <3>2. CallTypes' /\ ActiveType'
      BY <1>1, <3>1 DEF CallTypes, ActiveType
    <3> QED
      BY <1>1, <3>1, <3>2 DEF OthersStay, MovesOn, CallTypes, Own, OwnText
  <2>2. CASE ~(reason = "invalid" /\ fallback[c])
    <3>1. attempt[c] < Limit(reason) /\ Backoff(c, reason)
      BY <2>2 DEF SendRetries
    <3>2. attempt[c] < ConflictAttempts
      BY <1>1, <3>1, Constants DEF Limit, CallTypes
    <3>3. CallTypes' /\ ActiveType' /\ OthersStay(c) /\ MovesOn(c) /\ pc'[c] = "ready"
      BY <3>1, <3>2, BackoffMoves
    <3> QED
      BY <2>2, <3>3 DEF SendRetries
  <2> QED
    BY <2>1, <2>2
<1>3. UNCHANGED <<cand, timer, waiter, events, listed, rotVars, key, sent, script>> /\ taken' = [taken EXCEPT ![c] = NoRun]
  BY DEF SendRetries
<1>4. /\ KeysStay /\ KeyInv' /\ EventInv' /\ ScriptInv' /\ file' >= file
      /\ GatewayTypes' /\ events' \in [Run -> Seq(EventKind)]
  BY <1>2, <1>3, Resting
<1> QED
  BY <1>1, <1>2, <1>3, <1>4, MovesOnInv

(* A wait that settles with an event, which is not an empty final without a *)
(* text before it.                                                          *)
LEMMA SettlesDoes ==
    ASSUME Inv, NEW c \in Call, pc[c] \in {"started", "waiting"},
           NEW kind, NEW seen, kind = "empty" => "text" \in Range(seen),
           NEW state, Settles(c, kind, seen, state)
    PROVE  /\ CallTypes' /\ ActiveType' /\ OthersStay(c) /\ MovesOn(c)
           /\ listed' \in {listed, listed \ {run[c]}}
           /\ gw' = state \/ gw' \in AfterAbort(Session, state)
           /\ file' = file \/ file' \in ResetTo(c)
<1>1. CallTypes /\ ActiveType /\ Own(c) /\ run[c] # NoRun
  BY DEF Inv, Types, Own, OwnRun
<1>2. run[c] \in Author /\ run[c] \in RunsOf(msg[c])
  BY <1>1 DEF Own, OwnRun, CallTypes, Author
<1>3. CASE Completed(run[c]) /\ Returns(c, "reply", run[c]) /\ gw' = state /\ UNCHANGED file
  BY <1>2, <1>3, ReturnMoves DEF Completed
<1>4. CASE Failed(c, kind, state)
  <2>1. CASE /\ attempt[c] < Limit(kind) /\ Backoff(c, kind) /\ UNCHANGED listed
             /\ IF kind = "conflict"
                THEN gw' \in AfterAbort(Session, state) /\ file' \in ResetTo(c)
                ELSE gw' = state /\ UNCHANGED file
    <3>1. attempt[c] < ConflictAttempts
      BY <1>1, <2>1, Constants DEF Limit, CallTypes
    <3>2. CallTypes' /\ ActiveType' /\ OthersStay(c) /\ MovesOn(c)
      BY <2>1, <3>1, BackoffMoves
    <3> QED
      BY <2>1, <3>2
  <2>2. CASE /\ pc' = [pc EXCEPT ![c] = "recovering"] /\ Completed(run[c]) /\ gw' = state
             /\ UNCHANGED <<msg, attempt, suffix, run, fallback, base, result, author, active, file>>
    <3>1. CallTypes' /\ ActiveType'
      BY <1>1, <2>2 DEF CallTypes, ActiveType
    <3>2. OthersStay(c) /\ MovesOn(c)
      BY <1>1, <2>2 DEF OthersStay, MovesOn, CallTypes, Own, OwnText
    <3> QED
      BY <2>2, <3>1, <3>2 DEF Completed
  <2> QED
    BY <1>4, <2>1, <2>2 DEF Failed
<1> QED
  BY <1>3, <1>4 DEF Settles, Replies

LEMMA WaitKeeps ==
    ASSUME Inv, NEW c \in Call, Wait(c)
    PROVE  Inv'
<1> DEFINE r == run[c]
<1>1. pc[c] = "started" /\ Own(c) /\ r # NoRun /\ r \in Run /\ r \in RunsOf(msg[c])
  BY RunsAreOwn DEF Wait, Inv, Own, OwnRun
<1>2. UNCHANGED <<cand, rotVars, taken, key, sent, script>>
  BY DEF Wait
<1>3. CASE Pending(r) # {}
  <2>1. PICK i \in Pending(r) : Settles(c, events[r][i], events[r], gw)
    BY <1>3 DEF Wait
  <2>2. events[r][i] # "empty" /\ events' = Consumed(r) /\ UNCHANGED <<timer, waiter>>
    BY <1>3, <2>1 DEF Wait, Pending
  <2>3. /\ CallTypes' /\ ActiveType' /\ OthersStay(c) /\ MovesOn(c)
        /\ listed' \in {listed, listed \ {run[c]}}
        /\ gw' = gw \/ gw' \in AfterAbort(Session, gw)
        /\ file' = file \/ file' \in ResetTo(c)
    BY <1>1, <2>1, <2>2, SettlesDoes
  <2>4. /\ KeysStay /\ KeyInv' /\ EventInv' /\ ScriptInv' /\ file' >= file
        /\ GatewayTypes' /\ events' \in [Run -> Seq(EventKind)]
    BY <1>1, <1>2, <2>2, <2>3, Resting
  <2> QED
    BY <1>1, <1>2, <2>2, <2>3, <2>4, MovesOnInv
<1>4. CASE Pending(r) = {}
  <2>1. /\ pc' = [pc EXCEPT ![c] = "waiting"] /\ waiter' = [waiter EXCEPT ![r] = c] /\ timer' = timer \cup {c}
        /\ UNCHANGED <<msg, attempt, suffix, run, fallback, base, result, author, events, listed, active, gw, file>>
    BY <1>4 DEF Wait
  <2>2. /\ KeysStay /\ KeyInv' /\ EventInv' /\ ScriptInv' /\ file' >= file
        /\ GatewayTypes' /\ events' \in [Run -> Seq(EventKind)]
    BY <1>2, <2>1, Resting
  <2>3. CallTypes /\ TableTypes /\ GatewayTypes
    BY DEF Inv, Types
  <2>4. Types'
    <3>1. CallTypes'
      BY <2>1, <2>3 DEF CallTypes
    <3>2. ActiveType' /\ TableTypes' /\ RotationTypes'
      BY <1>2, <2>1, <2>3 DEF Inv, Types, ActiveType, TableTypes, RotationTypes, rotVars
    <3> QED
      BY <2>2, <3>1, <3>2 DEF Types
  <2>5. ActsFor(c)
    <3>1. r \in RunsOf(msg[c])'
      BY <1>1, <2>1, <2>2, RunsStay
    <3>2. \A d \in Call \ {c} : SameCall(d)
      BY <1>2, <2>1, <2>3 DEF SameCall, CallTypes
    <3>3. \A q \in Run : waiter'[q] \in {waiter[q], Nobody, c} /\ (q # r => waiter'[q] = waiter[q])
      BY <1>1, <2>1, <2>3 DEF TableTypes
    <3>4. file' \in file..MaxRuns
      BY <2>1, <2>3, Constants DEF GatewayTypes
    <3> QED
      BY <1>2, <2>1, <2>2, <3>1, <3>2, <3>3, <3>4 DEF ActsFor, rotVars
  <2>6. Own(c)'
    <3>1. OwnRun(c)'
      BY <1>1, <1>2, <2>1, <2>2, <2>3, RunsStay DEF Own, OwnRun, CallTypes
    <3>2. OwnWaiter(c)'
      BY <1>1, <2>1, <2>3 DEF Own, OwnWaiter, TableTypes, CallTypes
    <3>3. OwnListing(c)'
      BY <1>1, <2>1, <2>3 DEF Own, OwnListing, CallTypes, Repeated
    <3>4. OwnText(c)'
      BY <1>1, <2>1, <2>2, <2>3, RunsStay DEF Own, OwnText, CallTypes
    <3> QED
      BY <3>1, <3>2, <3>3, <3>4 DEF Own
  <2> QED
    BY <2>2, <2>4, <2>5, <2>6, CallInv
<1> QED
  BY <1>3, <1>4

(* The steps that touch nothing but the call, and what is listed for it.    *)
LEMMA CallOnly ==
    ASSUME Inv, NEW c \in Call, OthersStay(c), CallTypes', ActiveType', Own(c)',
           UNCHANGED <<cand, timer, waiter, events, rotVars, gw, key, sent, script, file>>,
           listed' = listed \/ \E r \in RunsOf(msg[c]) : listed' = listed \cup {r},
           taken' = taken \/ taken' = [taken EXCEPT ![c] = NoRun]
    PROVE  Inv'
<1>1. /\ KeysStay /\ KeyInv' /\ EventInv' /\ ScriptInv' /\ file' >= file
      /\ GatewayTypes' /\ events' \in [Run -> Seq(EventKind)]
  BY Resting
<1>2. TableTypes /\ GatewayTypes /\ RotationTypes
  BY DEF Inv, Types
<1>3. Types'
  <2>1. TableTypes' /\ RotationTypes'
    BY <1>2, RunsAreOwn DEF TableTypes, RotationTypes, rotVars
  <2> QED
    BY <1>1, <2>1 DEF Types
<1>4. ActsFor(c)
  <2>1. \A r \in RunsOf(msg[c]) : r \in RunsOf(msg[c])'
    BY <1>1, RunsStay DEF OthersStay
  <2>2. \A d \in Call \ {c} : SameCall(d)
    BY <1>2 DEF SameCall, OthersStay, GatewayTypes
  <2>3. \A r \in Run : r \notin RunsOf(msg[c])' => (r \in listed' <=> r \in listed)
    BY <2>1
  <2>4. file' \in file..MaxRuns
    BY <1>2, Constants DEF GatewayTypes
  <2>5. taken'[Rotator] = taken[Rotator]
    BY <1>2, Constants DEF GatewayTypes
  <2> QED
    BY <1>1, <2>2, <2>3, <2>4, <2>5 DEF ActsFor, OthersStay, rotVars
<1> QED
  BY <1>1, <1>3, <1>4, CallInv

LEMMA BaselineType ==
    ASSUME Types, ScriptInv
    PROVE  /\ Baseline \in [in : 0..MaxRuns, lines : 0..MaxRuns + 1]
           /\ Baseline.lines >= 1 /\ Baseline.in = file
BY ScriptBound, Constants DEF Baseline, Types, GatewayTypes

LEMMA BeginKeeps ==
    ASSUME Inv, NEW c \in Call, Begin(c)
    PROVE  Inv'
<1>1. CallTypes /\ ActiveType /\ Own(c) /\ pc[c] = "idle" /\ file \in Nat
  BY DEF Begin, Inv, Types, GatewayTypes
<1>2. Baseline \in [in : 0..MaxRuns, lines : 0..MaxRuns + 1] /\ Baseline.lines >= 1 /\ Baseline.in = file
  BY BaselineType DEF Inv
<1>3. CallTypes'
  BY <1>1, <1>2 DEF Begin, CallTypes
<1>4. pc'[c] \in {"locked", "ready"} /\ base'[c] = Baseline /\ OthersStay(c)
  BY <1>1 DEF Begin, CallTypes, OthersStay, tableVars
<1>5. Own(c)'
  <2>1. UNCHANGED <<msg, run, timer, waiter, author, result, taken, key, file>>
    BY DEF Begin, tableVars, gwVars
  <2>2. OwnRun(c)'
    BY <1>1, <1>4, <2>1 DEF Begin, Own, OwnRun, RunsOf
  <2>3. OwnWaiter(c)'
    BY <1>1, <1>4, <2>1 DEF Own, OwnWaiter
  <2>4. OwnListing(c)'
    BY <1>4 DEF OwnListing
  <2>5. OwnText(c)'
    BY <1>1, <1>2, <1>4, <2>1 DEF Own, OwnText, RunsOf
  <2> QED
    BY <2>2, <2>3, <2>4, <2>5 DEF Own
<1>6. ActiveType' /\ taken' = taken /\ listed' = listed
  BY <1>1 DEF Begin, ActiveType, tableVars, gwVars
<1> QED
  BY <1>3, <1>4, <1>5, <1>6, CallOnly DEF Begin, tableVars, gwVars

LEMMA SendKeeps ==
    ASSUME Inv, NEW c \in Call, Send(c)
    PROVE  Inv'
<1>1. CallTypes /\ ActiveType /\ Own(c) /\ pc[c] = "ready"
  BY DEF Send, Inv, Types
<1>2. CallTypes' /\ pc'[c] = "sending" /\ OthersStay(c)
  BY <1>1 DEF Send, CallTypes, OthersStay, tableVars
<1>3. Own(c)'
  <2>1. UNCHANGED <<msg, run, timer, waiter, author, result, taken, key, file, base>>
    BY DEF Send, tableVars, gwVars
  <2>2. OwnRun(c)'
    BY <1>1, <1>2, <2>1 DEF Own, OwnRun, RunsOf
  <2>3. OwnWaiter(c)'
    BY <1>1, <1>2, <2>1 DEF Own, OwnWaiter
  <2>4. OwnListing(c)' /\ OwnText(c)'
    BY <1>1, <1>2, <2>1 DEF Own, OwnListing, OwnText, RunsOf
  <2> QED
    BY <2>2, <2>3, <2>4 DEF Own
<1>4. ActiveType' /\ taken' = taken /\ listed' = listed
  BY <1>1 DEF Send, ActiveType, tableVars, gwVars
<1> QED
  BY <1>2, <1>3, <1>4, CallOnly DEF Send, tableVars, gwVars

LEMMA SendReturnsKeeps ==
    ASSUME Inv, NEW c \in Call, SendReturns(c)
    PROVE  Inv'
<1> DEFINE r == taken[c]
<1>1. CallTypes /\ ActiveType /\ GatewayTypes /\ Own(c) /\ pc[c] = "sending"
  BY DEF SendReturns, Inv, Types
<1>2. r \in RunsOf(msg[c]) /\ r \in Run /\ r # NoRun /\ msg[c] \in Message
  BY <1>1, RunsAreOwn DEF SendReturns, Own, OwnRun, CallTypes
<1>3. /\ pc' = [pc EXCEPT ![c] = "started"] /\ run' = [run EXCEPT ![c] = r]
      /\ listed' = listed \cup {r} /\ active' = [active EXCEPT ![msg[c]] = r]
      /\ taken' = [taken EXCEPT ![c] = NoRun]
      /\ UNCHANGED <<msg, attempt, suffix, fallback, base, cand, result, author, timer, waiter, events,
                     rotVars, gw, key, sent, script, file>>
  BY DEF SendReturns
<1>4. CallTypes' /\ ActiveType'
  BY <1>1, <1>2, <1>3 DEF CallTypes, ActiveType
<1>5. OthersStay(c) /\ pc'[c] = "started" /\ run'[c] = r /\ taken'[c] = NoRun /\ active'[msg[c]] = r
  BY <1>1, <1>2, <1>3 DEF CallTypes, ActiveType, GatewayTypes, OthersStay
<1>6. Own(c)'
  <2>1. OwnRun(c)'
    BY <1>1, <1>2, <1>3, <1>5 DEF Own, OwnRun, RunsOf
  <2>2. OwnWaiter(c)'
    BY <1>1, <1>3, <1>5 DEF Own, OwnWaiter
  <2>3. OwnListing(c)'
    BY <1>3, <1>5 DEF OwnListing
  <2>4. OwnText(c)'
    BY <1>1, <1>3, <1>5 DEF Own, OwnText, RunsOf
  <2> QED
    BY <2>1, <2>2, <2>3, <2>4 DEF Own
<1> QED
  BY <1>2, <1>3, <1>4, <1>5, <1>6, CallOnly

LEMMA PollSeesKeeps ==
    ASSUME Inv, NEW c \in Call, PollSees(c)
    PROVE  Inv'
<1>1. Read(c) \in Author
  <2>1. CASE Read(c) = NoRun
    BY <2>1 DEF Author
  <2>2. CASE Read(c) # NoRun
    BY <2>2, ReadIsOwn DEF Inv, Own
  <2> QED
    BY <2>1, <2>2
<1>2. Types'
  BY <1>1 DEF PollSees, Inv, Types, CallTypes, ActiveType, TableTypes, RotationTypes, GatewayTypes,
              tableVars, rotVars, gwVars
<1>3. KeyInv' /\ EventInv' /\ ScriptInv' /\ RotationInv'
  BY DEF PollSees, Inv, KeyInv, EventInv, ScriptInv, RotationInv, tableVars, rotVars, gwVars
<1>4. ASSUME NEW d \in Call PROVE Own(d)'
  BY DEF PollSees, Inv, Own, OwnRun, OwnWaiter, OwnListing, OwnText, RunsOf, Repeated,
         tableVars, rotVars, gwVars
<1> QED
  BY <1>2, <1>3, <1>4 DEF Inv

LEMMA OrphanedKeeps ==
    ASSUME Inv, NEW c \in Call, TimesOutOrphaned(c)
    PROVE  Inv'
<1>1. c \in timer /\ waiter[run[c]] = Nobody /\ timer' = timer \ {c}
  BY DEF TimesOutOrphaned
<1>2. Types'
  BY <1>1 DEF TimesOutOrphaned, Inv, Types, CallTypes, ActiveType, TableTypes, RotationTypes, GatewayTypes,
              callVars, rotVars, gwVars
<1>3. KeyInv' /\ EventInv' /\ ScriptInv'
  BY DEF TimesOutOrphaned, Inv, KeyInv, EventInv, ScriptInv, gwVars
<1>4. RotationInv'
  BY <1>1, Constants DEF TimesOutOrphaned, Inv, RotationInv, rotVars, gwVars
<1>5. ASSUME NEW d \in Call PROVE Own(d)'
  <2>1. d # c \/ pc[d] # "waiting" \/ Repeated(d)
    BY <1>1, Constants DEF Inv, Own, OwnWaiter
  <2>2. OwnWaiter(d)'
    BY <1>1, <2>1 DEF TimesOutOrphaned, Inv, Own, OwnWaiter, Repeated, callVars
  <2>3. OwnRun(d)' /\ OwnListing(d)' /\ OwnText(d)'
    BY DEF TimesOutOrphaned, Inv, Own, OwnRun, OwnListing, OwnText, RunsOf, Repeated, callVars, rotVars, gwVars
  <2> QED
    BY <2>2, <2>3 DEF Own
<1> QED
  BY <1>2, <1>3, <1>4, <1>5 DEF Inv

-----------------------------------------------------------------------------
(* The gateway takes a message, or a "/new".                                *)

LEMMA TakesDoes ==
    ASSUME Inv, NEW e \in Call \cup {Rotator}, NEW k \in Key \cup {Rotation}, Takes(e, k)
    PROVE  \E r \in Run :
             /\ taken' = [taken EXCEPT ![e] = r] /\ key'[r] = k
             /\ KeysStay /\ KeyInv' /\ EventInv' /\ ScriptInv' /\ GatewayTypes'
             /\ UNCHANGED <<callVars, tableVars, rotVars, file>>
<1> DEFINE known == {r \in Run : key[r] = k}
           free == {r \in Run : gw[r] = "none"}
           r == IF known # {} THEN CHOOSE x \in known : TRUE ELSE CHOOSE x \in free : \A y \in free : x <= y
<1>1. GatewayTypes /\ KeyInv /\ EventInv /\ ScriptInv /\ k # NoKey
  BY KeysDiffer DEF Inv, Types
<1>2. /\ known \cup free # {} /\ taken' = [taken EXCEPT ![e] = r]
      /\ gw' = IF known # {} THEN gw ELSE [gw EXCEPT ![r] = "queued"]
      /\ key' = [key EXCEPT ![r] = k]
      /\ UNCHANGED <<callVars, tableVars, rotVars, sent, script, file>>
  BY DEF Takes
<1>3. r \in Run /\ (key[r] = k \/ (known = {} /\ gw[r] = "none"))
  <2>1. CASE known # {}
    BY <2>1
  <2>2. CASE known = {}
    <3>1. free \in SUBSET Int /\ IsFiniteSet(free) /\ free # {}
      <4>1. free \subseteq Run /\ Run \subseteq Int /\ free # {}
        BY <1>2, <2>2, Constants
      <4> HIDE DEF free
      <4> QED
        BY <4>1, Constants, FS_Subset
    <3>2. r \in free
      BY <2>2, <3>1, Extremes
    <3> QED
      BY <2>2, <3>2
  <2> QED
    BY <2>1, <2>2
<1> HIDE DEF r
<1>4. key'[r] = k /\ \A q \in Run : q # r => key'[q] = key[q]
  BY <1>1, <1>2, <1>3 DEF GatewayTypes
<1>5. /\ \A q \in Run : q # r => gw'[q] = gw[q]
      /\ gw'[r] = gw[r] \/ (gw[r] = "none" /\ gw'[r] = "queued")
      /\ gw'[r] # "none" /\ gw' \in [Run -> States]
  <2>1. CASE known # {}
    <3>1. gw' = gw /\ key[r] = k
      BY <1>2, <1>3, <2>1
    <3> QED
      BY <3>1, <1>1, <1>3 DEF GatewayTypes, KeyInv, States
  <2>2. CASE known = {}
    <3>1. gw' = [gw EXCEPT ![r] = "queued"] /\ gw[r] = "none"
      BY <1>2, <1>3, <2>2
    <3> QED
      BY <3>1, <1>1, <1>3 DEF GatewayTypes, States
  <2> QED
    BY <2>1, <2>2
<1> HIDE DEF known, free
<1>6. KeysStay
  BY <1>1, <1>3, <1>4 DEF KeysStay, KeyInv
<1>7. KeyInv'
  BY <1>1, <1>4, <1>5 DEF KeyInv
<1>8. EventInv' /\ ScriptInv'
  <2>1. UNCHANGED <<events, sent, script>>
    BY <1>2 DEF tableVars
  <2>2. \A q \in Run : gw'[q] # "over" => gw[q] # "over"
    BY <1>5
  <2>3. \A q \in Run : gw[q] \notin {"none", "queued"} => gw'[q] \notin {"none", "queued"}
    BY <1>5
  <2> QED
    BY <1>1, <2>1, <2>2, <2>3 DEF EventInv, ScriptInv
<1>9. GatewayTypes'
  BY <1>1, <1>2, <1>3, <1>5 DEF GatewayTypes, States
<1> QED
  BY <1>2, <1>3, <1>4, <1>6, <1>7, <1>8, <1>9

LEMMA AttemptKeyIsOwn ==
    ASSUME CallTypes, NEW c \in Call, msg[c] \in Message
    PROVE  AttemptKey(c) \in Key /\ AttemptKey(c)[1] = msg[c]
BY Constants DEF CallTypes, AttemptKey, Key

LEMMA GatewayTakesKeeps ==
    ASSUME Inv, NEW c \in Call, GatewayTakes(c)
    PROVE  Inv'
<1>1. pc[c] = "sending" /\ Takes(c, AttemptKey(c)) /\ Own(c) /\ CallTypes /\ GatewayTypes
  BY DEF GatewayTakes, Inv, Types
<1>2. AttemptKey(c) \in Key /\ AttemptKey(c)[1] = msg[c]
  BY <1>1, AttemptKeyIsOwn DEF Own, OwnRun, CallTypes
<1>3. PICK r \in Run :
        /\ taken' = [taken EXCEPT ![c] = r] /\ key'[r] = AttemptKey(c)
        /\ KeysStay /\ KeyInv' /\ EventInv' /\ ScriptInv' /\ GatewayTypes'
        /\ UNCHANGED <<callVars, tableVars, rotVars, file>>
  BY <1>1, <1>2, TakesDoes
<1>4. r \in RunsOf(msg[c])'
  BY <1>2, <1>3, KeysDiffer DEF RunsOf, callVars
<1>5. taken'[c] = r /\ \A e \in (Call \cup {Rotator}) \ {c} : taken'[e] = taken[e]
  BY <1>1, <1>3 DEF GatewayTypes
<1>6. ActsFor(c)
  <2>1. file' \in file..MaxRuns
    BY <1>1, <1>3, Constants DEF GatewayTypes
  <2>2. \A d \in Call \ {c} : SameCall(d)
    BY <1>3, <1>5 DEF SameCall, callVars
  <2>3. taken'[Rotator] = taken[Rotator]
    BY <1>5, Constants
  <2> QED
    BY <1>3, <2>1, <2>2, <2>3 DEF ActsFor, callVars, tableVars, rotVars
<1>7. Own(c)'
  <2>1. OwnRun(c)'
    BY <1>1, <1>3, <1>4, <1>5, RunsStay DEF Own, OwnRun, callVars
  <2>2. OwnWaiter(c)' /\ OwnListing(c)'
    BY <1>1, <1>3 DEF Own, OwnWaiter, OwnListing, Repeated, callVars, tableVars
  <2>3. OwnText(c)'
    BY <1>1, <1>3, RunsStay DEF Own, OwnText, callVars
  <2> QED
    BY <2>1, <2>2, <2>3 DEF Own
<1>8. Types'
  BY <1>3 DEF Inv, Types, CallTypes, ActiveType, TableTypes, RotationTypes, callVars, tableVars, rotVars
<1> QED
  BY <1>3, <1>6, <1>7, <1>8, CallInv

-----------------------------------------------------------------------------
(* The rotation, and the gateway's own steps: a call notices at most that   *)
(* the lock is gone.                                                        *)

CallsWait ==
    /\ UNCHANGED <<msg, run, author, result, active>> /\ KeysStay /\ file' \in file..MaxRuns
    /\ \A d \in Call :
         /\ taken'[d] = taken[d] /\ (d \in timer' <=> d \in timer)
         /\ \/ pc'[d] = pc[d] /\ base'[d] = base[d]
            \/ pc[d] = "locked" /\ pc'[d] = "ready" /\ base'[d] = Baseline
         /\ \A r \in Run : waiter'[r] = d <=> waiter[r] = d
    /\ \A r \in Run : r \in listed => r \in listed' \/ key[r] = Rotation

LEMMA Unconcerned ==
    ASSUME Inv, CallsWait, NEW d \in Call
    PROVE  Own(d)'
<1>1. Own(d) /\ UNCHANGED <<msg, run, author, result, active>> /\ KeysStay /\ file' \in file..MaxRuns
  BY DEF Inv, CallsWait
<1>2. /\ taken'[d] = taken[d] /\ (d \in timer' <=> d \in timer)
      /\ \/ pc'[d] = pc[d] /\ base'[d] = base[d]
         \/ pc[d] = "locked" /\ pc'[d] = "ready" /\ base'[d] = Baseline
      /\ \A r \in Run : waiter'[r] = d <=> waiter[r] = d
  BY DEF CallsWait
<1>3. OwnRun(d)'
  BY <1>1, <1>2, RunsStay DEF Own, OwnRun
<1>4. OwnWaiter(d)'
  <2>1. pc[d] = "waiting" => run[d] \in Run
    BY <1>1, RunsAreOwn DEF Own, OwnRun
  <2> QED
    BY <1>1, <1>2, <2>1 DEF Own, OwnWaiter, Repeated
<1>5. OwnListing(d)'
  <2>1. pc[d] \in {"started", "waiting"} => run[d] \in Run /\ key[run[d]] # Rotation
    BY <1>1, RunsAreOwn DEF Own, OwnRun
  <2>2. pc[d] \in {"started", "waiting"} /\ run[d] \in listed => run[d] \in listed'
    BY <2>1 DEF CallsWait
  <2> QED
    BY <1>1, <1>2, <2>2 DEF Own, OwnListing, Repeated
<1>6. OwnText(d)'
  <2>1. Baseline.lines >= 1 /\ Baseline.in = file
    BY BaselineType DEF Inv
  <2>2. base[d].in \in Nat /\ file \in Nat /\ file' \in Nat /\ file' >= file
    BY <1>1 DEF Inv, Types, CallTypes, GatewayTypes
  <2>3. pc'[d] \notin {"idle", "done"} => base'[d].lines >= 1 /\ base'[d].in <= file'
    BY <1>1, <1>2, <2>1, <2>2 DEF Own, OwnText
  <2>4. Backed /\ (pc'[d] = "releasing" \/ result'[d] = "reply") => author'[d] \in RunsOf(msg[d])'
    BY <1>1, <1>2, RunsStay DEF Own, OwnText
  <2> QED
    BY <1>1, <1>2, <2>3, <2>4 DEF Own, OwnText
<1> QED
  BY <1>3, <1>4, <1>5, <1>6 DEF Own

LEMMA UnconcernedInv ==
    ASSUME Inv, CallsWait, Types', KeyInv', EventInv', ScriptInv', RotationInv'
    PROVE  Inv'
BY Unconcerned DEF Inv

LEMMA RotationTakenKeeps ==
    ASSUME Inv, RotationTaken
    PROVE  Inv'
<1>1. rot = "sending" /\ GatewayTypes /\ RotationTypes /\ RotationInv
  BY DEF RotationTaken, Inv, Types
<1>2. PICK r \in Run :
        /\ taken' = [taken EXCEPT ![Rotator] = r] /\ key'[r] = Rotation
        /\ KeysStay /\ KeyInv' /\ EventInv' /\ ScriptInv' /\ GatewayTypes'
        /\ UNCHANGED <<callVars, tableVars, rotVars, file>>
  BY TakesDoes DEF RotationTaken
<1>3. taken'[Rotator] = r /\ \A d \in Call : taken'[d] = taken[d]
  BY <1>1, <1>2, Constants DEF GatewayTypes
<1>4. CallsWait
  <2>1. file' \in file..MaxRuns
    BY <1>1, <1>2, Constants DEF GatewayTypes
  <2> QED
    BY <1>2, <1>3, <2>1 DEF CallsWait, callVars, tableVars
<1>5. RotationInv'
  <2>1. rotRun # NoRun => key'[rotRun] = Rotation
    BY <1>1, <1>2, KeysDiffer DEF RotationInv, RotationTypes, KeysStay
  <2> QED
    BY <1>1, <1>2, <1>3, <2>1 DEF RotationInv, tableVars, rotVars
<1>6. Types'
  BY <1>2 DEF Inv, Types, CallTypes, ActiveType, TableTypes, RotationTypes, callVars, tableVars, rotVars
<1> QED
  BY <1>2, <1>4, <1>5, <1>6, UnconcernedInv

(* What the rotation's end does.                                            *)
LEMMA UnlocksDoes ==
    ASSUME Inv, Unlocks
    PROVE  /\ CallTypes' /\ ActiveType' /\ rot' = "done" /\ lock' = FALSE
           /\ UNCHANGED <<msg, run, author, result, active>>
           /\ \A d \in Call : \/ pc'[d] = pc[d] /\ base'[d] = base[d]
                              \/ pc[d] = "locked" /\ pc'[d] = "ready" /\ base'[d] = Baseline
<1>1. CallTypes /\ ActiveType /\ Baseline \in [in : 0..MaxRuns, lines : 0..MaxRuns + 1]
  BY BaselineType DEF Inv, Types
<1>2. CallTypes'
  BY <1>1 DEF Unlocks, CallTypes
<1> QED
  BY <1>1, <1>2 DEF Unlocks, ActiveType

(* Its ends by a step that takes its waiter out of the table, if it is in.  *)
LEMMA RotationEndsInv ==
    ASSUME Inv, Unlocks, UNCHANGED <<rotRun, taken, key>>,
           \/ \E r \in Run : /\ waiter[r] = Rotator
                             /\ Takeaway(r, Rotator) /\ Completed(r)
           \/ rot = "sending" /\ UNCHANGED <<cand, timer, waiter, listed>>,
           events' \in [Run -> Seq(EventKind)], GatewayTypes',
           KeysStay, KeyInv', EventInv', ScriptInv', file' = file
    PROVE  Inv'
<1>1. TableTypes /\ RotationTypes /\ RotationInv /\ GatewayTypes
  BY DEF Inv, Types
<1> DEFINE Table ==
             /\ cand' \in [Call -> Author] /\ timer' \subseteq timer
             /\ waiter' \in [Run -> Call \cup {Rotator, Nobody}]
             /\ listed' \subseteq listed /\ Rotator \notin timer'
             /\ \A d \in Call : (d \in timer' <=> d \in timer) /\ \A q \in Run : waiter'[q] = d <=> waiter[q] = d
             /\ \A q \in Run : waiter'[q] # Rotator /\ (q \in listed => q \in listed' \/ key[q] = Rotation)
<1>2. Table
  <2>1. CASE rot = "sending" /\ UNCHANGED <<cand, timer, waiter, listed>>
    BY <1>1, <2>1 DEF RotationInv, TableTypes
  <2>2. ASSUME NEW r \in Run, waiter[r] = Rotator, Takeaway(r, Rotator), Completed(r)
        PROVE  Table
    <3>1. r = rotRun /\ key[r] = Rotation /\ \A q \in Run : waiter[q] = Rotator => q = r
      BY <1>1, <2>2, Constants DEF RotationInv
    <3>2. waiter' = [waiter EXCEPT ![r] = Nobody] /\ timer' = timer \ {Rotator} /\ listed' = listed \ {r}
      BY <2>2 DEF Takeaway, Completed
    <3>3. cand' \in [Call -> Author]
      BY <1>1, <2>2 DEF Takeaway, TableTypes, Author
    <3>4. /\ waiter' \in [Run -> Call \cup {Rotator, Nobody}]
          /\ \A q \in Run : waiter'[q] = IF q = r THEN Nobody ELSE waiter[q]
      BY <1>1, <3>2 DEF TableTypes
    <3>5. \A q \in Run : waiter'[q] # Rotator /\ (q \in listed => q \in listed' \/ key[q] = Rotation)
      BY <3>1, <3>2, <3>4, Constants
    <3>6. \A d \in Call : (d \in timer' <=> d \in timer) /\ \A q \in Run : waiter'[q] = d <=> waiter[q] = d
      BY <2>2, <3>2, <3>4, Constants
    <3> QED
      BY <3>2, <3>3, <3>4, <3>5, <3>6
  <2> QED
    BY <2>1, <2>2
<1>3. /\ CallTypes' /\ ActiveType' /\ rot' = "done" /\ lock' = FALSE
      /\ UNCHANGED <<msg, run, author, result, active>>
      /\ \A d \in Call : \/ pc'[d] = pc[d] /\ base'[d] = base[d]
                         \/ pc[d] = "locked" /\ pc'[d] = "ready" /\ base'[d] = Baseline
  BY UnlocksDoes
<1>4. CallsWait
  <2>1. file' \in file..MaxRuns
    BY <1>1, Constants DEF GatewayTypes
  <2> QED
    BY <1>2, <1>3, <2>1 DEF CallsWait
<1>5. RotationInv'
  BY <1>1, <1>2 DEF RotationInv
<1>6. Types'
  BY <1>1, <1>2, <1>3 DEF Types, TableTypes, RotationTypes
<1> QED
  BY <1>4, <1>5, <1>6, UnconcernedInv

LEMMA RotationEndsKeeps ==
    ASSUME Inv, RotationFails \/ RotationTimesOut \/ Disconnects
    PROVE  Inv'
<1>1. Unlocks /\ UNCHANGED <<rotRun, events, gwVars>>
  BY DEF RotationFails, RotationTimesOut, Disconnects
<1>2. /\ KeysStay /\ KeyInv' /\ EventInv' /\ ScriptInv' /\ GatewayTypes'
      /\ events' \in [Run -> Seq(EventKind)]
  BY <1>1, Resting DEF gwVars
<1>3. \/ \E r \in Run : waiter[r] = Rotator /\ Takeaway(r, Rotator) /\ Completed(r)
      \/ rot = "sending" /\ UNCHANGED <<cand, timer, waiter, listed>>
  <2>1. CASE RotationFails
    BY <2>1 DEF RotationFails
  <2>2. CASE Rotator \in timer /\ Takeaway(rotRun, Rotator) /\ Completed(rotRun)
    BY <2>2 DEF Inv, RotationInv, Types, RotationTypes
  <2> QED
    BY <2>1, <2>2 DEF RotationTimesOut, Disconnects
<1> QED
  BY <1>1, <1>2, <1>3, RotationEndsInv DEF gwVars

LEMMA RotationSentKeeps ==
    ASSUME Inv, RotationSent
    PROVE  Inv'
<1> DEFINE r == taken[Rotator]
<1>1. TableTypes /\ RotationTypes /\ RotationInv /\ GatewayTypes
  BY DEF Inv, Types
<1>2. rot = "sending" /\ rotRun' = r /\ r \in Run /\ key[r] = Rotation /\ UNCHANGED <<cand, events, gwVars>>
  BY <1>1 DEF RotationSent, RotationInv, GatewayTypes
<1>3. /\ KeysStay /\ KeyInv' /\ EventInv' /\ ScriptInv' /\ GatewayTypes'
      /\ events' \in [Run -> Seq(EventKind)]
  BY <1>2, Resting DEF gwVars
<1>4. \A q \in Run : waiter[q] # Rotator
  BY <1>1, <1>2 DEF RotationInv
<1>5. \A d \in Call : waiter[r] # d
  BY <1>2, RunsAreOwn DEF Inv, Own, OwnRun, OwnWaiter
<1>6. file' \in file..MaxRuns
  BY <1>1, <1>2, Constants DEF GatewayTypes, gwVars
<1>7. CASE Unlocks /\ UNCHANGED <<timer, waiter, listed>>
  <2>1. /\ CallTypes' /\ ActiveType' /\ rot' = "done" /\ lock' = FALSE
        /\ UNCHANGED <<msg, run, author, result, active>>
        /\ \A d \in Call : \/ pc'[d] = pc[d] /\ base'[d] = base[d]
                           \/ pc[d] = "locked" /\ pc'[d] = "ready" /\ base'[d] = Baseline
    BY <1>7, UnlocksDoes
  <2>2. CallsWait
    BY <1>2, <1>3, <1>6, <1>7, <2>1 DEF CallsWait, gwVars
  <2>3. RotationInv'
    BY <1>1, <1>2, <1>4, <1>7 DEF RotationInv, gwVars
  <2>4. Types'
    BY <1>1, <1>2, <1>3, <1>7, <2>1 DEF Types, TableTypes, RotationTypes
  <2> QED
    BY <1>3, <2>2, <2>3, <2>4, UnconcernedInv
<1>8. CASE /\ rot' = "waiting" /\ waiter' = [waiter EXCEPT ![r] = Rotator]
           /\ timer' = timer \cup {Rotator} /\ listed' = listed \cup {r}
           /\ UNCHANGED <<lock, pc, msg, attempt, suffix, run, fallback, base, result, author, active>>
  <2>1. \A q \in Run : waiter'[q] = IF q = r THEN Rotator ELSE waiter[q]
    BY <1>1, <1>8 DEF TableTypes
  <2>2. CallsWait
    <3>1. \A d \in Call : (d \in timer' <=> d \in timer) /\ \A q \in Run : waiter'[q] = d <=> waiter[q] = d
      BY <1>5, <1>8, <2>1, Constants
    <3> QED
      BY <1>2, <1>3, <1>6, <1>8, <3>1 DEF CallsWait, gwVars
  <2>3. RotationInv'
    <3>1. /\ r # NoRun /\ rotRun' = r /\ rot' = "waiting" /\ waiter'[r] = Rotator /\ UNCHANGED <<taken, key>>
          /\ \A q \in Run : waiter'[q] = Rotator => q = r
      BY <1>2, <1>4, <1>8, <2>1, Constants DEF gwVars
    <3> QED
      BY <1>2, <3>1 DEF RotationInv
  <2>4. Types'
    <3>1. CallTypes' /\ ActiveType'
      BY <1>8 DEF Inv, Types, CallTypes, ActiveType
    <3>2. TableTypes' /\ RotationTypes'
      BY <1>1, <1>2, <1>8 DEF TableTypes, RotationTypes
    <3> QED
      BY <1>3, <3>1, <3>2 DEF Types
  <2> QED
    BY <1>3, <2>2, <2>3, <2>4, UnconcernedInv
<1> QED
  BY <1>7, <1>8 DEF RotationSent

(* The steps of the gateway, and those that only abort runs.                *)
LEMMA OutsideInv ==
    ASSUME Inv, UNCHANGED <<callVars, timer, waiter, listed, active, rotRun, taken, key>>,
           rot' = rot \/ (rot = "idle" /\ rot' = "sending"), lock' \in BOOLEAN,
           events' \in [Run -> Seq(EventKind)],
           KeysStay, KeyInv', EventInv', ScriptInv', GatewayTypes', file' >= file
    PROVE  Inv'
<1>1. TableTypes /\ RotationTypes /\ RotationInv /\ GatewayTypes
  BY DEF Inv, Types
<1>2. CallsWait
  <2>1. file' \in file..MaxRuns
    BY <1>1, Constants DEF GatewayTypes
  <2> QED
    BY <2>1 DEF CallsWait, callVars
<1>3. RotationInv'
  BY <1>1 DEF RotationInv
<1>4. Types'
  BY <1>1 DEF Inv, Types, CallTypes, ActiveType, TableTypes, RotationTypes, callVars
<1> QED
  BY <1>2, <1>3, <1>4, UnconcernedInv

LEMMA AbortsKeep ==
    ASSUME Inv, RotationBegins \/ \E m \in Message : AbortTask(m)
    PROVE  Inv'
<1>1. /\ \E S : gw' \in AfterAbort(S, gw)
      /\ UNCHANGED <<callVars, tableVars, rotRun, taken, key, sent, script, file>>
      /\ rot' = rot \/ (rot = "idle" /\ rot' = "sending")
      /\ lock' = lock \/ lock' = TRUE
  BY DEF RotationBegins, AbortTask, rotVars
<1>2. lock' \in BOOLEAN
  BY <1>1 DEF Inv, Types, RotationTypes
<1>3. /\ KeysStay /\ KeyInv' /\ EventInv' /\ ScriptInv' /\ file' >= file
      /\ GatewayTypes' /\ events' \in [Run -> Seq(EventKind)]
  BY <1>1, Resting DEF tableVars
<1> QED
  BY <1>1, <1>2, <1>3, OutsideInv DEF tableVars

LEMMA RunBeginsKeeps ==
    ASSUME Inv, NEW r \in Run, RunBegins(r)
    PROVE  Inv'
<1>1. GatewayTypes /\ KeyInv /\ EventInv /\ ScriptInv /\ TableTypes
  BY DEF Inv, Types
<1>2. /\ gw[r] = "queued" /\ gw' = [gw EXCEPT ![r] = "live"]
      /\ UNCHANGED <<callVars, tableVars, rotVars, taken, key, sent>>
  BY DEF RunBegins
<1>3. \/ file' = Least(file + 1, MaxRuns) /\ UNCHANGED script
      \/ script' = Append(script, [by |-> r, said |-> FALSE, in |-> file]) /\ UNCHANGED file
  BY DEF RunBegins
<1>4. \A q \in Run : gw'[q] = IF q = r THEN "live" ELSE gw[q]
  BY <1>1, <1>2 DEF GatewayTypes
<1>5. file' \in 0..MaxRuns /\ file' >= file
  BY <1>1, <1>3, Constants DEF GatewayTypes, Least
<1> DEFINE Line == [by : Run \cup {Earlier}, said : BOOLEAN, in : 0..MaxRuns]
           new == [by |-> r, said |-> FALSE, in |-> file]
<1>6. new \in Line /\ script \in Seq(Line)
  BY <1>1 DEF GatewayTypes
<1>7. script' \in Seq(Line) /\ ScriptInv'
  <2>1. CASE script' = script
    BY <1>1, <1>2, <1>4, <1>6, <2>1 DEF ScriptInv
  <2>2. CASE script' = Append(script, new)
    <3> HIDE DEF Line
    <3>1. /\ script' \in Seq(Line) /\ Len(script') = Len(script) + 1 /\ Len(script) \in Nat
          /\ DOMAIN script' = 1..Len(script) + 1 /\ DOMAIN script = 1..Len(script)
          /\ script'[Len(script) + 1] = new
          /\ \A i \in 1..Len(script) : script'[i] = script[i]
      BY <1>6, <2>2
    <3>2. \A i \in DOMAIN script : script[i].by # r
      BY <1>1, <1>2, Constants DEF ScriptInv
    <3>3. new.by = r
      OBVIOUS
    <3> HIDE DEF new
    <3>4. Len(script) >= 1 /\ script[1].by = Earlier /\ script[1].in = 0
      BY <1>1, <3>1 DEF ScriptInv
    <3>5. script' # <<>> /\ script'[1].by = Earlier /\ script'[1].in = 0
      BY <3>1, <3>4
    <3>6. \A i \in DOMAIN script' : i # 1 =>
             script'[i].by \in Run /\ gw'[script'[i].by] \notin {"none", "queued"}
      BY <1>1, <1>4, <3>1, <3>3 DEF ScriptInv
    <3>7. \A i, j \in DOMAIN script' : script'[i].by = script'[j].by => i = j
      BY <1>1, <3>1, <3>2, <3>3 DEF ScriptInv
    <3> QED
      BY <3>1, <3>5, <3>6, <3>7 DEF ScriptInv
  <2> QED
    BY <1>3, <2>1, <2>2
<1>8. KeyInv' /\ EventInv'
  BY <1>1, <1>2, <1>4 DEF KeyInv, EventInv, tableVars
<1>9. GatewayTypes'
  <2>1. gw' \in [Run -> {"none", "queued", "live", "dying", "over"}]
    BY <1>1, <1>2 DEF GatewayTypes
  <2> QED
    BY <1>1, <1>2, <1>5, <1>7, <2>1 DEF GatewayTypes
<1> QED
  BY <1>1, <1>2, <1>5, <1>7, <1>8, <1>9, OutsideInv DEF KeysStay, TableTypes, tableVars, rotVars, RotationTypes, Inv, Types

LEMMA RunSpeaksKeeps ==
    ASSUME Inv, NEW r \in Run, RunSpeaks(r)
    PROVE  Inv'
<1>1. GatewayTypes /\ KeyInv /\ EventInv /\ ScriptInv /\ TableTypes /\ RotationTypes
  BY DEF Inv, Types
<1>2. UNCHANGED <<callVars, tableVars, rotVars, taken, gw, key, sent, file>>
  BY DEF RunSpeaks
<1>3. PICK i \in DOMAIN script : script' = [script EXCEPT ![i].said = TRUE]
  BY DEF RunSpeaks
<1> DEFINE Line == [by : Run \cup {Earlier}, said : BOOLEAN, in : 0..MaxRuns]
<1>4. /\ script' \in Seq(Line) /\ DOMAIN script' = DOMAIN script
      /\ \A j \in DOMAIN script : script'[j].by = script[j].by /\ script'[j].in = script[j].in
  <2>1. script \in Seq(Line) /\ script[i] \in Line
    <3>1. script \in Seq(Line)
      BY <1>1 DEF GatewayTypes
    <3> HIDE DEF Line
    <3> QED
      BY <3>1
  <2>2. [script[i] EXCEPT !.said = TRUE] \in Line
    BY <2>1
  <2>3. [script[i] EXCEPT !.said = TRUE].by = script[i].by /\ [script[i] EXCEPT !.said = TRUE].in = script[i].in
    BY <2>1
  <2>4. script' = [script EXCEPT ![i] = [script[i] EXCEPT !.said = TRUE]]
    BY <1>3
  <2> DEFINE new == [script[i] EXCEPT !.said = TRUE]
  <2>5. new \in Line /\ new.by = script[i].by /\ new.in = script[i].in /\ script' = [script EXCEPT ![i] = new]
    BY <2>2, <2>3, <2>4
  <2> HIDE DEF Line, new
  <2>6. script' \in Seq(Line) /\ DOMAIN script' = DOMAIN script
    BY <2>1, <2>5
  <2>7. \A j \in DOMAIN script : script'[j] = IF j = i THEN new ELSE script[j]
    BY <2>1, <2>5
  <2> QED
    BY <2>5, <2>6, <2>7
<1>5. ScriptInv'
  <2>1. script' # <<>> /\ 1 \in DOMAIN script
    BY <1>1, <1>4 DEF ScriptInv, GatewayTypes
  <2> QED
    BY <1>1, <1>2, <1>4, <2>1 DEF ScriptInv
<1>6. KeyInv' /\ EventInv' /\ GatewayTypes' /\ file' >= file /\ KeysStay
  BY <1>1, <1>2, <1>4 DEF KeyInv, EventInv, GatewayTypes, tableVars, KeysStay
<1> QED
  BY <1>1, <1>2, <1>5, <1>6, OutsideInv DEF TableTypes, RotationTypes, tableVars, rotVars

-----------------------------------------------------------------------------
(* A run sends an event.                                                    *)

AfterEvent(r, kind) == [gw EXCEPT ![r] = IF kind \in {"text", "empty"} THEN "live" ELSE "over"]

LEMMA EventSends ==
    ASSUME Inv, NEW r \in Run, NEW kind \in EventKind, NEW c,
           gw[r] = "live" \/ (gw[r] = "dying" /\ kind \notin {"text", "empty"}),
           kind \in {"text", "empty"} => sent[r] < MaxEvents - 1,
           sent' = [sent EXCEPT ![r] = IF kind \in {"text", "empty"} THEN @ + 1 ELSE 0],
           gw' = AfterEvent(r, kind) \/ \E S : gw' \in AfterAbort(S, AfterEvent(r, kind)),
           file' = file \/ file' \in ResetTo(c),
           \/ events' = events
           \/ events' = [events EXCEPT ![r] = Append(events[r], kind)]
           \/ events' = Consumed(r),
           UNCHANGED <<taken, key, script>>
    PROVE  /\ KeysStay /\ KeyInv' /\ EventInv' /\ ScriptInv' /\ file' >= file
           /\ GatewayTypes' /\ events' \in [Run -> Seq(EventKind)]
<1> DEFINE live == kind \in {"text", "empty"}
<1>1. GatewayTypes /\ TableTypes /\ KeyInv /\ EventInv /\ ScriptInv
  BY DEF Inv, Types
<1>2. AfterEvent(r, kind) \in [Run -> States]
  BY <1>1 DEF AfterEvent, GatewayTypes, States
<1>3. \A q \in Run : AfterEvent(r, kind)[q] = IF q = r THEN IF live THEN "live" ELSE "over" ELSE gw[q]
  BY <1>1 DEF AfterEvent, GatewayTypes
<1>4. /\ gw' \in [Run -> States]
      /\ \A q \in Run : \/ gw'[q] = AfterEvent(r, kind)[q]
                        \/ AfterEvent(r, kind)[q] \in {"queued", "live"} /\ gw'[q] = "dying"
  <2> DEFINE state == AfterEvent(r, kind)
  <2>1. CASE gw' = state
    BY <1>2, <2>1
  <2>2. ASSUME NEW S, gw' \in AfterAbort(S, state)
        PROVE  /\ gw' \in [Run -> States]
               /\ \A q \in Run : gw'[q] = state[q] \/ (state[q] \in {"queued", "live"} /\ gw'[q] = "dying")
    BY <1>2, <2>2, AbortStops
  <2> QED
    BY <2>1, <2>2
<1>5. \A q \in Run : /\ gw'[q] = "none" <=> gw[q] = "none"
                     /\ gw[q] \notin {"none", "queued"} => gw'[q] \notin {"none", "queued"}
                     /\ gw'[q] # "over" => gw[q] # "over" /\ (q # r \/ live)
  BY <1>3, <1>4
<1>6. /\ \A q \in Run : sent'[q] = IF q = r THEN IF live THEN sent[r] + 1 ELSE 0 ELSE sent[q]
      /\ sent' \in [Run -> 0..MaxEvents]
  BY <1>1, Constants DEF GatewayTypes
<1>7. /\ events' \in [Run -> Seq(EventKind)]
      /\ \A q \in Run : \/ Len(events'[q]) <= Len(events[q])
                        \/ q = r /\ Len(events'[q]) = Len(events[q]) + 1
  <2>1. events \in [Run -> Seq(EventKind)] /\ \A q \in Run : Len(events[q]) \in Nat
    BY <1>1 DEF TableTypes
  <2>2. Append(events[r], kind) \in Seq(EventKind) /\ Len(Append(events[r], kind)) = Len(events[r]) + 1
    BY <2>1
  <2>3. <<>> \in Seq(EventKind) /\ Len(<<>>) = 0
    OBVIOUS
  <2> DEFINE seen == Append(events[r], kind)
  <2> HIDE DEF seen
  <2>4. CASE events' = events
    BY <2>1, <2>4
  <2>5. CASE events' = [events EXCEPT ![r] = seen]
    BY <2>1, <2>2, <2>5 DEF seen
  <2>6. CASE events' = Consumed(r)
    BY <2>1, <2>3, <2>6 DEF Consumed
  <2> QED
    BY <2>4, <2>5, <2>6 DEF seen
<1>8. EventInv'
  <2> SUFFICES ASSUME NEW q \in Run
               PROVE  /\ Len(events'[q]) <= MaxEvents
                      /\ gw'[q] # "over" => Len(events'[q]) <= sent'[q] /\ sent'[q] < MaxEvents
    BY DEF EventInv
  <2>1. /\ Len(events[q]) \in Nat /\ Len(events'[q]) \in Nat /\ sent[q] \in Nat
        /\ Len(events[q]) <= MaxEvents
        /\ gw[q] # "over" => Len(events[q]) <= sent[q] /\ sent[q] < MaxEvents
        /\ gw[r] # "over"
    BY <1>1, <1>7, Constants DEF TableTypes, GatewayTypes, EventInv
  <2>2. CASE q = r
    BY <1>5, <1>6, <1>7, <2>1, <2>2, Constants
  <2>3. CASE q # r
    BY <1>5, <1>6, <1>7, <2>1, <2>3, Constants
  <2> QED
    BY <2>2, <2>3
<1>9. KeysStay /\ KeyInv'
  BY <1>1, <1>5 DEF KeysStay, KeyInv
<1>10. ScriptInv'
  BY <1>1, <1>5 DEF ScriptInv
<1>11. file' \in 0..MaxRuns /\ file' >= file
  <2>1. file' = file \/ (file < MaxRuns /\ file' = file + 1)
    BY DEF ResetTo
  <2>2. file \in 0..MaxRuns
    BY <1>1 DEF GatewayTypes
  <2> QED
    BY <2>1, <2>2, Constants
<1>12. GatewayTypes'
  BY <1>1, <1>4, <1>6, <1>11 DEF GatewayTypes, States
<1> QED
  BY <1>7, <1>8, <1>9, <1>10, <1>11, <1>12

LEMMA EventKeeps ==
    ASSUME Inv, NEW r \in Run, NEW kind \in EventKind, NEW connected \in BOOLEAN,
           Event(r, kind, connected)
    PROVE  Inv'
<1> DEFINE c == waiter[r]
           seen == Append(events[r], kind)
           state == AfterEvent(r, kind)
<1>1. /\ gw[r] = "live" \/ (gw[r] = "dying" /\ kind \notin {"text", "empty"})
      /\ kind \in {"text", "empty"} => sent[r] < MaxEvents - 1
      /\ sent' = [sent EXCEPT ![r] = IF kind \in {"text", "empty"} THEN @ + 1 ELSE 0]
      /\ UNCHANGED <<taken, key, script>>
  BY DEF Event
<1>2. CASE ~connected \/ c = Nobody \/ Ignored(c, kind, seen)
  <2>1. /\ gw' = state
        /\ events' = IF connected THEN [events EXCEPT ![r] = seen] ELSE events
        /\ UNCHANGED <<callVars, timer, waiter, listed, active, rotVars, file>>
    BY <1>2 DEF Event, AfterEvent
  <2>2. /\ KeysStay /\ KeyInv' /\ EventInv' /\ ScriptInv' /\ file' >= file
        /\ GatewayTypes' /\ events' \in [Run -> Seq(EventKind)]
    <3>1. events' = events \/ events' = [events EXCEPT ![r] = Append(events[r], kind)]
      BY <2>1
    <3> HIDE DEF state, seen, c
    <3> QED
      BY <1>1, <2>1, <3>1, EventSends DEF state
  <2>3. lock' \in BOOLEAN
    BY <2>1 DEF Inv, Types, RotationTypes, rotVars
  <2> QED
    BY <1>1, <2>1, <2>2, <2>3, OutsideInv DEF rotVars
<1>3. CASE connected /\ c = Rotator
  <2>1. CASE Ignored(c, kind, seen)
    BY <1>2, <2>1
  <2>2. CASE ~Ignored(c, kind, seen)
    <3>1. /\ Takeaway(r, Rotator) /\ Unlocks /\ Completed(r) /\ UNCHANGED <<rotRun, file>>
          /\ gw' = state /\ events' = [events EXCEPT ![r] = seen]
      BY <1>3, <2>2, Constants DEF Event, AfterEvent
    <3>2. /\ KeysStay /\ KeyInv' /\ EventInv' /\ ScriptInv' /\ file' >= file
          /\ GatewayTypes' /\ events' \in [Run -> Seq(EventKind)]
      BY <1>1, <3>1, EventSends
    <3> QED
      BY <1>1, <1>3, <3>1, <3>2, RotationEndsInv
  <2> QED
    BY <2>1, <2>2
<1>4. CASE connected /\ c \in Call
  <2>1. CASE Ignored(c, kind, seen)
    BY <1>2, <2>1
  <2>2. CASE ~Ignored(c, kind, seen)
    <3>1. /\ Takeaway(r, c) /\ Settles(c, kind, seen, state)
          /\ events' = Consumed(r) /\ UNCHANGED rotVars
      BY <1>4, <2>2, Constants DEF Event, AfterEvent
    <3>2. kind = "empty" => "text" \in Range(seen)
      BY <1>4, <2>2, Constants DEF Ignored
    <3>3. pc[c] = "waiting" /\ run[c] = r /\ run[c] # NoRun
      BY <1>4, Constants DEF Inv, Own, OwnWaiter
    <3>4. /\ CallTypes' /\ ActiveType' /\ OthersStay(c) /\ MovesOn(c)
          /\ listed' \in {listed, listed \ {run[c]}}
          /\ gw' = state \/ gw' \in AfterAbort(Session, state)
          /\ file' = file \/ file' \in ResetTo(c)
      <4> HIDE DEF state, seen
      <4> QED
        BY <1>4, <3>1, <3>2, <3>3, SettlesDoes
    <3>5. /\ KeysStay /\ KeyInv' /\ EventInv' /\ ScriptInv' /\ file' >= file
          /\ GatewayTypes' /\ events' \in [Run -> Seq(EventKind)]
      BY <1>1, <3>1, <3>4, EventSends
    <3> QED
      BY <1>1, <1>4, <3>1, <3>3, <3>4, <3>5, MovesOnInv
  <2> QED
    BY <2>1, <2>2
<1>5. c \in Call \cup {Rotator, Nobody}
  BY DEF Inv, Types, TableTypes
<1> QED
  BY <1>2, <1>3, <1>4, <1>5

-----------------------------------------------------------------------------
LEMMA StepInv == Inv /\ trouble \in Nat /\ [Next]_vars => Inv' /\ trouble' \in Nat
<1> SUFFICES ASSUME Inv, trouble \in Nat, [Next]_vars PROVE Inv' /\ trouble' \in Nat
  OBVIOUS
<1>1. trouble' \in Nat
  BY DEF Next, vars
<1>2. ASSUME NEW c \in Call, CallStep(c) PROVE Inv'
  BY <1>2, BeginKeeps, GivesUpKeeps, SendKeeps, GatewayTakesKeeps, SendReturnsKeeps, SendFailsKeeps,
     WaitKeeps, PollSeesKeeps, PollSettlesKeeps, ReleasedKeeps, RecoversKeeps, TimesOutKeeps,
     OrphanedKeeps DEF CallStep
<1>3. ASSUME NEW r \in Run, GatewayStep(r) PROVE Inv'
  <2>1. ASSUME NEW k \in {"text", "final", "aborted"}, Event(r, k, TRUE) PROVE Inv'
    BY <2>1, EventKeeps DEF EventKind
  <2> QED
    BY <1>3, <2>1, RunBeginsKeeps, RunSpeaksKeeps DEF GatewayStep
<1>4. CASE RotationStep
  BY <1>1, <1>4, RotationTakenKeeps, RotationSentKeeps, RotationEndsKeeps DEF RotationStep
<1>5. CASE Trouble
  <2>1. ASSUME NEW r \in Run, NEW k \in EventKind, NEW b \in BOOLEAN, Event(r, k, b) PROVE Inv'
    BY <2>1, EventKeeps
  <2>2. Errors \cup {"empty"} \subseteq EventKind
    BY DEF EventKind
  <2> QED
    BY <1>1, <1>5, <2>1, <2>2, SendRetriesKeeps, TimesOutKeeps, AbortsKeep DEF Trouble
<1>6. CASE UNCHANGED vars
  <2>1. UNCHANGED <<callVars, tableVars, rotVars, gwVars>>
    BY <1>6 DEF vars
  <2>2. UNCHANGED <<msg, pc, attempt, suffix, run, fallback, base, cand, result, author, timer, waiter,
                    events, listed, active, lock, rot, rotRun, taken, gw, key, sent, script, file>>
    BY <2>1 DEF callVars, tableVars, rotVars, gwVars
  <2>3. Types'
    BY <2>2 DEF Inv, Types, CallTypes, ActiveType, TableTypes, RotationTypes, GatewayTypes
  <2>4. KeyInv' /\ EventInv' /\ ScriptInv' /\ RotationInv'
    BY <2>2 DEF Inv, KeyInv, EventInv, ScriptInv, RotationInv
  <2>5. ASSUME NEW d \in Call PROVE Own(d)'
    BY <2>2 DEF Inv, Own, OwnRun, OwnWaiter, OwnListing, OwnText, RunsOf, Repeated
  <2> QED
    BY <1>1, <2>3, <2>4, <2>5 DEF Inv
<1> QED
  BY <1>1, <1>2, <1>3, <1>4, <1>5, <1>6 DEF Next

IInv == Inv /\ trouble \in Nat

LEMMA Invariance == Spec => []IInv
<1>1. Init => IInv
  BY InitInv DEF IInv
<1>2. IInv /\ [Next]_vars => IInv'
  BY StepInv DEF IInv
<1> QED
  BY <1>1, <1>2, PTL DEF Spec

(* Every variable has its type; the events kept of a run stay within their  *)
(* bound, and no attempt is counted past retry's limit.                     *)
THEOREM TypeCorrect == Spec => []TypeOK
<1>1. IInv => TypeOK
  BY TypesAreTypeOK DEF IInv, Inv
<1> QED
  BY <1>1, Invariance, PTL

(* Whoever an event, a poll or a timer takes out of waitersByRunId waits    *)
(* for that run, and a waiting call is there with its timer, whatever the   *)
(* other calls, the gateway and the rotation do in between.                 *)
THEOREM WaitersAlwaysMatch == Spec => []WaitersMatch
<1>1. IInv => WaitersMatch
  BY DEF IInv, Inv, Own, OwnWaiter, WaitersMatch
<1> QED
  BY <1>1, Invariance, PTL

(* A call with a transport-backed session replies with the answer to its    *)
(* own message, by an event or from the transcript, after any number of     *)
(* attempts, aborts and rotations.                                          *)
THEOREM RepliesAreOwn == Spec => []ReplyIsOwn
<1>1. IInv => ReplyIsOwn
  BY DEF IInv, Inv, Own, OwnText, ReplyIsOwn
<1> QED
  BY <1>1, Invariance, PTL

(* The run a call waits for is its message's active run and is listed for   *)
(* the rotation, unless its message was pushed twice.                       *)
THEOREM WaitingRunsAreListed == Spec => []WaitingRunIsListed
<1>1. IInv => WaitingRunIsListed
  BY DEF IInv, Inv, Own, OwnListing, WaitingRunIsListed
<1> QED
  BY <1>1, Invariance, PTL

(* The wait for a continuation after an empty final is never opened:        *)
(* neither way into it is ever taken.                                       *)
THEOREM NoContinuation == Spec => []EmptyFinalNeverSettles
<1>1. IInv => EmptyFinalNeverSettles
  BY DEF IInv, Inv, Own, OwnText, EmptyFinalNeverSettles
<1> QED
  BY <1>1, Invariance, PTL
=============================================================================

----------------------------- MODULE ChatRunner -----------------------------
(***************************************************************************)
(* Chat tasks on the gateway (src/openclaw/chatRunner.ts): chat.send with  *)
(* an idempotency key, the wait for the run's final event or for its       *)
(* answer in the session transcript, the retries, and the rotation of a    *)
(* session with "/new" under the maintenance lock.  One session.           *)
(*                                                                         *)
(* A call is one runChatTask(); two calls of the same message are a        *)
(* repeated push.  Calls, events and polls interleave at every await; what *)
(* runs between two awaits is one step.  Time is left out: an armed timer  *)
(* may fire at any moment, and whether a deadline leaves room for one more *)
(* attempt is an open choice.                                              *)
(*                                                                         *)
(* The gateway is external: it gives a key the run it has for it, or a new *)
(* one; a session's runs take their turn; a run writes its user line, then *)
(* an assistant line, and sends events, which a dropped connection loses.  *)
(***************************************************************************)
EXTENDS Naturals, Sequences, Functions

CONSTANTS Call,             \* runChatTask() calls
          Message,          \* backendMessageIds
          Pushes,           \* bound: whose messages the calls are (or Nobody's), and how
                            \* many failures, retries, aborts and rotations they meet
          Slash,            \* messages that are slash commands
          Image,            \* messages with an upload fallback
          Backed,           \* the session key is transport-backed (tg:, whatsapp-personal:)
          Attempts,         \* retry.attempts
          ConflictAttempts, \* retry.replySessionInitConflictAttempts
          MaxRuns,          \* bound: runs the gateway starts
          MaxEvents,        \* bound: events of a run
          Rotator, Nobody   \* startNewSessionForAll(); no caller

ASSUME ChatAssumption ==
    /\ Pushes \subseteq [msg : [Call -> Message \cup {Nobody}], trouble : Nat]
    /\ Slash \subseteq Message /\ Image \subseteq Message
    /\ Backed \in BOOLEAN
    /\ Attempts \in Nat \ {0} /\ ConflictAttempts \in Nat
    /\ Attempts <= ConflictAttempts
    /\ MaxRuns \in Nat /\ MaxEvents \in Nat \ {0}
    /\ Rotator \notin Call /\ Nobody \notin Call \cup {Rotator}

Run == 1..MaxRuns
NoRun == 0
Earlier == MaxRuns + 1      \* an exchange of before, with the same text as every message
Author == Run \cup {NoRun, Earlier}
NoKey == <<>>
NoBase == [in |-> 0, lines |-> 0]
Rotation == <<Rotator>>     \* the key of "/new"

VARIABLES
    msg, pc, attempt, suffix, run, fallback,   \* per call
    base, cand, result, author,                \* per call: transcript baseline, candidate, outcome
    timer,                                     \* callers with an armed waitForFinal timer
    waiter,                                    \* waitersByRunId
    events,                                    \* runEventsByRunId
    listed,                                    \* runs in runSessionByRunId
    active,                                    \* activeRunByTaskId
    lock, rot, rotRun,                         \* sessionMaintenanceLock, the rotation
    taken, gw, key, sent, script, file,        \* the gateway and the transcript
    trouble                                    \* how many failures are left

callVars == <<msg, pc, attempt, suffix, run, fallback, base, cand, result, author>>
tableVars == <<timer, waiter, events, listed, active>>
rotVars == <<lock, rot, rotRun>>
gwVars == <<taken, gw, key, sent, script, file>>
vars == <<callVars, tableVars, rotVars, gwVars, trouble>>

Retryable == {"upstream", "transport", "conflict"}   \* classifyRetryableGatewayError
Errors == Retryable \cup {"fatal"}
EventKind == {"text", "final", "empty", "aborted"} \cup Errors
Key == Message \X {"none", "transport", "conflict"} \X (0..ConflictAttempts)

TypeOK ==
    /\ msg \in [Call -> Message \cup {Nobody}]
    /\ pc \in [Call -> {"idle", "locked", "ready", "sending", "started", "waiting", "continuing",
                        "recovering", "releasing", "done"}]
    /\ attempt \in [Call -> 1..ConflictAttempts]
    /\ suffix \in [Call -> {"none", "transport", "conflict"}]
    /\ run \in [Call -> Run \cup {NoRun}] /\ fallback \in [Call -> BOOLEAN]
    /\ base \in [Call -> [in : 0..MaxRuns, lines : 0..MaxRuns + 1]] /\ cand \in [Call -> Author]
    /\ result \in [Call -> {"none", "reply", "error", "no_reply"}]
    /\ author \in [Call -> Author]
    /\ timer \subseteq Call \cup {Rotator}
    /\ waiter \in [Run -> Call \cup {Rotator, Nobody}]
    /\ events \in [Run -> Seq(EventKind)] /\ \A r \in Run : Len(events[r]) <= MaxEvents
    /\ listed \subseteq Run
    /\ active \in [Message -> Run \cup {NoRun}]
    /\ lock \in BOOLEAN /\ rot \in {"idle", "sending", "waiting", "done"}
    /\ rotRun \in Run \cup {NoRun}
    /\ taken \in [Call \cup {Rotator} -> Run \cup {NoRun}]
    /\ gw \in [Run -> {"none", "queued", "live", "dying", "over"}]
    /\ key \in [Run -> Key \cup {NoKey, Rotation}]
    /\ sent \in [Run -> 0..MaxEvents]
    /\ script \in Seq([by : Run \cup {Earlier}, said : BOOLEAN, in : 0..MaxRuns])
    /\ file \in 0..MaxRuns /\ trouble \in Nat

Init ==
    /\ \E p \in Pushes : msg = p.msg /\ trouble = p.trouble
    /\ pc = [c \in Call |-> "idle"] /\ attempt = [c \in Call |-> 1]
    /\ suffix = [c \in Call |-> "none"] /\ run = [c \in Call |-> NoRun]
    /\ fallback = [c \in Call |-> msg[c] \in Image]
    /\ base = [c \in Call |-> NoBase] /\ cand = [c \in Call |-> NoRun]
    /\ result = [c \in Call |-> "none"] /\ author = [c \in Call |-> NoRun]
    /\ timer = {} /\ waiter = [r \in Run |-> Nobody]
    /\ events = [r \in Run |-> <<>>] /\ listed = {}
    /\ active = [m \in Message |-> NoRun]
    /\ lock = FALSE /\ rot = "idle" /\ rotRun = NoRun
    /\ taken = [c \in Call \cup {Rotator} |-> NoRun]
    /\ gw = [r \in Run |-> "none"] /\ key = [r \in Run |-> NoKey] /\ sent = [r \in Run |-> 0]
    /\ script = <<[by |-> Earlier, said |-> TRUE, in |-> 0]>> /\ file = 0

-----------------------------------------------------------------------------
(* The gateway.                                                             *)

Least(a, b) == IF a <= b THEN a ELSE b

RunsOf(m) == {r \in Run : key[r] # NoKey /\ key[r] # Rotation /\ key[r][1] = m}

(* chat.send arrives: a known key gets the run it has.                      *)
Takes(c, k) ==
    LET known == {r \in Run : key[r] = k}
        free == {r \in Run : gw[r] = "none"}
        r == IF known # {} THEN CHOOSE x \in known : TRUE ELSE CHOOSE x \in free : \A y \in free : x <= y
    IN /\ taken[c] = NoRun
       /\ known \cup free # {}
       /\ taken' = [taken EXCEPT ![c] = r]
       /\ gw' = IF known # {} THEN gw ELSE [gw EXCEPT ![r] = "queued"]
       /\ key' = [key EXCEPT ![r] = k]
       /\ UNCHANGED <<callVars, tableVars, rotVars, sent, script, file>>

(* A run has its turn: its user line, or the new session file of "/new".    *)
RunBegins(r) ==
    /\ gw[r] = "queued"
    /\ \A q \in Run : gw[q] \notin {"live", "dying"}
    /\ gw' = [gw EXCEPT ![r] = "live"]
    /\ IF key[r] = Rotation
       THEN file' = Least(file + 1, MaxRuns) /\ UNCHANGED script
       ELSE script' = Append(script, [by |-> r, said |-> FALSE, in |-> file]) /\ UNCHANGED file
    /\ UNCHANGED <<callVars, tableVars, rotVars, taken, key, sent>>

(* Its assistant line; nobody sees it in a file that has been replaced.     *)
RunSpeaks(r) ==
    /\ gw[r] = "live"
    /\ \E i \in DOMAIN script :
         /\ script[i] = [by |-> r, said |-> FALSE, in |-> file]
         /\ script' = [script EXCEPT ![i].said = TRUE]
    /\ UNCHANGED <<callVars, tableVars, rotVars, taken, gw, key, sent, file>>

(* chat.abort of some runs, each of which may come too late or be lost.     *)
AfterAbort(runs, state) ==
    {[r \in Run |-> IF r \in S THEN "dying" ELSE state[r]] :
        S \in SUBSET {r \in runs : state[r] \in {"queued", "live"}}}

Session == {r \in Run : key[r] # NoKey}

(* resetSessionAfterRepeatedReplySessionConflict(), which may fail.         *)
ResetTo(c) == IF attempt[c] >= 2 /\ file < MaxRuns THEN {file, file + 1} ELSE {file}

-----------------------------------------------------------------------------
(* The ends of a call.                                                      *)

(* runChatTask() returns: its finally deletes the message's active run, and *)
(* its variables are gone.                                                  *)
Returns(c, outcome, by) ==
    /\ pc' = [pc EXCEPT ![c] = "done"]
    /\ result' = [result EXCEPT ![c] = outcome]
    /\ author' = [author EXCEPT ![c] = by]
    /\ active' = [active EXCEPT ![msg[c]] = NoRun]
    /\ attempt' = [attempt EXCEPT ![c] = 1] /\ suffix' = [suffix EXCEPT ![c] = "none"]
    /\ run' = [run EXCEPT ![c] = NoRun] /\ fallback' = [fallback EXCEPT ![c] = FALSE]
    /\ base' = [base EXCEPT ![c] = NoBase]
    /\ UNCHANGED msg

(* The next attempt, with the key suffix its reason calls for; buildAttempt- *)
(* IdempotencyKey() keeps the message's own key when there is none.          *)
Backoff(c, reason) ==
    /\ pc' = [pc EXCEPT ![c] = "ready"]
    /\ attempt' = [attempt EXCEPT ![c] = @ + 1]
    /\ suffix' = [suffix EXCEPT ![c] = IF reason \in {"transport", "conflict"} THEN reason ELSE @]
    /\ UNCHANGED <<msg, run, fallback, base, result, author, active>>

Limit(reason) == IF reason = "conflict" THEN ConflictAttempts ELSE Attempts

AttemptKey(c) ==
    IF suffix[c] = "none" \/ attempt[c] = 1 THEN <<msg[c], "none", 0>> ELSE <<msg[c], suffix[c], attempt[c]>>

(* scheduleRunTraceCleanup()                                                *)
Completed(r) == listed' = listed \ {r}

(* takeWaiter(), and consumeRunEvents() of the one whose promise settles;   *)
(* `by' is whose timer or poll does it.                                     *)
Takeaway(r, by) ==
    /\ waiter' = [waiter EXCEPT ![r] = Nobody]
    /\ timer' = timer \ {waiter[r], by}
    /\ cand' = [c \in Call |-> IF waiter[r] = c THEN NoRun ELSE cand[c]]

Consumed(r) == [events EXCEPT ![r] = <<>>]

(* readExistingSessionTranscriptState(): the lines there are before the send. *)
Baseline == [in |-> file, lines |-> Len(script)]

(* readLatestAssistantMessageFromResolvedSessionTranscript(): the assistant  *)
(* line after the last user line that matches, of a file's from a line on.   *)
Latest(c, f, lines) ==
    LET own == {i \in DOMAIN script : /\ script[i].in = f /\ i > lines
                                      /\ script[i].by \in RunsOf(msg[c]) \cup {Earlier}}
    IN IF own = {} THEN NoRun
       ELSE LET last == CHOOSE i \in own : \A j \in own : j <= i
            IN IF script[last].said THEN script[last].by ELSE NoRun

(* A mutant: the baseline is not counted.                                   *)
ReadFromTheTop(c) == Latest(c, file, 0)

(* readLatestAssistantMessageFromSessionTranscript(): the file of the        *)
(* baseline, then the one the session has been rotated to.  Without a        *)
(* transport-backed session key there is no baseline.                        *)
Read(c) ==
    LET known == Latest(c, base[c].in, base[c].lines) IN
    IF Backed /\ (known # NoRun \/ base[c].in = file) THEN known ELSE Latest(c, file, 0)

-----------------------------------------------------------------------------
(* runChatTask()                                                            *)

Begin(c) ==
    /\ pc[c] = "idle" /\ msg[c] # Nobody
    /\ pc' = [pc EXCEPT ![c] = IF lock THEN "locked" ELSE "ready"]
    /\ base' = [base EXCEPT ![c] = Baseline]
    /\ UNCHANGED <<msg, attempt, suffix, run, fallback, cand, result, author, tableVars, rotVars, gwVars>>

(* The voice message cannot be transcribed, or less than 300 ms are left.   *)
GivesUp(c) ==
    /\ pc[c] = "ready"
    /\ Returns(c, "error", NoRun)
    /\ UNCHANGED <<cand, timer, waiter, events, listed, rotVars, gwVars>>

Send(c) ==
    /\ pc[c] = "ready"
    /\ pc' = [pc EXCEPT ![c] = "sending"]
    /\ UNCHANGED <<msg, attempt, suffix, run, fallback, base, cand, result, author, tableVars, rotVars,
                   gwVars>>

GatewayTakes(c) == pc[c] = "sending" /\ Takes(c, AttemptKey(c))

(* A mutant: only a first attempt is registered under its message.          *)
SendReturnsOnce(c) ==
    LET r == taken[c] IN
    /\ pc[c] = "sending"
    /\ r # NoRun
    /\ pc' = [pc EXCEPT ![c] = "started"]
    /\ run' = [run EXCEPT ![c] = r]
    /\ listed' = listed \cup {r}
    /\ active' = IF attempt[c] = 1 THEN [active EXCEPT ![msg[c]] = r] ELSE active
    /\ taken' = [taken EXCEPT ![c] = NoRun]
    /\ UNCHANGED <<msg, attempt, suffix, fallback, base, cand, result, author, timer, waiter, events,
                   rotVars, gw, key, sent, script, file>>

(* The answer: registerRunTrace(), the active run, onRunStarted().          *)
SendReturns(c) ==
    LET r == taken[c] IN
    /\ pc[c] = "sending"
    /\ r # NoRun
    /\ pc' = [pc EXCEPT ![c] = "started"]
    /\ run' = [run EXCEPT ![c] = r]
    /\ listed' = listed \cup {r}
    /\ active' = [active EXCEPT ![msg[c]] = r]
    /\ taken' = [taken EXCEPT ![c] = NoRun]
    /\ UNCHANGED <<msg, attempt, suffix, fallback, base, cand, result, author, timer, waiter, events,
                   rotVars, gw, key, sent, script, file>>

(* chat.send or onRunStarted() throws.  Whatever its class, the send is     *)
(* repeated while there are attempts; a conflict first aborts the session's *)
(* runs, and resets the session from the second attempt on.                 *)
SendRetries(c, reason) ==
    /\ pc[c] \in {"sending", "started"}
    /\ pc[c] = "started" => reason = "other"
    /\ IF reason = "invalid" /\ fallback[c]
       THEN /\ pc' = [pc EXCEPT ![c] = "ready"]
            /\ fallback' = [fallback EXCEPT ![c] = FALSE]
            /\ UNCHANGED <<msg, attempt, suffix, run, base, result, author, active, gw, file>>
       ELSE /\ attempt[c] < Limit(reason)
            /\ Backoff(c, reason)
            /\ IF reason = "conflict"
               THEN gw' \in AfterAbort(Session, gw) /\ file' \in ResetTo(c)
               ELSE UNCHANGED <<gw, file>>
    /\ taken' = [taken EXCEPT ![c] = NoRun]
    /\ UNCHANGED <<cand, timer, waiter, events, listed, rotVars, key, sent, script>>

(* It throws, or answers without a run id, for the last time.               *)
SendFails(c) ==
    /\ pc[c] \in {"sending", "started"}
    /\ Returns(c, "error", NoRun)
    /\ taken' = [taken EXCEPT ![c] = NoRun]
    /\ UNCHANGED <<cand, timer, waiter, events, listed, rotVars, gw, key, sent, script, file>>

-----------------------------------------------------------------------------
(* waitForFinal() and the events.                                           *)

Terminal == EventKind \ {"text"}

(* Which of the stored events settle a wait at once: not an empty final.    *)
Pending(r) == {i \in DOMAIN events[r] : events[r][i] \in Terminal \ {"empty"}}

(* A retryable terminal event with attempts left starts the next attempt,   *)
(* any other looks for the answer in the transcript first.                  *)
Failed(c, kind, state) ==
    \/ /\ kind \in Retryable
       /\ attempt[c] < Limit(kind)
       /\ Backoff(c, kind)
       /\ IF kind = "conflict"
          THEN gw' \in AfterAbort(Session, state) /\ file' \in ResetTo(c)
          ELSE gw' = state /\ UNCHANGED file
       /\ UNCHANGED listed
    \/ /\ pc' = [pc EXCEPT ![c] = "recovering"]
       /\ Completed(run[c])
       /\ gw' = state
       /\ UNCHANGED <<msg, attempt, suffix, run, fallback, base, result, author, active, file>>

(* An event with a text, or an abortion or an empty final after one.        *)
Replies(kind, seen) ==
    kind = "final" \/ (kind \in {"empty", "aborted"} /\ "text" \in Range(seen))

(* The wait settles with an event; `seen' are the events consumed with it,  *)
(* `state' where the runs are then.  An empty final without a text before   *)
(* it would open a second wait, for a continuation.                         *)
Settles(c, kind, seen, state) ==
    IF Replies(kind, seen)
    THEN Completed(run[c]) /\ Returns(c, "reply", run[c]) /\ gw' = state /\ UNCHANGED file
    ELSE IF kind = "empty"
    THEN /\ pc' = [pc EXCEPT ![c] = "continuing"]
         /\ UNCHANGED <<msg, attempt, suffix, run, fallback, base, result, author, active, listed, file>>
         /\ gw' = state
    ELSE Failed(c, kind, state)

Wait(c) ==
    LET r == run[c] IN
    /\ pc[c] = "started"
    /\ IF Pending(r) # {}
       THEN /\ \E i \in Pending(r) : /\ \A j \in Pending(r) : i <= j
                                     /\ Settles(c, events[r][i], events[r], gw)
            /\ events' = Consumed(r)
            /\ UNCHANGED <<timer, waiter>>
       ELSE /\ pc' = [pc EXCEPT ![c] = "waiting"]
            /\ waiter' = [waiter EXCEPT ![r] = c]
            /\ timer' = timer \cup {c}
            /\ UNCHANGED <<msg, attempt, suffix, run, fallback, base, result, author, events, listed,
                           active, gw, file>>
    /\ UNCHANGED <<cand, rotVars, taken, key, sent, script>>

(* handleEvent(): what leaves a waiting call waiting.                       *)
Ignored(c, kind, seen) ==
    kind = "text" \/ (kind = "empty" /\ c # Rotator /\ "text" \notin Range(seen))

(* The rotation's run has ended, or its wait: unlock whoever waits.         *)
Unlocks ==
    /\ lock' = FALSE /\ rot' = "done"
    /\ pc' = [c \in Call |-> IF pc[c] = "locked" THEN "ready" ELSE pc[c]]
    /\ base' = [c \in Call |-> IF pc[c] = "locked" THEN Baseline ELSE base[c]]
    /\ UNCHANGED <<msg, attempt, suffix, run, fallback, result, author, active>>

(* The gateway sends an event, and handleEvent() takes it if it is connected. *)
Event(r, kind, connected) ==
    LET c == waiter[r]
        seen == Append(events[r], kind)
        live == kind \in {"text", "empty"}
        state == [gw EXCEPT ![r] = IF live THEN "live" ELSE "over"]
    IN /\ \/ gw[r] = "live" /\ kind # "aborted" /\ (live => sent[r] < MaxEvents - 1)
          \/ gw[r] = "dying" /\ kind = "aborted"
       /\ sent' = [sent EXCEPT ![r] = IF live THEN @ + 1 ELSE 0]
       /\ IF ~connected \/ c = Nobody \/ Ignored(c, kind, seen)
          THEN /\ gw' = state
               /\ events' = IF connected THEN [events EXCEPT ![r] = seen] ELSE events
               /\ UNCHANGED <<callVars, timer, waiter, listed, active, rotVars, file>>
          ELSE /\ Takeaway(r, c)
               /\ IF c = Rotator
                  THEN /\ Unlocks /\ Completed(r) /\ UNCHANGED rotRun
                       /\ gw' = state
                       /\ events' = [events EXCEPT ![r] = seen]
                       /\ UNCHANGED file
                  ELSE /\ Settles(c, kind, seen, state)
                       /\ events' = Consumed(r)
                       /\ UNCHANGED rotVars
       /\ UNCHANGED <<taken, key, script>>

(* The transcript poll: a candidate that is there twice in a row, at least  *)
(* 1 s apart, is the reply; the run, and the session's other runs, are then *)
(* aborted before the call returns.                                         *)
PollSees(c) ==
    /\ pc[c] = "waiting" /\ waiter[run[c]] = c
    /\ cand[c] # Read(c)
    /\ cand' = [cand EXCEPT ![c] = Read(c)]
    /\ UNCHANGED <<msg, pc, attempt, suffix, run, fallback, base, result, author, tableVars, rotVars, gwVars>>

FoundInTranscript(c) ==
    /\ pc' = [pc EXCEPT ![c] = "releasing"]
    /\ author' = [author EXCEPT ![c] = Read(c)]
    /\ Completed(run[c])
    /\ UNCHANGED <<msg, attempt, suffix, run, fallback, base, result, active, rotVars, gwVars>>

(* A mutant: one observation is enough, and the waiter stays.               *)
PollKeepsWaiter(c) ==
    LET r == run[c] IN
    /\ pc[c] = "waiting" /\ waiter[r] = c
    /\ cand[c] = Read(c) /\ cand[c] # NoRun
    /\ events' = Consumed(r)
    /\ FoundInTranscript(c)
    /\ UNCHANGED <<waiter, timer, cand>>

PollSettles(c) ==
    LET r == run[c] IN
    /\ pc[c] = "waiting" /\ waiter[r] = c
    /\ cand[c] = Read(c) /\ cand[c] # NoRun
    /\ Takeaway(r, c)
    /\ events' = Consumed(r)
    /\ FoundInTranscript(c)

(* releaseTranscriptCompletedRun()                                          *)
Released(c) ==
    /\ pc[c] = "releasing"
    /\ Returns(c, "reply", author[c])
    /\ gw' \in AfterAbort(Session, gw)
    /\ UNCHANGED <<cand, timer, waiter, events, listed, rotVars, taken, key, sent, script, file>>

(* waitForAssistantMessageFromSessionTranscript() after a failed run.       *)
Recovers(c) ==
    /\ pc[c] = "recovering"
    /\ \/ Read(c) # NoRun /\ Returns(c, "reply", Read(c))
       \/ Returns(c, "error", NoRun)
    /\ UNCHANGED <<cand, timer, waiter, events, listed, rotVars, gwVars>>

(* The timer of a wait takes whatever waiter its run has, and the transcript *)
(* is read once more.  Without a waiter the promise is never settled.        *)
TimerTakes(c) ==
    /\ c \in timer \cap Call
    /\ waiter[run[c]] # Nobody
    /\ Takeaway(run[c], c)
    /\ events' = Consumed(run[c])

TimesOutOrphaned(c) ==
    /\ c \in timer \cap Call
    /\ waiter[run[c]] = Nobody
    /\ timer' = timer \ {c}
    /\ UNCHANGED <<callVars, waiter, events, listed, active, rotVars, gwVars>>

TimesOut(c) ==
    /\ TimerTakes(c)
    /\ IF Read(c) # NoRun
       THEN FoundInTranscript(c)
       ELSE /\ gw' \in AfterAbort({run[c]}, gw)
            /\ Completed(run[c])
            /\ Returns(c, IF msg[c] \in Slash THEN "no_reply" ELSE "error", NoRun)
            /\ UNCHANGED <<rotVars, taken, key, sent, script, file>>

TimeoutRetries(c) ==
    /\ TimerTakes(c)
    /\ Read(c) = NoRun /\ msg[c] \notin Slash /\ attempt[c] < Attempts
    /\ gw' \in AfterAbort({run[c]}, gw)
    /\ Backoff(c, "timeout")
    /\ UNCHANGED <<listed, rotVars, taken, key, sent, script, file>>

(* abortTask(): the pipeline gives a message's run up.                      *)
AbortTask(m) ==
    /\ active[m] # NoRun
    /\ gw' \in AfterAbort({active[m]}, gw) \ {gw}
    /\ UNCHANGED <<callVars, tableVars, rotVars, taken, key, sent, script, file>>

-----------------------------------------------------------------------------
(* startNewSessionForAll()                                                  *)

RotationBegins ==
    /\ rot = "idle" /\ ~lock
    /\ lock' = TRUE /\ rot' = "sending"
    /\ gw' \in AfterAbort(listed, gw)
    /\ UNCHANGED <<callVars, tableVars, rotRun, taken, key, sent, script, file>>

RotationTaken == rot = "sending" /\ Takes(Rotator, Rotation)

RotationSent ==
    LET r == taken[Rotator] IN
    /\ rot = "sending" /\ r # NoRun
    /\ rotRun' = r
    /\ IF Range(events[r]) \cap Terminal # {}
       THEN Unlocks /\ UNCHANGED <<timer, waiter, listed>>
       ELSE /\ rot' = "waiting"
            /\ waiter' = [waiter EXCEPT ![r] = Rotator]
            /\ timer' = timer \cup {Rotator}
            /\ listed' = listed \cup {r}
            /\ UNCHANGED <<lock, pc, msg, attempt, suffix, run, fallback, base, result, author, active>>
    /\ UNCHANGED <<cand, events, gwVars>>

(* A mutant: a failed "/new" leaves the lock.                               *)
RotationFailsLocked ==
    /\ rot = "sending"
    /\ rot' = "done"
    /\ UNCHANGED <<callVars, tableVars, lock, rotRun, gwVars>>

RotationFails ==
    /\ rot = "sending"
    /\ Unlocks
    /\ UNCHANGED <<rotRun, cand, timer, waiter, events, listed, gwVars>>

(* Its 15 s are over.                                                       *)
RotationTimesOut ==
    /\ Rotator \in timer
    /\ Takeaway(rotRun, Rotator) /\ Completed(rotRun)
    /\ Unlocks
    /\ UNCHANGED <<rotRun, events, gwVars>>

(* handleGatewayConnectionStateChange(): a wait with a transcript poll is    *)
(* kept; the rotation's has none and is rejected.                            *)
Disconnects ==
    /\ Rotator \in timer
    /\ Takeaway(rotRun, Rotator) /\ Completed(rotRun)
    /\ Unlocks
    /\ UNCHANGED <<rotRun, events, gwVars>>

-----------------------------------------------------------------------------
CallStep(c) ==
    \/ Begin(c) \/ GivesUp(c) \/ Send(c) \/ GatewayTakes(c) \/ SendReturns(c) \/ SendFails(c)
    \/ Wait(c) \/ PollSees(c) \/ PollSettles(c) \/ Released(c) \/ Recovers(c)
    \/ TimesOut(c) \/ TimesOutOrphaned(c)

RotationStep ==
    RotationTaken \/ RotationSent \/ RotationFails \/ RotationTimesOut \/ Disconnects

GatewayStep(r) ==
    RunBegins(r) \/ RunSpeaks(r) \/ \E k \in {"text", "final", "aborted"} : Event(r, k, TRUE)

Trouble ==
    \/ \E c \in Call, reason \in {"transport", "conflict", "invalid", "other"} : SendRetries(c, reason)
    \/ \E c \in Call : TimeoutRetries(c)
    \/ \E r \in Run, k \in EventKind : Event(r, k, FALSE)
    \/ \E r \in Run, k \in Errors \cup {"empty"} : Event(r, k, TRUE)
    \/ \E m \in Message : AbortTask(m)
    \/ RotationBegins

Next ==
    \/ /\ \/ \E c \in Call : CallStep(c)
          \/ \E r \in Run : GatewayStep(r)
          \/ RotationStep
       /\ UNCHANGED trouble
    \/ /\ trouble > 0
       /\ Trouble
       /\ trouble' = trouble - 1

Spec == Init /\ [][Next]_vars

(* The relay's own steps run and its timers fire; every request to the       *)
(* gateway has a timer.  The gateway owes nothing.                           *)
Advances(c) ==
    /\ \/ Begin(c) \/ Send(c) \/ SendFails(c) \/ Wait(c) \/ Released(c) \/ Recovers(c) \/ TimesOut(c)
    /\ UNCHANGED trouble

RotationEnds == (RotationFails \/ RotationTimesOut) /\ UNCHANGED trouble

Fairness == WF_vars(RotationEnds) /\ \A c \in Call : WF_vars(Advances(c))

FairSpec == Spec /\ Fairness

-----------------------------------------------------------------------------
Repeated(c) == \E d \in Call \ {c} : msg[d] = msg[c]

(* A waiter and a call belong together: whoever an event, a poll or a timer *)
(* takes out of the table waits for that very run, and a call that waits is *)
(* in the table with an armed timer.  Only a repeated push of its message,  *)
(* which gets the same run, can take its place.                             *)
WaitersMatch ==
    /\ \A r \in Run : waiter[r] \in Call => pc[waiter[r]] = "waiting" /\ run[waiter[r]] = r
    /\ \A c \in Call : pc[c] = "waiting" /\ ~Repeated(c) => waiter[run[c]] = c /\ c \in timer

(* A reply is the answer to its own message, whichever of the two ways it   *)
(* came, and after any number of attempts and rotations; no exchange of     *)
(* before is taken for it ("does not recover ... from a transcript text     *)
(* match without a gateway final").                                         *)
ReplyIsOwn ==
    Backed => \A c \in Call : result[c] = "reply" => author[c] \in RunsOf(msg[c])

(* An empty final never settles a wait: neither of the two ways in leaves   *)
(* the code that waits for a continuation anything to do.                   *)
EmptyFinalNeverSettles == \A c \in Call : pc[c] # "continuing"

(* The run a call waits for can be aborted: the pipeline finds it under the *)
(* message, and the rotation in its list, unless a repeated push of the     *)
(* message has returned in the meantime.                                    *)
WaitingRunIsListed ==
    \A c \in Call : pc[c] = "waiting" /\ ~Repeated(c) =>
        active[msg[c]] = run[c] /\ run[c] \in listed

(* Every call returns whatever the gateway does, also one that waits for the *)
(* maintenance lock; of a message that was pushed again, one call does.      *)
CallsReturn ==
    []<>(\A c \in Call : pc[c] = "idle" \/ \E d \in Call : msg[d] = msg[c] /\ pc[d] = "done")

(* chatRunner.ts: "Keep the same idempotency key for blind retries": a send *)
(* whose answer was lost is repeated under its key, so that the gateway     *)
(* does not run the message twice at a time.                                *)
OneRunAtATime ==
    \A r, q \in Run :
        r # q /\ key[r] # NoKey /\ key[r] # Rotation /\ key[q] # NoKey /\ key[q] # Rotation
        /\ key[r][1] = key[q][1] => ~(gw[r] \in {"queued", "live"} /\ gw[q] \in {"queued", "live"})
=============================================================================

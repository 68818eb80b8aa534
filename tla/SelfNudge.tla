------------------------------ MODULE SelfNudge ------------------------------
(***************************************************************************)
(* The self nudge (openclaw/selfNudgeRunner.ts, wired in index.ts): when   *)
(* the agent has been silent for a while the relay has a model judge the   *)
(* transcript of the latest request and either closes the request or       *)
(* enqueues a [STATUS_NUDGE] turn.                                         *)
(*                                                                         *)
(* One session.  A transcript is the number of its latest real request and *)
(* how many agent messages came after it.  A tick is cut at its awaits:    *)
(* between two of its steps turns begin, work and end, at the relay or at  *)
(* the gateway alone, and the process may die.                             *)
(***************************************************************************)
EXTENDS Naturals, FiniteSets

CONSTANTS MaxTurns, MaxWork,    \* bounds: requests, agent messages after one
          MaxTrouble,           \* bound: errors and crashes
          FinalNotice, NudgeNotice,     \* settings.finalNoticeEnabled, nudgeNoticeEnabled
          Routed                \* has the activity index a record of the session?

ASSUME NudgeAssumption ==
    /\ MaxTurns \in Nat \ {0} /\ MaxWork \in Nat /\ MaxTrouble \in Nat
    /\ {FinalNotice, NudgeNotice, Routed} \subseteq BOOLEAN

VARIABLES
    turn, work, stale,          \* external: the latest request, the messages after it, is it a day old?
    shown, elsewhere,           \* external: the request at the last visible final delivery, here and
                                \* in the session that the index takes for the best route
    local,                      \* the relay's queue: "idle", "user", "nudge" (waiting), "running"
    remote,                     \* external: a run of the gateway that the relay has no part in
    pc, snap, decision, sample, \* the tick: where it is, its transcript, its decision, an idle answer
    due,                        \* has the wait since the last nudge or activity passed?
    noticed,                    \* state.lastFinalNoticeFingerprint: a request, 0 for none
    cache, disk,                \* the processed store and its file
    trouble,                    \* errors and crashes that may still happen
    notices,                    \* history: final notices per request
    nudged                      \* history: the transcripts nudged, but for nudges not on file at a crash

world == <<turn, work, stale, shown, elsewhere, local, remote>>
memory == <<noticed, cache>>
vars == <<world, pc, snap, decision, sample, due, memory, disk, trouble, notices, nudged>>

Turn == 1..MaxTurns
Transcript == [turn : 0..MaxTurns, work : 0..MaxWork]
None == [kind |-> "none", work |-> 0, told |-> FALSE]
Record == {None} \cup [kind : {"closed", "final", "nudge"}, work : 0..MaxWork, told : BOOLEAN]
Unread == [t \in Turn |-> [kind |-> "unread", work |-> 0, told |-> FALSE]]
Closed(r) == r.kind \in {"closed", "final"}
Steps == {"timer", "listing", "history", "store", "ask1", "asked1", "deciding", "finality", "ask2",
          "asked2", "saving", "noticing", "savingNotice", "noticingNudge", "dead"}

TypeOK ==
    /\ turn \in 0..MaxTurns /\ work \in 0..MaxWork /\ stale \in BOOLEAN
    /\ shown \in 0..MaxTurns /\ elsewhere \in 0..MaxTurns
    /\ local \in {"idle", "user", "nudge", "running"} /\ remote \in BOOLEAN
    /\ pc \in Steps /\ snap \in Transcript /\ sample \in BOOLEAN /\ due \in BOOLEAN
    /\ decision \in {"none", "closed", "final", "nudge"} /\ noticed \in 0..MaxTurns
    /\ cache \in {Unread} \cup [Turn -> Record] /\ disk \in [Turn -> Record]
    /\ trouble \in 0..MaxTrouble
    /\ notices \in [Turn -> Nat] /\ nudged \subseteq Transcript

Init ==
    /\ turn = 0 /\ work = 0 /\ stale = FALSE /\ shown = 0 /\ elsewhere = 0
    /\ local = "idle" /\ remote = FALSE
    /\ pc = "timer" /\ snap = [turn |-> 0, work |-> 0] /\ decision = "none"
    /\ sample = FALSE /\ due = FALSE /\ noticed = 0
    /\ cache = Unread /\ disk = [t \in Turn |-> None]
    /\ trouble = MaxTrouble
    /\ notices = [t \in Turn |-> 0] /\ nudged = {}

-----------------------------------------------------------------------------
(* The world: the relay's queue and the gateway.                            *)

runner == <<pc, snap, decision, sample, memory, disk, trouble, notices, nudged>>

NewRequest == turn < MaxTurns /\ turn' = turn + 1 /\ work' = 0 /\ stale' = FALSE /\ due' = FALSE

UserSends ==
    /\ local = "idle" /\ turn < MaxTurns /\ local' = "user"
    /\ UNCHANGED <<turn, work, stale, shown, elsewhere, remote, due, runner>>

TurnBegins ==
    /\ local \in {"user", "nudge"} /\ local' = "running"
    /\ IF local = "user" THEN NewRequest ELSE UNCHANGED <<turn, work, stale, due>>
    /\ UNCHANGED <<shown, elsewhere, remote, runner>>

TurnEnds ==
    /\ local = "running" /\ local' = "idle"
    /\ UNCHANGED <<turn, work, stale, shown, elsewhere, remote, due, runner>>

(* A request of a client of the gateway, or a run of another session.       *)
RemoteBegins ==
    /\ ~remote /\ remote' = TRUE
    /\ NewRequest \/ UNCHANGED <<turn, work, stale, due>>
    /\ UNCHANGED <<shown, elsewhere, local, runner>>

RemoteEnds ==
    /\ remote /\ remote' = FALSE
    /\ UNCHANGED <<turn, work, stale, shown, elsewhere, local, due, runner>>

AgentWorks ==
    /\ local = "running" \/ remote
    /\ turn # 0 /\ work < MaxWork /\ work' = work + 1 /\ due' = FALSE
    /\ UNCHANGED <<turn, stale, shown, elsewhere, local, remote, runner>>

(* recordVisibleDelivery() or the agent's message tool.                     *)
AgentShows ==
    /\ turn # 0
    /\ \/ (local = "running" \/ remote) /\ shown' = turn /\ UNCHANGED elsewhere
       \/ elsewhere' = turn /\ UNCHANGED shown
    /\ UNCHANGED <<turn, work, stale, local, remote, due, runner>>

(* MAX_SELF_NUDGE_LATEST_USER_AGE_MS                                        *)
GrowsStale ==
    /\ turn # 0 /\ ~stale /\ stale' = TRUE
    /\ UNCHANGED <<turn, work, shown, elsewhere, local, remote, due, runner>>

WaitPasses ==
    /\ ~due /\ turn # 0 /\ due' = TRUE
    /\ UNCHANGED <<world, runner>>

-----------------------------------------------------------------------------
(* tick(): every way out of it sets the timer again but an error.           *)

Idle == local = "idle"
RuntimeIdle == local # "running" /\ ~remote
Goes(to) == pc' = to
Error == trouble > 0 /\ trouble' = trouble - 1

Tick ==
    /\ pc = "timer" /\ Idle /\ Goes("listing")
    /\ UNCHANGED <<world, snap, decision, sample, due, memory, disk, trouble, notices, nudged>>

(* sessions.list                                                            *)
Listed ==
    /\ pc = "listing"
    /\ \/ RuntimeIdle /\ Goes("history") /\ UNCHANGED trouble
       \/ ~RuntimeIdle /\ Goes("timer") /\ UNCHANGED trouble
       \/ Error /\ Goes("timer")
    /\ UNCHANGED <<world, snap, decision, sample, due, memory, disk, notices, nudged>>

(* chat.history, and what is decided without an await.  A request that was  *)
(* not judged before starts anew; an old one leaves the notice's mark.      *)
HistoryRead ==
    /\ pc = "history"
    /\ \/ /\ snap' = [turn |-> turn, work |-> work]
          /\ noticed' = IF turn \in {0, noticed} \/ stale THEN noticed ELSE 0
          /\ Goes(IF turn # 0 /\ ~stale /\ due THEN "store" ELSE "timer")
          /\ UNCHANGED trouble
       \/ Error /\ Goes("timer") /\ UNCHANGED <<snap, noticed>>
    /\ UNCHANGED <<world, decision, sample, due, cache, disk, notices, nudged>>

(* A mutant: a nudge on record is not compared with the transcript.         *)
JudgedIfClosed(records) == Closed(records[snap.turn])

(* A mutant: only an unchanged transcript stops the judgement.              *)
JudgedIfNudged(records) ==
    records[snap.turn].kind # "none" /\ records[snap.turn].work = snap.work

(* A closed request, or a nudge that nothing has been said after.           *)
Judged(records) ==
    LET r == records[snap.turn] IN
    Closed(r) \/ (r.kind = "nudge" /\ r.work = snap.work)

(* processedStore.get(), and the first half of the first confirmIdle().     *)
LooksUp ==
    LET records == IF cache = Unread THEN disk ELSE cache IN
    /\ pc = "store" /\ cache' = records
    /\ noticed' = IF ~Closed(records[snap.turn]) THEN noticed
                  ELSE IF records[snap.turn].told THEN snap.turn ELSE 0
    /\ Goes(IF ~Judged(records) /\ Idle THEN "ask1" ELSE "timer")
    /\ UNCHANGED <<world, snap, decision, sample, due, disk, trouble, notices, nudged>>

(* isOpenclawRuntimeIdle(); an error counts as busy.                        *)
Asked ==
    /\ pc \in {"ask1", "ask2"}
    /\ Goes(IF pc = "ask1" THEN "asked1" ELSE "asked2")
    /\ \/ sample' = RuntimeIdle /\ UNCHANGED trouble
       \/ Error /\ sample' = FALSE
    /\ UNCHANGED <<world, snap, decision, due, memory, disk, notices, nudged>>

ConfirmedBefore ==
    /\ pc = "asked1" /\ sample' = FALSE
    /\ Goes(IF sample /\ Idle THEN "deciding" ELSE "timer")
    /\ UNCHANGED <<world, snap, decision, due, memory, disk, trouble, notices, nudged>>

Asks == Goes(IF Idle THEN "ask2" ELSE "timer")

(* The model's answer; a failed request or an empty answer throws.          *)
Decides ==
    /\ pc = "deciding"
    /\ \/ \E d \in {"closed", "final", "nudge"} :
            /\ decision' = d
            /\ IF d = "final" THEN Goes("finality") ELSE Asks
          /\ UNCHANGED trouble
       \/ Error /\ Goes("dead") /\ UNCHANGED decision
    /\ UNCHANGED <<world, snap, sample, due, memory, disk, notices, nudged>>

(* A mutant: a delivery of an earlier request counts.                       *)
EvidenceOfOld(t) == shown # 0

(* findVisibleFinality(): deliveries since the request, of the session or,  *)
(* if the index does not know it, of the best route, or in its history;     *)
(* they may be missed, as the index keeps 50 of them and may lose a save.   *)
Evidence(t) == shown >= t \/ (~Routed /\ elsewhere >= t)

FindsFinality ==
    /\ pc = "finality"
    /\ \/ /\ \/ Evidence(snap.turn) /\ decision' = "final"
             \/ decision' = "nudge"
          /\ Asks /\ UNCHANGED trouble
       \/ Error /\ Goes("dead") /\ UNCHANGED decision
    /\ UNCHANGED <<world, snap, sample, due, memory, disk, notices, nudged>>

(* The second confirmIdle() ends; then nothing else runs until the record   *)
(* is in the cache: a nudge is enqueued before it.                          *)
Concludes ==
    /\ pc = "asked2" /\ sample' = FALSE
    /\ IF sample /\ Idle
       THEN /\ Goes("saving")
            /\ cache' = [cache EXCEPT ![snap.turn] = [kind |-> decision, work |-> snap.work, told |-> @.told]]
            /\ local' = IF decision = "nudge" THEN "nudge" ELSE local
            /\ nudged' = IF decision = "nudge" THEN nudged \cup {snap} ELSE nudged
       ELSE Goes("timer") /\ UNCHANGED <<cache, local, nudged>>
    /\ UNCHANGED <<turn, work, stale, shown, elsewhere, remote,
                   snap, decision, due, noticed, disk, trouble, notices>>

AfterSave ==
    IF decision = "final" /\ FinalNotice /\ noticed # snap.turn THEN "noticing"
    ELSE IF decision = "nudge" /\ NudgeNotice THEN "noticingNudge" ELSE "timer"

(* A mutant: a nudge is kept in memory.                                     *)
SavesVerdicts ==
    /\ pc = "saving"
    /\ \/ /\ disk' = IF decision = "nudge" THEN disk ELSE cache
          /\ UNCHANGED trouble
          /\ Goes(AfterSave)
          /\ due' = IF decision = "nudge" THEN FALSE ELSE due
       \/ Error /\ Goes("dead") /\ UNCHANGED <<disk, due>>
    /\ UNCHANGED <<world, snap, decision, sample, memory, notices, nudged>>

(* markAnalyzed()                                                           *)
Saves ==
    /\ pc = "saving"
    /\ \/ /\ disk' = cache /\ UNCHANGED trouble
          /\ Goes(AfterSave)
          /\ due' = IF decision = "nudge" THEN FALSE ELSE due
       \/ Error /\ Goes("dead") /\ UNCHANGED <<disk, due>>
    /\ UNCHANGED <<world, snap, decision, sample, memory, notices, nudged>>

(* notifyFinalDecision(): a notice that throws may have been delivered.     *)
Notifies ==
    /\ pc = "noticing"
    /\ \/ /\ noticed' = snap.turn /\ Goes("savingNotice") /\ UNCHANGED trouble
          /\ notices' = [notices EXCEPT ![snap.turn] = @ + 1]
          /\ cache' = [cache EXCEPT ![snap.turn].told = TRUE]
       \/ /\ Error /\ Goes("dead") /\ UNCHANGED memory
          /\ \E sent \in 0..1 : notices' = [notices EXCEPT ![snap.turn] = @ + sent]
    /\ UNCHANGED <<world, snap, decision, sample, due, disk, nudged>>

(* markFinalNoticeSent()                                                    *)
SavesNotice ==
    /\ pc = "savingNotice"
    /\ \/ Goes("timer") /\ disk' = cache /\ UNCHANGED trouble
       \/ Error /\ Goes("dead") /\ UNCHANGED disk
    /\ UNCHANGED <<world, snap, decision, sample, due, memory, notices, nudged>>

NotifiesNudge ==
    /\ pc = "noticingNudge"
    /\ \/ Goes("timer") /\ UNCHANGED trouble
       \/ Error /\ Goes("dead")
    /\ UNCHANGED <<world, snap, decision, sample, due, memory, disk, notices, nudged>>

(* The relay dies and starts again; what the gateway runs goes on.          *)
Crash ==
    /\ Error /\ Goes("timer")
    /\ cache' = Unread /\ noticed' = 0 /\ due' = FALSE
    /\ decision' = "none" /\ sample' = FALSE /\ snap' = [turn |-> 0, work |-> 0]
    /\ local' = "idle" /\ remote' = (remote \/ local = "running")
    /\ nudged' = IF cache \in {Unread, disk} THEN nudged ELSE nudged \ {snap}
    /\ UNCHANGED <<turn, work, stale, shown, elsewhere, disk, notices>>

-----------------------------------------------------------------------------
World == UserSends \/ TurnBegins \/ TurnEnds \/ RemoteBegins \/ RemoteEnds
         \/ AgentWorks \/ AgentShows \/ GrowsStale
Runner == Tick \/ Listed \/ HistoryRead \/ LooksUp \/ Asked \/ ConfirmedBefore \/ Decides
          \/ FindsFinality \/ Concludes \/ Saves \/ Notifies \/ SavesNotice \/ NotifiesNudge

Next == World \/ WaitPasses \/ Runner \/ Crash

Spec == Init /\ [][Next]_vars

(* Timers fire and what the tick awaits ends, well or not.                  *)
FairSpec == Spec /\ WF_vars(WaitPasses) /\ WF_vars(Runner)

-----------------------------------------------------------------------------
Nudging == local # "nudge" /\ local' = "nudge"

(* Test: "does not repeat the same persisted nudge when the analysis        *)
(* transcript is unchanged", also across restarts, but for a nudge that was *)
(* not on file when the relay died.                                         *)
NudgedOnce == [][ Nudging => snap \notin nudged ]_vars

(* Test: "persists final decisions so restart does not send delayed final   *)
(* notices": a request that is closed on file is neither nudged, judged     *)
(* again nor announced again, whatever the gateway or a crash does.         *)
ClosedStaysClosed ==
    [][ \A t \in Turn : Closed(disk[t]) =>
          /\ disk'[t].kind = disk[t].kind
          /\ Nudging => snap.turn # t
          /\ notices'[t] # notices[t] => notices[t] = 0 ]_vars

(* Test: "does not close a turn on private final text without visible       *)
(* finality evidence": a request on record as final was followed by a final *)
(* delivery to the user, though requests, runs and the delivery come while  *)
(* the model and the index are asked.                                       *)
ClosedOnlyWhenShown ==
    \A t \in Turn : disk[t].kind = "final" \/ cache[t].kind = "final" => shown >= t

(* A request that the agent has left is closed or nudged at last, as long   *)
(* as no step of a tick throws.                                             *)
Stalled == local = "idle" /\ ~remote /\ turn # 0 /\ ~stale /\ pc # "dead"
StalledTurnIsJudged ==
    <>[]Stalled => <>[](/\ turn # 0 /\ disk[turn].kind # "none"
                        /\ disk[turn].kind = "nudge" => disk[turn].work = work)
=============================================================================

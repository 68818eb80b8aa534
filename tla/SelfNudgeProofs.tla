--------------------------- MODULE SelfNudgeProofs ---------------------------
(***************************************************************************)
(* The safety of the self nudge, for any number of requests, of messages   *)
(* after a request, and of errors and crashes, with and without notices.   *)
(***************************************************************************)
EXTENDS SelfNudge, TLAPS

(* The tick between the look at the store and the verdict, and after it.    *)
Judging == {"ask1", "asked1", "deciding", "finality", "ask2", "asked2"}
Writing == {"saving", "noticing", "savingNotice", "noticingNudge"}

(* The parts of TypeOK, each small enough for one leaf, and what the types  *)
(* of the records need: a tick past its transcript has one, past the store  *)
(* it has the records, past the model it has a decision.                    *)
WorldTypes ==
    /\ turn \in 0..MaxTurns /\ work \in 0..MaxWork
    /\ shown \in 0..MaxTurns /\ elsewhere \in 0..MaxTurns
    /\ local \in {"idle", "user", "nudge", "running"} /\ trouble \in 0..MaxTrouble
FlagTypes == stale \in BOOLEAN /\ remote \in BOOLEAN /\ due \in BOOLEAN /\ sample \in BOOLEAN
TickTypes ==
    /\ pc \in Steps /\ snap \in Transcript
    /\ decision \in {"none", "closed", "final", "nudge"} /\ noticed \in 0..MaxTurns
StoreTypes == cache \in {Unread} \cup [Turn -> Record] /\ disk \in [Turn -> Record]
HistoryTypes == notices \in [Turn -> Nat] /\ nudged \subseteq Transcript
InHand ==
    /\ pc \in {"store"} \cup Judging \cup Writing => snap.turn # 0
    /\ pc \in Judging \cup Writing => cache # Unread
    /\ pc \in {"ask2", "asked2"} \cup Writing => decision # "none"
    /\ pc \in {"saving", "noticing"} => cache[snap.turn].kind = decision

TypeInv == WorldTypes /\ FlagTypes /\ TickTypes /\ StoreTypes /\ HistoryTypes /\ InHand

(* A tick that goes to the store with a final decision has its evidence.    *)
ShownInv ==
    /\ shown <= turn
    /\ pc \in {"ask2", "asked2"} /\ decision = "final" => shown >= snap.turn
    /\ ClosedOnlyWhenShown

(* What is closed on file is closed in the cache, nothing closed is judged, *)
(* and a notice goes out once, after the verdict is on file.                *)
FileInv ==
    /\ pc \in Judging => ~Closed(cache[snap.turn])
    /\ cache # Unread => \A t \in Turn : Closed(disk[t]) => cache[t].kind = disk[t].kind
    /\ pc = "noticing" => decision = "final" /\ Closed(disk[snap.turn])
    /\ \A t \in Turn : notices[t] # 0 => Closed(disk[t])
    /\ pc \in {"saving", "noticing"} /\ decision = "final" => notices[snap.turn] = 0

(* The records s leaves: closed since, or nudged at s or later.             *)
Kept(records, s) ==
    LET r == records[s.turn] IN Closed(r) \/ (r.kind = "nudge" /\ s.work <= r.work)

(* Records are of the past.                                                 *)
Past(records) ==
    \A t \in Turn : records[t].kind # "none" => t <= turn /\ (t = turn => records[t].work <= work)

(* A tick judges a transcript that its record, which is older, does not     *)
(* settle, and the cache differs from the file only while it is saved.      *)
PastInv ==
    /\ Past(disk) /\ (cache # Unread => Past(cache))
    /\ snap.turn <= turn /\ (snap.turn = turn => snap.work <= work)
SnapInv ==
    /\ pc = "store" \/ pc \in Judging => disk[snap.turn].work <= snap.work
    /\ pc \in Judging => ~Judged(cache)
    /\ pc \notin {"saving", "savingNotice", "dead"} => cache \in {Unread, disk}

(* Every nudge is in the cache, and on file but for one being saved.        *)
NudgeInv ==
    /\ cache # Unread => \A s \in nudged : Kept(cache, s)
    /\ \A s \in nudged : s.turn # 0 /\ (Kept(disk, s) \/ (s = snap /\ cache \notin {Unread, disk}))

RecordInv == PastInv /\ SnapInv /\ NudgeInv

(* What is known of a tick that has its transcript or its verdict.          *)
Tracked ==
    /\ turn \in Nat /\ work \in Nat /\ snap.turn \in Nat /\ snap.work \in Nat
    /\ pc = "store" \/ pc \in Judging \cup Writing => snap.turn \in Turn
    /\ pc \in Judging \cup Writing => cache # Unread
    /\ cache # Unread => cache \in [Turn -> Record]
    /\ disk \in [Turn -> Record] /\ disk # Unread
    /\ \A s \in nudged : s.turn \in Nat /\ s.work \in Nat /\ (s.turn # 0 => s.turn \in Turn)

(* One step keeps the types: a file that was read is not taken for unread. *)
LEMMA FileIsRead ==
    ASSUME NEW records \in [Turn -> Record]
    PROVE  records # Unread
<1>1. 1 \in Turn
  BY NudgeAssumption DEF Turn
<1>2. records[1].kind # "unread"
  BY <1>1 DEF Record, None
<1> QED
  BY <1>1, <1>2 DEF Unread

(* One step keeps the types, and what a tick has in hand.                   *)
LEMMA StepTypes ==
    ASSUME TypeInv, [Next]_vars
    PROVE  TypeInv'
<1> USE DEF TypeInv
<1>a. MaxTurns \in Nat /\ MaxWork \in Nat /\ MaxTrouble \in Nat
  BY NudgeAssumption
<1>0. CASE UNCHANGED vars
  BY <1>0 DEF vars, world, memory, WorldTypes, FlagTypes, TickTypes, StoreTypes, HistoryTypes, InHand
<1>1. CASE UserSends
  <2>1. WorldTypes'
    BY <1>a, <1>1 DEF UserSends, world, runner, WorldTypes
  <2>3. FlagTypes'
    BY <1>1, Zenon DEF UserSends, world, runner, FlagTypes
  <2>2. UNCHANGED runner
    BY <1>1 DEF UserSends
  <2> QED
    BY <2>1, <2>2, <2>3 DEF runner, memory, TickTypes, StoreTypes, HistoryTypes, InHand
<1>2. CASE TurnBegins
  <2>1. WorldTypes'
    BY <1>a, <1>2 DEF TurnBegins, NewRequest, world, runner, WorldTypes
  <2>3. FlagTypes'
    BY <1>2, Zenon DEF TurnBegins, NewRequest, world, runner, FlagTypes
  <2>2. UNCHANGED runner
    BY <1>2 DEF TurnBegins
  <2> QED
    BY <2>1, <2>2, <2>3 DEF runner, memory, TickTypes, StoreTypes, HistoryTypes, InHand
<1>3. CASE TurnEnds
  <2>1. WorldTypes'
    BY <1>a, <1>3 DEF TurnEnds, world, runner, WorldTypes
  <2>3. FlagTypes'
    BY <1>3, Zenon DEF TurnEnds, world, runner, FlagTypes
  <2>2. UNCHANGED runner
    BY <1>3 DEF TurnEnds
  <2> QED
    BY <2>1, <2>2, <2>3 DEF runner, memory, TickTypes, StoreTypes, HistoryTypes, InHand
<1>4. CASE RemoteBegins
  <2>1. WorldTypes'
    BY <1>a, <1>4 DEF RemoteBegins, NewRequest, world, runner, WorldTypes
  <2>3. FlagTypes'
    BY <1>4, Zenon DEF RemoteBegins, NewRequest, world, runner, FlagTypes
  <2>2. UNCHANGED runner
    BY <1>4 DEF RemoteBegins
  <2> QED
    BY <2>1, <2>2, <2>3 DEF runner, memory, TickTypes, StoreTypes, HistoryTypes, InHand
<1>5. CASE RemoteEnds
  <2>1. WorldTypes'
    BY <1>a, <1>5 DEF RemoteEnds, world, runner, WorldTypes
  <2>3. FlagTypes'
    BY <1>5, Zenon DEF RemoteEnds, world, runner, FlagTypes
  <2>2. UNCHANGED runner
    BY <1>5 DEF RemoteEnds
  <2> QED
    BY <2>1, <2>2, <2>3 DEF runner, memory, TickTypes, StoreTypes, HistoryTypes, InHand
<1>6. CASE AgentWorks
  <2>1. WorldTypes'
    BY <1>a, <1>6 DEF AgentWorks, world, runner, WorldTypes
  <2>3. FlagTypes'
    BY <1>6, Zenon DEF AgentWorks, world, runner, FlagTypes
  <2>2. UNCHANGED runner
    BY <1>6 DEF AgentWorks
  <2> QED
    BY <2>1, <2>2, <2>3 DEF runner, memory, TickTypes, StoreTypes, HistoryTypes, InHand
<1>7. CASE AgentShows
  <2>1. WorldTypes'
    BY <1>a, <1>7 DEF AgentShows, world, runner, WorldTypes
  <2>3. FlagTypes'
    BY <1>7, Zenon DEF AgentShows, world, runner, FlagTypes
  <2>2. UNCHANGED runner
    BY <1>7 DEF AgentShows
  <2> QED
    BY <2>1, <2>2, <2>3 DEF runner, memory, TickTypes, StoreTypes, HistoryTypes, InHand
<1>8. CASE GrowsStale
  <2>1. WorldTypes'
    BY <1>a, <1>8 DEF GrowsStale, world, runner, WorldTypes
  <2>3. FlagTypes'
    BY <1>8, Zenon DEF GrowsStale, world, runner, FlagTypes
  <2>2. UNCHANGED runner
    BY <1>8 DEF GrowsStale
  <2> QED
    BY <2>1, <2>2, <2>3 DEF runner, memory, TickTypes, StoreTypes, HistoryTypes, InHand
<1>9. CASE WaitPasses
  <2>1. WorldTypes'
    BY <1>a, <1>9 DEF WaitPasses, world, runner, WorldTypes
  <2>3. FlagTypes'
    BY <1>9, Zenon DEF WaitPasses, world, runner, FlagTypes
  <2>2. UNCHANGED runner
    BY <1>9 DEF WaitPasses
  <2> QED
    BY <2>1, <2>2, <2>3 DEF runner, memory, TickTypes, StoreTypes, HistoryTypes, InHand
<1>10. CASE Tick
  <2>1. WorldTypes'
    BY <1>a, <1>10 DEF Tick, Goes, world, WorldTypes
  <2>2. TickTypes'
    BY <1>a, <1>10 DEF Tick, Goes, world, memory, WorldTypes, TickTypes, Transcript, Steps
  <2>3. StoreTypes'
    BY <1>10 DEF Tick, Goes, memory, StoreTypes
  <2>4. HistoryTypes'
    BY <1>10 DEF Tick, Goes, memory, HistoryTypes
  <2>5. InHand'
    BY <1>10 DEF Tick, Goes, memory, InHand, Judging, Writing
  <2>6. FlagTypes'
    BY <1>10, Zenon DEF Tick, Goes, world, runner, FlagTypes
  <2> QED
    BY <2>1, <2>2, <2>3, <2>4, <2>5, <2>6
<1>11. CASE Listed
  <2>1. WorldTypes'
    BY <1>a, <1>11 DEF Listed, Goes, Error, world, WorldTypes
  <2>2. TickTypes'
    BY <1>a, <1>11 DEF Listed, Goes, Error, world, memory, WorldTypes, TickTypes, Transcript, Steps
  <2>3. StoreTypes'
    BY <1>11 DEF Listed, Goes, Error, memory, StoreTypes
  <2>4. HistoryTypes'
    BY <1>11 DEF Listed, Goes, Error, memory, HistoryTypes
  <2>5. InHand'
    BY <1>11 DEF Listed, Goes, Error, memory, InHand, Judging, Writing
  <2>6. FlagTypes'
    BY <1>11, Zenon DEF Listed, Goes, Error, world, runner, FlagTypes
  <2> QED
    BY <2>1, <2>2, <2>3, <2>4, <2>5, <2>6
<1>12. CASE HistoryRead
  <2>1. WorldTypes'
    BY <1>a, <1>12 DEF HistoryRead, Goes, Error, world, WorldTypes
  <2>2. TickTypes'
    BY <1>a, <1>12 DEF HistoryRead, Goes, Error, world, memory, WorldTypes, TickTypes, Transcript, Steps
  <2>3. StoreTypes'
    BY <1>12 DEF HistoryRead, Goes, Error, memory, StoreTypes
  <2>4. HistoryTypes'
    BY <1>12 DEF HistoryRead, Goes, Error, memory, HistoryTypes
  <2>5. InHand'
    BY <1>12 DEF HistoryRead, Goes, Error, memory, InHand, Judging, Writing
  <2>6. FlagTypes'
    BY <1>12, Zenon DEF HistoryRead, Goes, Error, world, runner, FlagTypes
  <2> QED
    BY <2>1, <2>2, <2>3, <2>4, <2>5, <2>6
<1>13. CASE LooksUp
  <2>0. cache' # Unread
    BY <1>13, FileIsRead DEF LooksUp, StoreTypes
  <2>1. WorldTypes'
    BY <1>a, <1>13 DEF LooksUp, Goes, world, WorldTypes
  <2>2. TickTypes'
    BY <1>a, <1>13 DEF LooksUp, Goes, world, memory, WorldTypes, TickTypes, Transcript, Steps
  <2>3. StoreTypes'
    BY <1>13 DEF LooksUp, Goes, memory, StoreTypes
  <2>4. HistoryTypes'
    BY <1>13 DEF LooksUp, Goes, memory, HistoryTypes
  <2>5. InHand'
    BY <1>13, <2>0 DEF LooksUp, Goes, memory, InHand, Judging, Writing
  <2>6. FlagTypes'
    BY <1>13, Zenon DEF LooksUp, Goes, world, runner, FlagTypes
  <2> QED
    BY <2>1, <2>2, <2>3, <2>4, <2>5, <2>6
<1>14. CASE Asked
  <2>1. WorldTypes'
    BY <1>a, <1>14 DEF Asked, Goes, Error, world, WorldTypes
  <2>2. TickTypes'
    BY <1>a, <1>14 DEF Asked, Goes, Error, world, memory, WorldTypes, TickTypes, Transcript, Steps
  <2>3. StoreTypes'
    BY <1>14 DEF Asked, Goes, Error, memory, StoreTypes
  <2>4. HistoryTypes'
    BY <1>14 DEF Asked, Goes, Error, memory, HistoryTypes
  <2>5. InHand'
    BY <1>14 DEF Asked, Goes, Error, memory, InHand, Judging, Writing
  <2>6. FlagTypes'
    BY <1>14, Zenon DEF Asked, Goes, Error, world, runner, FlagTypes, RuntimeIdle
  <2> QED
    BY <2>1, <2>2, <2>3, <2>4, <2>5, <2>6
<1>15. CASE ConfirmedBefore
  <2>1. WorldTypes'
    BY <1>a, <1>15 DEF ConfirmedBefore, Goes, world, WorldTypes
  <2>2. TickTypes'
    BY <1>a, <1>15 DEF ConfirmedBefore, Goes, world, memory, WorldTypes, TickTypes, Transcript, Steps
  <2>3. StoreTypes'
    BY <1>15 DEF ConfirmedBefore, Goes, memory, StoreTypes
  <2>4. HistoryTypes'
    BY <1>15 DEF ConfirmedBefore, Goes, memory, HistoryTypes
  <2>5. InHand'
    BY <1>15 DEF ConfirmedBefore, Goes, memory, InHand, Judging, Writing
  <2>6. FlagTypes'
    BY <1>15, Zenon DEF ConfirmedBefore, Goes, world, runner, FlagTypes
  <2> QED
    BY <2>1, <2>2, <2>3, <2>4, <2>5, <2>6
<1>16. CASE Decides
  <2>1. WorldTypes'
    BY <1>a, <1>16 DEF Decides, Goes, Error, Asks, world, WorldTypes
  <2>2. TickTypes'
    BY <1>a, <1>16 DEF Decides, Goes, Error, Asks, world, memory, WorldTypes, TickTypes, Transcript, Steps
  <2>3. StoreTypes'
    BY <1>16 DEF Decides, Goes, Error, Asks, memory, StoreTypes
  <2>4. HistoryTypes'
    BY <1>16 DEF Decides, Goes, Error, Asks, memory, HistoryTypes
  <2>5. InHand'
    BY <1>16 DEF Decides, Goes, Error, Asks, memory, InHand, Judging, Writing
  <2>6. FlagTypes'
    BY <1>16, Zenon DEF Decides, Goes, Error, Asks, world, runner, FlagTypes
  <2> QED
    BY <2>1, <2>2, <2>3, <2>4, <2>5, <2>6
<1>17. CASE FindsFinality
  <2>1. WorldTypes'
    BY <1>a, <1>17 DEF FindsFinality, Goes, Error, Asks, world, WorldTypes
  <2>2. TickTypes'
    BY <1>a, <1>17 DEF FindsFinality, Goes, Error, Asks, world, memory, WorldTypes, TickTypes, Transcript, Steps
  <2>3. StoreTypes'
    BY <1>17 DEF FindsFinality, Goes, Error, Asks, memory, StoreTypes
  <2>4. HistoryTypes'
    BY <1>17 DEF FindsFinality, Goes, Error, Asks, memory, HistoryTypes
  <2>5. InHand'
    BY <1>17 DEF FindsFinality, Goes, Error, Asks, memory, InHand, Judging, Writing
  <2>6. FlagTypes'
    BY <1>17, Zenon DEF FindsFinality, Goes, Error, Asks, world, runner, FlagTypes
  <2> QED
    BY <2>1, <2>2, <2>3, <2>4, <2>5, <2>6
<1>18. CASE Concludes
  <2>7. snap.turn \in Turn /\ snap.work \in 0..MaxWork
    BY <1>18 DEF Concludes, TickTypes, InHand, Transcript, Turn, Judging, Writing
  <2>8. cache \in [Turn -> Record]
    BY <1>18 DEF Concludes, StoreTypes, InHand, Judging, Writing
  <2>0. cache' # cache => cache' \in [Turn -> Record] /\ cache' # Unread
    <3>3. cache[snap.turn] \in Record
      BY <2>7, <2>8
    <3>4. cache[snap.turn].told \in BOOLEAN
      <4>1. CASE cache[snap.turn] = None
        <5>1. None.told = FALSE
          BY DEF None
        <5> QED
          BY <4>1, <5>1, Zenon
      <4>2. CASE cache[snap.turn] # None
        BY <3>3, <4>2 DEF Record
      <4> QED
        BY <4>1, <4>2
    <3>5. [kind |-> decision, work |-> snap.work, told |-> cache[snap.turn].told] \in Record
      BY <1>18, <2>7, <3>4 DEF Concludes, TickTypes, InHand, Record
    <3> QED
      BY <1>18, <2>7, <2>8, <3>5, FileIsRead DEF Concludes
  <2>1. WorldTypes'
    BY <1>a, <1>18 DEF Concludes, Goes, world, WorldTypes
  <2>2. TickTypes'
    BY <1>a, <1>18 DEF Concludes, Goes, world, memory, WorldTypes, TickTypes, Transcript, Steps
  <2>3. StoreTypes'
    BY <1>18, <2>0 DEF Concludes, Goes, memory, StoreTypes
  <2>4. HistoryTypes'
    BY <1>18 DEF Concludes, Goes, HistoryTypes, TickTypes
  <2>5. InHand'
    BY <1>18, <2>7, <2>8, <2>0 DEF Concludes, Goes, memory, TickTypes, StoreTypes, InHand, Judging, Writing
  <2>6. FlagTypes'
    BY <1>18, Zenon DEF Concludes, Goes, world, runner, FlagTypes
  <2> QED
    BY <2>1, <2>2, <2>3, <2>4, <2>5, <2>6
<1>19. CASE Saves
  <2>1. WorldTypes'
    <3>1. UNCHANGED world /\ (trouble' = trouble \/ (trouble > 0 /\ trouble' = trouble - 1))
      BY <1>19, Zenon DEF Saves, Error
    <3> QED
      BY <1>a, <3>1 DEF world, WorldTypes
  <2>2. TickTypes'
    BY <1>a, <1>19 DEF Saves, Goes, Error, AfterSave, world, memory, WorldTypes, TickTypes, Transcript, Steps
  <2>3. StoreTypes'
    BY <1>19 DEF Saves, Goes, Error, AfterSave, memory, StoreTypes, InHand, Judging, Writing
  <2>4. HistoryTypes'
    BY <1>19 DEF Saves, Goes, Error, AfterSave, memory, HistoryTypes
  <2>5. InHand'
    BY <1>19 DEF Saves, Goes, Error, AfterSave, memory, TickTypes, StoreTypes, InHand, Judging, Writing
  <2>6. FlagTypes'
    BY <1>19, Zenon DEF Saves, Goes, Error, AfterSave, world, runner, FlagTypes
  <2> QED
    BY <2>1, <2>2, <2>3, <2>4, <2>5, <2>6
<1>20. CASE Notifies
  <2>7. snap.turn \in Turn /\ snap.work \in 0..MaxWork
    BY <1>20 DEF Notifies, TickTypes, InHand, Transcript, Turn, Judging, Writing
  <2>8. cache \in [Turn -> Record]
    BY <1>20 DEF Notifies, StoreTypes, InHand, Judging, Writing
  <2>0. cache' # cache => cache' \in [Turn -> Record] /\ cache' # Unread
    <3>3. cache[snap.turn] \in Record
      BY <2>7, <2>8
    <3>5. [cache[snap.turn] EXCEPT !.told = TRUE] \in Record
      <4>1. cache[snap.turn].kind # "none"
        BY <1>20 DEF Notifies, InHand, Writing
      <4> QED
        <5>1. cache[snap.turn] \in [kind : {"closed", "final", "nudge"}, work : 0..MaxWork, told : BOOLEAN]
          BY <3>3, <4>1 DEF Record, None
        <5> QED
          BY <5>1, Zenon DEF Record
    <3> QED
      BY <1>20, <2>7, <2>8, <3>5, FileIsRead DEF Notifies, memory
  <2>1. WorldTypes'
    BY <1>a, <1>20 DEF Notifies, Goes, Error, world, WorldTypes
  <2>2. TickTypes'
    BY <1>a, <1>20 DEF Notifies, Goes, Error, world, memory, WorldTypes, TickTypes, Transcript, Steps
  <2>3. StoreTypes'
    BY <1>20, <2>0 DEF Notifies, Goes, Error, memory, StoreTypes
  <2>4. HistoryTypes'
    BY <1>20 DEF Notifies, Goes, Error, memory, HistoryTypes
  <2>5. InHand'
    BY <1>20, <2>7, <2>8, <2>0 DEF Notifies, Goes, Error, memory, InHand, Judging, Writing
  <2>6. FlagTypes'
    BY <1>20, Zenon DEF Notifies, Goes, Error, world, runner, FlagTypes
  <2> QED
    BY <2>1, <2>2, <2>3, <2>4, <2>5, <2>6
<1>21. CASE SavesNotice
  <2>1. WorldTypes'
    BY <1>a, <1>21 DEF SavesNotice, Goes, Error, world, WorldTypes
  <2>2. TickTypes'
    BY <1>a, <1>21 DEF SavesNotice, Goes, Error, world, memory, WorldTypes, TickTypes, Transcript, Steps
  <2>3. StoreTypes'
    BY <1>21 DEF SavesNotice, Goes, Error, memory, StoreTypes, InHand, Judging, Writing
  <2>4. HistoryTypes'
    BY <1>21 DEF SavesNotice, Goes, Error, memory, HistoryTypes
  <2>5. InHand'
    BY <1>21 DEF SavesNotice, Goes, Error, memory, InHand, Judging, Writing
  <2>6. FlagTypes'
    BY <1>21, Zenon DEF SavesNotice, Goes, Error, world, runner, FlagTypes
  <2> QED
    BY <2>1, <2>2, <2>3, <2>4, <2>5, <2>6
<1>22. CASE NotifiesNudge
  <2>1. WorldTypes'
    BY <1>a, <1>22 DEF NotifiesNudge, Goes, Error, world, WorldTypes
  <2>2. TickTypes'
    BY <1>a, <1>22 DEF NotifiesNudge, Goes, Error, world, memory, WorldTypes, TickTypes, Transcript, Steps
  <2>3. StoreTypes'
    BY <1>22 DEF NotifiesNudge, Goes, Error, memory, StoreTypes
  <2>4. HistoryTypes'
    BY <1>22 DEF NotifiesNudge, Goes, Error, memory, HistoryTypes
  <2>5. InHand'
    BY <1>22 DEF NotifiesNudge, Goes, Error, memory, InHand, Judging, Writing
  <2>6. FlagTypes'
    BY <1>22, Zenon DEF NotifiesNudge, Goes, Error, world, runner, FlagTypes
  <2> QED
    BY <2>1, <2>2, <2>3, <2>4, <2>5, <2>6
<1>23. CASE Crash
  <2>1. WorldTypes'
    BY <1>a, <1>23 DEF Crash, Goes, Error, world, WorldTypes
  <2>2. TickTypes'
    BY <1>a, <1>23 DEF Crash, Goes, Error, world, memory, WorldTypes, TickTypes, Transcript, Steps
  <2>3. StoreTypes'
    BY <1>23 DEF Crash, Goes, Error, memory, StoreTypes
  <2>4. HistoryTypes'
    BY <1>23 DEF Crash, Goes, Error, memory, HistoryTypes
  <2>5. InHand'
    BY <1>23 DEF Crash, Goes, Error, memory, InHand, Judging, Writing
  <2>6. FlagTypes'
    BY <1>23, Zenon DEF Crash, Goes, Error, world, runner, FlagTypes
  <2> QED
    BY <2>1, <2>2, <2>3, <2>4, <2>5, <2>6
<1> QED
  BY <1>0, <1>1, <1>2, <1>3, <1>4, <1>5, <1>6, <1>7, <1>8, <1>9, <1>10, <1>11, <1>12, <1>13, <1>14, <1>15, <1>16, <1>17, <1>18, <1>19, <1>20, <1>21, <1>22, <1>23 DEF Next, World, Runner

(* Types hold in every state.                                               *)
LEMMA Types ==
    Spec => []TypeInv
<1>1. Init => TypeInv
  <2> SUFFICES ASSUME Init PROVE TypeInv
    OBVIOUS
  <2>1. WorldTypes /\ TickTypes /\ HistoryTypes /\ InHand
    BY NudgeAssumption DEF Init, WorldTypes, TickTypes, HistoryTypes, InHand,
       Steps, Transcript, Judging, Writing
  <2>2. FlagTypes
    BY Zenon DEF Init, FlagTypes
  <2>3. StoreTypes
    BY DEF Init, StoreTypes, Record
  <2> QED
    BY <2>1, <2>2, <2>3 DEF TypeInv
<1>2. TypeInv /\ [Next]_vars => TypeInv'
  BY StepTypes
<1> QED
  BY <1>1, <1>2, PTL DEF Spec

(* TypeOK: the variables keep their types, whatever happens during a tick.  *)
THEOREM TypeCorrect == Spec => []TypeOK
<1>1. TypeInv => TypeOK
  BY DEF TypeInv, WorldTypes, FlagTypes, TickTypes, StoreTypes, HistoryTypes, TypeOK
<1> QED
  BY <1>1, Types, PTL

(* What the world does to a tick: nothing, but the transcript, the shown    *)
(* deliveries and the queue go on.                                          *)
Onward ==
    /\ turn <= turn' /\ (turn' = turn => work <= work')
    /\ shown' = shown \/ shown' = turn
    /\ local' = "nudge" => local = "nudge"

LEMMA WorldSteps ==
    ASSUME TypeInv, World \/ WaitPasses \/ UNCHANGED vars
    PROVE  UNCHANGED runner /\ Onward
<1> USE DEF TypeInv, WorldTypes, Onward
<1>1. CASE UserSends
  BY <1>1 DEF UserSends
<1>2. CASE TurnBegins
  BY <1>2 DEF TurnBegins, NewRequest
<1>3. CASE TurnEnds
  BY <1>3 DEF TurnEnds
<1>4. CASE RemoteBegins
  BY <1>4 DEF RemoteBegins, NewRequest
<1>5. CASE RemoteEnds
  BY <1>5 DEF RemoteEnds
<1>6. CASE AgentWorks
  BY <1>6 DEF AgentWorks
<1>7. CASE AgentShows
  BY <1>7 DEF AgentShows
<1>8. CASE GrowsStale
  BY <1>8 DEF GrowsStale
<1>9. CASE WaitPasses
  BY <1>9 DEF WaitPasses, world
<1>10. CASE UNCHANGED vars
  BY <1>10 DEF vars, world, runner
<1> QED
  BY <1>1, <1>2, <1>3, <1>4, <1>5, <1>6, <1>7, <1>8, <1>9, <1>10 DEF World

(* A step of the tick, and a crash, leave the gateway's side alone.         *)
LEMMA RunnerSteps ==
    ASSUME Runner \/ Crash
    PROVE  UNCHANGED <<turn, work, shown>>
BY DEF Runner, Crash, world, Tick, Listed, HistoryRead, LooksUp, Asked, ConfirmedBefore,
   Decides, FindsFinality, Concludes, Saves, Notifies, SavesNotice, NotifiesNudge

(* Noting that a final notice was sent leaves verdict and transcript.       *)
LEMMA ToldOnly ==
    ASSUME NEW records \in [Turn -> Record], NEW s, NEW after,
           after = [records EXCEPT ![s].told = TRUE]
    PROVE  \A t \in Turn : after[t].kind = records[t].kind /\ after[t].work = records[t].work
<1> SUFFICES ASSUME NEW t \in Turn
             PROVE  after[t].kind = records[t].kind /\ after[t].work = records[t].work
  OBVIOUS
<1>1. CASE t # s
  BY <1>1
<1>2. CASE t = s
  <2>1. after[t] = [records[t] EXCEPT !.told = TRUE]
    BY <1>2
  <2>2. records[t] \in Record
    OBVIOUS
  <2> QED
    BY <2>1, <2>2 DEF Record, None
<1> QED
  BY <1>1, <1>2

(* One step keeps the evidence behind final decisions, if deliveries are    *)
(* looked up for the session itself.                                        *)
LEMMA StepShown ==
    ASSUME Routed, TypeInv, TypeInv', ShownInv, [Next]_vars
    PROVE  ShownInv'
<1> USE DEF ShownInv, ClosedOnlyWhenShown
<1>a. turn \in Nat /\ shown \in Nat /\ snap.turn \in Nat /\ turn' \in Nat /\ shown' \in Nat
  BY NudgeAssumption DEF TypeInv, WorldTypes, TickTypes, Transcript
<1>b. Turn \subseteq Nat
  BY DEF Turn
<1>1. CASE World \/ WaitPasses \/ UNCHANGED vars
  BY <1>a, <1>b, <1>1, WorldSteps DEF runner, memory, Onward
<1>2. CASE Tick \/ Listed \/ ConfirmedBefore \/ SavesNotice \/ NotifiesNudge
  BY <1>2 DEF Tick, Listed, ConfirmedBefore, SavesNotice, NotifiesNudge, Goes, Error, world,
     memory, TypeInv, InHand, Writing
<1>3. CASE HistoryRead
  BY <1>3 DEF HistoryRead, Goes, Error, world
<1>4. CASE LooksUp
  BY <1>4 DEF LooksUp, Goes, world
<1>5. CASE Asked
  BY <1>5 DEF Asked, Goes, Error, world, memory
<1>6. CASE Decides
  BY <1>6 DEF Decides, Goes, Error, Asks, world, memory
<1>7. CASE FindsFinality
  BY <1>7 DEF FindsFinality, Goes, Error, Asks, Evidence, world, memory
<1>8. CASE Concludes
  <2>1. cache \in [Turn -> Record] /\ snap.turn \in Turn
    BY <1>8 DEF Concludes, TypeInv, StoreTypes, InHand, Judging, TickTypes, Transcript, Turn
  <2> QED
    BY <1>8, <2>1 DEF Concludes, Goes
<1>9. CASE Saves
  BY <1>9 DEF Saves, Goes, Error, AfterSave, world, memory
<1>10. CASE Notifies
  <2>1. cache \in [Turn -> Record]
    BY <1>10 DEF Notifies, TypeInv, StoreTypes, InHand, Writing
  <2>2. \A t \in Turn : cache'[t].kind = cache[t].kind
    <3>1. cache' = cache \/ cache' = [cache EXCEPT ![snap.turn].told = TRUE]
      BY <1>10, Zenon DEF Notifies, memory
    <3> QED
      BY <2>1, <3>1, ToldOnly
  <2> QED
    BY <1>10, <2>2 DEF Notifies, Goes, Error, world
<1>11. CASE Crash
  BY <1>11 DEF Crash, Goes, Unread
<1> QED
  BY <1>1, <1>2, <1>3, <1>4, <1>5, <1>6, <1>7, <1>8, <1>9, <1>10, <1>11 DEF Next, Runner

(* ClosedOnlyWhenShown: a request on record as final was followed by a      *)
(* final delivery to the user, if the activity index knows the session; it  *)
(* fails when the evidence is that of another session's route.              *)
THEOREM FinalIsShown ==
    ASSUME Routed
    PROVE  Spec => []ClosedOnlyWhenShown
<1>1. Init => ShownInv
  BY DEF Init, ShownInv, ClosedOnlyWhenShown, Unread, None
<1>2. TypeInv /\ TypeInv' /\ ShownInv /\ [Next]_vars => ShownInv'
  BY StepShown
<1>3. ShownInv => ClosedOnlyWhenShown
  BY DEF ShownInv
<1> QED
  BY <1>1, <1>2, <1>3, Types, PTL DEF Spec

(* One step keeps what is closed on file closed in the cache.               *)
LEMMA StepFile ==
    ASSUME TypeInv, TypeInv', FileInv, [Next]_vars
    PROVE  FileInv'
<1> USE DEF FileInv
<1>1. CASE World \/ WaitPasses \/ UNCHANGED vars
  BY <1>1, WorldSteps DEF runner, memory, Closed
<1>2. CASE Tick \/ Listed \/ HistoryRead \/ NotifiesNudge
  BY <1>2 DEF Tick, Listed, HistoryRead, NotifiesNudge, Goes, Error, world, memory, Judging, Closed
<1>3. CASE LooksUp
  <2>1. snap.turn \in Turn
    BY <1>3 DEF LooksUp, TypeInv, InHand, TickTypes, Transcript, Turn
  <2> QED
    BY <1>3, <2>1 DEF LooksUp, Goes, Judged, Closed, Judging
<1>4. CASE Asked \/ ConfirmedBefore \/ Decides \/ FindsFinality
  BY <1>4 DEF Asked, ConfirmedBefore, Decides, FindsFinality, Goes, Error, Asks, memory, Judging, Closed
<1>5. CASE Concludes
  <2>1. cache \in [Turn -> Record] /\ snap.turn \in Turn /\ cache # Unread /\ pc = "asked2"
    BY <1>5 DEF Concludes, TypeInv, StoreTypes, InHand, Judging, TickTypes, Transcript, Turn
  <2>2. ~Closed(cache[snap.turn]) /\ ~Closed(disk[snap.turn]) /\ notices[snap.turn] = 0
    BY <2>1 DEF Judging, Closed
  <2>3. \A t \in Turn : t # snap.turn => cache'[t] = cache[t]
    BY <1>5, <2>1 DEF Concludes
  <2>4. UNCHANGED <<snap, disk, notices, decision>> /\ pc' \in {"saving", "timer"}
    BY <1>5 DEF Concludes, Goes
  <2> QED
    BY <2>1, <2>2, <2>3, <2>4 DEF Judging, Closed
<1>6. CASE Saves
  <2>1. cache # Unread /\ snap.turn \in Turn /\ cache[snap.turn].kind = decision
    BY <1>6 DEF Saves, TypeInv, InHand, Writing, TickTypes, Transcript, Turn
  <2>2. UNCHANGED <<cache, snap, notices, decision>> /\ pc = "saving"
    BY <1>6 DEF Saves, memory
  <2>3. CASE disk' = cache /\ pc' = AfterSave
    <3>1. pc' \in {"timer", "noticing", "noticingNudge"} /\ (pc' = "noticing" => decision = "final")
      BY <2>3 DEF AfterSave
    <3> QED
      BY <2>1, <2>2, <2>3, <3>1 DEF Closed, Judging
  <2>4. CASE disk' = disk /\ pc' = "dead"
    BY <2>2, <2>4 DEF Closed, Judging
  <2> QED
    BY <1>6, <2>3, <2>4 DEF Saves, Goes
<1>7. CASE Notifies
  <2>1. cache \in [Turn -> Record] /\ snap.turn \in Turn /\ cache # Unread
    BY <1>7 DEF Notifies, TypeInv, StoreTypes, InHand, Writing, TickTypes, Transcript, Turn
  <2>2. \A t \in Turn : cache'[t].kind = cache[t].kind
    <3>1. cache' = cache \/ cache' = [cache EXCEPT ![snap.turn].told = TRUE]
      BY <1>7, Zenon DEF Notifies, memory
    <3> QED
      BY <2>1, <3>1, ToldOnly
  <2>3. UNCHANGED <<snap, disk, decision>> /\ pc = "noticing" /\ pc' \in {"savingNotice", "dead"}
    BY <1>7 DEF Notifies, Goes
  <2>4. \A t \in Turn : t # snap.turn => notices'[t] = notices[t]
    BY <1>7 DEF Notifies, TypeInv, HistoryTypes
  <2> QED
    BY <2>1, <2>2, <2>3, <2>4 DEF Closed, Judging
<1>8. CASE SavesNotice
  <2>1. cache # Unread
    BY <1>8 DEF SavesNotice, TypeInv, InHand, Writing
  <2> QED
    BY <1>8, <2>1 DEF SavesNotice, Goes, Error, memory, Closed, Judging
<1>9. CASE Crash
  BY <1>9 DEF Crash, Goes, Closed, Judging
<1> QED
  BY <1>1, <1>2, <1>3, <1>4, <1>5, <1>6, <1>7, <1>8, <1>9 DEF Next, Runner

(* ClosedStaysClosed: a request that is closed on file keeps its verdict,   *)
(* is not nudged and is announced at most once, whatever errors and crashes *)
(* there are.                                                               *)
LEMMA StepClosed ==
    ASSUME TypeInv, FileInv, [Next]_vars, NEW t \in Turn, Closed(disk[t])
    PROVE  /\ disk'[t].kind = disk[t].kind
           /\ Nudging => snap.turn # t
           /\ notices'[t] # notices[t] => notices[t] = 0
<1>1. CASE World \/ WaitPasses \/ UNCHANGED vars
  BY <1>1, WorldSteps DEF runner, Onward, Nudging
<1>2. CASE Saves \/ SavesNotice
  <2>1. cache # Unread
    BY <1>2 DEF Saves, SavesNotice, TypeInv, InHand, Writing
  <2> QED
    BY <1>2, <2>1 DEF Saves, SavesNotice, FileInv, Nudging, Error, Goes, world
<1>3. CASE Concludes
  <2>1. cache # Unread /\ ~Closed(cache[snap.turn])
    BY <1>3 DEF Concludes, TypeInv, InHand, FileInv, Judging
  <2>2. snap.turn # t
    BY <2>1 DEF FileInv, Closed
  <2> QED
    BY <1>3, <2>2 DEF Concludes
<1>4. CASE Notifies
  <2>1. decision = "final" /\ pc = "noticing"
    BY <1>4 DEF Notifies, FileInv
  <2> QED
    BY <1>4, <2>1 DEF Notifies, FileInv, TypeInv, HistoryTypes, Nudging, world, Goes, Error
<1>5. CASE Crash
  BY <1>5 DEF Crash, Nudging, Goes
<1>6. CASE Tick \/ Listed \/ HistoryRead \/ LooksUp \/ Asked \/ ConfirmedBefore \/ Decides
           \/ FindsFinality \/ NotifiesNudge
  BY <1>6 DEF Tick, Listed, HistoryRead, LooksUp, Asked, ConfirmedBefore, Decides,
     FindsFinality, NotifiesNudge, Nudging, world
<1> QED
  BY <1>1, <1>2, <1>3, <1>4, <1>5, <1>6 DEF Next, Runner

LEMMA Files ==
    Spec => []FileInv
<1>1. Init => FileInv
  BY DEF Init, FileInv, Judging, Closed, None
<1>2. TypeInv /\ TypeInv' /\ FileInv /\ [Next]_vars => FileInv'
  BY StepFile
<1> QED
  BY <1>1, <1>2, Types, PTL DEF Spec

(* ClosedStaysClosed: see StepClosed; for any number of requests, errors    *)
(* and crashes, and whether or not notices are sent.                        *)
THEOREM ClosedIsFinal == Spec => ClosedStaysClosed
<1> DEFINE Step == \A t \in Turn : Closed(disk[t]) =>
                      /\ disk'[t].kind = disk[t].kind
                      /\ Nudging => snap.turn # t
                      /\ notices'[t] # notices[t] => notices[t] = 0
<1>1. TypeInv /\ FileInv /\ [Next]_vars => [Step]_vars
  BY StepClosed
<1>2. Spec => [][Step]_vars
  BY <1>1, Types, Files, PTL DEF Spec
<1> QED
  BY <1>2 DEF ClosedStaysClosed

LEMMA TypesTrack ==
    ASSUME TypeInv
    PROVE  Tracked
<1> USE NudgeAssumption DEF TypeInv
<1>1. turn \in Nat /\ work \in Nat
  BY DEF WorldTypes
<1>2. snap \in Transcript
  BY DEF TickTypes
<1>3. \A s \in Transcript : s.turn \in Nat /\ s.work \in Nat /\ (s.turn # 0 => s.turn \in Turn)
  BY DEF Transcript, Turn
<1>4. disk \in [Turn -> Record] /\ disk # Unread
  BY FileIsRead DEF StoreTypes
<1>5. /\ pc \in Judging \cup Writing => cache # Unread
      /\ cache # Unread => cache \in [Turn -> Record]
  BY DEF InHand, StoreTypes
<1>6. pc = "store" \/ pc \in Judging \cup Writing => snap.turn # 0
  BY DEF InHand
<1>7. \A s \in nudged : s \in Transcript
  BY DEF HistoryTypes
<1> QED
  BY <1>1, <1>2, <1>3, <1>4, <1>5, <1>6, <1>7 DEF Tracked

LEMMA RecordTypes ==
    ASSUME NEW records \in [Turn -> Record], NEW t \in Turn
    PROVE  /\ t \in Nat /\ records[t].work \in Nat
           /\ records[t].kind = "none" => records[t].work = 0
           /\ records[t].kind \in {"none", "closed", "final", "nudge"}
<1>1. records[t] \in Record
  OBVIOUS
<1>2. CASE records[t] = None
  BY <1>2 DEF None, Turn
<1>3. CASE records[t] # None
  BY <1>1, <1>3, NudgeAssumption DEF Record, Turn
<1> QED
  BY <1>2, <1>3

(* Records of the past stay so, as the transcript only grows.               *)
LEMMA PastStays ==
    ASSUME Tracked, NEW records \in [Turn -> Record], Past(records),
           turn' \in Nat, work' \in Nat, turn <= turn', turn' = turn => work <= work'
    PROVE  \A t \in Turn : records[t].kind # "none" =>
               t <= turn' /\ (t = turn' => records[t].work <= work')
<1> SUFFICES ASSUME NEW t \in Turn, records[t].kind # "none"
             PROVE  t <= turn' /\ (t = turn' => records[t].work <= work')
  OBVIOUS
<1>1. t \in Nat /\ records[t].work \in Nat
  BY RecordTypes
<1>2. t <= turn /\ (t = turn => records[t].work <= work)
  BY DEF Past
<1> QED
  BY <1>1, <1>2 DEF Tracked

(* A step of the world keeps every nudge on record.                         *)
LEMMA WorldRecord ==
    ASSUME TypeInv, TypeInv', RecordInv, World \/ WaitPasses \/ UNCHANGED vars
    PROVE  RecordInv'
<1>1. UNCHANGED runner /\ Onward
  BY WorldSteps
<1>2. UNCHANGED <<pc, snap, cache, disk, nudged>>
  BY <1>1 DEF runner, memory
<1>3. turn' \in Nat /\ work' \in Nat /\ Tracked
  BY TypesTrack, NudgeAssumption DEF TypeInv, WorldTypes
<1>4. turn <= turn' /\ (turn' = turn => work <= work')
  BY <1>1 DEF Onward
<1>5. PastInv'
  <2>1. Past(disk)'
    <3>1. Past(disk) /\ disk \in [Turn -> Record]
      BY <1>3 DEF RecordInv, PastInv, Tracked
    <3> QED
      BY <1>2, <1>3, <1>4, <3>1, PastStays DEF Past
  <2>2. (cache # Unread => Past(cache))'
    <3> SUFFICES ASSUME cache # Unread PROVE Past(cache)'
      BY <1>2
    <3>1. Past(cache) /\ cache \in [Turn -> Record]
      BY <1>3 DEF RecordInv, PastInv, Tracked
    <3> QED
      BY <1>2, <1>3, <1>4, <3>1, PastStays DEF Past
  <2>3. (snap.turn <= turn /\ (snap.turn = turn => snap.work <= work))'
    BY <1>2, <1>3, <1>4 DEF RecordInv, PastInv, Tracked
  <2> QED
    BY <2>1, <2>2, <2>3 DEF PastInv
<1>6. SnapInv' /\ NudgeInv'
  BY <1>2 DEF RecordInv, SnapInv, NudgeInv, Judged, Closed, Kept
<1> QED
  BY <1>5, <1>6 DEF RecordInv

(* A step of the tick before its verdict does.                              *)
LEMMA TickRecord ==
    ASSUME TypeInv, RecordInv,
           Tick \/ Listed \/ HistoryRead \/ LooksUp \/ Asked \/ ConfirmedBefore \/ Decides
           \/ FindsFinality \/ NotifiesNudge
    PROVE  RecordInv'
<1> USE DEF RecordInv
<1>a. Tracked /\ UNCHANGED <<turn, work, shown>>
  BY TypesTrack, RunnerSteps DEF Runner
<1>b. UNCHANGED <<disk, nudged>>
  BY DEF Tick, Listed, HistoryRead, LooksUp, Asked, ConfirmedBefore, Decides, FindsFinality,
     NotifiesNudge
<1>c. Past(disk)'
  BY <1>a, <1>b DEF Past, PastInv
<1>1. CASE Tick \/ Listed \/ NotifiesNudge
  <2>1. UNCHANGED <<snap, cache>>
    BY <1>1 DEF Tick, Listed, NotifiesNudge, memory
  <2>2. pc' \in {"listing", "history", "timer", "dead"} /\ pc \in {"timer", "listing", "noticingNudge"}
    BY <1>1 DEF Tick, Listed, NotifiesNudge, Goes
  <2>3. PastInv'
    BY <1>a, <1>b, <1>c, <2>1 DEF PastInv, Past
  <2>4. SnapInv'
    BY <1>b, <2>1, <2>2 DEF SnapInv, Judging
  <2>5. NudgeInv'
    BY <1>b, <2>1 DEF NudgeInv, Kept, Closed
  <2> QED
    BY <2>3, <2>4, <2>5
<1>2. CASE HistoryRead
  <2>1. cache' = cache /\ cache \in {Unread, disk} /\ pc' \in {"store", "timer"}
    BY <1>2 DEF HistoryRead, SnapInv, Goes
  <2>2. CASE snap' = [turn |-> turn, work |-> work] /\ (pc' = "store" => turn # 0)
    <3>1. PastInv'
      BY <1>a, <1>b, <1>c, <2>1, <2>2 DEF PastInv, Past, Tracked
    <3>2. pc' = "store" => disk[turn].work <= work
      <4> SUFFICES ASSUME pc' = "store" PROVE disk[turn].work <= work
        OBVIOUS
      <4>1. turn \in Turn
        BY <2>2, NudgeAssumption DEF TypeInv, WorldTypes, Turn
      <4>2. disk[turn].work \in Nat /\ (disk[turn].kind = "none" => disk[turn].work = 0)
        BY <1>a, <4>1, RecordTypes DEF Tracked
      <4>3. disk[turn].kind # "none" => disk[turn].work <= work
        BY <4>1 DEF PastInv, Past
      <4> QED
        BY <1>a, <4>2, <4>3 DEF Tracked
    <3>3. SnapInv'
      BY <1>b, <2>1, <2>2, <3>2 DEF SnapInv, Judging
    <3>4. NudgeInv'
      BY <1>b, <2>1 DEF NudgeInv, Kept, Closed
    <3> QED
      BY <3>1, <3>3, <3>4
  <2>3. CASE snap' = snap /\ pc' = "timer"
    <3>1. PastInv'
      BY <1>a, <1>b, <1>c, <2>1, <2>3 DEF PastInv, Past
    <3>2. SnapInv' /\ NudgeInv'
      BY <1>b, <2>1, <2>3 DEF SnapInv, NudgeInv, Judging, Kept, Closed
    <3> QED
      BY <3>1, <3>2
  <2> QED
    BY <1>2, <2>2, <2>3 DEF HistoryRead, Goes
<1>3. CASE LooksUp
  <2>1. cache' = disk /\ snap' = snap /\ pc = "store"
    BY <1>3 DEF LooksUp, SnapInv
  <2>2. pc' = "timer" \/ (pc' = "ask1" /\ ~Judged(disk))
    BY <1>3, <2>1 DEF LooksUp, Goes
  <2>3. PastInv'
    BY <1>a, <1>b, <1>c, <2>1 DEF PastInv, Past
  <2>4. SnapInv'
    BY <1>b, <2>1, <2>2 DEF SnapInv, Judging, Judged, Closed
  <2>5. \A s \in nudged : Kept(disk, s)
    BY <2>1 DEF NudgeInv, SnapInv
  <2>6. NudgeInv'
    BY <1>b, <2>1, <2>5 DEF NudgeInv, Kept, Closed
  <2> QED
    BY <2>3, <2>4, <2>6
<1>4. CASE Asked \/ ConfirmedBefore \/ Decides \/ FindsFinality
  <2>1. UNCHANGED <<snap, cache>> /\ pc \in Judging
    BY <1>4 DEF Asked, ConfirmedBefore, Decides, FindsFinality, memory, Judging
  <2>2. pc' \in Judging \cup {"timer", "dead"}
    BY <1>4 DEF Asked, ConfirmedBefore, Decides, FindsFinality, Goes, Asks, Judging
  <2>3. PastInv'
    BY <1>a, <1>b, <1>c, <2>1 DEF PastInv, Past
  <2>4. SnapInv'
    BY <1>b, <2>1, <2>2 DEF SnapInv, Judging, Judged, Closed
  <2>5. NudgeInv'
    BY <1>b, <2>1 DEF NudgeInv, Kept, Closed
  <2> QED
    BY <2>3, <2>4, <2>5
<1> QED
  BY <1>1, <1>2, <1>3, <1>4

(* So does the verdict: a nudge is new for its transcript, and later than   *)
(* the nudge that its record replaces.                                      *)
LEMMA ConcludesRecord ==
    ASSUME TypeInv, TypeInv', RecordInv, Concludes
    PROVE  RecordInv' /\ (Nudging => snap \notin nudged)
<1> USE DEF RecordInv
<1>a. Tracked /\ UNCHANGED <<turn, work, shown>>
  BY TypesTrack, RunnerSteps DEF Runner
<1>b. pc = "asked2" /\ UNCHANGED <<snap, disk, decision>>
  BY DEF Concludes
<1>c. /\ cache = disk /\ cache # Unread /\ snap.turn \in Turn /\ cache \in [Turn -> Record]
      /\ ~Judged(cache) /\ cache[snap.turn].work <= snap.work /\ decision # "none"
  BY <1>a, <1>b DEF SnapInv, Judging, Tracked, TypeInv, InHand
<1>d. \A s \in nudged : s.turn = snap.turn => s.work < snap.work
  <2> SUFFICES ASSUME NEW s \in nudged, s.turn = snap.turn PROVE s.work < snap.work
    OBVIOUS
  <2>1. Kept(cache, s)
    BY <1>c DEF NudgeInv
  <2>2. s.work <= cache[snap.turn].work /\ cache[snap.turn].work # snap.work
    BY <1>c, <2>1 DEF Kept, Judged, Closed
  <2>3. cache[snap.turn].work \in Nat
    BY <1>c, RecordTypes
  <2> QED
    BY <1>a, <1>c, <2>2, <2>3 DEF Tracked
<1>e. snap \notin nudged
  BY <1>a, <1>d DEF Tracked
<1>1. CASE pc' = "saving"
  <2>1. /\ cache'[snap.turn].kind = decision /\ cache'[snap.turn].work = snap.work
        /\ \A t \in Turn : t # snap.turn => cache'[t] = cache[t]
        /\ cache' # Unread
    BY <1>1, <1>a, <1>c DEF Concludes, Goes, Writing, TypeInv, InHand
  <2>2. nudged' = IF decision = "nudge" THEN nudged \cup {snap} ELSE nudged
    BY <1>1 DEF Concludes, Goes
  <2>3. PastInv'
    <3>1. Past(disk)'
      BY <1>a, <1>b DEF PastInv, Past
    <3>2. Past(cache)'
      BY <1>a, <1>b, <1>c, <2>1 DEF PastInv, Past
    <3> QED
      BY <1>a, <1>b, <3>1, <3>2 DEF PastInv
  <2>4. SnapInv'
    BY <1>1 DEF SnapInv, Judging
  <2>5. \A s \in nudged' : Kept(cache', s)
    <3> SUFFICES ASSUME NEW s \in nudged' PROVE Kept(cache', s)
      OBVIOUS
    <3>1. CASE s.turn = snap.turn
      <4>1. s.work <= snap.work
        BY <1>a, <1>d, <2>2, <3>1 DEF Tracked
      <4>2. decision \in {"closed", "final", "nudge"}
        BY <1>c DEF TypeInv, TickTypes
      <4> QED
        BY <2>1, <3>1, <4>1, <4>2 DEF Kept, Closed
    <3>2. CASE s.turn # snap.turn
      <4>1. s \in nudged
        BY <2>2, <3>2
      <4>2. s.turn \in Turn /\ Kept(cache, s)
        BY <1>a, <1>c, <4>1 DEF NudgeInv, Tracked
      <4> QED
        BY <2>1, <3>2, <4>2 DEF Kept, Closed
    <3> QED
      BY <3>1, <3>2
  <2>6. \A s \in nudged' : s.turn # 0 /\ (Kept(disk, s) \/ (s = snap /\ cache' \notin {Unread, disk}))
    <3> SUFFICES ASSUME NEW s \in nudged'
                 PROVE  s.turn # 0 /\ (Kept(disk, s) \/ (s = snap /\ cache' \notin {Unread, disk}))
      OBVIOUS
    <3>1. CASE s \in nudged
      BY <1>c, <3>1 DEF NudgeInv
    <3>2. CASE s \notin nudged
      <4>1. s = snap /\ decision = "nudge"
        BY <2>2, <3>2
      <4>2. cache' # disk
        BY <1>c, <2>1, <4>1 DEF Judged
      <4>3. snap.turn # 0
        BY <1>c DEF Turn
      <4> QED
        BY <2>1, <4>1, <4>2, <4>3
    <3> QED
      BY <3>1, <3>2
  <2>7. NudgeInv'
    BY <1>b, <2>5, <2>6 DEF NudgeInv, Kept, Closed
  <2> QED
    BY <1>e, <2>3, <2>4, <2>7
<1>2. CASE pc' # "saving"
  <2>1. UNCHANGED <<cache, nudged, local>> /\ pc' = "timer"
    BY <1>2 DEF Concludes, Goes
  <2>2. PastInv'
    BY <1>a, <1>b, <2>1 DEF PastInv, Past
  <2>3. SnapInv' /\ NudgeInv'
    BY <1>b, <1>c, <2>1 DEF SnapInv, NudgeInv, Judging, Kept, Closed
  <2> QED
    BY <1>e, <2>2, <2>3
<1> QED
  BY <1>1, <1>2

(* And what follows the verdict.                                            *)
LEMMA VerdictRecord ==
    ASSUME TypeInv, TypeInv', RecordInv, Saves \/ Notifies \/ SavesNotice
    PROVE  RecordInv'
<1> USE DEF RecordInv
<1>a. Tracked /\ UNCHANGED <<turn, work, shown>>
  BY TypesTrack, RunnerSteps DEF Runner
<1>b. UNCHANGED <<snap, nudged>> /\ pc \in Writing /\ pc' # "store" /\ pc' \notin Judging
  BY DEF Saves, Notifies, SavesNotice, Writing, Goes, AfterSave, Judging
<1>c. cache # Unread /\ cache \in [Turn -> Record]
  BY <1>a, <1>b DEF Tracked
<1>1. CASE Saves \/ SavesNotice
  <2>1. cache' = cache
    BY <1>1 DEF Saves, SavesNotice, memory
  <2>2. disk' = cache \/ (disk' = disk /\ pc' = "dead")
    BY <1>1 DEF Saves, SavesNotice, Goes
  <2>3. PastInv'
    BY <1>a, <1>b, <1>c, <2>1, <2>2 DEF PastInv, Past
  <2>4. SnapInv'
    BY <1>b, <2>1, <2>2 DEF SnapInv
  <2>5. NudgeInv'
    BY <1>b, <1>c, <2>1, <2>2 DEF NudgeInv, Kept, Closed
  <2> QED
    BY <2>3, <2>4, <2>5
<1>2. CASE Notifies
  <2>1. pc = "noticing" /\ disk' = disk /\ pc' \in {"savingNotice", "dead"}
    BY <1>2 DEF Notifies, Goes
  <2>2. cache = disk
    BY <1>c, <2>1 DEF SnapInv
  <2>3. cache' = cache \/ cache' = [cache EXCEPT ![snap.turn].told = TRUE]
    BY <1>2, Zenon DEF Notifies, memory
  <2>4. \A t \in Turn : cache'[t].kind = cache[t].kind /\ cache'[t].work = cache[t].work
    BY <1>c, <2>3, ToldOnly
  <2>5. PastInv'
    BY <1>a, <1>b, <1>c, <2>1, <2>4 DEF PastInv, Past
  <2>6. SnapInv'
    BY <1>b, <2>1 DEF SnapInv
  <2>7. \A s \in nudged : s.turn # 0 /\ s.turn \in Turn /\ Kept(cache, s)
    BY <1>a, <1>c DEF NudgeInv, Tracked
  <2>8. \A s \in nudged : Kept(cache', s)
    BY <2>4, <2>7 DEF Kept, Closed
  <2>9. NudgeInv'
    BY <1>b, <2>1, <2>2, <2>7, <2>8 DEF NudgeInv, Kept, Closed
  <2> QED
    BY <2>5, <2>6, <2>9
<1> QED
  BY <1>1, <1>2

(* A crash forgets the nudge that was not on file, and no other.            *)
LEMMA CrashRecord ==
    ASSUME TypeInv, RecordInv, Crash
    PROVE  RecordInv'
<1> USE DEF RecordInv
<1>a. Tracked /\ UNCHANGED <<turn, work, shown>>
  BY TypesTrack, RunnerSteps
<1>b. /\ cache' = Unread /\ disk' = disk /\ pc' = "timer" /\ snap' = [turn |-> 0, work |-> 0]
      /\ nudged' = IF cache \in {Unread, disk} THEN nudged ELSE nudged \ {snap}
  BY DEF Crash, Goes
<1>1. PastInv'
  BY <1>a, <1>b DEF PastInv, Past, Tracked
<1>2. SnapInv'
  BY <1>b DEF SnapInv, Judging
<1>3. \A s \in nudged' : s.turn # 0 /\ Kept(disk, s)
  BY <1>b DEF NudgeInv
<1>4. NudgeInv'
  BY <1>b, <1>3 DEF NudgeInv, Kept, Closed
<1> QED
  BY <1>1, <1>2, <1>4

(* A step that is not a verdict enqueues no nudge.                          *)
LEMMA OnlyVerdictsNudge ==
    ASSUME TypeInv, [Next]_vars, ~Concludes
    PROVE  ~Nudging
<1>1. CASE World \/ WaitPasses \/ UNCHANGED vars
  BY <1>1, WorldSteps DEF Onward, Nudging
<1>2. CASE Runner \/ Crash
  BY <1>2 DEF Runner, Crash, Nudging, world, Tick, Listed, HistoryRead, LooksUp, Asked,
     ConfirmedBefore, Decides, FindsFinality, Saves, Notifies, SavesNotice, NotifiesNudge
<1> QED
  BY <1>1, <1>2 DEF Next

(* NudgedOnce: no transcript is nudged twice, but for a nudge that was not  *)
(* on file when the relay died; for any number of requests, messages,       *)
(* errors and crashes.                                                      *)
THEOREM NoSecondNudge == Spec => NudgedOnce
<1> DEFINE Step == Nudging => snap \notin nudged
<1>1. Init => RecordInv
  BY NudgeAssumption DEF Init, RecordInv, PastInv, SnapInv, NudgeInv, Past, Judging, None
<1>2. TypeInv /\ TypeInv' /\ RecordInv /\ [Next]_vars => RecordInv' /\ [Step]_vars
  <2> SUFFICES ASSUME TypeInv, TypeInv', RecordInv, [Next]_vars
               PROVE  RecordInv' /\ Step
    OBVIOUS
  <2>1. CASE Concludes
    BY <2>1, ConcludesRecord
  <2>2. CASE ~Concludes
    <3>1. Step
      BY <2>2, OnlyVerdictsNudge
    <3>2. RecordInv'
      BY <2>2, WorldRecord, TickRecord, VerdictRecord, CrashRecord DEF Next, Runner
    <3> QED
      BY <3>1, <3>2
  <2> QED
    BY <2>1, <2>2
<1>3. Spec => [][Step]_vars
  BY <1>1, <1>2, Types, PTL DEF Spec
<1> QED
  BY <1>3 DEF NudgedOnce
=============================================================================

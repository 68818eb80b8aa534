------------------------------ MODULE CodexAuth ------------------------------
(***************************************************************************)
(* The OpenAI login of an agent (agentControl/codexLogin.ts and the codex  *)
(* and model actions of agentControl/executeAgentControl.ts).  A login is  *)
(* a bundle of tokens of some profile, kept in six places: two profile     *)
(* stores, the gateway's runtime database, the OpenClaw config, the Codex  *)
(* CLI's file, and the profile that a session is pinned to.                *)
(*                                                                         *)
(* Import, sync, clear, the auth mode and the last step of a device login  *)
(* are mutations: one at a time, with the gateway stopped around each.     *)
(* Device logins run in the background, and model.set and gateway.restart  *)
(* come in between.  A step is what runs between two awaits; the read and  *)
(* the write of the config are two, since model.set writes it too.  A      *)
(* bundle's expiry is one of the reasons why a step may fail.              *)
(***************************************************************************)
EXTENDS Naturals, Sequences, SequencesExt

CONSTANTS Bundle, Profile,
          ProfileOf,        \* the profile of a bundle
          Login,            \* device logins
          EnvKey,           \* OPENAI_API_KEY is in the relay's environment
          MaxVersion,       \* bound: bundle versions
          MaxRequests,      \* bound: mutations and device logins
          MaxTrouble,       \* bound: failures, crashes, model.set and gateway.restart
          None

ASSUME CodexAssumption ==
    /\ ProfileOf \in [Bundle -> Profile]
    /\ EnvKey \in BOOLEAN
    /\ MaxVersion \in Nat \ {0} /\ MaxRequests \in Nat /\ MaxTrouble \in Nat
    /\ None \notin Bundle \cup Profile \cup Login

VARIABLES
    disk,                   \* what each place holds
    queue, op, snap, seen,  \* codexAuthMutationQueue, the mutation under way, its snapshot,
                            \* the config as it has read it
    login, got, pending,    \* device logins, the bundle of each, pendingCodexLogin
    model, copy,            \* a model.set, the config as it has read it
    gateway, cache,         \* external: is the gateway up, the profile it has loaded
    requests, trouble,      \* how many are left
    torn,                   \* history: known reasons for the places to disagree
    late,                   \* history: a login was stored that had been forgotten
    abandoned,              \* history: nobody starts the gateway again
    synced                  \* history: the syncs that were applied

opVars == <<queue, op, snap, seen>>
loginVars == <<login, got, pending>>
modelVars == <<model, copy>>
gwVars == <<gateway, cache>>
history == <<late, abandoned, synced>>
vars == <<disk, opVars, loginVars, modelVars, gwVars, requests, trouble, torn, history>>

Kinds == {"import", "sync", "clear", "openai", "apikey", "login"}
Request == [login : Login \cup {None}, kind : Kinds, bundle : Bundle \cup {None}, version : 0..MaxVersion]
NoOp == [at |-> "idle", i |-> 0, ok |-> TRUE, carry |-> {},
         req |-> [login |-> None, kind |-> "clear", bundle |-> None, version |-> 0]]
Marker == [version : 1..MaxVersion, profile : Profile]
Config == [model : BOOLEAN, auth : Bundle \cup {None}]
NoConfig == [model |-> FALSE, auth |-> None]
NoDisk == [shared |-> None, agent |-> None, runtime |-> None, config |-> NoConfig,
           cli |-> [tokens |-> None, mode |-> "none", key |-> FALSE], sessions |-> None, sync |-> None]
Reasons == {"unfinished", "started", "config", "marker"}
Settles(kind) == CASE kind \in {"sync", "clear"} -> Reasons
                   [] kind \in {"import", "login"} -> Reasons \ {"marker"}
                   [] OTHER -> {}
Waiting == {"asking", "polling", "queued"}      \* a session whose state is "pending"

TypeOK ==
    /\ disk.shared \in Bundle \cup {None} /\ disk.agent \in Bundle \cup {None}
    /\ disk.runtime \in Bundle \cup {None} /\ disk.config \in Config
    /\ disk.cli \in [tokens : Bundle \cup {None}, mode : {"chatgpt", "apikey", "none"}, key : BOOLEAN]
    /\ disk.sessions \in Profile \cup {None} /\ disk.sync \in Marker \cup {None}
    /\ Range(queue) \subseteq Request
    /\ op.at \in {"idle", "stop", "begin", "write", "rewrite", "undo", "start"}
    /\ op.i \in 0..9 /\ op.req \in Request /\ op.carry \subseteq Reasons
    /\ seen \in Config
    /\ login \in [Login -> Waiting \cup {"new", "connected", "failed", "gone"}]
    /\ got \in [Login -> Bundle \cup {None}]
    /\ pending \in Login \cup {None}
    /\ model \in {"idle", "read", "written"} /\ copy \in Config
    /\ gateway \in {"up", "down"} /\ cache \in Profile \cup {None}
    /\ requests \in 0..MaxRequests /\ trouble \in 0..MaxTrouble
    /\ torn \subseteq Reasons /\ late \in BOOLEAN /\ abandoned \in BOOLEAN
    /\ synced \subseteq Marker

(* A new agent, with or without an API key, or one that a bundle was synced to. *)
Init ==
    /\ \/ \E key \in BOOLEAN :
            /\ disk = [NoDisk EXCEPT !.cli.key = key, !.cli.mode = IF key THEN "apikey" ELSE "none"]
            /\ cache = None /\ synced = {}
       \/ \E b \in Bundle :
            /\ disk = [shared |-> b, agent |-> b, runtime |-> b, config |-> [model |-> FALSE, auth |-> b],
                       cli |-> [tokens |-> b, mode |-> "chatgpt", key |-> FALSE],
                       sessions |-> ProfileOf[b], sync |-> [version |-> 1, profile |-> ProfileOf[b]]]
            /\ cache = ProfileOf[b] /\ synced = {disk.sync}
    /\ queue = <<>> /\ op = NoOp /\ snap = NoDisk /\ seen = NoConfig
    /\ login = [l \in Login |-> "new"] /\ got = [l \in Login |-> None] /\ pending = None
    /\ model = "idle" /\ copy = NoConfig
    /\ gateway = "up"
    /\ requests = MaxRequests /\ trouble = MaxTrouble
    /\ torn = {} /\ late = FALSE /\ abandoned = FALSE

-----------------------------------------------------------------------------
(* What the places say.                                                     *)

(* readPersistedCodexOAuthEntries(): the first login it finds.              *)
Saved == IF disk.runtime # None THEN disk.runtime
         ELSE IF disk.shared # None THEN disk.shared ELSE disk.agent

ProfileIn(b) == IF b = None THEN None ELSE ProfileOf[b]

(* authModes.openaiLogin.available of getCodexLoginStatus(): the device     *)
(* login of the process has the first word, the places the second.          *)
Available == IF pending # None THEN login[pending] = "connected" ELSE Saved # None

(* The order in which a mutation writes, and what it writes in each place.  *)
(* One with a rollback reads the status back in the end, which may fail it. *)
Order(kind) ==
    CASE kind = "login" -> <<"shared", "agent", "runtime", "config", "sessions", "cli">>
      [] kind = "import" -> <<"shared", "agent", "runtime", "config", "sessions", "cli", "check">>
      [] kind = "sync" -> <<"shared", "agent", "runtime", "config", "sessions", "cli", "sync", "check">>
      [] kind = "clear" -> <<"shared", "agent", "runtime", "config", "cli", "sessions", "sync">>
      [] OTHER -> <<"cli", "sessions", "check">>

(* A mutant: sessions keep the profile they are pinned to.                  *)
PinStays(b) == disk.sessions

(* retargetCodexSessionAuthProfiles() moves a pin, clearCodexSessionAuth-    *)
(* Profiles() removes it.                                                   *)
Pin(b) == IF disk.sessions = None THEN None ELSE ProfileIn(b)

CliWith(r) ==
    LET cli == disk.cli IN
    CASE r.kind = "clear" -> [cli EXCEPT !.tokens = None,
                                         !.mode = IF @ # "chatgpt" THEN @ ELSE IF cli.key THEN "apikey" ELSE "none"]
      [] r.kind = "apikey" -> [cli EXCEPT !.mode = "apikey", !.key = TRUE]
      [] r.kind = "openai" -> [tokens |-> Saved, mode |-> "chatgpt", key |-> FALSE]
      [] OTHER -> [tokens |-> r.bundle, mode |-> "chatgpt", key |-> FALSE]

With(r, place) ==
    CASE place \in {"shared", "agent", "runtime"} -> [disk EXCEPT ![place] = r.bundle]
      [] place = "config" -> [disk EXCEPT !.config = [seen EXCEPT !.auth = r.bundle]]
      [] place = "sessions" -> [disk EXCEPT !.sessions = Pin(r.bundle)]
      [] place = "cli" -> [disk EXCEPT !.cli = CliWith(r)]
      [] place = "check" -> disk
      [] OTHER -> [disk EXCEPT !.sync = IF r.kind = "clear" THEN None
                                        ELSE [version |-> r.version, profile |-> ProfileOf[r.bundle]]]

(* What a mutation has a snapshot of, in the order it is restored.          *)
Kept(kind) ==
    CASE kind = "import" -> <<"config", "shared", "agent", "sessions", "cli", "runtime">>
      [] kind = "sync" -> <<"config", "shared", "agent", "sessions", "cli", "sync", "runtime">>
      [] OTHER -> <<"cli", "sessions">>

Guarded == {"import", "sync", "openai", "apikey"}    \* mutations with a rollback

-----------------------------------------------------------------------------
(* Requests.                                                                *)

Asks(r) ==
    /\ requests > 0 /\ requests' = requests - 1
    /\ queue' = Append(queue, r)
    /\ UNCHANGED <<disk, op, snap, seen, loginVars, modelVars, gwVars, trouble, torn, history>>

Ask(kind, b, v) == Asks([login |-> None, kind |-> kind, bundle |-> b, version |-> v])

Import(b) == Ask("import", b, 0)
Sync(b, v) == Ask("sync", b, v)
ClearOrSet(kind) == Ask(kind, None, 0)

(* startCodexLogin(); while a session is pending it is joined, or with      *)
(* forceRelink refused.                                                     *)
StartLogin(l) ==
    /\ requests > 0 /\ requests' = requests - 1
    /\ login[l] = "new"
    /\ pending # None => login[pending] \notin Waiting
    /\ login' = [login EXCEPT ![l] = "asking"]
    /\ pending' = l
    /\ UNCHANGED <<disk, opVars, got, modelVars, gwVars, trouble, torn, history>>

(* requestDeviceCode() answers and the start action returns.                *)
CodeGiven(l) ==
    /\ login[l] = "asking"
    /\ login' = [login EXCEPT ![l] = "polling"]
    /\ UNCHANGED <<disk, opVars, got, pending, modelVars, gwVars, requests, trouble, torn, history>>

(* A refused code, the deadline of 15 minutes, a failed exchange.           *)
LoginFails(l) ==
    /\ login[l] \in {"asking", "polling"}
    /\ login' = [login EXCEPT ![l] = "failed"]
    /\ UNCHANGED <<disk, opVars, got, pending, modelVars, gwVars, requests, trouble, torn, history>>

(* The user has entered the code and the tokens are there.                  *)
Authorized(l, b) ==
    /\ login[l] = "polling"
    /\ login' = [login EXCEPT ![l] = "queued"]
    /\ got' = [got EXCEPT ![l] = b]
    /\ queue' = Append(queue, [login |-> l, kind |-> "login", bundle |-> b, version |-> 0])
    /\ UNCHANGED <<disk, op, snap, seen, pending, modelVars, gwVars, requests, trouble, torn, history>>

-----------------------------------------------------------------------------
(* runCodexAuthMutationWithGatewayPaused()                                  *)

(* The end of a mutation, which lets the next one begin.  A complete one    *)
(* has settled whatever disagreed when it began.                            *)
Ends(ok) ==
    /\ op' = NoOp /\ snap' = NoDisk /\ seen' = NoConfig
    /\ login' = IF op.req.kind = "login"
                THEN [login EXCEPT ![op.req.login] = IF ok THEN "connected" ELSE "failed"]
                ELSE login

Takes ==
    /\ op.at = "idle" /\ queue # <<>>
    /\ queue' = Tail(queue)
    /\ op' = [NoOp EXCEPT !.at = "stop", !.req = Head(queue)]
    /\ UNCHANGED <<disk, snap, seen, loginVars, modelVars, gwVars, requests, trouble, torn, history>>

Stops ==
    /\ op.at = "stop"
    /\ op' = [op EXCEPT !.at = "begin", !.carry = torn]
    /\ gateway' = "down" /\ cache' = None
    /\ UNCHANGED <<disk, queue, snap, seen, loginVars, modelVars, requests, trouble, torn, history>>

(* systemctl stop fails, perhaps after the gateway went down: nothing is    *)
(* done, and nothing starts it again.                                       *)
StopFails ==
    /\ op.at = "stop"
    /\ \/ UNCHANGED <<gwVars, abandoned>>
       \/ gateway' = "down" /\ cache' = None /\ abandoned' = TRUE
    /\ Ends(FALSE)
    /\ UNCHANGED <<disk, queue, got, pending, modelVars, requests, torn, late, synced>>

(* A mutant: a lower version passes for a newer one.                        *)
SkipsOnlySame(r) ==
    /\ disk.sync # None /\ Saved # None
    /\ disk.sync.profile = ProfileOf[r.bundle] /\ disk.sync.version = r.version
    /\ ProfileIn(Saved) = disk.sync.profile

(* syncCodexAuthBundle(): "up_to_date".                                     *)
Skips(r) ==
    /\ disk.sync # None /\ Saved # None
    /\ disk.sync.profile = ProfileOf[r.bundle] /\ disk.sync.version >= r.version
    /\ ProfileIn(Saved) = disk.sync.profile

(* setCodexAuthMode() wants a login, or a key.                              *)
Refused(r) ==
    \/ r.kind = "openai" /\ (~Available \/ Saved = None)
    \/ r.kind = "apikey" /\ ~disk.cli.key /\ ~EnvKey

Begins ==
    LET r == op.req
        skip == r.kind = "sync" /\ Skips(r)
    IN /\ op.at = "begin"
       /\ op' = [op EXCEPT !.at = IF skip \/ Refused(r) THEN "start" ELSE "write",
                           !.i = 1, !.ok = ~Refused(r), !.carry = IF skip \/ Refused(r) THEN {} ELSE @]
       /\ snap' = IF r.kind \in Guarded THEN disk ELSE snap
       /\ UNCHANGED <<disk, queue, seen, loginVars, modelVars, gwVars, requests, trouble, torn, history>>

(* A mutant: a mutation that fails at once leaves the gateway stopped.      *)
BeginFailsDown ==
    /\ op.at = "begin"
    /\ Ends(FALSE)
    /\ UNCHANGED <<disk, queue, got, pending, modelVars, gwVars, requests, torn, history>>

(* A bundle that is expired or of another profile, a file that cannot be    *)
(* read for the snapshot.                                                   *)
BeginFails ==
    /\ op.at = "begin"
    /\ op' = [op EXCEPT !.at = "start", !.ok = FALSE, !.carry = {}]
    /\ UNCHANGED <<disk, queue, snap, seen, loginVars, modelVars, gwVars, requests, torn, history>>

Place == Order(op.req.kind)[op.i]

ReadsConfig ==
    /\ op.at = "write" /\ Place = "config"
    /\ seen' = disk.config
    /\ op' = [op EXCEPT !.at = "rewrite"]
    /\ UNCHANGED <<disk, queue, snap, loginVars, modelVars, gwVars, requests, trouble, torn, history>>

(* A mutant: an import keeps the login session that was pending.            *)
ForgetsNone(r) == pending

(* Import, an applied sync and clear reset pendingCodexLogin.               *)
Forgets(r) == IF r.kind \in {"import", "sync", "clear"} THEN None ELSE pending

(* One place after the other; after the last one the places agree.          *)
Writes ==
    LET r == op.req
        last == op.i = Len(Order(r.kind))
    IN /\ op.at = "rewrite" \/ (op.at = "write" /\ Place # "config")
       /\ disk' = With(r, Place)
       /\ op' = [op EXCEPT !.at = IF last THEN "start" ELSE "write", !.i = @ + 1]
       /\ pending' = IF last THEN Forgets(r) ELSE pending
       /\ torn' = IF last THEN torn \ (op.carry \cap Settles(r.kind)) ELSE torn
       /\ late' = \/ late /\ ~(last /\ Forgets(r) = None)
                  \/ r.kind = "login" /\ pending # r.login
       /\ synced' = IF last /\ r.kind = "sync" THEN synced \cup {disk'.sync} ELSE synced
       /\ UNCHANGED <<queue, snap, seen, login, got, modelVars, gwVars, requests, trouble, abandoned>>

(* What a mutation leaves that is broken off: a sync also its marker.       *)
Left == IF op.req.kind = "sync" THEN {"unfinished", "marker"} ELSE {"unfinished"}

(* A place cannot be read or written, or the final check fails.             *)
WriteFails ==
    /\ op.at \in {"write", "rewrite"}
    /\ IF op.req.kind \in Guarded
       THEN op' = [op EXCEPT !.at = "undo", !.ok = FALSE] /\ UNCHANGED torn
       ELSE op' = [op EXCEPT !.at = "start", !.ok = FALSE] /\ torn' = torn \cup Left
    /\ UNCHANGED <<disk, queue, snap, seen, loginVars, modelVars, gwVars, requests, history>>

Restored(places) == [p \in DOMAIN disk |-> IF p \in places THEN snap[p] ELSE disk[p]]

(* restoreFileSnapshots(), restoreCodexRuntimeAuthStore()                   *)
Undoes ==
    /\ op.at = "undo"
    /\ disk' = Restored(Range(Kept(op.req.kind)))
    /\ op' = [op EXCEPT !.at = "start"]
    /\ UNCHANGED <<queue, snap, seen, loginVars, modelVars, gwVars, requests, trouble, torn, history>>

UndoFails ==
    LET kept == Kept(op.req.kind) IN
    /\ op.at = "undo"
    /\ \E k \in 0..Len(kept) - 1 : disk' = Restored(Range(SubSeq(kept, 1, k)))
    /\ op' = [op EXCEPT !.at = "start"]
    /\ torn' = torn \cup Left
    /\ UNCHANGED <<queue, snap, seen, loginVars, modelVars, gwVars, requests, history>>

Loads == gateway' = "up" /\ cache' = ProfileIn(disk.runtime)

Starts ==
    /\ op.at = "start"
    /\ Loads /\ Ends(op.ok)
    /\ UNCHANGED <<disk, queue, got, pending, modelVars, requests, trouble, torn, history>>

(* The gateway is not healthy in time: the action fails even if the places  *)
(* have been changed.                                                       *)
StartFails ==
    /\ op.at = "start"
    /\ Loads \/ UNCHANGED gwVars
    /\ abandoned' = TRUE
    /\ Ends(FALSE)
    /\ UNCHANGED <<disk, queue, got, pending, modelVars, requests, torn, late, synced>>

-----------------------------------------------------------------------------
(* model.set and gateway.restart, which do not queue.                       *)

(* A reason for the places to disagree that the mutation under way does not *)
(* settle.                                                                  *)
Disturbs(reason, so) ==
    /\ torn' = IF so THEN torn \cup {reason} ELSE torn
    /\ op' = IF so THEN [op EXCEPT !.carry = @ \ {reason}] ELSE op

ModelReads ==
    /\ model = "idle"
    /\ model' = "read" /\ copy' = disk.config
    /\ UNCHANGED <<disk, opVars, loginVars, gwVars, requests, torn, history>>

ModelWrites ==
    /\ model = "read"
    /\ model' = "written"
    /\ disk' = [disk EXCEPT !.config = [copy EXCEPT !.model = TRUE]]
    /\ copy' = NoConfig
    /\ Disturbs("config", copy.auth # disk.config.auth)
    /\ UNCHANGED <<queue, snap, seen, loginVars, gwVars, requests, trouble, history>>

(* restartGatewayService()                                                  *)
Restarts ==
    /\ Loads
    /\ Disturbs("started", op.at \in {"begin", "write", "rewrite", "undo"})
    /\ UNCHANGED <<disk, queue, snap, seen, loginVars, copy, requests, history>>

ModelRestarts == model = "written" /\ model' = "idle" /\ Restarts /\ UNCHANGED trouble
GatewayRestart == UNCHANGED model /\ Restarts

(* The gateway pins a session to the profile it has loaded.                 *)
GatewayPins ==
    /\ gateway = "up" /\ cache \notin {None, disk.sessions}
    /\ disk' = [disk EXCEPT !.sessions = cache]
    /\ UNCHANGED <<opVars, loginVars, modelVars, gwVars, requests, trouble, torn, history>>

(* The relay's process dies and is started again; a gateway it had stopped  *)
(* stays down.                                                              *)
Crash ==
    /\ op' = NoOp /\ queue' = <<>> /\ snap' = NoDisk /\ seen' = NoConfig
    /\ login' = [l \in Login |-> IF login[l] \in Waiting THEN "gone" ELSE login[l]]
    /\ pending' = None /\ model' = "idle" /\ copy' = NoConfig
    /\ torn' = IF op.at \in {"write", "rewrite", "undo"} THEN torn \cup Left ELSE torn
    /\ abandoned' = (abandoned \/ gateway = "down")
    /\ UNCHANGED <<disk, got, gwVars, requests, late, synced>>

-----------------------------------------------------------------------------
Mutates == Takes \/ Stops \/ Begins \/ ReadsConfig \/ Writes \/ Undoes \/ Starts

Trouble ==
    \/ StopFails \/ BeginFails \/ WriteFails \/ UndoFails \/ StartFails
    \/ ModelReads \/ GatewayRestart \/ Crash

Next ==
    \/ \E b \in Bundle : Import(b) \/ \E v \in 1..MaxVersion : Sync(b, v)
    \/ \E kind \in {"clear", "openai", "apikey"} : ClearOrSet(kind)
    \/ \E l \in Login :
         StartLogin(l) \/ CodeGiven(l) \/ LoginFails(l) \/ \E b \in Bundle : Authorized(l, b)
    \/ Mutates
    \/ ModelWrites \/ ModelRestarts \/ GatewayPins
    \/ trouble > 0 /\ trouble' = trouble - 1 /\ Trouble

Spec == Init /\ [][Next]_vars

(* The chain of mutations goes on, and a device login has a deadline.       *)
FairSpec == Spec /\ WF_vars(Mutates) /\ \A l \in Login : WF_vars(LoginFails(l))

-----------------------------------------------------------------------------
Agreed ==
    /\ disk.shared = disk.runtime /\ disk.agent = disk.runtime /\ disk.config.auth = disk.runtime
    /\ disk.cli.mode = "chatgpt" => disk.cli.tokens = disk.runtime
    /\ disk.sessions # None => disk.sessions = ProfileIn(disk.runtime)

(* Wherever a mutation fails and whatever it undoes, a gateway that runs    *)
(* finds one login in all the places and sessions pinned to no other; but   *)
(* for three reasons in the code: a login or a clear that failed half-way,  *)
(* or a rollback or process that did; a restart in between; a config that   *)
(* model.set had read before.  Each lasts until the next complete mutation. *)
GatewayRunsAgreed ==
    gateway = "up" /\ torn \subseteq {"marker"} => Agreed /\ cache = ProfileIn(disk.runtime)

(* What the status action reports as connected is the login that is there,  *)
(* unless a device login that an import or a clear made the process forget  *)
(* has been stored after all.                                               *)
StatusIsTrue ==
    pending # None /\ op.at = "idle" /\ torn \subseteq {"marker"} /\ ~late =>
        (login[pending] = "connected" => disk.runtime = got[pending])

(* README: "Versions are monotonic within one OpenAI profile; switching to  *)
(* a different profile applies even when its account-local version is       *)
(* lower."                                                                   *)
SyncMonotonic ==
    [][ disk.sync # None /\ disk'.sync # None /\ disk'.sync.profile = disk.sync.profile
        /\ disk'.sync.version < disk.sync.version
        => op.at = "undo" \/ ProfileIn(snap.runtime) # disk.sync.profile ]_vars

(* The version marker is that of a sync that was applied, unless a rollback  *)
(* failed or the process died in a sync: an import leaves that marker.      *)
MarkerIsEarned == op.at = "idle" /\ "marker" \notin torn => disk.sync \in synced \cup {None}

(* Every mutation comes to its end, also behind one that failed, and the    *)
(* gateway is started after it, unless systemctl failed or the process died. *)
ComesToRest == []<>(queue = <<>> /\ op.at = "idle" /\ (gateway = "up" \/ abandoned))

(* README: "stop the OpenClaw gateway before changing auth stores and       *)
(* restart it only after the session pins and credentials agree".           *)
StartedOnlyWhenAgreed == gateway = "up" => Agreed
=============================================================================
